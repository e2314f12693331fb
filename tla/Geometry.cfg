CONSTANTS
  c1 = c1
  c2 = c2
  c3 = c3
  Client = {c1, c2, c3}
  NULL = NULL
  NTag = 2
  MaxMon = 2
  Wide = {1}
  MaxMaster = 3
  Modes <- TwoModes
  BarHeight = 30
  Shapes <- Windows
  Requests <- Asked
  Places <- DragPlaces
  Sizes <- DragSizes
  CFactSteps = {5, 0}
  ColFactSteps = {115}
  MFactSteps = {20}
  MaxCols = 2
  Ops <- AllOps
SYMMETRY ClientSymmetry
SPECIFICATION MCSpec
CONSTRAINT Bounds
INVARIANTS TilesFit ArrangeBringsBack
PROPERTIES FullscreenCovers FullscreenRestores ServerKnowsSize DropFollowsWindow
