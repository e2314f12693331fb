CONSTANTS
  c1 = c1
  c2 = c2
  Client = {c1, c2}
  NULL = NULL
  NTag = 2
  MaxMon = 1
  Wide = {}
  MaxMaster = 1
  Kinds <- HintKinds
  Ops <- ChordAndHintOps
SYMMETRY ClientSymmetry
SPECIFICATION MCSpec
INVARIANTS ScreenShowsView SelectedNotUrgent FullscreenFloats
  RememberedViewRestored
PROPERTIES CreateTagFollows
