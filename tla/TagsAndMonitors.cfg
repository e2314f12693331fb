CONSTANTS
  c1 = c1
  c2 = c2
  Client = {c1, c2}
  NULL = NULL
  NTag = 2
  MaxMon = 2
  Wide = {}
  MaxMaster = 1
  Kinds <- TagAndMonitorKinds
  Ops <- TagAndMonitorOps
SPECIFICATION MCSpec
INVARIANTS TagsNotEmpty SelIsTopVisible SelOwned ScreenShowsView
PROPERTIES StolenFocusReturns OthersUndisturbed KeyboardFollows
