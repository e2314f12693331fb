CONSTANTS
  c1 = c1
  c2 = c2
  c3 = c3
  Client = {c1, c2, c3}
  NULL = NULL
  NTag = 2
  MaxMon = 2
  Wide = {1}
  MaxMaster = 2
  Kinds <- OrderKinds
  Ops <- OrderOps
SYMMETRY ClientSymmetry
SPECIFICATION MCSpec
INVARIANTS TypeOK ListsAgree PushAndZoomUndo FocusStackCycles
PROPERTIES FocusHistoryKept ClientsKept
CHECK_DEADLOCK FALSE
