CONSTANTS
  c1 = c1
  c2 = c2
  Client = {c1, c2}
  NULL = NULL
  NTag = 1
  MaxMon = 1
  Wide = {}
  MaxMaster = 1
  Kinds <- ChordKinds
  Ops <- PushUpOps
SYMMETRY ClientSymmetry
SPECIFICATION Spec
INVARIANTS NoClientLost
CHECK_DEADLOCK FALSE
