CONSTANTS
  c1 = c1
  c2 = c2
  Client = {c1, c2}
  NULL = NULL
  NTag = 2
  MaxMon = 2
  Wide = {}
  MaxMaster = 1
  Kinds <- EventKinds
  Ops <- EventOps
SYMMETRY ClientSymmetry
SPECIFICATION EventsSpec
CONSTRAINT Bounds
INVARIANTS SubscriberKnows LastValuesAlive
PROPERTIES MonitorEventsTimely
