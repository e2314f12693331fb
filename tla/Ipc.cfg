SPECIFICATION Spec
CONSTANTS
  p1 = p1
  p2 = p2
  NULL = NULL
  Peer = {p1, p2}
  Event = {"tag", "focus"}
  Capacity = 1
  MaxLog = 2
  Scripts <- Workloads
  Ops = {"kill", "x events"}
INVARIANTS
  TypeOK
  
  SubscribersInformed
  BufferWatched
PROPERTIES
  
  
  GonePeersDropped
CHECK_DEADLOCK FALSE
