SPECIFICATION FairSpec
CONSTANTS
  n1 = n1
  n2 = n2
  n3 = n3
  r1 = r1
  a = a
  b = b
  None = None
  Nodes = {n1, n2, n3, r1}
  Slots = {a, b}
  Home <- HomeDef
  ReplicaOf <- ReplicaDef
  Failover = "ERROR"
  Calls = {"write", "read", "directed", "multi", "exec", "discard", "watch", "unwatch", "close", "reconnect"}
  Happens = {"touch", "move", "ask", "drop", "crash", "refuse", "unmapped"}
  Timeouts = TRUE
  MaxCalls = 5
  MaxEvents = 1
  Explored = {}
CHECK_DEADLOCK FALSE
INVARIANTS
  TypeOK
  RepliesMatched
  TxMirrored
PROPERTIES
  WatchHonoured
  RunsAsAsked
  CallReturns
