SPECIFICATION Spec
CONSTANTS
  n1 = n1
  n2 = n2
  n3 = n3
  r1 = r1
  a = a
  b = b
  None = None
  Nodes = {n1, n2, n3, r1}
  Slots = {a, b}
  Home <- HomeDef
  ReplicaOf <- ReplicaDef
  Failover = "NONE"
  Calls = {"write", "multi", "exec"}
  Happens = {"refuse", "move"}
  Timeouts = FALSE
  MaxCalls = 4
  MaxEvents = 1
  Explored = {}
CHECK_DEADLOCK FALSE
INVARIANT
  NothingUnreadAfterAbort
