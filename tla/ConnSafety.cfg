SPECIFICATION Spec
CONSTANTS
  c1 = c1
  c2 = c2
  None = None
  Data = {c1, c2}
  Dbs = {1}
  Methods = {"command", "select", "watch", "unwatch", "multi", "pipeline", "exec", "discard", "reset", "close", "reconnect", "connect", "destruct"}
  Persistent = TRUE
  Shapes = {"line", "bulk"}
  Refusals = TRUE
  MaxQueue = 3
  Explored = {"dbUnseen"}
SYMMETRY Symmetry
INVARIANTS
  TypeOK
  RepliesMatched
  ServerMirrored
  PipelineMirrored
PROPERTIES
  NoSilentReconnect
