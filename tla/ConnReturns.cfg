SPECIFICATION FairSpec
CONSTANTS
  c1 = c1
  c2 = c2
  None = None
  Data = {c1}
  Dbs = {1}
  Methods = {"connect", "command", "multi", "pipeline", "exec", "discard", "close"}
  Persistent = FALSE
  Shapes = {"line", "bulk"}
  Refusals = TRUE
  MaxQueue = 2
  Explored = {"leftover", "dbUnseen"}
PROPERTIES
  CallsReturn
