SPECIFICATION Spec
CONSTANTS
  c1 = c1
  c2 = c2
  None = None
  Data = {c1, c2}
  Dbs = {1}
  Methods = {"connect", "command", "multi", "exec"}
  Persistent = FALSE
  Shapes = {"line"}
  Refusals = FALSE
  MaxQueue = 3
  Explored = {"leftover"}
SYMMETRY Symmetry
INVARIANTS
  ExecAnswersTheBlock
