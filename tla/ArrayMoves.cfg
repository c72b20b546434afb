SPECIFICATION Spec
CONSTANTS
  c1 = c1
  c2 = c2
  n1 = n1
  n2 = n2
  k1 = k1
  k2 = k2
  k3 = k3
  None = None
  Clients = {c1, c2}
  Hosts <- HostsDef
  PrevHosts <- PrevDef
  Keys = {k1, k2, k3}
  Hash <- HashDef
  Top = 15
  TypeOf <- TypeDef
  Index = TRUE
  AutoRehash = TRUE
  Inputs <- InputsDef
  Ttls <- TtlsDef
  MaxEvents = 3
  AtFirst <- FirstDef
  MaxFaults = 1
SYMMETRY Symmetry
CHECK_DEADLOCK FALSE
INVARIANTS
  TypeOK
  ReadsFresh
  RehashFindsAll
  NothingLeftOpen
PROPERTIES
  OnlyWritesShow
