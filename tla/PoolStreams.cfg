\* Two objects on up to two or three streams; the default settings with pool_pattern, and without the probe.
SPECIFICATION Spec
CONSTANTS
  o1 = o1
  o2 = o2
  s1 = s1
  s2 = s2
  s3 = s3
  u1 = u1
  None = None
  NoAuth = NoAuth
  Objects = {o1, o2}
  Streams = {s1, s2, s3}
  Users = {u1}
  Dbs = {1}
  Settings <- SettingsDef
  MaxRekeys = 1
SYMMETRY Symmetry
INVARIANTS TypeOK Accounted OwnReplies OwnSession
