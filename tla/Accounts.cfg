SPECIFICATION AccountsSpec
CONSTANTS
  UserIds = {1, 2}
  Identities = {i1, i2}
  Locals = {"a"}
  Hosts = {"x", "y"}
  MaxSuffix = 2
  None = None
  Members = {1, 2}
  Threads = {t1, t2}
  NoUser = NoUser
  Idle = Idle
  Keep = Keep
INVARIANTS
  IdentitiesAreOwn
  AdminRemains
PROPERTIES
  LinkIsKept
  OtherFlagKept
SYMMETRY Symmetry
