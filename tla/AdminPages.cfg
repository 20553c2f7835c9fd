SPECIFICATION AdminSpec
CONSTANTS
  Workers = {w1, w2}
  Kinds = {"marker", "not logged out", "left login"}
  MaxRestarts = 1
  Nobody = Nobody
  Flows = {f1, f2}
  Keys = {k1, k2, k3}
  Secrets = {s1, s2}
  None = None
  Requests = {r1, r2}
  Names = {"a", "b", "c"}
  MaxLetters = 2
  Known = {"digest"}
  Forgotten = {"old"}
  Judges = {"judge"}
  Slugs = {"x", "y"}
  MaxAsked = 4
  Unset = Unset
INVARIANTS
  SessionIsSound
  
  KeyIsResolved
  
PROPERTIES
  LoginEnds
CHECK_DEADLOCK FALSE
