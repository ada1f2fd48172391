\* Activations, rollbacks, the owner's edits and the trust root.
SPECIFICATION FairSpec
CONSTANTS
  w1 = w1
  w2 = w2
  p1 = p1
  p2 = p2
  v1 = v1
  v2 = v2
  v3 = v3
  plain = plain
  edited = edited
  Writers = {w1, w2}
  Keys = {k1, k2}
  Founders = {k1}
  MaxSnapshots = 3
  MaxMishaps = 1
  Procs = {p1, p2}
  Profiles = {v1, v2, v3}
  Rests = {plain, edited}
  Original <- First
  Releases <- AllReleases
  k1 = k1
  k2 = k2
  Signer = k1
  None = None
  Scopes <- AllScopes
CHECK_DEADLOCK FALSE
INVARIANTS
  TypeOK
  GrantedStays
  StatusIsTrue
PROPERTIES
  RevocationBars
  InterruptedIsFinished
  SwitchesSafely
