\* The runner's invocation, dying anywhere, and two that overlap.
SPECIFICATION FairSpec
CONSTANTS
  p1 = p1
  p2 = p2
  e = e
  m = m
  u = u
  Procs = {p1, p2}
  Cycles = {a, b}
  Events = {e, m, u}
  Minor = {m}
  Urgent = {u}
  None = None
  Initial = Initial
  Scopes <- AllScopes
INVARIANTS
  TypeOK
  CommittedIsProven
  NeverRefused
  NoSilentEvents
  QuietResultIsTrue
PROPERTIES
  GateHolds
  CommitsExtend
  CyclesTerminate
