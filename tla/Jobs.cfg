\* Invocations in turn that die anywhere, and two that overlap.
SPECIFICATION FairSpec
CONSTANTS
  partial = partial
  full = full
  urgent = urgent
  day = day
  e1 = e1
  e2 = e2
  bare = bare
  equipped = equipped
  Executors = {e1, e2}
  Jobs = {partial, full, urgent}
  ImpactOf <- Impacts
  Ids = {day}
  IdOf <- OneDay
  Caps = {bare, equipped}
  Runtimes = {equipped}
  Contents = {c1, c2}
  Codes = {f1}
  None = None
  Scopes <- BothScopes
INVARIANTS
  TypeOK
  ResultsAreLoadable
PROPERTIES
  SettledStaysSettled
  EveryJobConcluded
