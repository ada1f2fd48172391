\* A success behind an older pointer.
SPECIFICATION Spec
CONSTANTS
  partial = partial
  full = full
  urgent = urgent
  day = day
  e1 = e1
  e2 = e2
  bare = bare
  equipped = equipped
  Executors = {e1, e2}
  Jobs = {partial, full, urgent}
  ImpactOf <- Impacts
  Ids = {day}
  IdOf <- OneDay
  Caps = {bare, equipped}
  Runtimes = {equipped}
  Contents = {c1, c2}
  Codes = {f1}
  None = None
  Scopes <- OneScope
PROPERTIES
  SuccessIsReused
