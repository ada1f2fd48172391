\* A crash between the staged plan and the commit of a run without events.
SPECIFICATION Spec
CONSTANTS
  p1 = p1
  p2 = p2
  e = e
  m = m
  u = u
  Procs = {p1, p2}
  Cycles = {a, b}
  Events = {e, m, u}
  Minor = {m}
  Urgent = {u}
  None = None
  Initial = Initial
  Scopes <- OneScope
INVARIANTS
  CrashIsRestartSafe
