\* Two overlapping wakes, deaths, edits and torn records; every as_of.
SPECIFICATION FairSpec
CONSTANTS
  Wakes = {w1, w2}
  NoWake = NoWake
  Lists = {l1, l2}
  Caches = {c1}
  Pins = {0, 1, 2}
  MaxPit = 2
  NoActivation = NoActivation
  NoIntent = NoIntent
  NoList = NoList
  DiskFills = TRUE
  MaxAborts = 1
  MaxEdits = 2
INVARIANTS
  TypeOK
  StoreNeverConflicts
PROPERTIES
  CyclesInSequence
  StartedIsFinished
