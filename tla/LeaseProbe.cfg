\* Two holders, three records, the probe's own retry bound.
SPECIFICATION Spec
CONSTANTS
  Holders = {h1, h2}
  NoHolder = NoHolder
  NoFile = NoFile
  MaxRecords = 3
  ProbeAttempts = 3
SYMMETRY Symmetry
INVARIANTS
  RecordBelongsToHolder
PROPERTIES
  AbandonedBytesAreProven
