\* From the disclosure list to the committed cursors.
SPECIFICATION FairSpec
CONSTANTS
  a = a
  b = b
  None = None
  Listings = {a, b}
  MaxFilings = 3
  Days = 3
  Scopes <- AllScopes
CHECK_DEADLOCK FALSE
INVARIANTS
  TypeOK
  StaleMeansLate
  DecidedOnce
  PassedIsDecided
PROPERTIES
  TimelyIsDecided
