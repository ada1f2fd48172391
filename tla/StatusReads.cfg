\* A reader beside two deliveries with two deaths.
SPECIFICATION ReaderSpec
CONSTANTS
  Workers = {w1, w2}
  NoWorker = NoWorker
  Settings <- MCBothPolicies
  MaxSlots = 2
  Outboxes = {"alerts"}
  RejectAfterApply = FALSE
  MaxAborts = 2
SYMMETRY MCSymmetry
INVARIANTS
  ReaderEvidenceValid
  QuietReadIsClean
