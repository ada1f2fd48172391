\* Two invocations, both policies, a receiver that may act and still refuse.
SPECIFICATION FairSpec
CONSTANTS
  Workers = {w1, w2}
  NoWorker = NoWorker
  Settings <- MCBothPolicies
  MaxSlots = 3
  Outboxes = {"alerts", "none"}
  RejectAfterApply = TRUE
  MaxAborts = 2
INVARIANTS
  TypeOK
  DispatchBudget
  LedgerNeverConflicts
  AtMostOneEffect
PROPERTIES
  TerminalIsFinal
  KeepsContract
  BackoffRespected
  NoResendAfterUncertainty
  EventuallySettled
