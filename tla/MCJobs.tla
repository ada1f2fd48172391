------------------------------- MODULE MCJobs -------------------------------
(* Instances of ReanalysisJobs for TLC. *)
EXTENDS ReanalysisJobs, TLC

CONSTANTS partial, full, urgent, day, e1, e2, bare, equipped

\* Two analyses of one listing on one day, and an impact without work.
Impacts ==
  (partial :> "PARTIAL_REANALYSIS") @@ (full :> "FULL_REANALYSIS")
    @@ (urgent :> "URGENT_MANUAL_REVIEW")
OneDay == [j \in Jobs |-> day]

\* One invocation at a time, retried and dying, or two that overlap.
InTurn ==
  [executors |-> {e1}, jobs |-> {partial, full, urgent}, caps |-> {bare, equipped},
   attempts |-> 3, crashes |-> 2]
Overlapping ==
  [executors |-> {e1, e2}, jobs |-> {partial, full, urgent}, caps |-> {equipped},
   attempts |-> 1, crashes |-> 0]

BothScopes == {InTurn, Overlapping}
OneScope == {InTurn}
=============================================================================
