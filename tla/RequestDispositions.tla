------------------------- MODULE RequestDispositions -------------------------
(***************************************************************************)
(* What the monitoring cycle knows of its re-analysis requests             *)
(* (src/turtle_value_engine/monitoring_cycle/service.py), without attempts, *)
(* artifacts, pointers or executors: an execution answers a request, and    *)
(* what is resolved stays so.  ReanalysisJobs guarantees it where            *)
(* executions do not overlap, and MonitoringCycle executes by it.           *)
(***************************************************************************)
CONSTANTS
  Tasks,       \* requests of committed runs
  NoWork       \* those whose impact needs no work

VARIABLE
  disposition  \* what the gate reads of each request

Init == disposition = [r \in Tasks |-> "MISSING"]

(* An execution may resolve a request, or leave it blocked or failed. *)
Answers(r) ==
  IF disposition[r] = "RESOLVED" \/ r \in NoWork THEN {"RESOLVED"}
  ELSE {"RESOLVED", "UNRESOLVED"}

Execute(r) ==
  \E d \in Answers(r) : disposition' = [disposition EXCEPT ![r] = d]

Next == \E r \in Tasks : Execute(r)

Spec == Init /\ [][Next]_disposition
=============================================================================
