------------------------------ MODULE MCCycle ------------------------------
(* Instances of MonitoringCycle for TLC. *)
EXTENDS MonitoringCycle, TLC

CONSTANTS p1, p2, e, m, u

\* One invocation under the runner, dying, or two without its lease.
Unattended ==
  [procs |-> {p1}, events |-> {e, m, u}, crashes |-> 2, ordered |-> TRUE]
Overlapping ==
  [procs |-> {p1, p2}, events |-> {e, u}, crashes |-> 0, ordered |-> FALSE]
\* One invocation by hand, which leaves an interrupted cycle behind for another.
ByHand ==
  [procs |-> {p1}, events |-> {e}, crashes |-> 1, ordered |-> FALSE]

AllScopes == {Unattended, Overlapping, ByHand}
OneScope == {Unattended}
=============================================================================
