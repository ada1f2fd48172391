------------------------------- MODULE MCPlan -------------------------------
(* Instances of MonitoringPlan for TLC. *)
EXTENDS MonitoringPlan, TLC

CONSTANTS a, b

Filings(inA, inB) == (a :> inA) @@ (b :> inB)

\* The unattended runner; the source changes what it has listed.
Unattended ==
  [driver |-> "runner", window |-> 2, filings |-> Filings(1, 1), limit |-> 3,
   backdated |-> TRUE, amendments |-> TRUE, hasty |-> TRUE, edits |-> 0]
\* The runner with the shortest window that its configuration accepts.
OneDay == [Unattended EXCEPT !.window = 1, !.filings = Filings(2, 1), !.amendments = FALSE]
\* The runner under a limit that two filings of one listing exceed.
Crowded == [Unattended EXCEPT !.filings = Filings(2, 1), !.limit = 1, !.amendments = FALSE]
\* The runner under a watchlist that changes.
Edited == [Unattended EXCEPT !.amendments = FALSE, !.edits = 2]
\* The operator, with the window derived from the cursors and any as_of.
ByHand == [Edited EXCEPT !.driver = "operator"]
ByHandCrowded == [Crowded EXCEPT !.driver = "operator"]
\* A day that an as_of takes for over goes on.
ByHandHasty == [ByHand EXCEPT !.filings = Filings(2, 1), !.backdated = FALSE, !.edits = 0]
\* One listing is far ahead of another, and no as_of runs ahead.
ByHandLagging ==
  [ByHand EXCEPT !.filings = Filings(3, 1), !.backdated = FALSE, !.hasty = FALSE]

AllScopes ==
  {Unattended, OneDay, Crowded, Edited, ByHand, ByHandCrowded, ByHandHasty, ByHandLagging}
=============================================================================
