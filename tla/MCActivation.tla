---------------------------- MODULE MCActivation ----------------------------
(* Instances of ActivationExecution for TLC. *)
EXTENDS ActivationStatus, TLC

CONSTANTS k1, k2, w1, w2, p1, p2, v1, v2, v3, plain, edited

First == [default |-> v1, rest |-> plain]

\* Three builds of the second version, each with a decision of its own, and
\* the third version.
Build(b) == [base |-> v1, target |-> v2, build |-> b]
Third == [base |-> v2, target |-> v3, build |-> "a"]
Builds == {Build("a"), Build("b"), Build("c")}
AllReleases == Builds \union {Third}

\* Two commands race for the trust root.
Enrolment ==
  [writers |-> {w1, w2}, procs |-> {}, releases |-> {},
   snapshots |-> 3, mishaps |-> 1, edits |-> 0, deaths |-> 0]
\* Two invocations meet at the lock.
Contention ==
  [writers |-> {}, procs |-> {p1, p2}, releases |-> {Build("a"), Build("b"), Third},
   snapshots |-> 1, mishaps |-> 0, edits |-> 0, deaths |-> 0]
\* The authority moves under one invocation.
Authority ==
  [writers |-> {w1}, procs |-> {p1}, releases |-> {Build("a")},
   snapshots |-> 2, mishaps |-> 0, edits |-> 0, deaths |-> 1]
\* The owner edits the configuration under one invocation.
Editing ==
  [writers |-> {}, procs |-> {p1}, releases |-> {Build("a")},
   snapshots |-> 1, mishaps |-> 0, edits |-> 1, deaths |-> 1]

\* One invocation at a time, which dies and is repeated.
Resumption == [Contention EXCEPT !.procs = {p1}, !.deaths = 2]
\* One invocation at a time, again and again.
Succession == [Resumption EXCEPT !.releases = Builds, !.deaths = 0]

OnlyEnrolment == {Enrolment}
OnlyResumption == {Resumption}
AllScopes == {Enrolment, Contention, Authority, Editing, Resumption, Succession}
=============================================================================
