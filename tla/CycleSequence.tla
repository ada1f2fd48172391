---------------------------- MODULE CycleSequence ----------------------------
(***************************************************************************)
(* The order in which the unattended runner                                *)
(* (src/turtle_value_engine/monitoring_runner/service.py) runs cycles,     *)
(* without lease, pointers, receipts or invocations.  MonitoringRunner     *)
(* guarantees it and MonitoringCycle relies on it: a cycle that was left   *)
(* without its result is entered again before any other one is.            *)
(***************************************************************************)
CONSTANT Cycles

VARIABLES
  started,   \* cycles that were ever entered
  ended,     \* those with a durable terminal result
  running    \* those that run now

vars == <<started, ended, running>>

Init == started = {} /\ ended = {} /\ running = {}

(* No other cycle waits for its result. *)
InTurn(c) == started \ ended \subseteq {c}

Enter(c) ==
  /\ running = {}
  /\ c \notin ended
  /\ InTurn(c)
  /\ started' = started \union {c}
  /\ running' = {c}
  /\ UNCHANGED ended

(* The cycle publishes its terminal pair. *)
Finish(c) ==
  /\ c \in running
  /\ ended' = ended \union {c}
  /\ running' = running \ {c}
  /\ UNCHANGED started

(* The invocation dies, or the cycle raises. *)
Break(c) ==
  /\ c \in running
  /\ running' = running \ {c}
  /\ UNCHANGED <<started, ended>>

Next == \E c \in Cycles : Enter(c) \/ Finish(c) \/ Break(c)

Spec == Init /\ [][Next]_vars

-----------------------------------------------------------------------------
(* At most one cycle is open, and none runs but that one: there are never    *)
(* two staged plans that may still be committed.                             *)
OneOpen ==
  /\ \A c, d \in started \ ended : c = d
  /\ running \subseteq started \ ended
  /\ ended \subseteq started
=============================================================================
