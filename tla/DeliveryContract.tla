-------------------------- MODULE DeliveryContract --------------------------
(***************************************************************************)
(* What a delivery promises the owner and the receiver of one alert batch  *)
(* (src/turtle_value_engine/monitoring_delivery/service.py), without       *)
(* ledger, lock, invocations or deaths: the terms are agreed once, requests *)
(* leave one by one within the terms, they arrive whenever the network     *)
(* brings them, and one verdict is published, which is true and final.     *)
(***************************************************************************)
EXTENDS Naturals

CONSTANTS
  Terms,     \* what may be agreed: max requests, declared idempotency
  NoTerms,   \* nothing is agreed yet
  Requests   \* what may be on its way to the receiver

VARIABLES
  terms,     \* what was agreed
  sent,      \* how often the transport was entered
  underway,  \* requests that the receiver has yet to meet
  acted,     \* how often the receiver acted
  honest,    \* it refused nothing that it acted on
  verdict    \* the final word, once there is one

vars == <<terms, sent, underway, acted, honest, verdict>>

Verdicts == {"NOOP", "DELIVERED", "PERMANENT_FAILURE", "AMBIGUOUS"}

Init ==
  /\ terms = NoTerms
  /\ sent = 0
  /\ underway = {}
  /\ acted = 0
  /\ honest = TRUE
  /\ verdict = "OPEN"

Agree(t) ==
  /\ terms = NoTerms
  /\ terms' = t
  /\ UNCHANGED <<sent, underway, acted, honest, verdict>>

(* Nothing acted, and nothing ever will: what a failure says. *)
Failed == underway = {} /\ (honest => acted = 0)

(* A request leaves, or fails before it does.  Without declared idempotency  *)
(* none leaves while an earlier one may have been, or may yet be, acted on.  *)
Send(requests) ==
  /\ terms \in Terms /\ sent < terms.max
  /\ verdict = "OPEN"
  /\ ~terms.idem => Failed
  /\ sent' = sent + 1
  /\ underway' = underway \union requests
  /\ UNCHANGED <<terms, acted, honest, verdict>>

(* The receiver acts on a request, refuses it, or acts and still refuses. *)
Arrive(r) ==
  /\ r \in underway
  /\ underway' = underway \ {r}
  /\ \/ acted' = acted /\ honest' = honest
     \/ acted' = acted + 1 /\ honest' \in BOOLEAN /\ (honest' => honest)
  /\ UNCHANGED <<terms, sent, verdict>>

(* The final word, which holds also for what happens later. *)
Settle(v) ==
  /\ verdict = "OPEN"
  /\ terms \in Terms
  /\ v = "NOOP" => sent = 0
  /\ v = "DELIVERED" => acted > 0
  /\ v = "PERMANENT_FAILURE" /\ ~terms.idem => Failed
  /\ verdict' = v
  /\ UNCHANGED <<terms, sent, underway, acted, honest>>

Next ==
  \/ \E t \in Terms : Agree(t)
  \/ Send({})
  \/ \E r \in Requests \ underway : Send({r})
  \/ \E r \in Requests : Arrive(r)
  \/ \E v \in Verdicts : Settle(v)

Spec == Init /\ [][Next]_vars

-----------------------------------------------------------------------------
(* The receiver acts at most once for each request, and the terms bound the  *)
(* requests.                                                                 *)
WithinTerms == acted <= sent /\ (terms \in Terms => sent <= terms.max)

(* Without declared idempotency a receiver that refuses nothing it acted on  *)
(* acts at most once.                                                        *)
ActsOnce == terms \in Terms /\ ~terms.idem /\ honest => acted <= 1

(* The verdict is true when it is published and remains so. *)
VerdictIsTrue ==
  /\ verdict = "NOOP" => sent = 0 /\ acted = 0
  /\ verdict = "DELIVERED" => acted > 0
  /\ verdict = "PERMANENT_FAILURE" /\ ~terms.idem => Failed
=============================================================================
