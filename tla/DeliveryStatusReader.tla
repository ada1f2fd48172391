------------------------ MODULE DeliveryStatusReader ------------------------
(***************************************************************************)
(* `tve watch delivery-status` beside running deliveries: the read-only    *)
(* projection lists attempts, then claims, then loads the pointer, without *)
(* the per-delivery lock (delivery_status_projection).                     *)
(***************************************************************************)
EXTENDS MonitoringDelivery

VARIABLES
  position,  \* the next file family the reader loads
  seen,      \* the attempts and claims it loaded
  verdict,   \* pointer_status it reports, or CONFLICT when it fails closed
  quiet      \* no invocation held the lock since the read began

reader == <<position, seen, verdict, quiet>>

NothingSeen == [attempts |-> [s \in Slots |-> NoOutcome], claims |-> {}]

ReaderInit ==
  /\ position = "attempts"
  /\ seen = NothingSeen
  /\ verdict = "NONE"
  /\ quiet = TRUE

(* The two listings are separate reads of a ledger that may move. *)
Load_claimsFirst(pos) ==
  IF pos = "attempts" THEN [NothingSeen EXCEPT !.claims = claims]
  ELSE [seen EXCEPT !.attempts = attempts]
Load(pos) ==
  IF pos = "attempts" THEN [NothingSeen EXCEPT !.attempts = attempts]
  ELSE [seen EXCEPT !.claims = claims]

ReadAttempts ==
  /\ position = "attempts"
  /\ intent # NoIntent
  /\ seen' = Load(position)
  /\ position' = "claims"
  /\ verdict' = "NONE"
  /\ quiet' = (holder = NoWorker)
  /\ UNCHANGED vars

ReadClaims ==
  /\ position = "claims"
  /\ seen' = Load(position)
  /\ position' = "pointer"
  /\ UNCHANGED <<vars, verdict, quiet>>

(* validate_dispatch_evidence over what was loaded *)
SeenEvidenceValid ==
  /\ Cardinality(seen.claims) <= intent.max
  /\ Recorded(seen.attempts) \subseteq seen.claims

(* _classify_published_pointer *)
PointerStatus(p, d) ==
  CASE p = NoState -> "MISSING"
    [] p = d -> "CURRENT"
    [] p \notin {NoState, d} /\ Behind(p, d) -> "STALE_REPAIRABLE"
    [] OTHER -> "CONFLICT"

ReadPointer ==
  /\ position = "pointer"
  /\ SeenEvidenceValid
  /\ verdict' = PointerStatus(published, Derive(intent, seen.claims, seen.attempts))
  /\ position' = "attempts"
  /\ seen' = NothingSeen
  /\ UNCHANGED <<vars, quiet>>

(* The reader notices nothing of the deliveries around it. *)
DeliveryStep ==
  /\ Next
  /\ quiet' = (quiet /\ holder' = NoWorker)
  /\ UNCHANGED <<position, seen, verdict>>

ReaderSpec ==
  /\ Init /\ ReaderInit
  /\ [][DeliveryStep \/ ReadAttempts \/ ReadClaims \/ ReadPointer]_<<vars, reader>>

-----------------------------------------------------------------------------
(* Properties *)

(* Attempts are listed before claims, so a projection taken while a delivery *)
(* runs never sees an outcome without its slot and never fails with "attempt *)
(* outcome has no durable dispatch slot".                                    *)
ReaderEvidenceValid == position = "pointer" => SeenEvidenceValid

(* A projection taken while no delivery runs never reports a contradiction,  *)
(* whatever crashed before it.                                               *)
QuietReadIsClean == quiet => verdict # "CONFLICT"

=============================================================================
