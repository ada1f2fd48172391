---------------------------- MODULE ProfileSwitch ----------------------------
(***************************************************************************)
(* What activation and rollback promise of the one file they exchange      *)
(* (docstrings of apply_profile_activation and rollback_profile_activation *)
(* in src/turtle_value_engine/evolution/activation_execution.py), without  *)
(* locks, invocations, staging or crashes: an exchange is announced, the   *)
(* bytes to return to are secured, the file is exchanged, and only an      *)
(* exchange whose outcome was in place is recorded.                        *)
(***************************************************************************)
CONSTANTS
  Contents,   \* what the file may contain
  Exchanges,  \* exchanges of one content for another
  Forward,    \* those that activate; the others return
  From(_),    \* what an exchange replaces
  To(_),      \* what it puts in place
  Prior(_)    \* what its activation replaced

VARIABLES
  content,    \* the file
  intended,   \* announced exchanges
  secured,    \* contents of which a copy is kept
  happened,   \* announced exchanges whose outcome was in place
  recorded,   \* exchanges on record
  meddled     \* has anybody else written the file

vars == <<content, intended, secured, happened, recorded, meddled>>

Open == (intended \intersect Forward) \ recorded

Init ==
  /\ content \in Contents
  /\ intended = {} /\ secured = {} /\ happened = {} /\ recorded = {}
  /\ meddled = FALSE

(* A second activation is not announced before the first is on record. *)
Intend(x) ==
  /\ x \in Forward => Open \subseteq {x}
  /\ intended' = intended \union {x}
  /\ UNCHANGED <<content, secured, recorded, meddled>>

Secure(c) ==
  /\ secured' = secured \union {c}
  /\ UNCHANGED <<content, intended, recorded, meddled>>

(* Only what was announced and can be returned to, and only in place of the  *)
(* very bytes it is meant to replace.                                        *)
Exchange(x) ==
  /\ x \in intended
  /\ Prior(x) \in secured
  /\ ~meddled => content = From(x)
  /\ content' = To(x)
  /\ UNCHANGED <<intended, secured, recorded, meddled>>

Record(x) ==
  /\ x \in happened
  /\ recorded' = recorded \union {x}
  /\ UNCHANGED <<content, intended, secured, meddled>>

Meddle ==
  /\ content' \in Contents
  /\ meddled' = TRUE
  /\ UNCHANGED <<intended, secured, recorded>>

Happen == happened' = happened \union {x \in intended' : content' = To(x)}

Next ==
  /\ \/ \E x \in Exchanges : Intend(x) \/ Exchange(x) \/ Record(x)
     \/ \E c \in Contents : Secure(c)
     \/ Meddle
  /\ Happen

Spec == Init /\ [][Next]_vars

-----------------------------------------------------------------------------
(* At most one activation is announced and not yet on record. *)
OneOpen == \A x, y \in Open : x = y

(* The record is of what took place, and that was announced. *)
RecordIsTrue == recorded \subseteq happened /\ happened \subseteq intended
=============================================================================
