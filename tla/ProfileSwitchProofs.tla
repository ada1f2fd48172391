------------------------- MODULE ProfileSwitchProofs -------------------------
(***************************************************************************)
(* What ProfileSwitch promises, for every set of contents and exchanges.   *)
(* ActivationExecutionProofs shows that activation and rollback implement  *)
(* it, so both hold of them as well.                                       *)
(***************************************************************************)
EXTENDS ProfileSwitch, TLAPS

LEMMA OneOpenStep == OneOpen /\ [Next]_vars => OneOpen'
<1> SUFFICES ASSUME OneOpen, [Next]_vars PROVE OneOpen'
  OBVIOUS
<1>1. ASSUME UNCHANGED intended, recorded \subseteq recorded' PROVE OneOpen'
  BY <1>1 DEF OneOpen, Open
<1>2. ASSUME NEW x, Intend(x) PROVE OneOpen'
  <2>1. CASE x \in Forward
    BY <1>2, <2>1 DEF Intend, OneOpen, Open
  <2>2. CASE x \notin Forward
    BY <1>2, <2>2 DEF Intend, OneOpen, Open
  <2> QED BY <2>1, <2>2
<1>3. ASSUME NEW x, Exchange(x) \/ Record(x) PROVE OneOpen'
  BY <1>1, <1>3 DEF Exchange, Record
<1>4. ASSUME NEW c, Secure(c) PROVE OneOpen'
  BY <1>1, <1>4 DEF Secure
<1>5. CASE Meddle
  BY <1>1, <1>5 DEF Meddle
<1>6. CASE UNCHANGED vars
  BY <1>1, <1>6 DEF vars
<1> QED BY <1>2, <1>3, <1>4, <1>5, <1>6 DEF Next

(* A second activation is announced only when the first is on record: there *)
(* is one to resume or to roll back, never two (the scan of the journals in *)
(* apply_profile_activation).                                               *)
THEOREM OneOpenAlways == Spec => []OneOpen
<1>1. Init => OneOpen
  BY DEF Init, OneOpen, Open
<1> QED BY <1>1, OneOpenStep, PTL DEF Spec

LEMMA RecordStep == RecordIsTrue /\ [Next]_vars => RecordIsTrue'
<1> SUFFICES ASSUME RecordIsTrue, [Next]_vars PROVE RecordIsTrue'
  OBVIOUS
<1>1. ASSUME Happen, intended \subseteq intended', recorded' \subseteq happened
      PROVE  RecordIsTrue'
  BY <1>1 DEF Happen, RecordIsTrue
<1>2. ASSUME Next PROVE intended \subseteq intended' /\ recorded' \subseteq happened
  <2>1. ASSUME NEW x, Intend(x) \/ Exchange(x) \/ Record(x)
        PROVE  intended \subseteq intended' /\ recorded' \subseteq happened
    BY <2>1 DEF Intend, Exchange, Record, RecordIsTrue
  <2>2. ASSUME NEW c, Secure(c) \/ Meddle
        PROVE  intended \subseteq intended' /\ recorded' \subseteq happened
    BY <2>2 DEF Secure, Meddle, RecordIsTrue
  <2> QED BY <1>2, <2>1, <2>2 DEF Next
<1>3. CASE Next
  BY <1>1, <1>2, <1>3 DEF Next
<1>4. CASE UNCHANGED vars
  BY <1>4 DEF vars, RecordIsTrue
<1> QED BY <1>3, <1>4

(* A receipt or a rollback record exists only for an exchange that was       *)
(* announced and whose outcome was in place (_finalize_apply and             *)
(* _finalize_rollback).                                                      *)
THEOREM RecordIsTrueAlways == Spec => []RecordIsTrue
<1>1. Init => RecordIsTrue
  BY DEF Init, RecordIsTrue
<1> QED BY <1>1, RecordStep, PTL DEF Spec
=============================================================================
