---------------------- MODULE MonitoringDeliveryProofs ----------------------
(***************************************************************************)
(* What holds of MonitoringDelivery for every number of invocations, every *)
(* policy and every number of slots and deaths.                            *)
(***************************************************************************)
EXTENDS DeliveryStatusReader, FiniteSetTheorems, WellFoundedInduction, TLAPS

(* Past the lock an invocation is its only owner. *)
Exclusive == \A w \in Workers : pc[w] \notin {"idle", "lock"} => holder = w

(* The claims on disk are an initial segment of the slots within the budget. *)
ClaimsContiguous == \E n \in 0..MaxSlots : claims = 1..n /\ n <= intent.max

(* From claim to outcome an invocation works on a slot that is claimed, and  *)
(* every saved outcome belongs to a claim.                                   *)
SlotClaimed ==
  /\ \A w \in Workers : pc[w] \in {"enter", "await", "save"} => slot[w] \in claims
  /\ Recorded(attempts) \subseteq claims

(* A claim pays for one entry: before the entry there is one to spare. *)
EntriesPaid ==
  /\ entries <= Cardinality(claims)
  /\ \A w \in Workers : pc[w] = "enter" => entries < Cardinality(claims)

Safe ==
  /\ TypeOK
  /\ Exclusive
  /\ ClaimsContiguous
  /\ SlotClaimed
  /\ EntriesPaid

-----------------------------------------------------------------------------
(* The definitions a state is built from return what the contracts allow. *)

(* A nonempty set of slots has a highest one, so LastAttempt is well-defined. *)
LEMMA GreatestSlot ==
  ASSUME NEW S \in SUBSET Slots, S # {}
  PROVE  \E s \in S : \A t \in S : t <= s
<1> DEFINE T == {MaxSlots - s : s \in S}
<1>1. T \subseteq Nat
  <2>1. ASSUME NEW s \in S PROVE MaxSlots - s \in Nat
    BY SlotsAssumption DEF Slots
  <2> QED BY <2>1, Zenon
<1>2. T # {}
  OBVIOUS
<1>3. PICK x \in T : \A y \in T : ~(<<y, x>> \in OpToRel(<, Nat))
  <2> HIDE DEF T
  <2> QED BY <1>1, <1>2, NatLessThanWellFounded, WFMin, Zenon
<1>4. \A y \in T : ~(y < x)
  <2> HIDE DEF T
  <2> QED BY <1>1, <1>3 DEF OpToRel
<1>5. PICK s \in S : x = MaxSlots - s
  OBVIOUS
<1>6. ASSUME NEW t \in S PROVE t <= s
  <2>1. ~(MaxSlots - t < MaxSlots - s)
    BY <1>4, <1>5
  <2> QED BY <2>1, SlotsAssumption DEF Slots
<1> QED BY <1>6

(* The newest attempt is a recorded one. *)
LEMMA LastAttemptRecorded ==
  ASSUME NEW att, Recorded(att) # {}
  PROVE  /\ LastAttempt(att) \in Recorded(att)
         /\ \A t \in Recorded(att) : t <= LastAttempt(att)
<1>1. Recorded(att) \in SUBSET Slots
  BY DEF Recorded
<1>2. \E s \in Recorded(att) : \A t \in Recorded(att) : t <= s
  BY <1>1, GreatestSlot
<1> QED BY <1>2 DEF LastAttempt

(* Sets of slots are finite and no larger than the slots. *)
LEMMA SlotSetCardinality ==
  ASSUME NEW S \in SUBSET Slots
  PROVE  IsFiniteSet(S) /\ Cardinality(S) \in 0..MaxSlots
<1>1. IsFiniteSet(Slots) /\ Cardinality(Slots) = MaxSlots
  BY SlotsAssumption, FS_Interval DEF Slots
<1>2. IsFiniteSet(S) /\ Cardinality(S) <= Cardinality(Slots)
  BY <1>1, FS_Subset
<1>3. Cardinality(S) \in Nat
  BY <1>2, FS_CardinalityType
<1> QED BY <1>1, <1>2, <1>3, SlotsAssumption

LEMMA InitialSegmentCardinality ==
  ASSUME NEW n \in Nat
  PROVE  IsFiniteSet(1..n) /\ Cardinality(1..n) = n
BY FS_Interval

(* The backoff is a number of seconds within the cap. *)
LEMMA BackoffBounded ==
  ASSUME NEW i \in Settings, NEW n \in Slots
  PROVE  Backoff(i, n) \in 0..i.cap
<1>1. i.base \in Nat /\ i.cap \in Nat
  BY SettingsAssumption
<1>2. 2^(n - 1) \in Nat
  BY PowersAssumption
<1>3. ASSUME NEW p \in Nat
      PROVE  (IF i.base * p <= i.cap THEN i.base * p ELSE i.cap) \in 0..i.cap
  BY <1>1
<1> QED BY <1>2, <1>3 DEF Backoff

(* derive_delivery_state builds only states the contract accepts. *)
LEMMA DeriveType ==
  ASSUME NEW i, NEW cl, NEW att \in [Slots -> Classes \union {NoOutcome}]
  PROVE  Derive(i, cl, att) \in StateRecords
<1> DEFINE n == Cardinality(Recorded(att))
<1>1. n \in 0..MaxSlots
  BY SlotSetCardinality DEF Recorded
<1>2. 0 \in 0..MaxSlots
  BY SlotsAssumption
<1>3. ASSUME NEW s \in Statuses \union {"MISSING"}, NEW t \in BOOLEAN,
             NEW c \in 0..MaxSlots, NEW r \in BOOLEAN,
             NEW e \in {"NONE", "LAST_ATTEMPT", "ORPHANED_DISPATCH", "RETRIES_EXHAUSTED"}
      PROVE  State(s, t, c, e, r) \in StateRecords
  BY DEF State, StateRecords
<1>4. LastError(att) \in {"NONE", "LAST_ATTEMPT"}
  BY DEF LastError
<1>5. OrphanState(i, cl, att) \in StateRecords
  BY <1>1, <1>3, <1>4 DEF OrphanState, Statuses, Classes
<1>6. ASSUME Recorded(att) # {} PROVE OutcomeState(i, cl, att) \in StateRecords
  <2> DEFINE class == att[LastAttempt(att)]
             retry == RetryScheduled(i, class) /\ ~Spent(i, cl, att)
  <2>1. class \in Classes
    BY <1>6, LastAttemptRecorded DEF Recorded
  <2>2. retry \in BOOLEAN /\ (~retry) \in BOOLEAN
    OBVIOUS
  <2>3. State("PERMANENT_FAILURE", TRUE, n, "RETRIES_EXHAUSTED", FALSE) \in StateRecords
    BY <1>1, <1>3 DEF Statuses, Classes
  <2>4. State(class, ~retry, n, "LAST_ATTEMPT", retry) \in StateRecords
    <3> HIDE DEF class, retry, n
    <3> QED BY <1>1, <1>3, <2>1, <2>2 DEF Statuses
  <2> QED BY <2>3, <2>4 DEF OutcomeState
<1>7. /\ State("NOOP", TRUE, 0, "NONE", FALSE) \in StateRecords
      /\ State("PENDING", FALSE, 0, "NONE", FALSE) \in StateRecords
  BY <1>2, <1>3 DEF Statuses
<1> QED BY <1>5, <1>6, <1>7 DEF Derive

-----------------------------------------------------------------------------
(* Type correctness *)

LEMMA NoIntentFields == NoIntent.cap = 0 /\ NoIntent.max = 0
BY DEF NoIntent

LEMMA PolicyFields ==
  ASSUME NEW i \in Settings \union {NoIntent}
  PROVE  i.cap \in Nat /\ i.max \in 0..MaxSlots /\ i.idem \in BOOLEAN
<1>1. CASE i \in Settings
  BY <1>1, SettingsAssumption, SlotsAssumption DEF Slots
<1>2. CASE i = NoIntent
  BY <1>2, SlotsAssumption DEF NoIntent
<1> QED BY <1>1, <1>2

LEMMA TypeInit == Init => TypeOK
<1>1. NoState \in StateRecords
  BY SlotsAssumption DEF NoState, State, StateRecords
<1> QED
  BY <1>1, NoIntentFields, SlotsAssumption DEF Init, TypeOK, Positions

LEMMA TypeStep ==
  ASSUME TypeOK, SlotClaimed, [Next]_vars
  PROVE  TypeOK'
<1> USE DEF TypeOK
<1>0. NoState \in StateRecords /\ 0 \in 0..MaxSlots
  BY SlotsAssumption DEF NoState, State, StateRecords
<1>1. ASSUME NEW w \in Workers, Forget(w), UNCHANGED <<ledger, world>>, aborts' \in Nat
      PROVE  TypeOK'
  BY <1>0, <1>1 DEF Forget, Positions, ledger, world
<1>2. ASSUME NEW w \in Workers, Start(w) PROVE TypeOK'
  BY <1>2 DEF Start, Positions, ledger, world
<1>3. ASSUME NEW w \in Workers, Lock(w) PROVE TypeOK'
  BY <1>3 DEF Lock, Positions, ledger, world
<1>4. ASSUME NEW w \in Workers, PersistIntent(w) PROVE TypeOK'
  <2>1. intent' \in Settings \union {NoIntent}
    BY <1>4 DEF PersistIntent
  <2>2. wait' \in 0..(intent'.cap)
    BY <1>4, <2>1, NoIntentFields, PolicyFields DEF PersistIntent
  <2> QED BY <1>4, <2>1, <2>2 DEF PersistIntent, Positions, world
<1>5. ASSUME NEW w \in Workers, VerifyIntent(w) PROVE TypeOK'
  BY <1>5 DEF VerifyIntent, Positions, ledger, world
<1>6. ASSUME NEW w \in Workers, ReadLedger(w) PROVE TypeOK'
  <2>1. Derive(intent, claims, attempts) \in StateRecords
    BY DeriveType
  <2> QED BY <1>6, <2>1 DEF ReadLedger, Positions, ledger, world
<1>7. ASSUME NEW w \in Workers, RepairState(w) PROVE TypeOK'
  BY <1>7 DEF RepairState, Positions, world
<1>8. ASSUME NEW w \in Workers, PublishState(w) PROVE TypeOK'
  BY <1>8 DEF PublishState, Positions, world
<1>9. ASSUME NEW w \in Workers, SaveClaim(w) PROVE TypeOK'
  <2>1. NextSlot(claims, attempts) \in Slots
    <3>1. Cardinality(claims) \in Nat
      BY SlotSetCardinality
    <3>2. intent.max \in 0..MaxSlots
      BY PolicyFields
    <3> QED BY <1>9, <3>1, <3>2, SlotsAssumption DEF SaveClaim, NextSlot, Slots
  <2>2. claims' \subseteq Slots
    BY <1>9, <2>1 DEF SaveClaim
  <2>3. slot' \in [Workers -> 0..MaxSlots] /\ pc' \in [Workers -> Positions]
    BY <1>9, <2>1, SlotsAssumption DEF SaveClaim, Positions, Slots
  <2> QED BY <1>9, <2>2, <2>3 DEF SaveClaim, world
<1>10. ASSUME NEW w \in Workers, FailBeforeDispatch(w) PROVE TypeOK'
  <2>1. entries' \in Nat
    BY <1>10 DEF FailBeforeDispatch
  <2>2. pc' \in [Workers -> Positions] /\ outcome' \in [Workers -> Classes \union {NoOutcome}]
    BY <1>10 DEF FailBeforeDispatch, Positions, Classes
  <2> QED BY <1>10, <2>1, <2>2 DEF FailBeforeDispatch, ledger
<1>11. ASSUME NEW w \in Workers, Dispatch(w) PROVE TypeOK'
  <2>1. entries' \in Nat
    BY <1>11 DEF Dispatch
  <2>2. pc' \in [Workers -> Positions]
    BY <1>11 DEF Dispatch, Positions
  <2>3. request' \in [Slots -> {"unsent", "inflight", "applied", "refused", "applied_refused"}]
    BY <1>11 DEF Dispatch
  <2> QED BY <1>11, <2>1, <2>2, <2>3 DEF Dispatch, ledger
<1>12. ASSUME NEW w \in Workers, Respond(w) PROVE TypeOK'
  <2>1. Outcomes(slot[w]) \subseteq Classes
    BY DEF Outcomes, Classes
  <2> QED BY <1>12, <2>1 DEF Respond, Positions, ledger, world
<1>13. ASSUME NEW w \in Workers, SaveAttempt(w) PROVE TypeOK'
  <2>1. slot[w] \in Slots
    BY <1>13 DEF SaveAttempt, SlotClaimed
  <2>2. wait' \in 0..intent.cap
    <3>1. CASE intent = NoIntent
      <4>1. Backoff(intent, slot[w]) = 0
        <5>1. 2^(slot[w] - 1) \in Nat
          BY <2>1, PowersAssumption
        <5>2. \A p \in Nat : 0 * p = 0
          OBVIOUS
        <5> QED BY <3>1, <5>1, <5>2 DEF Backoff, NoIntent
      <4> QED BY <1>13, <3>1, <4>1, NoIntentFields DEF SaveAttempt
    <3>2. CASE intent \in Settings
      <4>1. Backoff(intent, slot[w]) \in 0..intent.cap /\ 0 \in 0..intent.cap
        BY <2>1, <3>2, BackoffBounded, PolicyFields
      <4> QED BY <1>13, <4>1 DEF SaveAttempt
    <3> QED BY <3>1, <3>2
  <2> QED BY <1>13, <2>1, <2>2 DEF SaveAttempt, Positions, world
<1>14. ASSUME NEW s \in Slots, Receive(s) PROVE TypeOK'
  BY <1>14 DEF Receive, ledger, local
<1>15. ASSUME Tick PROVE TypeOK'
  <2>1. wait' \in 0..intent.cap
    BY <1>15, PolicyFields DEF Tick
  <2> QED BY <1>15, <2>1 DEF Tick, local, world
<1>16. CASE UNCHANGED vars
  BY <1>16 DEF vars, ledger, local, world
<1>17. ASSUME NEW w \in Workers, Busy(w) \/ RefuseIntent(w) \/ Finish(w) \/ Abort(w)
       PROVE  TypeOK'
  BY <1>1, <1>17 DEF Busy, RefuseIntent, Finish, Abort, ledger, world
<1> QED
  BY <1>2, <1>3, <1>4, <1>5, <1>6, <1>7, <1>8, <1>9, <1>10, <1>11, <1>12, <1>13,
     <1>14, <1>15, <1>16, <1>17 DEF Next, Work

-----------------------------------------------------------------------------
(* The retry budget *)

(* How many claims there are is a number, within the budget. *)
LEMMA ClaimCount ==
  ASSUME TypeOK, ClaimsContiguous
  PROVE  /\ IsFiniteSet(claims)
         /\ Cardinality(claims) \in 0..MaxSlots
         /\ Cardinality(claims) <= intent.max
         /\ claims = 1..Cardinality(claims)
<1>1. PICK n \in 0..MaxSlots : claims = 1..n /\ n <= intent.max
  BY DEF ClaimsContiguous
<1>2. n \in Nat
  BY SlotsAssumption
<1> QED BY <1>1, <1>2, InitialSegmentCardinality

LEMMA ExclusiveStep ==
  ASSUME TypeOK, Exclusive, [Next]_vars
  PROVE  Exclusive'
<1> USE DEF TypeOK, Exclusive
<1>1. ASSUME NEW w \in Workers, Forget(w) PROVE Exclusive'
  BY <1>1 DEF Forget
<1>2. ASSUME NEW w \in Workers, Start(w) PROVE Exclusive'
  BY <1>2 DEF Start
<1>3. ASSUME NEW w \in Workers, Lock(w) PROVE Exclusive'
  BY <1>3, NoWorkerAssumption DEF Lock
<1>4. ASSUME NEW w \in Workers,
             \/ PersistIntent(w) \/ VerifyIntent(w) \/ ReadLedger(w)
             \/ RepairState(w) \/ PublishState(w) \/ SaveClaim(w)
             \/ FailBeforeDispatch(w) \/ Dispatch(w) \/ Respond(w) \/ SaveAttempt(w)
      PROVE  Exclusive'
  <2>1. pc[w] \notin {"idle", "lock"} /\ holder' = holder
    BY <1>4 DEF PersistIntent, VerifyIntent, ReadLedger, RepairState, PublishState,
       SaveClaim, FailBeforeDispatch, Dispatch, Respond, SaveAttempt, ledger, world
  <2>2. \A u \in Workers : u # w => pc'[u] = pc[u]
    BY <1>4 DEF PersistIntent, VerifyIntent, ReadLedger, RepairState, PublishState,
       SaveClaim, FailBeforeDispatch, Dispatch, Respond, SaveAttempt
  <2> QED BY <2>1, <2>2
<1>5. ASSUME NEW s \in Slots, Receive(s) PROVE Exclusive'
  BY <1>5 DEF Receive, local
<1>6. ASSUME Tick PROVE Exclusive'
  BY <1>6 DEF Tick, local
<1>7. CASE UNCHANGED vars
  BY <1>7 DEF vars, local
<1> QED
  BY <1>1, <1>2, <1>3, <1>4, <1>5, <1>6, <1>7
     DEF Next, Work, Busy, RefuseIntent, Finish, Abort

LEMMA ClaimsContiguousStep ==
  ASSUME TypeOK, ClaimsContiguous, [Next]_vars
  PROVE  ClaimsContiguous'
<1>1. ASSUME UNCHANGED <<claims, intent>> PROVE ClaimsContiguous'
  BY <1>1 DEF ClaimsContiguous
<1>2. ASSUME NEW w \in Workers, PersistIntent(w) PROVE ClaimsContiguous'
  <2>1. PICK n \in 0..MaxSlots : claims = 1..n /\ n <= intent.max
    BY DEF ClaimsContiguous
  <2>2. n = 0
    BY <1>2, <2>1, NoIntentFields, SlotsAssumption DEF PersistIntent
  <2>3. intent'.max \in 0..MaxSlots
    BY <1>2, PolicyFields DEF PersistIntent, TypeOK
  <2> QED BY <1>2, <2>1, <2>2, <2>3, SlotsAssumption DEF PersistIntent, ClaimsContiguous
<1>3. ASSUME NEW w \in Workers, SaveClaim(w) PROVE ClaimsContiguous'
  <2> DEFINE n == Cardinality(claims)
  <2>1. n \in 0..MaxSlots /\ claims = 1..n
    BY ClaimCount
  <2>2. n + 1 <= intent.max /\ intent.max \in 0..MaxSlots
    BY <1>3, PolicyFields DEF SaveClaim, NextSlot, TypeOK
  <2>3. claims' = 1..(n + 1)
    <3>1. claims' = claims \union {n + 1}
      BY <1>3 DEF SaveClaim, NextSlot
    <3> HIDE DEF n
    <3> QED BY <2>1, <3>1, SlotsAssumption
  <2>4. intent' = intent
    BY <1>3 DEF SaveClaim
  <2> HIDE DEF n
  <2> QED BY <2>1, <2>2, <2>3, <2>4, SlotsAssumption DEF ClaimsContiguous
<1> QED
  BY <1>1, <1>2, <1>3
     DEF Next, Work, vars, ledger, Start, Lock, Busy, VerifyIntent, RefuseIntent,
         ReadLedger, RepairState, PublishState, Finish, FailBeforeDispatch, Dispatch,
         Respond, SaveAttempt, Abort, Receive, Tick

LEMMA SlotClaimedStep ==
  ASSUME TypeOK, Exclusive, SlotClaimed, [Next]_vars
  PROVE  SlotClaimed'
<1> USE DEF TypeOK, SlotClaimed
<1>1. ASSUME NEW w \in Workers, Forget(w), UNCHANGED <<ledger, world>> PROVE SlotClaimed'
  BY <1>1 DEF Forget, Recorded, ledger
<1>2. ASSUME NEW w \in Workers,
             \/ Start(w) \/ Lock(w) \/ PersistIntent(w) \/ VerifyIntent(w)
             \/ ReadLedger(w) \/ RepairState(w) \/ PublishState(w)
      PROVE  SlotClaimed'
  <2>1. UNCHANGED <<claims, attempts, slot>>
    BY <1>2 DEF Start, Lock, PersistIntent, VerifyIntent, ReadLedger, RepairState,
       PublishState, ledger
  <2>2. \A u \in Workers : pc'[u] \in {"enter", "await", "save"} => pc'[u] = pc[u]
    BY <1>2 DEF Start, Lock, PersistIntent, VerifyIntent, ReadLedger, RepairState,
       PublishState
  <2> QED BY <2>1, <2>2 DEF Recorded
<1>3. ASSUME NEW w \in Workers, SaveClaim(w) PROVE SlotClaimed'
  <2> DEFINE n == NextSlot(claims, attempts)
  <2>1. n \in 0..MaxSlots
    <3>1. Cardinality(claims) \in 0..MaxSlots /\ intent.max \in 0..MaxSlots
      BY SlotSetCardinality, PolicyFields
    <3> QED BY <1>3, <3>1, SlotsAssumption DEF SaveClaim, NextSlot
  <2>2. /\ claims' = claims \union {n} /\ attempts' = attempts
        /\ slot' = [slot EXCEPT ![w] = n]
        /\ \A u \in Workers : u # w => pc'[u] = pc[u]
    BY <1>3 DEF SaveClaim
  <2> HIDE DEF n
  <2> QED BY <2>1, <2>2 DEF Recorded
<1>4. ASSUME NEW w \in Workers, FailBeforeDispatch(w) \/ Dispatch(w) \/ Respond(w)
      PROVE  SlotClaimed'
  <2>1. /\ UNCHANGED <<claims, attempts, slot>>
        /\ pc[w] \in {"enter", "await", "save"}
        /\ \A u \in Workers : u # w => pc'[u] = pc[u]
    BY <1>4 DEF FailBeforeDispatch, Dispatch, Respond, ledger
  <2> QED BY <2>1 DEF Recorded
<1>5. ASSUME NEW w \in Workers, SaveAttempt(w) PROVE SlotClaimed'
  <2>1. /\ UNCHANGED <<claims, slot>> /\ slot[w] \in claims
        /\ attempts' = [attempts EXCEPT ![slot[w]] = outcome[w]]
        /\ pc'[w] = "reread" /\ \A u \in Workers : u # w => pc'[u] = pc[u]
    BY <1>5 DEF SaveAttempt
  <2> QED BY <2>1 DEF Recorded
<1>6. ASSUME NEW s \in Slots, Receive(s) PROVE SlotClaimed'
  BY <1>6 DEF Receive, Recorded, local, ledger
<1>7. ASSUME Tick PROVE SlotClaimed'
  BY <1>7 DEF Tick, Recorded, local
<1>8. CASE UNCHANGED vars
  BY <1>8 DEF vars, Recorded, local, ledger
<1> QED
  BY <1>1, <1>2, <1>3, <1>4, <1>5, <1>6, <1>7, <1>8
     DEF Next, Work, Busy, RefuseIntent, Finish, Abort, ledger, world

LEMMA EntriesPaidStep ==
  ASSUME TypeOK, Exclusive, ClaimsContiguous, EntriesPaid, [Next]_vars
  PROVE  EntriesPaid'
<1> USE DEF EntriesPaid
<1>0. Cardinality(claims) \in Nat /\ claims = 1..Cardinality(claims) /\ entries \in Nat
  BY ClaimCount, SlotsAssumption DEF TypeOK
<1>1. ASSUME UNCHANGED <<claims, entries>>,
             \A u \in Workers : pc'[u] = "enter" => pc[u] = "enter"
      PROVE  EntriesPaid'
  BY <1>1
<1>2. ASSUME NEW w \in Workers, SaveClaim(w) PROVE EntriesPaid'
  <2> DEFINE n == Cardinality(claims)
  <2>1. Cardinality(claims') = n + 1
    <3>1. claims' = claims \union {n + 1}
      BY <1>2 DEF SaveClaim, NextSlot
    <3>2. claims' = 1..(n + 1)
      <4> HIDE DEF n
      <4> QED BY <1>0, <3>1 DEF n
    <3> HIDE DEF n
    <3> QED BY <1>0, <3>2, InitialSegmentCardinality DEF n
  <2>2. entries' = entries
    BY <1>2 DEF SaveClaim, world
  <2> HIDE DEF n
  <2> QED BY <1>0, <2>1, <2>2 DEF n
<1>3. ASSUME NEW w \in Workers, FailBeforeDispatch(w) \/ Dispatch(w) PROVE EntriesPaid'
  <2>1. /\ pc[w] = "enter" /\ entries' = entries + 1 /\ claims' = claims
        /\ pc'[w] # "enter" /\ \A u \in Workers : u # w => pc'[u] = pc[u]
    BY <1>3 DEF FailBeforeDispatch, Dispatch, ledger, TypeOK
  <2>2. \A u \in Workers : pc'[u] # "enter"
    BY <2>1 DEF Exclusive
  <2> QED BY <1>0, <2>1, <2>2
<1>4. ASSUME NEW w \in Workers, Forget(w), UNCHANGED <<claims, entries>> PROVE EntriesPaid'
  BY <1>1, <1>4 DEF Forget, TypeOK
<1>5. ASSUME NEW w \in Workers,
             \/ Start(w) \/ Lock(w) \/ PersistIntent(w) \/ VerifyIntent(w)
             \/ ReadLedger(w) \/ RepairState(w) \/ PublishState(w)
             \/ Respond(w) \/ SaveAttempt(w)
      PROVE  EntriesPaid'
  BY <1>1, <1>5 DEF Start, Lock, PersistIntent, VerifyIntent, ReadLedger, RepairState,
     PublishState, Respond, SaveAttempt, ledger, world, TypeOK
<1>6. ASSUME (\E s \in Slots : Receive(s)) \/ Tick \/ UNCHANGED vars PROVE EntriesPaid'
  BY <1>1, <1>6 DEF Receive, Tick, vars, local, ledger, world
<1> QED
  BY <1>2, <1>3, <1>4, <1>5, <1>6
     DEF Next, Work, Busy, RefuseIntent, Finish, Abort, ledger, world

(* The conjunction is inductive. *)
LEMMA SafeInit == Init => Safe
<1> SUFFICES ASSUME Init PROVE Safe
  OBVIOUS
<1>1. Cardinality({}) = 0
  BY FS_EmptySet
<1>2. ClaimsContiguous
  BY NoIntentFields, SlotsAssumption DEF Init, ClaimsContiguous
<1> QED BY <1>1, <1>2, TypeInit DEF Init, Safe, Exclusive, SlotClaimed, EntriesPaid, Recorded

LEMMA SafeStep == Safe /\ [Next]_vars => Safe'
BY TypeStep, ExclusiveStep, ClaimsContiguousStep, SlotClaimedStep, EntriesPaidStep DEF Safe

THEOREM SafeAlways == Spec => []Safe
BY SafeInit, SafeStep, PTL DEF Spec

(* Type correctness of the delivery ledger and of every invocation; the      *)
(* scheduled wait never exceeds the configured cap.                          *)
THEOREM TypeCorrect == Spec => []TypeOK
<1>1. Safe => TypeOK
  BY DEF Safe
<1> QED BY <1>1, SafeAlways, PTL

(* max_attempts is a hard upper bound on transport entries over the life of  *)
(* the ledger, for any number of invocations, deaths and slots.              *)
THEOREM BudgetHolds == Spec => []DispatchBudget
<1>1. Safe => DispatchBudget
  BY ClaimCount DEF Safe, EntriesPaid, DispatchBudget
<1> QED BY <1>1, SafeAlways, PTL

-----------------------------------------------------------------------------
(* What the artifacts say now; the outbox never changes. *)
Current == Derive(intent, claims, attempts)

LEMMA CurrentNext ==
  ASSUME outbox' = outbox
  PROVE  Current' = Derive(intent', claims', attempts')
BY DEF Current, Derive

LEMMA OutboxStays == ASSUME [Next]_vars PROVE outbox' = outbox
BY DEF Next, Work, vars, ledger, world, Start, Lock, Busy, PersistIntent, VerifyIntent,
   RefuseIntent, ReadLedger, RepairState, PublishState, Finish, SaveClaim,
   FailBeforeDispatch, Dispatch, Respond, SaveAttempt, Abort, Receive, Tick

(* A state counts the saved attempts. *)
LEMMA DeriveCount ==
  ASSUME NEW i, NEW cl, NEW att
  PROVE  Derive(i, cl, att).count =
           IF outbox = "none" THEN 0 ELSE Cardinality(Recorded(att))
<1>1. Recorded(att) = {} => Cardinality(Recorded(att)) = 0
  BY FS_EmptySet
<1>2. OrphanState(i, cl, att).count = Cardinality(Recorded(att))
  BY DEF OrphanState, State
<1>3. OutcomeState(i, cl, att).count = Cardinality(Recorded(att))
  BY DEF OutcomeState, State
<1> QED BY <1>1, <1>2, <1>3 DEF Derive, State

(* Why a delivery goes on: an orphan that idempotency covers, a first turn,  *)
(* or a retry.                                                               *)
LEMMA OpenMeans ==
  ASSUME NEW i, NEW cl, NEW att, ~Derive(i, cl, att).terminal
  PROVE  /\ outbox # "none"
         /\ \/ TailOrphans(cl, att) # {} /\ i.idem
            \/ TailOrphans(cl, att) = {} /\ Recorded(att) = {}
            \/ /\ TailOrphans(cl, att) = {} /\ Recorded(att) # {}
               /\ Derive(i, cl, att).retry
               /\ RetryScheduled(i, att[LastAttempt(att)])
<1>1. outbox # "none"
  BY DEF Derive, State
<1>2. CASE TailOrphans(cl, att) # {}
  BY <1>1, <1>2 DEF Derive, OrphanState, State
<1>3. CASE TailOrphans(cl, att) = {} /\ Recorded(att) # {}
  <2>1. Derive(i, cl, att) = OutcomeState(i, cl, att)
    BY <1>1, <1>3 DEF Derive
  <2> DEFINE class == att[LastAttempt(att)]
             retry == RetryScheduled(i, class) /\ ~Spent(i, cl, att)
  <2>2. retry
    <3>1. ASSUME ~retry PROVE OutcomeState(i, cl, att).terminal = TRUE
      BY <3>1 DEF OutcomeState, State
    <3> QED BY <2>1, <3>1
  <2>3. OutcomeState(i, cl, att).retry
    BY <2>2 DEF OutcomeState, State
  <2> QED BY <1>1, <1>3, <2>1, <2>2, <2>3
<1> QED BY <1>1, <1>2, <1>3

(* What a verdict rests on: the newest slot, which has an outcome. *)
LEMMA VerdictMeans ==
  ASSUME NEW i, NEW cl, NEW att,
         Derive(i, cl, att).status \in {"DELIVERED", "PERMANENT_FAILURE"}
  PROVE  /\ Derive(i, cl, att).terminal
         /\ TailOrphans(cl, att) = {} /\ Recorded(att) # {}
         /\ Derive(i, cl, att).status = "DELIVERED" => att[LastAttempt(att)] = "DELIVERED"
         /\ Derive(i, cl, att).status = "PERMANENT_FAILURE" =>
              att[LastAttempt(att)] \in {"RETRYABLE_FAILURE", "PERMANENT_FAILURE"}
<1>1. outbox # "none" /\ TailOrphans(cl, att) = {} /\ Recorded(att) # {}
  BY DEF Derive, OrphanState, State
<1>2. Derive(i, cl, att) = OutcomeState(i, cl, att)
  BY <1>1 DEF Derive
<1>3. OutcomeState(i, cl, att).status \in {"DELIVERED", "PERMANENT_FAILURE"}
  BY <1>2
<1> DEFINE class == att[LastAttempt(att)]
<1>4. CASE class = "RETRYABLE_FAILURE"
  BY <1>1, <1>2, <1>3, <1>4 DEF OutcomeState, State, RetryScheduled
<1>5. CASE class # "RETRYABLE_FAILURE"
  <2>1. OutcomeState(i, cl, att).status = class
    BY <1>5 DEF OutcomeState, State
  <2>2. ~RetryScheduled(i, class)
    BY <1>3, <2>1 DEF RetryScheduled
  <2>3. OutcomeState(i, cl, att).terminal
    BY <1>5, <2>2 DEF OutcomeState, State
  <2> QED BY <1>1, <1>2, <1>3, <2>1, <2>3
<1> QED BY <1>4, <1>5

(* Without orphans the newest attempt is that of the newest claim. *)
LEMMA NoOrphansMeans ==
  ASSUME TypeOK, ClaimsContiguous, Recorded(attempts) \subseteq claims,
         TailOrphans(claims, attempts) = {}
  PROVE  /\ Recorded(attempts) = {} => claims = {}
         /\ Recorded(attempts) # {} => LastAttempt(attempts) = Cardinality(claims)
<1> DEFINE n == Cardinality(claims)
<1>1. claims = 1..n /\ n \in Nat
  BY ClaimCount, SlotsAssumption
<1>2. \A s \in claims : ~(s > LastAttempt(attempts))
  BY DEF TailOrphans
<1>3. ASSUME Recorded(attempts) = {} PROVE claims = {}
  <2>1. LastAttempt(attempts) = 0
    BY <1>3 DEF LastAttempt
  <2> HIDE DEF n
  <2> QED BY <1>1, <1>2, <2>1
<1>4. ASSUME Recorded(attempts) # {} PROVE LastAttempt(attempts) = n
  <2>1. LastAttempt(attempts) \in claims
    BY <1>4, LastAttemptRecorded
  <2> HIDE DEF n
  <2>2. n \in claims
    BY <1>1, <2>1
  <2> QED BY <1>1, <1>2, <2>1, <2>2
<1> QED BY <1>3, <1>4

-----------------------------------------------------------------------------
(* The delivery beyond its budget *)

(* An invocation knows its settings, and past the intent they are on disk. *)
Configured ==
  /\ \A w \in Workers : pc[w] # "idle" => config[w] \in Settings
  /\ \A w \in Workers : pc[w] \notin {"idle", "lock", "intent"} => intent \in Settings
  /\ intent = NoIntent => published = NoState

(* The pointer is never ahead of the artifacts, and is what they say once it *)
(* is terminal.                                                              *)
Pointing ==
  /\ published.terminal => published = Current
  /\ published.count <= Current.count
  /\ published.status \in {"DELIVERED", "PERMANENT_FAILURE"} => published.terminal

(* What an outcome may claim of a request. *)
Fits(class, req) ==
  /\ class = "DELIVERED" => req = "applied"
  /\ class \in {"RETRYABLE_FAILURE", "PERMANENT_FAILURE"} =>
       req \in {"unsent", "refused", "applied_refused"}

(* A wait is that of a saved attempt, or there is an older orphan to resolve. *)
DueNow ==
  wait = 0 \/ \E s \in claims : s < Cardinality(claims) /\ s > LastAttempt(attempts)

(* What the invocation past the lock knows. *)
Knows(w) ==
  /\ pc[w] \in {"repair", "decide", "publish"} => derived[w] = Current
  /\ pc[w] = "decide" => published = derived[w]
  /\ pc[w] \in {"enter", "await", "save", "reread", "publish"} => ~published.terminal
  /\ pc[w] \in {"enter", "await", "save"} =>
       slot[w] = Cardinality(claims) /\ attempts[slot[w]] = NoOutcome
  /\ pc[w] = "enter" => request[slot[w]] = "unsent" /\ DueNow
  /\ pc[w] = "save" => outcome[w] \in Classes /\ Fits(outcome[w], request[slot[w]])

(* Requests and outcomes agree, and without declared idempotency all slots   *)
(* but the newest are known to have failed.                                  *)
Answered ==
  /\ \A s \in Slots : Fits(attempts[s], request[s])
  /\ \A s \in Slots : request[s] # "unsent" => s \in claims
  /\ ~intent.idem =>
       \A s \in claims : s < Cardinality(claims) => attempts[s] = "RETRYABLE_FAILURE"
  /\ Recorded(attempts) = {} => wait = 0

Acted == {s \in Slots : request[s] \in {"applied", "applied_refused"}}

Honest ==
  /\ Safe
  /\ Configured
  /\ Pointing
  /\ \A w \in Workers : Knows(w)
  /\ Answered
  /\ effects = Cardinality(Acted)

LEMMA HonestInit == Init => Honest
<1> SUFFICES ASSUME Init PROVE Honest
  OBVIOUS
<1>1. Safe
  BY SafeInit
<1>2. Configured
  BY DEF Init, Configured
<1>3. Recorded(attempts) = {} /\ TailOrphans(claims, attempts) = {}
  BY DEF Init, Recorded, TailOrphans
<1>4. Current.count = 0
  BY <1>3, FS_EmptySet, DeriveCount DEF Current
<1>5. Pointing
  BY <1>4 DEF Init, Pointing, NoState, State
<1>6. \A w \in Workers : Knows(w)
  BY DEF Init, Knows
<1>7. Answered
  BY <1>3 DEF Init, Answered, Fits, NoOutcome
<1>8. Acted = {}
  BY DEF Init, Acted
<1>9. effects = Cardinality(Acted)
  BY <1>8, FS_EmptySet DEF Init
<1> QED BY <1>1, <1>2, <1>5, <1>6, <1>7, <1>9 DEF Honest

(* A step that leaves the ledger and the world alone and leaves its          *)
(* invocation before the first read.                                         *)
LEMMA QuietStep ==
  ASSUME Honest, UNCHANGED <<ledger, world>>, NEW u \in Workers,
         pc'[u] \in {"idle", "lock", "intent", "read"},
         pc'[u] # "idle" => config'[u] \in Settings,
         pc'[u] = "read" => intent \in Settings,
         \A v \in Workers \ {u} :
           /\ pc'[v] = pc[v] /\ config'[v] = config[v] /\ derived'[v] = derived[v]
           /\ slot'[v] = slot[v] /\ outcome'[v] = outcome[v]
  PROVE  /\ Configured' /\ Pointing' /\ (\A w \in Workers : Knows(w)')
         /\ Answered' /\ effects' = Cardinality(Acted')
<1>1. UNCHANGED <<intent, claims, attempts, published, wait, outbox, request, effects>>
  BY DEF ledger, world
<1>2. Configured'
  BY <1>1 DEF Honest, Configured
<1>3. Current' = Current
  BY <1>1, CurrentNext DEF Current
<1>4. Pointing'
  BY <1>1, <1>3 DEF Honest, Pointing
<1>5. DueNow' = DueNow
  BY <1>1 DEF DueNow, LastAttempt, Recorded
<1>6. ASSUME NEW w \in Workers PROVE Knows(w)'
  <2>1. CASE w = u
    BY <2>1 DEF Knows
  <2>2. CASE w # u
    BY <1>1, <1>3, <1>5, <2>2 DEF Honest, Knows, Fits
  <2> QED BY <2>1, <2>2
<1>7. Answered'
  BY <1>1 DEF Honest, Answered, Fits, Recorded
<1>8. Acted' = Acted
  BY <1>1 DEF Acted
<1> QED BY <1>1, <1>2, <1>4, <1>6, <1>7, <1>8 DEF Honest

(* While one invocation is past the lock the others know nothing. *)
LEMMA OthersWait ==
  ASSUME Honest, NEW u \in Workers, pc[u] \notin {"idle", "lock"},
         \A v \in Workers \ {u} : pc'[v] = pc[v]
  PROVE  \A v \in Workers \ {u} : pc'[v] \in {"idle", "lock"} /\ Knows(v)'
<1>1. \A v \in Workers \ {u} : pc[v] \in {"idle", "lock"}
  BY DEF Honest, Safe, Exclusive
<1> QED BY <1>1 DEF Knows

(* A step past the lock that leaves intent and settings alone. *)
LEMMA ConfiguredKept ==
  ASSUME Honest, NEW u \in Workers, pc[u] \notin {"idle", "lock", "intent"},
         UNCHANGED <<intent, config>>, \A v \in Workers \ {u} : pc'[v] = pc[v]
  PROVE  Configured'
<1>1. intent \in Settings /\ config[u] \in Settings
  BY DEF Honest, Configured
<1>2. NoIntent \notin Settings
  BY SettingsAssumption, SlotsAssumption, NoIntentFields DEF Slots
<1> QED BY <1>1, <1>2 DEF Honest, Configured

LEMMA PersistIntentHonest ==
  ASSUME Honest, NEW w \in Workers, PersistIntent(w)
  PROVE  /\ Configured' /\ Pointing' /\ (\A v \in Workers : Knows(v)')
         /\ Answered' /\ effects' = Cardinality(Acted')
<1>1. /\ pc[w] = "intent" /\ intent = NoIntent /\ intent' = config[w]
      /\ pc' = [pc EXCEPT ![w] = "read"]
      /\ UNCHANGED <<claims, attempts, published, wait, config, derived, slot, outcome,
                     outbox, request, effects>>
  BY DEF PersistIntent, world
<1>2. pc'[w] = "read" /\ \A v \in Workers \ {w} : pc'[v] = pc[v]
  BY <1>1 DEF Honest, Safe, TypeOK
<1>3. \A v \in Workers \ {w} : pc'[v] \in {"idle", "lock"} /\ Knows(v)'
  BY <1>1, <1>2, OthersWait
<1>4. Knows(w)'
  BY <1>2 DEF Knows
<1>5. config[w] \in Settings /\ published = NoState
  BY <1>1 DEF Honest, Configured
<1>6. NoIntent \notin Settings
  BY SettingsAssumption, SlotsAssumption, NoIntentFields DEF Slots
<1>7. Configured'
  BY <1>1, <1>2, <1>3, <1>5, <1>6 DEF Honest, Configured
<1>8. claims = {}
  BY <1>1, NoIntentFields, SlotsAssumption DEF Honest, Safe, ClaimsContiguous
<1>9. Recorded(attempts) = {}
  BY <1>8 DEF Honest, Safe, SlotClaimed
<1>10. Current'.count = 0
  <2>1. Recorded(attempts') = {}
    BY <1>1, <1>9
  <2>2. Current' = Derive(intent', claims', attempts')
    BY <1>1, CurrentNext
  <2> QED BY <2>1, <2>2, FS_EmptySet, DeriveCount
<1>11. Pointing'
  BY <1>1, <1>5, <1>10 DEF Pointing, NoState, State
<1>12. Answered'
  BY <1>1, <1>8 DEF Honest, Answered, Fits, Recorded
<1>13. Acted' = Acted
  BY <1>1 DEF Acted
<1> QED BY <1>1, <1>3, <1>4, <1>7, <1>11, <1>12, <1>13 DEF Honest


LEMMA ReadLedgerHonest ==
  ASSUME Honest, NEW w \in Workers, ReadLedger(w)
  PROVE  /\ Configured' /\ Pointing' /\ (\A v \in Workers : Knows(v)')
         /\ Answered' /\ effects' = Cardinality(Acted')
<1>1. /\ UNCHANGED <<intent, claims, attempts, published, wait, config, slot, outcome,
                     outbox, request, effects>>
      /\ pc[w] \in {"read", "reread"}
      /\ derived' = [derived EXCEPT ![w] = Derive(intent, claims, attempts)]
      /\ pc' = [pc EXCEPT ![w] = IF pc[w] = "read" THEN "repair" ELSE "publish"]
  BY DEF ReadLedger, ledger, world
<1>2. /\ pc'[w] = IF pc[w] = "read" THEN "repair" ELSE "publish"
      /\ derived'[w] = Current
      /\ \A v \in Workers \ {w} : pc'[v] = pc[v]
  BY <1>1 DEF Honest, Safe, TypeOK, Current
<1>3. \A v \in Workers \ {w} : pc'[v] \in {"idle", "lock"} /\ Knows(v)'
  BY <1>1, <1>2, OthersWait
<1>4. Current' = Current
  BY <1>1, CurrentNext DEF Current
<1>5. pc[w] = "reread" => ~published.terminal
  BY DEF Honest, Knows
<1>6. Knows(w)'
  BY <1>1, <1>2, <1>4, <1>5 DEF Knows
<1>7. Configured'
  BY <1>1, <1>2, ConfiguredKept
<1>8. Pointing'
  BY <1>1, <1>4 DEF Honest, Pointing
<1>9. Answered'
  BY <1>1 DEF Honest, Answered, Fits, Recorded
<1>10. Acted' = Acted
  BY <1>1 DEF Acted
<1> QED BY <1>1, <1>3, <1>6, <1>7, <1>8, <1>9, <1>10 DEF Honest

LEMMA PublishHonest ==
  ASSUME Honest, NEW w \in Workers, RepairState(w) \/ PublishState(w)
  PROVE  /\ Configured' /\ Pointing' /\ (\A v \in Workers : Knows(v)')
         /\ Answered' /\ effects' = Cardinality(Acted')
<1>1. /\ UNCHANGED <<intent, claims, attempts, wait, config, derived, slot, outcome,
                     outbox, request, effects>>
      /\ pc[w] \in {"repair", "publish"}
      /\ published' = derived[w]
      /\ pc' = [pc EXCEPT ![w] = "decide"]
  BY DEF RepairState, PublishState, world
<1>2. pc'[w] = "decide" /\ \A v \in Workers \ {w} : pc'[v] = pc[v]
  BY <1>1 DEF Honest, Safe, TypeOK
<1>3. \A v \in Workers \ {w} : pc'[v] \in {"idle", "lock"} /\ Knows(v)'
  BY <1>1, <1>2, OthersWait
<1>4. Current' = Current
  BY <1>1, CurrentNext DEF Current
<1>5. derived[w] = Current
  BY <1>1 DEF Honest, Knows
<1>6. Knows(w)'
  BY <1>1, <1>2, <1>4, <1>5 DEF Knows
<1>7. Configured'
  BY <1>1, <1>2, ConfiguredKept
<1>8. Pointing'
  <2>1. Current.status \in {"DELIVERED", "PERMANENT_FAILURE"} => Current.terminal
    BY VerdictMeans DEF Current
  <2>2. Current.count <= Current.count
    <3>1. Current.count \in 0..MaxSlots
      BY DeriveType DEF Current, StateRecords, Honest, Safe, TypeOK
    <3> QED BY <3>1, SlotsAssumption
  <2> QED BY <1>1, <1>4, <1>5, <2>1, <2>2 DEF Pointing
<1>9. Answered'
  BY <1>1 DEF Honest, Answered, Fits, Recorded
<1>10. Acted' = Acted
  BY <1>1 DEF Acted
<1> QED BY <1>1, <1>3, <1>6, <1>7, <1>8, <1>9, <1>10 DEF Honest

(* What an invocation that goes on at "decide" can rely on. *)
LEMMA DecidedToGo ==
  ASSUME Honest, NEW w \in Workers, pc[w] = "decide",
         ~derived[w].terminal, ~TooEarly(w)
  PROVE  /\ ~published.terminal
         /\ \/ TailOrphans(claims, attempts) # {} /\ intent.idem
            \/ claims = {} /\ wait = 0
            \/ /\ wait = 0 /\ Recorded(attempts) # {}
               /\ LastAttempt(attempts) = Cardinality(claims)
               /\ RetryScheduled(intent, attempts[LastAttempt(attempts)])
<1>1. derived[w] = Current /\ published = Current
  BY DEF Honest, Knows
<1>2. ~Derive(intent, claims, attempts).terminal
  BY <1>1 DEF Current
<1>3. wait \in Nat
  BY PolicyFields DEF Honest, Safe, TypeOK
<1>4. TypeOK /\ ClaimsContiguous /\ Recorded(attempts) \subseteq claims
  BY DEF Honest, Safe, SlotClaimed
<1>5. Derive(intent, claims, attempts).retry => wait = 0
  BY <1>1, <1>3 DEF TooEarly, Current
<1>6. CASE TailOrphans(claims, attempts) # {} /\ intent.idem
  BY <1>1, <1>2, <1>6 DEF Current
<1>7. CASE TailOrphans(claims, attempts) = {} /\ Recorded(attempts) = {}
  BY <1>1, <1>2, <1>4, <1>7, NoOrphansMeans DEF Current, Honest, Answered
<1>8. CASE /\ TailOrphans(claims, attempts) = {} /\ Recorded(attempts) # {}
           /\ Derive(intent, claims, attempts).retry
           /\ RetryScheduled(intent, attempts[LastAttempt(attempts)])
  BY <1>1, <1>2, <1>4, <1>5, <1>8, NoOrphansMeans DEF Current
<1> QED BY <1>2, <1>6, <1>7, <1>8, OpenMeans

LEMMA SaveClaimHonest ==
  ASSUME Honest, NEW w \in Workers, SaveClaim(w)
  PROVE  /\ Configured' /\ Pointing' /\ (\A v \in Workers : Knows(v)')
         /\ Answered' /\ effects' = Cardinality(Acted')
<1> DEFINE n == Cardinality(claims)
<1>1. n \in 0..MaxSlots /\ claims = 1..n
  BY ClaimCount DEF Honest, Safe
<1>2. /\ UNCHANGED <<intent, attempts, published, wait, config, derived, outcome,
                     outbox, request, effects>>
      /\ pc[w] = "decide" /\ ~derived[w].terminal /\ ~TooEarly(w)
      /\ n + 1 <= intent.max
      /\ claims' = claims \union {n + 1}
      /\ slot' = [slot EXCEPT ![w] = n + 1]
      /\ pc' = [pc EXCEPT ![w] = "enter"]
  BY DEF SaveClaim, NextSlot, world
<1>3. pc'[w] = "enter" /\ slot'[w] = n + 1 /\ \A v \in Workers \ {w} : pc'[v] = pc[v]
  <2> HIDE DEF n
  <2> QED BY <1>2 DEF Honest, Safe, TypeOK
<1>4. n \in Nat /\ n + 1 \in Slots
  <2>1. intent.max \in 0..MaxSlots
    BY PolicyFields DEF Honest, Safe, TypeOK
  <2> HIDE DEF n
  <2> QED BY <1>1, <1>2, <2>1, SlotsAssumption DEF Slots
<1>5. claims' = 1..(n + 1) /\ Cardinality(claims') = n + 1
  <2>1. claims' = 1..(n + 1)
    <3> HIDE DEF n
    <3> QED BY <1>1, <1>2, <1>4
  <2> HIDE DEF n
  <2> QED BY <1>4, <2>1, InitialSegmentCardinality
<1>6. n + 1 \notin claims
  <2> HIDE DEF n
  <2> QED BY <1>1, <1>4
<1>7. attempts[n + 1] = NoOutcome /\ request[n + 1] = "unsent"
  <2>1. n + 1 \notin Recorded(attempts)
    BY <1>6 DEF Honest, Safe, SlotClaimed
  <2> HIDE DEF n
  <2> QED BY <1>4, <1>6, <2>1 DEF Recorded, Honest, Answered
<1>8. /\ ~published.terminal
      /\ \/ TailOrphans(claims, attempts) # {} /\ intent.idem
         \/ claims = {} /\ wait = 0
         \/ /\ wait = 0 /\ Recorded(attempts) # {}
            /\ LastAttempt(attempts) = n
            /\ RetryScheduled(intent, attempts[n])
  BY <1>2, DecidedToGo
<1>9. \A v \in Workers \ {w} : pc'[v] \in {"idle", "lock"} /\ Knows(v)'
  BY <1>2, <1>3, OthersWait
<1> HIDE DEF n
<1>10. DueNow'
  <2>1. CASE wait = 0
    BY <1>2, <2>1 DEF DueNow
  <2>2. CASE TailOrphans(claims, attempts) # {}
    <3>1. PICK s \in claims : s > LastAttempt(attempts)
      BY <2>2 DEF TailOrphans
    <3>2. s \in claims' /\ s < Cardinality(claims')
      BY <1>1, <1>4, <1>5
    <3>3. LastAttempt(attempts)' = LastAttempt(attempts)
      BY <1>2 DEF LastAttempt, Recorded
    <3> QED BY <3>1, <3>2, <3>3 DEF DueNow
  <2> QED BY <1>8, <2>1, <2>2
<1>11. Knows(w)'
  BY <1>2, <1>3, <1>5, <1>7, <1>8, <1>10 DEF Knows
<1>12. Configured'
  BY <1>2, <1>3, ConfiguredKept
<1>13. Pointing'
  <2>1. Current'.count = Current.count
    BY <1>2, DeriveCount, CurrentNext DEF Current
  <2> QED BY <1>2, <1>8, <2>1 DEF Honest, Pointing
<1>14. Answered'
  <2>1. ASSUME ~intent.idem, NEW s \in claims', s < Cardinality(claims')
        PROVE  attempts[s] = "RETRYABLE_FAILURE"
    <3>1. s \in claims /\ s <= n
      BY <1>1, <1>4, <1>5, <2>1
    <3>2. claims # {} /\ LastAttempt(attempts) = n /\ RetryScheduled(intent, attempts[n])
      BY <1>8, <2>1, <3>1
    <3>3. CASE s = n
      BY <2>1, <3>2, <3>3 DEF RetryScheduled
    <3>4. CASE s < n
      BY <2>1, <3>1, <3>4 DEF Honest, Answered, n
    <3> QED BY <1>1, <1>4, <3>1, <3>3, <3>4
  <2>2. Recorded(attempts)' = Recorded(attempts)
    BY <1>2 DEF Recorded
  <2> QED BY <1>2, <2>1, <2>2 DEF Honest, Answered, Fits
<1>15. Acted' = Acted
  BY <1>2 DEF Acted
<1> QED BY <1>2, <1>9, <1>11, <1>12, <1>13, <1>14, <1>15 DEF Honest


(* The failing and the sending entry. *)
LEMMA EnterHonest ==
  ASSUME Honest, NEW w \in Workers, FailBeforeDispatch(w) \/ Dispatch(w)
  PROVE  /\ Configured' /\ Pointing' /\ (\A v \in Workers : Knows(v)')
         /\ Answered' /\ effects' = Cardinality(Acted')
<1>1. /\ UNCHANGED <<intent, claims, attempts, published, wait, config, derived, slot,
                     outbox, effects>>
      /\ pc[w] = "enter"
      /\ \/ /\ pc' = [pc EXCEPT ![w] = "save"] /\ request' = request
            /\ outcome' = [outcome EXCEPT ![w] = "RETRYABLE_FAILURE"]
         \/ /\ pc' = [pc EXCEPT ![w] = "await"] /\ outcome' = outcome
            /\ request' = [request EXCEPT ![slot[w]] = "inflight"]
  BY DEF FailBeforeDispatch, Dispatch, ledger
<1>2. /\ pc'[w] \in {"save", "await"}
      /\ pc'[w] = "save" => outcome'[w] = "RETRYABLE_FAILURE" /\ request' = request
      /\ \A v \in Workers \ {w} : pc'[v] = pc[v]
  BY <1>1 DEF Honest, Safe, TypeOK
<1>3. \A v \in Workers \ {w} : pc'[v] \in {"idle", "lock"} /\ Knows(v)'
  BY <1>1, <1>2, OthersWait
<1>4. /\ ~published.terminal /\ slot[w] = Cardinality(claims)
      /\ attempts[slot[w]] = NoOutcome /\ request[slot[w]] = "unsent"
  BY <1>1 DEF Honest, Knows
<1>5. slot[w] \in claims /\ slot[w] \in Slots
  BY <1>1 DEF Honest, Safe, SlotClaimed, TypeOK
<1>6. Current' = Current
  BY <1>1, CurrentNext DEF Current
<1>7. Knows(w)'
  BY <1>1, <1>2, <1>4 DEF Knows, Fits, Classes
<1>8. Configured'
  BY <1>1, <1>2, ConfiguredKept
<1>9. Pointing'
  BY <1>1, <1>6 DEF Honest, Pointing
<1>10. /\ \A s \in Slots : s # slot[w] => request'[s] = request[s]
       /\ request'[slot[w]] \in {"unsent", "inflight"}
  BY <1>1, <1>4, <1>5 DEF Honest, Safe, TypeOK
<1>11. Answered'
  <2>1. ASSUME NEW s \in Slots PROVE Fits(attempts[s], request'[s])
    <3>1. CASE s = slot[w]
      BY <1>4, <3>1 DEF Fits, NoOutcome
    <3>2. CASE s # slot[w]
      BY <1>10, <3>2 DEF Honest, Answered
    <3> QED BY <3>1, <3>2
  <2>2. ASSUME NEW s \in Slots, request'[s] # "unsent" PROVE s \in claims
    BY <1>5, <1>10, <2>2 DEF Honest, Answered
  <2>3. Recorded(attempts)' = Recorded(attempts)
    BY <1>1 DEF Recorded
  <2>4. \A s \in Slots : Fits(attempts[s], request[s])'
    BY <1>1, <2>1 DEF Fits
  <2> QED BY <1>1, <2>2, <2>3, <2>4 DEF Honest, Answered
<1>12. Acted' = Acted
  BY <1>4, <1>5, <1>10 DEF Acted
<1> QED BY <1>1, <1>3, <1>7, <1>8, <1>9, <1>11, <1>12 DEF Honest

LEMMA RespondHonest ==
  ASSUME Honest, NEW w \in Workers, Respond(w)
  PROVE  /\ Configured' /\ Pointing' /\ (\A v \in Workers : Knows(v)')
         /\ Answered' /\ effects' = Cardinality(Acted')
<1>1. PICK class \in Outcomes(slot[w]) : outcome' = [outcome EXCEPT ![w] = class]
  BY DEF Respond
<1>2. /\ UNCHANGED <<intent, claims, attempts, published, wait, config, derived, slot,
                     outbox, request, effects>>
      /\ pc[w] = "await" /\ pc' = [pc EXCEPT ![w] = "save"]
  BY DEF Respond, ledger, world
<1>3. /\ pc'[w] = "save" /\ outcome'[w] = class
      /\ \A v \in Workers \ {w} : pc'[v] = pc[v]
  BY <1>1, <1>2 DEF Honest, Safe, TypeOK
<1>4. \A v \in Workers \ {w} : pc'[v] \in {"idle", "lock"} /\ Knows(v)'
  BY <1>2, <1>3, OthersWait
<1>5. class \in Classes /\ Fits(class, request[slot[w]])
  BY <1>1 DEF Outcomes, Classes, Fits
<1>6. Current' = Current
  BY <1>2, CurrentNext DEF Current
<1>7. Knows(w)'
  BY <1>2, <1>3, <1>5 DEF Honest, Knows, Fits
<1>8. Configured'
  BY <1>2, <1>3, ConfiguredKept
<1>9. Pointing'
  BY <1>2, <1>6 DEF Honest, Pointing
<1>10. Answered'
  BY <1>2 DEF Honest, Answered, Fits, Recorded
<1>11. Acted' = Acted
  BY <1>2 DEF Acted
<1> QED BY <1>2, <1>4, <1>7, <1>8, <1>9, <1>10, <1>11 DEF Honest

LEMMA SaveAttemptHonest ==
  ASSUME Honest, NEW w \in Workers, SaveAttempt(w)
  PROVE  /\ Configured' /\ Pointing' /\ (\A v \in Workers : Knows(v)')
         /\ Answered' /\ effects' = Cardinality(Acted')
<1>1. /\ UNCHANGED <<intent, claims, published, config, derived, slot, outbox, request,
                     effects>>
      /\ pc[w] = "save" /\ pc' = [pc EXCEPT ![w] = "reread"]
      /\ attempts' = [attempts EXCEPT ![slot[w]] = outcome[w]]
  BY DEF SaveAttempt, world
<1>2. pc'[w] = "reread" /\ \A v \in Workers \ {w} : pc'[v] = pc[v]
  BY <1>1 DEF Honest, Safe, TypeOK
<1>3. \A v \in Workers \ {w} : pc'[v] \in {"idle", "lock"} /\ Knows(v)'
  BY <1>1, <1>2, OthersWait
<1>4. /\ ~published.terminal /\ slot[w] = Cardinality(claims)
      /\ attempts[slot[w]] = NoOutcome
      /\ outcome[w] \in Classes /\ Fits(outcome[w], request[slot[w]])
  BY <1>1 DEF Honest, Knows
<1>5. slot[w] \in Slots
  BY <1>1 DEF Honest, Safe, SlotClaimed, TypeOK
<1>6. /\ \A s \in Slots : s # slot[w] => attempts'[s] = attempts[s]
      /\ attempts'[slot[w]] = outcome[w]
  BY <1>1, <1>5 DEF Honest, Safe, TypeOK
<1>7. slot[w] \notin Recorded(attempts)
  BY <1>4 DEF Recorded
<1>8. Recorded(attempts') = Recorded(attempts) \union {slot[w]}
  <2>1. outcome[w] # NoOutcome
    BY <1>4 DEF Classes, NoOutcome
  <2> QED BY <1>5, <1>6, <2>1 DEF Recorded
<1>9. Knows(w)'
  BY <1>1, <1>2, <1>4 DEF Knows
<1>10. Configured'
  BY <1>1, <1>2, ConfiguredKept
<1>11. Current.count <= Current'.count
  <2>1. IsFiniteSet(Recorded(attempts)) /\ Cardinality(Recorded(attempts)) \in Nat
    <3>1. Recorded(attempts) \in SUBSET Slots
      BY DEF Recorded
    <3> QED BY <3>1, SlotSetCardinality, SlotsAssumption
  <2>2. Cardinality(Recorded(attempts')) = Cardinality(Recorded(attempts)) + 1
    BY <1>7, <1>8, <2>1, FS_AddElement
  <2>3. Current.count = IF outbox = "none" THEN 0 ELSE Cardinality(Recorded(attempts))
    BY DeriveCount DEF Current
  <2>4. Current'.count = IF outbox = "none" THEN 0 ELSE Cardinality(Recorded(attempts'))
    BY <1>1, DeriveCount, CurrentNext
  <2> QED BY <2>1, <2>2, <2>3, <2>4
<1>12. Pointing'
  <2>1. /\ published.count \in Nat /\ Current.count \in Nat /\ Current'.count \in Nat
    <3>1. Current' \in StateRecords
      <4>1. attempts' \in [Slots -> Classes \union {NoOutcome}]
        BY <1>1, <1>4, <1>5 DEF Honest, Safe, TypeOK
      <4>2. Derive(intent', claims', attempts') \in StateRecords
        BY <4>1, DeriveType
      <4>3. Current' = Derive(intent', claims', attempts')
        BY <1>1, CurrentNext
      <4> QED BY <4>2, <4>3
    <3>2. Current \in StateRecords /\ published \in StateRecords
      BY DeriveType DEF Current, Honest, Safe, TypeOK
    <3> QED BY <3>1, <3>2, SlotsAssumption DEF StateRecords
  <2> QED BY <1>1, <1>4, <1>11, <2>1 DEF Honest, Pointing
<1>13. Answered'
  <2>1. ASSUME NEW s \in Slots PROVE Fits(attempts'[s], request[s])
    <3>1. CASE s = slot[w]
      BY <1>4, <1>6, <3>1
    <3>2. CASE s # slot[w]
      BY <1>6, <3>2 DEF Honest, Answered
    <3> QED BY <3>1, <3>2
  <2>2. \A s \in Slots : Fits(attempts[s], request[s])'
    BY <1>1, <2>1 DEF Fits
  <2>3. Recorded(attempts)' # {}
    BY <1>8 DEF Recorded
  <2>4. ASSUME ~intent.idem, NEW s \in claims, s < Cardinality(claims)
        PROVE  attempts'[s] = "RETRYABLE_FAILURE"
    <3>1. s \in Slots /\ s # slot[w]
      BY <1>4, <1>5, <2>4 DEF Honest, Safe, TypeOK, Slots
    <3> QED BY <1>6, <2>4, <3>1 DEF Honest, Answered
  <2> QED BY <1>1, <2>2, <2>3, <2>4 DEF Honest, Answered
<1>14. Acted' = Acted
  BY <1>1 DEF Acted
<1> QED BY <1>1, <1>3, <1>9, <1>10, <1>12, <1>13, <1>14 DEF Honest

LEMMA ReceiveHonest ==
  ASSUME Honest, NEW s \in Slots, Receive(s)
  PROVE  /\ Configured' /\ Pointing' /\ (\A v \in Workers : Knows(v)')
         /\ Answered' /\ effects' = Cardinality(Acted')
<1>1. PICK answer \in {"applied", "refused", "applied_refused"} :
        /\ request' = [request EXCEPT ![s] = answer]
        /\ effects' = effects + (IF answer = "refused" THEN 0 ELSE 1)
  BY DEF Receive
<1>2. /\ UNCHANGED <<intent, claims, attempts, published, wait, pc, config, derived,
                     slot, outcome, outbox>>
      /\ request[s] = "inflight"
  BY DEF Receive, ledger, local
<1>3. request'[s] = answer /\ \A t \in Slots : t # s => request'[t] = request[t]
  BY <1>1 DEF Honest, Safe, TypeOK
<1>4. Current' = Current
  BY <1>2, CurrentNext DEF Current
<1>5. Configured' /\ Pointing'
  BY <1>2, <1>4 DEF Honest, Configured, Pointing
<1>6. ASSUME NEW class, Fits(class, "inflight") PROVE Fits(class, answer)
  BY <1>6 DEF Fits
<1>7. ASSUME NEW v \in Workers PROVE Knows(v)'
  <2>1. Knows(v)
    BY DEF Honest
  <2>2. DueNow' = DueNow
    BY <1>2 DEF DueNow, LastAttempt, Recorded
  <2>3. pc[v] \in {"enter", "await", "save"} => slot[v] \in Slots
    BY DEF Honest, Safe, SlotClaimed, TypeOK
  <2>4. pc[v] = "enter" => request'[slot[v]] = "unsent"
    BY <1>2, <1>3, <2>1, <2>3 DEF Knows
  <2>5. pc[v] = "save" => Fits(outcome[v], request'[slot[v]])
    BY <1>2, <1>3, <1>6, <2>1, <2>3 DEF Knows
  <2>6. Fits(outcome[v], request[slot[v]])' = Fits(outcome[v], request'[slot[v]])
    BY <1>2 DEF Fits
  <2> QED BY <1>2, <1>4, <2>1, <2>2, <2>4, <2>5, <2>6 DEF Knows
<1>8. Answered'
  <2>1. ASSUME NEW t \in Slots PROVE Fits(attempts[t], request[t])'
    <3>1. Fits(attempts[t], request'[t])
      BY <1>2, <1>3, <1>6 DEF Honest, Answered
    <3> QED BY <1>2, <3>1 DEF Fits
  <2>2. ASSUME NEW t \in Slots, request'[t] # "unsent" PROVE t \in claims
    BY <1>2, <1>3, <2>2 DEF Honest, Answered
  <2>3. Recorded(attempts)' = Recorded(attempts)
    BY <1>2 DEF Recorded
  <2> QED BY <1>2, <2>1, <2>2, <2>3 DEF Honest, Answered
<1>9. effects' = Cardinality(Acted')
  <2>1. s \notin Acted /\ effects = Cardinality(Acted)
    BY <1>2 DEF Acted, Honest
  <2>2. IsFiniteSet(Acted) /\ Cardinality(Acted) \in Nat
    <3>1. Acted \in SUBSET Slots
      BY DEF Acted
    <3> QED BY <3>1, SlotSetCardinality, SlotsAssumption
  <2>3. CASE answer = "refused"
    <3>1. Acted' = Acted
      BY <1>2, <1>3, <2>3 DEF Acted
    <3> QED BY <1>1, <2>1, <2>2, <2>3, <3>1
  <2>4. CASE answer # "refused"
    <3>1. Acted' = Acted \union {s}
      BY <1>1, <1>2, <1>3, <2>4 DEF Acted
    <3> QED BY <1>1, <2>1, <2>2, <2>4, <3>1, FS_AddElement
  <2> QED BY <2>3, <2>4
<1> QED BY <1>5, <1>7, <1>8, <1>9

LEMMA TickHonest ==
  ASSUME Honest, Tick
  PROVE  /\ Configured' /\ Pointing' /\ (\A v \in Workers : Knows(v)')
         /\ Answered' /\ effects' = Cardinality(Acted')
<1>1. /\ UNCHANGED <<intent, claims, attempts, published, pc, config, derived, slot,
                     outcome, outbox, request, effects>>
      /\ wait > 0
  BY DEF Tick, local, world
<1>2. Current' = Current
  BY <1>1, CurrentNext DEF Current
<1>3. wait # 0
  BY <1>1, PolicyFields DEF Honest, Safe, TypeOK
<1>4. DueNow => DueNow'
  BY <1>1, <1>3 DEF DueNow, LastAttempt, Recorded
<1>5. \A v \in Workers : Knows(v)'
  BY <1>1, <1>2, <1>4 DEF Honest, Knows, Fits
<1>6. Configured' /\ Pointing'
  BY <1>1, <1>2 DEF Honest, Configured, Pointing
<1>7. Answered'
  BY <1>1, <1>3 DEF Honest, Answered, Fits, Recorded
<1>8. Acted' = Acted
  BY <1>1 DEF Acted
<1> QED BY <1>1, <1>5, <1>6, <1>7, <1>8 DEF Honest

LEMMA HonestStep == Honest /\ [Next]_vars => Honest'
<1> SUFFICES ASSUME Honest, [Next]_vars
             PROVE  /\ Configured' /\ Pointing' /\ (\A v \in Workers : Knows(v)')
                    /\ Answered' /\ effects' = Cardinality(Acted')
  BY SafeStep DEF Honest
<1>1. ASSUME NEW w \in Workers, Forget(w), UNCHANGED <<ledger, world>>
      PROVE  /\ Configured' /\ Pointing' /\ (\A v \in Workers : Knows(v)')
             /\ Answered' /\ effects' = Cardinality(Acted')
  <2>1. pc'[w] = "idle"
    BY <1>1 DEF Forget, Honest, Safe, TypeOK
  <2>2. \A v \in Workers \ {w} :
          /\ pc'[v] = pc[v] /\ config'[v] = config[v] /\ derived'[v] = derived[v]
          /\ slot'[v] = slot[v] /\ outcome'[v] = outcome[v]
    BY <1>1 DEF Forget, Honest, Safe, TypeOK
  <2> QED BY <1>1, <2>1, <2>2, QuietStep
<1>2. ASSUME NEW w \in Workers, Start(w) \/ Lock(w) \/ VerifyIntent(w)
      PROVE  /\ Configured' /\ Pointing' /\ (\A v \in Workers : Knows(v)')
             /\ Answered' /\ effects' = Cardinality(Acted')
  <2>1. UNCHANGED <<ledger, world>>
    BY <1>2 DEF Start, Lock, VerifyIntent
  <2>2. /\ pc'[w] \in {"lock", "intent", "read"} /\ config'[w] \in Settings
        /\ pc'[w] = "read" => intent \in Settings
    <3>1. CASE Start(w)
      BY <3>1 DEF Start, Honest, Safe, TypeOK
    <3>2. CASE Lock(w) \/ VerifyIntent(w)
      BY <3>2 DEF Lock, VerifyIntent, Honest, Configured, Safe, TypeOK
    <3> QED BY <1>2, <3>1, <3>2
  <2>3. \A v \in Workers \ {w} :
          /\ pc'[v] = pc[v] /\ config'[v] = config[v] /\ derived'[v] = derived[v]
          /\ slot'[v] = slot[v] /\ outcome'[v] = outcome[v]
    BY <1>2 DEF Start, Lock, VerifyIntent, Honest, Safe, TypeOK
  <2> QED BY <2>1, <2>2, <2>3, QuietStep
<1>3. ASSUME UNCHANGED vars
      PROVE  /\ Configured' /\ Pointing' /\ (\A v \in Workers : Knows(v)')
             /\ Answered' /\ effects' = Cardinality(Acted')
  <2>1. Current' = Current /\ DueNow' = DueNow /\ Acted' = Acted
    BY <1>3 DEF vars, ledger, world, Current, Derive, DueNow, LastAttempt, Recorded, Acted,
       TailOrphans, OrphanState, OutcomeState, LastError
  <2> QED BY <1>3, <2>1 DEF vars, ledger, local, world, Honest, Configured, Pointing, Knows,
         Answered, Fits, Recorded
<1> QED
  BY <1>1, <1>2, <1>3, PersistIntentHonest, ReadLedgerHonest, PublishHonest,
     SaveClaimHonest, EnterHonest, RespondHonest, SaveAttemptHonest, ReceiveHonest,
     TickHonest
     DEF Next, Work, Busy, RefuseIntent, Finish, Abort, ledger, world


THEOREM HonestAlways == Spec => []Honest
BY HonestInit, HonestStep, PTL DEF Spec

(* No death or interleaving leaves evidence or a pointer on disk that the    *)
(* next invocation refuses with DELIVERY_LEDGER_CONFLICT.                    *)
THEOREM LedgerAccepted == Spec => []LedgerNeverConflicts
<1>1. ASSUME Honest PROVE LedgerNeverConflicts
  <2>1. EvidenceValid
    BY <1>1, ClaimCount DEF Honest, Safe, SlotClaimed, EvidenceValid
  <2>2. ASSUME NEW w \in Workers, pc[w] = "repair"
        PROVE  Repairable(published, derived[w])
    <3>1. derived[w] = Current
      BY <1>1, <2>2 DEF Honest, Knows
    <3>2. CASE published.terminal
      BY <1>1, <3>1, <3>2 DEF Honest, Pointing, Repairable
    <3>3. CASE ~published.terminal
      <4>1. published.count \in Nat /\ derived[w].count \in Nat
        BY <1>1, SlotsAssumption DEF Honest, Safe, TypeOK, StateRecords
      <4> QED BY <1>1, <3>1, <3>3, <4>1 DEF Honest, Pointing, Repairable, Behind
    <3> QED BY <3>2, <3>3
  <2> QED BY <2>1, <2>2 DEF LedgerNeverConflicts
<1> QED BY <1>1, HonestAlways, PTL

(* Once a terminal state is published, no invocation claims, enters the      *)
(* transport, saves an attempt or moves the pointer again.                   *)
THEOREM TerminalStands == Spec => TerminalIsFinal
<1>1. ASSUME Honest, [Next]_vars, published.terminal
      PROVE  UNCHANGED <<intent, claims, attempts, published, entries>>
  <2>1. published = Current
    BY <1>1 DEF Honest, Pointing
  <2>2. ASSUME NEW w \in Workers, PersistIntent(w) PROVE FALSE
    BY <1>1, <2>2 DEF PersistIntent, Honest, Configured, NoState, State
  <2>3. ASSUME NEW w \in Workers, RepairState(w)
        PROVE  UNCHANGED <<intent, claims, attempts, published, entries>>
    <3>1. derived[w] = Current
      BY <1>1, <2>3 DEF RepairState, Honest, Knows
    <3> QED BY <2>1, <2>3, <3>1 DEF RepairState, world
  <2>4. ASSUME NEW w \in Workers, SaveClaim(w) PROVE FALSE
    BY <1>1, <2>4 DEF SaveClaim, Honest, Knows
  <2>5. ASSUME NEW w \in Workers,
               \/ PublishState(w) \/ FailBeforeDispatch(w) \/ Dispatch(w) \/ SaveAttempt(w)
        PROVE  FALSE
    BY <1>1, <2>5
       DEF PublishState, FailBeforeDispatch, Dispatch, SaveAttempt, Honest, Knows
  <2> QED
    BY <1>1, <2>2, <2>3, <2>4, <2>5
       DEF Next, Work, vars, ledger, world, Start, Lock, Busy, VerifyIntent, RefuseIntent,
           ReadLedger, Finish, Respond, Abort, Receive, Tick
<1>2. Honest /\ [Next]_vars =>
        [published.terminal =>
           UNCHANGED <<intent, claims, attempts, published, entries>>]_vars
  BY <1>1
<1> QED BY <1>2, HonestAlways, PTL DEF Spec, TerminalIsFinal

(* Only these two steps enter the transport. *)
LEMMA EntrySteps ==
  ASSUME Honest, [Next]_vars, entries' # entries
  PROVE  \E w \in Workers : pc[w] = "enter" /\ (FailBeforeDispatch(w) \/ Dispatch(w))
BY DEF Next, Work, vars, ledger, world, Start, Lock, Busy, PersistIntent, VerifyIntent,
   RefuseIntent, ReadLedger, RepairState, PublishState, Finish, SaveClaim,
   FailBeforeDispatch, Dispatch, Respond, SaveAttempt, Abort, Receive, Tick

(* Without declared idempotency nothing uncertain is ever sent again.        *)
THEOREM UncertainNeverResent == Spec => NoResendAfterUncertainty
<1>1. ASSUME Honest, [Next]_vars, entries' # entries, ~intent.idem
      PROVE  \A s \in claims : s < Cardinality(claims) => attempts[s] = "RETRYABLE_FAILURE"
  BY <1>1 DEF Honest, Answered
<1>2. Honest /\ [Next]_vars =>
        [entries' # entries /\ ~intent.idem
           => \A s \in claims :
                s < Cardinality(claims) => attempts[s] = "RETRYABLE_FAILURE"]_vars
  BY <1>1
<1> QED BY <1>2, HonestAlways, PTL DEF Spec, NoResendAfterUncertainty

(* The backoff of the newest failure is waited out by whoever retries. *)
THEOREM BackoffWaited == Spec => BackoffRespected
<1>1. ASSUME Honest, [Next]_vars, entries' # entries
      PROVE  \/ wait = 0
             \/ \E s \in claims : s < Cardinality(claims) /\ s > LastAttempt(attempts)
  <2>1. PICK w \in Workers : pc[w] = "enter"
    BY <1>1, EntrySteps
  <2>2. DueNow
    BY <1>1, <2>1 DEF Honest, Knows
  <2> QED BY <2>2 DEF DueNow
<1>2. Honest /\ [Next]_vars =>
        [entries' # entries
           => \/ wait = 0
              \/ \E s \in claims : s < Cardinality(claims) /\ s > LastAttempt(attempts)]_vars
  BY <1>1
<1> QED BY <1>2, HonestAlways, PTL DEF Spec, BackoffRespected

(* What is underway or was applied is that of the newest slot, when nothing  *)
(* uncertain is sent again.                                                  *)
LEMMA OnlyNewestActed ==
  ASSUME Honest, ~intent.idem
  PROVE  \A s \in Slots : request[s] \in {"inflight", "applied"} => s = Cardinality(claims)
<1> DEFINE n == Cardinality(claims)
<1>1. claims = 1..n /\ n \in Nat
  BY ClaimCount, SlotsAssumption DEF Honest, Safe
<1>2. ASSUME NEW s \in Slots, request[s] \in {"inflight", "applied"} PROVE s = n
  <2>1. s \in claims
    BY <1>2 DEF Honest, Answered
  <2>2. ~(s < n)
    <3>1. ASSUME s < n PROVE attempts[s] = "RETRYABLE_FAILURE"
      BY <2>1, <3>1 DEF Honest, Answered
    <3>2. Fits(attempts[s], request[s])
      BY DEF Honest, Answered
    <3> QED BY <1>2, <3>1, <3>2 DEF Fits
  <2> HIDE DEF n
  <2> QED BY <1>1, <2>1, <2>2
<1> QED BY <1>2

-----------------------------------------------------------------------------
(* The contract *)

(* An empty alert batch claims nothing. *)
NothingToTell == outbox = "none" => claims = {}

LEMMA NothingToTellStep ==
  ASSUME Honest, NothingToTell, [Next]_vars PROVE NothingToTell'
<1>1. outbox' = outbox
  BY OutboxStays
<1>2. ASSUME NEW w \in Workers, SaveClaim(w) PROVE outbox # "none"
  <2>1. ~Current.terminal
    BY <1>2 DEF SaveClaim, Honest, Knows
  <2> QED BY <2>1, OpenMeans DEF Current
<1>3. claims' = claims \/ \E w \in Workers : SaveClaim(w)
  BY DEF Next, Work, vars, ledger, world, Start, Lock, Busy, PersistIntent, VerifyIntent,
     RefuseIntent, ReadLedger, RepairState, PublishState, Finish, FailBeforeDispatch,
     Dispatch, Respond, SaveAttempt, Abort, Receive, Tick
<1> QED BY <1>1, <1>2, <1>3 DEF NothingToTell

Trusted == Honest /\ NothingToTell

LEMMA TrustedAlways == Spec => []Trusted
<1>1. Init => NothingToTell
  BY DEF Init, NothingToTell
<1>2. Honest /\ NothingToTell /\ [Next]_vars => NothingToTell'
  BY NothingToTellStep
<1> QED BY <1>1, <1>2, HonestAlways, PTL DEF Spec, Trusted

(* What a terminal state may say, and when it says that there was nothing. *)
LEMMA TerminalMeans ==
  ASSUME NEW i, NEW cl, NEW att \in [Slots -> Classes \union {NoOutcome}],
         Derive(i, cl, att).terminal
  PROVE  /\ Derive(i, cl, att).status \in {"NOOP", "DELIVERED", "PERMANENT_FAILURE", "AMBIGUOUS"}
         /\ Derive(i, cl, att).status = "NOOP" => outbox = "none"
<1>1. CASE outbox = "none"
  BY <1>1 DEF Derive, State
<1>2. CASE outbox # "none" /\ TailOrphans(cl, att) # {}
  BY <1>2 DEF Derive, OrphanState, State
<1>3. CASE outbox # "none" /\ TailOrphans(cl, att) = {} /\ Recorded(att) # {}
  <2> DEFINE class == att[LastAttempt(att)]
  <2>1. Derive(i, cl, att) = OutcomeState(i, cl, att)
    BY <1>3 DEF Derive
  <2>2. LastAttempt(att) \in Recorded(att)
    BY <1>3, LastAttemptRecorded
  <2>3. class \in Classes
    BY <2>2 DEF Recorded
  <2>4. CASE class = "RETRYABLE_FAILURE"
    <3>1. ASSUME RetryScheduled(i, class), ~Spent(i, cl, att) PROVE FALSE
      <4>1. OutcomeState(i, cl, att).terminal = FALSE
        BY <3>1 DEF OutcomeState, State
      <4> QED BY <2>1, <4>1
    <3>2. CASE ~(RetryScheduled(i, class) /\ ~Spent(i, cl, att))
      BY <2>1, <2>4, <3>2 DEF OutcomeState, State
    <3> QED BY <3>1, <3>2
  <2>5. CASE class # "RETRYABLE_FAILURE"
    <3>1. OutcomeState(i, cl, att).status = class
      BY <2>5 DEF OutcomeState, State
    <3> QED BY <2>1, <2>3, <2>5, <3>1 DEF Classes
  <2> QED BY <2>4, <2>5
<1>4. CASE outbox # "none" /\ TailOrphans(cl, att) = {} /\ Recorded(att) = {}
  BY <1>4 DEF Derive, State
<1> QED BY <1>1, <1>2, <1>3, <1>4

Underway == {s \in Slots : request[s] = "inflight"}
Verdict == IF published.terminal THEN published.status ELSE "OPEN"

(* A verdict, once published, is one of four and knows its terms. *)
LEMMA VerdictType ==
  ASSUME Trusted, published.terminal
  PROVE  /\ published = Current
         /\ published.status \in Contract!Verdicts
         /\ published.status = "NOOP" => outbox = "none"
         /\ intent # NoIntent
<1>1. published = Derive(intent, claims, attempts)
  BY DEF Trusted, Honest, Pointing, Current
<1>2. attempts \in [Slots -> Classes \union {NoOutcome}]
  BY DEF Trusted, Honest, Safe, TypeOK
<1>3. intent # NoIntent
  BY DEF Trusted, Honest, Configured, NoState, State
<1> QED BY <1>1, <1>2, <1>3, TerminalMeans DEF Current, Contract!Verdicts

(* What a verdict on the newest slot says of its request. *)
LEMMA VerdictOfNewest ==
  ASSUME Honest, published.status \in {"DELIVERED", "PERMANENT_FAILURE"}
  PROVE  /\ LastAttempt(attempts) = Cardinality(claims)
         /\ LastAttempt(attempts) \in Slots
         /\ published.status = "DELIVERED" =>
              request[LastAttempt(attempts)] = "applied"
         /\ published.status = "PERMANENT_FAILURE" =>
              request[LastAttempt(attempts)] \in {"unsent", "refused", "applied_refused"}
<1> DEFINE l == LastAttempt(attempts)
<1>1. published = Derive(intent, claims, attempts)
  BY DEF Honest, Pointing, Current
<1>2. /\ TailOrphans(claims, attempts) = {} /\ Recorded(attempts) # {}
      /\ published.status = "DELIVERED" => attempts[l] = "DELIVERED"
      /\ published.status = "PERMANENT_FAILURE" =>
           attempts[l] \in {"RETRYABLE_FAILURE", "PERMANENT_FAILURE"}
  BY <1>1, VerdictMeans
<1>3. l = Cardinality(claims)
  BY <1>2, NoOrphansMeans DEF Honest, Safe, SlotClaimed
<1>4. l \in Slots
  <2>1. l \in Recorded(attempts)
    BY <1>2, LastAttemptRecorded
  <2> QED BY <2>1 DEF Recorded
<1>5. Fits(attempts[l], request[l])
  BY <1>4 DEF Honest, Answered
<1> QED BY <1>2, <1>3, <1>4, <1>5 DEF Fits

LEMMA ActedCount ==
  ASSUME Honest
  PROVE  /\ IsFiniteSet(Acted) /\ Cardinality(Acted) \in Nat
         /\ effects = Cardinality(Acted)
<1>1. Acted \in SUBSET Slots
  BY DEF Acted
<1> QED BY <1>1, SlotSetCardinality, SlotsAssumption DEF Honest

(* When no request may have been acted on, none is on its way. *)
LEMMA NoneActed ==
  ASSUME Honest, Truthful => \A s \in Slots : request[s] # "applied",
         \A s \in Slots : request[s] # "inflight"
  PROVE  Contract!Failed
<1>1. ASSUME Truthful PROVE effects = 0
  <2>1. Acted = {}
    BY <1>1 DEF Acted, Truthful
  <2> QED BY <2>1, ActedCount, FS_EmptySet
<1> QED BY <1>1 DEF Contract!Failed

(* The verdict on disk is true of the requests and of the receiver. *)
LEMMA VerdictTrue ==
  ASSUME Trusted PROVE Contract!VerdictIsTrue
<1>1. ASSUME published.terminal, published.status = "NOOP" PROVE entries = 0 /\ effects = 0
  <2>1. claims = {}
    BY <1>1, VerdictType DEF Trusted, NothingToTell
  <2>2. entries = 0
    BY <2>1, FS_EmptySet DEF Trusted, Honest, Safe, EntriesPaid, TypeOK
  <2>3. Acted = {}
    BY <2>1 DEF Acted, Trusted, Honest, Answered
  <2> QED BY <2>2, <2>3, ActedCount, FS_EmptySet DEF Trusted
<1>2. ASSUME published.status = "DELIVERED" PROVE effects > 0
  <2>1. LastAttempt(attempts) \in Acted
    BY <1>2, VerdictOfNewest DEF Acted, Trusted
  <2> QED BY <2>1, ActedCount, FS_EmptySet DEF Trusted
<1>3. ASSUME published.status = "PERMANENT_FAILURE", ~intent.idem PROVE Contract!Failed
  <2>1. \A s \in Slots : request[s] \notin {"inflight", "applied"}
    BY <1>3, OnlyNewestActed, VerdictOfNewest DEF Trusted
  <2> QED BY <2>1, NoneActed DEF Trusted
<1>4. "OPEN" \notin {"NOOP", "DELIVERED", "PERMANENT_FAILURE"}
  OBVIOUS
<1> QED BY <1>1, <1>2, <1>3, <1>4 DEF Contract!VerdictIsTrue


(* Nothing that the contract speaks of has changed. *)
LEMMA ContractRests ==
  ASSUME UNCHANGED <<intent, published, request, entries, effects>>
  PROVE  UNCHANGED Contract!vars
BY DEF Contract!vars, Truthful

(* Without declared idempotency the transport is entered only when all that  *)
(* went before has failed and will stay so.                                  *)
LEMMA EntryFailedBefore ==
  ASSUME Honest, NEW w \in Workers, pc[w] = "enter", ~intent.idem
  PROVE  Contract!Failed
<1>1. request[slot[w]] = "unsent" /\ slot[w] = Cardinality(claims)
  BY DEF Honest, Knows
<1>2. \A s \in Slots : request[s] \notin {"inflight", "applied"}
  BY <1>1, OnlyNewestActed
<1> QED BY <1>2, NoneActed

LEMMA AgreeStep ==
  ASSUME Trusted, NEW w \in Workers, PersistIntent(w)
  PROVE  Contract!Next
<1>1. config[w] \in Settings
  BY DEF PersistIntent, Trusted, Honest, Configured
<1>2. UNCHANGED <<published, request, entries, effects>>
  BY DEF PersistIntent, world
<1>3. Truthful' = Truthful
  BY <1>2 DEF Truthful
<1>4. Contract!Agree(config[w])
  BY <1>2, <1>3 DEF PersistIntent, Contract!Agree
<1> QED BY <1>1, <1>4 DEF Contract!Next

(* Before the entry there is one claim more than entries, and the claims are *)
(* within the terms.                                                         *)
LEMMA SendStep ==
  ASSUME Trusted, NEW w \in Workers, FailBeforeDispatch(w) \/ Dispatch(w)
  PROVE  Contract!Next
<1>1. pc[w] = "enter" /\ entries' = entries + 1
  BY DEF FailBeforeDispatch, Dispatch
<1>2. /\ intent \in Settings /\ ~published.terminal
      /\ slot[w] \in Slots /\ request[slot[w]] = "unsent"
  BY <1>1 DEF Trusted, Honest, Safe, SlotClaimed, TypeOK, Configured, Knows
<1>3. entries < intent.max
  <2>1. entries < Cardinality(claims) /\ Cardinality(claims) <= intent.max
    BY <1>1, ClaimCount DEF Trusted, Honest, Safe, EntriesPaid
  <2>2. entries \in Nat /\ Cardinality(claims) \in Nat /\ intent.max \in Nat
    BY <1>2, ClaimCount, PolicyFields, SlotsAssumption DEF Trusted, Honest, Safe, TypeOK, Slots
  <2> QED BY <2>1, <2>2
<1>4. ~intent.idem => Contract!Failed
  BY <1>1, EntryFailedBefore DEF Trusted
<1>5. UNCHANGED <<intent, published, effects>>
  BY DEF FailBeforeDispatch, Dispatch, ledger
<1>6. CASE FailBeforeDispatch(w)
  <2>1. request' = request
    BY <1>6 DEF FailBeforeDispatch
  <2>2. Truthful' = Truthful /\ Underway' = Underway
    BY <2>1 DEF Truthful, Underway
  <2>3. Contract!Send({})
    BY <1>1, <1>2, <1>3, <1>4, <1>5, <2>2 DEF Contract!Send, Underway
  <2> QED BY <2>3 DEF Contract!Next
<1>7. CASE Dispatch(w)
  <2>1. request' = [request EXCEPT ![slot[w]] = "inflight"]
    BY <1>7 DEF Dispatch
  <2>2. /\ request'[slot[w]] = "inflight"
        /\ \A s \in Slots : s # slot[w] => request'[s] = request[s]
    BY <1>2, <2>1 DEF Trusted, Honest, Safe, TypeOK
  <2>3. Underway' = Underway \union {slot[w]} /\ slot[w] \in Slots \ Underway
    BY <1>2, <2>2 DEF Underway
  <2>4. Truthful' = Truthful
    BY <1>2, <2>2 DEF Truthful
  <2>5. PICK r \in Slots \ Underway : r = slot[w]
    BY <2>3
  <2>6. Contract!Send({r})
    BY <1>1, <1>2, <1>3, <1>4, <1>5, <2>3, <2>4, <2>5 DEF Contract!Send, Underway
  <2> QED BY <2>5, <2>6 DEF Contract!Next, Underway
<1> QED BY <1>6, <1>7

LEMMA ArriveStep ==
  ASSUME Trusted, NEW s \in Slots, Receive(s)
  PROVE  Contract!Next
<1>1. PICK answer \in {"applied", "refused", "applied_refused"} :
        /\ request' = [request EXCEPT ![s] = answer]
        /\ effects' = effects + (IF answer = "refused" THEN 0 ELSE 1)
  BY DEF Receive
<1>2. UNCHANGED <<intent, published, entries>> /\ request[s] = "inflight"
  BY DEF Receive, ledger
<1>3. request'[s] = answer /\ \A t \in Slots : t # s => request'[t] = request[t]
  BY <1>1 DEF Trusted, Honest, Safe, TypeOK
<1>4. s \in Underway /\ Underway' = Underway \ {s}
  BY <1>1, <1>2, <1>3 DEF Underway
<1>5. effects \in Nat
  BY DEF Trusted, Honest, Safe, TypeOK
<1>6. CASE answer = "applied_refused"
  <2>1. ~Truthful'
    BY <1>3, <1>6 DEF Truthful
  <2>2. effects' = effects + 1
    BY <1>1, <1>6
  <2>3. Truthful' \in BOOLEAN
    BY DEF Truthful
  <2>4. Contract!Arrive(s)
    BY <1>2, <1>4, <2>1, <2>2, <2>3 DEF Contract!Arrive, Underway
  <2> QED BY <2>4 DEF Contract!Next
<1>7. CASE answer # "applied_refused"
  <2>1. Truthful' = Truthful
    BY <1>1, <1>2, <1>3, <1>7 DEF Truthful
  <2>2. Truthful' \in BOOLEAN /\ (Truthful' => Truthful)
    BY <2>1 DEF Truthful
  <2>3. CASE effects' = effects
    <3>1. Contract!Arrive(s)
      BY <1>2, <1>4, <2>1, <2>3 DEF Contract!Arrive, Underway
    <3> QED BY <3>1 DEF Contract!Next
  <2>4. CASE effects' = effects + 1
    <3>1. Contract!Arrive(s)
      BY <1>2, <1>4, <2>2, <2>4 DEF Contract!Arrive, Underway
    <3> QED BY <3>1 DEF Contract!Next
  <2> QED BY <1>1, <1>5, <2>3, <2>4
<1> QED BY <1>6, <1>7

(* The first terminal state is the verdict, and it is true when published    *)
(* because the artifacts that it is derived from are.                        *)
LEMMA SettleStep ==
  ASSUME Trusted, Trusted', NEW w \in Workers, RepairState(w) \/ PublishState(w)
  PROVE  Contract!Next \/ UNCHANGED Contract!vars
<1>1. UNCHANGED <<intent, request, entries, effects>>
  BY DEF RepairState, PublishState, world
<1>2. Truthful' = Truthful /\ Underway' = Underway
  BY <1>1 DEF Truthful, Underway
<1>3. CASE published.terminal
  <2>1. published = Current
    BY <1>3, VerdictType
  <2>2. published' = published
    BY <1>3, <2>1 DEF RepairState, PublishState, Trusted, Honest, Knows
  <2> QED BY <1>1, <2>2, ContractRests
<1>4. CASE ~published.terminal /\ ~published'.terminal
  BY <1>1, <1>2, <1>4 DEF Contract!vars, Underway
<1>5. CASE ~published.terminal /\ published'.terminal
  <2> DEFINE v == published'.status
  <2>1. Contract!VerdictIsTrue'
    <3>1. Trusted => Contract!VerdictIsTrue
      BY VerdictTrue
    <3>2. (Trusted => Contract!VerdictIsTrue)'
      BY <3>1, VerdictTrue, PTL
    <3> QED BY <3>2
  <2>2. v \in Contract!Verdicts
    <3>1. (Trusted /\ published.terminal => published.status \in Contract!Verdicts)'
      BY VerdictType, PTL
    <3> QED BY <1>5, <3>1 DEF Contract!Verdicts
  <2>3. intent \in Settings
    BY DEF RepairState, PublishState, Trusted, Honest, Configured
  <2>4. /\ v = "NOOP" => entries = 0
        /\ v = "DELIVERED" => effects > 0
        /\ v = "PERMANENT_FAILURE" /\ ~intent.idem => Contract!Failed
    BY <1>1, <1>2, <1>5, <2>1 DEF Contract!VerdictIsTrue, Contract!Failed, Underway
  <2>5. Contract!Settle(v)
    BY <1>1, <1>2, <1>5, <2>3, <2>4 DEF Contract!Settle, Underway
  <2> QED BY <2>2, <2>5 DEF Contract!Next
<1> QED BY <1>3, <1>4, <1>5

LEMMA ContractInit == Init => Contract!Init
BY DEF Init, NoState, State, Truthful, Contract!Init

LEMMA ContractStep ==
  Trusted /\ Trusted' /\ [Next]_vars => [Contract!Next]_(Contract!vars)
<1> SUFFICES ASSUME Trusted, Trusted', [Next]_vars
             PROVE  Contract!Next \/ UNCHANGED Contract!vars
  OBVIOUS
<1>1. ASSUME NEW w \in Workers,
             \/ Start(w) \/ Lock(w) \/ Busy(w) \/ VerifyIntent(w) \/ RefuseIntent(w)
             \/ ReadLedger(w) \/ Finish(w) \/ SaveClaim(w) \/ Respond(w) \/ SaveAttempt(w)
             \/ Abort(w)
      PROVE  UNCHANGED <<intent, published, request, entries, effects>>
  BY <1>1 DEF ledger, world, Start, Lock, Busy, VerifyIntent, RefuseIntent, ReadLedger,
     Finish, SaveClaim, Respond, SaveAttempt, Abort
<1>2. ASSUME Tick \/ UNCHANGED vars
      PROVE  UNCHANGED <<intent, published, request, entries, effects>>
  BY <1>2 DEF vars, ledger, world, Tick
<1>3. CASE UNCHANGED <<intent, published, request, entries, effects>>
  BY <1>3, ContractRests
<1>4. CASE \E w \in Workers : PersistIntent(w)
  BY <1>4, AgreeStep
<1>5. CASE \E w \in Workers : FailBeforeDispatch(w) \/ Dispatch(w)
  BY <1>5, SendStep
<1>6. CASE \E w \in Workers : RepairState(w) \/ PublishState(w)
  BY <1>6, SettleStep
<1>7. CASE \E s \in Slots : Receive(s)
  BY <1>7, ArriveStep
<1> QED BY <1>1, <1>2, <1>3, <1>4, <1>5, <1>6, <1>7 DEF Next, Work

(* The refinement: every execution of every number of invocations, with      *)
(* their deaths, is one of DeliveryContract.                                 *)
THEOREM ContractAlwaysKept == Spec => KeepsContract
<1>1. Spec => [][Contract!Next]_(Contract!vars)
  BY ContractStep, TrustedAlways, PTL DEF Spec
<1> QED BY <1>1, ContractInit, PTL DEF Spec, KeepsContract, Contract!Spec

-----------------------------------------------------------------------------
(* What the contract is worth: of whatever keeps it, and by nothing but its  *)
(* actions.                                                                  *)

Bounded ==
  /\ entries \in Nat /\ effects \in Nat /\ IsFiniteSet(Underway)
  /\ effects + Cardinality(Underway) <= entries
  /\ intent \in Settings => entries <= intent.max
  /\ intent = NoIntent => entries = 0

(* Without declared idempotency, and while refusals are truthful: nothing    *)
(* acted and one request may, or one acted and none may.                     *)
Once ==
  intent \in Settings /\ ~intent.idem /\ Truthful =>
    \/ effects = 0 /\ \E r : Underway \subseteq {r}
    \/ effects = 1 /\ Underway = {}

ContractInv ==
  /\ intent \in Settings \union {NoIntent}
  /\ intent = NoIntent => Verdict = "OPEN"
  /\ Bounded /\ Once /\ Contract!VerdictIsTrue

LEMMA NoIntentIsNone == NoIntent \notin Settings
BY SettingsAssumption, SlotsAssumption DEF NoIntent, Slots

LEMMA ContractInvInit == Contract!Init => ContractInv
<1> SUFFICES ASSUME Contract!Init PROVE ContractInv
  OBVIOUS
<1>1. intent = NoIntent /\ entries = 0 /\ Underway = {} /\ effects = 0 /\ Verdict = "OPEN"
  BY DEF Contract!Init, Underway, Verdict
<1>2. Bounded
  BY <1>1, NoIntentIsNone, FS_EmptySet DEF Bounded
<1>3. Once
  BY <1>1, NoIntentIsNone DEF Once
<1>4. Contract!VerdictIsTrue
  BY <1>1 DEF Contract!VerdictIsTrue, Verdict
<1> QED BY <1>1, <1>2, <1>3, <1>4 DEF ContractInv

LEMMA ContractAgree ==
  ASSUME ContractInv, NEW t \in Settings, Contract!Agree(t)
  PROVE  ContractInv'
<1>1. /\ intent = NoIntent /\ intent' = t /\ entries' = entries /\ Underway' = Underway
      /\ effects' = effects /\ Truthful' = Truthful /\ Verdict' = Verdict
  BY DEF Contract!Agree, Underway, Verdict
<1>2. entries = 0 /\ effects = 0 /\ Underway = {} /\ Verdict = "OPEN"
  <2>1. entries = 0 /\ Verdict = "OPEN"
    BY <1>1 DEF ContractInv, Bounded
  <2>2. effects \in Nat /\ Cardinality(Underway) \in Nat /\ effects + Cardinality(Underway) <= 0
    BY <2>1, FS_CardinalityType DEF ContractInv, Bounded
  <2>3. effects = 0 /\ Cardinality(Underway) = 0
    BY <2>2
  <2> QED BY <2>1, <2>3, FS_EmptySet DEF ContractInv, Bounded
<1>3. Bounded'
  BY <1>1, <1>2, PolicyFields, NoIntentIsNone DEF ContractInv, Bounded
<1>4. Once'
  BY <1>1, <1>2 DEF Once
<1>5. Contract!VerdictIsTrue'
  BY <1>1, <1>2 DEF Contract!VerdictIsTrue, Verdict
<1> QED BY <1>1, <1>2, <1>3, <1>4, <1>5, NoIntentIsNone DEF ContractInv

LEMMA ContractSend ==
  ASSUME ContractInv, NEW q, Contract!Send(q), q = {} \/ \E r \in Slots \ Underway : q = {r}
  PROVE  ContractInv'
<1>1. /\ intent \in Settings /\ entries < intent.max /\ Verdict = "OPEN"
      /\ entries' = entries + 1 /\ Underway' = Underway \union q
      /\ intent' = intent /\ effects' = effects /\ Truthful' = Truthful /\ Verdict' = Verdict
      /\ ~intent.idem => Underway = {} /\ (Truthful => effects = 0)
  BY DEF Contract!Send, Contract!Failed, Underway, Verdict
<1>2. /\ IsFiniteSet(Underway') /\ Cardinality(Underway') \in Nat
      /\ Cardinality(Underway') <= Cardinality(Underway) + 1
  <2>1. IsFiniteSet(Underway) /\ Cardinality(Underway) \in Nat
    BY FS_CardinalityType DEF ContractInv, Bounded
  <2>2. CASE q = {}
    BY <1>1, <2>1, <2>2
  <2>3. ASSUME NEW r \in Slots \ Underway, q = {r}
        PROVE  /\ IsFiniteSet(Underway')
               /\ Cardinality(Underway') = Cardinality(Underway) + 1
    BY <1>1, <2>1, <2>3, FS_AddElement
  <2> QED BY <2>1, <2>2, <2>3
<1>3. Bounded'
  <2>1. Cardinality(Underway) \in Nat
    BY FS_CardinalityType DEF ContractInv, Bounded
  <2>2. intent.max \in Nat
    BY <1>1, PolicyFields, SlotsAssumption DEF Slots
  <2> QED BY <1>1, <1>2, <2>1, <2>2, NoIntentIsNone DEF ContractInv, Bounded
<1>4. Once'
  <2>1. \E r : q \subseteq {r}
    OBVIOUS
  <2> QED BY <1>1, <2>1 DEF Once
<1>5. Contract!VerdictIsTrue'
  BY <1>1 DEF Contract!VerdictIsTrue, Verdict
<1> QED BY <1>1, <1>3, <1>4, <1>5, NoIntentIsNone DEF ContractInv

LEMMA ContractArrive ==
  ASSUME ContractInv, NEW s \in Slots, Contract!Arrive(s)
  PROVE  ContractInv'
<1>1. /\ s \in Underway /\ Underway' = Underway \ {s}
      /\ effects' = effects \/ effects' = effects + 1
      /\ Truthful' => Truthful
      /\ intent' = intent /\ entries' = entries /\ Verdict' = Verdict
  BY DEF Contract!Arrive, Underway, Verdict
<1>2. /\ IsFiniteSet(Underway) /\ Cardinality(Underway) \in Nat
      /\ IsFiniteSet(Underway') /\ Cardinality(Underway') = Cardinality(Underway) - 1
  BY <1>1, FS_CardinalityType, FS_RemoveElement DEF ContractInv, Bounded
<1>3. Bounded'
  BY <1>1, <1>2 DEF ContractInv, Bounded
<1>4. Once'
  <2>1. ASSUME intent \in Settings, ~intent.idem, Truthful'
        PROVE  effects = 0 /\ Underway' = {}
    BY <1>1, <2>1 DEF ContractInv, Once
  <2> QED BY <1>1, <2>1 DEF Once
<1>5. Contract!VerdictIsTrue'
  <2>1. ~Contract!Failed
    BY <1>1 DEF Contract!Failed, Underway
  <2>2. entries # 0
    BY <1>1, <1>2, FS_EmptySet DEF ContractInv, Bounded
  <2>3. effects > 0 => effects' > 0
    BY <1>1 DEF ContractInv, Bounded
  <2> QED BY <1>1, <2>1, <2>2, <2>3 DEF ContractInv, Contract!VerdictIsTrue, Verdict
<1> QED BY <1>1, <1>3, <1>4, <1>5 DEF ContractInv

LEMMA ContractSettle ==
  ASSUME ContractInv, NEW v \in Contract!Verdicts, Contract!Settle(v)
  PROVE  ContractInv'
<1>1. /\ intent \in Settings /\ Verdict' = v
      /\ v = "NOOP" => entries = 0
      /\ v = "DELIVERED" => effects > 0
      /\ v = "PERMANENT_FAILURE" /\ ~intent.idem => Contract!Failed
      /\ Underway' = Underway /\ Truthful' = Truthful
      /\ UNCHANGED <<intent, entries, effects>>
  BY DEF Contract!Settle, Underway, Verdict
<1>2. Bounded' /\ Once'
  BY <1>1 DEF ContractInv, Bounded, Once
<1>3. entries = 0 => effects = 0
  <2>1. Cardinality(Underway) \in Nat
    BY FS_CardinalityType DEF ContractInv, Bounded
  <2> QED BY <2>1 DEF ContractInv, Bounded
<1>4. Contract!Failed' <=> Contract!Failed
  BY <1>1 DEF Contract!Failed, Underway
<1>5. Contract!VerdictIsTrue'
  BY <1>1, <1>3, <1>4 DEF Contract!VerdictIsTrue, Verdict
<1> QED BY <1>1, <1>2, <1>5, NoIntentIsNone DEF ContractInv

(* Whatever keeps the contract acts at most once for each request and within *)
(* the terms, at most once in all where no idempotency is declared and the   *)
(* receiver is truthful, and says nothing that is not or will not stay true. *)
THEOREM ContractSuffices ==
  Contract!Spec =>
    [](Contract!WithinTerms /\ Contract!ActsOnce /\ Contract!VerdictIsTrue)
<1>1. ContractInv /\ [Contract!Next]_(Contract!vars) => ContractInv'
  <2> SUFFICES ASSUME ContractInv, Contract!Next \/ UNCHANGED Contract!vars
               PROVE  ContractInv'
    OBVIOUS
  <2>1. CASE UNCHANGED Contract!vars
    <3>1. /\ UNCHANGED <<intent, entries, effects>> /\ Underway' = Underway
          /\ Truthful' = Truthful /\ Verdict' = Verdict
      BY <2>1 DEF Contract!vars, Underway, Verdict
    <3>2. Contract!VerdictIsTrue'
      BY <3>1 DEF ContractInv, Contract!VerdictIsTrue, Contract!Failed, Underway, Verdict
    <3> QED BY <3>1, <3>2 DEF ContractInv, Bounded, Once
  <2>2. CASE \E t \in Settings : Contract!Agree(t)
    BY <2>2, ContractAgree
  <2>3. CASE Contract!Send({})
    BY <2>3, ContractSend
  <2>4. ASSUME NEW r \in Slots \ Underway, Contract!Send({r}) PROVE ContractInv'
    <3> DEFINE q == {r}
    <3>1. Contract!Send(q)
      BY <2>4
    <3>2. \E x \in Slots \ Underway : q = {x}
      OBVIOUS
    <3> HIDE DEF q
    <3> QED BY <3>1, <3>2, ContractSend
  <2>5. CASE \E s \in Slots : Contract!Arrive(s)
    BY <2>5, ContractArrive
  <2>6. CASE \E v \in Contract!Verdicts : Contract!Settle(v)
    BY <2>6, ContractSettle
  <2> QED BY <2>1, <2>2, <2>3, <2>4, <2>5, <2>6 DEF Contract!Next, Underway
<1>2. ContractInv => Contract!WithinTerms /\ Contract!ActsOnce /\ Contract!VerdictIsTrue
  <2> SUFFICES ASSUME ContractInv PROVE Contract!WithinTerms /\ Contract!ActsOnce
    BY DEF ContractInv
  <2>1. Cardinality(Underway) \in Nat
    BY FS_CardinalityType DEF ContractInv, Bounded
  <2>2. Contract!WithinTerms
    BY <2>1 DEF ContractInv, Bounded, Contract!WithinTerms
  <2>3. Contract!ActsOnce
    BY DEF ContractInv, Once, Contract!ActsOnce
  <2> QED BY <2>2, <2>3
<1> QED BY <1>1, <1>2, ContractInvInit, PTL DEF Contract!Spec

(* A published verdict is true of the receiver, and remains so. *)
THEOREM VerdictAlwaysTrue == Spec => []Contract!VerdictIsTrue
BY ContractAlwaysKept, ContractSuffices, PTL DEF KeepsContract

(* A receiver whose refusals are truthful acts at most once on a delivery    *)
(* without declared idempotency.                                             *)
THEOREM EffectAtMostOnce == Spec => []AtMostOneEffect
<1>1. TypeOK /\ Contract!WithinTerms /\ Contract!ActsOnce /\ (intent = NoIntent => entries = 0)
        => AtMostOneEffect
  BY DEF TypeOK, Contract!WithinTerms, Contract!ActsOnce, AtMostOneEffect
<1>2. Safe => (intent = NoIntent => entries = 0)
  <2> SUFFICES ASSUME Safe, intent = NoIntent PROVE entries = 0
    OBVIOUS
  <2>1. Cardinality(claims) \in Nat /\ Cardinality(claims) <= 0
    BY ClaimCount, NoIntentFields, SlotsAssumption DEF Safe
  <2> QED BY <2>1 DEF Safe, EntriesPaid, TypeOK
<1> QED
  BY <1>1, <1>2, TypeCorrect, SafeAlways, ContractAlwaysKept, ContractSuffices, PTL
     DEF KeepsContract

-----------------------------------------------------------------------------
(* The status reader beside the deliveries *)

ReaderNext == DeliveryStep \/ ReadAttempts \/ ReadClaims \/ ReadPointer

(* What the reader holds in memory, against what is on disk now: the         *)
(* evidence it loaded was there, and while no invocation held the lock it    *)
(* still is all there is.                                                    *)
Loaded ==
  /\ seen = [attempts |-> seen.attempts, claims |-> seen.claims]
  /\ position \in {"attempts", "claims", "pointer"}
  /\ position # "attempts" =>
       intent # NoIntent /\ Recorded(seen.attempts) \subseteq claims
  /\ position = "pointer" =>
       seen.claims \subseteq claims /\ Recorded(seen.attempts) \subseteq seen.claims

Unmoved ==
  quiet =>
    /\ holder = NoWorker
    /\ position # "attempts" => seen.attempts = attempts
    /\ position = "pointer" => seen.claims = claims
    /\ verdict # "CONFLICT"

Reading == Honest /\ Loaded /\ Unmoved

(* Nothing on disk is taken back: slots stay claimed and the intent stays.   *)
LEMMA LedgerGrows ==
  ASSUME Honest, [Next]_vars
  PROVE  /\ claims \subseteq claims'
         /\ intent # NoIntent => intent' = intent
BY DEF Next, Work, vars, ledger, world, Start, Lock, Busy, PersistIntent, VerifyIntent,
   RefuseIntent, ReadLedger, RepairState, PublishState, Finish, SaveClaim,
   FailBeforeDispatch, Dispatch, Respond, SaveAttempt, Abort, Receive, Tick

(* Without an owner of the lock, before and after, nothing on disk moves.    *)
LEMMA LedgerRests ==
  ASSUME Honest, [Next]_vars, holder = NoWorker, holder' = NoWorker
  PROVE  UNCHANGED <<intent, claims, attempts, published>>
<1>1. \A w \in Workers : pc[w] \in {"idle", "lock"}
  BY NoWorkerAssumption DEF Honest, Safe, Exclusive
<1>2. ASSUME NEW w \in Workers, Lock(w) PROVE FALSE
  BY <1>2, NoWorkerAssumption DEF Lock
<1>3. ASSUME NEW w \in Workers,
             \/ PersistIntent(w) \/ VerifyIntent(w) \/ RefuseIntent(w) \/ ReadLedger(w)
             \/ RepairState(w) \/ PublishState(w) \/ Finish(w) \/ SaveClaim(w)
             \/ FailBeforeDispatch(w) \/ Dispatch(w) \/ Respond(w) \/ SaveAttempt(w)
      PROVE  FALSE
  BY <1>1, <1>3
     DEF PersistIntent, VerifyIntent, RefuseIntent, ReadLedger, RepairState, PublishState,
         Finish, SaveClaim, FailBeforeDispatch, Dispatch, Respond, SaveAttempt
<1> QED
  BY <1>2, <1>3 DEF Next, Work, vars, ledger, Start, Busy, Abort, Receive, Tick

(* The pointer is missing, current or behind: never a contradiction.         *)
LEMMA PointerNeverContradicts ==
  ASSUME Honest
  PROVE  PointerStatus(published, Current) # "CONFLICT"
<1>1. CASE published.terminal
  <2>1. published = Current
    BY <1>1 DEF Honest, Pointing
  <2> QED BY <2>1 DEF PointerStatus
<1>2. CASE ~published.terminal
  <2>1. published.count \in Nat /\ Current.count \in Nat
    <3>1. Current \in StateRecords
      BY DeriveType DEF Current, Honest, Safe, TypeOK
    <3> QED BY <3>1, SlotsAssumption DEF Honest, Safe, TypeOK, StateRecords
  <2>2. Behind(published, Current)
    BY <1>2, <2>1 DEF Honest, Pointing, Behind
  <2> QED BY <2>2 DEF PointerStatus
<1> QED BY <1>1, <1>2

LEMMA ReadingInit == Init /\ ReaderInit => Reading
BY HonestInit DEF Init, ReaderInit, NothingSeen, Reading, Loaded, Unmoved

LEMMA ReadingStep == Reading /\ [ReaderNext]_<<vars, reader>> => Reading'
<1> SUFFICES ASSUME Reading, [ReaderNext]_<<vars, reader>> PROVE Reading'
  OBVIOUS
<1>1. Honest /\ Loaded /\ Unmoved
  BY DEF Reading
<1>2. [Next]_vars
  BY DEF ReaderNext, DeliveryStep, ReadAttempts, ReadClaims, ReadPointer
<1>3. Honest'
  BY <1>1, <1>2, HonestStep
<1>4. Recorded(attempts) \subseteq claims
  BY <1>1 DEF Honest, Safe, SlotClaimed
<1>5. ASSUME DeliveryStep PROVE Loaded' /\ Unmoved'
  <2>1. UNCHANGED <<position, seen, verdict>>
    BY <1>5 DEF DeliveryStep
  <2>2. quiet' => quiet /\ holder' = NoWorker
    BY <1>5, Zenon DEF DeliveryStep
  <2>3. claims \subseteq claims' /\ (intent # NoIntent => intent' = intent)
    BY <1>1, <1>2, LedgerGrows
  <2>4. Recorded(seen.attempts)' = Recorded(seen.attempts)
    BY <2>1 DEF Recorded
  <2>5. Loaded'
    BY <1>1, <2>1, <2>3, <2>4 DEF Loaded
  <2>6. quiet' => UNCHANGED <<claims, attempts>>
    BY <1>1, <1>2, <2>1, <2>2, LedgerRests DEF Unmoved
  <2>7. Unmoved'
    BY <1>1, <2>1, <2>2, <2>6 DEF Unmoved
  <2> QED BY <2>5, <2>7
<1>6. ASSUME ReadAttempts PROVE Loaded' /\ Unmoved'
  <2>1. /\ position' = "claims" /\ intent # NoIntent /\ verdict' = "NONE"
        /\ seen' = [NothingSeen EXCEPT !.attempts = attempts]
        /\ quiet' = (holder = NoWorker)
        /\ UNCHANGED <<intent, claims, attempts, holder>>
    BY <1>6 DEF ReadAttempts, Load, vars, ledger
  <2>2. seen' = [attempts |-> attempts, claims |-> {}]
    BY <2>1 DEF NothingSeen
  <2>3. Recorded(seen'.attempts) = Recorded(attempts)
    BY <2>2 DEF Recorded
  <2>4. Loaded'
    <3>1. seen' = [attempts |-> seen'.attempts, claims |-> seen'.claims]
      BY <2>2
    <3> QED BY <1>4, <2>1, <2>3, <3>1 DEF Loaded, Recorded
  <2>5. Unmoved'
    BY <2>1, <2>2 DEF Unmoved
  <2> QED BY <2>4, <2>5
<1>7. ASSUME ReadClaims PROVE Loaded' /\ Unmoved'
  <2>1. /\ position = "claims" /\ position' = "pointer"
        /\ seen' = [seen EXCEPT !.claims = claims]
        /\ UNCHANGED <<intent, claims, attempts, holder, verdict, quiet>>
    BY <1>7 DEF ReadClaims, Load, vars, ledger
  <2>2. seen = [attempts |-> seen.attempts, claims |-> seen.claims]
    BY <1>1 DEF Loaded
  <2>3. seen' = [attempts |-> seen.attempts, claims |-> claims]
    BY <2>1, <2>2
  <2>4. Loaded'
    <3>1. /\ seen' = [attempts |-> seen'.attempts, claims |-> seen'.claims]
          /\ seen'.attempts = seen.attempts /\ seen'.claims = claims
      BY <2>3
    <3>2. Recorded(seen.attempts) \subseteq claims /\ intent # NoIntent
      BY <1>1, <2>1 DEF Loaded
    <3> QED BY <2>1, <3>1, <3>2 DEF Loaded, Recorded
  <2>5. Unmoved'
    BY <1>1, <2>1, <2>3 DEF Unmoved
  <2> QED BY <2>4, <2>5
<1>8. ASSUME ReadPointer PROVE Loaded' /\ Unmoved'
  <2>1. /\ position = "pointer" /\ position' = "attempts"
        /\ verdict' = PointerStatus(published, Derive(intent, seen.claims, seen.attempts))
        /\ seen' = NothingSeen /\ UNCHANGED <<holder, quiet>>
    BY <1>8 DEF ReadPointer, vars
  <2>2. quiet => verdict' # "CONFLICT"
    BY <1>1, <2>1, PointerNeverContradicts DEF Unmoved, Current
  <2> QED BY <1>1, <2>1, <2>2 DEF NothingSeen, Loaded, Unmoved
<1>9. ASSUME UNCHANGED <<vars, reader>> PROVE Loaded' /\ Unmoved'
  BY <1>1, <1>9 DEF vars, ledger, reader, Loaded, Unmoved, Recorded
<1> QED BY <1>3, <1>5, <1>6, <1>7, <1>8, <1>9 DEF Reading, ReaderNext

THEOREM ReadingAlways == ReaderSpec => []Reading
BY ReadingInit, ReadingStep, PTL DEF ReaderSpec, ReaderNext

(* A reader that takes no lock never meets an outcome without its slot, nor  *)
(* more slots than the budget, however the deliveries move between its two   *)
(* listings.                                                                 *)
THEOREM ReaderMeetsValidEvidence == ReaderSpec => []ReaderEvidenceValid
<1>1. ASSUME Reading, position = "pointer" PROVE SeenEvidenceValid
  <2>1. IsFiniteSet(claims) /\ Cardinality(claims) <= intent.max
        /\ Cardinality(claims) \in 0..MaxSlots
    BY <1>1, ClaimCount DEF Reading, Honest, Safe
  <2>2. seen.claims \subseteq claims
    BY <1>1 DEF Reading, Loaded
  <2>3. Cardinality(seen.claims) <= Cardinality(claims) /\ Cardinality(seen.claims) \in Nat
    BY <2>1, <2>2, FS_Subset, FS_CardinalityType
  <2>4. intent.max \in Nat
    BY <1>1, PolicyFields, SlotsAssumption DEF Reading, Honest, Safe, TypeOK
  <2>5. Cardinality(seen.claims) <= intent.max
    BY <2>1, <2>3, <2>4, SlotsAssumption
  <2> QED BY <1>1, <2>5 DEF Reading, Loaded, SeenEvidenceValid
<1> QED BY <1>1, ReadingAlways, PTL DEF ReaderEvidenceValid

(* A projection during which no invocation held the lock never reports a     *)
(* contradiction, wherever earlier invocations died.                         *)
THEOREM QuietReaderIsClean == ReaderSpec => []QuietReadIsClean
<1>1. Reading => QuietReadIsClean
  BY DEF Reading, Unmoved, QuietReadIsClean
<1> QED BY <1>1, ReadingAlways, PTL
=============================================================================
