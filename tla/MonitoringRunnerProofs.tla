------------------------ MODULE MonitoringRunnerProofs ------------------------
(***************************************************************************)
(* What holds of MonitoringRunner for every number of overlapping wakes,   *)
(* watchlists, points in time, deaths and edits.                           *)
(***************************************************************************)
EXTENDS MonitoringRunner, FiniteSetTheorems, TLAPS

(* Past the lock an invocation is its only owner. *)
Exclusive == \A w \in Wakes : pc[w] \notin {"idle", "lock"} => holder = w

(* At most one activation has an intent and no receipt. *)
OneUnfinished == \A i, j \in Unfinished : i = j

(* What the pointers bind exists, and a receipt has its terminal pair.       *)
Bound ==
  /\ latest # NoActivation => Finished(latest)
  /\ active # NoActivation => intents[active] # NoIntent
  /\ active # NoActivation => \A i \in Unfinished : i = active
  /\ \A i \in Activations : Finished(i) => i \in terminal
  /\ \A i \in terminal : intents[i] # NoIntent

(* What an invocation knows of the store at each position. *)
Nothing == Unfinished = {}
Working(w) == job[w] \in Unfinished /\ active = job[w]
Local(w) ==
  /\ pc[w] = "settled" => Nothing
  /\ pc[w] = "resolve" => Nothing /\ active = NoActivation
  /\ pc[w] = "activate" => job[w] \in Unfinished
  /\ pc[w] \in {"reload", "verify", "record", "stamp", "cycle", "running", "receipt"}
       => Working(w)
  /\ pc[w] = "receipt" => job[w] \in terminal
  /\ pc[w] \in {"reuse", "latest", "clear"} =>
       job[w] \in Activations /\ Finished(job[w]) /\ Nothing

(* While no cycle runs for an activation that has no terminal pair, each of  *)
(* its entries was ended by a death.                                         *)
Runs(w, i) == pc[w] = "running" /\ job[w] = i
Counted ==
  \A i \in Activations :
    i \notin terminal /\ (\A w \in Wakes : ~Runs(w, i)) => entered[i] <= aborts

(* A cycle is entered for what has an intent. *)
Intended == \A i \in Activations : entered[i] # 0 => intents[i] # NoIntent

Sound ==
  /\ TypeOK
  /\ Exclusive
  /\ OneUnfinished
  /\ Bound
  /\ \A w \in Wakes : Local(w)
  /\ Counted
  /\ Intended

-----------------------------------------------------------------------------
(* Activations are finitely many, so that receipts can be ranked. *)
LEMMA ActivationsFinite == IsFiniteSet(Activations)
<1> DEFINE f == [p \in Pits \X Lists |-> [pit |-> p[1], list |-> p[2]]]
<1>1. IsFiniteSet(Pits)
  BY BoundsAssumption, FS_Interval DEF Pits
<1>2. IsFiniteSet(Pits \X Lists)
  BY <1>1, FiniteAssumption, FS_Product
<1>3. f \in Surjection(Pits \X Lists, Activations)
  <2>1. f \in [Pits \X Lists -> Activations]
    BY DEF Activations
  <2>2. ASSUME NEW i \in Activations PROVE \E p \in Pits \X Lists : f[p] = i
    <3>1. <<i.pit, i.list>> \in Pits \X Lists /\ i = [pit |-> i.pit, list |-> i.list]
      BY DEF Activations
    <3>2. f[<<i.pit, i.list>>] = i
      BY <3>1
    <3> QED BY <3>1, <3>2
  <2> QED BY <2>1, <2>2 DEF Surjection
<1> QED BY <1>2, <1>3, FS_Surjection

LEMMA RankType ==
  Cardinality({i \in Activations : Finished(i)}) + 1 \in Nat \ {0}
<1>1. IsFiniteSet({i \in Activations : Finished(i)})
  BY ActivationsFinite, FS_Subset
<1>2. Cardinality({i \in Activations : Finished(i)}) \in Nat
  BY <1>1, FS_CardinalityType
<1> QED BY <1>2

LEMMA RequestedType ==
  ASSUME TypeOK
  PROVE  Requested \in Activations /\ inputs.cache \in Caches /\ inputs.list \in Lists
BY PinsAssumption DEF TypeOK, Inputs, Requested, Activations, Pits

(* Under the lock an invocation is alone. *)
LEMMA Alone ==
  ASSUME TypeOK, Exclusive, NEW w \in Wakes, pc[w] \notin {"idle", "lock"},
         NEW u \in Wakes, u # w
  PROVE  pc[u] \in {"idle", "lock"}
BY DEF Exclusive, TypeOK

-----------------------------------------------------------------------------
(* Types *)

LEMMA TypeInit == Init => TypeOK
<1>1. 1 \in Pits /\ aborts = 0 => 0 \in 0..(aborts + 1)
  BY BoundsAssumption DEF Pits
<1> QED BY <1>1, BoundsAssumption DEF Init, TypeOK, Positions, Pits

(* What every End, and every Goto, does to the types. *)
LEMMA EndType ==
  ASSUME TypeOK, NEW w \in Wakes, End(w)
  PROVE  /\ holder' \in Wakes \union {NoWake}
         /\ pc' \in [Wakes -> Positions]
         /\ job' \in [Wakes -> Activations \union {NoActivation}]
         /\ loaded' \in [Wakes -> Lists \union {NoList}]
BY DEF TypeOK, End, Positions

LEMMA TypeStep ==
  ASSUME Sound, [Next]_vars
  PROVE  TypeOK'
<1> USE DEF Sound, TypeOK
<1>1. ASSUME NEW w \in Wakes,
             Refuse(w) \/ RefuseInputs(w) \/ RefuseScope(w)
      PROVE  TypeOK'
  <2>1. End(w) /\ UNCHANGED <<store, lease, terminal, environment, entered>>
    BY <1>1 DEF Refuse, RefuseInputs, RefuseScope
  <2> QED BY <2>1, EndType DEF store, environment
<1>2. ASSUME NEW w \in Wakes, StampTorn(w) PROVE TypeOK'
  BY <1>2, EndType DEF StampTorn, store, environment
<1>3. ASSUME NEW w \in Wakes, ClearActive(w) PROVE TypeOK'
  BY <1>3, EndType DEF ClearActive, environment
<1>4. ASSUME NEW w \in Wakes, Abort(w) PROVE TypeOK'
  <2>1. End(w) /\ aborts' = aborts + 1 /\ entered' = entered
        /\ UNCHANGED <<store, lease, terminal, inputs, now, edits>>
    BY <1>4 DEF Abort
  <2>2. entered' \in [Activations -> 0..(aborts' + 1)]
    <3>1. ASSUME NEW i \in Activations PROVE entered[i] \in 0..(aborts + 1 + 1)
      OBVIOUS
    <3> QED BY <2>1, <3>1
  <2> QED BY <2>1, <2>2, EndType DEF store
<1>5. ASSUME NEW w \in Wakes, Wake(w) \/ Acquire(w) PROVE TypeOK'
  BY <1>5 DEF Wake, Acquire, Goto, Positions, store, environment
<1>6. ASSUME NEW w \in Wakes, ResumeActive(w) \/ SettleLatest(w) \/ SettleActive(w)
      PROVE  TypeOK'
  BY <1>6 DEF ResumeActive, SettleLatest, SettleActive, Goto, Positions, store,
     environment, Unfinished
<1>7. ASSUME NEW w \in Wakes, AdoptOrphan(w) PROVE TypeOK'
  BY <1>7 DEF AdoptOrphan, Orphans, Unfinished, Goto, Positions, environment
<1>8. ASSUME NEW w \in Wakes, Reuse(w) \/ Create(w) PROVE TypeOK'
  BY <1>8, RequestedType DEF Reuse, Create, Goto, Positions, store, environment
<1>9. ASSUME NEW w \in Wakes, Activate(w) \/ Reload(w) \/ Verify(w) PROVE TypeOK'
  BY <1>9, RequestedType DEF Activate, Reload, Verify, Goto, Positions, store, environment
<1>10. ASSUME NEW w \in Wakes, Truncate(w) \/ Stamp(w) \/ Repair(w) \/ FinishCycle(w)
       PROVE  TypeOK'
  <2>1. pc[w] = "running" => job[w] \in Activations
    BY DEF Local, Working, Unfinished
  <2> QED BY <1>10, <2>1 DEF Truncate, Stamp, Repair, FinishCycle, Goto, Positions, store,
     environment
<1>11. ASSUME NEW w \in Wakes, EnterCycle(w) PROVE TypeOK'
  <2>1. job[w] \in Activations /\ job[w] \notin terminal
    BY <1>11 DEF EnterCycle, Local, Working, Unfinished, MayRepair
  <2>2. \A u \in Wakes : ~Runs(u, job[w])
    <3>1. pc[w] = "cycle"
      BY <1>11 DEF EnterCycle
    <3> QED BY <3>1, Alone DEF Runs
  <2>3. entered[job[w]] <= aborts
    BY <2>1, <2>2 DEF Counted
  <2>4. entered[job[w]] + 1 \in 0..(aborts + 1)
    BY <2>1, <2>3
  <2>5. entered' \in [Activations -> 0..(aborts' + 1)]
    BY <1>11, <2>1, <2>4 DEF EnterCycle, environment
  <2> QED BY <1>11, <2>5 DEF EnterCycle, Goto, Positions, store, environment
<1>12. ASSUME NEW w \in Wakes, SaveReceipt(w) PROVE TypeOK'
  <2>1. job[w] \in Activations
    BY <1>12 DEF SaveReceipt, Local, Working, Unfinished
  <2>2. receipts' \in [Activations -> Nat]
    BY <1>12, <2>1, RankType DEF SaveReceipt
  <2> QED BY <1>12, <2>2 DEF SaveReceipt, Goto, Positions, environment
<1>13. ASSUME NEW w \in Wakes, PointLatest(w) PROVE TypeOK'
  BY <1>13 DEF PointLatest, Goto, Positions, environment
<1>14. ASSUME Edit \/ Tick PROVE TypeOK'
  BY <1>14, BoundsAssumption DEF Edit, Tick, store, local, Pits
<1>15. CASE UNCHANGED vars
  BY <1>15 DEF vars, store, local, environment
<1> QED
  BY <1>1, <1>2, <1>3, <1>4, <1>5, <1>6, <1>7, <1>8, <1>9, <1>10, <1>11, <1>12,
     <1>13, <1>14, <1>15 DEF Next, Work

-----------------------------------------------------------------------------
(* The lock *)

LEMMA ExclusiveStep ==
  ASSUME TypeOK, Exclusive, [Next]_vars
  PROVE  Exclusive'
<1> USE DEF TypeOK, Exclusive
<1>1. ASSUME NEW w \in Wakes, End(w) PROVE Exclusive'
  BY <1>1 DEF End
<1>2. ASSUME NEW w \in Wakes, Wake(w) PROVE Exclusive'
  BY <1>2 DEF Wake, Goto
<1>3. ASSUME NEW w \in Wakes, Acquire(w) PROVE Exclusive'
  BY <1>3, NoWakeAssumption DEF Acquire, Goto
<1>4. ASSUME NEW w \in Wakes, Work(w),
             ~(Acquire(w) \/ Refuse(w) \/ RefuseInputs(w) \/ RefuseScope(w) \/ ClearActive(w))
      PROVE  Exclusive'
  <2>1. pc[w] \notin {"idle", "lock"} /\ holder' = holder
    BY <1>4 DEF Work, ResumeActive, SettleLatest, SettleActive, AdoptOrphan, Reuse, Create,
       MayResolve, Activate, Reload, Verify, Truncate, Stamp, Repair, EnterCycle,
       FinishCycle, SaveReceipt, PointLatest
  <2>2. \A u \in Wakes : u # w => pc'[u] = pc[u]
    BY <1>4 DEF Work, ResumeActive, SettleLatest, SettleActive, AdoptOrphan, Reuse, Create,
       Activate, Reload, Verify, Truncate, Stamp, Repair, EnterCycle,
       FinishCycle, SaveReceipt, PointLatest, Goto
  <2> QED BY <2>1, <2>2
<1>5. ASSUME Edit \/ Tick \/ UNCHANGED vars PROVE Exclusive'
  BY <1>5 DEF Edit, Tick, vars, local
<1> QED
  BY <1>1, <1>2, <1>3, <1>4, <1>5
     DEF Next, Work, Refuse, RefuseInputs, RefuseScope, ClearActive, StampTorn, Abort

-----------------------------------------------------------------------------
(* The store.  An invocation either leaves it as it is or does one of a few  *)
(* things to it.                                                             *)
Kept == UNCHANGED <<intents, receipts, active, latest, terminal>>

LEMMA StoreUnchanged ==
  ASSUME OneUnfinished, Bound, Kept
  PROVE  OneUnfinished' /\ Bound' /\ Unfinished' = Unfinished
BY DEF OneUnfinished, Bound, Kept, Unfinished, Finished

(* Only one activation is unfinished, and it is the active one unless no     *)
(* pointer is set; that is all a wake insists on.                            *)
LEMMA Accepted ==
  ASSUME OneUnfinished, Bound
  PROVE  StoreAccepted
<1>1. CASE Unfinished = {}
  BY <1>1, FS_EmptySet DEF StoreAccepted, Bound
<1>2. CASE Unfinished # {}
  <2>1. PICK i \in Unfinished : Unfinished = {i}
    BY <1>2 DEF OneUnfinished
  <2>2. Cardinality(Unfinished) = 1
    BY <2>1, FS_Singleton
  <2> QED BY <2>2 DEF StoreAccepted, Bound
<1> QED BY <1>1, <1>2

LEMMA StoreStep ==
  ASSUME Sound, [Next]_vars
  PROVE  OneUnfinished' /\ Bound'
<1> USE DEF Sound, TypeOK
<1>1. ASSUME Kept PROVE OneUnfinished' /\ Bound'
  BY <1>1, StoreUnchanged
<1>2. ASSUME NEW w \in Wakes, SettleLatest(w) PROVE OneUnfinished' /\ Bound'
  <2>1. active \in Activations /\ Finished(active)
    BY <1>2 DEF SettleLatest, Unfinished, Bound
  <2>2. latest' = active /\ UNCHANGED <<intents, receipts, active, terminal>>
    BY <1>2 DEF SettleLatest
  <2> QED BY <2>1, <2>2 DEF OneUnfinished, Bound, Unfinished, Finished
<1>3. ASSUME NEW w \in Wakes, SettleActive(w) \/ ClearActive(w)
      PROVE  OneUnfinished' /\ Bound'
  <2>1. active' = NoActivation /\ UNCHANGED <<intents, receipts, latest, terminal>>
    BY <1>3 DEF SettleActive, ClearActive
  <2> QED BY <2>1 DEF OneUnfinished, Bound, Unfinished, Finished
<1>4. ASSUME NEW w \in Wakes, AdoptOrphan(w) PROVE OneUnfinished' /\ Bound'
  <2>1. active' \in Unfinished /\ UNCHANGED <<intents, receipts, latest, terminal>>
    BY <1>4 DEF AdoptOrphan, Orphans
  <2> QED BY <2>1 DEF OneUnfinished, Bound, Unfinished, Finished
<1>5. ASSUME NEW w \in Wakes, Create(w) PROVE OneUnfinished' /\ Bound'
  <2>1. /\ active = NoActivation /\ Unfinished = {} /\ ~Finished(Requested)
        /\ Requested \in Activations /\ inputs.cache \in Caches
    BY <1>5, RequestedType DEF Create, MayResolve, Orphans, Local
  <2>2. /\ intents' = [intents EXCEPT ![Requested] = inputs.cache]
        /\ UNCHANGED <<receipts, active, latest, terminal>>
    BY <1>5 DEF Create
  <2>3. Unfinished' = {Requested}
    BY <2>1, <2>2, NoIntentAssumption DEF Unfinished, Finished
  <2>4. \A i \in Activations : intents[i] # NoIntent => intents'[i] # NoIntent
    BY <2>1, <2>2, NoIntentAssumption
  <2> QED BY <2>1, <2>2, <2>3, <2>4 DEF OneUnfinished, Bound, Finished
<1>6. ASSUME NEW w \in Wakes, Activate(w) PROVE OneUnfinished' /\ Bound'
  <2>1. job[w] \in Unfinished /\ active' = job[w]
        /\ UNCHANGED <<intents, receipts, latest, terminal>>
    BY <1>6 DEF Activate, Local
  <2> QED BY <2>1 DEF OneUnfinished, Bound, Unfinished, Finished
<1>7. ASSUME NEW w \in Wakes, FinishCycle(w) PROVE OneUnfinished' /\ Bound'
  <2>1. job[w] \in Unfinished /\ terminal' = terminal \union {job[w]}
        /\ UNCHANGED <<intents, receipts, active, latest>>
    BY <1>7 DEF FinishCycle, Local, Working, store
  <2> QED BY <2>1 DEF OneUnfinished, Bound, Unfinished, Finished
<1>8. ASSUME NEW w \in Wakes, SaveReceipt(w) PROVE OneUnfinished' /\ Bound'
  <2>1. /\ job[w] \in Unfinished /\ job[w] \in terminal
        /\ UNCHANGED <<intents, active, latest, terminal>>
        /\ receipts' = [receipts EXCEPT ![job[w]] =
                          Cardinality({i \in Activations : Finished(i)}) + 1]
    BY <1>8 DEF SaveReceipt, Local, Working
  <2>2. \A i \in Activations : Finished(i)' <=> Finished(i) \/ i = job[w]
    BY <2>1, RankType DEF Finished, Unfinished
  <2> QED BY <2>1, <2>2 DEF OneUnfinished, Bound, Unfinished
<1>9. ASSUME NEW w \in Wakes, PointLatest(w) PROVE OneUnfinished' /\ Bound'
  <2>1. Finished(job[w]) /\ latest' = job[w]
        /\ UNCHANGED <<intents, receipts, active, terminal>>
    BY <1>9 DEF PointLatest, Local
  <2> QED BY <2>1 DEF OneUnfinished, Bound, Unfinished, Finished
<1>10. ASSUME NEW w \in Wakes,
              \/ Wake(w) \/ Acquire(w) \/ Refuse(w) \/ ResumeActive(w) \/ Reuse(w)
              \/ Reload(w) \/ Verify(w) \/ RefuseInputs(w) \/ Truncate(w) \/ Stamp(w)
              \/ StampTorn(w) \/ Repair(w) \/ EnterCycle(w) \/ RefuseScope(w) \/ Abort(w)
       PROVE  Kept
  BY <1>10 DEF Kept, store, Wake, Acquire, Refuse, ResumeActive, Reuse, Reload, Verify,
     RefuseInputs, Truncate, Stamp, StampTorn, Repair, EnterCycle, RefuseScope, Abort
<1>11. ASSUME Edit \/ Tick \/ UNCHANGED vars PROVE Kept
  BY <1>11 DEF Kept, store, Edit, Tick, vars
<1> QED
  BY <1>1, <1>2, <1>3, <1>4, <1>5, <1>6, <1>7, <1>8, <1>9, <1>10, <1>11 DEF Next, Work

-----------------------------------------------------------------------------
(* What an invocation knows of the store stays true: nobody else is past the *)
(* lock, and its own steps keep it so.                                       *)

LEMMA Outside ==
  ASSUME NEW w \in Wakes, pc[w] \in {"idle", "lock", "settle"}
  PROVE  Local(w)
BY DEF Local

LEMMA LocalOwn ==
  ASSUME Sound, NEW w \in Wakes, Wake(w) \/ Work(w) \/ StampTorn(w) \/ Abort(w)
  PROVE  Local(w)'
<1> USE DEF Sound, TypeOK
<1>1. ASSUME End(w) PROVE Local(w)'
  BY <1>1 DEF End, Local
<1>2. ASSUME Wake(w) \/ Acquire(w) PROVE Local(w)'
  BY <1>2 DEF Wake, Acquire, Goto, Local
<1>3. ASSUME ResumeActive(w) PROVE Local(w)'
  <2>1. pc'[w] = "verify" /\ job'[w] = active /\ active \in Unfinished
    BY <1>3 DEF ResumeActive, Goto
  <2>2. Unfinished' = Unfinished /\ active' = active
    BY <1>3 DEF ResumeActive, Unfinished, Finished, store
  <2> QED BY <2>1, <2>2 DEF Local, Working
<1>4. ASSUME SettleLatest(w) PROVE Local(w)'
  <2>1. Unfinished = {}
    BY <1>4 DEF SettleLatest, Bound
  <2>2. pc'[w] = "settled" /\ Unfinished' = Unfinished
    BY <1>4 DEF SettleLatest, Goto, Unfinished, Finished
  <2> QED BY <2>1, <2>2 DEF Local, Nothing
<1>5. ASSUME SettleActive(w) PROVE Local(w)'
  <2>1. Unfinished = {} /\ pc'[w] = "resolve" /\ active' = NoActivation
    BY <1>5 DEF SettleActive, Goto, Local, Nothing
  <2>2. Unfinished' = Unfinished
    BY <1>5 DEF SettleActive, Unfinished, Finished
  <2> QED BY <2>1, <2>2 DEF Local, Nothing
<1>6. ASSUME AdoptOrphan(w) PROVE Local(w)'
  <2>1. pc'[w] = "verify" /\ job'[w] = active' /\ active' \in Unfinished
    BY <1>6 DEF AdoptOrphan, Orphans, Goto
  <2>2. Unfinished' = Unfinished
    BY <1>6 DEF AdoptOrphan, Unfinished, Finished
  <2> QED BY <2>1, <2>2 DEF Local, Working
<1>7. ASSUME Reuse(w) PROVE Local(w)'
  <2>1. /\ pc'[w] = "reuse" /\ job'[w] = Requested
        /\ Requested \in Activations /\ Finished(Requested) /\ Unfinished = {}
    BY <1>7, RequestedType DEF Reuse, MayResolve, Orphans, Goto
  <2>2. UNCHANGED <<intents, receipts>>
    BY <1>7 DEF Reuse, store
  <2> QED BY <2>1, <2>2 DEF Local, Nothing, Unfinished, Finished
<1>8. ASSUME Create(w) PROVE Local(w)'
  <2>1. /\ pc'[w] = "activate" /\ job'[w] = Requested /\ receipts' = receipts
        /\ Requested \in Activations /\ ~Finished(Requested)
        /\ intents'[Requested] = inputs.cache /\ inputs.cache # NoIntent
    BY <1>8, RequestedType, NoIntentAssumption DEF Create, Goto
  <2> QED BY <2>1 DEF Local, Unfinished, Finished
<1>9. ASSUME Activate(w) PROVE Local(w)'
  <2>1. /\ pc'[w] = "reload" /\ job' = job /\ job[w] \in Unfinished /\ active' = job[w]
        /\ UNCHANGED <<intents, receipts>>
    BY <1>9 DEF Activate, Goto, Local
  <2> QED BY <2>1 DEF Local, Working, Unfinished, Finished
<1>10. ASSUME \/ Reload(w) \/ Verify(w) \/ Truncate(w) \/ Stamp(w) \/ EnterCycle(w)
       PROVE  Local(w)'
  <2>1. Working(w) /\ pc'[w] \in {"record", "stamp", "cycle", "running"} /\ job' = job
    BY <1>10 DEF Reload, Verify, Truncate, Stamp, EnterCycle, Goto, Local
  <2>2. UNCHANGED <<intents, receipts, active>>
    BY <1>10 DEF Reload, Verify, Truncate, Stamp, EnterCycle, store
  <2> QED BY <2>1, <2>2 DEF Local, Working, Unfinished, Finished
<1>11. ASSUME Repair(w) \/ FinishCycle(w) PROVE Local(w)'
  <2>1. Working(w) /\ pc'[w] = "receipt" /\ job' = job /\ job[w] \in terminal'
    BY <1>11 DEF Repair, FinishCycle, MayRepair, Goto, Local
  <2>2. UNCHANGED <<intents, receipts, active>>
    BY <1>11 DEF Repair, FinishCycle, store
  <2> QED BY <2>1, <2>2 DEF Local, Working, Unfinished, Finished
<1>12. ASSUME SaveReceipt(w) PROVE Local(w)'
  <2>1. /\ job[w] \in Unfinished /\ job' = job /\ pc'[w] = "latest" /\ intents' = intents
        /\ receipts' = [receipts EXCEPT ![job[w]] =
                          Cardinality({i \in Activations : Finished(i)}) + 1]
    BY <1>12 DEF SaveReceipt, Goto, Local, Working
  <2>2. \A i \in Activations : Finished(i)' <=> Finished(i) \/ i = job[w]
    BY <2>1, RankType DEF Finished, Unfinished
  <2>3. Unfinished' = {}
    BY <2>1, <2>2 DEF OneUnfinished, Unfinished
  <2>4. job[w] \in Activations
    BY <2>1 DEF Unfinished
  <2> QED BY <2>1, <2>2, <2>3, <2>4 DEF Local, Nothing
<1>13. ASSUME PointLatest(w) PROVE Local(w)'
  <2>1. /\ job[w] \in Activations /\ Finished(job[w]) /\ Nothing
        /\ pc'[w] = "clear" /\ job' = job /\ UNCHANGED <<intents, receipts>>
    BY <1>13 DEF PointLatest, Goto, Local
  <2> QED BY <2>1 DEF Local, Nothing, Unfinished, Finished
<1> QED
  BY <1>1, <1>2, <1>3, <1>4, <1>5, <1>6, <1>7, <1>8, <1>9, <1>10, <1>11, <1>12, <1>13
     DEF Work, Refuse, RefuseInputs, RefuseScope, ClearActive, StampTorn, Abort

(* With the store as it is, an invocation that stands still knows the same. *)
LEMMA LocalUnchanged ==
  ASSUME NEW u \in Wakes, Local(u), Kept, pc'[u] = pc[u], job'[u] = job[u]
  PROVE  Local(u)'
BY DEF Local, Working, Nothing, Kept, Unfinished, Finished

LEMMA LocalOther ==
  ASSUME Sound, NEW w \in Wakes, Wake(w) \/ Work(w) \/ StampTorn(w) \/ Abort(w),
         NEW u \in Wakes, u # w
  PROVE  Local(u)'
<1> USE DEF Sound, TypeOK
<1>1. pc'[u] = pc[u] /\ job'[u] = job[u]
  BY DEF Work, Wake, Acquire, Refuse, ResumeActive, SettleLatest, SettleActive, AdoptOrphan,
     Reuse, Create, Activate, Reload, Verify, RefuseInputs, Truncate, Stamp, StampTorn,
     Repair, EnterCycle, RefuseScope, FinishCycle, SaveReceipt, PointLatest, ClearActive,
     Abort, Goto, End
<1>2. CASE pc[w] \notin {"idle", "lock"}
  <2>1. pc[u] \in {"idle", "lock"}
    BY <1>2, Alone
  <2> QED BY <1>1, <2>1 DEF Local
<1>3. CASE pc[w] \in {"idle", "lock"}
  <2>1. Wake(w) \/ Acquire(w) \/ Refuse(w) \/ Abort(w)
    BY <1>3 DEF Work, ResumeActive, SettleLatest, SettleActive, AdoptOrphan, Reuse, Create,
       MayResolve, Activate, Reload, Verify, RefuseInputs, Truncate, Stamp, StampTorn,
       Repair, EnterCycle, RefuseScope, FinishCycle, SaveReceipt, PointLatest, ClearActive
  <2>2. Kept
    BY <2>1 DEF Wake, Acquire, Refuse, Abort, Kept, store
  <2> QED BY <1>1, <2>2, LocalUnchanged
<1> QED BY <1>2, <1>3

LEMMA LocalStep ==
  ASSUME Sound, [Next]_vars, NEW u \in Wakes
  PROVE  Local(u)'
<1>1. ASSUME NEW w \in Wakes, Wake(w) \/ Work(w) \/ StampTorn(w) \/ Abort(w)
      PROVE  Local(u)'
  BY <1>1, LocalOwn, LocalOther
<1>2. ASSUME Edit \/ Tick \/ UNCHANGED vars PROVE Local(u)'
  <2>1. Local(u) /\ Kept /\ pc' = pc /\ job' = job
    BY <1>2 DEF Sound, Edit, Tick, vars, store, local, Kept
  <2> QED BY <2>1, LocalUnchanged
<1> QED BY <1>1, <1>2 DEF Next

-----------------------------------------------------------------------------
(* How often a cycle is entered *)

LEMMA CountedStep ==
  ASSUME Sound, [Next]_vars
  PROVE  Counted'
<1> USE DEF Sound, TypeOK
<1>1. SUFFICES ASSUME NEW i \in Activations, i \notin terminal',
                      \A w \in Wakes : ~Runs(w, i)'
               PROVE  entered'[i] <= aborts'
  BY DEF Counted
<1>2. entered[i] \in Nat /\ aborts \in Nat /\ entered[i] <= aborts + 1
  OBVIOUS
<1>3. i \notin terminal
  BY <1>1 DEF Next, Work, vars, Wake, Acquire, Refuse, ResumeActive, SettleLatest,
     SettleActive, AdoptOrphan, Reuse, Create, Activate, Reload, Verify, RefuseInputs,
     Truncate, Stamp, StampTorn, Repair, EnterCycle, RefuseScope, FinishCycle, SaveReceipt,
     PointLatest, ClearActive, Abort, Edit, Tick
<1>4. ASSUME NEW w \in Wakes, Abort(w) PROVE entered'[i] <= aborts'
  BY <1>2, <1>4 DEF Abort
<1>5. ASSUME NEW w \in Wakes, EnterCycle(w) PROVE entered'[i] <= aborts'
  <2>1. job[w] # i
    BY <1>1, <1>5 DEF EnterCycle, Goto, Runs
  <2>2. entered'[i] = entered[i] /\ aborts' = aborts
    BY <1>5, <2>1 DEF EnterCycle, environment
  <2>3. \A u \in Wakes : ~Runs(u, i)
    <3>1. pc[w] = "cycle"
      BY <1>5 DEF EnterCycle
    <3> QED BY <3>1, Alone DEF Runs
  <2> QED BY <1>3, <2>2, <2>3 DEF Counted
<1>6. ASSUME NEW w \in Wakes, FinishCycle(w) PROVE entered'[i] <= aborts'
  <2>1. entered' = entered /\ aborts' = aborts
    BY <1>6 DEF FinishCycle, environment
  <2>2. job[w] # i /\ pc[w] = "running"
    BY <1>1, <1>6 DEF FinishCycle
  <2>3. \A u \in Wakes : ~Runs(u, i)
    BY <2>2, Alone DEF Runs
  <2> QED BY <1>3, <2>1, <2>3 DEF Counted
<1>7. ASSUME UNCHANGED <<entered, aborts>>,
             \A u \in Wakes : pc[u] = "running" => pc'[u] = pc[u] /\ job'[u] = job[u]
      PROVE  entered'[i] <= aborts'
  BY <1>1, <1>3, <1>7 DEF Runs, Counted
<1>8. ASSUME NEW w \in Wakes, Wake(w) \/ Work(w) \/ StampTorn(w),
             ~EnterCycle(w), ~FinishCycle(w)
      PROVE  /\ UNCHANGED <<entered, aborts>>
             /\ \A u \in Wakes : pc[u] = "running" => pc'[u] = pc[u] /\ job'[u] = job[u]
  <2>1. pc[w] # "running"
    BY <1>8 DEF Work, Wake, Acquire, Refuse, ResumeActive, SettleLatest, SettleActive,
       AdoptOrphan, Reuse, Create, MayResolve, Activate, Reload, Verify, RefuseInputs,
       Truncate, Stamp, StampTorn, Repair, RefuseScope, SaveReceipt, PointLatest, ClearActive
  <2>2. \A u \in Wakes : u # w => pc'[u] = pc[u] /\ job'[u] = job[u]
    BY <1>8 DEF Work, Wake, Acquire, Refuse, ResumeActive, SettleLatest, SettleActive,
       AdoptOrphan, Reuse, Create, Activate, Reload, Verify, RefuseInputs, Truncate, Stamp,
       StampTorn, Repair, RefuseScope, SaveReceipt, PointLatest, ClearActive, Goto, End
  <2>3. UNCHANGED <<entered, aborts>>
    BY <1>8 DEF Work, Wake, Acquire, Refuse, ResumeActive, SettleLatest, SettleActive,
       AdoptOrphan, Reuse, Create, Activate, Reload, Verify, RefuseInputs, Truncate, Stamp,
       StampTorn, Repair, RefuseScope, SaveReceipt, PointLatest, ClearActive, environment
  <2> QED BY <2>1, <2>2, <2>3
<1>9. ASSUME Edit \/ Tick \/ UNCHANGED vars PROVE entered'[i] <= aborts'
  BY <1>7, <1>9 DEF Edit, Tick, vars, local, environment
<1> QED BY <1>4, <1>5, <1>6, <1>7, <1>8, <1>9 DEF Next

LEMMA IntendedStep ==
  ASSUME Sound, [Next]_vars
  PROVE  Intended'
<1> USE DEF Sound, TypeOK, Intended
<1>1. ASSUME NEW w \in Wakes, EnterCycle(w) PROVE Intended'
  <2>1. job[w] \in Unfinished
    BY <1>1 DEF EnterCycle, Local, Working
  <2>2. intents' = intents /\ entered' = [entered EXCEPT ![job[w]] = @ + 1]
    BY <1>1 DEF EnterCycle, store
  <2> QED BY <2>1, <2>2 DEF Unfinished
<1>2. ASSUME NEW w \in Wakes, Create(w) PROVE Intended'
  <2>1. inputs.cache # NoIntent
    BY RequestedType, NoIntentAssumption
  <2> QED BY <1>2, <2>1 DEF Create
<1>3. ASSUME UNCHANGED <<intents, entered>> PROVE Intended'
  BY <1>3
<1> QED
  BY <1>1, <1>2, <1>3 DEF Next, Work, vars, store, Wake, Acquire, Refuse, ResumeActive,
     SettleLatest, SettleActive, AdoptOrphan, Reuse, Activate, Reload, Verify,
     RefuseInputs, Truncate, Stamp, StampTorn, Repair, RefuseScope, FinishCycle,
     SaveReceipt, PointLatest, ClearActive, Abort, Edit, Tick

-----------------------------------------------------------------------------
LEMMA SoundInit == Init => Sound
<1> SUFFICES ASSUME Init PROVE Sound
  OBVIOUS
<1>1. Unfinished = {}
  BY DEF Init, Unfinished
<1>2. Bound
  BY DEF Init, Bound, Finished
<1>3. Counted
  BY DEF Init, Counted
<1>4. Intended
  BY DEF Init, Intended
<1> QED
  BY <1>1, <1>2, <1>3, <1>4, TypeInit DEF Sound, Init, Exclusive, OneUnfinished, Local

LEMMA SoundStep == Sound /\ [Next]_vars => Sound'
BY TypeStep, ExclusiveStep, StoreStep, LocalStep, CountedStep, IntendedStep DEF Sound

(* The inductive invariant of the runner. *)
THEOREM SoundAlways == Spec => []Sound
BY SoundInit, SoundStep, PTL DEF Spec

(* Every variable keeps its type, and the cycle of an activation is entered  *)
(* at most once more than invocations died, for every number of wakes.       *)
THEOREM TypeAlways == Spec => []TypeOK
<1>1. Sound => TypeOK
  BY DEF Sound
<1> QED BY <1>1, SoundAlways, PTL

(* No number of overlapping wakes, deaths, edits of the inputs or jumps of   *)
(* the clock leaves a store that the next wake refuses with a conflict.      *)
THEOREM NeverConflicts == Spec => []StoreNeverConflicts
<1>1. ASSUME Sound PROVE StoreNeverConflicts
  <2>1. StoreAccepted
    BY <1>1, Accepted DEF Sound
  <2>2. active # NoActivation /\ Unfinished # {} => Unfinished = {active}
    BY <1>1 DEF Sound, Bound
  <2>3. \A i \in Activations : Finished(i) => i \in terminal /\ intents[i] # NoIntent
    BY <1>1 DEF Sound, Bound
  <2>4. \A w \in Wakes : pc[w] = "receipt" => ~Finished(job[w])
    BY <1>1 DEF Sound, Local, Working, Unfinished
  <2>5. \A w \in Wakes : pc[w] = "resolve" => Unfinished = {}
    BY <1>1 DEF Sound, Local, Nothing
  <2>6. active # NoActivation => intents[active] # NoIntent
    BY <1>1 DEF Sound, Bound
  <2> QED BY <2>1, <2>2, <2>3, <2>4, <2>5, <2>6 DEF StoreNeverConflicts
<1> QED BY <1>1, SoundAlways, PTL

(* The cycle is entered only for the one unfinished activation and never     *)
(* again once its terminal pair is durable, whatever overlaps or dies: a     *)
(* lost receipt is repaired without repeating provider or model work.        *)
CycleOncePerActivation ==
  [][\A i \in Activations : entered'[i] # entered[i]
       => Unfinished = {i} /\ i \notin terminal]_vars

THEOREM CycleOnceAlways == Spec => CycleOncePerActivation
<1>1. ASSUME Sound, [Next]_vars, NEW i \in Activations, entered'[i] # entered[i]
      PROVE  Unfinished = {i} /\ i \notin terminal
  <2>1. PICK w \in Wakes : EnterCycle(w)
    BY <1>1 DEF Next, Work, vars, Wake, Acquire, Refuse, ResumeActive, SettleLatest,
       SettleActive, AdoptOrphan, Reuse, Create, Activate, Reload, Verify, RefuseInputs,
       Truncate, Stamp, StampTorn, Repair, RefuseScope, FinishCycle, SaveReceipt,
       PointLatest, ClearActive, Abort, Edit, Tick
  <2>2. i = job[w]
    BY <1>1, <2>1 DEF EnterCycle, Sound, TypeOK
  <2>3. job[w] \in Unfinished /\ job[w] \notin terminal
    BY <1>1, <2>1 DEF EnterCycle, MayRepair, Sound, Local, Working
  <2> QED BY <1>1, <2>2, <2>3 DEF Sound, OneUnfinished
<1>2. Sound /\ [Next]_vars =>
        [\A i \in Activations : entered'[i] # entered[i]
           => Unfinished = {i} /\ i \notin terminal]_vars
  BY <1>1
<1> QED BY <1>2, SoundAlways, PTL DEF Spec, CycleOncePerActivation

-----------------------------------------------------------------------------
(* The order of the cycles *)

Started == {i \in Activations : entered[i] # 0}
Cycling == {job[w] : w \in {v \in Wakes : pc[v] = "running"}}

(* A step that neither enters, ends nor breaks off a cycle. *)
LEMMA OrderKept ==
  ASSUME UNCHANGED <<entered, terminal>>,
         \A u \in Wakes : pc'[u] = "running" <=> pc[u] = "running",
         \A u \in Wakes : pc[u] = "running" => job'[u] = job[u]
  PROVE  UNCHANGED Sequence!vars
<1>1. Started' = Started
  BY DEF Started
<1>2. Cycling' = Cycling
  <2>1. {v \in Wakes : pc[v] = "running"}' = {v \in Wakes : pc[v] = "running"}
    OBVIOUS
  <2> QED BY <2>1 DEF Cycling
<1> QED BY <1>1, <1>2 DEF Sequence!vars, Started, Cycling

(* While an invocation runs a cycle nobody else does, and it is a started one. *)
LEMMA CyclingAlone ==
  ASSUME Sound, NEW w \in Wakes, pc[w] = "running"
  PROVE  Cycling = {job[w]}
<1>1. {v \in Wakes : pc[v] = "running"} = {w}
  BY Alone DEF Sound
<1> QED BY <1>1 DEF Cycling

LEMMA EnterInTurn ==
  ASSUME Sound, NEW w \in Wakes, EnterCycle(w)
  PROVE  \E i \in Activations : Sequence!Enter(i)
<1> USE DEF Sound, TypeOK
<1>1. /\ pc[w] = "cycle" /\ job[w] \notin terminal
      /\ entered' = [entered EXCEPT ![job[w]] = @ + 1]
      /\ pc' = [pc EXCEPT ![w] = "running"]
      /\ UNCHANGED <<job, terminal>>
  BY DEF EnterCycle, MayRepair, Goto
<1>2. PICK i \in Activations : i = job[w] /\ i \in Unfinished
  BY <1>1 DEF Local, Working, Unfinished
<1>3. \A u \in Wakes : u # w => pc[u] \in {"idle", "lock"}
  BY <1>1, Alone
<1>4. Cycling = {}
  BY <1>1, <1>3 DEF Cycling
<1>5. Cycling' = {i}
  <2>1. {v \in Wakes : pc[v] = "running"}' = {w}
    BY <1>1, <1>3
  <2> QED BY <1>1, <1>2, <2>1 DEF Cycling
<1>6. Started \ terminal \subseteq {i}
  <2> SUFFICES ASSUME NEW j \in Started \ terminal PROVE j = i
    OBVIOUS
  <2>1. j \in Unfinished
    BY DEF Started, Unfinished, Intended, Bound
  <2> QED BY <1>2, <2>1 DEF OneUnfinished
<1>7. Started' = Started \union {i}
  <2>1. entered'[i] # 0
    BY <1>1, <1>2
  <2> QED BY <1>1, <1>2, <2>1 DEF Started
<1>8. Sequence!Enter(i)
  BY <1>1, <1>2, <1>4, <1>5, <1>6, <1>7 DEF Sequence!Enter, Sequence!InTurn, Started, Cycling
<1> QED BY <1>2, <1>8

LEMMA LeaveInTurn ==
  ASSUME Sound, NEW w \in Wakes, pc[w] = "running", entered' = entered,
         pc' = [pc EXCEPT ![w] = pc'[w]], pc'[w] # "running",
         \A u \in Wakes : u # w => job'[u] = job[u],
         terminal' = terminal \/ terminal' = terminal \union {job[w]}
  PROVE  \E i \in Activations : Sequence!Finish(i) \/ Sequence!Break(i)
<1> USE DEF Sound, TypeOK
<1>1. PICK i \in Activations : i = job[w]
  BY DEF Local, Working, Unfinished
<1>2. Cycling = {i}
  BY <1>1, CyclingAlone
<1>3. \A u \in Wakes : u # w => pc[u] \in {"idle", "lock"}
  BY Alone
<1>4. Cycling' = {}
  BY <1>3 DEF Cycling
<1>5. Started' = Started
  BY DEF Started
<1>6. Cycling' = Cycling \ {i}
  BY <1>2, <1>4
<1>7. Sequence!Finish(i) \/ Sequence!Break(i)
  BY <1>1, <1>2, <1>5, <1>6 DEF Sequence!Finish, Sequence!Break, Started, Cycling
<1> QED BY <1>1, <1>7

LEMMA SequenceInit == Init => Sequence!Init
BY DEF Init, Sequence!Init

LEMMA SequenceStep == Sound /\ [Next]_vars => [Sequence!Next]_(Sequence!vars)
<1> SUFFICES ASSUME Sound, [Next]_vars PROVE Sequence!Next \/ UNCHANGED Sequence!vars
  OBVIOUS
<1> USE DEF Sound, TypeOK
<1>1. ASSUME NEW w \in Wakes, EnterCycle(w) PROVE Sequence!Next
  BY <1>1, EnterInTurn DEF Sequence!Next
<1>2. ASSUME NEW w \in Wakes, FinishCycle(w) \/ Abort(w), pc[w] = "running"
      PROVE  Sequence!Next
  <2>1. /\ entered' = entered /\ pc' = [pc EXCEPT ![w] = pc'[w]] /\ pc'[w] # "running"
        /\ \A u \in Wakes : u # w => job'[u] = job[u]
        /\ terminal' = terminal \/ terminal' = terminal \union {job[w]}
    BY <1>2 DEF FinishCycle, Abort, End, Goto
  <2> QED BY <1>2, <2>1, LeaveInTurn DEF Sequence!Next
<1>3. ASSUME NEW w \in Wakes, Wake(w) \/ Work(w) \/ StampTorn(w) \/ Abort(w),
             ~EnterCycle(w), pc[w] # "running"
      PROVE  UNCHANGED Sequence!vars
  <2>1. /\ UNCHANGED <<entered, terminal>> /\ pc'[w] # "running"
        /\ \A u \in Wakes : u # w => pc'[u] = pc[u] /\ job'[u] = job[u]
    BY <1>3 DEF Work, Wake, Acquire, Refuse, ResumeActive, SettleLatest, SettleActive,
       AdoptOrphan, Reuse, Create, Activate, Reload, Verify, RefuseInputs, Truncate, Stamp,
       StampTorn, Repair, RefuseScope, FinishCycle, SaveReceipt, PointLatest, ClearActive,
       Abort, Goto, End
  <2> QED BY <1>3, <2>1, OrderKept
<1>4. ASSUME Edit \/ Tick \/ UNCHANGED vars PROVE UNCHANGED Sequence!vars
  <2>1. UNCHANGED <<entered, terminal, pc, job>>
    BY <1>4 DEF Edit, Tick, vars, local
  <2> QED BY <2>1, OrderKept
<1>5. ASSUME NEW w \in Wakes, Wake(w) \/ Work(w) \/ StampTorn(w), pc[w] = "running"
      PROVE  FinishCycle(w)
  BY <1>5 DEF Work, Wake, Acquire, Refuse, ResumeActive, SettleLatest, SettleActive,
     AdoptOrphan, Reuse, Create, MayResolve, Activate, Reload, Verify, RefuseInputs,
     Truncate, Stamp, StampTorn, Repair, EnterCycle, RefuseScope, SaveReceipt,
     PointLatest, ClearActive
<1> QED BY <1>1, <1>2, <1>3, <1>4, <1>5 DEF Next

(* The refinement: whatever overlaps, dies, is torn or edited, the cycles    *)
(* run in the order of CycleSequence, on which MonitoringCycle relies.       *)
THEOREM CyclesAlwaysInSequence == Spec => CyclesInSequence
<1>1. Spec => [][Sequence!Next]_(Sequence!vars)
  BY SequenceStep, SoundAlways, PTL DEF Spec
<1> QED BY <1>1, SequenceInit, PTL DEF Spec, CyclesInSequence, Sequence!Spec

(* What that order alone promises, whatever else the runner does: one cycle  *)
(* is open at a time, and none runs but that one.                            *)
THEOREM SequenceSuffices == Sequence!Spec => []Sequence!OneOpen
<1>1. Sequence!Init => Sequence!OneOpen
  BY DEF Sequence!Init, Sequence!OneOpen
<1>2. Sequence!OneOpen /\ [Sequence!Next]_(Sequence!vars) => Sequence!OneOpen'
  <2> SUFFICES ASSUME Sequence!OneOpen, [Sequence!Next]_(Sequence!vars)
               PROVE  Sequence!OneOpen'
    OBVIOUS
  <2>1. ASSUME NEW i \in Activations, Sequence!Enter(i) PROVE Sequence!OneOpen'
    BY <2>1 DEF Sequence!Enter, Sequence!InTurn, Sequence!OneOpen
  <2>2. ASSUME NEW i \in Activations, Sequence!Finish(i) \/ Sequence!Break(i)
        PROVE  Sequence!OneOpen'
    BY <2>2 DEF Sequence!Finish, Sequence!Break, Sequence!OneOpen
  <2>3. CASE UNCHANGED Sequence!vars
    BY <2>3 DEF Sequence!vars, Sequence!OneOpen
  <2> QED BY <2>1, <2>2, <2>3 DEF Sequence!Next
<1> QED BY <1>1, <1>2, PTL DEF Sequence!Spec

(* So it is of the runner: two cycles are never open at once.                *)
THEOREM OneCycleOpen == Spec => []Sequence!OneOpen
BY CyclesAlwaysInSequence, SequenceSuffices, PTL DEF CyclesInSequence
=============================================================================
