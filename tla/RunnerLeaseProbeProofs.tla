----------------------- MODULE RunnerLeaseProbeProofs -----------------------
(***************************************************************************)
(* What holds of the lease file and its passive probe for every set of     *)
(* holders, every number of records and every number of attempts.          *)
(***************************************************************************)
EXTENDS RunnerLeaseProbe, TLAPS

Valid(token) == [token |-> token, form |-> "valid"]
Short(token) == [token |-> token, form |-> "torn"]
Inside == {"read", "truncate", "write", "rest", "hold"}

(* The record in the file is one already begun, and what a holder left of it *)
(* is what the holder's own position says.                                   *)
SlotTyped ==
  /\ pc \in [Holders -> {"idle", "open"} \union Inside]
  /\ records \in 0..MaxRecords
  /\ bytes \in Bytes \union {NoFile}
  /\ bytes \in Bytes => bytes.token <= records
Exclusive == \A h \in Holders : pc[h] \in Inside => holder = h
Created == \A h \in Holders : pc[h] # "idle" => bytes \in Bytes
Written ==
  \A h \in Holders :
    /\ pc[h] = "write" => bytes = Empty
    /\ pc[h] = "rest" => bytes = Short(records)
    /\ pc[h] = "hold" => bytes = Valid(records)

SlotInv == SlotTyped /\ Exclusive /\ Created /\ Written

(* Bytes that the file held, holds no more and cannot hold again: a token is *)
(* drawn once, and its record is written once.                               *)
Past(b) ==
  /\ b \in Bytes /\ b # Empty /\ b # bytes
  /\ b.token <= records
  /\ b = Valid(records) => \A h \in Holders : pc[h] # "rest"

(* What the probe read first is still there or will not come back; after a   *)
(* scan that saw the lock free, it was there when the lock was free.         *)
Observed ==
  step # "idle" =>
    /\ bytes \in Bytes
    /\ holder = NoHolder => bytes \in proven
Remembered ==
  step = "before" => first \in Bytes /\ (first = bytes \/ first = Empty \/ Past(first))
Cleared ==
  step \in {"second", "after", "decide"} /\ ~visible /\ ~blind =>
    \/ first \in proven \/ first = Empty
    \/ step = "second" /\ Past(first)
    \/ step # "second" /\ first # second

ProbeInv == SlotInv /\ Observed /\ Remembered /\ Cleared

-----------------------------------------------------------------------------
(* The file *)

LEMMA BytesForm ==
  /\ Empty \in Bytes /\ Empty.token = 0 /\ Empty.form = "empty"
  /\ \A t \in 1..MaxRecords :
       /\ Valid(t) \in Bytes /\ Valid(t).token = t /\ Valid(t).form = "valid"
       /\ Short(t) \in Bytes /\ Short(t).token = t /\ Short(t).form = "torn"
  /\ \A b \in Bytes : b.token \in 0..MaxRecords
  /\ NoFile \notin Bytes
BY NoFileAssumption, BoundsAssumption DEF Bytes, Tokens, Empty, Valid, Short

SlotStep(h) ==
  \/ Open(h) \/ Lock(h) \/ ReadRecord(h) \/ Truncate(h)
  \/ WriteShort(h) \/ Write(h) \/ Release(h)

(* What each step does to the file. *)
LEMMA WriteShape ==
  ASSUME SlotInv, NEW h \in Holders, WriteShort(h) \/ Write(h)
  PROVE  \/ /\ pc[h] = "write" /\ records' = records + 1 /\ records' \in 1..MaxRecords
            /\ bytes = Empty
            /\ \/ bytes' = Short(records') /\ pc' = [pc EXCEPT ![h] = "rest"]
               \/ bytes' = Valid(records') /\ pc' = [pc EXCEPT ![h] = "hold"]
            /\ UNCHANGED holder
         \/ /\ pc[h] = "rest" /\ records' = records /\ records \in 1..MaxRecords
            /\ bytes = Short(records) /\ bytes' = Valid(records)
            /\ pc' = [pc EXCEPT ![h] = "hold"] /\ UNCHANGED holder
<1>1. records \in 0..MaxRecords /\ MaxRecords \in Nat
  BY BoundsAssumption DEF SlotInv, SlotTyped
<1>2. CASE pc[h] = "write"
  <2>1. bytes = Empty
    BY <1>2 DEF SlotInv, Written
  <2>2. records < MaxRecords /\ records' = records + 1
    BY <1>2 DEF WriteShort, Write
  <2>3. records' \in 1..MaxRecords
    BY <1>1, <2>2
  <2> QED BY <1>2, <2>1, <2>2, <2>3 DEF WriteShort, Write, Short, Valid
<1>3. CASE pc[h] = "rest"
  <2>1. bytes = Short(records)
    BY <1>3 DEF SlotInv, Written
  <2>2. bytes \in Bytes
    BY <1>3 DEF SlotInv, Created
  <2>3. records # 0
    BY <2>1, <2>2 DEF Bytes, Short, Empty, Tokens
  <2>4. records \in 1..MaxRecords
    BY <1>1, <2>3
  <2>5. Write(h)
    BY <1>3 DEF WriteShort
  <2> QED BY <1>3, <2>1, <2>4, <2>5 DEF Write, Valid
<1> QED BY <1>2, <1>3 DEF WriteShort, Write

LEMMA SlotInvStep ==
  ASSUME SlotInv, NEW h \in Holders, SlotStep(h)
  PROVE  SlotInv'
<1> USE DEF SlotInv
<1>1. CASE WriteShort(h) \/ Write(h)
  <2>1. /\ pc[h] \in Inside /\ holder = h /\ holder' = h
        /\ \A g \in Holders \ {h} : pc'[g] = pc[g] /\ pc[g] \in {"idle", "open"}
        /\ pc'[h] \in {"rest", "hold"}
    BY <1>1, WriteShape DEF Inside, Exclusive, SlotTyped
  <2>2. /\ records' \in 1..MaxRecords
        /\ \/ bytes' = Short(records') /\ pc'[h] = "rest"
           \/ bytes' = Valid(records') /\ pc'[h] = "hold"
    BY <1>1, WriteShape DEF SlotTyped
  <2>3. SlotTyped'
    <3>1. pc' \in [Holders -> {"idle", "open"} \union Inside]
      BY <1>1, WriteShape DEF SlotTyped, Inside
    <3>2. records' \in 0..MaxRecords
      BY <2>2, BoundsAssumption
    <3> QED BY <2>2, <3>1, <3>2, BytesForm DEF SlotTyped
  <2>4. Exclusive' /\ Written'
    BY <2>1, <2>2 DEF Exclusive, Written, Inside
  <2>5. Created'
    BY <2>2, BytesForm DEF Created
  <2> QED BY <2>3, <2>4, <2>5
<1>2. CASE Truncate(h)
  <2>1. /\ pc[h] = "truncate" /\ holder = h /\ holder' = h /\ bytes' = Empty /\ records' = records
        /\ pc' = [pc EXCEPT ![h] = "write"]
        /\ \A g \in Holders \ {h} : pc[g] \in {"idle", "open"}
    BY <1>2 DEF Truncate, Exclusive, Inside, SlotTyped
  <2>2. 0 <= records
    BY BoundsAssumption DEF SlotTyped
  <2>3. SlotTyped'
    BY <2>1, <2>2, BytesForm DEF SlotTyped, Inside
  <2>4. Exclusive' /\ Written' /\ Created'
    BY <2>1, BytesForm DEF Exclusive, Written, Created, SlotTyped, Inside
  <2> QED BY <2>3, <2>4
<1>3. CASE Open(h)
  <2>1. /\ pc[h] = "idle" /\ pc' = [pc EXCEPT ![h] = "open"] /\ UNCHANGED <<holder, records>>
        /\ bytes' \in Bytes /\ (bytes \in Bytes => bytes' = bytes)
        /\ (bytes \notin Bytes => bytes' = Empty)
    BY <1>3, BytesForm DEF Open, SlotTyped
  <2>2. 0 <= records
    BY BoundsAssumption DEF SlotTyped
  <2>3. SlotTyped'
    BY <2>1, <2>2, BytesForm DEF SlotTyped, Inside
  <2>4. Exclusive' /\ Written' /\ Created'
    BY <2>1 DEF Exclusive, Written, Created, SlotTyped, Inside
  <2> QED BY <2>3, <2>4
<1>4. CASE Lock(h)
  <2>1. \A g \in Holders : pc[g] \notin Inside
    BY <1>4, NoHolderAssumption DEF Lock, Exclusive
  <2> QED BY <1>4, <2>1 DEF Lock, SlotTyped, Exclusive, Written, Created, Inside
<1>5. CASE ReadRecord(h)
  <2>1. holder = h /\ \A g \in Holders \ {h} : pc[g] \notin Inside
    BY <1>5 DEF ReadRecord, Exclusive, Inside
  <2> QED BY <1>5, <2>1 DEF ReadRecord, SlotTyped, Exclusive, Written, Created, Inside
<1>6. CASE Release(h)
  BY <1>6 DEF Release, SlotTyped, Exclusive, Written, Created, Inside
<1> QED BY <1>1, <1>2, <1>3, <1>4, <1>5, <1>6 DEF SlotStep

(* Bytes that a step takes from the file do not come back. *)
LEMMA LeftBehind ==
  ASSUME SlotInv, NEW h \in Holders, SlotStep(h), NEW b \in Bytes, b # Empty,
         b = bytes \/ Past(b)
  PROVE  (b = bytes /\ b = bytes') \/ Past(b)'
<1> USE DEF SlotInv
<1>1. b.token <= records /\ records \in 0..MaxRecords /\ b.token \in 0..MaxRecords
  BY BytesForm DEF SlotTyped, Past
<1>2. CASE WriteShort(h) \/ Write(h)
  <2>1. CASE pc[h] = "write"
    <3>1. /\ records' = records + 1 /\ records' \in 1..MaxRecords
          /\ bytes' = Short(records') \/ bytes' = Valid(records')
          /\ bytes = Empty
      BY <1>2, <2>1, WriteShape
    <3>2. b.token < records' /\ b.token <= records'
      BY <1>1, <3>1, BoundsAssumption
    <3>3. bytes'.token = records' /\ Valid(records').token = records'
      BY <3>1, BytesForm
    <3>4. b # bytes' /\ b # Valid(records')
      <4>1. b.token # records'
        BY <1>1, <3>1, <3>2
      <4> QED BY <3>3, <4>1
    <3> QED BY <3>2, <3>4 DEF Past
  <2>2. CASE pc[h] = "rest"
    <3>1. /\ records' = records /\ records \in 1..MaxRecords
          /\ bytes = Short(records) /\ bytes' = Valid(records)
          /\ pc' = [pc EXCEPT ![h] = "hold"]
      BY <1>2, <2>2, WriteShape
    <3>2. b # Valid(records)
      <4>1. CASE b = bytes
        BY <3>1, <4>1, BytesForm
      <4>2. CASE Past(b)
        BY <2>2, <4>2 DEF Past
      <4> QED BY <4>1, <4>2
    <3> QED BY <1>1, <3>1, <3>2 DEF Past
  <2> QED BY <1>2, <2>1, <2>2, WriteShape
<1>3. CASE Truncate(h)
  <2>1. /\ pc[h] = "truncate" /\ holder = h /\ bytes' = Empty /\ records' = records
        /\ pc' = [pc EXCEPT ![h] = "write"]
        /\ \A g \in Holders \ {h} : pc[g] \in {"idle", "open"}
    BY <1>3 DEF Truncate, Exclusive, Inside, SlotTyped
  <2>2. \A g \in Holders : pc'[g] # "rest"
    BY <2>1 DEF SlotTyped
  <2> QED BY <1>1, <2>1, <2>2 DEF Past
<1>4. CASE Open(h) \/ Lock(h) \/ ReadRecord(h) \/ Release(h)
  <2>1. /\ records' = records /\ \A g \in Holders : pc'[g] = "rest" => pc[g] = "rest"
        /\ bytes \in Bytes => bytes' = bytes
        /\ bytes' \in {bytes, Empty}
    BY <1>4, BytesForm DEF Open, Lock, ReadRecord, Release, SlotTyped
  <2>2. CASE b = bytes
    BY <2>1, <2>2
  <2>3. CASE Past(b)
    BY <2>1, <2>3 DEF Past
  <2> QED BY <2>2, <2>3
<1> QED BY <1>2, <1>3, <1>4 DEF SlotStep

-----------------------------------------------------------------------------
(* The probe *)

LEMMA ProbeInvInit == Init => ProbeInv
<1> SUFFICES ASSUME Init PROVE ProbeInv
  OBVIOUS
<1>1. bytes = NoFile /\ bytes \notin Bytes /\ records = 0 /\ records \in 0..MaxRecords
  BY BytesForm, BoundsAssumption DEF Init
<1>2. SlotInv
  BY <1>1 DEF Init, SlotInv, SlotTyped, Exclusive, Created, Written, Inside
<1> QED BY <1>2 DEF Init, ProbeInv, Observed, Remembered, Cleared

(* A holder's step under the probe's eyes. *)
LEMMA HoldersMove ==
  ASSUME ProbeInv, HolderStep
  PROVE  ProbeInv'
<1>1. PICK h \in Holders : SlotStep(h)
  BY DEF HolderStep, SlotStep
<1>2. SlotInv /\ SlotInv'
  BY <1>1, SlotInvStep DEF ProbeInv
<1>3. UNCHANGED <<step, first, second, visible, blind, attempt, report>> /\ Witness(proven)
  BY DEF HolderStep
<1>4. proven \subseteq proven' /\ (holder' = NoHolder => bytes' \in proven')
  BY <1>3 DEF Witness
<1>5. bytes \in Bytes => bytes' \in Bytes
  <2>1. CASE Write(h) \/ WriteShort(h)
    BY <1>2, <2>1, WriteShape, BytesForm DEF SlotInv, SlotTyped
  <2>2. CASE Open(h) \/ Lock(h) \/ ReadRecord(h) \/ Truncate(h) \/ Release(h)
    BY <2>2, BytesForm DEF Open, Lock, ReadRecord, Truncate, Release
  <2> QED BY <1>1, <2>1, <2>2 DEF SlotStep
<1>6. Observed'
  BY <1>3, <1>4, <1>5 DEF ProbeInv, Observed
<1>7. ASSUME first \in Bytes PROVE
        /\ first = bytes \/ first = Empty \/ Past(first) =>
             first' = bytes' \/ first' = Empty \/ Past(first)'
        /\ Past(first) => Past(first)'
  <2>1. PICK b \in Bytes : b = first
    BY <1>7
  <2>2. b = first'
    BY <1>3, <2>1
  <2>3. b = bytes \/ b = Empty \/ Past(b) => b = bytes' \/ b = Empty \/ Past(b)'
    BY <1>1, <1>2, LeftBehind
  <2>4. Past(b) => Past(b)'
    BY <1>1, <1>2, LeftBehind DEF Past
  <2>5. (Past(first) <=> Past(b)) /\ (Past(first)' <=> Past(b)')
    BY <2>1, <2>2 DEF Past
  <2> QED BY <2>1, <2>2, <2>3, <2>4, <2>5
<1>8. Remembered'
  BY <1>3, <1>7 DEF ProbeInv, Remembered
<1>9. Cleared'
  BY <1>3, <1>4, <1>7 DEF ProbeInv, Cleared, Past
<1> QED BY <1>2, <1>6, <1>8, <1>9 DEF ProbeInv

(* The probe writes nothing: between two steps of holders it only learns. *)
LEMMA Learns ==
  ASSUME ProbeInv, UNCHANGED slot
  PROVE  /\ SlotInv' /\ \A b : Past(b)' <=> Past(b)
         /\ Witness({}) => (holder' = NoHolder => bytes' \in proven')
         /\ Witness(proven) =>
              /\ proven \subseteq proven'
              /\ holder' = NoHolder => bytes' \in proven'
<1>1. UNCHANGED <<bytes, holder, pc, records>>
  BY DEF slot
<1>2. SlotInv'
  BY <1>1 DEF ProbeInv, SlotInv, SlotTyped, Exclusive, Created, Written
<1>3. \A b : Past(b)' <=> Past(b)
  BY <1>1 DEF Past
<1> QED BY <1>2, <1>3 DEF Witness

(* The probe's own steps. *)
LEMMA ProbeMoves ==
  ASSUME ProbeInv, Begin \/ ReadFirst \/ ScanBefore \/ ReadSecond \/ ScanAfter \/ Decide \/ Reobserve
  PROVE  ProbeInv'
<1>0. UNCHANGED slot
  BY DEF Begin, ReadFirst, ScanBefore, ReadSecond, ScanAfter, Decide, Reobserve, Scan, Observe
<1>1. UNCHANGED <<bytes, holder, pc, records>> /\ SlotInv' /\ \A b : Past(b)' <=> Past(b)
  BY <1>0, Learns DEF slot
<1>2. ASSUME Observe, step # "idle"
      PROVE  Observed' /\ proven \subseteq proven' /\ (holder = NoHolder => bytes \in proven')
  BY <1>0, <1>1, <1>2, Learns DEF Observe, ProbeInv, Observed
<1>3. CASE Begin
  <2>1. step = "idle" /\ Witness({})
    BY <1>3 DEF Begin
  <2>2. CASE bytes = NoFile
    BY <1>1, <1>3, <2>2 DEF Begin, Report, ProbeInv, Observed, Remembered, Cleared
  <2>3. CASE bytes # NoFile
    <3>1. step' = "first" /\ bytes \in Bytes
      BY <1>3, <2>3 DEF Begin, ProbeInv, SlotInv, SlotTyped
    <3> QED BY <1>0, <1>1, <2>1, <3>1, Learns DEF ProbeInv, Observed, Remembered, Cleared
  <2> QED BY <2>2, <2>3
<1>4. CASE ReadFirst
  <2>1. step = "first" /\ step' = "before" /\ first' = bytes /\ Observe
    BY <1>4 DEF ReadFirst
  <2>2. bytes \in Bytes
    BY <2>1 DEF ProbeInv, Observed
  <2> QED BY <1>1, <1>2, <2>1, <2>2 DEF ProbeInv, Remembered, Cleared
<1>5. CASE ScanBefore
  <2>0. ~visible' /\ ~blind' => holder = NoHolder
    BY <1>5, Zenon DEF ScanBefore, Scan
  <2>1. /\ step = "before" /\ step' = "second" /\ Observe /\ UNCHANGED <<first, second>>
        /\ ~visible' /\ ~blind' => holder = NoHolder
    BY <1>5, <2>0 DEF ScanBefore, Scan
  <2>2. first = bytes \/ first = Empty \/ Past(first)
    BY <2>1 DEF ProbeInv, Remembered
  <2>3. Past(first)' <=> Past(first)
    BY <1>1, <2>1 DEF Past
  <2> QED BY <1>1, <1>2, <2>1, <2>2, <2>3 DEF ProbeInv, Remembered, Cleared
<1>6. CASE ReadSecond
  <2>1. /\ step = "second" /\ step' = "after" /\ second' = bytes /\ Observe
        /\ UNCHANGED <<first, visible, blind>>
    BY <1>6 DEF ReadSecond
  <2>2. Past(first) => first # bytes
    BY DEF Past
  <2> QED BY <1>1, <1>2, <2>1, <2>2 DEF ProbeInv, Remembered, Cleared
<1>7. CASE ScanAfter
  <2>0. ~visible' /\ ~blind' => ~visible /\ ~blind
    BY <1>7, Zenon DEF ScanAfter, Scan
  <2>1. /\ step = "after" /\ step' = "decide" /\ Observe /\ UNCHANGED <<first, second>>
        /\ ~visible' /\ ~blind' => ~visible /\ ~blind
    BY <1>7, <2>0 DEF ScanAfter, Scan
  <2> QED BY <1>1, <1>2, <2>1 DEF ProbeInv, Remembered, Cleared
<1>8. CASE Decide \/ Reobserve
  <2>1. step = "decide" /\ step' \in {"idle", "first"} /\ Observe
    BY <1>8 DEF Decide, Reobserve, Report
  <2> QED BY <1>1, <1>2, <2>1 DEF ProbeInv, Remembered, Cleared
<1> QED BY <1>3, <1>4, <1>5, <1>6, <1>7, <1>8

LEMMA ProbeInvStep == ProbeInv /\ [Next]_vars => ProbeInv'
<1> SUFFICES ASSUME ProbeInv, [Next]_vars PROVE ProbeInv'
  OBVIOUS
<1>1. CASE UNCHANGED vars
  <2>1. SlotInv'
    BY <1>1, Learns DEF vars
  <2>2. Observed' /\ Remembered' /\ Cleared'
    BY <1>1 DEF vars, slot, probe, ProbeInv, Observed, Remembered, Cleared, Past
  <2> QED BY <2>1, <2>2 DEF ProbeInv
<1> QED BY <1>1, HoldersMove, ProbeMoves DEF Next

LEMMA ProbeInvAlways == Spec => []ProbeInv
BY ProbeInvInit, ProbeInvStep, PTL DEF Spec

-----------------------------------------------------------------------------
(* The theorems *)

(* Whoever has written its record holds the lease, and the record in the     *)
(* file is its own and whole, with any number of invocations that queue,     *)
(* die or raise (RunnerLease.record).                                        *)
THEOREM RecordAlwaysBelongs == Spec => []RecordBelongsToHolder
<1>1. ProbeInv => RecordBelongsToHolder
  BY DEF ProbeInv, SlotInv, Exclusive, Written, RecordBelongsToHolder, Inside, Valid
<1> QED BY <1>1, ProbeInvAlways, PTL

LEMMA AbandonedStep ==
  ASSUME ProbeInv, [Next]_vars, report' # report, report'.state = "ABANDONED", second' # Empty
  PROVE  second' \in proven'
<1>1. Decide
  <2>1. ~UNCHANGED vars /\ ~HolderStep
    BY DEF vars, probe, HolderStep
  <2>2. ~Begin
    <3>1. "FREE" # "ABANDONED"
      OBVIOUS
    <3> QED BY <3>1 DEF Begin, Report
  <2>3. ~ReadFirst /\ ~ScanBefore /\ ~ReadSecond /\ ~ScanAfter /\ ~Reobserve
    BY DEF ReadFirst, ScanBefore, ReadSecond, ScanAfter, Reobserve, Scan
  <2> QED BY <2>1, <2>2, <2>3 DEF Next
<1>2. step = "decide" /\ ~visible /\ ~blind /\ Stable /\ Observe /\ UNCHANGED <<first, second>>
  BY <1>1 DEF Decide, Report
<1>3. first = second /\ proven \subseteq proven'
  BY <1>2, Learns DEF Stable, Observe
<1> QED BY <1>2, <1>3 DEF ProbeInv, Cleared

(* A probe calls a slot abandoned only with bytes that were in the file,     *)
(* lock-free, during that very probe, however many holders write, die or     *)
(* come and go between its two reads and its two looks at the lock table     *)
(* (RunnerLease.probe).                                                      *)
THEOREM AbandonedAlwaysProven == Spec => AbandonedBytesAreProven
<1>1. ProbeInv /\ [Next]_vars =>
        [report' # report /\ report'.state = "ABANDONED" /\ second' # Empty
           => second' \in proven']_vars
  BY AbandonedStep
<1> QED BY <1>1, ProbeInvAlways, PTL DEF Spec, AbandonedBytesAreProven
=============================================================================
