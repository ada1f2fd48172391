-------------------------- MODULE RunnerLeaseProbe --------------------------
(***************************************************************************)
(* The lease file of one runner and the passive probe of it                *)
(* (src/turtle_value_engine/monitoring_runner/lease.py, phases 6-D2A-R1    *)
(* and 6-D3-R1).  Holders write their record under the kernel lock, in     *)
(* place; the probe reads the bytes and the kernel's lock table twice and  *)
(* never takes a lock.                                                     *)
(***************************************************************************)
EXTENDS Integers

CONSTANTS
  Holders,       \* invocations that may hold the lease
  NoHolder,      \* nobody does
  NoFile,        \* the slot file does not exist
  MaxRecords,    \* bound: holder records ever begun; each has a fresh token
  ProbeAttempts  \* _PROBE_MAX_ATTEMPTS

ASSUME NoHolderAssumption == NoHolder \notin Holders
ASSUME BoundsAssumption == MaxRecords \in Nat /\ ProbeAttempts \in Nat \ {0}

Tokens == 1..MaxRecords
Empty == [token |-> 0, form |-> "empty"]
Bytes == {Empty} \union [token : Tokens, form : {"torn", "valid"}]
ASSUME NoFileAssumption == NoFile \notin Bytes

VARIABLES
  bytes,      \* contents of the slot file
  holder,     \* owner of the flock
  pc,         \* where each invocation stands in held() and record()
  records,    \* tokens drawn so far
  step,       \* where the probe stands
  first,      \* bytes it read first
  second,     \* bytes it read second
  visible,    \* a scan saw a holder
  blind,      \* a scan could not trust the lock table
  attempt,    \* how often it re-observed
  report,     \* its last report
  proven      \* what the file held while lock-free since the probe began

slot == <<bytes, holder, pc, records>>
probe == <<step, first, second, visible, blind, attempt, report, proven>>
vars == <<slot, probe>>

NoReport == [state |-> "NONE", record |-> Empty, corrupt |-> FALSE]

Init ==
  /\ bytes = NoFile
  /\ holder = NoHolder
  /\ pc = [h \in Holders |-> "idle"]
  /\ records = 0
  /\ step = "idle"
  /\ first = Empty
  /\ second = Empty
  /\ visible = FALSE
  /\ blind = FALSE
  /\ attempt = 0
  /\ report = NoReport
  /\ proven = {}

-----------------------------------------------------------------------------
(* Holders.  What the file holds whenever nobody holds the lock is evidence  *)
(* the probe may claim.                                                      *)
Witness(known) ==
  proven' = IF holder' = NoHolder THEN known \union {bytes'} ELSE known

(* os.open creates the slot before anybody holds it. *)
Open(h) ==
  /\ pc[h] = "idle"
  /\ bytes' = IF bytes = NoFile THEN Empty ELSE bytes
  /\ pc' = [pc EXCEPT ![h] = "open"]
  /\ UNCHANGED <<holder, records>>

Lock_ignoresHolder(h) ==
  /\ pc[h] = "open"
  /\ holder' = h
  /\ pc' = [pc EXCEPT ![h] = "read"]
  /\ UNCHANGED <<bytes, records>>
Lock(h) ==
  /\ pc[h] = "open"
  /\ holder = NoHolder
  /\ holder' = h
  /\ pc' = [pc EXCEPT ![h] = "read"]
  /\ UNCHANGED <<bytes, records>>

(* A torn record fails closed; the lock goes with the descriptor. *)
ReadRecord(h) ==
  /\ pc[h] = "read"
  /\ IF bytes.form = "torn"
     THEN pc' = [pc EXCEPT ![h] = "idle"] /\ holder' = NoHolder
     ELSE pc' = [pc EXCEPT ![h] = "truncate"] /\ UNCHANGED holder
  /\ UNCHANGED <<bytes, records>>

Truncate(h) ==
  /\ pc[h] = "truncate"
  /\ bytes' = Empty
  /\ pc' = [pc EXCEPT ![h] = "write"]
  /\ UNCHANGED <<holder, records>>

(* A short write leaves a prefix of the record. *)
WriteShort(h) ==
  /\ pc[h] = "write"
  /\ records < MaxRecords
  /\ records' = records + 1
  /\ bytes' = [token |-> records + 1, form |-> "torn"]
  /\ pc' = [pc EXCEPT ![h] = "rest"]
  /\ UNCHANGED holder

Write(h) ==
  /\ \/ pc[h] = "write" /\ records < MaxRecords
     \/ pc[h] = "rest"
  /\ records' = IF pc[h] = "write" THEN records + 1 ELSE records
  /\ bytes' = [token |-> records', form |-> "valid"]
  /\ pc' = [pc EXCEPT ![h] = "hold"]
  /\ UNCHANGED holder

(* The run ends, or finds the lease busy, dies or raises at any point before. *)
Release(h) ==
  /\ pc[h] # "idle"
  /\ pc' = [pc EXCEPT ![h] = "idle"]
  /\ holder' = IF holder = h THEN NoHolder ELSE holder
  /\ UNCHANGED <<bytes, records>>

HolderStep ==
  /\ \E h \in Holders :
       \/ Open(h) \/ Lock(h) \/ ReadRecord(h) \/ Truncate(h)
       \/ WriteShort(h) \/ Write(h) \/ Release(h)
  /\ Witness(proven)
  /\ UNCHANGED <<step, first, second, visible, blind, attempt, report>>

-----------------------------------------------------------------------------
(* The probe *)

Report(state, record, corrupt) ==
  /\ report' = [state |-> state, record |-> record, corrupt |-> corrupt]
  /\ step' = "idle"

(* _parse_record_bytes: invalid bytes are no record. *)
Parsed(b) == IF b.form = "valid" THEN b ELSE Empty

Begin ==
  /\ step = "idle"
  /\ IF bytes = NoFile
     THEN Report("FREE", Empty, FALSE)
     ELSE step' = "first" /\ UNCHANGED report
  /\ attempt' = 0
  /\ visible' = FALSE /\ blind' = FALSE
  /\ UNCHANGED <<slot, first, second>>
  /\ Witness({})

Observe == UNCHANGED slot /\ Witness(proven)

ReadFirst ==
  /\ step = "first"
  /\ first' = bytes
  /\ step' = "before"
  /\ Observe
  /\ UNCHANGED <<second, visible, blind, attempt, report>>

(* _scan_flock_holder; the table may be unreadable, truncated or foreign. *)
Scan(here, there) ==
  /\ step = here
  /\ \/ visible' = (visible \/ holder # NoHolder) /\ UNCHANGED blind
     \/ blind' = TRUE /\ UNCHANGED visible
  /\ step' = there
  /\ Observe
  /\ UNCHANGED <<first, second, attempt, report>>

ScanBefore == Scan("before", "second")
ScanAfter == Scan("after", "decide")

ReadSecond ==
  /\ step = "second"
  /\ second' = bytes
  /\ step' = "after"
  /\ Observe
  /\ UNCHANGED <<first, visible, blind, attempt, report>>

Stable_unchecked == TRUE
Stable == first = second

(* A visible holder decides first, then a table that cannot be trusted, then *)
(* bytes that moved; only a stable lock-free slot is ABANDONED.              *)
Decide ==
  /\ step = "decide"
  /\ \/ visible /\ Report("LIVE", Parsed(second), FALSE)
     \/ ~visible /\ blind /\ Report("UNKNOWN", Parsed(second), FALSE)
     \/ ~visible /\ ~blind /\ Stable
          /\ Report("ABANDONED", Parsed(second), second.form = "torn")
     \/ ~visible /\ ~blind /\ ~Stable /\ attempt + 1 = ProbeAttempts
          /\ Report("UNKNOWN", Parsed(second), FALSE)
  /\ Observe
  /\ UNCHANGED <<first, second, visible, blind, attempt>>

Reobserve ==
  /\ step = "decide"
  /\ ~visible /\ ~blind /\ ~Stable /\ attempt + 1 < ProbeAttempts
  /\ attempt' = attempt + 1
  /\ step' = "first"
  /\ Observe
  /\ UNCHANGED <<first, second, visible, blind, report>>

Next ==
  \/ HolderStep
  \/ Begin \/ ReadFirst \/ ScanBefore \/ ReadSecond \/ ScanAfter
  \/ Decide \/ Reobserve

Spec == Init /\ [][Next]_vars

-----------------------------------------------------------------------------
(* Properties *)

(* Bytes reported as ABANDONED, a record or a corrupt one, were on disk      *)
(* while nobody held the lock, at some moment of this very probe: a write in *)
(* progress is never mistaken for a wedged slot.                             *)
AbandonedBytesAreProven ==
  [][report' # report /\ report'.state = "ABANDONED" /\ second' # Empty
       => second' \in proven']_vars

(* An invocation overwrites the record only while it alone holds the lock,   *)
(* and the record it leaves behind at the end of a write is its own.         *)
RecordBelongsToHolder ==
  \A h \in Holders : pc[h] = "hold" => holder = h /\ bytes = [token |-> records, form |-> "valid"]

=============================================================================
