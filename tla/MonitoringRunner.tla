-------------------------- MODULE MonitoringRunner --------------------------
(***************************************************************************)
(* The unattended runner (src/turtle_value_engine/monitoring_runner, phase *)
(* 6-D2A): one invocation per scheduler wake, under an exclusive lease,    *)
(* finishes the unfinished activation of this runner or creates one, runs  *)
(* its cycle, and publishes a receipt.                                     *)
(*                                                                         *)
(* On disk: immutable activation intents and receipts, the active and the  *)
(* latest pointer, the lease record.  The cycle is its durable terminal    *)
(* pair; module MonitoringCycle opens it.  Each durable write is a step.   *)
(***************************************************************************)
EXTENDS Integers, FiniteSets

CONSTANTS
  Wakes,         \* invocations of the runner
  NoWake,        \* "nobody holds the lease"
  Lists,         \* contents the watchlist file may have
  Caches,        \* acquisition settings that enter the fingerprint only
  Pins,          \* values the owner may give config.as_of; Clock is None
  MaxPit,        \* bound: points in time the wall clock passes
  NoActivation,  \* an empty pointer
  NoIntent,      \* no intent on disk for an activation
  NoList,        \* an invocation has loaded no watchlist
  DiskFills,     \* the lease record may be written only partly
  MaxAborts,     \* bound: how many invocations die or raise part-way
  MaxEdits       \* bound: how often the owner edits watchlist or config

Pits == 1..MaxPit
Clock == 0  \* config.as_of is None: the wall clock decides

\* An activation is named by its request: the point in time and the watchlist.
Activations == [pit : Pits, list : Lists]
Inputs == [list : Lists, cache : Caches, pin : Pins]

ASSUME NoWakeAssumption == NoWake \notin Wakes
ASSUME NoActivationAssumption == NoActivation \notin Activations
ASSUME NoIntentAssumption == NoIntent \notin Caches
ASSUME NoListAssumption == NoList \notin Lists
ASSUME BoundsAssumption ==
  /\ MaxPit \in Nat \ {0} /\ MaxAborts \in Nat /\ MaxEdits \in Nat
  /\ DiskFills \in BOOLEAN
ASSUME PinsAssumption == Pins \subseteq Pits \union {Clock}
ASSUME FiniteAssumption == IsFiniteSet(Lists)

VARIABLES
  intents,   \* per activation, the acquisition settings its intent fingerprints
  receipts,  \* per activation, the rank of its receipt in time; 0 if there is none
  active,    \* active pointer
  latest,    \* latest pointer
  lease,     \* bytes of the lease record: empty, torn or valid
  terminal,  \* activations whose cycle has a durable terminal pair
  holder,    \* owner of the kernel lock on the lease file
  pc,        \* where each invocation stands in run()
  job,       \* the activation each invocation works on
  loaded,    \* the watchlist each invocation hands to the cycle
  inputs,    \* the owner's files: watchlist, acquisition settings, as_of
  now,       \* wall clock
  entered,   \* per activation, how often the cycle was entered for it
  aborts,    \* how many invocations died or raised
  edits      \* how often the owner edited the inputs

store == <<intents, receipts, active, latest>>
local == <<pc, job, loaded>>
environment == <<inputs, now, aborts, edits>>
vars == <<store, lease, terminal, holder, local, environment, entered>>

Finished(i) == receipts[i] # 0
Unfinished == {i \in Activations : intents[i] # NoIntent /\ ~Finished(i)}

-----------------------------------------------------------------------------
Init ==
  /\ intents = [i \in Activations |-> NoIntent]
  /\ receipts = [i \in Activations |-> 0]
  /\ active = NoActivation
  /\ latest = NoActivation
  /\ lease = "empty"
  /\ terminal = {}
  /\ holder = NoWake
  /\ pc = [w \in Wakes |-> "idle"]
  /\ job = [w \in Wakes |-> NoActivation]
  /\ loaded = [w \in Wakes |-> NoList]
  /\ inputs \in Inputs
  /\ now = 1
  /\ entered = [i \in Activations |-> 0]
  /\ aborts = 0
  /\ edits = 0

(* The invocation ends; the kernel drops its lock with the descriptor. *)
End(w) ==
  /\ pc' = [pc EXCEPT ![w] = "idle"]
  /\ job' = [job EXCEPT ![w] = NoActivation]
  /\ loaded' = [loaded EXCEPT ![w] = NoList]
  /\ holder' = IF holder = w THEN NoWake ELSE holder

Goto(w, position) == pc' = [pc EXCEPT ![w] = position]

(* The scheduler fires. *)
Wake(w) ==
  /\ pc[w] = "idle"
  /\ Goto(w, "lock")
  /\ UNCHANGED <<store, lease, terminal, holder, job, loaded, environment, entered>>

(* held(): flock first, then the record must be empty or canonical. *)
Acquire_ignoresHolder(w) ==
  /\ pc[w] = "lock"
  /\ lease # "torn"
  /\ holder' = w
  /\ Goto(w, "settle")
  /\ UNCHANGED <<store, lease, terminal, job, loaded, environment, entered>>
Acquire(w) ==
  /\ pc[w] = "lock"
  /\ holder = NoWake
  /\ lease # "torn"
  /\ holder' = w
  /\ Goto(w, "settle")
  /\ UNCHANGED <<store, lease, terminal, job, loaded, environment, entered>>

(* LEASE_BUSY, or a corrupt abandoned record: fail closed. *)
Refuse(w) ==
  /\ pc[w] = "lock"
  /\ holder # NoWake \/ lease = "torn"
  /\ End(w)
  /\ UNCHANGED <<store, lease, terminal, environment, entered>>

(* What _settle_and_resolve insists on before it touches anything; a store   *)
(* that fails it raises a state conflict, which is Abort.                    *)
StoreAccepted ==
  /\ latest # NoActivation => Finished(latest)
  /\ Cardinality(Unfinished) <= 1

(* The active slot names an activation without a receipt: resume it. *)
ResumeActive(w) ==
  /\ pc[w] = "settle"
  /\ active \in Unfinished
  /\ StoreAccepted
  /\ job' = [job EXCEPT ![w] = active]
  /\ Goto(w, "verify")
  /\ UNCHANGED <<store, lease, terminal, holder, loaded, environment, entered>>

(* _settle_finished: the receipt of the active activation is published again. *)
SettleLatest(w) ==
  /\ pc[w] = "settle"
  /\ active \notin Unfinished \union {NoActivation}
  /\ StoreAccepted
  /\ latest' = active
  /\ Goto(w, "settled")
  /\ UNCHANGED <<intents, receipts, active, lease, terminal, holder, job, loaded,
                 environment, entered>>

SettleActive(w) ==
  /\ pc[w] = "settled"
  /\ active' = NoActivation
  /\ Goto(w, "resolve")
  /\ UNCHANGED <<intents, receipts, latest, lease, terminal, holder, job, loaded,
                 environment, entered>>

(* An intent was persisted but never made active: adopt it. *)
Orphans == Unfinished

AdoptOrphan(w) ==
  /\ \/ pc[w] = "settle" /\ active = NoActivation
     \/ pc[w] = "resolve"
  /\ StoreAccepted
  /\ \E i \in Orphans :
       /\ active' = i
       /\ job' = [job EXCEPT ![w] = i]
  /\ Goto(w, "verify")
  /\ UNCHANGED <<intents, receipts, latest, lease, terminal, holder, loaded,
                 environment, entered>>

(* resolve_runner_spec: the configured point in time, or the wall clock. *)
Requested ==
  [pit |-> IF inputs.pin = Clock THEN now ELSE inputs.pin, list |-> inputs.list]

MayResolve(w) ==
  /\ \/ pc[w] = "settle" /\ active = NoActivation
     \/ pc[w] = "resolve"
  /\ StoreAccepted
  /\ Orphans = {}

(* The same request has a receipt: reuse it. *)
Reuse(w) ==
  /\ MayResolve(w)
  /\ Finished(Requested)
  /\ job' = [job EXCEPT ![w] = Requested]
  /\ Goto(w, "reuse")
  /\ UNCHANGED <<store, lease, terminal, holder, loaded, environment, entered>>

(* save_intent *)
Create(w) ==
  /\ MayResolve(w)
  /\ ~Finished(Requested)
  /\ intents' = [intents EXCEPT ![Requested] = inputs.cache]
  /\ job' = [job EXCEPT ![w] = Requested]
  /\ Goto(w, "activate")
  /\ UNCHANGED <<receipts, active, latest, lease, terminal, holder, loaded,
                 environment, entered>>

(* set_active *)
Activate(w) ==
  /\ pc[w] = "activate"
  /\ active' = job[w]
  /\ Goto(w, "reload")
  /\ UNCHANGED <<intents, receipts, latest, lease, terminal, holder, job, loaded,
                 environment, entered>>

(* A fresh activation loads the watchlist a second time, unverified. *)
Reload(w) ==
  /\ pc[w] = "reload"
  /\ loaded' = [loaded EXCEPT ![w] = inputs.list]
  /\ Goto(w, "record")
  /\ UNCHANGED <<store, lease, terminal, holder, job, environment, entered>>

(* _verify_fingerprint of a resumed activation *)
Matches(i) == inputs.list = i.list /\ inputs.cache = intents[i]

Verify_resolvesAgain(w) ==
  /\ pc[w] = "verify"
  /\ Matches(job[w]) /\ job[w] = Requested
  /\ loaded' = [loaded EXCEPT ![w] = inputs.list]
  /\ Goto(w, "record")
  /\ UNCHANGED <<store, lease, terminal, holder, job, environment, entered>>
Verify(w) ==
  /\ pc[w] = "verify"
  /\ Matches(job[w])
  /\ loaded' = [loaded EXCEPT ![w] = inputs.list]
  /\ Goto(w, "record")
  /\ UNCHANGED <<store, lease, terminal, holder, job, environment, entered>>

RefuseInputs(w) ==
  /\ pc[w] = "verify"
  /\ ~Matches(job[w])
  /\ End(w)
  /\ UNCHANGED <<store, lease, terminal, environment, entered>>

(* LeaseHandle.record: truncate, then write. *)
Truncate(w) ==
  /\ pc[w] = "record"
  /\ lease' = "empty"
  /\ Goto(w, "stamp")
  /\ UNCHANGED <<store, terminal, holder, job, loaded, environment, entered>>

Stamp(w) ==
  /\ pc[w] = "stamp"
  /\ lease' = "valid"
  /\ Goto(w, "cycle")
  /\ UNCHANGED <<store, terminal, holder, job, loaded, environment, entered>>

(* A short write and no space for the rest: the record stays torn. *)
StampTorn(w) ==
  /\ DiskFills
  /\ pc[w] = "stamp"
  /\ lease' = "torn"
  /\ End(w)
  /\ UNCHANGED <<store, terminal, environment, entered>>

(* The cycle already has its terminal pair: only the receipt is missing. *)
MayRepair_never(i) == FALSE
MayRepair(i) == i \in terminal

Repair(w) ==
  /\ pc[w] = "cycle"
  /\ MayRepair(job[w])
  /\ Goto(w, "receipt")
  /\ UNCHANGED <<store, lease, terminal, holder, job, loaded, environment, entered>>

(* d1.run_cycle, which takes only the watchlist its request names. *)
EnterCycle(w) ==
  /\ pc[w] = "cycle"
  /\ ~MayRepair(job[w])
  /\ loaded[w] = job[w].list
  /\ entered' = [entered EXCEPT ![job[w]] = @ + 1]
  /\ Goto(w, "running")
  /\ UNCHANGED <<store, lease, terminal, holder, job, loaded, environment>>

(* _validate_scope raises: the watchlist changed between the two loads. *)
RefuseScope(w) ==
  /\ pc[w] = "cycle"
  /\ ~MayRepair(job[w])
  /\ loaded[w] # job[w].list
  /\ End(w)
  /\ UNCHANGED <<store, lease, terminal, environment, entered>>

(* The cycle publishes its terminal pair. *)
FinishCycle(w) ==
  /\ pc[w] = "running"
  /\ terminal' = terminal \union {job[w]}
  /\ Goto(w, "receipt")
  /\ UNCHANGED <<store, lease, holder, job, loaded, environment, entered>>

(* publish_receipt: the immutable receipt, ranked by its completed_at ... *)
SaveReceipt(w) ==
  /\ pc[w] = "receipt"
  /\ ~Finished(job[w])
  /\ receipts' = [receipts EXCEPT ![job[w]] =
                    Cardinality({i \in Activations : Finished(i)}) + 1]
  /\ Goto(w, "latest")
  /\ UNCHANGED <<intents, active, latest, lease, terminal, holder, job, loaded,
                 environment, entered>>

(* ... then the latest pointer; a reuse publishes the receipt it found, and  *)
(* needs the terminal pair.                                                  *)
PointLatest_beforeReceipt(w) ==
  /\ \/ pc[w] \in {"latest", "receipt"}
     \/ pc[w] = "reuse" /\ job[w] \in terminal
  /\ latest' = job[w]
  /\ Goto(w, "clear")
  /\ UNCHANGED <<intents, receipts, active, lease, terminal, holder, job, loaded,
                 environment, entered>>
PointLatest(w) ==
  /\ \/ pc[w] = "latest"
     \/ pc[w] = "reuse" /\ job[w] \in terminal
  /\ latest' = job[w]
  /\ Goto(w, "clear")
  /\ UNCHANGED <<intents, receipts, active, lease, terminal, holder, job, loaded,
                 environment, entered>>

(* clear_active, and the run returns. *)
ClearActive(w) ==
  /\ pc[w] = "clear"
  /\ active' = NoActivation
  /\ End(w)
  /\ UNCHANGED <<intents, receipts, latest, lease, terminal, environment, entered>>

(* The process dies, or a write or the cycle raises. *)
Abort(w) ==
  /\ aborts < MaxAborts
  /\ pc[w] # "idle"
  /\ aborts' = aborts + 1
  /\ End(w)
  /\ UNCHANGED <<store, lease, terminal, inputs, now, edits, entered>>

(* The owner changes watchlist, acquisition settings or as_of at any time. *)
Edit ==
  /\ edits < MaxEdits
  /\ edits' = edits + 1
  /\ inputs' \in Inputs \ {inputs}
  /\ UNCHANGED <<store, lease, terminal, holder, local, now, aborts, entered>>

Tick ==
  /\ now < MaxPit
  /\ now' = now + 1
  /\ UNCHANGED <<store, lease, terminal, holder, local, inputs, aborts, edits, entered>>

Work(w) ==
  \/ Acquire(w) \/ Refuse(w)
  \/ ResumeActive(w) \/ SettleLatest(w) \/ SettleActive(w) \/ AdoptOrphan(w)
  \/ Reuse(w) \/ Create(w) \/ Activate(w) \/ Reload(w)
  \/ Verify(w) \/ RefuseInputs(w)
  \/ Truncate(w) \/ Stamp(w)
  \/ Repair(w) \/ EnterCycle(w) \/ RefuseScope(w) \/ FinishCycle(w)
  \/ SaveReceipt(w) \/ PointLatest(w) \/ ClearActive(w)

Next ==
  \/ \E w \in Wakes : Wake(w) \/ Work(w) \/ StampTorn(w) \/ Abort(w)
  \/ Edit
  \/ Tick

Spec == Init /\ [][Next]_vars

(* The timer keeps firing and a live invocation runs on; the cycle returns,  *)
(* its acquisition having a timeout.  Nothing is assumed of owner or clock.  *)
Fairness == \A w \in Wakes : WF_vars(Wake(w)) /\ WF_vars(Work(w))

FairSpec == Spec /\ Fairness

-----------------------------------------------------------------------------
(* Properties *)

Positions == {"idle", "lock", "settle", "settled", "resolve", "reuse", "activate",
              "reload", "verify", "record", "stamp", "cycle", "running",
              "receipt", "latest", "clear"}

(* Every variable keeps its type; the cycle of an activation is entered once *)
(* more than invocations died at most.                                       *)
TypeOK ==
  /\ intents \in [Activations -> Caches \union {NoIntent}]
  /\ receipts \in [Activations -> Nat]
  /\ active \in Activations \union {NoActivation}
  /\ latest \in Activations \union {NoActivation}
  /\ lease \in {"empty", "torn", "valid"}
  /\ terminal \subseteq Activations
  /\ holder \in Wakes \union {NoWake}
  /\ pc \in [Wakes -> Positions]
  /\ job \in [Wakes -> Activations \union {NoActivation}]
  /\ loaded \in [Wakes -> Lists \union {NoList}]
  /\ inputs \in Inputs
  /\ now \in Pits
  /\ entered \in [Activations -> 0..(aborts + 1)]
  /\ aborts \in Nat /\ edits \in Nat

(* No crash and no overlap leaves a store that the next wake refuses with a  *)
(* state conflict (_settle_and_resolve, save_intent, publish_receipt): at    *)
(* most one activation is unfinished, and no other one is active; the latest *)
(* pointer binds a receipt, the active pointer binds an intent, a receipt    *)
(* has its terminal pair, and no invocation is about to write an intent or a *)
(* receipt that exists, or to derive a new activation beside an old one.     *)
StoreNeverConflicts ==
  /\ StoreAccepted
  /\ active # NoActivation => intents[active] # NoIntent
  /\ active # NoActivation /\ Unfinished # {} => Unfinished = {active}
  /\ \A i \in Activations : Finished(i) => i \in terminal /\ intents[i] # NoIntent
  /\ \A w \in Wakes : pc[w] = "resolve" => Unfinished = {}
  /\ \A w \in Wakes : pc[w] = "receipt" => ~Finished(job[w])

(* What the runner guarantees the cycle: one runs at a time, one that was    *)
(* left without its result comes before any other, and none is entered again *)
(* once its terminal pair is durable, so that a lost receipt is repaired     *)
(* without repeating provider or model work.                                 *)
Sequence == INSTANCE CycleSequence WITH
  Cycles <- Activations,
  started <- {i \in Activations : entered[i] # 0},
  ended <- terminal,
  running <- {job[w] : w \in {v \in Wakes : pc[v] = "running"}}

CyclesInSequence == Sequence!Spec

(* With the inputs it froze restored and a readable lease record, every      *)
(* activation that was started ends with a receipt.                          *)
StartedIsFinished ==
  \A i \in Activations :
    <>[](Matches(i) /\ lease # "torn") => (intents[i] # NoIntent ~> Finished(i))

=============================================================================
