------------------------- MODULE MonitoringDelivery -------------------------
(***************************************************************************)
(* Durable delivery of one alert batch to one destination                  *)
(* (src/turtle_value_engine/monitoring_delivery, phases 6-D2B, R1, R2).    *)
(*                                                                         *)
(* Several invocations of `tve watch deliver` may run against one delivery *)
(* identity.  The ledger on disk holds an immutable intent, one immutable  *)
(* claim per dispatch slot, one immutable attempt per slot whose outcome   *)
(* was saved, and a replaceable state pointer derived from the other       *)
(* three.  A kernel lock per identity serialises the invocations; it goes  *)
(* with the process.  Every durable write is a step of its own, so that a  *)
(* process can stop before or after each of them.                          *)
(***************************************************************************)
EXTENDS Integers, FiniteSets

CONSTANTS
  Workers,          \* invocations of the delivery service
  NoWorker,         \* "nobody holds the lock"
  Settings,         \* policies an owner may configure for the destination
  MaxSlots,         \* upper end of every configured max_attempts
  Outboxes,         \* what the validated alert batch may hold: "alerts", "none"
  RejectAfterApply, \* the receiver may act on a request and answer 429/4xx/5xx
  MaxAborts         \* bound: how many invocations die or raise part-way

Slots == 1..MaxSlots

ASSUME NoWorkerAssumption == NoWorker \notin Workers
ASSUME SlotsAssumption == MaxSlots \in Nat
ASSUME FlagsAssumption == RejectAfterApply \in BOOLEAN
ASSUME AbortsAssumption == MaxAborts \in Nat
ASSUME SettingsAssumption ==
  Settings \subseteq [max : Slots, idem : BOOLEAN, base : Nat, cap : Nat]
ASSUME PowersAssumption == \A n \in Slots : 2^(n - 1) \in Nat

VARIABLES
  outbox,      \* what the alert batch of this delivery holds
  intent,      \* immutable intent on disk: the policy it was created with
  claims,      \* slots whose dispatch claim is on disk
  attempts,    \* per slot, the classification of the attempt on disk
  published,   \* the state pointer on disk
  wait,        \* seconds until retry_not_before of the newest attempt
  holder,      \* owner of the per-delivery kernel lock
  pc,          \* where each invocation stands in _deliver_locked
  config,      \* the policy each invocation was started with
  derived,     \* the state each invocation derived from its last read
  slot,        \* the dispatch slot each invocation claimed
  outcome,     \* the transport outcome each invocation holds in memory
  request,     \* per slot, where its request is on the wire or at the receiver
  entries,     \* how often any invocation entered the transport
  effects,     \* how often the receiver acted on a request
  aborts       \* how many invocations died or raised

ledger == <<intent, claims, attempts, published, wait>>
local == <<pc, config, derived, slot, outcome>>
world == <<outbox, request, entries, effects>>
vars == <<ledger, holder, local, world, aborts>>

-----------------------------------------------------------------------------
(* Contracts *)

Classes == {"DELIVERED", "RETRYABLE_FAILURE", "PERMANENT_FAILURE", "AMBIGUOUS"}
NoOutcome == "NONE"
Statuses == Classes \union {"PENDING", "NOOP"}

NoIntent == [max |-> 0, idem |-> FALSE, base |-> 0, cap |-> 0]

State(status, terminal, count, error, retry) ==
  [status |-> status, terminal |-> terminal, count |-> count,
   error |-> error, retry |-> retry]

NoState == State("MISSING", FALSE, 0, "NONE", FALSE)

(* Slots with a saved attempt, the highest of them, and the claims above it. *)
Recorded(att) == {s \in Slots : att[s] # NoOutcome}

LastAttempt(att) ==
  IF Recorded(att) = {} THEN 0
  ELSE CHOOSE s \in Recorded(att) : \A t \in Recorded(att) : t <= s

TailOrphans(cl, att) == {s \in cl : s > LastAttempt(att)}

(* Every durable claim consumes one position of max_attempts. *)
Spent(i, cl, att) == Cardinality(cl) >= i.max

(* A saved attempt schedules a retry when its outcome may be retried. *)
RetryScheduled_ambiguousToo(i, class) ==
  class \in {"RETRYABLE_FAILURE", "AMBIGUOUS"}
RetryScheduled(i, class) ==
  \/ class = "RETRYABLE_FAILURE"
  \/ class = "AMBIGUOUS" /\ i.idem

Backoff_uncapped(i, n) == i.base * 2^(n - 1)
Backoff(i, n) ==
  LET delay == i.base * 2^(n - 1) IN IF delay <= i.cap THEN delay ELSE i.cap

LastError(att) == IF Recorded(att) = {} THEN "NONE" ELSE "LAST_ATTEMPT"

(* Claims without an outcome above every saved attempt: the request of a     *)
(* dead invocation may have left.                                            *)
OrphanState_forgetsOrphan(i, cl, att) ==
  State("PENDING", FALSE, Cardinality(Recorded(att)), LastError(att), FALSE)
OrphanState(i, cl, att) ==
  IF i.idem /\ ~Spent(i, cl, att)
  THEN State("PENDING", FALSE, Cardinality(Recorded(att)), LastError(att), FALSE)
  ELSE State("AMBIGUOUS", TRUE, Cardinality(Recorded(att)), "ORPHANED_DISPATCH", FALSE)

(* The newest attempt decides. *)
OutcomeState(i, cl, att) ==
  LET class == att[LastAttempt(att)]
      retry == RetryScheduled(i, class) /\ ~Spent(i, cl, att)
  IN IF class = "RETRYABLE_FAILURE" /\ ~retry
     THEN State("PERMANENT_FAILURE", TRUE, Cardinality(Recorded(att)),
                "RETRIES_EXHAUSTED", FALSE)
     ELSE State(class, ~retry, Cardinality(Recorded(att)), "LAST_ATTEMPT", retry)

(* derive_delivery_state: a function of the immutable artifacts alone. *)
Derive(i, cl, att) ==
  IF outbox = "none" THEN State("NOOP", TRUE, 0, "NONE", FALSE)
  ELSE IF TailOrphans(cl, att) # {} THEN OrphanState(i, cl, att)
  ELSE IF Recorded(att) = {} THEN State("PENDING", FALSE, 0, "NONE", FALSE)
  ELSE OutcomeState(i, cl, att)

(* published_state_is_behind *)
Behind_fewerOnly(p, d) == p.count < d.count
Behind(p, d) ==
  \/ p.count < d.count
  \/ p.count = d.count /\ ~p.terminal

Repairable_orEqualOnly(p, d) == p \in {NoState, d}
Repairable(p, d) == p \in {NoState, d} \/ Behind(p, d)

(* list_claims and validate_dispatch_evidence: slots are contiguous, within  *)
(* the budget, and every attempt has its claim.                              *)
EvidenceValid ==
  /\ claims = 1..Cardinality(claims)
  /\ Cardinality(claims) <= intent.max
  /\ Recorded(attempts) \subseteq claims

-----------------------------------------------------------------------------
Init ==
  /\ outbox \in Outboxes
  /\ intent = NoIntent
  /\ claims = {}
  /\ attempts = [s \in Slots |-> NoOutcome]
  /\ published = NoState
  /\ wait = 0
  /\ holder = NoWorker
  /\ pc = [w \in Workers |-> "idle"]
  /\ config = [w \in Workers |-> NoIntent]
  /\ derived = [w \in Workers |-> NoState]
  /\ slot = [w \in Workers |-> 0]
  /\ outcome = [w \in Workers |-> NoOutcome]
  /\ request = [s \in Slots |-> "unsent"]
  /\ entries = 0
  /\ effects = 0
  /\ aborts = 0

(* What an invocation held in memory is gone and the kernel drops its lock. *)
Forget(w) ==
  /\ pc' = [pc EXCEPT ![w] = "idle"]
  /\ config' = [config EXCEPT ![w] = NoIntent]
  /\ derived' = [derived EXCEPT ![w] = NoState]
  /\ slot' = [slot EXCEPT ![w] = 0]
  /\ outcome' = [outcome EXCEPT ![w] = NoOutcome]
  /\ holder' = IF holder = w THEN NoWorker ELSE holder

(* An invocation builds its fresh intent from the settings of the day. *)
Start(w) ==
  /\ pc[w] = "idle"
  /\ \E i \in Settings : config' = [config EXCEPT ![w] = i]
  /\ pc' = [pc EXCEPT ![w] = "lock"]
  /\ UNCHANGED <<ledger, holder, derived, slot, outcome, world, aborts>>

(* flock(LOCK_EX | LOCK_NB) *)
Lock_ignoresHolder(w) ==
  /\ pc[w] = "lock"
  /\ holder' = w
  /\ pc' = [pc EXCEPT ![w] = "intent"]
  /\ UNCHANGED <<ledger, config, derived, slot, outcome, world, aborts>>
Lock(w) ==
  /\ pc[w] = "lock"
  /\ holder = NoWorker
  /\ holder' = w
  /\ pc' = [pc EXCEPT ![w] = "intent"]
  /\ UNCHANGED <<ledger, config, derived, slot, outcome, world, aborts>>

(* DELIVERY_BUSY: a live invocation holds the lock; this one does nothing. *)
Busy(w) ==
  /\ pc[w] = "lock"
  /\ holder # NoWorker
  /\ Forget(w)
  /\ UNCHANGED <<ledger, world, aborts>>

(* The first invocation persists the intent. *)
PersistIntent(w) ==
  /\ pc[w] = "intent"
  /\ intent = NoIntent
  /\ intent' = config[w]
  /\ pc' = [pc EXCEPT ![w] = "read"]
  /\ UNCHANGED <<claims, attempts, published, wait, holder, config, derived,
                 slot, outcome, world, aborts>>

(* A later one continues an intent with the same semantic payload. *)
VerifyIntent(w) ==
  /\ pc[w] = "intent"
  /\ intent = config[w]
  /\ pc' = [pc EXCEPT ![w] = "read"]
  /\ UNCHANGED <<ledger, holder, config, derived, slot, outcome, world, aborts>>

(* Changed settings: DELIVERY_LEDGER_CONFLICT. *)
RefuseIntent(w) ==
  /\ pc[w] = "intent"
  /\ intent \notin {NoIntent, config[w]}
  /\ Forget(w)
  /\ UNCHANGED <<ledger, world, aborts>>

(* List attempts and claims, validate them and derive the state.  The lock   *)
(* keeps the two listings consistent, so reading them is one step.  Invalid  *)
(* evidence raises, which is Abort.                                          *)
ReadLedger(w) ==
  /\ pc[w] \in {"read", "reread"}
  /\ EvidenceValid
  /\ derived' = [derived EXCEPT ![w] = Derive(intent, claims, attempts)]
  /\ pc' = [pc EXCEPT ![w] = IF pc[w] = "read" THEN "repair" ELSE "publish"]
  /\ UNCHANGED <<ledger, holder, config, slot, outcome, world, aborts>>

(* _validate_or_repair_state; a pointer that is neither missing, equal nor   *)
(* behind raises, which is Abort.                                            *)
RepairState(w) ==
  /\ pc[w] = "repair"
  /\ Repairable(published, derived[w])
  /\ published' = derived[w]
  /\ pc' = [pc EXCEPT ![w] = "decide"]
  /\ UNCHANGED <<intent, claims, attempts, wait, holder, config, derived, slot,
                 outcome, world, aborts>>

(* publish_state at the end of each turn of the loop. *)
PublishState(w) ==
  /\ pc[w] = "publish"
  /\ published' = derived[w]
  /\ pc' = [pc EXCEPT ![w] = "decide"]
  /\ UNCHANGED <<intent, claims, attempts, wait, holder, config, derived, slot,
                 outcome, world, aborts>>

(* A retry is scheduled and its time has not come. *)
TooEarly_never(w) == FALSE
TooEarly(w) == derived[w].retry /\ wait > 0

(* `while not state.terminal`, left also by the break. *)
Finish(w) ==
  /\ pc[w] = "decide"
  /\ derived[w].terminal \/ TooEarly(w)
  /\ Forget(w)
  /\ UNCHANGED <<ledger, world, aborts>>

(* The next turn takes the slot after every claim that was read. *)
NextSlot_reusesOrphan(cl, att) == Cardinality(Recorded(att)) + 1
NextSlot(cl, att) == Cardinality(cl) + 1

(* save_claim: durable before the transport may write a byte. *)
SaveClaim(w) ==
  LET s == NextSlot(claims, attempts) IN
  /\ pc[w] = "decide"
  /\ ~derived[w].terminal /\ ~TooEarly(w)
  /\ s <= intent.max
  /\ claims' = claims \union {s}
  /\ slot' = [slot EXCEPT ![w] = s]
  /\ pc' = [pc EXCEPT ![w] = "enter"]
  /\ UNCHANGED <<intent, attempts, published, wait, holder, config, derived,
                 outcome, world, aborts>>

(* transport.send fails before any request byte: honestly retryable. *)
FailBeforeDispatch(w) ==
  /\ pc[w] = "enter"
  /\ entries' = entries + 1
  /\ outcome' = [outcome EXCEPT ![w] = "RETRYABLE_FAILURE"]
  /\ pc' = [pc EXCEPT ![w] = "save"]
  /\ UNCHANGED <<ledger, holder, config, derived, slot, outbox, request,
                 effects, aborts>>

(* transport.send writes the request. *)
Dispatch(w) ==
  /\ pc[w] = "enter"
  /\ entries' = entries + 1
  /\ request' = [request EXCEPT ![slot[w]] = "inflight"]
  /\ pc' = [pc EXCEPT ![w] = "await"]
  /\ UNCHANGED <<ledger, holder, config, derived, slot, outcome, outbox, effects,
                 aborts>>

(* What transport.send may return once bytes have left: a 2xx only from a    *)
(* receiver that acted, a status refusal only from one that refused, and     *)
(* uncertainty (deadline, lost connection, unverified answer) at any time.   *)
Outcomes_acceptsAnyAnswer(s) ==
  {"AMBIGUOUS"} \union IF request[s] # "inflight" THEN {"DELIVERED"} ELSE {}
Outcomes(s) ==
  {"AMBIGUOUS"}
    \union IF request[s] = "applied" THEN {"DELIVERED"} ELSE {}
    \union IF request[s] \in {"refused", "applied_refused"}
           THEN {"RETRYABLE_FAILURE", "PERMANENT_FAILURE"} ELSE {}

Respond(w) ==
  /\ pc[w] = "await"
  /\ \E class \in Outcomes(slot[w]) : outcome' = [outcome EXCEPT ![w] = class]
  /\ pc' = [pc EXCEPT ![w] = "save"]
  /\ UNCHANGED <<ledger, holder, config, derived, slot, world, aborts>>

(* save_attempt *)
SaveAttempt(w) ==
  /\ pc[w] = "save"
  /\ attempts' = [attempts EXCEPT ![slot[w]] = outcome[w]]
  /\ wait' = IF RetryScheduled(intent, outcome[w]) THEN Backoff(intent, slot[w]) ELSE 0
  /\ pc' = [pc EXCEPT ![w] = "reread"]
  /\ outcome' = [outcome EXCEPT ![w] = NoOutcome]
  /\ UNCHANGED <<intent, claims, published, holder, config, derived, slot, world, aborts>>

(* The process dies, or any step of it raises: an unresolved endpoint, a     *)
(* full disk, a response the transport cannot parse, a clock that went back. *)
Abort(w) ==
  /\ aborts < MaxAborts
  /\ pc[w] # "idle"
  /\ aborts' = aborts + 1
  /\ Forget(w)
  /\ UNCHANGED <<ledger, world>>

(* The receiver meets a request whenever the network brings it, also after   *)
(* its sender is gone.                                                       *)
Receive(s) ==
  /\ request[s] = "inflight"
  /\ \E verdict \in {"applied", "refused"} \union
                    (IF RejectAfterApply THEN {"applied_refused"} ELSE {}) :
       /\ request' = [request EXCEPT ![s] = verdict]
       /\ effects' = effects + (IF verdict = "refused" THEN 0 ELSE 1)
  /\ UNCHANGED <<ledger, holder, local, outbox, entries, aborts>>

Tick ==
  /\ wait > 0
  /\ wait' = wait - 1
  /\ UNCHANGED <<intent, claims, attempts, published, holder, local, world, aborts>>

Work(w) ==
  \/ Lock(w) \/ Busy(w)
  \/ PersistIntent(w) \/ VerifyIntent(w) \/ RefuseIntent(w)
  \/ ReadLedger(w) \/ RepairState(w) \/ PublishState(w)
  \/ Finish(w) \/ SaveClaim(w)
  \/ FailBeforeDispatch(w) \/ Dispatch(w) \/ Respond(w)
  \/ SaveAttempt(w)

Next ==
  \/ \E w \in Workers : Start(w) \/ Work(w) \/ Abort(w)
  \/ \E s \in Slots : Receive(s)
  \/ Tick

Spec == Init /\ [][Next]_vars

(* An invocation that started runs on unless it dies, and time passes.       *)
(* Nothing is assumed of the receiver, nor of who invokes the delivery: the  *)
(* unattended notification delivers only the activation that its own runner  *)
(* call ended with.                                                          *)
Fairness ==
  /\ \A w \in Workers : WF_vars(Work(w))
  /\ WF_vars(Tick)

FairSpec == Spec /\ Fairness

-----------------------------------------------------------------------------
(* Properties *)

StateRecords ==
  [status : Statuses \union {"MISSING"}, terminal : BOOLEAN, count : 0..MaxSlots,
   error : {"NONE", "LAST_ATTEMPT", "ORPHANED_DISPATCH", "RETRIES_EXHAUSTED"},
   retry : BOOLEAN]

Positions == {"idle", "lock", "intent", "read", "repair", "decide", "enter",
              "await", "save", "reread", "publish"}

(* Every variable keeps its type; the scheduled wait never exceeds the       *)
(* configured backoff cap (backoff_seconds).                                 *)
TypeOK ==
  /\ intent \in Settings \union {NoIntent}
  /\ claims \subseteq Slots
  /\ attempts \in [Slots -> Classes \union {NoOutcome}]
  /\ published \in StateRecords
  /\ wait \in 0..intent.cap
  /\ holder \in Workers \union {NoWorker}
  /\ pc \in [Workers -> Positions]
  /\ config \in [Workers -> Settings \union {NoIntent}]
  /\ derived \in [Workers -> StateRecords]
  /\ slot \in [Workers -> 0..MaxSlots]
  /\ outcome \in [Workers -> Classes \union {NoOutcome}]
  /\ request \in [Slots -> {"unsent", "inflight", "applied", "refused", "applied_refused"}]
  /\ entries \in Nat
  /\ effects \in Nat
  /\ aborts \in Nat

(* One possible outbound dispatch consumes exactly one durable budget slot:  *)
(* over the life of the ledger the transport is entered at most max_attempts *)
(* times, whatever dies between a claim and its outcome.                     *)
DispatchBudget ==
  /\ entries <= Cardinality(claims)
  /\ Cardinality(claims) <= intent.max

(* A pointer on disk is always one that the next invocation accepts: equal   *)
(* to what the artifacts say, or behind it.  No crash or interleaving makes  *)
(* _validate_or_repair_state raise DELIVERY_LEDGER_CONFLICT.                 *)
LedgerNeverConflicts ==
  /\ EvidenceValid
  /\ \A w \in Workers : pc[w] = "repair" => Repairable(published, derived[w])

(* Once a terminal state is published nothing of this delivery happens       *)
(* again: no transport entry, no claim, no attempt, no other state.          *)
TerminalIsFinal ==
  [][published.terminal => UNCHANGED <<intent, claims, attempts, published, entries>>]_vars

(* Without declared receiver idempotency the transport is entered again only *)
(* when every earlier entry is durably known not to have been delivered.     *)
NoResendAfterUncertainty ==
  [][entries' # entries /\ ~intent.idem
       => \A s \in claims : s < Cardinality(claims) => attempts[s] = "RETRYABLE_FAILURE"]_vars

(* The receiver has refused nothing that it acted on. *)
Truthful == \A s \in Slots : request[s] # "applied_refused"

(* A receiver whose refusals are truthful acts at most once on a delivery    *)
(* that does not declare idempotency, crashes and late requests included.    *)
AtMostOneEffect == ~intent.idem /\ Truthful => effects <= 1

(* The delivery keeps its contract: whatever dies or competes, requests leave *)
(* only within the agreed terms, and one true verdict is published for good. *)
Contract == INSTANCE DeliveryContract WITH
  Terms <- Settings,
  NoTerms <- NoIntent,
  Requests <- Slots,
  terms <- intent,
  sent <- entries,
  underway <- {s \in Slots : request[s] = "inflight"},
  acted <- effects,
  honest <- Truthful,
  verdict <- IF published.terminal THEN published.status ELSE "OPEN"
KeepsContract == Contract!Spec

(* The transport is entered for a resolved retry only when its backoff has   *)
(* passed, also by an invocation that did not see the failure itself.        *)
BackoffRespected ==
  [][entries' # entries
       => \/ wait = 0
          \/ \E s \in claims : s < Cardinality(claims) /\ s > LastAttempt(attempts)]_vars

(* A delivery that is invoked again and again reaches a published terminal   *)
(* state, once the owner leaves its settings as they were (a changed policy  *)
(* is refused), whatever dies and whatever the receiver answers.             *)
EventuallySettled ==
  /\ []<><<\E w \in Workers : Start(w)>>_vars
  /\ <>[](\A w \in Workers : config[w] \in {NoIntent, intent})
  => <>[](published.terminal)

=============================================================================
