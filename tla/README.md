# Verification of turtle-value-engine

TLA+ modules, TLC models and TLAPS proofs for the parts of `turtle-value-engine` that keep
state on disk: the unattended monitoring chain, which is killed and restarted by a scheduler
and must neither lose nor repeat what it does, and the activation of a rule profile, which
exchanges one configuration file under a signed authority.
Paths below are relative to `src/turtle_value_engine/` unless they start with `docs/`.

## 1. The system

The program turns company filings and market data into a deterministic valuation
report. Most of it is a pipeline of stateless functions over one input document
(`pipeline.py`, `gates/`, `calculations/`), fed by providers and frozen datasets.
Around that pipeline are services that keep state on disk:

```
scheduler -> runner (lease, activation, receipt)
               -> cycle (gate, acquisition, plan, commit, execution, result, alerts)
                    -> acquisition (window of the disclosure list) -> plan (cursors)
                    -> workspace (artifacts, commit proof, state pointer)
                    -> job executor (artifacts, attempts, latest pointer)
          -> delivery (intent, claims, attempts, state pointer) -> receiver
          -> status projections (read-only)

owner     -> trust root (numbered snapshots of a key registry)
          -> activate-profile / rollback-activation (journal, before-image, receipt)
               -> configuration file        -> activation status (read-only)
```

All of them use the same three kinds of file: artifacts that are created once and
compared on a second write, pointers that are replaced atomically, and locks that the
kernel drops with the process. There are no threads. What is hard is the order of
durable writes under crashes, several processes on one store, and inputs that change
between two invocations.

| Component | State it keeps | Operations | What is hard |
| --- | --- | --- | --- |
| delivery (`monitoring_delivery`) | intent, claims, attempts, published state, lock | `deliver`, status projection | death between claim and outcome, lost answers, retry budget, readers without the lock |
| runner (`monitoring_runner`) | intents, receipts, active and latest pointer, lease record | `run`, `status`, lease probe | resume of an unfinished activation, moved clock and edited inputs, torn lease record |
| cycle (`monitoring_cycle`) | spec, staged acquisition and plan, result, alerts | `run` | retry after a crash at any write, gate read early and used late |
| workspace (`monitoring/workspace.py`) | artifacts, commit proofs, state pointer | `commit_run`, `load_committed_run` | pointer last, fsync after the replacement |
| acquisition (`monitoring_acquisition`) | none | window, batch | days without a time, one page per query |
| planning (`monitoring/service.py`) | none (state goes in and comes out) | `run_monitoring` | cursors and late arrivals, changing watchlists, amended filings |
| job executor (`monitoring_execution`) | analysis artifacts, attempts, latest pointers | `execute`, `save`, `load_latest` | success without its pointer, shared analysis ids, two executors |
| operations projection (`monitoring_operations`) | none | read-only summary | reads of stores that move |
| activation (`evolution/activation_execution.py`) | journal, before-images, receipts, the config file | preview, apply, rollback | four durable steps, authority revoked in between, edits without the lock |
| activation status (`evolution/activation_status.py`) | none | read-only status | is what it tells the owner true after a crash |
| owner trust store (`evolution/owner_trust_store.py`) | chain of snapshots | init, enrol, revoke, rotate, reverify | two appends of one sequence number, torn files |
| evolution (rest) | documents | evaluation, dossiers | sequential and pure |
| providers, cache, filings | cache records, evidence files | fetch, read, append | age of a cached record |
| historical data | shards, objects, checkpoints | acquire, freeze, mirror | put-if-absent races |
| research | workspace of artifacts | sequential model calls | outcome only matters to the executor |
| pipeline, gates, calculations | none | pure | arithmetic |
| backtest | none beyond its workspace | sequential replay | arithmetic |
| surface, dashboard, scripts, deploy | none | read-only or operator tooling | out of scope |

`PROJECT.json` lists every component with its sources and status, and under `hazards`
each place where the code could go wrong in a way a test hardly reaches.

## 2. Modules

Each durable write is an action of its own, and between any two of them the process may
die (`Abort`, `Crash`, `Die`). A lock is a variable that a death clears, as `flock` is. Contents
are model values or small records; hashes are equality. An artifact that is created once
and compared is a variable that a second write must agree with.

| Module | Models | How it corresponds |
| --- | --- | --- |
| `MonitoringDelivery` | `MonitoringDeliveryService._deliver` and the ledger | one worker is one invocation; `claims`, `attempts`, `published` are the file families; `Derive` is `derive_delivery_state`; the receiver's effects are counted |
| `DeliveryContract` | the abstract promise of a delivery | no ledger, lock, invocation or death; `MonitoringDelivery` is shown to implement it |
| `DeliveryStatusReader` | `delivery_status_projection` | extends the delivery with a reader whose three loads are separate steps |
| `MonitoringRunner` | `MonitoringRunnerService.run` with store and lease record | an activation is its request (as_of, watchlist); the owner edits inputs at any time |
| `CycleSequence` | the order in which the runner runs cycles | the interface between `MonitoringRunner`, which is shown to implement it, and `MonitoringCycle`, which starts cycles by its `InTurn` |
| `RunnerLeaseProbe` | `RunnerLease.held`, `record`, `probe` | file bytes are a token and empty/torn/valid; reads and lock scans are separate steps |
| `ReanalysisJobs` | executor and job store | an execution is `Start`, outcome, artifact, attempt, pointer |
| `RequestDispositions` | what the gate reads of each request | the interface between `ReanalysisJobs`, whose executions are its answers where they do not overlap, and `MonitoringCycle`, which executes by its `Answers` |
| `MonitoringCycle` | `MonitoringCycleRunner.run`, `commit_run` | a run and its state are named by the cycle that planned them |
| `MonitoringPlan` | acquisition window, `map_filing_record_to_event`, `run_monitoring` over many cycles | time is half days of UTC; an event is its listing, date and version; the cursors and processed events are the committed state; `staged` is the batch of the runner's cycle or the operator's batch file, with the time of its acquisition |
| `OwnerTrustStore` | `owner_trust_store.py` append path | a snapshot is the sequence of registries its hash commits to; an incomplete file is the empty sequence |
| `ActivationExecution` | `apply_profile_activation`, `rollback_profile_activation` | extends the trust store; an invocation walks from the lock to the record; an activation is its receipt (bytes replaced, release, registry) |
| `ProfileSwitch` | the abstract promise of both | no lock, process, staging file or crash; `ActivationExecution` is shown to implement it |
| `ActivationStatus` | `activation_status.py` | `Status` is `_classify` over the same variables |
| `MonitoringDeliveryProofs`, `MonitoringRunnerProofs`, `MonitoringCycleProofs`, `ReanalysisJobsProofs`, `MonitoringPlanProofs`, `ProfileSwitchProofs`, `ActivationExecutionProofs`, `RunnerLeaseProbeProofs` | theorems | section 5 |

`MC*` modules give the constants that a `.cfg` cannot write, the symmetry sets and, where one
run explores several situations, the `scope` records among which a behaviour chooses at the
start. The runner sees a cycle as its terminal pair, the cycle sees an execution as the
disposition of a request, and sees a plan as the set of new events: `MonitoringCycle`,
`ReanalysisJobs` and `MonitoringPlan` open these one level down. Two of these seams are modules:
what `MonitoringCycle` takes for granted of the runner is `CycleSequence`, what it takes for granted of the
executor is `RequestDispositions`, and the models on the other side are proved to provide it.

## 3. Runs

| Run | Shows | Instance |
| --- | --- | --- |
| `delivery` | the refinement of `DeliveryContract`; dispatch budget, backoff, finality, at most one effect and no resend where no idempotency is declared, a delivery that is invoked again and again is settled | 2 invocations, both policies, 3 slots, 2 deaths, a receiver that may act and refuse |
| `status_reads` | the projection's evidence is consistent, quiet reads are clean | a reader beside 2 invocations, 2 deaths |
| `runner` | the store stays acceptable; cycles run in the order of `CycleSequence`: none is repeated, none starts while another waits for its result; what is started is finished | 2 wakes, 2 lists, 3 clocks, 1 death, 2 edits, torn lease records |
| `lease_probe` | bytes reported as abandoned were there while nobody held the lease; a record is its holder's | 2 holders, 3 records, the probe's 3 attempts |
| `jobs` | recorded successes load; what is settled stays settled and each execution is one answer of `RequestDispositions`; a job that is executed again and again gets an outcome | 3 jobs of one analysis id; 1 invocation at a time with 3 attempts and 2 deaths, or 2 that overlap |
| `jobs_reuse` | *violation*: a success behind an older pointer is repeated | 1 job |
| `cycle` | gate, proven pointer, no forgotten, repeated or silent event, no refused retry, every started cycle gets its result | 2 cycles, an urgent, a material and a minor event; 1 invocation with 2 deaths and failing writes; 2 without the lease; or 1 by hand, which leaves an interrupted cycle for another |
| `cycle_no_events` | *violation*: a crash fails a cycle without events | 2 cycles, 1 death |
| `plan` | nothing listed in time is stale, nothing is decided twice, no cursor passes an undecided filing, the runner's window is long enough for its schedule | 2 listings, up to 3 filings, 3 days, windows of 2 days and of 1; eight scopes (below) |
| `activation` | the refinement, the published trust root, the revocation, the status, the repeated activation | 2 invocations, 2 trust-root commands, 3 profiles, 3 snapshots; six scopes (below) |
| `activation_completed` | *violation*: the next activation is answered with the receipt of the last | 1 invocation, 2 releases |
| `trust_withdrawn` | *violation*: a snapshot reported as published is removed | 2 commands, 1 interrupted |

The violations are disagreements between the code and what its documents, comments or
messages say; `findings` in `PROJECT.json` quotes each sentence.

Each property of a passing run has a mutant, a change to a modelled definition that a plausible
mistake in the code would make and under which TLC finds the property violated.

**Bounds.** Two processes show every pairwise interleaving of a lock-protected store;
none of the files records more than one of them at a time. Three slots let a delivery meet
an orphan, a refused slot and the last of its budget in one behaviour. Two deaths reach
every "crash, repair, crash in the repair". Two points in time, two lists and two edits let
the inputs differ from the frozen ones and return to them. Two cycles let one be unfinished
when the other is due, and one build on the state that the other committed. Three days with two
halves each let a filing be listed on its day, after its day in Beijing while UTC still writes
it, and late, with a cursor before and after it; three filings of one listing let one listing be
far ahead of another. An `as_of` of the operator runs over the ends of those days, before and after
the acquisition. Three snapshots let one command find the number it wanted taken by
another's. `MaxAborts`, `MaxCrashes`, `MaxEdits`, `MaxPit`, `MaxRecords`, `MaxAttempts`,
`MaxFilings`, `Days`, `MaxSnapshots`, `MaxMishaps` and the numbers in the scopes are bounds of
the models only; the slots (`max_attempts`), the window and the limit of a query are bounds of
the code.

**Scopes.** A behaviour of `plan` is one of: the runner over amended and backdated filings;
the runner with a window of one day; the runner under a query limit that one listing exceeds; the
runner under two edits of the watchlist; the operator with the derived window and any `as_of` under
two edits, under the limit, and with a day that an `as_of` takes for over while it goes on; the
operator with one listing far ahead and no `as_of` ahead of the acquisition. A behaviour of `activation` is one of: two trust-root commands; two
invocations that meet at the lock; one invocation and one trust-root command; one invocation and
an owner who edits the file; one invocation that dies twice and is repeated; one invocation that
applies and rolls back three releases to the same bytes in succession. Those of `jobs` and
`cycle` are in the table. A scope only bounds who takes part: it never changes what a step does.

**Fairness.** An invocation that runs goes on (`WF`), unless it dies, which is bounded. Who starts the
next one differs. The timer wakes the runner (`WF` of a wake, the systemd unit). A cycle without a
result is run again (`SF`): the runner resumes an unfinished activation before any new one, although
between its wakes the step may be disabled. Nobody is assumed to start a delivery:
`watch unattended-notify` delivers the activation that its own runner call ended with
(`cli.py:3929-3942`), so a retry that an earlier activation left scheduled waits for an explicit
`watch deliver`. Nobody is assumed to start a job either: an exception from one request
leaves the execution loop of the cycle with a terminal `FAILED` (`monitoring_cycle/service.py:670-682`,
`373-390`), and the gate of the next cycle reports the requests that stayed open without executing them
(`280-289`); they wait for the owner's `execute-reanalysis`. Both liveness properties have "is started
again and again" in their antecedent instead. `plan` assumes that the timer starts the runner at
least once in any two half days (`Tick` waits for it) and that a started cycle of the runner is
concluded; no operator has to replay anything. `activation` assumes that the operator repeats an interrupted command (`SF`, since
the trust root is unreadable while another command writes). Nothing fair is assumed
of the receiver, of the owner's edits or of the source. Liveness is therefore conditional,
in the property itself: a delivery is settled if it is invoked again and again and its settings
finally stay those of its intent; an activation of the runner is finished if the inputs finally are the frozen ones and a torn record is
removed; a job that is executed again and again is concluded, unless it is refused for other artifact content again and again;
jobs and cycles only where no second executor or invocation overlaps; with a window of two days or more a timely filing is decided
unless a cycle that owed it failed or left its listing out; an interrupted profile activation gets
its receipt if nobody else runs commands, no file was torn, the bytes are those it knows and the authority is unchanged.

**Deadlock** is checked in every run except `plan` and the three of the activation, whose
behaviours end when the days, edits, deaths and snapshots of their scope are used up: an
invocation that has nothing left to do really stops there.

**The refinements.** `KeepsContract` is `DeliveryContract!Spec` under this mapping: the terms are the
intent on disk; what was sent are the entries of the transport; what is underway are the requests in
flight; what acted are the receiver's effects; it is honest while it refused nothing that it acted
on (`Truthful`); the verdict is the status in the delivery pointer once that is terminal. The
abstract `Send` demands terms, an open verdict and, without declared idempotency, that nothing acted
and nothing ever will; the abstract `Settle` demands that the verdict is true of what happened and of
what is still underway. So every entry of the transport and every published pointer is checked
against them, whichever invocation did it and however many died before. In the mutant any answer of
the receiver counts as a refusal.

`CyclesInSequence` is `CycleSequence!Spec` under this mapping: started are the activations whose
cycle was ever entered, ended those whose terminal pair is durable, running those of the wakes inside a
cycle. So an `Enter` is checked against what every earlier wake left behind, however it died.
The mutant never repairs an unfinished activation.

In `SettledStaysSettled` the disposition of each job, as the gate reads it through pointer and
attempts, is the variable of `RequestDispositions`: of the three writes of an execution exactly one is an
answer, and which one depends on whether there is a pointer yet.

`SwitchesSafely` is `ProfileSwitch!Spec` under this mapping: the file is
`config`; what is announced are the exchanges whose intent file is complete; what is secured
are the contents with a complete image; what is on record are the exchanges whose record file
exists, complete or torn; `meddled` is whether the owner has edited. `happened` is the history
variable `witnessed`. The abstract `Exchange` demands an announcement, a secured image and (until the owner
meddles) exactly the announced bytes, so every `os.replace` of every invocation is checked
against them. Its mutant takes the lock away.

## 4. Only model-checked

The six liveness properties: `EventuallySettled`, `StartedIsFinished`, `EveryJobConcluded`,
`CyclesTerminate`, `TimelyIsDecided` and `InterruptedIsFinished`. tlapm has no rules for fairness
here. Every other property of a passing run has its theorem in section 5.

## 5. Proofs

**The delivery.** `MonitoringDeliveryProofs` proves, for every number of invocations, slots and deaths, every
policy and both kinds of receiver, all the safety properties of the run `delivery`:

- `TypeCorrect`, `BudgetHolds`: `TypeOK` and `DispatchBudget`, from the invariant `Safe`.
- `LedgerAccepted`: `LedgerNeverConflicts`.
- `ContractAlwaysKept`: `Spec => KeepsContract`, the refinement of `DeliveryContract`: initial states
  map to initial states, and each action to a named abstract step or a stutter.
- `ContractSuffices`: whatever keeps the contract stays within its terms, acts once without declared
  idempotency, and publishes a verdict that remains true whatever arrives later.
- `VerdictAlwaysTrue`, `EffectAtMostOnce` (`AtMostOneEffect`): what the contract says of this system.
- `TerminalStands`, `UncertainNeverResent`, `BackoffWaited`: the action properties
  `TerminalIsFinal`, `NoResendAfterUncertainty` and `BackoffRespected`.

`DispatchBudget` alone is not inductive: that an entry is within the budget follows from the
claim saved before it. `Safe` therefore says that past the lock an invocation is alone
(`Exclusive`), that the claims on disk are `1..n` with `n <= max` (`ClaimsContiguous`, so that
the next slot is `Cardinality(claims) + 1`), that outcomes and work in progress belong to
claims (`SlotClaimed`), and that before each entry there is one claim not yet used
(`EntriesPaid`). The other properties need `Honest`, which adds what the durable files say of one
another and of the receiver: a terminal pointer is what the artifacts say and no pointer counts more attempts
than there are (`Pointing`); a saved outcome fits what happened to its request, and without declared idempotency
every slot but the newest is known to have failed (`Answered`); and per position what the
invocation knows (`Knows`: it decides on the state that is on disk, it enters an unused slot whose
wait is over, it saves an outcome that is true). The step that carries the weight is `SaveClaim`:
`OpenMeans` lists the only three reasons for which a derived state is open, and `DecidedToGo` what
each of them says of the older slots. The refinement needs one fact more: a batch with nothing to tell
has no claims, so that its `NOOP` is true (`NothingToTell`). The assumptions are those of
`MonitoringDelivery`: slots are natural numbers, policies lie within the configured types.
`NatLessThanWellFounded` gives the highest slot of a set, so that `LastAttempt` is a recorded
one.

The same module proves what the run `status_reads` checks of a projection that reads beside them:
`ReaderMeetsValidEvidence` (`ReaderEvidenceValid`) and `QuietReaderIsClean` (`QuietReadIsClean`). A
step of the reader leaves the ledger alone, so `Safe` and `Honest` hold beside it (`ReadingAlways`).
Attempts and claims are only added to, so the attempts that were listed first have their claims among those
listed later, but only because an attempt is saved after its claim: listing claims first is the
mutant. A quiet read adds that the three listings are those of one state of the ledger, of which
`Honest` says that its pointer is never ahead of the artifacts.

**The runner.** `MonitoringRunnerProofs` proves `TypeAlways`, `NeverConflicts`
(`StoreNeverConflicts`) and the refinement `CyclesAlwaysInSequence` (`Spec => CyclesInSequence`)
for every number of wakes, lists, clocks, deaths and edits. `CycleOnceAlways` says of the same steps that a
cycle is entered only for the one unfinished activation and only before its terminal pair;
`SequenceSuffices` and `OneCycleOpen` that at most one cycle is then ever open. The inductive invariant `Sound` says that past the lock there is one wake
(`Exclusive`), that at most one activation is unfinished and the active pointer names it
(`OneUnfinished`), that pointers bind what exists (`Bound`), that a cycle was entered only for an activation with an
intent (`Intended`, so that one without a result is among the unfinished), and what each position knows of the store
(`Local`): a wake that is about to write a receipt holds the terminal pair of the one unfinished
activation. Without the last part a receipt could be written for an activation whose cycle had not
ended; without the second a resume could pick another activation than the one that died.
The constants' assumptions are used, and that there are finitely many lists, so that the unfinished
activations can be counted.

**The lease.** `RunnerLeaseProbeProofs` proves `RecordAlwaysBelongs` (`RecordBelongsToHolder`) and
`AbandonedAlwaysProven` (`AbandonedBytesAreProven`) for every set of holders and every number of
records and attempts. `SlotInv` is the lease file: one holder is inside, and at each of its positions the file
holds what that position has written. `Observed`, `Remembered` and `Cleared` are the probe: what it read first is
still there, or is empty, or is *past* (`Past`: a token is drawn once and its record written once, so
such bytes never return); after a scan that saw the lock free, the first bytes were there when it
was free, or the second read will differ. The empty file is the exception in the property because it does
return: every holder truncates.

**The cycle.** `MonitoringCycleProofs` proves `TypeAlways`, `CommittedAlwaysProven`
(`CommittedIsProven`) and `QuietAlwaysTrue` (`QuietResultIsTrue`) for any number of invocations that
overlap and die, and, under the runner, `AlwaysResumable` (`NeverRefused`), `NeverSilent`
(`NoSilentEvents`), `GateAlwaysHolds` (`GateHolds`) and `CommitsAlwaysExtend` (`CommitsExtend`).
None of them is inductive, because what they rest on was decided several writes, and perhaps
several deaths, earlier. `Sound` has two halves. The first needs no lease: whatever is staged was
planned on a proven state that had no open request, and planning it again gives the staged plan
(`Planning`); so a retry that plans once more changes nothing that a proof or a pointer binds.
The second holds under the runner (`Ordering`): one cycle is unfinished (`OneUnfinished`), the current state is the one it
was staged on or the one its plan leads to (`Staged`), an invocation before its commit still
sees the current state (`Undisturbed`), and a verdict that is no failure tells every request that
matters (`Tells`). `CloseGate` shows why they belong together: a cycle that already planned never finds the
gate closed again, so the alerts of its own run cannot be replaced by those of the last one.

What "under the runner" means is not free to choose: a cycle starts when `CycleSequence!InTurn`
holds of it, which `CyclesAlwaysInSequence` proves of the runner. Each request is answered by
`RequestDispositions!Answers`, which `SettledAlwaysStays` proves of the executor where executions do not overlap;
an execution that raises may have answered any of its requests before. When the
owner's `execute-reanalysis` overlaps a cycle on one job, the single-answer view is an assumption.

**The jobs.** `ReanalysisJobsProofs` proves `TypeAlways`, `ResultsAlwaysLoadable`
(`ResultsAreLoadable`) and `SettledAlwaysStays` (`SettledStaysSettled`). An invocation past its artifacts
has them on disk, past its attempt its number is on disk (`Position`), whatever others append meanwhile.
Without overlap, who works or saves found no final outcome, and among the attempts of a job without a pointer only the
last may be final (`Lasting`): that is why the search for the highest number finds a success whose
pointer is missing. With an older pointer it does not, which is what `jobs_reuse` shows. That each write is an answer or
changes nothing for the gate needs two facts more (`Knowing`): a job whose impact asks for no work is never
left unresolved (`Fitting`), and without overlap the number an invocation has chosen is the next one,
respectively the last (`Numbered`), so that the pointer moves to the attempt just written.

**The plan.** `MonitoringPlanProofs` proves `TypeAlways`, `StaleAlwaysLate` (`StaleMeansLate`),
`DecidedOnceAlways` (`DecidedOnce`) and `PassedAlwaysDecided` (`PassedIsDecided`), for every watchlist,
number of days and filings, window, page limit, order of disclosures and `as_of` of a replay. The
inductive invariant `Sound` relates three things that the code keeps apart: what was decided, what a
listing remembers, and how far its cursor has moved. What was decided is remembered or was dropped
with its listing (`Remembered`). What a cursor passed is remembered, or lies before every window the
runner will still ask for (`Overtaken`): without the second case a filing that was decided, dropped
with its listing and left behind by the window would break it. A cursor never runs ahead of the days that
are over, except into a day that an operator's `as_of` took for over (`CursorsPast`, `DaysPast`). The
cursor moves to the latest decided day of a batch, so a batch must hold everything of its listings that was
listed in time up to that day (`BatchShape`, `BatchComplete`), and this is lost at the moment of planning
unless it is carried from the acquisition on. `Scheduled` says that the runner has a cycle in any two half
days, `Owing` that what the window of one of its cycles covered is decided, staged or spoiled, and
`Covering` that with a window of at least two days every day that was over at a cycle was covered: a
cycle in the first half of a day would otherwise start after a day that closed when the last cycle had run.

The theorem assumes nothing of the window or of the `as_of`; what these may cost is named in the property.
`Missed` is a day that no cycle had in its window after it was over, which happens with `window_days`
= 1 only. `premature` holds the days that a replay took for over before its batch had seen them end.
TLC finds `PassedIsDecided` violated without either. `Excused` in `StaleMeansLate` allows the operator,
in addition, to meet again what was decided before its listing was dropped; that this case occurs
needs more days or edits than the run has, and its safety rests on the proof. The assumptions say that the
scopes are well formed and that `None` is no record.

**The trust root.** Part 1 of `ActivationExecutionProofs` proves `GrantedStaysAlways`: `TrustSpec =>
[]GrantedStays` for every number of commands, keys, snapshots and mishaps. The inductive
invariant `TrustInv` adds to the types that a file which is not complete belongs to a command
that still stands at it, and no two commands stand at one file (`Owned`), and that as long as no
writer removed a file the complete files form one chain in which the granted ones lie
(`Rooted`). Without `Owned` a command could complete the file of another; without the chain a
granted snapshot could be complete and its parent not. The exception `withdrawn = {}` is
needed: `trust_withdrawn` is its counterexample.

**The activation.** Part 2 of `ActivationExecutionProofs` proves of `ActivationExecution`, for every number of
invocations, profiles, releases, commands, snapshots, edits and deaths:

- `TypeAlways`: `Spec => []TypeOK`.
- `ActivationGrantedStays`: the trust root inside the composition keeps its promise; each
  step either is a step of `OwnerTrustStore` or leaves it alone.
- `RevocationAlwaysBars`: `Spec => RevocationBars`. The registry read before the lock is the
  registry at the last check, because the chain has not moved (`RevocationIsLatest`, `LatestType`).
- `SwitchesSafelyAlways`: `Spec => SwitchesSafely`, the refinement of `ProfileSwitch`: initial
  states map to initial states and each action to a named abstract step or a stutter.
- `OneActivationOpen` and `RecordsAreTrue`: what `ProfileSwitchProofs` proves of every system of
  that kind (`OneOpenAlways`, `RecordIsTrueAlways`) holds of this one, by the refinement.

The refinement is not provable from the types: that the image is secured when the file is
exchanged, that an announced exchange is the one an invocation decided on under the lock, and
that the bytes under the lock are still the bytes it saw (while nobody edits) are all facts about what an
invocation did several steps before. `Inv` names them: the lock has one holder (`Exclusive`),
everything recorded or secured was announced (`Announced`), what happened was announced
(`Noticed`), and `Local(p)` says per position what invocation `p` knows (`Told`, `Attentive`,
`Decided`, `Sole`, `Intending`, `Keeping`, `Undisturbed`, `Done`). Assumed are the constants'
assumptions of both modules and nothing else. One of them is that a release changes the profile:
`evolution/profile_release.py:98` accepts as a target only the next version after the base.

**The status.** Part 3 of the same module proves `StatusAlwaysTrue`: `Spec => []StatusIsTrue`, for every
number of releases and invocations. `Status` is a chain of cases over the artifacts, and each case that the
property speaks of needs a fact about how the artifacts came to be. While nobody edits and no
file but a staged one is torn, `StoryInv` says: every activation starts from the first
configuration (`Grounded`), and the configuration is that one or the result of an announced
activation (`Reached`); what was in place has an image to return to (`Kept`); an unfinished activation
is in place or waits for the first configuration (`InOrder`); only what was recorded is rolled back
(`Earned`); and what was in place and is no more, or was announced a second time, has begun to be rolled
back (`Returned`, `Repeated`). `Grounded` is the surprising one: no activation starts from the result of another, because an
apply that finds such a result in place answers with its receipt (`activation_completed`). That
at most one activation is unfinished is `OneActivationOpen`, and that a record means an exchange is
`RecordsAreTrue`, both from the refinement. `Entitled` and `Alone` carry these over the steps between an
invocation's decision and its record. The property allows `AMBIGUOUS_HISTORY` when one of the
activations to the bytes in place has begun to be rolled back. That one is being rolled back at this moment
is not needed: with three releases to the same bytes, two of them rolled back and the first
rolled back before the second was applied, two receipts stay provable with no command
unfinished.

Out of the prover's reach are liveness, and everything that depends on the recursion in
recursively defined operators; neither occurs in a module with theorems.

## 6. Limits of the code that the models show

Where the code may do something a reader would not expect, the properties leave that case out by
name, and it is listed here.

- *Delivery.* With declared idempotency, a slot whose answer was lost is forgotten when a later
  one is refused: the published failure may hide an effect (the contract's verdict speaks of the case
  without). A status projection that runs beside a delivery may report a conflict on a sound ledger.
  A retry that an activation left scheduled is not attempted by later calls of `unattended-notify`,
  which deliver their own activation.
- *Runner.* With `as_of` pinned to X, to Y and to X again, the latest pointer names the older
  receipt. A torn lease record stops every later wake until an operator removes it; an empty one
  may be reported as abandoned although the lease was never free.
- *Cycle.* A commit whose last directory fsync fails is reported as failed although the pointer
  has moved. Two cycles that overlap outside the runner can lose a pointer update.
- *Jobs.* Requests behind one whose execution raises stay open: the cycle ends as `FAILED`, its result is
  reused from then on, and later cycles report them until the owner executes them. A retry whose analysis differs from what a dead invocation stored under the same
  analysis id is refused.
- *Plan.* A window with more filings than a page holds, or with an amended filing that was already
  processed, fails every cycle while it is in the window; afterwards a cursor passes the
  undecided filings silently. A listing that leaves the watchlist loses its processed events and
  they are decided again when it returns. A filing that is listed late is `STALE` by design.
  `derive_window_start_from_state` raises for a listing the state does not know: the operator has
  to give an explicit start. A replay at an `as_of` after the end of a day that was not over when its
  batch was acquired moves the cursor past what is still listed that day. `window_days` = 1 is accepted
  (`monitoring_runner/contracts.py:137`) although a day passes unseen when no cycle runs in the eight
  hours in which Beijing is a date ahead of UTC.
- *Trust root.* A command killed between create and write leaves an empty file that makes the
  root unreadable for good. A command that is interrupted removes a file that another may have
  reported as published (`trust_withdrawn`).
- *Activation.* Once an activation is finished and in place, every other apply is answered with
  its receipt (`activation_completed`). Two activations to the same bytes under different
  registries: the second, interrupted before its receipt, is never recorded. A receipt is
  finalized without looking at the before-image, so that bytes set by hand or restored by another rollback
  may be taken for an outcome whose image was never stored; "there is always an image to return to" is
  therefore no invariant. After a new trust snapshot an interrupted activation is refused
  although its error message says to rerun it. After several
  rollbacks to the same bytes the status may be `AMBIGUOUS_HISTORY` with nothing unfinished, although
  `docs/operations/profile-activation-executor.md:231` explains it by several unfinished intents. An
  edit between the last comparison and `os.replace` is overwritten. A file torn by a death is refused until somebody removes it.

## 7. Not modelled

- Arithmetic (valuation, gates, metrics) and data mappings: no state. `providers/akshare.py`
  alone, endpoint tables and field names, is 45 % of the lines of the package; the share of lines
  the modules translate is small for that reason and cannot become large.
- Rendering of reports, messages, dashboards and schemas; signatures and hashes.
- In the cycle: the grouping of events by listing, and two invocations of the *same* cycle at
  once, which the runner's lease excludes.
- In the plan: several sources per listing, amendments of anything but what enters the content hash, an
  explicit start of the operator's window or of the runner's, a pinned `as_of` of the runner, offline
  replay of cached answers.
- In the jobs: the four to six artifacts of one analysis are one write (`PersistArtifacts`), so a death
  between two of them is not told apart from one before or after all of them.
- In the activation: the bytes that an invocation reads and the configuration that its plan is derived
  from are one read (`Derive`); an edit that is undone in between is not told apart.
- The status reads of the activation are one step, and its property speaks of times when nobody
  holds the lock. Starvation of a repeated activation by other invocations is left out.
- `prior_resolver` of the executor: nothing under `src/` passes one.
- A file system that loses a synced write or reorders a rename before the fsync ahead of it.
- Historical data, backtest, research workflow, operations projection: see their notes in
  `PROJECT.json`.

## 8. Plan

1. `MonitoringDelivery`, `DeliveryStatusReader` and the proofs of the budget: done.
2. `MonitoringRunner`, `RunnerLeaseProbe`: done.
3. `ReanalysisJobs`, `MonitoringCycle` with the workspace: done.
4. `MonitoringPlan`: done.
5. `OwnerTrustStore`, `ActivationExecution`, `ProfileSwitch` and the refinement with its proof,
   `ActivationStatus`: done.
6. `UnattendedNotify`: runner and delivery composed; every alert batch is settled (the code
   retries only the activation its own runner call ended with).
7. `DeliveryContract`, `CycleSequence` and `RequestDispositions`, the abstract promises of the
   delivery, the runner and the executor, with the proofs that they are kept: done.
8. Proofs of the safety properties: done for every module.
9. The provider cache, the historical store and its mirror, the portfolio of
   the backtest, the monitoring operations projection.
