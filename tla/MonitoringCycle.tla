--------------------------- MODULE MonitoringCycle ---------------------------
(***************************************************************************)
(* The synchronous monitoring cycle (phase 6-D1,                           *)
(* src/turtle_value_engine/monitoring_cycle) over the monitoring workspace *)
(* of phase 6-A (monitoring/workspace.py, monitoring/service.py): gate on  *)
(* the current committed run, acquire events, plan a run, commit it behind *)
(* the state pointer, execute its requests, publish a terminal result with *)
(* its alerts.  Every durable write is a step; an invocation may die or a  *)
(* write may raise at each of them, and the cycle is run again.            *)
(*                                                                         *)
(* A run is named by the cycle that planned it, and so is the state it     *)
(* commits; module ReanalysisJobs opens the execution of a request.  Each  *)
(* event is of a listing of its own.  Cursors and the point-in-time        *)
(* boundary are part of the choice of the events a cycle acquires.         *)
(***************************************************************************)
EXTENDS Naturals

CONSTANTS
  Procs,       \* invocations of the cycle
  Cycles,      \* cycle specifications
  Events,      \* monitoring events
  Minor,       \* those whose impact is NO_REANALYSIS
  Urgent,      \* those whose impact is URGENT_MANUAL_REVIEW
  None,        \* no state, no artifact, no cycle
  Initial,     \* the empty state of a watchlist, which a run may commit
  Scopes       \* bounds: the invocations and events of a behaviour, how many
               \* invocations die, and whether the runner orders them

(* The states of a workspace, and what a cycle can end with. *)
States == Cycles \union {Initial, None}
Verdicts ==
  [status : {"FAILED", "ATTENTION_REQUIRED", "ALERTS_EMITTED", "NO_CHANGE"},
   code : {"NONE", "LOWER_LEVEL_INELIGIBLE", "UNRESOLVED_CURRENT_RUN", "ACQUISITION_FAILED",
           "MONITORING_COMMIT_FAILED", "EXECUTION_ATTENTION_REQUIRED"},
   alerted : SUBSET Events]

ASSUME NamesAssumption == None \notin Cycles /\ Initial \notin Cycles /\ None # Initial
ASSUME ImpactAssumption == Minor \union Urgent \subseteq Events /\ Minor \intersect Urgent = {}
ASSUME NoneAssumption ==
  /\ None \notin [prior : States, batch : SUBSET Events]
  /\ None \notin [next : States \ {None}, new : SUBSET Events, all : SUBSET Events]
  /\ None \notin Verdicts
ASSUME ScopeAssumption ==
  /\ Scopes \subseteq [procs : SUBSET Procs, events : SUBSET Events, crashes : Nat,
                       ordered : BOOLEAN]
  /\ \A s \in Scopes : s.ordered => \E p \in Procs : s.procs = {p}

VARIABLES
  pointer,    \* the committed state: None, Initial or a cycle's
  proofs,     \* cycles whose run has a commit proof
  specs,      \* cycles whose specification is on disk
  acq,        \* per cycle, its staged acquisition
  plan,       \* per cycle, its staged plan
  jobs,       \* per cycle and event, the disposition of the request
  result,     \* per cycle, its terminal result
  published,  \* cycles whose latest pointer is written
  pc,         \* where each invocation stands in run()
  cycle,      \* the cycle it runs
  seen,       \* the current state it loaded
  left,       \* requests it has yet to execute
  bad,        \* requests that it saw unresolved
  verdict,    \* the terminal result it is about to publish
  crashes,    \* how many invocations died
  scope       \* the bounds of this behaviour

workspace == <<pointer, proofs>>
cycleStore == <<specs, acq, plan, result, published>>
local == <<pc, cycle, seen, left, bad, verdict>>
vars == <<workspace, cycleStore, jobs, local, crashes, scope>>

(* Events a state has processed, and the requests of its run. *)
Processed(s) == IF s \in Cycles THEN plan[s].all ELSE {}
Requests(c) == plan[c].new
Unresolved(c) == {e \in Requests(c) : jobs[c][e] # "RESOLVED"}

(* SUCCEEDED, NO_ACTION and MANUAL_REVIEW_REQUIRED are resolved; minor and    *)
(* urgent requests need no work that could be blocked or fail.               *)
Gate == INSTANCE RequestDispositions WITH
  Tasks <- Cycles \X Events,
  NoWork <- Cycles \X (Minor \union Urgent),
  disposition <- [r \in Cycles \X Events |-> jobs[r[1]][r[2]]]
Dispositions(c, e) == Gate!Answers(<<c, e>>)

Verdict(status, code, alerted) == [status |-> status, code |-> code, alerted |-> alerted]

-----------------------------------------------------------------------------
Init ==
  /\ pointer = None
  /\ proofs = {}
  /\ specs = {}
  /\ acq = [c \in Cycles |-> None]
  /\ plan = [c \in Cycles |-> None]
  /\ jobs = [c \in Cycles |-> [e \in Events |-> "MISSING"]]
  /\ result = [c \in Cycles |-> None]
  /\ published = {}
  /\ pc = [p \in Procs |-> "idle"]
  /\ cycle = [p \in Procs |-> None]
  /\ seen = [p \in Procs |-> None]
  /\ left = [p \in Procs |-> {}]
  /\ bad = [p \in Procs |-> {}]
  /\ verdict = [p \in Procs |-> None]
  /\ crashes = 0
  /\ scope \in Scopes

Goto(p, position) == pc' = [pc EXCEPT ![p] = position]

End(p) ==
  /\ Goto(p, "idle")
  /\ cycle' = [cycle EXCEPT ![p] = None]
  /\ seen' = [seen EXCEPT ![p] = None]
  /\ left' = [left EXCEPT ![p] = {}]
  /\ bad' = [bad EXCEPT ![p] = {}]
  /\ verdict' = [verdict EXCEPT ![p] = None]

(* The invocation is about to publish this result. *)
Conclude(p, v) ==
  /\ verdict' = [verdict EXCEPT ![p] = v]
  /\ Goto(p, "publish")

Fail(p, code) == Conclude(p, Verdict("FAILED", code, {}))

(* The runner's lease and its rule: one invocation, which finishes what it    *)
(* started before it starts another cycle.                                   *)
Ordered == scope.ordered

(* MonitoringRunner is shown to guarantee this order of its cycles. *)
Sequence == INSTANCE CycleSequence WITH
  started <- specs,
  ended <- {c \in Cycles : result[c] # None},
  running <- {cycle[p] : p \in {q \in Procs : pc[q] # "idle"}}

MayStart_anyCycle(c) == TRUE
MayStart(c) == Ordered => Sequence!InTurn(c)

(* save_spec.  Two invocations of one cycle are outside the model. *)
Start(p, c) ==
  /\ pc[p] = "idle"
  /\ p \in scope.procs
  /\ \A q \in Procs : cycle[q] # c
  /\ MayStart(c)
  /\ specs' = specs \union {c}
  /\ cycle' = [cycle EXCEPT ![p] = c]
  /\ Goto(p, "open")
  /\ UNCHANGED <<workspace, acq, plan, result, published, jobs, seen, left, bad, verdict,
                 crashes, scope>>

(* load_terminal: a terminal result is returned, its pointer repaired. *)
Reuse(p) ==
  /\ pc[p] = "open"
  /\ result[cycle[p]] # None
  /\ published' = published \union {cycle[p]}
  /\ End(p)
  /\ UNCHANGED <<workspace, specs, acq, plan, result, jobs, crashes, scope>>

(* The staged plan is taken as committed when it leads to the current state. *)
PlanCommitted_never(c) == FALSE
PlanCommitted(c) == plan[c] # None /\ pointer # None /\ plan[c].next = pointer

(* _validate_staged_artifacts raises: no terminal result. *)
StagedConflict(c) ==
  acq[c] # None /\ ~PlanCommitted(c) /\ pointer # None /\ acq[c].prior # pointer

MayOpen(p) == pc[p] = "open" /\ result[cycle[p]] = None

RefuseStaged(p) ==
  /\ MayOpen(p)
  /\ StagedConflict(cycle[p])
  /\ End(p)
  /\ UNCHANGED <<workspace, cycleStore, jobs, crashes, scope>>

(* The committed plan must be proven before its requests are executed. *)
Resume(p) ==
  /\ MayOpen(p)
  /\ ~StagedConflict(cycle[p])
  /\ PlanCommitted(cycle[p])
  /\ \/ /\ cycle[p] \in proofs
        /\ left' = [left EXCEPT ![p] = Requests(cycle[p])]
        /\ Goto(p, "execute")
        /\ UNCHANGED verdict
     \/ /\ cycle[p] \notin proofs
        /\ Fail(p, "LOWER_LEVEL_INELIGIBLE")
        /\ UNCHANGED left
  /\ seen' = [seen EXCEPT ![p] = pointer]
  /\ UNCHANGED <<workspace, cycleStore, jobs, cycle, bad, crashes, scope>>

Open(p) ==
  /\ MayOpen(p)
  /\ ~StagedConflict(cycle[p])
  /\ ~PlanCommitted(cycle[p])
  /\ seen' = [seen EXCEPT ![p] = pointer]
  /\ Goto(p, "gate")
  /\ UNCHANGED <<workspace, cycleStore, jobs, cycle, left, bad, verdict, crashes, scope>>

(* load_committed_run: proof and artifacts, and the pointer still names it. *)
Committed(c) == c \in proofs /\ plan[c].next = pointer

GateOpen_always(s) == TRUE
GateOpen(s) == s \in Cycles => Committed(s) /\ Unresolved(s) = {}

(* _unresolved_current_run lets the cycle advance. *)
PassGate(p) ==
  /\ pc[p] = "gate"
  /\ GateOpen(seen[p])
  /\ Goto(p, IF acq[cycle[p]] = None THEN "acquire" ELSE "plan")
  /\ UNCHANGED <<workspace, cycleStore, jobs, cycle, seen, left, bad, verdict, crashes, scope>>

CloseGate(p) ==
  /\ pc[p] = "gate"
  /\ ~GateOpen(seen[p])
  /\ IF Committed(seen[p])
     THEN Conclude(p, Verdict("ATTENTION_REQUIRED", "UNRESOLVED_CURRENT_RUN",
                              Unresolved(seen[p])))
     ELSE Fail(p, "LOWER_LEVEL_INELIGIBLE")
  /\ UNCHANGED <<workspace, cycleStore, jobs, cycle, seen, left, bad, crashes, scope>>

(* The source answers with any events; save_acquisition. *)
Acquire(p) ==
  /\ pc[p] = "acquire"
  /\ \E batch \in SUBSET scope.events :
       acq' = [acq EXCEPT ![cycle[p]] = [prior |-> seen[p], batch |-> batch]]
  /\ Goto(p, "plan")
  /\ UNCHANGED <<workspace, specs, plan, result, published, jobs, cycle, seen, left, bad,
                 verdict, crashes, scope>>

AcquisitionFails(p) ==
  /\ pc[p] = "acquire"
  /\ Fail(p, "ACQUISITION_FAILED")
  /\ UNCHANGED <<workspace, cycleStore, jobs, cycle, seen, left, bad, crashes, scope>>

(* run_monitoring: without a new event the next state is the prior state. *)
Planned_dropsProcessed(prior, c) ==
  [next |-> c, new |-> acq[c].batch, all |-> acq[c].batch]
Planned_alwaysNewState(prior, c) ==
  [next |-> c, new |-> acq[c].batch \ Processed(prior),
   all |-> Processed(prior) \union acq[c].batch]
Planned(prior, c) ==
  LET new == acq[c].batch \ Processed(prior)
  IN [next |-> IF new # {} THEN c ELSE IF prior = None THEN Initial ELSE prior,
      new |-> new,
      all |-> Processed(prior) \union new]

(* save_plan *)
SavePlan(p) ==
  /\ pc[p] = "plan"
  /\ plan' = [plan EXCEPT ![cycle[p]] = Planned(seen[p], cycle[p])]
  /\ Goto(p, "prove")
  /\ UNCHANGED <<workspace, specs, acq, result, published, jobs, cycle, seen, left, bad,
                 verdict, crashes, scope>>

(* commit_run: the artifacts of the run, then its commit proof ... *)
Prove(p) ==
  /\ pc[p] = "prove"
  /\ proofs' = proofs \union {cycle[p]}
  /\ Goto(p, "point")
  /\ UNCHANGED <<pointer, cycleStore, jobs, cycle, seen, left, bad, verdict, crashes, scope>>

(* ... then the state pointer. *)
Point_beforeProof(p) ==
  /\ pc[p] \in {"prove", "point"}
  /\ pointer' = plan[cycle[p]].next
  /\ left' = [left EXCEPT ![p] = Requests(cycle[p])]
  /\ Goto(p, "execute")
  /\ UNCHANGED <<proofs, cycleStore, jobs, cycle, seen, bad, verdict, crashes, scope>>
Point(p) ==
  /\ pc[p] = "point"
  /\ pointer' = plan[cycle[p]].next
  /\ left' = [left EXCEPT ![p] = Requests(cycle[p])]
  /\ Goto(p, "execute")
  /\ UNCHANGED <<proofs, cycleStore, jobs, cycle, seen, bad, verdict, crashes, scope>>

(* os.replace has moved the pointer when the fsync after it raises. *)
PointUnsynced(p) ==
  /\ pc[p] = "point"
  /\ pointer' = plan[cycle[p]].next
  /\ Fail(p, "MONITORING_COMMIT_FAILED")
  /\ UNCHANGED <<proofs, cycleStore, jobs, cycle, seen, left, bad, crashes, scope>>

CommitFails(p) ==
  /\ pc[p] \in {"plan", "prove", "point"}
  /\ Fail(p, "MONITORING_COMMIT_FAILED")
  /\ UNCHANGED <<workspace, cycleStore, jobs, cycle, seen, left, bad, crashes, scope>>

(* One request of the committed run; a resolved one is reused. *)
Execute(p) ==
  /\ pc[p] = "execute"
  /\ Committed(cycle[p])
  /\ \E e \in left[p] : \E disposition \in Dispositions(cycle[p], e) :
       /\ jobs' = [jobs EXCEPT ![cycle[p]][e] = disposition]
       /\ left' = [left EXCEPT ![p] = @ \ {e}]
       /\ bad' = [bad EXCEPT ![p] = IF disposition = "UNRESOLVED" THEN @ \union {e} ELSE @]
  /\ UNCHANGED <<workspace, cycleStore, pc, cycle, seen, verdict, crashes, scope>>

(* The run is not current any more, or the job store raises: for the last    *)
(* request perhaps only after its attempt can be read.                       *)
ExecutionFails(p) ==
  /\ pc[p] = "execute"
  /\ Requests(cycle[p]) # {}
  /\ Fail(p, "EXECUTION_ATTENTION_REQUIRED")
  /\ UNCHANGED <<workspace, cycleStore, jobs, cycle, seen, left, bad, crashes, scope>>

(* Every request has a disposition: alerts for all but the minor ones, and   *)
(* attention for what is unresolved or left to the owner.                    *)
Alerted(p) == Requests(cycle[p]) \ Minor

Status_ignoresUnresolved(p) ==
  IF Alerted(p) = {} THEN Verdict("NO_CHANGE", "NONE", {})
  ELSE IF Alerted(p) \intersect Urgent # {}
  THEN Verdict("ATTENTION_REQUIRED", "NONE", Alerted(p))
  ELSE Verdict("ALERTS_EMITTED", "NONE", Alerted(p))
Status(p) ==
  IF Alerted(p) = {} THEN Verdict("NO_CHANGE", "NONE", {})
  ELSE IF bad[p] # {}
  THEN Verdict("ATTENTION_REQUIRED", "EXECUTION_ATTENTION_REQUIRED", Alerted(p))
  ELSE IF Alerted(p) \intersect Urgent # {}
  THEN Verdict("ATTENTION_REQUIRED", "NONE", Alerted(p))
  ELSE Verdict("ALERTS_EMITTED", "NONE", Alerted(p))

Executed(p) ==
  /\ pc[p] = "execute"
  /\ left[p] = {}
  /\ Conclude(p, Status(p))
  /\ UNCHANGED <<workspace, cycleStore, jobs, cycle, seen, left, bad, crashes, scope>>

(* publish: alert batch and result ... *)
Publish(p) ==
  /\ pc[p] = "publish"
  /\ result' = [result EXCEPT ![cycle[p]] = verdict[p]]
  /\ Goto(p, "latest")
  /\ UNCHANGED <<workspace, specs, acq, plan, published, jobs, cycle, seen, left, bad,
                 verdict, crashes, scope>>

(* ... then the cycle's latest pointer. *)
PublishPointer(p) ==
  /\ pc[p] = "latest"
  /\ published' = published \union {cycle[p]}
  /\ End(p)
  /\ UNCHANGED <<workspace, specs, acq, plan, result, jobs, crashes, scope>>

(* The owner executes requests of the current run (watch execute-reanalysis). *)
OwnerExecutes(e) ==
  /\ pointer \in Cycles
  /\ Committed(pointer)
  /\ e \in Unresolved(pointer)
  /\ \E disposition \in Dispositions(pointer, e) :
       jobs' = [jobs EXCEPT ![pointer][e] = disposition]
  /\ UNCHANGED <<workspace, cycleStore, local, crashes, scope>>

Crash(p) ==
  /\ crashes < scope.crashes
  /\ pc[p] # "idle"
  /\ crashes' = crashes + 1
  /\ End(p)
  /\ UNCHANGED <<workspace, cycleStore, jobs, scope>>

Work(p) ==
  \/ Reuse(p) \/ RefuseStaged(p) \/ Resume(p) \/ Open(p)
  \/ PassGate(p) \/ CloseGate(p) \/ Acquire(p) \/ AcquisitionFails(p)
  \/ SavePlan(p) \/ Prove(p) \/ Point(p) \/ PointUnsynced(p) \/ CommitFails(p)
  \/ Execute(p) \/ ExecutionFails(p) \/ Executed(p)
  \/ Publish(p) \/ PublishPointer(p)

Next ==
  \/ \E p \in Procs : Work(p) \/ Crash(p) \/ \E c \in Cycles : Start(p, c)
  \/ \E e \in Events : OwnerExecutes(e)

Spec == Init /\ [][Next]_vars

(* The runner's invocation runs on, and an unfinished cycle is run again.    *)
Fairness ==
  /\ WF_vars(Ordered /\ \E p \in Procs : Work(p))
  /\ \A c \in Cycles : SF_vars(Ordered /\ result[c] = None /\ \E p \in Procs : Start(p, c))

FairSpec == Spec /\ Fairness

-----------------------------------------------------------------------------
(* Properties *)

(* Every variable keeps its type, and the requests at hand are of the plan. *)
TypeOK ==
  /\ pointer \in States
  /\ proofs \subseteq specs /\ published \subseteq specs /\ specs \subseteq Cycles
  /\ \A c \in Cycles :
       /\ acq[c] = None \/ acq[c] \in [prior : States, batch : SUBSET Events]
       /\ \/ plan[c] = None
          \/ /\ plan[c] \in [next : States \ {None}, new : SUBSET Events, all : SUBSET Events]
             /\ plan[c].new # {} <=> plan[c].next = c
       /\ result[c] = None \/ result[c] \in Verdicts
  /\ jobs \in [Cycles -> [Events -> {"MISSING", "RESOLVED", "UNRESOLVED"}]]
  /\ pc \in [Procs -> {"idle", "open", "gate", "acquire", "plan", "prove", "point",
                       "execute", "publish", "latest"}]
  /\ cycle \in [Procs -> Cycles \union {None}]
  /\ seen \in [Procs -> States]
  /\ \A p \in Procs :
       /\ left[p] \union bad[p] # {} => left[p] \union bad[p] \subseteq Requests(cycle[p])
       /\ verdict[p] = None \/ verdict[p] \in Verdicts
  /\ crashes \in 0..scope.crashes

(* The current state is proven: whatever died in between, the pointer never  *)
(* names a run whose proof is not on disk (commit_run: pointer last).        *)
CommittedIsProven == pointer \in Cycles => Committed(pointer)

(* The gate (phase-6-d1 goal, section 7): no run is committed while a        *)
(* request of the current one is missing, blocked or failed, although the    *)
(* gate is passed several writes before the pointer moves.                   *)
GateHolds ==
  [][Ordered /\ pointer' # pointer /\ pointer \in Cycles => Unresolved(pointer) = {}]_vars

(* A commit keeps every processed event: no crash, retry or failed commit    *)
(* makes a later cycle plan from a state other than the current one, so no   *)
(* event is forgotten and none is processed twice.                           *)
CommitsExtend ==
  [][Ordered /\ pointer' # pointer =>
       /\ Processed(pointer) \subseteq Processed(pointer')
       /\ pointer' \in Cycles => plan[pointer'].new \intersect Processed(pointer) = {}]_vars

(* A retry is never refused over its staged artifacts: with unfinished       *)
(* cycles run first, the current state is the one the acquisition was staged *)
(* on or the one the plan leads to (_validate_staged_artifacts).             *)
NeverRefused == \A p \in Procs : Ordered /\ MayOpen(p) => ~StagedConflict(cycle[p])

(* No committed event that matters goes silent: the result of its cycle      *)
(* alerts it, or reports the cycle as failed, or the cycle can still be      *)
(* resumed.                                                                  *)
NoSilentEvents ==
  \A c \in Cycles : \A e \in Processed(pointer) \ Minor :
    Ordered /\ c \in proofs /\ plan[c].next = c /\ e \in Requests(c) =>
      \/ result[c] # None /\ (e \in result[c].alerted \/ result[c].status = "FAILED")
      \/ result[c] = None /\ PlanCommitted(c)

(* A quiet result is true: when a cycle reports no change or alerts without  *)
(* attention, every request of its run is resolved.                          *)
QuietResultIsTrue ==
  \A c \in Cycles :
    result[c] # None /\ result[c].status \in {"NO_CHANGE", "ALERTS_EMITTED"} =>
      Unresolved(c) = {}

(* Every cycle that is started gets its terminal result, whatever died.      *)
CyclesTerminate == \A c \in Cycles : Ordered /\ c \in specs ~> result[c] # None

(* phase-6-d1 goal, 22: failure injection around cycle artifacts is          *)
(* restart-safe: a crash alone never fails a cycle as not provable.          *)
CrashIsRestartSafe ==
  \A p \in Procs : verdict[p] # None => verdict[p].code # "LOWER_LEVEL_INELIGIBLE"

=============================================================================
