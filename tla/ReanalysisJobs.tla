--------------------------- MODULE ReanalysisJobs ---------------------------
(***************************************************************************)
(* The re-analysis executor and its job store (phase 6-C,                  *)
(* src/turtle_value_engine/monitoring_execution): a committed request is a *)
(* job; an execution reuses its latest attempt or produces a new outcome,  *)
(* writes the artifacts, then an immutable numbered attempt, then the      *)
(* latest pointer.  Each durable write is a step, and every invocation may *)
(* die between two of them.                                                *)
(*                                                                         *)
(* An analysis artifact is filed under an analysis id made of provider,    *)
(* listing, date and profile: jobs of one listing and day share it.        *)
(***************************************************************************)
EXTENDS Integers, Sequences, SequencesExt

CONSTANTS
  Executors,    \* invocations of the executor
  Jobs,         \* committed requests
  ImpactOf,     \* the impact class of each job
  Ids,          \* analysis ids
  IdOf,         \* the analysis id of each job
  Caps,         \* capability summaries an invocation may have
  Runtimes,     \* those with a research runtime and a model allowed
  Contents,     \* what preparation and analysis may yield
  Codes,        \* failure codes
  None,         \* no content, no job, no capabilities
  Scopes        \* bounds: what takes part in a behaviour, and how many
                \* attempts of a job and dead invocations it has at most

ASSUME ImpactAssumption ==
  ImpactOf \in [Jobs -> {"NO_REANALYSIS", "PARTIAL_REANALYSIS",
                         "FULL_REANALYSIS", "URGENT_MANUAL_REVIEW"}]
ASSUME IdAssumption == IdOf \in [Jobs -> Ids]
ASSUME CapsAssumption == Runtimes \subseteq Caps
ASSUME NoneAssumption == None \notin Contents \union Codes \union Jobs \union Caps
ASSUME ScopeAssumption ==
  Scopes \subseteq [executors : SUBSET Executors, jobs : SUBSET Jobs, caps : SUBSET Caps,
                    attempts : Nat \ {0}, crashes : Nat]

VARIABLES
  artifact,  \* per analysis id, the content on disk
  attempts,  \* per job, its immutable attempts by number
  pointer,   \* per job, the attempt its latest pointer names; 0 if there is none
  pc,        \* where each invocation stands
  job,       \* the job each invocation executes
  caps,      \* its capabilities
  outcome,   \* the terminal job it is about to save
  number,    \* the attempt number it has chosen
  crashes,   \* how many invocations died
  scope      \* the bounds of this behaviour

store == <<artifact, attempts, pointer>>
local == <<pc, job, caps, outcome, number>>
vars == <<store, local, crashes, scope>>

Outcome(status, by, detail) == [status |-> status, caps |-> by, detail |-> detail]
Nothing == Outcome("NONE", None, None)

Final == {"SUCCEEDED", "NO_ACTION", "MANUAL_REVIEW_REQUIRED"}

(* load_latest: the pointer, or else the highest numbered attempt. *)
Latest_pointerOnly(j) ==
  IF pointer[j] # 0 THEN attempts[j][pointer[j]] ELSE Nothing
Latest(j) ==
  IF pointer[j] # 0 THEN attempts[j][pointer[j]]
  ELSE IF attempts[j] # <<>> THEN Last(attempts[j]) ELSE Nothing

(* An execution returns this terminal job as it is. *)
Reusable(o, c) == o.status \in Final \/ (o.status = "BLOCKED" /\ o.caps = c)

-----------------------------------------------------------------------------
Init ==
  /\ artifact = [i \in Ids |-> None]
  /\ attempts = [j \in Jobs |-> <<>>]
  /\ pointer = [j \in Jobs |-> 0]
  /\ pc = [e \in Executors |-> "idle"]
  /\ job = [e \in Executors |-> None]
  /\ caps = [e \in Executors |-> None]
  /\ outcome = [e \in Executors |-> Nothing]
  /\ number = [e \in Executors |-> 0]
  /\ crashes = 0
  /\ scope \in Scopes

(* Invocations that never overlap. *)
Alone == \E e \in Executors : scope.executors = {e}

End(e) ==
  /\ pc' = [pc EXCEPT ![e] = "idle"]
  /\ job' = [job EXCEPT ![e] = None]
  /\ caps' = [caps EXCEPT ![e] = None]
  /\ outcome' = [outcome EXCEPT ![e] = Nothing]
  /\ number' = [number EXCEPT ![e] = 0]

Goto(e, position) == pc' = [pc EXCEPT ![e] = position]

(* The invocation will save this terminal job. *)
Conclude(e, o) ==
  /\ outcome' = [outcome EXCEPT ![e] = o]
  /\ Goto(e, "save")

(* A caller executes one committed request. *)
Start(e, j) ==
  /\ pc[e] = "idle"
  /\ e \in scope.executors /\ j \in scope.jobs
  /\ Len(attempts[j]) < scope.attempts \/ Latest(j).status \in Final
  /\ job' = [job EXCEPT ![e] = j]
  /\ \E c \in scope.caps : caps' = [caps EXCEPT ![e] = c]
  /\ Goto(e, "load")
  /\ UNCHANGED <<store, outcome, number, crashes, scope>>

(* NO_ACTION, MANUAL_REVIEW_REQUIRED, or BLOCKED with the same capabilities. *)
Reuse(e) ==
  /\ pc[e] = "load"
  /\ Reusable(Latest(job[e]), caps[e])
  /\ Latest(job[e]).status # "SUCCEEDED"
  /\ End(e)
  /\ UNCHANGED <<store, crashes, scope>>

(* A success is saved again, which publishes its pointer if that is missing. *)
Republish(e) ==
  /\ pc[e] = "load"
  /\ Reusable(Latest(job[e]), caps[e])
  /\ Latest(job[e]).status = "SUCCEEDED"
  /\ Conclude(e, Latest(job[e]))
  /\ UNCHANGED <<store, job, caps, number, crashes, scope>>

NeedsRuntime(e) ==
  ImpactOf[job[e]] = "FULL_REANALYSIS" /\ caps[e] \notin Runtimes

(* Impacts that need no work, and work that has no runtime. *)
Effortless(e) == ImpactOf[job[e]] \in {"NO_REANALYSIS", "URGENT_MANUAL_REVIEW"}
DeclinedAs(e) ==
  IF NeedsRuntime(e) THEN "BLOCKED"
  ELSE IF ImpactOf[job[e]] = "NO_REANALYSIS" THEN "NO_ACTION" ELSE "MANUAL_REVIEW_REQUIRED"

Decline(e) ==
  /\ pc[e] = "load"
  /\ ~Reusable(Latest(job[e]), caps[e])
  /\ Effortless(e) \/ NeedsRuntime(e)
  /\ Conclude(e, Outcome(DeclinedAs(e), caps[e], None))
  /\ UNCHANGED <<store, job, caps, number, crashes, scope>>

(* Preparation, research and analysis begin. *)
Begin(e) ==
  /\ pc[e] = "load"
  /\ ~Reusable(Latest(job[e]), caps[e])
  /\ ~Effortless(e) /\ ~NeedsRuntime(e)
  /\ Goto(e, "work")
  /\ UNCHANGED <<store, job, caps, outcome, number, crashes, scope>>

(* Providers and models answer anew every time, or the work fails. *)
Work(e) ==
  /\ pc[e] = "work"
  /\ \/ \E c \in Contents : Conclude(e, Outcome("SUCCEEDED", caps[e], c))
     \/ \E c \in Codes : Conclude(e, Outcome("FAILED", caps[e], c))
  /\ UNCHANGED <<store, job, caps, number, crashes, scope>>

(* save: the latest attempt says the same, so only its pointer is missing. *)
SaveKnown(e) ==
  /\ pc[e] = "save"
  /\ Latest(job[e]) = outcome[e]
  /\ pointer' = [pointer EXCEPT ![job[e]] = IF @ = 0 THEN Len(attempts[job[e]]) ELSE @]
  /\ End(e)
  /\ UNCHANGED <<artifact, attempts, crashes, scope>>

MaySave(e) ==
  /\ pc[e] = "save"
  /\ Latest(job[e]) # outcome[e]
  /\ Latest(job[e]).status \notin Final

(* Other content under a final identity: the save raises. *)
SaveConflict(e) ==
  /\ pc[e] = "save"
  /\ Latest(job[e]) # outcome[e]
  /\ Latest(job[e]).status \in Final
  /\ End(e)
  /\ UNCHANGED <<store, crashes, scope>>

(* An artifact is written only once under its id. *)
Fits_always(e) == TRUE
Fits_exclusively(e) ==
  outcome[e].status = "SUCCEEDED" => artifact[IdOf[job[e]]] = None
Fits(e) ==
  outcome[e].status = "SUCCEEDED" =>
    artifact[IdOf[job[e]]] \in {None, outcome[e].detail}

(* _persist_artifacts *)
PersistArtifacts(e) ==
  /\ MaySave(e)
  /\ Fits(e)
  /\ artifact' = [artifact EXCEPT ![IdOf[job[e]]] =
                    IF outcome[e].status = "SUCCEEDED" THEN outcome[e].detail ELSE @]
  /\ Goto(e, "scan")
  /\ UNCHANGED <<attempts, pointer, job, caps, outcome, number, crashes, scope>>

(* "already has conflicting content": the save raises. *)
ArtifactConflict(e) ==
  /\ MaySave(e)
  /\ ~Fits(e)
  /\ End(e)
  /\ UNCHANGED <<store, crashes, scope>>

(* The next number after all attempts on disk. *)
NextNumber_startsAtTwo(j) == Len(attempts[j]) + 2
NextNumber(j) == Len(attempts[j]) + 1

Scan(e) ==
  /\ pc[e] = "scan"
  /\ number' = [number EXCEPT ![e] = NextNumber(job[e])]
  /\ Goto(e, "attempt")
  /\ UNCHANGED <<store, job, caps, outcome, crashes, scope>>

(* The attempt id holds job and number only: another invocation may have     *)
(* taken the number.                                                         *)
WriteAttempt(e) ==
  /\ pc[e] = "attempt"
  /\ \/ /\ Len(attempts[job[e]]) < number[e]
        /\ attempts' = [attempts EXCEPT ![job[e]] = Append(@, outcome[e])]
     \/ /\ Len(attempts[job[e]]) >= number[e]
        /\ attempts[job[e]][number[e]] = outcome[e]
        /\ UNCHANGED attempts
  /\ Goto(e, "pointer")
  /\ UNCHANGED <<artifact, pointer, job, caps, outcome, number, crashes, scope>>

AttemptConflict(e) ==
  /\ pc[e] = "attempt"
  /\ Len(attempts[job[e]]) >= number[e]
  /\ attempts[job[e]][number[e]] # outcome[e]
  /\ End(e)
  /\ UNCHANGED <<store, crashes, scope>>

WritePointer(e) ==
  /\ pc[e] = "pointer"
  /\ pointer' = [pointer EXCEPT ![job[e]] = number[e]]
  /\ End(e)
  /\ UNCHANGED <<artifact, attempts, crashes, scope>>

(* The process dies, or a write raises. *)
Crash(e) ==
  /\ crashes < scope.crashes
  /\ pc[e] # "idle"
  /\ crashes' = crashes + 1
  /\ End(e)
  /\ UNCHANGED <<store, scope>>

Execute(e) ==
  \/ Reuse(e) \/ Republish(e) \/ Decline(e) \/ Begin(e) \/ Work(e)
  \/ SaveKnown(e) \/ SaveConflict(e)
  \/ PersistArtifacts(e) \/ ArtifactConflict(e)
  \/ Scan(e) \/ WriteAttempt(e) \/ AttemptConflict(e) \/ WritePointer(e)

Next == \E e \in Executors : Execute(e) \/ Crash(e) \/ \E j \in Jobs : Start(e, j)

Spec == Init /\ [][Next]_vars

(* A lone invocation runs on.  Nobody has to execute a job again: an error   *)
(* of one job ends the cycle that was executing them, which is FAILED from   *)
(* then on, and the next cycle's gate reports the open requests without      *)
(* executing them.                                                           *)
Fairness == WF_vars(Alone /\ \E e \in Executors : Execute(e))

FairSpec == Spec /\ Fairness

-----------------------------------------------------------------------------
(* Properties *)

Outcomes ==
  [status : {"NO_ACTION", "MANUAL_REVIEW_REQUIRED", "BLOCKED"}, caps : Caps, detail : {None}]
  \union [status : {"SUCCEEDED"}, caps : Caps, detail : Contents]
  \union [status : {"FAILED"}, caps : Caps, detail : Codes]

(* Every variable keeps its type, and a pointer names an attempt on disk. *)
TypeOK ==
  /\ artifact \in [Ids -> Contents \union {None}]
  /\ \A j \in Jobs :
       /\ attempts[j] \in Seq(Outcomes)
       /\ pointer[j] \in 0..Len(attempts[j])
  /\ pc \in [Executors -> {"idle", "load", "work", "save", "scan", "attempt", "pointer"}]
  /\ job \in [Executors -> Jobs \union {None}]
  /\ caps \in [Executors -> Caps \union {None}]
  /\ outcome \in [Executors -> Outcomes \union {Nothing}]
  /\ number \in [Executors -> Nat]
  /\ crashes \in 0..scope.crashes

(* Whatever dies or overlaps, and although jobs of one listing and day share *)
(* an analysis id, a recorded success finds its own artifacts on disk        *)
(* (save, _persist_artifacts, load_success_artifacts).                       *)
ResultsAreLoadable ==
  \A j \in Jobs : \A n \in 1..Len(attempts[j]) :
    attempts[j][n].status = "SUCCEEDED" => artifact[IdOf[j]] = attempts[j][n].detail

Works(e) == pc[e] = "work" /\ pc'[e] = "save"
Succeeded(j) == \E n \in 1..Len(attempts[j]) : attempts[j][n].status = "SUCCEEDED"

(* What the cycle reads of a job (_unresolved_current_run). *)
Disposition(j) ==
  IF Latest(j) = Nothing THEN "MISSING"
  ELSE IF Latest(j).status \in Final THEN "RESOLVED" ELSE "UNRESOLVED"
Answered == [j \in Jobs |-> Disposition(j)]

Gate == INSTANCE RequestDispositions WITH
  Tasks <- Jobs,
  NoWork <- {j \in Jobs : ImpactOf[j] \in {"NO_REANALYSIS", "URGENT_MANUAL_REVIEW"}},
  disposition <- Answered

(* Without overlap, the cycle sees each execution as one answer to one       *)
(* request, whatever dies between its writes; a published final outcome      *)
(* stays published, and a success that never got a pointer is found by the   *)
(* next invocation: neither is worked out again.                             *)
SettledStaysSettled ==
  [][Alone =>
      /\ [Gate!Next]_Answered
      /\ \A j \in Jobs :
           /\ pointer[j] # 0 /\ Latest(j).status \in Final => pointer'[j] = pointer[j]
           /\ \A e \in Executors : Works(e) /\ job[e] = j =>
                /\ pointer[j] = 0 => ~Succeeded(j)
                /\ pointer[j] # 0 => Latest(j).status \notin Final]_vars

(* Without overlap, a job that is executed again and again has in the end an *)
(* outcome that the cycle can read, whatever died before: an execution gets  *)
(* past everything the last one left behind, except other content under its  *)
(* analysis id, which refuses it again and again.                            *)
EveryJobConcluded ==
  \A j \in Jobs :
    /\ Alone /\ j \in scope.jobs
    /\ []<><<\E e \in Executors : Start(e, j)>>_vars
    => \/ <>[](Latest(j) # Nothing)
       \/ []<>(\E e \in Executors :
                job[e] = j /\ MaySave(e) /\ artifact[IdOf[j]] \notin {None, outcome[e].detail})

(* store.py: "the immutable attempt remains discoverable and a later retry   *)
(* reuses it without repeating provider/model work".                         *)
SuccessIsReused ==
  [][\A e \in Executors : Works(e) => ~Succeeded(job[e])]_vars

=============================================================================
