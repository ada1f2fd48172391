------------------------ MODULE MonitoringCycleProofs ------------------------
(***************************************************************************)
(* What holds of MonitoringCycle for every number of invocations, cycles,  *)
(* events and deaths, under the runner and without it.                     *)
(***************************************************************************)
EXTENDS MonitoringCycle, TLAPS

Acquisitions == [prior : States, batch : SUBSET Events]
Plans == [next : States \ {None}, new : SUBSET Events, all : SUBSET Events]

Types ==
  /\ scope \in Scopes
  /\ pointer \in States
  /\ specs \subseteq Cycles /\ proofs \subseteq specs /\ published \subseteq specs
  /\ acq \in [Cycles -> {None} \union Acquisitions]
  /\ plan \in [Cycles -> {None} \union Plans]
  /\ result \in [Cycles -> {None} \union Verdicts]
  /\ jobs \in [Cycles -> [Events -> {"MISSING", "RESOLVED", "UNRESOLVED"}]]
  /\ pc \in [Procs -> {"idle", "open", "gate", "acquire", "plan", "prove", "point",
                       "execute", "publish", "latest"}]
  /\ cycle \in [Procs -> Cycles \union {None}]
  /\ seen \in [Procs -> States]
  /\ left \in [Procs -> SUBSET Events]
  /\ bad \in [Procs -> SUBSET Events]
  /\ verdict \in [Procs -> {None} \union Verdicts]
  /\ crashes \in 0..scope.crashes

(* A state whose run is proven and leads to it; and one with no work left. *)
Proven(s) == s \in Cycles => s \in proofs /\ plan[s].next = s
Concluded(s) == s \in Cycles => Unresolved(s) = {}

Quiet(v) == v.status \in {"NO_CHANGE", "ALERTS_EMITTED"}

(* What is staged was planned on a proven state without open requests, and  *)
(* planning again from what is staged gives the same plan.                   *)
Planning(c) ==
  /\ acq[c] # None =>
       /\ c \in specs /\ acq[c].prior # c
       /\ Proven(acq[c].prior) /\ Concluded(acq[c].prior)
       /\ pointer = None => acq[c].prior = None
  /\ plan[c] # None => acq[c] # None /\ plan[c] = Planned(acq[c].prior, c)
  /\ c \in proofs => plan[c] # None

Resulting(c) ==
  result[c] # None =>
    /\ c \in specs
    /\ Quiet(result[c]) => plan[c] # None /\ Unresolved(c) = {}

BeforePointer == {"gate", "acquire", "plan", "prove", "point"}

(* What an invocation knows at each position. *)
Position(p) ==
  /\ pc[p] = "idle" => cycle[p] = None
  /\ pc[p] # "idle" => cycle[p] \in specs /\ p \in scope.procs
  /\ pc[p] \in BeforePointer \union {"idle", "open"} => left[p] = {} /\ bad[p] = {}
  /\ pc[p] \in BeforePointer =>
       /\ result[cycle[p]] = None
       /\ seen[p] # cycle[p]
       /\ Proven(seen[p])
       /\ acq[cycle[p]] # None => acq[cycle[p]].prior = seen[p]
       /\ pointer = None => seen[p] = None
  /\ pc[p] \in BeforePointer \ {"gate"} => Concluded(seen[p])
  /\ pc[p] = "acquire" => acq[cycle[p]] = None
  /\ pc[p] \in {"plan", "prove", "point"} => acq[cycle[p]] # None
  /\ pc[p] \in {"prove", "point"} => plan[cycle[p]] # None
  /\ pc[p] \in {"point", "execute"} => cycle[p] \in proofs
  /\ pc[p] = "execute" =>
       /\ result[cycle[p]] = None
       /\ left[p] \subseteq Requests(cycle[p]) /\ bad[p] \subseteq Requests(cycle[p])
       /\ bad[p] \intersect (Minor \union Urgent) = {}
       /\ \A x \in Requests(cycle[p]) :
            jobs[cycle[p]][x] = "RESOLVED" \/ x \in left[p] \/ x \in bad[p]
  /\ pc[p] = "publish" =>
       /\ result[cycle[p]] = None /\ verdict[p] # None
       /\ Quiet(verdict[p]) => plan[cycle[p]] # None /\ Unresolved(cycle[p]) = {}
  /\ pc[p] \in {"publish", "latest"} =>
       \/ left[p] = {} /\ bad[p] = {}
       \/ /\ plan[cycle[p]] # None
          /\ left[p] \subseteq Requests(cycle[p]) /\ bad[p] \subseteq Requests(cycle[p])
  /\ pc[p] = "latest" => result[cycle[p]] # None

(* No two invocations run one cycle. *)
Sole == \A p, q \in Procs : cycle[p] = cycle[q] /\ cycle[p] # None => p = q

(* Under the runner one cycle is unfinished; the current state is the one   *)
(* that it was staged on or the one that its plan leads to.                  *)
OneUnfinished ==
  \A c, d \in specs : result[c] = None /\ result[d] = None => c = d
Staged(c) ==
  acq[c] # None /\ result[c] = None => pointer = acq[c].prior \/ PlanCommitted(c)

(* A verdict that is no failure alerts every request but the minor ones. *)
Tells(v, c) ==
  plan[c] # None /\ v.status # "FAILED" => Requests(c) \ Minor \subseteq v.alerted

Undisturbed(p) ==
  /\ pc[p] \in BeforePointer => pointer = seen[p]
  /\ pc[p] = "publish" => Tells(verdict[p], cycle[p])

Ordering ==
  Ordered =>
    /\ OneUnfinished
    /\ \A c \in Cycles : Staged(c)
    /\ \A c \in Cycles : result[c] # None => Tells(result[c], c)
    /\ \A p \in Procs : Undisturbed(p)

Sound ==
  /\ Types /\ Proven(pointer) /\ Sole
  /\ \A c \in Cycles : Planning(c) /\ Resulting(c)
  /\ \A p \in Procs : Position(p)
  /\ Ordering

-----------------------------------------------------------------------------
(* Steps that undo nothing: what is planned, proven or resolved stays so. *)
Stable ==
  /\ scope' = scope
  /\ \A c \in Cycles : plan[c] # None => plan'[c] = plan[c]
  /\ specs \subseteq specs' /\ proofs \subseteq proofs'
  /\ \A c \in Cycles, x \in Events :
       jobs[c][x] = "RESOLVED" => jobs'[c][x] = "RESOLVED"
  /\ pointer' = None => pointer = None

(* The step does not move invocation q or touch what it works on. *)
Apart(q) ==
  /\ pc'[q] = pc[q] /\ cycle'[q] = cycle[q] /\ seen'[q] = seen[q]
  /\ left'[q] = left[q] /\ bad'[q] = bad[q] /\ verdict'[q] = verdict[q]
  /\ \A c \in Cycles : c = cycle[q] => acq'[c] = acq[c] /\ result'[c] = result[c]

(* What has no open request gets none. *)
LEMMA StaysResolved ==
  ASSUME Types, Stable, NEW c \in Cycles, plan[c] # None, Unresolved(c) = {}
  PROVE  Unresolved(c)' = {}
<1>1. plan[c] \in Plans
  BY DEF Types
<1>2. Requests(c)' = Requests(c) /\ Requests(c) \subseteq Events
  BY <1>1 DEF Stable, Requests, Plans
<1> QED BY <1>2 DEF Stable, Unresolved

(* A proven state stays proven, and concluded if it is. *)
LEMMA StaysProven ==
  ASSUME Sound, Stable, NEW s \in States, Proven(s)
  PROVE  /\ s \in Cycles => s \in proofs' /\ plan[s] # None /\ plan'[s] = plan[s]
                            /\ plan'[s].next = s
         /\ Concluded(s) /\ s \in Cycles => Unresolved(s)' = {}
<1>1. CASE s \in Cycles
  <2>1. s \in proofs /\ plan[s] # None
    BY <1>1 DEF Proven, Sound, Planning
  <2> QED BY <1>1, <2>1, StaysResolved DEF Proven, Stable, Concluded, Sound
<1> QED BY <1>1

LEMMA OthersKeep ==
  ASSUME Sound, Stable, NEW q \in Procs, Apart(q)
  PROVE  Position(q)'
<1>1. Position(q) /\ Types
  BY DEF Sound
<1>2. CASE pc[q] = "idle"
  BY <1>1, <1>2 DEF Position, Apart, BeforePointer
<1>3. CASE pc[q] # "idle"
  <2>0. PICK c \in Cycles : c = cycle[q]
    BY <1>1, <1>3 DEF Position, Types
  <2>1. c \in Cycles /\ c \in specs /\ c \in specs' /\ q \in scope'.procs
    BY <2>0, <1>1, <1>3 DEF Position, Types, Stable
  <2>2. /\ pc'[q] = pc[q] /\ cycle'[q] = c /\ seen'[q] = seen[q]
        /\ left'[q] = left[q] /\ bad'[q] = bad[q] /\ verdict'[q] = verdict[q]
        /\ acq'[c] = acq[c] /\ result'[c] = result[c]
    BY <2>0, <2>1 DEF Apart
  <2>3. plan[c] # None => plan'[c] = plan[c] /\ Requests(c)' = Requests(c)
    BY <2>1 DEF Stable, Requests
  <2>4. pc[q] \in BeforePointer => Proven(seen[q])' /\ (Concluded(seen[q]) => Concluded(seen[q])')
    <3>1. SUFFICES ASSUME pc[q] \in BeforePointer
                   PROVE  Proven(seen[q])' /\ (Concluded(seen[q]) => Concluded(seen[q])')
      OBVIOUS
    <3>2. Proven(seen[q]) /\ seen[q] \in States
      BY <1>1, <3>1 DEF Position, Types
    <3> QED BY <2>2, <3>2, StaysProven DEF Proven, Concluded, Unresolved, Requests
  <2>5. plan[c] # None /\ Unresolved(c) = {} => Unresolved(c)' = {}
    BY <1>1, <2>1, StaysResolved
  <2>6. pointer' = None => pointer = None
    BY DEF Stable
  <2>7. c \in proofs => c \in proofs' /\ plan[c] # None
    BY <2>1 DEF Stable, Sound, Planning
  <2>8. plan[c] # None => Requests(c) \subseteq Events
    BY <1>1, <2>1 DEF Types, Plans, Requests
  <2>9. \A x \in Events : jobs[c][x] = "RESOLVED" => jobs'[c][x] = "RESOLVED"
    BY <2>1 DEF Stable
  <2>a. (Requests(cycle[q]))' = (Requests(c))' /\ (Unresolved(cycle[q]))' = Unresolved(c)'
    BY <2>0, <2>2 DEF Requests, Unresolved
  <2> QED BY <1>1, <1>3, <2>0, <2>1, <2>2, <2>3, <2>4, <2>5, <2>6, <2>7, <2>8, <2>9, <2>a
          DEF Position, BeforePointer, Requests, Unresolved, Quiet
<1> QED BY <1>2, <1>3

(* A cycle whose staged artifacts the step leaves alone. *)
LEMMA PlanningKept ==
  ASSUME Sound, Stable, NEW c \in Cycles, acq'[c] = acq[c], plan'[c] = plan[c],
         c \in proofs' => plan'[c] # None
  PROVE  Planning(c)'
<1>1. Planning(c) /\ Types
  BY DEF Sound
<1>2. CASE acq[c] = None
  BY <1>1, <1>2 DEF Planning
<1>3. CASE acq[c] # None
  <2> DEFINE s == acq[c].prior
  <2>1. s \in States /\ s # c /\ Proven(s) /\ Concluded(s) /\ c \in specs'
    BY <1>1, <1>3 DEF Planning, Types, Acquisitions, Stable
  <2>2. /\ s \in Cycles => s \in proofs' /\ plan[s] # None /\ plan'[s] = plan[s]
                          /\ plan'[s].next = s
        /\ s \in Cycles => Unresolved(s)' = {}
    BY <2>1, StaysProven
  <2>3. Proven(acq[c].prior)' /\ Concluded(acq[c].prior)'
    BY <2>2 DEF Proven, Concluded, Unresolved, Requests
  <2>4. (Planned(acq[c].prior, c))' = Planned(acq[c].prior, c)
    BY <2>2 DEF Planned, Processed
  <2> QED BY <1>1, <1>3, <2>1, <2>3, <2>4 DEF Planning, Stable
<1> QED BY <1>2, <1>3

LEMMA ResultingKept ==
  ASSUME Sound, Stable, NEW c \in Cycles, result'[c] = result[c]
  PROVE  Resulting(c)'
<1>1. Resulting(c) /\ Types
  BY DEF Sound
<1>2. CASE result[c] = None
  BY <1>2 DEF Resulting
<1>3. CASE result[c] # None
  <2>1. plan[c] # None /\ Unresolved(c) = {} => plan'[c] # None /\ Unresolved(c)' = {}
    BY <1>1, StaysResolved DEF Stable
  <2> QED BY <1>1, <1>3, <2>1 DEF Resulting, Quiet, Stable
<1> QED BY <1>2, <1>3

-----------------------------------------------------------------------------
LEMMA SoundInit == Init => Sound
<1> SUFFICES ASSUME Init PROVE Sound
  OBVIOUS
<1>1. Types
  BY ScopeAssumption DEF Init, Types, States
<1>2. \A c \in Cycles : Planning(c) /\ Resulting(c)
  <2> SUFFICES ASSUME NEW c \in Cycles PROVE Planning(c) /\ Resulting(c)
    OBVIOUS
  <2>1. acq[c] = None /\ plan[c] = None /\ result[c] = None /\ c \notin proofs
    BY DEF Init
  <2> QED BY <2>1 DEF Planning, Resulting
<1>3. ASSUME NEW p \in Procs PROVE Position(p)
  <2>1. pc[p] = "idle" /\ cycle[p] = None /\ left[p] = {} /\ bad[p] = {}
    BY DEF Init
  <2> QED BY <2>1 DEF Position, BeforePointer
<1>4. Proven(pointer) /\ Sole
  BY NamesAssumption DEF Init, Proven, Sole
<1>5. OneUnfinished /\ (\A c \in Cycles : Staged(c))
      /\ (\A c \in Cycles : result[c] # None => Tells(result[c], c))
      /\ \A p \in Procs : Undisturbed(p)
  BY DEF Init, OneUnfinished, Staged, Undisturbed, BeforePointer
<1> QED BY <1>1, <1>2, <1>3, <1>4, <1>5 DEF Sound, Ordering

-----------------------------------------------------------------------------
(* Steps that write nothing *)

LEMMA LocalStep ==
  ASSUME Sound, NEW p \in Procs,
         UNCHANGED <<workspace, specs, acq, plan, result, jobs, scope>>,
         \A q \in Procs \ {p} : Apart(q), Types', Position(p)',
         cycle'[p] \in {cycle[p], None}, Ordered => Undisturbed(p)'
  PROVE  Sound'
<1>1. Stable
  BY DEF Stable, workspace
<1>2. \A q \in Procs : Position(q)'
  BY <1>1, OthersKeep
<1>3. \A c \in Cycles : Planning(c)' /\ Resulting(c)'
  <2> SUFFICES ASSUME NEW c \in Cycles PROVE Planning(c)' /\ Resulting(c)'
    OBVIOUS
  <2>1. acq'[c] = acq[c] /\ plan'[c] = plan[c] /\ result'[c] = result[c]
        /\ (c \in proofs' => plan'[c] # None)
    BY DEF workspace, Sound, Planning
  <2> QED BY <1>1, <2>1, PlanningKept, ResultingKept
<1>4. Proven(pointer)'
  BY DEF Sound, Proven, workspace
<1>5. Sole'
  <2> SUFFICES ASSUME NEW q \in Procs, NEW r \in Procs, cycle'[q] = cycle'[r], cycle'[q] # None
               PROVE  q = r
    BY DEF Sole
  <2>1. cycle'[q] = cycle[q] /\ cycle'[r] = cycle[r]
    BY DEF Apart
  <2> QED BY <2>1 DEF Sound, Sole
<1>6. Ordering'
  <2> SUFFICES ASSUME Ordered' PROVE Ordering'
    BY DEF Ordering
  <2>1. Ordered
    BY DEF Ordered
  <2>2. OneUnfinished' /\ (\A c \in Cycles : Staged(c)')
        /\ \A c \in Cycles : result'[c] # None => Tells(result[c], c)'
    BY <2>1 DEF Sound, Ordering, OneUnfinished, Staged, Tells, PlanCommitted, Requests,
                workspace
  <2>3. \A q \in Procs \ {p} : Undisturbed(q)'
    <3> SUFFICES ASSUME NEW q \in Procs \ {p} PROVE Undisturbed(q)'
      OBVIOUS
    <3>1. Undisturbed(q)
      BY <2>1 DEF Sound, Ordering
    <3> QED BY <3>1 DEF Undisturbed, Apart, Tells, Requests, workspace
  <2> QED BY <2>1, <2>2, <2>3 DEF Ordering
<1> QED BY <1>2, <1>3, <1>4, <1>5, <1>6 DEF Sound

(* An invocation that ends, by itself or by dying. *)
LEMMA EndSound ==
  ASSUME Sound, NEW p \in Procs, End(p),
         UNCHANGED <<workspace, specs, acq, plan, result, jobs, scope>>,
         published' \subseteq specs, crashes' \in 0..scope.crashes
  PROVE  Sound'
<1>1. Types'
  BY DEF Sound, Types, End, Goto, workspace, States
<1>2. \A q \in Procs \ {p} : Apart(q)
  BY DEF Sound, Types, End, Goto, Apart
<1>3. pc'[p] = "idle" /\ cycle'[p] = None /\ left'[p] = {} /\ bad'[p] = {}
  BY DEF Sound, Types, End, Goto
<1>4. Position(p)'
  BY <1>3 DEF Position, BeforePointer
<1>5. Undisturbed(p)'
  BY <1>3 DEF Undisturbed, BeforePointer
<1> QED BY <1>1, <1>2, <1>3, <1>4, <1>5, LocalStep

LEMMA RefuseStagedSound == ASSUME Sound, NEW p \in Procs, RefuseStaged(p) PROVE Sound'
<1>1. End(p) /\ UNCHANGED <<workspace, cycleStore, jobs, scope>>
  BY DEF RefuseStaged
<1>2. published' \subseteq specs /\ crashes' \in 0..scope.crashes
  BY DEF RefuseStaged, cycleStore, Sound, Types
<1> QED BY <1>1, <1>2, EndSound DEF cycleStore

LEMMA CrashSound == ASSUME Sound, NEW p \in Procs, Crash(p) PROVE Sound'
<1>1. End(p) /\ UNCHANGED <<workspace, cycleStore, jobs, scope>>
  BY DEF Crash
<1>2. crashes' \in 0..scope.crashes
  <2>1. scope.crashes \in Nat
    BY ScopeAssumption DEF Sound, Types
  <2> QED BY <2>1 DEF Crash, Sound, Types
<1>3. published' \subseteq specs
  BY DEF Crash, cycleStore, Sound, Types
<1> QED BY <1>1, <1>2, <1>3, EndSound DEF cycleStore

(* The cycle of an invocation that runs. *)
LEMMA Running ==
  ASSUME Sound, NEW p \in Procs, pc[p] # "idle"
  PROVE  cycle[p] \in Cycles /\ cycle[p] \in specs /\ p \in scope.procs
BY DEF Sound, Position, Types

(* An invocation that goes to publish a verdict. *)
LEMMA ConcludeSound ==
  ASSUME Sound, NEW p \in Procs, pc[p] \in BeforePointer \union {"open", "execute"},
         result[cycle[p]] = None,
         NEW v \in Verdicts, Conclude(p, v),
         Quiet(v) => plan[cycle[p]] # None /\ Unresolved(cycle[p]) = {},
         Ordered => Tells(v, cycle[p]),
         UNCHANGED <<workspace, cycleStore, jobs, cycle, left, bad, crashes, scope>>,
         seen' \in [Procs -> States], \A q \in Procs \ {p} : seen'[q] = seen[q]
  PROVE  Sound'
<1>1. cycle[p] \in Cycles /\ cycle[p] \in specs /\ p \in scope.procs
  BY Running DEF BeforePointer
<1>2. Types'
  BY DEF Sound, Types, Conclude, Goto, workspace, cycleStore
<1>3. \A q \in Procs \ {p} : Apart(q)
  BY DEF Sound, Types, Conclude, Goto, Apart, cycleStore
<1>4. v # None
  BY NoneAssumption
<1>5. /\ pc'[p] = "publish" /\ verdict'[p] = v /\ cycle'[p] = cycle[p]
      /\ left'[p] = left[p] /\ bad'[p] = bad[p]
  BY DEF Sound, Types, Conclude, Goto
<1>6. \/ left[p] = {} /\ bad[p] = {}
      \/ /\ plan[cycle[p]] # None
         /\ left[p] \subseteq Requests(cycle[p]) /\ bad[p] \subseteq Requests(cycle[p])
  <2>1. cycle[p] \in proofs => plan[cycle[p]] # None
    BY <1>1 DEF Sound, Planning
  <2>2. CASE pc[p] = "execute"
    BY <2>1, <2>2 DEF Sound, Position
  <2>3. CASE pc[p] # "execute"
    BY <2>3 DEF Sound, Position, BeforePointer
  <2> QED BY <2>2, <2>3
<1>7. Position(p)'
  BY <1>1, <1>4, <1>5, <1>6
     DEF Position, BeforePointer, Quiet, Requests, Unresolved, workspace, cycleStore
<1>8. Ordered => Undisturbed(p)'
  BY <1>5 DEF Undisturbed, BeforePointer, Tells, Requests, cycleStore
<1> QED BY <1>2, <1>3, <1>5, <1>7, <1>8, LocalStep DEF cycleStore

LEMMA FailSound ==
  ASSUME Sound, NEW p \in Procs, pc[p] \in BeforePointer \union {"open", "execute"},
         result[cycle[p]] = None,
         NEW code \in {"LOWER_LEVEL_INELIGIBLE", "ACQUISITION_FAILED",
                       "MONITORING_COMMIT_FAILED", "EXECUTION_ATTENTION_REQUIRED"},
         Fail(p, code),
         UNCHANGED <<workspace, cycleStore, jobs, cycle, left, bad, crashes, scope>>,
         seen' \in [Procs -> States], \A q \in Procs \ {p} : seen'[q] = seen[q]
  PROVE  Sound'
<1> DEFINE v == Verdict("FAILED", code, {})
<1>1. v \in Verdicts /\ v.status = "FAILED"
  BY DEF Verdict, Verdicts
<1>2. Conclude(p, v)
  BY DEF Fail
<1>3. ~Quiet(v) /\ Tells(v, cycle[p])
  BY <1>1 DEF Quiet, Tells
<1> QED
  <2> HIDE DEF v
  <2> QED BY <1>1, <1>2, <1>3, ConcludeSound

(* Who opens a cycle sees the current state, and it is not its own. *)
LEMMA Opening ==
  ASSUME Sound, NEW p \in Procs, MayOpen(p), ~StagedConflict(cycle[p]), ~PlanCommitted(cycle[p])
  PROVE  /\ pointer # cycle[p]
         /\ acq[cycle[p]] # None => acq[cycle[p]].prior = pointer
<1>1. cycle[p] \in Cycles
  BY Running DEF MayOpen
<1>2. pointer = cycle[p] => PlanCommitted(cycle[p])
  BY <1>1, NamesAssumption DEF Sound, Proven, PlanCommitted, Planning
<1> QED BY <1>1, <1>2 DEF StagedConflict, Sound, Planning

LEMMA OpenSound == ASSUME Sound, NEW p \in Procs, Open(p) PROVE Sound'
<1>1. MayOpen(p) /\ pc[p] = "open" /\ result[cycle[p]] = None
  BY DEF Open, MayOpen
<1>2. cycle[p] \in Cycles /\ cycle[p] \in specs /\ p \in scope.procs
  BY <1>1, Running
<1>3. pointer # cycle[p] /\ (acq[cycle[p]] # None => acq[cycle[p]].prior = pointer)
  BY <1>1, Opening DEF Open
<1>4. Types'
  BY DEF Sound, Types, Open, Goto, workspace, cycleStore
<1>5. \A q \in Procs \ {p} : Apart(q)
  BY DEF Sound, Types, Open, Goto, Apart, cycleStore
<1>6. /\ pc'[p] = "gate" /\ cycle'[p] = cycle[p] /\ seen'[p] = pointer
      /\ left'[p] = {} /\ bad'[p] = {}
  BY <1>1 DEF Sound, Types, Open, Goto, Position
<1>7. Proven(seen[p])'
  BY <1>6 DEF Open, Sound, Proven, workspace, cycleStore
<1>8. Position(p)'
  BY <1>1, <1>2, <1>3, <1>6, <1>7 DEF Open, Position, BeforePointer, workspace, cycleStore
<1>9. Undisturbed(p)'
  BY <1>6 DEF Open, Undisturbed, workspace
<1> QED BY <1>4, <1>5, <1>6, <1>8, <1>9, LocalStep DEF Open, cycleStore

LEMMA ResumeSound == ASSUME Sound, NEW p \in Procs, Resume(p) PROVE Sound'
<1>1. pc[p] = "open" /\ result[cycle[p]] = None /\ left[p] = {} /\ bad[p] = {}
  BY DEF Resume, MayOpen, Sound, Position
<1>2. cycle[p] \in Cycles /\ cycle[p] \in specs /\ p \in scope.procs
  BY <1>1, Running
<1>3. /\ seen' = [seen EXCEPT ![p] = pointer]
      /\ UNCHANGED <<workspace, cycleStore, jobs, cycle, bad, crashes, scope>>
  BY DEF Resume
<1>4. CASE cycle[p] \notin proofs
  <2>1. Fail(p, "LOWER_LEVEL_INELIGIBLE") /\ UNCHANGED left
    BY <1>4 DEF Resume
  <2>2. seen' \in [Procs -> States] /\ \A q \in Procs \ {p} : seen'[q] = seen[q]
    BY <1>3 DEF Sound, Types
  <2> QED BY <1>1, <1>3, <2>1, <2>2, FailSound
<1>5. CASE cycle[p] \in proofs
  <2>1. /\ left' = [left EXCEPT ![p] = Requests(cycle[p])]
        /\ pc' = [pc EXCEPT ![p] = "execute"] /\ verdict' = verdict
    BY <1>5 DEF Resume, Goto
  <2>2. plan[cycle[p]] \in Plans
    BY <1>2, <1>5 DEF Sound, Planning, Types
  <2>3. Requests(cycle[p]) \subseteq Events
    BY <2>2 DEF Requests, Plans
  <2>4. Types'
    BY <1>3, <2>1, <2>3 DEF Sound, Types, workspace, cycleStore
  <2>5. \A q \in Procs \ {p} : Apart(q)
    BY <1>3, <2>1 DEF Sound, Types, Apart, cycleStore
  <2>6. /\ pc'[p] = "execute" /\ cycle'[p] = cycle[p] /\ bad'[p] = {}
        /\ left'[p] = Requests(cycle[p])
    BY <1>1, <1>3, <2>1 DEF Sound, Types
  <2>7. Position(p)'
    BY <1>1, <1>2, <1>3, <1>5, <2>6
       DEF Position, BeforePointer, Requests, workspace, cycleStore
  <2>8. Undisturbed(p)'
    BY <2>6 DEF Undisturbed, BeforePointer
  <2> QED BY <1>3, <2>4, <2>5, <2>6, <2>7, <2>8, LocalStep DEF cycleStore
<1> QED BY <1>4, <1>5

LEMMA PassGateSound == ASSUME Sound, NEW p \in Procs, PassGate(p) PROVE Sound'
<1>1. pc[p] = "gate"
  BY DEF PassGate
<1>2. cycle[p] \in Cycles /\ Position(p)
  BY <1>1, Running DEF Sound
<1>3. Types'
  BY DEF Sound, Types, PassGate, Goto, workspace, cycleStore
<1>4. \A q \in Procs \ {p} : Apart(q)
  BY DEF Sound, Types, PassGate, Goto, Apart, cycleStore
<1>5. /\ pc'[p] = IF acq[cycle[p]] = None THEN "acquire" ELSE "plan"
      /\ cycle' = cycle /\ seen' = seen /\ left' = left /\ bad' = bad
  BY DEF Sound, Types, PassGate, Goto
<1>6. Concluded(seen[p])
  BY DEF PassGate, GateOpen, Concluded
<1>7. /\ acq' = acq /\ plan' = plan /\ result' = result /\ proofs' = proofs
      /\ specs' = specs /\ jobs' = jobs /\ pointer' = pointer /\ scope' = scope
  BY DEF PassGate, workspace, cycleStore
<1>8. Concluded(seen[p])' /\ Proven(seen[p])'
  BY <1>1, <1>2, <1>5, <1>6, <1>7
     DEF Concluded, Unresolved, Requests, Proven, Position, BeforePointer
<1>9. CASE acq[cycle[p]] = None
  BY <1>1, <1>2, <1>5, <1>7, <1>8, <1>9, <1>3, <1>4, LocalStep
     DEF Position, BeforePointer, PassGate, Sound, Ordering, Undisturbed
<1>a. CASE acq[cycle[p]] # None
  BY <1>1, <1>2, <1>5, <1>7, <1>8, <1>a, <1>3, <1>4, LocalStep
     DEF Position, BeforePointer, PassGate, Sound, Ordering, Undisturbed
<1> QED BY <1>9, <1>a

(* Under the runner a gate that is closed was never open: nothing is planned. *)
LEMMA CloseGateSound == ASSUME Sound, NEW p \in Procs, CloseGate(p) PROVE Sound'
<1>1. /\ pc[p] = "gate" /\ ~GateOpen(seen[p])
      /\ UNCHANGED <<workspace, cycleStore, jobs, cycle, seen, left, bad, crashes, scope>>
  BY DEF CloseGate
<1>2. cycle[p] \in Cycles /\ Position(p) /\ seen[p] \in States /\ Types
  BY <1>1, Running DEF Sound, Types
<1>3. result[cycle[p]] = None /\ seen' \in [Procs -> States]
      /\ \A q \in Procs \ {p} : seen'[q] = seen[q]
  BY <1>1, <1>2 DEF Position, BeforePointer, Types
<1>4. CASE ~Committed(seen[p])
  BY <1>1, <1>3, <1>4, FailSound DEF CloseGate, BeforePointer
<1>5. CASE Committed(seen[p])
  <2> DEFINE v == Verdict("ATTENTION_REQUIRED", "UNRESOLVED_CURRENT_RUN", Unresolved(seen[p]))
  <2>1. seen[p] \in Cycles /\ seen[p] \in proofs /\ Unresolved(seen[p]) # {}
    BY <1>1, <1>5 DEF GateOpen, Committed
  <2>2. plan[seen[p]] \in Plans
    BY <2>1 DEF Sound, Planning, Types
  <2>3. v \in Verdicts /\ ~Quiet(v)
    BY <2>2 DEF Verdict, Verdicts, Unresolved, Requests, Plans, Quiet
  <2>4. Tells(v, cycle[p])
    <3>1. acq[cycle[p]] # None => Concluded(seen[p])
      BY <1>1, <1>2 DEF Sound, Planning, Position, BeforePointer
    <3>2. acq[cycle[p]] = None
      BY <2>1, <3>1 DEF Concluded
    <3> QED BY <1>2, <3>2 DEF Tells, Sound, Planning
  <2>5. Conclude(p, v)
    BY <1>5 DEF CloseGate
  <2> HIDE DEF v
  <2> QED BY <1>1, <1>3, <2>3, <2>4, <2>5, ConcludeSound DEF BeforePointer
<1> QED BY <1>4, <1>5

LEMMA AcquisitionFailsSound ==
  ASSUME Sound, NEW p \in Procs, AcquisitionFails(p) PROVE Sound'
<1>1. result[cycle[p]] = None /\ pc[p] = "acquire"
  BY DEF AcquisitionFails, Sound, Position, BeforePointer
<1> QED BY <1>1, FailSound DEF AcquisitionFails, BeforePointer, Sound, Types

LEMMA CommitFailsSound ==
  ASSUME Sound, NEW p \in Procs, CommitFails(p) PROVE Sound'
<1>1. result[cycle[p]] = None /\ pc[p] \in BeforePointer
  BY DEF CommitFails, Sound, Position, BeforePointer
<1> QED BY <1>1, FailSound DEF CommitFails, Sound, Types

LEMMA ExecutionFailsSound ==
  ASSUME Sound, NEW p \in Procs, ExecutionFails(p) PROVE Sound'
<1>1. result[cycle[p]] = None /\ pc[p] = "execute"
  BY DEF ExecutionFails, Sound, Position
<1> QED BY <1>1, FailSound DEF ExecutionFails, Sound, Types

(* All requests have a disposition: a quiet verdict means that none is open. *)
LEMMA ExecutedSound == ASSUME Sound, NEW p \in Procs, Executed(p) PROVE Sound'
<1> DEFINE v == Status(p)
<1>1. /\ pc[p] = "execute" /\ left[p] = {}
      /\ UNCHANGED <<workspace, cycleStore, jobs, cycle, seen, left, bad, crashes, scope>>
  BY DEF Executed
<1>2. cycle[p] \in Cycles /\ Position(p) /\ Types
  BY <1>1, Running DEF Sound
<1>3. plan[cycle[p]] # None /\ plan[cycle[p]] \in Plans
  BY <1>1, <1>2 DEF Position, Sound, Planning, Types
<1>4. Alerted(p) \subseteq Events /\ Requests(cycle[p]) \ Minor \subseteq Alerted(p)
  BY <1>3 DEF Alerted, Requests, Plans
<1>5. v \in Verdicts
  BY <1>4 DEF Status, Verdict, Verdicts
<1>6. Tells(v, cycle[p])
  BY <1>4 DEF Tells, Status, Verdict
<1>7. Quiet(v) => Unresolved(cycle[p]) = {}
  <2>1. bad[p] = {} => Unresolved(cycle[p]) = {}
    BY <1>1, <1>2 DEF Position, Unresolved
  <2>2. Alerted(p) = {} => bad[p] = {}
    BY <1>1, <1>2 DEF Position, Alerted
  <2> QED BY <2>1, <2>2 DEF Quiet, Status, Verdict
<1>8. Conclude(p, v) /\ result[cycle[p]] = None
  BY <1>1, <1>2 DEF Executed, Position
<1>9. seen' \in [Procs -> States] /\ \A q \in Procs \ {p} : seen'[q] = seen[q]
  BY <1>1, <1>2 DEF Types
<1> HIDE DEF v
<1> QED BY <1>1, <1>3, <1>5, <1>6, <1>7, <1>8, <1>9, ConcludeSound

-----------------------------------------------------------------------------
(* Steps that write *)

LEMMA ReuseSound == ASSUME Sound, NEW p \in Procs, Reuse(p) PROVE Sound'
<1>1. End(p) /\ UNCHANGED <<workspace, specs, acq, plan, result, jobs, crashes, scope>>
  BY DEF Reuse
<1>2. cycle[p] \in specs
  BY Running DEF Reuse
<1>3. published' \subseteq specs /\ crashes' \in 0..scope.crashes
  BY <1>2 DEF Reuse, Sound, Types
<1> QED BY <1>1, <1>3, EndSound

LEMMA PublishPointerSound ==
  ASSUME Sound, NEW p \in Procs, PublishPointer(p) PROVE Sound'
<1>1. End(p) /\ UNCHANGED <<workspace, specs, acq, plan, result, jobs, crashes, scope>>
  BY DEF PublishPointer
<1>2. cycle[p] \in specs
  BY Running DEF PublishPointer
<1>3. published' \subseteq specs /\ crashes' \in 0..scope.crashes
  BY <1>2 DEF PublishPointer, Sound, Types
<1> QED BY <1>1, <1>3, EndSound

(* The runner has one invocation. *)
LEMMA Alone ==
  ASSUME Sound, Ordered, NEW p \in Procs, NEW q \in Procs, pc[p] # "idle", pc[q] # "idle"
  PROVE  p = q
BY Running, ScopeAssumption DEF Ordered, Sound, Types

(* The step of an invocation that writes for its cycle c only. *)
LEMMA WriteStep ==
  ASSUME Sound, Stable, Types', NEW p \in Procs, NEW c \in Cycles, c = cycle[p],
         pc[p] # "idle", specs' = specs, cycle' = cycle,
         \A q \in Procs \ {p} :
           /\ pc'[q] = pc[q] /\ seen'[q] = seen[q]
           /\ left'[q] = left[q] /\ bad'[q] = bad[q] /\ verdict'[q] = verdict[q],
         \A d \in Cycles \ {c} :
           /\ acq'[d] = acq[d] /\ plan'[d] = plan[d] /\ result'[d] = result[d]
           /\ d \in proofs' => d \in proofs,
         result[c] # None => result'[c] # None,
         Position(p)', Proven(pointer)', Planning(c)', Resulting(c)',
         Ordered => /\ Staged(c)' /\ Undisturbed(p)'
                    /\ result'[c] # None => Tells(result[c], c)'
                    /\ pointer' # pointer => result[c] = None
  PROVE  Sound'
<1>1. \A q \in Procs \ {p} : Position(q)'
  <2> SUFFICES ASSUME NEW q \in Procs \ {p} PROVE Position(q)'
    OBVIOUS
  <2>1. c # cycle[q]
    BY NamesAssumption DEF Sound, Sole
  <2>2. Apart(q)
    BY <2>1 DEF Apart
  <2> QED BY <2>2, OthersKeep
<1>2. \A d \in Cycles : Planning(d)' /\ Resulting(d)'
  <2> SUFFICES ASSUME NEW d \in Cycles \ {c} PROVE Planning(d)' /\ Resulting(d)'
    OBVIOUS
  <2>1. d \in proofs' => plan'[d] # None
    BY DEF Sound, Planning
  <2> QED BY <2>1, PlanningKept, ResultingKept
<1>3. Sole'
  BY DEF Sound, Sole
<1>4. Ordering'
  <2> SUFFICES ASSUME Ordered PROVE Ordering'
    BY DEF Ordering, Ordered, Stable
  <2>1. c \in specs
    BY Running
  <2>2. \A d \in Cycles : result[d] # None => result'[d] # None
    OBVIOUS
  <2>3. OneUnfinished'
    BY <2>2 DEF OneUnfinished, Sound, Ordering, Types
  <2>4. \A d \in Cycles \ {c} : Staged(d)'
    <3> SUFFICES ASSUME NEW d \in Cycles \ {c}, acq[d] # None, result[d] = None
                 PROVE  pointer' = acq'[d].prior \/ PlanCommitted(d)'
      BY DEF Staged
    <3>1. d \in specs
      BY DEF Sound, Planning
    <3>2. result[c] # None
      BY <2>1, <3>1 DEF Sound, Ordering, OneUnfinished
    <3>3. pointer' = pointer
      BY <3>2
    <3> QED BY <3>3 DEF Sound, Ordering, Staged, PlanCommitted
  <2>5. \A d \in Cycles \ {c} : result'[d] # None => Tells(result[d], d)'
    BY DEF Sound, Ordering, Tells, Requests
  <2>6. \A q \in Procs \ {p} : Undisturbed(q)'
    <3> SUFFICES ASSUME NEW q \in Procs \ {p} PROVE Undisturbed(q)'
      OBVIOUS
    <3>1. pc'[q] = "idle"
      BY Alone
    <3> QED BY <3>1 DEF Undisturbed, BeforePointer
  <2> QED BY <2>3, <2>4, <2>5, <2>6 DEF Ordering
<1> QED BY <1>1, <1>2, <1>3, <1>4 DEF Sound

LEMMA StartSound == ASSUME Sound, NEW p \in Procs, NEW c \in Cycles, Start(p, c) PROVE Sound'
<1>1. /\ pc[p] = "idle" /\ p \in scope.procs /\ (\A q \in Procs : cycle[q] # c)
      /\ MayStart(c) /\ specs' = specs \union {c}
      /\ cycle' = [cycle EXCEPT ![p] = c] /\ pc' = [pc EXCEPT ![p] = "open"]
      /\ UNCHANGED <<pointer, proofs, acq, plan, result, published, jobs, seen, left, bad,
                     verdict, crashes, scope>>
  BY DEF Start, Goto, workspace
<1>2. Types'
  BY <1>1 DEF Sound, Types
<1>3. Stable
  BY <1>1 DEF Stable
<1>4. \A q \in Procs \ {p} : Position(q)'
  <2> SUFFICES ASSUME NEW q \in Procs \ {p} PROVE Position(q)'
    OBVIOUS
  <2>1. Apart(q)
    BY <1>1 DEF Apart, Sound, Types
  <2> QED BY <1>3, <2>1, OthersKeep
<1>5. Position(p)'
  <2>1. pc'[p] = "open" /\ cycle'[p] = c /\ left'[p] = {} /\ bad'[p] = {}
    BY <1>1 DEF Sound, Types, Position
  <2> QED BY <1>1, <2>1 DEF Position, BeforePointer
<1>6. \A d \in Cycles : Planning(d)' /\ Resulting(d)'
  <2> SUFFICES ASSUME NEW d \in Cycles PROVE Planning(d)' /\ Resulting(d)'
    OBVIOUS
  <2>1. d \in proofs' => plan'[d] # None
    BY <1>1 DEF Sound, Planning
  <2> QED BY <1>1, <1>3, <2>1, PlanningKept, ResultingKept
<1>7. Proven(pointer)' /\ Sole'
  BY <1>1 DEF Sound, Types, Proven, Sole
<1>8. Ordering'
  <2> SUFFICES ASSUME Ordered PROVE Ordering'
    BY <1>1 DEF Ordering, Ordered
  <2>1. OneUnfinished'
    BY <1>1 DEF OneUnfinished, MayStart, Sequence!InTurn, Sound, Ordering
  <2>2. (\A d \in Cycles : Staged(d)')
        /\ \A d \in Cycles : result'[d] # None => Tells(result[d], d)'
    BY <1>1 DEF Sound, Ordering, Staged, Tells, PlanCommitted, Requests
  <2>3. \A q \in Procs : Undisturbed(q)'
    <3> SUFFICES ASSUME NEW q \in Procs PROVE Undisturbed(q)'
      OBVIOUS
    <3>1. CASE q = p
      BY <1>1, <3>1 DEF Undisturbed, BeforePointer, Sound, Types
    <3>2. CASE q # p
      BY <1>1, <3>2 DEF Undisturbed, Tells, Requests, Sound, Types, Ordering
    <3> QED BY <3>1, <3>2
  <2> QED BY <2>1, <2>2, <2>3 DEF Ordering
<1> QED BY <1>2, <1>4, <1>5, <1>6, <1>7, <1>8 DEF Sound

LEMMA AcquireSound == ASSUME Sound, NEW p \in Procs, Acquire(p) PROVE Sound'
<1>1. pc[p] = "acquire"
  BY DEF Acquire
<1>2. PICK c \in Cycles : c = cycle[p] /\ c \in specs /\ p \in scope.procs
  BY <1>1, Running
<1>3. PICK batch \in SUBSET scope.events :
        acq' = [acq EXCEPT ![c] = [prior |-> seen[p], batch |-> batch]]
  BY <1>2 DEF Acquire
<1>4. /\ pc' = [pc EXCEPT ![p] = "plan"]
      /\ UNCHANGED <<workspace, specs, plan, result, published, jobs, cycle, seen, left, bad,
                     verdict, crashes, scope>>
  BY DEF Acquire, Goto
<1> DEFINE a == [prior |-> seen[p], batch |-> batch]
<1>5. Types /\ Position(p) /\ seen[p] \in States
  BY DEF Sound, Types
<1>6. a \in Acquisitions /\ a # None
  <2>1. scope.events \subseteq Events
    BY <1>5, ScopeAssumption DEF Types
  <2> QED BY <1>5, <2>1, NoneAssumption DEF Acquisitions
<1>7. acq' \in [Cycles -> {None} \union Acquisitions] /\ acq'[c] = a
      /\ \A d \in Cycles \ {c} : acq'[d] = acq[d]
  <2> HIDE DEF a
  <2>1. acq' = [acq EXCEPT ![c] = a]
    BY <1>3 DEF a
  <2> QED BY <1>5, <1>6, <2>1 DEF Types
<1>8. Types' /\ Stable
  BY <1>4, <1>5, <1>7 DEF Types, Stable, workspace
<1>9. acq[c] = None /\ plan[c] = None /\ result[c] = None
  BY <1>1, <1>2, <1>5 DEF Position, BeforePointer, Sound, Planning
<1>a. Proven(seen[p]) /\ Concluded(seen[p]) /\ seen[p] # c /\ (pointer = None => seen[p] = None)
  BY <1>1, <1>2, <1>5 DEF Position, BeforePointer
<1>b. Proven(seen[p])' /\ Concluded(seen[p])'
  BY <1>4, <1>a DEF Proven, Concluded, Unresolved, Requests, workspace
<1>c. Planning(c)'
  <2>1. acq'[c].prior = seen[p] /\ seen'[p] = seen[p]
    BY <1>4, <1>7
  <2>2. Proven(acq[c].prior)' /\ Concluded(acq[c].prior)'
    BY <1>b, <2>1 DEF Proven, Concluded, Unresolved, Requests
  <2> QED BY <1>2, <1>4, <1>9, <1>a, <2>1, <2>2 DEF Planning, workspace, Sound
<1>d. pc'[p] = "plan" /\ cycle'[p] = c /\ acq'[c] # None /\ acq'[c].prior = seen[p]
  BY <1>2, <1>4, <1>5, <1>6, <1>7 DEF Types
<1>e. Position(p)'
  BY <1>1, <1>2, <1>4, <1>5, <1>9, <1>a, <1>b, <1>d DEF Position, BeforePointer, workspace
<1>f. Resulting(c)' /\ Proven(pointer)'
  BY <1>4, <1>9 DEF Resulting, Proven, Sound, workspace
<1>g. Ordered => Staged(c)' /\ Undisturbed(p)' /\ pointer' = pointer
  BY <1>1, <1>4, <1>d DEF Staged, Undisturbed, BeforePointer, Sound, Ordering, workspace
<1>h. \A q \in Procs \ {p} : pc'[q] = pc[q]
  BY <1>4, <1>5 DEF Types
<1> QED BY <1>1, <1>2, <1>4, <1>7, <1>8, <1>9, <1>c, <1>e, <1>f, <1>g, <1>h, WriteStep
        DEF workspace

(* Planning again gives the plan that is staged. *)
LEMMA SavePlanSound == ASSUME Sound, NEW p \in Procs, SavePlan(p) PROVE Sound'
<1>1. pc[p] = "plan"
  BY DEF SavePlan
<1>2. PICK c \in Cycles : c = cycle[p] /\ c \in specs /\ p \in scope.procs
  BY <1>1, Running
<1>3. PICK s \in States : s = seen[p]
  BY DEF Sound, Types
<1>4. /\ plan' = [plan EXCEPT ![c] = Planned(s, c)] /\ pc' = [pc EXCEPT ![p] = "prove"]
      /\ UNCHANGED <<workspace, specs, acq, result, published, jobs, cycle, seen, left, bad,
                     verdict, crashes, scope>>
  BY <1>2, <1>3 DEF SavePlan, Goto
<1>5. Types /\ Position(p) /\ Planning(c)
  BY DEF Sound
<1>6. /\ result[c] = None /\ s # c /\ Proven(s) /\ Concluded(s)
      /\ acq[c] # None /\ acq[c].prior = s /\ acq[c].batch \subseteq Events
  BY <1>1, <1>2, <1>3, <1>5 DEF Position, BeforePointer, Types, Acquisitions
<1>7. s \in Cycles => s \in proofs /\ plan[s] # None /\ plan[s] \in Plans /\ plan[s].next = s
  BY <1>5, <1>6 DEF Proven, Sound, Planning, Types
<1>8. Planned(s, c) \in Plans
  <2>1. Processed(s) \subseteq Events
    BY <1>7 DEF Processed, Plans
  <2> QED BY <1>6, <2>1, NamesAssumption DEF Planned, Plans, States
<1>9. Planned(s, c) # None
  BY <1>8, NoneAssumption DEF Plans
<1>a. plan[c] # None => plan[c] = Planned(s, c)
  BY <1>5, <1>6 DEF Planning
<1>b. /\ plan' \in [Cycles -> {None} \union Plans] /\ plan'[c] = Planned(s, c)
      /\ \A d \in Cycles \ {c} : plan'[d] = plan[d]
  <2> DEFINE new == Planned(s, c)
  <2>1. plan' = [plan EXCEPT ![c] = new] /\ new \in Plans
    BY <1>4, <1>8
  <2> HIDE DEF new
  <2>2. /\ plan' \in [Cycles -> {None} \union Plans] /\ plan'[c] = new
        /\ \A d \in Cycles \ {c} : plan'[d] = plan[d]
    BY <1>5, <2>1 DEF Types
  <2> QED BY <2>2 DEF new
<1>c. Types' /\ Stable
  BY <1>4, <1>5, <1>a, <1>b DEF Types, Stable, workspace
<1>d. /\ s \in Cycles => s \in proofs' /\ plan'[s] = plan[s] /\ plan'[s].next = s
      /\ s \in Cycles => Unresolved(s)' = {}
  BY <1>6, <1>c, StaysProven
<1>e. Planning(c)'
  <2>1. acq'[c] = acq[c] /\ acq'[c].prior = s
    BY <1>4, <1>6
  <2>2. Proven(acq[c].prior)' /\ Concluded(acq[c].prior)'
    BY <1>d, <2>1 DEF Proven, Concluded, Unresolved, Requests
  <2>3. (Planned(acq[c].prior, c))' = Planned(s, c)
    BY <1>d, <2>1 DEF Planned, Processed
  <2>4. plan'[c] = (Planned(acq[c].prior, c))'
    BY <1>b, <2>3
  <2>5. /\ acq'[c] # None /\ acq'[c].prior # c /\ c \in specs' /\ plan'[c] # None
        /\ pointer' = None => acq'[c].prior = None
    BY <1>4, <1>5, <1>6, <1>9, <1>b, <2>1 DEF Planning, workspace
  <2> QED BY <2>2, <2>4, <2>5 DEF Planning
<1>f. /\ pc'[p] = "prove" /\ cycle'[p] = c /\ seen'[p] = s /\ acq'[c] = acq[c]
      /\ plan'[c] # None /\ result'[c] = None /\ left'[p] = {} /\ bad'[p] = {}
  BY <1>1, <1>2, <1>3, <1>4, <1>5, <1>6, <1>9, <1>b DEF Types, Position, BeforePointer
<1>g. Proven(seen[p])' /\ Concluded(seen[p])'
  BY <1>d, <1>f DEF Proven, Concluded, Unresolved, Requests
<1>h. pointer' = pointer /\ (pointer = None => s = None) /\ specs' = specs /\ scope' = scope
  BY <1>1, <1>3, <1>4, <1>5 DEF Position, BeforePointer, workspace
<1>i. Position(p)'
  BY <1>2, <1>6, <1>f, <1>g, <1>h DEF Position, BeforePointer
<1>j. Resulting(c)'
  BY <1>f DEF Resulting
<1>k. Proven(pointer)'
  BY <1>c, <1>h, StaysProven DEF Sound, Types, Proven
<1>l. Ordered => Staged(c)' /\ Undisturbed(p)'
  BY <1>1, <1>3, <1>6, <1>f, <1>h DEF Staged, Undisturbed, BeforePointer, Sound, Ordering
<1>m. \A q \in Procs \ {p} : pc'[q] = pc[q]
  BY <1>4, <1>5 DEF Types
<1> QED BY <1>1, <1>2, <1>4, <1>6, <1>b, <1>c, <1>e, <1>f, <1>h, <1>i, <1>j, <1>k, <1>l, <1>m,
           WriteStep DEF workspace

LEMMA ProveSound == ASSUME Sound, NEW p \in Procs, Prove(p) PROVE Sound'
<1>1. pc[p] = "prove"
  BY DEF Prove
<1>2. PICK c \in Cycles : c = cycle[p] /\ c \in specs /\ p \in scope.procs
  BY <1>1, Running
<1>3. /\ proofs' = proofs \union {c} /\ pc' = [pc EXCEPT ![p] = "point"]
      /\ pointer' = pointer /\ acq' = acq /\ plan' = plan /\ result' = result
      /\ UNCHANGED <<specs, published, jobs, cycle, seen, left, bad, verdict, crashes, scope>>
  BY <1>2 DEF Prove, Goto, cycleStore
<1>4. Types /\ Position(p) /\ plan[c] # None /\ result[c] = None
  BY <1>1, <1>2 DEF Sound, Position, BeforePointer
<1>5. Types' /\ Stable
  BY <1>2, <1>3, <1>4 DEF Types, Stable
<1>6. Planning(c)'
  BY <1>3, <1>4, <1>5, PlanningKept
<1>7. pc'[p] = "point" /\ cycle'[p] = c /\ seen'[p] = seen[p]
  BY <1>2, <1>3, <1>4 DEF Types
<1>8. Proven(seen[p])' /\ Concluded(seen[p])'
  BY <1>1, <1>3, <1>4, <1>7
     DEF Proven, Concluded, Unresolved, Requests, Position, BeforePointer
<1>9. Position(p)'
  BY <1>1, <1>2, <1>3, <1>4, <1>7, <1>8 DEF Position, BeforePointer
<1>a. Proven(pointer)' /\ Resulting(c)'
  BY <1>3, <1>4 DEF Sound, Proven, Resulting
<1>b. Ordered => Staged(c)' /\ Undisturbed(p)'
  BY <1>1, <1>3, <1>7 DEF Staged, Undisturbed, BeforePointer, Sound, Ordering, PlanCommitted
<1>c. \A q \in Procs \ {p} : pc'[q] = pc[q]
  BY <1>3, <1>4 DEF Types
<1> QED BY <1>1, <1>2, <1>3, <1>4, <1>5, <1>6, <1>9, <1>a, <1>b, <1>c, WriteStep

(* Where the pointer goes: to the run of the cycle, which is proven, or it  *)
(* stays with the state that the cycle was planned on.                       *)
LEMMA Target ==
  ASSUME Sound, NEW p \in Procs, pc[p] = "point"
  PROVE  /\ plan[cycle[p]].next \in States \ {None}
         /\ Proven(plan[cycle[p]].next)
         /\ plan[cycle[p]] = Planned(seen[p], cycle[p])
         /\ plan[cycle[p]] # None /\ cycle[p] \in proofs /\ result[cycle[p]] = None
         /\ left[p] = {} /\ bad[p] = {}
<1>1. cycle[p] \in Cycles /\ Position(p) /\ Planning(cycle[p]) /\ Types
  BY Running DEF Sound
<1>2. /\ plan[cycle[p]] # None /\ cycle[p] \in proofs /\ acq[cycle[p]].prior = seen[p]
      /\ result[cycle[p]] = None /\ left[p] = {} /\ bad[p] = {} /\ Proven(seen[p])
  BY <1>1 DEF Position, BeforePointer
<1>3. plan[cycle[p]] = Planned(seen[p], cycle[p]) /\ plan[cycle[p]] \in Plans
  BY <1>1, <1>2 DEF Planning, Types
<1>4. plan[cycle[p]].next \in {cycle[p], Initial, seen[p]}
  BY <1>3 DEF Planned
<1>5. Proven(plan[cycle[p]].next)
  BY <1>2, <1>4, NamesAssumption DEF Proven
<1> QED BY <1>2, <1>3, <1>5 DEF Plans

LEMMA PointSound == ASSUME Sound, NEW p \in Procs, Point(p) PROVE Sound'
<1>1. pc[p] = "point"
  BY DEF Point
<1>2. PICK c \in Cycles : c = cycle[p] /\ c \in specs /\ p \in scope.procs
  BY <1>1, Running
<1>3. /\ pointer' = plan[c].next /\ left' = [left EXCEPT ![p] = Requests(c)]
      /\ pc' = [pc EXCEPT ![p] = "execute"]
      /\ acq' = acq /\ plan' = plan /\ result' = result
      /\ UNCHANGED <<proofs, specs, published, jobs, cycle, seen, bad, verdict, crashes, scope>>
  BY <1>2 DEF Point, Goto, cycleStore
<1>4. /\ Types /\ plan[c] # None /\ c \in proofs /\ result[c] = None
      /\ plan[c].next \in States \ {None} /\ Proven(plan[c].next) /\ bad[p] = {}
  BY <1>1, <1>2, Target DEF Sound
<1>5. Requests(c) \subseteq Events
  BY <1>4 DEF Types, Plans, Requests
<1>6. Types' /\ Stable
  BY <1>3, <1>4, <1>5 DEF Types, Stable
<1>7. Planning(c)'
  BY <1>3, <1>4, <1>6, PlanningKept
<1>8. pc'[p] = "execute" /\ cycle'[p] = c /\ left'[p] = Requests(c) /\ bad'[p] = {}
  BY <1>2, <1>3, <1>4 DEF Types
<1>9. Position(p)'
  BY <1>2, <1>3, <1>4, <1>8 DEF Position, BeforePointer, Requests
<1>a. Proven(pointer)' /\ Resulting(c)'
  BY <1>3, <1>4 DEF Proven, Resulting
<1>b. Staged(c)' /\ Undisturbed(p)'
  BY <1>3, <1>4, <1>8 DEF Staged, Undisturbed, BeforePointer, PlanCommitted
<1>c. \A q \in Procs \ {p} : pc'[q] = pc[q] /\ left'[q] = left[q]
  BY <1>3, <1>4 DEF Types
<1> QED BY <1>1, <1>2, <1>3, <1>4, <1>6, <1>7, <1>9, <1>a, <1>b, <1>c, WriteStep

LEMMA PointUnsyncedSound == ASSUME Sound, NEW p \in Procs, PointUnsynced(p) PROVE Sound'
<1> DEFINE v == Verdict("FAILED", "MONITORING_COMMIT_FAILED", {})
<1>1. pc[p] = "point"
  BY DEF PointUnsynced
<1>2. PICK c \in Cycles : c = cycle[p] /\ c \in specs /\ p \in scope.procs
  BY <1>1, Running
<1>3. /\ pointer' = plan[c].next /\ verdict' = [verdict EXCEPT ![p] = v]
      /\ pc' = [pc EXCEPT ![p] = "publish"]
      /\ acq' = acq /\ plan' = plan /\ result' = result
      /\ UNCHANGED <<proofs, specs, published, jobs, cycle, seen, left, bad, crashes, scope>>
  BY <1>2 DEF PointUnsynced, Fail, Conclude, Goto, cycleStore
<1>4. v \in Verdicts /\ v.status = "FAILED" /\ v # None
  <2>1. v \in Verdicts /\ v.status = "FAILED"
    BY DEF Verdict, Verdicts
  <2> QED BY <2>1, NoneAssumption
<1>5. /\ Types /\ plan[c] # None /\ result[c] = None /\ left[p] = {} /\ bad[p] = {}
      /\ plan[c].next \in States \ {None} /\ Proven(plan[c].next)
  BY <1>1, <1>2, Target DEF Sound
<1> HIDE DEF v
<1>6. Types' /\ Stable
  BY <1>3, <1>4, <1>5 DEF Types, Stable
<1>7. Planning(c)'
  BY <1>3, <1>5, <1>6, PlanningKept
<1>8. pc'[p] = "publish" /\ cycle'[p] = c /\ verdict'[p] = v
  BY <1>2, <1>3, <1>5 DEF Types
<1>9. Position(p)'
  BY <1>2, <1>3, <1>4, <1>5, <1>8 DEF Position, BeforePointer, Quiet
<1>a. Proven(pointer)' /\ Resulting(c)'
  BY <1>3, <1>5 DEF Proven, Resulting
<1>b. Staged(c)' /\ Undisturbed(p)'
  BY <1>3, <1>4, <1>5, <1>8 DEF Staged, Undisturbed, BeforePointer, PlanCommitted, Tells
<1>c. \A q \in Procs \ {p} : pc'[q] = pc[q] /\ verdict'[q] = verdict[q]
  BY <1>3, <1>5 DEF Types
<1> QED BY <1>1, <1>2, <1>3, <1>5, <1>6, <1>7, <1>9, <1>a, <1>b, <1>c, WriteStep

(* What an execution may make of a request. *)
LEMMA AnswerOf ==
  ASSUME NEW c \in Cycles, NEW e \in Events, NEW d \in Dispositions(c, e)
  PROVE  /\ d \in {"RESOLVED", "UNRESOLVED"}
         /\ e \in Minor \union Urgent => d = "RESOLVED"
         /\ jobs[c][e] = "RESOLVED" => d = "RESOLVED"
<1>1. <<c, e>> \in Cycles \X Events /\ <<c, e>>[1] = c /\ <<c, e>>[2] = e
  OBVIOUS
<1>2. [r \in Cycles \X Events |-> jobs[r[1]][r[2]]][<<c, e>>] = jobs[c][e]
  BY <1>1
<1>3. e \in Minor \union Urgent => <<c, e>> \in Cycles \X (Minor \union Urgent)
  OBVIOUS
<1> QED BY <1>2, <1>3 DEF Dispositions, Gate!Answers

(* One request gets its disposition. *)
LEMMA ExecuteSound == ASSUME Sound, NEW p \in Procs, Execute(p) PROVE Sound'
<1>1. pc[p] = "execute"
  BY DEF Execute
<1>2. PICK c \in Cycles : c = cycle[p] /\ c \in specs /\ p \in scope.procs
  BY <1>1, Running
<1>3. /\ acq' = acq /\ plan' = plan /\ result' = result /\ pointer' = pointer
      /\ UNCHANGED <<proofs, specs, published, pc, cycle, seen, verdict, crashes, scope>>
  BY DEF Execute, workspace, cycleStore
<1>4a. PICK e \in left[p] : \E disposition \in Dispositions(c, e) :
        /\ jobs' = [jobs EXCEPT ![c][e] = disposition]
        /\ left' = [left EXCEPT ![p] = @ \ {e}]
        /\ bad' = [bad EXCEPT ![p] = IF disposition = "UNRESOLVED" THEN @ \union {e} ELSE @]
  BY <1>2 DEF Execute
<1>4. PICK disposition \in Dispositions(c, e) :
        /\ jobs' = [jobs EXCEPT ![c][e] = disposition]
        /\ left' = [left EXCEPT ![p] = @ \ {e}]
        /\ bad' = [bad EXCEPT ![p] = IF disposition = "UNRESOLVED" THEN @ \union {e} ELSE @]
  BY <1>4a
<1>5. /\ Types /\ plan[c] # None /\ c \in proofs /\ result[c] = None
      /\ left[p] \subseteq Requests(c) /\ bad[p] \subseteq Requests(c)
      /\ bad[p] \intersect (Minor \union Urgent) = {}
      /\ \A x \in Requests(c) : jobs[c][x] = "RESOLVED" \/ x \in left[p] \/ x \in bad[p]
  BY <1>1, <1>2 DEF Sound, Position, Planning
<1>6. Requests(c) \subseteq Events /\ e \in Events /\ e \in Requests(c)
  BY <1>4, <1>5 DEF Types, Plans, Requests
<1>7. /\ disposition \in {"RESOLVED", "UNRESOLVED"}
      /\ e \in Minor \union Urgent => disposition = "RESOLVED"
      /\ jobs[c][e] = "RESOLVED" => disposition = "RESOLVED"
  BY <1>6, AnswerOf
<1>8. /\ left'[p] = left[p] \ {e}
      /\ bad'[p] = IF disposition = "UNRESOLVED" THEN bad[p] \union {e} ELSE bad[p]
      /\ \A q \in Procs \ {p} : left'[q] = left[q] /\ bad'[q] = bad[q]
      /\ left' \in [Procs -> SUBSET Events] /\ bad' \in [Procs -> SUBSET Events]
  BY <1>4, <1>5, <1>6 DEF Types
<1>9. /\ jobs' \in [Cycles -> [Events -> {"MISSING", "RESOLVED", "UNRESOLVED"}]]
      /\ jobs'[c][e] = disposition
      /\ \A d \in Cycles, x \in Events : d # c \/ x # e => jobs'[d][x] = jobs[d][x]
  BY <1>4, <1>5, <1>6, <1>7 DEF Types
<1>a. Types' /\ Stable
  <2>1. \A d \in Cycles, x \in Events : jobs[d][x] = "RESOLVED" => jobs'[d][x] = "RESOLVED"
    BY <1>7, <1>9
  <2> QED BY <1>3, <1>4, <1>5, <1>8, <1>9, <2>1 DEF Types, Stable
<1>b. Planning(c)'
  BY <1>3, <1>5, <1>a, PlanningKept
<1>c. /\ left'[p] \subseteq Requests(c) /\ bad'[p] \subseteq Requests(c)
      /\ bad'[p] \intersect (Minor \union Urgent) = {}
      /\ \A x \in Requests(c) : jobs'[c][x] = "RESOLVED" \/ x \in left'[p] \/ x \in bad'[p]
  BY <1>5, <1>6, <1>7, <1>8, <1>9
<1>d. Position(p)'
  BY <1>1, <1>2, <1>3, <1>5, <1>c DEF Position, BeforePointer, Requests
<1>e. Proven(pointer)' /\ Resulting(c)'
  BY <1>3, <1>5 DEF Sound, Proven, Resulting
<1>f. Ordered => Staged(c)' /\ Undisturbed(p)'
  BY <1>1, <1>3 DEF Staged, Undisturbed, BeforePointer, Sound, Ordering, PlanCommitted
<1> QED BY <1>1, <1>2, <1>3, <1>5, <1>8, <1>a, <1>b, <1>d, <1>e, <1>f, WriteStep

LEMMA PublishSound == ASSUME Sound, NEW p \in Procs, Publish(p) PROVE Sound'
<1>1. pc[p] = "publish"
  BY DEF Publish
<1>2. PICK c \in Cycles : c = cycle[p] /\ c \in specs /\ p \in scope.procs
  BY <1>1, Running
<1>3. /\ result' = [result EXCEPT ![c] = verdict[p]] /\ pc' = [pc EXCEPT ![p] = "latest"]
      /\ pointer' = pointer /\ proofs' = proofs
      /\ UNCHANGED <<specs, acq, plan, published, jobs, cycle, seen, left, bad, verdict,
                     crashes, scope>>
  BY <1>2 DEF Publish, Goto, workspace
<1>4. /\ Types /\ Position(p) /\ Planning(c) /\ result[c] = None /\ verdict[p] # None
      /\ Quiet(verdict[p]) => plan[c] # None /\ Unresolved(c) = {}
  BY <1>1, <1>2 DEF Sound, Position
<1>5. /\ result' \in [Cycles -> {None} \union Verdicts] /\ result'[c] = verdict[p]
      /\ \A d \in Cycles \ {c} : result'[d] = result[d]
  BY <1>3, <1>4 DEF Types
<1>6. Types' /\ Stable
  BY <1>3, <1>4, <1>5 DEF Types, Stable
<1>7. Planning(c)'
  BY <1>3, <1>4, <1>6, PlanningKept DEF Planning
<1>8. pc'[p] = "latest" /\ cycle'[p] = c /\ \A q \in Procs \ {p} : pc'[q] = pc[q]
  BY <1>2, <1>3, <1>4 DEF Types
<1>9. Position(p)'
  BY <1>1, <1>2, <1>3, <1>4, <1>5, <1>8 DEF Position, BeforePointer, Requests
<1>a. Resulting(c)'
  BY <1>2, <1>3, <1>4, <1>5 DEF Resulting, Quiet, Unresolved, Requests
<1>b. Proven(pointer)'
  BY <1>3 DEF Sound, Proven
<1>c. Staged(c)' /\ Undisturbed(p)'
  BY <1>4, <1>5, <1>8 DEF Staged, Undisturbed, BeforePointer
<1>d. Ordered => Tells(result[c], c)'
  BY <1>1, <1>2, <1>3, <1>5 DEF Tells, Requests, Sound, Ordering, Undisturbed
<1> QED BY <1>1, <1>2, <1>3, <1>4, <1>5, <1>6, <1>7, <1>8, <1>9, <1>a, <1>b, <1>c, <1>d,
           WriteStep

(* The owner resolves a request of the current run: nobody's knowledge fails. *)
LEMMA OwnerExecutesSound ==
  ASSUME Sound, NEW e \in Events, OwnerExecutes(e) PROVE Sound'
<1>1. /\ pointer \in Cycles /\ e \in Unresolved(pointer)
      /\ acq' = acq /\ plan' = plan /\ result' = result /\ pointer' = pointer
      /\ UNCHANGED <<proofs, specs, published, pc, cycle, seen, left, bad, verdict, crashes,
                     scope>>
  BY DEF OwnerExecutes, workspace, cycleStore, local
<1>2. PICK disposition \in Dispositions(pointer, e) :
        jobs' = [jobs EXCEPT ![pointer][e] = disposition]
  BY DEF OwnerExecutes
<1>3. disposition \in {"RESOLVED", "UNRESOLVED"}
  BY <1>1, AnswerOf
<1>4. /\ jobs' \in [Cycles -> [Events -> {"MISSING", "RESOLVED", "UNRESOLVED"}]]
      /\ \A d \in Cycles, x \in Events : d # pointer \/ x # e => jobs'[d][x] = jobs[d][x]
  BY <1>1, <1>2, <1>3 DEF Sound, Types
<1>5. Types' /\ Stable
  BY <1>1, <1>4 DEF Sound, Types, Stable, Unresolved
<1>6. \A q \in Procs : Position(q)'
  <2> SUFFICES ASSUME NEW q \in Procs PROVE Position(q)'
    OBVIOUS
  <2>1. Apart(q)
    BY <1>1 DEF Apart
  <2> QED BY <1>5, <2>1, OthersKeep
<1>7. \A d \in Cycles : Planning(d)' /\ Resulting(d)'
  <2> SUFFICES ASSUME NEW d \in Cycles PROVE Planning(d)' /\ Resulting(d)'
    OBVIOUS
  <2>1. d \in proofs' => plan'[d] # None
    BY <1>1 DEF Sound, Planning
  <2> QED BY <1>1, <1>5, <2>1, PlanningKept, ResultingKept
<1>8. Proven(pointer)' /\ Sole'
  BY <1>1 DEF Sound, Proven, Sole
<1>9. Ordering'
  BY <1>1 DEF Sound, Ordering, Ordered, OneUnfinished, Staged, PlanCommitted, Tells, Requests,
              Undisturbed
<1> QED BY <1>5, <1>6, <1>7, <1>8, <1>9 DEF Sound

-----------------------------------------------------------------------------
LEMMA SoundStep == Sound /\ [Next]_vars => Sound'
<1> SUFFICES ASSUME Sound, [Next]_vars PROVE Sound'
  OBVIOUS
<1>1. CASE UNCHANGED vars
  <2>1. \A q \in Procs : Position(q)'
    BY <1>1 DEF vars, workspace, cycleStore, local, Sound, Position, Requests, Unresolved,
                Proven, Concluded, Quiet
  <2>2. \A c \in Cycles : Planning(c)' /\ Resulting(c)'
    BY <1>1 DEF vars, workspace, cycleStore, local, Sound, Planning, Resulting, Requests,
                Unresolved, Proven, Concluded, Quiet, Planned, Processed
  <2>3. Types' /\ Proven(pointer)' /\ Sole'
    BY <1>1 DEF vars, workspace, cycleStore, local, Sound, Types, Proven, Sole
  <2>4. Ordering'
    BY <1>1 DEF vars, workspace, cycleStore, local, Sound, Ordering, Ordered, OneUnfinished,
                Staged, PlanCommitted, Tells, Requests, Undisturbed
  <2> QED BY <2>1, <2>2, <2>3, <2>4 DEF Sound
<1>2. CASE \E p \in Procs : Work(p)
  BY <1>2, ReuseSound, RefuseStagedSound, ResumeSound, OpenSound, PassGateSound,
     CloseGateSound, AcquireSound, AcquisitionFailsSound, SavePlanSound, ProveSound,
     PointSound, PointUnsyncedSound, CommitFailsSound, ExecuteSound, ExecutionFailsSound,
     ExecutedSound, PublishSound, PublishPointerSound DEF Work
<1>3. CASE \E p \in Procs : Crash(p) \/ \E c \in Cycles : Start(p, c)
  BY <1>3, CrashSound, StartSound
<1>4. CASE \E e \in Events : OwnerExecutes(e)
  BY <1>4, OwnerExecutesSound
<1> QED BY <1>1, <1>2, <1>3, <1>4 DEF Next

(* Every reachable state of the cycle and its workspace satisfies the       *)
(* inductive invariant.                                                     *)
THEOREM SoundAlways == Spec => []Sound
BY SoundInit, SoundStep, PTL DEF Spec

(* Every variable keeps its type, and what is left to execute or was seen    *)
(* unresolved belongs to the plan of the cycle.                              *)
THEOREM TypeAlways == Spec => []TypeOK
<1>1. Sound => TypeOK
  <2> SUFFICES ASSUME Sound PROVE TypeOK
    OBVIOUS
  <2>1. ASSUME NEW c \in Cycles
        PROVE  /\ acq[c] = None \/ acq[c] \in [prior : States, batch : SUBSET Events]
               /\ \/ plan[c] = None
                  \/ /\ plan[c] \in [next : States \ {None}, new : SUBSET Events,
                                     all : SUBSET Events]
                     /\ plan[c].new # {} <=> plan[c].next = c
               /\ result[c] = None \/ result[c] \in Verdicts
    <3>1. /\ acq[c] = None \/ acq[c] \in Acquisitions
          /\ plan[c] = None \/ plan[c] \in Plans
          /\ result[c] = None \/ result[c] \in Verdicts
      BY DEF Sound, Types
    <3>2. plan[c] # None => plan[c] = Planned(acq[c].prior, c) /\ acq[c].prior # c
      BY DEF Sound, Planning
    <3>3. plan[c] # None => (plan[c].new # {} <=> plan[c].next = c)
      BY <3>2, NamesAssumption DEF Planned
    <3> QED BY <3>1, <3>3 DEF Acquisitions, Plans
  <2>2. ASSUME NEW p \in Procs
        PROVE  /\ left[p] \union bad[p] # {} => left[p] \union bad[p] \subseteq Requests(cycle[p])
               /\ verdict[p] = None \/ verdict[p] \in Verdicts
    <3>1. Position(p)
      BY DEF Sound
    <3>2. \/ left[p] = {} /\ bad[p] = {}
          \/ left[p] \subseteq Requests(cycle[p]) /\ bad[p] \subseteq Requests(cycle[p])
      <4>1. pc[p] \in BeforePointer \union {"idle", "open", "execute", "publish", "latest"}
        BY DEF Sound, Types, BeforePointer
      <4> QED BY <3>1, <4>1 DEF Position, BeforePointer
    <3> QED BY <3>2 DEF Sound, Types
  <2> QED BY <2>1, <2>2 DEF Sound, Types, TypeOK
<1> QED BY <1>1, SoundAlways, PTL

(* The state pointer never names a run without its commit proof, whatever    *)
(* dies between the proof, the pointer and the fsync after it, and however   *)
(* many invocations run side by side.                                        *)
THEOREM CommittedAlwaysProven == Spec => []CommittedIsProven
<1>1. Sound => CommittedIsProven
  BY DEF Sound, Proven, CommittedIsProven, Committed
<1> QED BY <1>1, SoundAlways, PTL

(* A result that reports no change or plain alerts has no open request       *)
(* behind it, for every number of cycles, owners' executions and deaths.     *)
THEOREM QuietAlwaysTrue == Spec => []QuietResultIsTrue
<1>1. Sound => QuietResultIsTrue
  BY DEF Sound, Resulting, Quiet, QuietResultIsTrue
<1> QED BY <1>1, SoundAlways, PTL

(* Under the runner a retry is never refused over what it finds staged.      *)
THEOREM AlwaysResumable == Spec => []NeverRefused
<1>1. ASSUME Sound, NEW p \in Procs, Ordered, MayOpen(p) PROVE ~StagedConflict(cycle[p])
  <2>1. cycle[p] \in Cycles /\ result[cycle[p]] = None
    BY <1>1, Running DEF MayOpen
  <2>2. Staged(cycle[p])
    BY <1>1, <2>1 DEF Sound, Ordering
  <2> QED BY <2>1, <2>2 DEF Staged, StagedConflict
<1>2. Sound => NeverRefused
  BY <1>1 DEF NeverRefused
<1> QED BY <1>2, SoundAlways, PTL

(* Under the runner no committed event that matters goes silent: its cycle   *)
(* alerts it, reports a failure, or can still be resumed.                    *)
THEOREM NeverSilent == Spec => []NoSilentEvents
<1>1. ASSUME Sound, NEW c \in Cycles, NEW e \in Processed(pointer) \ Minor, Ordered,
             c \in proofs, plan[c].next = c, e \in Requests(c)
      PROVE  \/ result[c] # None /\ (e \in result[c].alerted \/ result[c].status = "FAILED")
             \/ result[c] = None /\ PlanCommitted(c)
  <2>1. plan[c] # None /\ acq[c] # None /\ plan[c] = Planned(acq[c].prior, c)
    BY <1>1 DEF Sound, Planning
  <2>2. CASE result[c] # None
    <3>1. Tells(result[c], c)
      BY <1>1, <2>2 DEF Sound, Ordering
    <3> QED BY <1>1, <2>1, <2>2, <3>1 DEF Tells
  <2>3. CASE result[c] = None
    <3>1. Staged(c)
      BY <1>1 DEF Sound, Ordering
    <3>2. pointer # acq[c].prior
      BY <1>1, <2>1 DEF Planned, Requests
    <3> QED BY <2>1, <2>3, <3>1, <3>2 DEF Staged
  <2> QED BY <2>2, <2>3
<1>2. Sound => NoSilentEvents
  BY <1>1 DEF NoSilentEvents
<1> QED BY <1>2, SoundAlways, PTL

-----------------------------------------------------------------------------
(* Only a commit moves the pointer; under the runner the invocation that     *)
(* commits planned on the current state and saw it without open requests.    *)
LEMMA PointerMoves ==
  ASSUME Sound, Next, pointer' # pointer
  PROVE  \E p \in Procs : pc[p] = "point" /\ pointer' = plan[cycle[p]].next /\ plan' = plan
<1>1. \/ \E p \in Procs : Point(p) \/ PointUnsynced(p)
      \/ UNCHANGED pointer
  BY DEF Next, Work, Crash, Start, OwnerExecutes, Reuse, RefuseStaged, Resume, Open, PassGate,
         CloseGate, Acquire, AcquisitionFails, SavePlan, Prove, CommitFails, Execute,
         ExecutionFails, Executed, Publish, PublishPointer, workspace
<1> QED BY <1>1 DEF Point, PointUnsynced, cycleStore

LEMMA CommitsOnSeen ==
  ASSUME Sound, Next, pointer' # pointer, Ordered
  PROVE  /\ Concluded(pointer)
         /\ plan' = plan
         /\ \E c \in Cycles : /\ plan[c] = Planned(pointer, c)
                              /\ pointer' = plan[c].next
<1>1. PICK p \in Procs : pc[p] = "point" /\ pointer' = plan[cycle[p]].next /\ plan' = plan
  BY PointerMoves
<1>2. Concluded(seen[p]) /\ pointer = seen[p]
  BY <1>1 DEF Sound, Position, BeforePointer, Ordering, Undisturbed
<1>3. plan[cycle[p]] = Planned(seen[p], cycle[p]) /\ cycle[p] \in Cycles
  BY <1>1, Target, Running
<1> QED BY <1>1, <1>2, <1>3

(* The gate holds at the pointer's move, several writes after it was passed, *)
(* for every number of cycles, events and deaths.                            *)
THEOREM GateAlwaysHolds == Spec => GateHolds
<1>1. ASSUME Sound, [Next]_vars
      PROVE  [Ordered /\ pointer' # pointer /\ pointer \in Cycles => Unresolved(pointer) = {}]_vars
  <2>1. CASE Next
    BY <1>1, <2>1, CommitsOnSeen DEF Concluded
  <2>2. CASE UNCHANGED vars
    BY <2>2
  <2> QED BY <1>1, <2>1, <2>2
<1> QED BY <1>1, SoundAlways, PTL DEF Spec, GateHolds

(* Under the runner a commit forgets no processed event and repeats none.    *)
THEOREM CommitsAlwaysExtend == Spec => CommitsExtend
<1>1. ASSUME Sound, Next, pointer' # pointer, Ordered
      PROVE  /\ Processed(pointer) \subseteq Processed(pointer')
             /\ pointer' \in Cycles => plan[pointer'].new \intersect Processed(pointer) = {}
  <2>1. plan' = plan
    BY <1>1, CommitsOnSeen
  <2>2. PICK c \in Cycles : plan[c] = Planned(pointer, c) /\ pointer' = plan[c].next
    BY <1>1, CommitsOnSeen
  <2>3. CASE pointer' = c
    BY <2>1, <2>2, <2>3 DEF Planned, Processed
  <2>4. CASE pointer' # c
    BY <1>1, <2>1, <2>2, <2>4, NamesAssumption DEF Planned, Processed
  <2> QED BY <2>3, <2>4
<1>2. ASSUME Sound, [Next]_vars
      PROVE  [Ordered /\ pointer' # pointer =>
                /\ Processed(pointer) \subseteq Processed(pointer')
                /\ pointer' \in Cycles => plan[pointer'].new \intersect Processed(pointer) = {}]_vars
  <2>1. CASE Next
    BY <1>1, <1>2, <2>1
  <2>2. CASE UNCHANGED vars
    BY <2>2
  <2> QED BY <1>2, <2>1, <2>2
<1> QED BY <1>2, SoundAlways, PTL DEF Spec, CommitsExtend
=============================================================================
