------------------------ MODULE ReanalysisJobsProofs ------------------------
(***************************************************************************)
(* What holds of ReanalysisJobs for every number of executors, jobs,       *)
(* analysis ids, attempts and deaths.                                      *)
(***************************************************************************)
EXTENDS ReanalysisJobs, TLAPS

Types ==
  /\ scope \in Scopes
  /\ artifact \in [Ids -> Contents \union {None}]
  /\ attempts \in [Jobs -> Seq(Outcomes)]
  /\ pointer \in [Jobs -> Nat]
  /\ pc \in [Executors -> {"idle", "load", "work", "save", "scan", "attempt", "pointer"}]
  /\ job \in [Executors -> Jobs \union {None}]
  /\ caps \in [Executors -> Caps \union {None}]
  /\ outcome \in [Executors -> Outcomes \union {Nothing}]
  /\ number \in [Executors -> Nat]
  /\ crashes \in 0..scope.crashes

(* Pointers name attempts on disk. *)
Bound == \A j \in Jobs : pointer[j] <= Len(attempts[j])

(* What an invocation knows at each position: past the artifacts, those of a *)
(* success are on disk; past the attempt, its number is on disk too.         *)
Position(e) ==
  /\ pc[e] # "idle" => job[e] \in Jobs /\ caps[e] \in Caps /\ e \in scope.executors
  /\ pc[e] \in {"save", "scan", "attempt", "pointer"} => outcome[e] \in Outcomes
  /\ pc[e] \in {"scan", "attempt", "pointer"} /\ outcome[e].status = "SUCCEEDED" =>
       artifact[IdOf[job[e]]] = outcome[e].detail
  /\ pc[e] = "attempt" => number[e] \in 1..(Len(attempts[job[e]]) + 1)
  /\ pc[e] = "pointer" => number[e] \in 1..Len(attempts[job[e]])

Open(j) == Latest(j).status \notin Final

(* Without overlap: an invocation that works or saves found no final outcome, *)
(* and at most the last of the attempts without a pointer is one.             *)
Ready(e) ==
  /\ pc[e] \in {"work", "scan", "attempt"} => Open(job[e])
  /\ pc[e] = "pointer" /\ pointer[job[e]] # 0 => Open(job[e])

Lasting ==
  Alone =>
    /\ \A j \in Jobs : \A n \in 1..(Len(attempts[j]) - 1) :
         pointer[j] = 0 => attempts[j][n].status \notin Final
    /\ \A e \in Executors : Ready(e)

Sound ==
  /\ Types /\ Bound /\ ResultsAreLoadable /\ Lasting
  /\ \A e \in Executors : Position(e)

-----------------------------------------------------------------------------
(* The kinds of outcomes. *)
LEMMA OutcomeFields ==
  ASSUME NEW o \in Outcomes
  PROVE  /\ o.status \in Final \union {"BLOCKED", "FAILED"}
         /\ o.caps \in Caps
         /\ o.status = "SUCCEEDED" => o.detail \in Contents \union {None}
BY DEF Outcomes, Final

LEMMA LatestType ==
  ASSUME Types, Bound, NEW j \in Jobs
  PROVE  /\ Latest(j) \in Outcomes \union {Nothing}
         /\ attempts[j] \in Seq(Outcomes) /\ Len(attempts[j]) \in Nat /\ pointer[j] \in Nat
         /\ pointer[j] # 0 => pointer[j] \in 1..Len(attempts[j])
                              /\ Latest(j) = attempts[j][pointer[j]]
         /\ pointer[j] = 0 /\ attempts[j] = <<>> => Latest(j) = Nothing
         /\ pointer[j] = 0 /\ attempts[j] # <<>> =>
              Latest(j) = attempts[j][Len(attempts[j])] /\ Len(attempts[j]) \in 1..Len(attempts[j])
<1>1. attempts[j] \in Seq(Outcomes) /\ pointer[j] \in Nat /\ pointer[j] <= Len(attempts[j])
  BY DEF Types, Bound
<1>2. pointer[j] # 0 => pointer[j] \in 1..Len(attempts[j]) /\ attempts[j][pointer[j]] \in Outcomes
  BY <1>1
<1>3. attempts[j] # <<>> =>
        Len(attempts[j]) \in 1..Len(attempts[j]) /\ attempts[j][Len(attempts[j])] \in Outcomes
  BY <1>1
<1>4. Len(attempts[j]) \in Nat
  BY <1>1
<1> QED BY <1>1, <1>2, <1>3, <1>4, Zenon DEF Latest, Last

(* Attempts and artifacts are only added. *)
Growing ==
  /\ scope' = scope
  /\ \A i \in Ids : artifact[i] # None => artifact'[i] = artifact[i]
  /\ \A j \in Jobs : Len(attempts[j]) <= Len(attempts'[j])

Apart(q) ==
  /\ pc'[q] = pc[q] /\ job'[q] = job[q] /\ caps'[q] = caps[q]
  /\ outcome'[q] = outcome[q] /\ number'[q] = number[q]

(* A success that passed the artifacts has content. *)
LEMMA SuccessHasContent ==
  ASSUME NEW o \in Outcomes, o.status = "SUCCEEDED"
  PROVE  o.detail \in Contents /\ o.detail # None
BY NoneAssumption DEF Outcomes, Final

LEMMA OthersKeep ==
  ASSUME Sound, Types', Growing, NEW q \in Executors, Apart(q)
  PROVE  Position(q)'
<1>1. Position(q) /\ Types
  BY DEF Sound
<1>2. CASE pc[q] = "idle"
  BY <1>2 DEF Position, Apart
<1>3. CASE pc[q] # "idle"
  <2>1. PICK j \in Jobs : j = job[q]
    BY <1>1, <1>3 DEF Position
  <2>2. job'[q] = j /\ IdOf[j] \in Ids
    BY <2>1, IdAssumption DEF Apart
  <2>3. /\ Len(attempts[j]) \in Nat /\ Len(attempts'[j]) \in Nat
        /\ Len(attempts[j]) <= Len(attempts'[j])
    BY <1>1 DEF Types, Growing
  <2>4. pc[q] \in {"scan", "attempt", "pointer"} /\ outcome[q].status = "SUCCEEDED" =>
          artifact'[IdOf[j]] = outcome[q].detail
    BY <1>1, <2>1, <2>2, SuccessHasContent DEF Position, Growing
  <2>5. pc[q] = "attempt" => number[q] \in 1..(Len(attempts'[j]) + 1)
    <3>1. \A k \in Nat, m \in Nat : k <= m => 1..(k + 1) \subseteq 1..(m + 1)
      OBVIOUS
    <3>2. 1..(Len(attempts[j]) + 1) \subseteq 1..(Len(attempts'[j]) + 1)
      BY <2>3, <3>1
    <3>3. pc[q] = "attempt" => number[q] \in 1..(Len(attempts[j]) + 1)
      BY <1>1, <2>1, Zenon DEF Position
    <3> QED BY <3>2, <3>3, Zenon
  <2>6. pc[q] = "pointer" => number[q] \in 1..Len(attempts'[j])
    <3>1. \A k \in Nat, m \in Nat : k <= m => 1..k \subseteq 1..m
      OBVIOUS
    <3>2. 1..Len(attempts[j]) \subseteq 1..Len(attempts'[j])
      BY <2>3, <3>1
    <3>3. pc[q] = "pointer" => number[q] \in 1..Len(attempts[j])
      BY <1>1, <2>1, Zenon DEF Position
    <3> QED BY <3>2, <3>3, Zenon
  <2> QED BY <1>1, <1>3, <2>1, <2>2, <2>4, <2>5, <2>6 DEF Position, Apart, Growing
<1> QED BY <1>2, <1>3

(* Who runs is the only one, where invocations do not overlap. *)
LEMMA Single ==
  ASSUME Sound, Alone, NEW e \in Executors, NEW q \in Executors, pc[e] # "idle", pc[q] # "idle"
  PROVE  e = q
BY DEF Sound, Position, Alone

LEMMA SoundInit == Init => Sound
<1> SUFFICES ASSUME Init PROVE Sound
  OBVIOUS
<1>1. Types
  <2>1. scope.crashes \in Nat
    BY ScopeAssumption DEF Init
  <2> QED BY <2>1 DEF Init, Types
<1>2. \A j \in Jobs : attempts[j] = <<>> /\ pointer[j] = 0
  BY DEF Init
<1>3. Bound /\ ResultsAreLoadable
  BY <1>2 DEF Bound, ResultsAreLoadable
<1>4. \A e \in Executors : pc[e] = "idle"
  BY DEF Init
<1>5. \A e \in Executors : Position(e) /\ Ready(e)
  BY <1>4 DEF Position, Ready
<1>6. Lasting
  BY <1>2, <1>5 DEF Lasting
<1> QED BY <1>1, <1>3, <1>5, <1>6 DEF Sound

-----------------------------------------------------------------------------
(* Steps that write nothing *)

LEMMA LocalStep ==
  ASSUME Sound, NEW e \in Executors, UNCHANGED <<artifact, attempts, pointer, scope>>, Types',
         \A q \in Executors \ {e} : Apart(q), Position(e)', Alone => Ready(e)'
  PROVE  Sound'
<1>1. Growing
  <2>1. \A j \in Jobs : Len(attempts[j]) \in Nat
    BY DEF Sound, Types
  <2> QED BY <2>1 DEF Growing
<1>2. \A q \in Executors : Position(q)'
  BY <1>1, OthersKeep
<1>3. Bound' /\ ResultsAreLoadable'
  BY DEF Sound, Bound, ResultsAreLoadable
<1>4. Lasting'
  <2> SUFFICES ASSUME Alone PROVE Lasting'
    BY DEF Lasting, Alone
  <2>1. \A q \in Executors : Ready(q)'
    BY DEF Sound, Lasting, Ready, Apart, Open, Latest
  <2> QED BY <2>1 DEF Sound, Lasting
<1> QED BY <1>2, <1>3, <1>4 DEF Sound

LEMMA EndTypes ==
  ASSUME Types, NEW e \in Executors, End(e)
  PROVE  /\ pc' \in [Executors -> {"idle", "load", "work", "save", "scan", "attempt", "pointer"}]
         /\ job' \in [Executors -> Jobs \union {None}]
         /\ caps' \in [Executors -> Caps \union {None}]
         /\ outcome' \in [Executors -> Outcomes \union {Nothing}]
         /\ number' \in [Executors -> Nat]
         /\ pc'[e] = "idle"
         /\ \A q \in Executors \ {e} : Apart(q)
<1> DEFINE Ending == Outcomes \union {Nothing}
<1>1. Nothing \in Ending /\ outcome \in [Executors -> Ending]
  BY DEF Types
<1> HIDE DEF Ending
<1>2. outcome' \in [Executors -> Ending] /\ \A q \in Executors \ {e} : outcome'[q] = outcome[q]
  BY <1>1 DEF End
<1> QED BY <1>2 DEF Types, End, Apart, Ending

LEMMA EndSound ==
  ASSUME Sound, NEW e \in Executors, End(e), UNCHANGED <<store, scope>>,
         crashes' \in 0..scope.crashes
  PROVE  Sound'
<1>1. /\ pc'[e] = "idle" /\ \A q \in Executors \ {e} : Apart(q)
  BY EndTypes DEF Sound
<1>2. Types'
  BY EndTypes DEF Sound, Types, store
<1>3. Position(e)' /\ Ready(e)'
  BY <1>1 DEF Position, Ready
<1> QED BY <1>1, <1>2, <1>3, LocalStep DEF store

LEMMA ConcludeSound ==
  ASSUME Sound, NEW e \in Executors, NEW o \in Outcomes, pc[e] # "idle", Conclude(e, o),
         UNCHANGED <<store, job, caps, number, crashes, scope>>
  PROVE  Sound'
<1>1. Types /\ Position(e)
  BY DEF Sound
<1>2. /\ pc' = [pc EXCEPT ![e] = "save"] /\ outcome' = [outcome EXCEPT ![e] = o]
  BY DEF Conclude, Goto
<1>3. /\ pc'[e] = "save" /\ outcome'[e] = o
      /\ outcome' \in [Executors -> Outcomes \union {Nothing}]
      /\ \A q \in Executors \ {e} : Apart(q)
  BY <1>1, <1>2 DEF Types, Apart
<1>4. Types'
  BY <1>1, <1>2, <1>3 DEF Types, store
<1>5. Position(e)' /\ Ready(e)'
  BY <1>1, <1>3 DEF Position, Ready
<1> QED BY <1>3, <1>4, <1>5, LocalStep DEF store

(* The job of an invocation that runs. *)
LEMMA Running ==
  ASSUME Sound, NEW e \in Executors, pc[e] # "idle"
  PROVE  /\ job[e] \in Jobs /\ caps[e] \in Caps /\ e \in scope.executors
         /\ IdOf[job[e]] \in Ids
BY IdAssumption DEF Sound, Position

LEMMA CrashSound == ASSUME Sound, NEW e \in Executors, Crash(e) PROVE Sound'
<1>1. scope.crashes \in Nat
  BY ScopeAssumption DEF Sound, Types
<1>2. crashes' \in 0..scope.crashes
  BY <1>1 DEF Crash, Sound, Types
<1> QED BY <1>2, EndSound DEF Crash

LEMMA StartSound == ASSUME Sound, NEW e \in Executors, NEW j \in Jobs, Start(e, j) PROVE Sound'
<1>1. PICK c \in scope.caps : caps' = [caps EXCEPT ![e] = c]
  BY DEF Start
<1>2. /\ pc' = [pc EXCEPT ![e] = "load"] /\ job' = [job EXCEPT ![e] = j]
      /\ e \in scope.executors
      /\ UNCHANGED <<store, outcome, number, crashes, scope>>
  BY DEF Start, Goto
<1>3. Types /\ c \in Caps
  BY ScopeAssumption DEF Sound, Types
<1>4. Types'
  BY <1>1, <1>2, <1>3 DEF Types, store
<1>5. /\ pc'[e] = "load" /\ job'[e] = j /\ caps'[e] = c
      /\ \A q \in Executors \ {e} : Apart(q)
  BY <1>1, <1>2, <1>3 DEF Types, Apart
<1>6. Position(e)' /\ Ready(e)'
  BY <1>2, <1>3, <1>5 DEF Position, Ready
<1> QED BY <1>2, <1>4, <1>5, <1>6, LocalStep DEF store

LEMMA EndsSound ==
  ASSUME Sound, NEW e \in Executors,
         Reuse(e) \/ SaveConflict(e) \/ ArtifactConflict(e) \/ AttemptConflict(e)
  PROVE  Sound'
<1>1. End(e) /\ UNCHANGED <<store, scope>> /\ crashes' = crashes
  BY DEF Reuse, SaveConflict, ArtifactConflict, AttemptConflict
<1> QED BY <1>1, EndSound DEF Sound, Types

LEMMA RepublishSound == ASSUME Sound, NEW e \in Executors, Republish(e) PROVE Sound'
<1> DEFINE o == Latest(job[e])
<1>1. pc[e] # "idle" /\ o.status = "SUCCEEDED" /\ Conclude(e, o)
      /\ UNCHANGED <<store, job, caps, number, crashes, scope>>
  BY DEF Republish
<1>2. o \in Outcomes \union {Nothing}
  BY <1>1, Running, LatestType DEF Sound
<1>3. o # Nothing
  BY <1>1 DEF Nothing, Outcome
<1> HIDE DEF o
<1> QED BY <1>1, <1>2, <1>3, ConcludeSound

LEMMA DeclineSound == ASSUME Sound, NEW e \in Executors, Decline(e) PROVE Sound'
<1> DEFINE o == Outcome(DeclinedAs(e), caps[e], None)
<1>1. pc[e] # "idle" /\ Conclude(e, o) /\ UNCHANGED <<store, job, caps, number, crashes, scope>>
  BY DEF Decline
<1>2. o \in Outcomes
  BY <1>1, Running DEF Outcome, Outcomes, DeclinedAs
<1> HIDE DEF o
<1> QED BY <1>1, <1>2, ConcludeSound

LEMMA BeginSound == ASSUME Sound, NEW e \in Executors, Begin(e) PROVE Sound'
<1>1. /\ pc[e] = "load" /\ pc' = [pc EXCEPT ![e] = "work"]
      /\ UNCHANGED <<store, job, caps, outcome, number, crashes, scope>>
      /\ ~Reusable(Latest(job[e]), caps[e])
  BY DEF Begin, Goto
<1>2. Types /\ job[e] \in Jobs /\ caps[e] \in Caps /\ e \in scope.executors
  BY <1>1, Running DEF Sound
<1>3. Types'
  BY <1>1, <1>2 DEF Types, store
<1>4. pc'[e] = "work" /\ \A q \in Executors \ {e} : Apart(q)
  BY <1>1, <1>2 DEF Types, Apart
<1>5. Position(e)'
  BY <1>1, <1>2, <1>4 DEF Position
<1>6. Ready(e)'
  BY <1>1, <1>4 DEF Ready, Open, Latest, Reusable, store
<1> QED BY <1>1, <1>3, <1>4, <1>5, <1>6, LocalStep DEF store

LEMMA WorkSound == ASSUME Sound, NEW e \in Executors, Work(e) PROVE Sound'
<1>1. pc[e] # "idle" /\ UNCHANGED <<store, job, caps, number, crashes, scope>>
  BY DEF Work
<1>2. PICK o \in Outcomes : Conclude(e, o)
  <2>1. caps[e] \in Caps
    BY <1>1, Running
  <2>2. CASE \E c \in Contents : Conclude(e, Outcome("SUCCEEDED", caps[e], c))
    BY <2>1, <2>2 DEF Outcome, Outcomes
  <2>3. CASE \E c \in Codes : Conclude(e, Outcome("FAILED", caps[e], c))
    BY <2>1, <2>3 DEF Outcome, Outcomes
  <2> QED BY <2>2, <2>3 DEF Work
<1> QED BY <1>1, <1>2, ConcludeSound

LEMMA ScanSound == ASSUME Sound, NEW e \in Executors, Scan(e) PROVE Sound'
<1>1. pc[e] = "scan"
  BY DEF Scan
<1>2. PICK j \in Jobs : j = job[e] /\ IdOf[j] \in Ids
  BY <1>1, Running
<1>3. /\ pc' = [pc EXCEPT ![e] = "attempt"]
      /\ number' = [number EXCEPT ![e] = Len(attempts[j]) + 1]
      /\ UNCHANGED <<artifact, attempts, pointer, job, caps, outcome, crashes, scope>>
  BY <1>2 DEF Scan, Goto, NextNumber, store
<1>4. Types /\ Position(e) /\ Len(attempts[j]) \in Nat
  BY DEF Sound, Types
<1>5. Types'
  BY <1>3, <1>4 DEF Types
<1>6. /\ pc'[e] = "attempt" /\ number'[e] = Len(attempts[j]) + 1
      /\ \A q \in Executors \ {e} : Apart(q)
  BY <1>3, <1>4 DEF Types, Apart
<1>7. number'[e] \in 1..(Len(attempts'[j]) + 1)
  BY <1>3, <1>4, <1>6
<1>8. Position(e)'
  BY <1>1, <1>2, <1>3, <1>4, <1>6, <1>7 DEF Position
<1>9. Alone => Ready(e)'
  BY <1>1, <1>3, <1>6 DEF Sound, Lasting, Ready, Open, Latest
<1> QED BY <1>3, <1>5, <1>6, <1>8, <1>9, LocalStep

-----------------------------------------------------------------------------
(* Steps that write *)

LEMMA GrowingKeeps ==
  ASSUME Sound, Types', Growing, NEW e \in Executors, \A q \in Executors \ {e} : Apart(q)
  PROVE  \A q \in Executors \ {e} : Position(q)'
BY OthersKeep

(* Without overlap the others are at rest. *)
LEMMA OthersRest ==
  ASSUME Sound, Alone, NEW e \in Executors, pc[e] # "idle",
         \A q \in Executors \ {e} : Apart(q)
  PROVE  \A q \in Executors \ {e} : Ready(q)'
<1> SUFFICES ASSUME NEW q \in Executors \ {e} PROVE Ready(q)'
  OBVIOUS
<1>1. pc'[q] = "idle"
  BY Single DEF Apart
<1> QED BY <1>1 DEF Ready

LEMMA PersistArtifactsSound ==
  ASSUME Sound, NEW e \in Executors, PersistArtifacts(e) PROVE Sound'
<1>1. pc[e] = "save" /\ Latest(job[e]).status \notin Final /\ Fits(e)
  BY DEF PersistArtifacts, MaySave
<1>2. PICK j \in Jobs : j = job[e] /\ IdOf[j] \in Ids
  BY <1>1, Running
<1>3. PICK o \in Outcomes : o = outcome[e]
  BY <1>1 DEF Sound, Position
<1>4. /\ artifact' = [artifact EXCEPT ![IdOf[j]] =
                        IF o.status = "SUCCEEDED" THEN o.detail ELSE @]
      /\ pc' = [pc EXCEPT ![e] = "scan"]
      /\ UNCHANGED <<attempts, pointer, job, caps, outcome, number, crashes, scope>>
  BY <1>2, <1>3 DEF PersistArtifacts, Goto
<1>5. Types /\ Position(e)
  BY DEF Sound
<1>6. o.status = "SUCCEEDED" => o.detail \in Contents /\ artifact[IdOf[j]] \in {None, o.detail}
  BY <1>1, <1>2, <1>3, SuccessHasContent DEF Fits
<1>7. /\ artifact' \in [Ids -> Contents \union {None}]
      /\ o.status = "SUCCEEDED" => artifact'[IdOf[j]] = o.detail
      /\ \A i \in Ids : artifact[i] # None => artifact'[i] = artifact[i]
  BY <1>2, <1>4, <1>5, <1>6 DEF Types
<1>8. Types' /\ Growing
  <2>1. \A k \in Jobs : Len(attempts[k]) \in Nat
    BY <1>5 DEF Types
  <2> QED BY <1>4, <1>5, <1>7, <2>1 DEF Types, Growing
<1>9. pc'[e] = "scan" /\ \A q \in Executors \ {e} : Apart(q)
  BY <1>4, <1>5 DEF Types, Apart
<1>a. Position(e)'
  BY <1>1, <1>2, <1>3, <1>4, <1>5, <1>7, <1>9 DEF Position
<1>b. ResultsAreLoadable'
  <2> SUFFICES ASSUME NEW k \in Jobs, NEW n \in 1..Len(attempts[k]),
                      attempts[k][n].status = "SUCCEEDED"
               PROVE  artifact'[IdOf[k]] = attempts[k][n].detail
    BY <1>4 DEF ResultsAreLoadable
  <2>1. attempts[k] \in Seq(Outcomes)
    BY <1>5 DEF Types
  <2>2. attempts[k][n] \in Outcomes
    BY <2>1
  <2>3. artifact[IdOf[k]] = attempts[k][n].detail /\ attempts[k][n].detail # None
    BY <2>2, SuccessHasContent DEF Sound, ResultsAreLoadable
  <2> QED BY <1>7, <2>3, IdAssumption
<1>c. Bound'
  BY <1>4 DEF Sound, Bound
<1>d. Lasting'
  <2> SUFFICES ASSUME Alone PROVE Lasting'
    BY <1>4 DEF Lasting, Alone
  <2>1. \A q \in Executors \ {e} : Ready(q)'
    BY <1>1, <1>9, OthersRest
  <2>2. Ready(e)'
    BY <1>1, <1>4, <1>9 DEF Ready, Open, Latest
  <2> QED BY <1>4, <2>1, <2>2 DEF Sound, Lasting
<1> QED BY <1>8, <1>9, <1>a, <1>b, <1>c, <1>d, GrowingKeeps DEF Sound

LEMMA WriteAttemptSound ==
  ASSUME Sound, NEW e \in Executors, WriteAttempt(e) PROVE Sound'
<1>1. pc[e] = "attempt"
  BY DEF WriteAttempt
<1>2. PICK j \in Jobs : j = job[e] /\ IdOf[j] \in Ids
  BY <1>1, Running
<1>3. PICK o \in Outcomes : o = outcome[e]
  BY <1>1 DEF Sound, Position
<1>4. /\ pc' = [pc EXCEPT ![e] = "pointer"]
      /\ UNCHANGED <<artifact, pointer, job, caps, outcome, number, crashes, scope>>
  BY DEF WriteAttempt, Goto
<1>5. /\ Types /\ Bound /\ Position(e) /\ attempts[j] \in Seq(Outcomes)
      /\ Len(attempts[j]) \in Nat /\ pointer[j] \in Nat /\ pointer[j] <= Len(attempts[j])
      /\ number[e] \in 1..(Len(attempts[j]) + 1)
      /\ o.status = "SUCCEEDED" => artifact[IdOf[j]] = o.detail
  BY <1>1, <1>2, <1>3 DEF Sound, Types, Bound, Position
<1>6. pc'[e] = "pointer" /\ \A q \in Executors \ {e} : Apart(q)
  BY <1>4, <1>5 DEF Types, Apart
<1>7. CASE Len(attempts[j]) >= number[e] /\ attempts' = attempts
  <2>1. Types'
    BY <1>4, <1>5, <1>7 DEF Types
  <2>2. Position(e)'
    BY <1>1, <1>2, <1>4, <1>5, <1>6, <1>7 DEF Position
  <2>3. Alone => Ready(e)'
    BY <1>1, <1>4, <1>6, <1>7 DEF Ready, Open, Latest, Sound, Lasting
  <2> QED BY <1>4, <1>6, <1>7, <2>1, <2>2, <2>3, LocalStep
<1>8. CASE /\ Len(attempts[j]) < number[e]
           /\ attempts' = [attempts EXCEPT ![j] = Append(@, o)]
  <2>1. /\ attempts' \in [Jobs -> Seq(Outcomes)]
        /\ attempts'[j] = Append(attempts[j], o)
        /\ \A k \in Jobs \ {j} : attempts'[k] = attempts[k]
    BY <1>5, <1>8 DEF Types
  <2>2. /\ Len(attempts'[j]) = Len(attempts[j]) + 1
        /\ attempts'[j][Len(attempts[j]) + 1] = o
        /\ \A n \in 1..Len(attempts[j]) : attempts'[j][n] = attempts[j][n]
    BY <1>5, <2>1
  <2>3. \A k \in Jobs : Len(attempts[k]) \in Nat /\ Len(attempts[k]) <= Len(attempts'[k])
    <3> SUFFICES ASSUME NEW k \in Jobs
                 PROVE  Len(attempts[k]) \in Nat /\ Len(attempts[k]) <= Len(attempts'[k])
      OBVIOUS
    <3>1. attempts[k] \in Seq(Outcomes)
      BY <1>5 DEF Types
    <3>2. Len(attempts[k]) \in Nat
      BY <3>1
    <3>3. CASE k = j
      BY <2>2, <3>2, <3>3
    <3>4. CASE k # j
      BY <2>1, <3>2, <3>4
    <3> QED BY <3>2, <3>3, <3>4
  <2>4. Types' /\ Growing
    BY <1>4, <1>5, <2>1, <2>3 DEF Types, Growing
  <2>5. number[e] \in 1..Len(attempts'[j])
    BY <1>5, <1>8, <2>2
  <2>6. Position(e)'
    BY <1>1, <1>2, <1>4, <1>5, <1>6, <2>5 DEF Position
  <2>7. ResultsAreLoadable'
    <3> SUFFICES ASSUME NEW k \in Jobs, NEW n \in 1..Len(attempts'[k]),
                        attempts'[k][n].status = "SUCCEEDED"
                 PROVE  artifact[IdOf[k]] = attempts'[k][n].detail
      BY <1>4 DEF ResultsAreLoadable
    <3>1. CASE k = j /\ n = Len(attempts[j]) + 1
      BY <1>5, <2>2, <3>1
    <3>2. CASE ~(k = j /\ n = Len(attempts[j]) + 1)
      <4>1. n \in 1..Len(attempts[k]) /\ attempts'[k][n] = attempts[k][n]
        BY <1>5, <2>1, <2>2, <3>2
      <4> QED BY <4>1 DEF Sound, ResultsAreLoadable
    <3> QED BY <3>1, <3>2
  <2>8. Bound'
    <3> SUFFICES ASSUME NEW k \in Jobs PROVE pointer[k] <= Len(attempts'[k])
      BY <1>4 DEF Bound
    <3>1. pointer[k] \in Nat /\ pointer[k] <= Len(attempts[k]) /\ Len(attempts'[k]) \in Nat
      BY <1>5, <2>4 DEF Types, Bound
    <3> QED BY <2>3, <3>1
  <2>9. Lasting'
    <3> SUFFICES ASSUME Alone PROVE Lasting'
      BY <1>4 DEF Lasting, Alone
    <3>1. Open(j)
      BY <1>1, <1>2 DEF Sound, Lasting, Ready
    <3>2. ASSUME NEW k \in Jobs, NEW n \in 1..(Len(attempts'[k]) - 1), pointer'[k] = 0
          PROVE  attempts'[k][n].status \notin Final
      <4>1. CASE k # j
        BY <1>4, <2>1, <3>2, <4>1 DEF Sound, Lasting
      <4>2. CASE k = j /\ n = Len(attempts[j])
        <5>1. attempts[j] # <<>>
          BY <3>2, <4>2
        <5>2. Latest(j) = attempts[j][n] /\ attempts'[k][n] = attempts[j][n]
          BY <1>4, <1>5, <2>2, <3>2, <4>2, <5>1, LatestType
        <5> QED BY <3>1, <5>2 DEF Open
      <4>3. CASE k = j /\ n # Len(attempts[j])
        <5>1. n \in 1..(Len(attempts[j]) - 1) /\ attempts'[k][n] = attempts[j][n]
          BY <1>5, <2>2, <3>2, <4>3
        <5> QED BY <1>4, <3>2, <4>3, <5>1 DEF Sound, Lasting
      <4> QED BY <4>1, <4>2, <4>3
    <3>3. Ready(e)'
      <4>1. pointer[j] # 0 => Latest(j)' = Latest(j)
        <5>1. pointer[j] # 0 => pointer[j] \in 1..Len(attempts[j])
          BY <1>5
        <5> QED BY <1>4, <2>2, <5>1 DEF Latest
      <4> QED BY <1>2, <1>4, <1>6, <3>1, <4>1 DEF Ready, Open
    <3>4. \A q \in Executors \ {e} : Ready(q)'
      BY <1>1, <1>6, OthersRest
    <3> QED BY <3>2, <3>3, <3>4 DEF Lasting
  <2> QED BY <1>6, <2>4, <2>6, <2>7, <2>8, <2>9, GrowingKeeps DEF Sound
<1> QED BY <1>2, <1>3, <1>7, <1>8 DEF WriteAttempt

(* An invocation that sets the pointer of its job and ends. *)
LEMMA PointSound ==
  ASSUME Sound, NEW e \in Executors, pc[e] # "idle", End(e), NEW n \in 0..Len(attempts[job[e]]),
         pointer' = [pointer EXCEPT ![job[e]] = n], n = 0 => pointer[job[e]] = 0,
         UNCHANGED <<artifact, attempts, crashes, scope>>
  PROVE  Sound'
<1>1. PICK j \in Jobs : j = job[e]
  BY Running
<1>2. Types /\ Len(attempts[j]) \in Nat /\ n \in Nat /\ n <= Len(attempts[j])
  BY <1>1 DEF Sound, Types
<1>3. /\ pointer' \in [Jobs -> Nat] /\ pointer'[j] = n
      /\ \A k \in Jobs \ {j} : pointer'[k] = pointer[k]
  BY <1>1, <1>2 DEF Types
<1>4. Types' /\ pc'[e] = "idle" /\ \A q \in Executors \ {e} : Apart(q)
  BY <1>2, <1>3, EndTypes DEF Types
<1>5. Growing
  BY <1>2 DEF Growing, Types
<1>6. Bound'
  BY <1>2, <1>3 DEF Sound, Bound
<1>7. ResultsAreLoadable'
  BY DEF Sound, ResultsAreLoadable
<1>8. Position(e)' /\ Ready(e)'
  BY <1>4 DEF Position, Ready
<1>9. Lasting'
  <2> SUFFICES ASSUME Alone PROVE Lasting'
    BY DEF Lasting, Alone
  <2>1. \A q \in Executors \ {e} : Ready(q)'
    BY <1>4, OthersRest
  <2>2. \A k \in Jobs : pointer'[k] = 0 => pointer[k] = 0
    BY <1>1, <1>3
  <2> QED BY <1>8, <2>1, <2>2 DEF Sound, Lasting
<1> QED BY <1>4, <1>5, <1>6, <1>7, <1>8, <1>9, GrowingKeeps DEF Sound

LEMMA SaveKnownSound == ASSUME Sound, NEW e \in Executors, SaveKnown(e) PROVE Sound'
<1>1. /\ pc[e] = "save" /\ End(e) /\ UNCHANGED <<artifact, attempts, crashes, scope>>
      /\ pointer' = [pointer EXCEPT ![job[e]] = IF @ = 0 THEN Len(attempts[job[e]]) ELSE @]
  BY DEF SaveKnown
<1>2. job[e] \in Jobs
  BY <1>1, Running
<1>3. /\ pointer[job[e]] \in Nat /\ Len(attempts[job[e]]) \in Nat
      /\ pointer[job[e]] <= Len(attempts[job[e]])
  BY <1>2 DEF Sound, Types, Bound
<1>4. PICK n \in 0..Len(attempts[job[e]]) :
        n = IF pointer[job[e]] = 0 THEN Len(attempts[job[e]]) ELSE pointer[job[e]]
  BY <1>3
<1>5. pointer' = [pointer EXCEPT ![job[e]] = n] /\ (n = 0 => pointer[job[e]] = 0)
  BY <1>1, <1>4
<1> QED BY <1>1, <1>5, PointSound

LEMMA WritePointerSound == ASSUME Sound, NEW e \in Executors, WritePointer(e) PROVE Sound'
<1>1. /\ pc[e] = "pointer" /\ End(e) /\ UNCHANGED <<artifact, attempts, crashes, scope>>
      /\ pointer' = [pointer EXCEPT ![job[e]] = number[e]]
  BY DEF WritePointer
<1>2. number[e] \in 1..Len(attempts[job[e]]) /\ job[e] \in Jobs
  BY <1>1, Running DEF Sound, Position
<1>3. number[e] \in 0..Len(attempts[job[e]]) /\ number[e] # 0
  BY <1>2 DEF Sound, Types
<1> QED BY <1>1, <1>3, PointSound

-----------------------------------------------------------------------------
LEMMA SoundStep == Sound /\ [Next]_vars => Sound'
<1> SUFFICES ASSUME Sound, [Next]_vars PROVE Sound'
  OBVIOUS
<1>1. CASE UNCHANGED vars
  BY <1>1 DEF vars, store, local, Sound, Types, Bound, ResultsAreLoadable, Lasting, Alone, Ready,
              Open, Latest, Position
<1>2. CASE \E e \in Executors : Execute(e)
  BY <1>2, EndsSound, RepublishSound, DeclineSound, BeginSound, WorkSound, SaveKnownSound,
     PersistArtifactsSound, ScanSound, WriteAttemptSound, WritePointerSound DEF Execute
<1>3. CASE \E e \in Executors : Crash(e) \/ \E j \in Jobs : Start(e, j)
  BY <1>3, CrashSound, StartSound
<1> QED BY <1>1, <1>2, <1>3 DEF Next

(* Every reachable state of the executors and the job store satisfies the   *)
(* inductive invariant.                                                     *)
THEOREM SoundAlways == Spec => []Sound
BY SoundInit, SoundStep, PTL DEF Spec

(* Every variable keeps its type, and no pointer names an attempt that is    *)
(* not on disk, whoever died or took the same number.                        *)
THEOREM TypeAlways == Spec => []TypeOK
<1>1. Sound => TypeOK
  <2> SUFFICES ASSUME Sound PROVE TypeOK
    OBVIOUS
  <2>1. ASSUME NEW j \in Jobs
        PROVE  attempts[j] \in Seq(Outcomes) /\ pointer[j] \in 0..Len(attempts[j])
    <3>1. attempts[j] \in Seq(Outcomes) /\ pointer[j] \in Nat /\ pointer[j] <= Len(attempts[j])
      BY DEF Sound, Types, Bound
    <3> QED BY <3>1
  <2> QED BY <2>1 DEF Sound, Types, TypeOK
<1> QED BY <1>1, SoundAlways, PTL

(* A recorded success finds its own artifacts, although jobs share analysis  *)
(* ids and executors overlap and die.                                        *)
THEOREM ResultsAlwaysLoadable == Spec => []ResultsAreLoadable
<1>1. Sound => ResultsAreLoadable
  BY DEF Sound
<1> QED BY <1>1, SoundAlways, PTL

-----------------------------------------------------------------------------
(* What the cycle reads *)

(* Impacts that need no work have no outcome that could be blocked or fail;   *)
(* without overlap, the number an invocation has chosen is the next one.      *)
NoWork == {j \in Jobs : ImpactOf[j] \in {"NO_REANALYSIS", "URGENT_MANUAL_REVIEW"}}
Fitting ==
  /\ \A j \in NoWork : \A n \in 1..Len(attempts[j]) : attempts[j][n].status \in Final
  /\ \A e \in Executors :
       pc[e] \in {"save", "scan", "attempt", "pointer"} /\ job[e] \in NoWork =>
         outcome[e].status \in Final
  /\ \A e \in Executors : pc[e] = "work" => job[e] \notin NoWork
Numbered ==
  Alone => \A e \in Executors :
    /\ pc[e] = "attempt" => number[e] = Len(attempts[job[e]]) + 1
    /\ pc[e] = "pointer" => number[e] = Len(attempts[job[e]])
Knowing == Fitting /\ Numbered

(* The latest attempt of a job that needs no work is final. *)
LEMMA LatestFits ==
  ASSUME Sound, Fitting, NEW j \in NoWork
  PROVE  Latest(j) = Nothing \/ Latest(j).status \in Final
<1>1. j \in Jobs /\ Types /\ Bound
  BY DEF NoWork, Sound
<1> QED BY <1>1, LatestType DEF Fitting

(* A step that adds no attempt and leaves all but one invocation where it is. *)
LEMMA KnowingKept ==
  ASSUME Sound, Knowing, scope' = scope, attempts' = attempts, NEW e \in Executors,
         \A q \in Executors \ {e} : Apart(q),
         pc'[e] \in {"save", "scan", "attempt", "pointer"} =>
           (job'[e] \in NoWork => outcome'[e].status \in Final),
         pc'[e] = "work" => job'[e] \notin NoWork,
         pc'[e] = "attempt" => number'[e] = Len(attempts[job'[e]]) + 1,
         pc'[e] = "pointer" => number'[e] = Len(attempts[job'[e]])
  PROVE  Knowing'
<1>1. Fitting'
  BY DEF Knowing, Fitting, Apart
<1>2. Numbered'
  BY DEF Knowing, Numbered, Alone, Apart
<1> QED BY <1>1, <1>2 DEF Knowing

LEMMA KnowingOwn ==
  ASSUME Sound, Knowing, NEW e \in Executors,
         Execute(e) \/ Crash(e) \/ (\E j \in Jobs : Start(e, j)), ~WriteAttempt(e)
  PROVE  Knowing'
<1> USE DEF Sound, Types
<1>1. scope' = scope /\ attempts' = attempts /\ \A q \in Executors \ {e} : Apart(q)
  BY DEF Execute, Crash, Start, Reuse, Republish, Decline, Begin, Work, SaveKnown, SaveConflict,
         PersistArtifacts, ArtifactConflict, Scan, AttemptConflict, WritePointer, store, End,
         Conclude, Goto, Apart
<1>2. CASE pc'[e] \in {"idle", "load"}
  BY <1>1, <1>2, KnowingKept
<1>3. CASE Republish(e)
  <2>1. pc'[e] = "save" /\ outcome'[e].status \in Final
    BY <1>3 DEF Republish, Conclude, Goto, Final
  <2> QED BY <1>1, <2>1, KnowingKept
<1>4. CASE Decline(e)
  <2>1. pc'[e] = "save" /\ job'[e] = job[e] /\ outcome'[e].status = DeclinedAs(e)
    BY <1>4 DEF Decline, Conclude, Goto, Outcome
  <2>2. job[e] \in NoWork => DeclinedAs(e) \in Final
    BY DEF NoWork, DeclinedAs, NeedsRuntime, Final
  <2> QED BY <1>1, <2>1, <2>2, KnowingKept
<1>5. CASE Begin(e)
  <2>1. pc'[e] = "work" /\ job'[e] = job[e] /\ job[e] \notin NoWork
    BY <1>5 DEF Begin, Goto, Effortless, NoWork
  <2> QED BY <1>1, <2>1, KnowingKept
<1>6. CASE Work(e)
  <2>1. pc'[e] = "save" /\ job'[e] = job[e] /\ job[e] \notin NoWork
    BY <1>6 DEF Work, Conclude, Goto, Knowing, Fitting
  <2> QED BY <1>1, <2>1, KnowingKept
<1>7. CASE PersistArtifacts(e)
  <2>1. pc[e] = "save" /\ pc'[e] = "scan" /\ job'[e] = job[e] /\ outcome'[e] = outcome[e]
    BY <1>7 DEF PersistArtifacts, MaySave, Goto
  <2> QED BY <1>1, <2>1, KnowingKept DEF Knowing, Fitting
<1>8. CASE Scan(e)
  <2>1. /\ pc[e] = "scan" /\ pc'[e] = "attempt" /\ job'[e] = job[e] /\ outcome'[e] = outcome[e]
        /\ number'[e] = Len(attempts[job[e]]) + 1
    BY <1>8 DEF Scan, NextNumber, Goto
  <2> QED BY <1>1, <2>1, KnowingKept DEF Knowing, Fitting
<1>9. CASE Reuse(e) \/ SaveKnown(e) \/ SaveConflict(e) \/ ArtifactConflict(e)
             \/ AttemptConflict(e) \/ WritePointer(e) \/ Crash(e) \/ \E j \in Jobs : Start(e, j)
  <2>1. pc'[e] \in {"idle", "load"}
    BY <1>9 DEF Reuse, SaveKnown, SaveConflict, ArtifactConflict, AttemptConflict, WritePointer,
                Crash, Start, End, Goto
  <2> QED BY <1>2, <2>1
<1> QED BY <1>3, <1>4, <1>5, <1>6, <1>7, <1>8, <1>9 DEF Execute

(* What the attempt of an invocation adds. *)
LEMMA AttemptAdds ==
  ASSUME Sound, NEW e \in Executors, WriteAttempt(e)
  PROVE  \E j \in Jobs :
           /\ j = job[e] /\ pc[e] = "attempt" /\ pc' = [pc EXCEPT ![e] = "pointer"]
           /\ outcome[e] \in Outcomes
           /\ UNCHANGED <<pointer, job, caps, outcome, number, scope>>
           /\ \A k \in Jobs \ {j} : attempts'[k] = attempts[k]
           /\ \/ attempts' = attempts /\ number[e] <= Len(attempts[j])
              \/ /\ attempts'[j] = Append(attempts[j], outcome[e])
                 /\ Len(attempts'[j]) = Len(attempts[j]) + 1
                 /\ attempts'[j][Len(attempts[j]) + 1] = outcome[e]
                 /\ \A n \in 1..Len(attempts[j]) : attempts'[j][n] = attempts[j][n]
<1>1. PICK j \in Jobs : j = job[e]
  BY Running DEF WriteAttempt
<1>2. outcome[e] \in Outcomes /\ number[e] \in Nat /\ attempts[j] \in Seq(Outcomes)
  BY DEF WriteAttempt, Sound, Types, Position
<1>3. CASE attempts' = [attempts EXCEPT ![j] = Append(@, outcome[e])]
  <2>1. attempts'[j] = Append(attempts[j], outcome[e])
        /\ \A k \in Jobs \ {j} : attempts'[k] = attempts[k]
    BY <1>3 DEF Sound, Types
  <2>2. /\ Len(attempts'[j]) = Len(attempts[j]) + 1
        /\ attempts'[j][Len(attempts[j]) + 1] = outcome[e]
        /\ \A n \in 1..Len(attempts[j]) : attempts'[j][n] = attempts[j][n]
    BY <1>2, <2>1
  <2> QED BY <1>1, <1>2, <2>1, <2>2 DEF WriteAttempt, Goto
<1>4. CASE attempts' = attempts /\ Len(attempts[j]) >= number[e]
  <2>1. number[e] <= Len(attempts[j])
    BY <1>2, <1>4
  <2> QED BY <1>1, <1>2, <1>4, <2>1 DEF WriteAttempt, Goto
<1> QED BY <1>1, <1>3, <1>4 DEF WriteAttempt

LEMMA KnowingWrite ==
  ASSUME Sound, Knowing, NEW e \in Executors, WriteAttempt(e)
  PROVE  Knowing'
<1>1. PICK j \in Jobs :
        /\ j = job[e] /\ pc[e] = "attempt" /\ pc' = [pc EXCEPT ![e] = "pointer"]
        /\ outcome[e] \in Outcomes
        /\ UNCHANGED <<pointer, job, caps, outcome, number, scope>>
        /\ \A k \in Jobs \ {j} : attempts'[k] = attempts[k]
        /\ \/ attempts' = attempts /\ number[e] <= Len(attempts[j])
           \/ /\ attempts'[j] = Append(attempts[j], outcome[e])
              /\ Len(attempts'[j]) = Len(attempts[j]) + 1
              /\ attempts'[j][Len(attempts[j]) + 1] = outcome[e]
              /\ \A n \in 1..Len(attempts[j]) : attempts'[j][n] = attempts[j][n]
  BY AttemptAdds
<1>2. pc \in [Executors -> {"idle", "load", "work", "save", "scan", "attempt", "pointer"}]
      /\ number[e] \in Nat /\ Len(attempts[j]) \in Nat
  BY DEF Sound, Types
<1>3. pc'[e] = "pointer" /\ \A q \in Executors \ {e} : pc'[q] = pc[q]
  BY <1>1, <1>2
<1>4. j \in NoWork => outcome[e].status \in Final
  BY <1>1 DEF Knowing, Fitting
<1>5. \A k \in NoWork : \A n \in 1..Len(attempts'[k]) : attempts'[k][n].status \in Final
  <2> SUFFICES ASSUME NEW k \in NoWork, NEW n \in 1..Len(attempts'[k])
               PROVE  attempts'[k][n].status \in Final
    OBVIOUS
  <2>1. CASE attempts'[k] = attempts[k]
    BY <2>1 DEF Knowing, Fitting
  <2>2. CASE k = j /\ attempts' # attempts
    <3>1. n \in 1..Len(attempts[j]) \/ n = Len(attempts[j]) + 1
      BY <1>1, <1>2, <2>2
    <3>2. n \in 1..Len(attempts[j]) => attempts[j][n].status \in Final
      BY <2>2 DEF Knowing, Fitting
    <3> QED BY <1>1, <1>4, <2>2, <3>1, <3>2
  <2> QED BY <1>1, <2>1, <2>2 DEF NoWork
<1>6. Fitting'
  BY <1>1, <1>3, <1>4, <1>5 DEF Knowing, Fitting
<1>7. Numbered'
  <2> SUFFICES ASSUME Alone, NEW q \in Executors
               PROVE  /\ pc'[q] = "attempt" => number[q] = Len(attempts'[job[q]]) + 1
                      /\ pc'[q] = "pointer" => number[q] = Len(attempts'[job[q]])
    BY <1>1 DEF Numbered, Alone
  <2>1. q # e => pc'[q] = "idle"
    BY <1>1, <1>3, Single
  <2>2. number[e] = Len(attempts[j]) + 1
    BY <1>1 DEF Knowing, Numbered
  <2>3. number[e] = Len(attempts'[j])
    BY <1>1, <1>2, <2>2
  <2> QED BY <1>1, <1>3, <2>1, <2>3
<1> QED BY <1>6, <1>7 DEF Knowing

LEMMA KnowingStep == Sound /\ Knowing /\ [Next]_vars => Knowing'
<1> SUFFICES ASSUME Sound, Knowing, [Next]_vars PROVE Knowing'
  OBVIOUS
<1>1. CASE UNCHANGED vars
  BY <1>1 DEF vars, store, local, Knowing, Fitting, Numbered, Alone
<1>2. CASE Next
  BY <1>2, KnowingOwn, KnowingWrite DEF Next
<1> QED BY <1>1, <1>2

LEMMA KnowingAlways == Spec => []Knowing
<1>1. Init => Knowing
  BY DEF Init, Knowing, Fitting, Numbered, NoWork
<1> QED BY <1>1, KnowingStep, SoundAlways, PTL DEF Spec

(* An answer changes what is read of one job. *)
LEMMA AnswerStep ==
  ASSUME Types, NEW j \in Jobs,
         \A k \in Jobs \ {j} : Latest(k)' = Latest(k),
         Latest(j)' \in Outcomes,
         Open(j),
         j \in NoWork => Latest(j)'.status \in Final
  PROVE  Gate!Next
<1>1. Nothing.status \notin Final /\ \A o \in Outcomes : o # Nothing
  BY DEF Nothing, Outcome, Outcomes, Final
<1>2. \A k \in Jobs \ {j} : Disposition(k)' = Disposition(k)
  BY DEF Disposition
<1>3. PICK d \in {"RESOLVED", "UNRESOLVED"} : d = Disposition(j)'
  BY <1>1 DEF Disposition
<1>4. Disposition(j) = "RESOLVED" => d = "RESOLVED"
  BY <1>1, <1>3 DEF Disposition, Open
<1>5. j \in NoWork => d = "RESOLVED"
  BY <1>1, <1>3 DEF Disposition
<1>6. Answered' = [Answered EXCEPT ![j] = d]
  BY <1>2, <1>3 DEF Answered
<1>7. d \in Gate!Answers(j)
  BY <1>4, <1>5 DEF Gate!Answers, Answered, NoWork
<1>8. Gate!Execute(j)
  BY <1>6, <1>7 DEF Gate!Execute
<1> QED BY <1>8 DEF Gate!Next

LEMMA AnsweredKept ==
  ASSUME \A k \in Jobs : Latest(k)' = Latest(k)
  PROVE  Answered' = Answered
BY DEF Answered, Disposition

LEMMA AnswersWrite ==
  ASSUME Sound, Knowing, Alone, NEW e \in Executors, WriteAttempt(e)
  PROVE  Gate!Next \/ Answered' = Answered
<1>1. PICK j \in Jobs :
        /\ j = job[e] /\ pc[e] = "attempt" /\ pc' = [pc EXCEPT ![e] = "pointer"]
        /\ outcome[e] \in Outcomes
        /\ UNCHANGED <<pointer, job, caps, outcome, number, scope>>
        /\ \A k \in Jobs \ {j} : attempts'[k] = attempts[k]
        /\ \/ attempts' = attempts /\ number[e] <= Len(attempts[j])
           \/ /\ attempts'[j] = Append(attempts[j], outcome[e])
              /\ Len(attempts'[j]) = Len(attempts[j]) + 1
              /\ attempts'[j][Len(attempts[j]) + 1] = outcome[e]
              /\ \A n \in 1..Len(attempts[j]) : attempts'[j][n] = attempts[j][n]
  BY AttemptAdds
<1>2. \A k \in Jobs \ {j} : Latest(k)' = Latest(k)
  BY <1>1 DEF Latest
<1>3. /\ Types /\ Bound /\ Len(attempts[j]) \in Nat /\ number[e] = Len(attempts[j]) + 1
  BY <1>1 DEF Sound, Types, Knowing, Numbered
<1>4. /\ attempts'[j][Len(attempts[j]) + 1] = outcome[e]
      /\ Len(attempts'[j]) = Len(attempts[j]) + 1
      /\ \A n \in 1..Len(attempts[j]) : attempts'[j][n] = attempts[j][n]
  BY <1>1, <1>3
<1>5. CASE pointer[j] # 0
  <2>1. pointer[j] \in 1..Len(attempts[j])
    BY <1>3, <1>5, LatestType
  <2>2. Latest(j)' = Latest(j)
    BY <1>1, <1>4, <1>5, <2>1 DEF Latest
  <2> QED BY <1>2, <2>2, AnsweredKept
<1>6. CASE pointer[j] = 0
  <2>1. attempts'[j] # <<>>
    BY <1>3, <1>4
  <2>2. Latest(j)' = outcome[e]
    BY <1>1, <1>4, <1>6, <2>1 DEF Latest, Last
  <2>3. Open(j)
    BY <1>1 DEF Sound, Lasting, Ready
  <2>4. j \in NoWork => outcome[e].status \in Final
    BY <1>1 DEF Knowing, Fitting
  <2>5. /\ Latest(j)' \in Outcomes
        /\ j \in NoWork => Latest(j)'.status \in Final
    BY <1>1, <2>2, <2>4
  <2> QED BY <1>2, <1>3, <2>3, <2>5, AnswerStep
<1> QED BY <1>5, <1>6

LEMMA AnswersPoint ==
  ASSUME Sound, Knowing, Alone, NEW e \in Executors, WritePointer(e)
  PROVE  Gate!Next \/ Answered' = Answered
<1>1. /\ pc[e] = "pointer" /\ attempts' = attempts
      /\ pointer' = [pointer EXCEPT ![job[e]] = number[e]]
  BY DEF WritePointer
<1>2. PICK j \in Jobs : j = job[e]
  BY <1>1, Running
<1>3. /\ Types /\ Bound /\ Len(attempts[j]) \in Nat /\ number[e] = Len(attempts[j])
      /\ number[e] \in 1..Len(attempts[j]) /\ attempts[j] \in Seq(Outcomes)
  BY <1>1, <1>2 DEF Sound, Types, Knowing, Numbered, Position
<1>4. pointer'[j] = Len(attempts[j]) /\ \A k \in Jobs \ {j} : pointer'[k] = pointer[k]
  BY <1>1, <1>2, <1>3 DEF Types
<1>5. \A k \in Jobs \ {j} : Latest(k)' = Latest(k)
  BY <1>1, <1>4 DEF Latest
<1>6. /\ Latest(j)' = attempts[j][Len(attempts[j])]
      /\ attempts[j][Len(attempts[j])] \in Outcomes
  BY <1>1, <1>3, <1>4 DEF Latest
<1>7. CASE pointer[j] = 0
  <2>1. Latest(j) = attempts[j][Len(attempts[j])]
    BY <1>3, <1>7, LatestType
  <2> QED BY <1>5, <1>6, <2>1, AnsweredKept
<1>8. CASE pointer[j] # 0
  <2>1. Open(j)
    BY <1>1, <1>2, <1>8 DEF Sound, Lasting, Ready
  <2>2. j \in NoWork => attempts[j][Len(attempts[j])].status \in Final
    BY <1>3 DEF Knowing, Fitting
  <2>3. /\ Latest(j)' \in Outcomes
        /\ j \in NoWork => Latest(j)'.status \in Final
    BY <1>6, <2>2
  <2> QED BY <1>3, <1>5, <2>1, <2>3, AnswerStep
<1> QED BY <1>7, <1>8

LEMMA AnswersKnown ==
  ASSUME Sound, NEW e \in Executors, SaveKnown(e)
  PROVE  Answered' = Answered
<1>1. PICK j \in Jobs : j = job[e]
  BY Running DEF SaveKnown
<1>2. /\ attempts' = attempts /\ Types /\ Bound
      /\ pointer' = [pointer EXCEPT ![j] = IF @ = 0 THEN Len(attempts[j]) ELSE @]
  BY <1>1 DEF SaveKnown, Sound
<1>3. \A k \in Jobs \ {j} : Latest(k)' = Latest(k)
  BY <1>2 DEF Latest, Types
<1>4. Latest(j)' = Latest(j)
  <2>1. CASE pointer[j] # 0
    BY <1>2, <2>1 DEF Latest, Types
  <2>2. CASE pointer[j] = 0 /\ attempts[j] = <<>>
    <3>1. Len(attempts[j]) = 0
      BY <2>2
    <3> QED BY <1>2, <2>2, <3>1 DEF Latest, Types
  <2>3. CASE pointer[j] = 0 /\ attempts[j] # <<>>
    <3>1. Latest(j) = attempts[j][Len(attempts[j])] /\ Len(attempts[j]) # 0
      BY <1>2, <2>3, LatestType
    <3>2. pointer'[j] = Len(attempts[j])
      BY <1>2, <2>3 DEF Types
    <3> QED BY <1>2, <3>1, <3>2 DEF Latest
  <2> QED BY <2>1, <2>2, <2>3
<1> QED BY <1>3, <1>4, AnsweredKept

(* Each step of an execution that is not overlapped is an answer or nothing. *)
LEMMA AnswersStep ==
  ASSUME Sound, Knowing, [Next]_vars, Alone
  PROVE  [Gate!Next]_Answered
<1>1. CASE \E e \in Executors : WriteAttempt(e)
  BY <1>1, AnswersWrite
<1>2. CASE \E e \in Executors : WritePointer(e)
  BY <1>2, AnswersPoint
<1>3. CASE \E e \in Executors : SaveKnown(e)
  BY <1>3, AnswersKnown
<1>4. CASE UNCHANGED <<attempts, pointer>>
  <2>1. \A k \in Jobs : Latest(k)' = Latest(k)
    BY <1>4 DEF Latest
  <2> QED BY <2>1, AnsweredKept
<1>5. \/ \E e \in Executors : WriteAttempt(e) \/ WritePointer(e) \/ SaveKnown(e)
      \/ UNCHANGED <<attempts, pointer>>
  BY DEF Next, Execute, Crash, Start, Reuse, Republish, Decline, Begin, Work, SaveConflict,
         PersistArtifacts, ArtifactConflict, Scan, AttemptConflict, vars, store
<1> QED BY <1>1, <1>2, <1>3, <1>4, <1>5

Stays(j) ==
  /\ pointer[j] # 0 /\ Latest(j).status \in Final => pointer'[j] = pointer[j]
  /\ \A e \in Executors : Works(e) /\ job[e] = j =>
       /\ pointer[j] = 0 => ~Succeeded(j)
       /\ pointer[j] # 0 => Latest(j).status \notin Final

(* Without overlap nothing that is settled is replaced or worked out again,  *)
(* and every execution is one answer to one request.                         *)
THEOREM SettledAlwaysStays == Spec => SettledStaysSettled
<1>1. ASSUME Sound, [Next]_vars, Alone, NEW j \in Jobs,
             pointer[j] # 0, Latest(j).status \in Final
      PROVE  pointer'[j] = pointer[j]
  <2>1. CASE UNCHANGED pointer
    BY <2>1
  <2>2. CASE \E e \in Executors : SaveKnown(e)
    BY <1>1, <2>2 DEF SaveKnown, Sound, Types
  <2>3. CASE \E e \in Executors : WritePointer(e)
    <3>1. PICK e \in Executors : WritePointer(e)
      BY <2>3
    <3>2. job[e] # j
      BY <1>1, <3>1 DEF WritePointer, Sound, Lasting, Ready, Open
    <3> QED BY <1>1, <3>1, <3>2 DEF WritePointer, Sound, Types
  <2>4. UNCHANGED pointer \/ (\E e \in Executors : SaveKnown(e))
          \/ \E e \in Executors : WritePointer(e)
    BY <1>1 DEF Next, Execute, Crash, Start, Reuse, Republish, Decline, Begin, Work, SaveConflict,
                PersistArtifacts, ArtifactConflict, Scan, WriteAttempt, AttemptConflict, vars, store
  <2> QED BY <2>1, <2>2, <2>3, <2>4
<1>2. ASSUME Sound, Alone, NEW e \in Executors, NEW j \in Jobs, Works(e), job[e] = j
      PROVE  /\ pointer[j] = 0 => ~Succeeded(j)
             /\ pointer[j] # 0 => Latest(j).status \notin Final
  <2>1. Open(j)
    BY <1>2 DEF Works, Sound, Lasting, Ready
  <2>2. ASSUME pointer[j] = 0, NEW n \in 1..Len(attempts[j]) PROVE attempts[j][n].status \notin Final
    <3>1. CASE n = Len(attempts[j])
      <4>1. attempts[j] # <<>>
        BY <2>2, <3>1
      <4>2. Latest(j) = attempts[j][Len(attempts[j])]
        BY <2>2, <4>1 DEF Latest, Last
      <4> QED BY <2>1, <3>1, <4>2 DEF Open
    <3>2. CASE n # Len(attempts[j])
      <4>1. n \in 1..(Len(attempts[j]) - 1)
        BY <3>2 DEF Sound, Types
      <4> QED BY <1>2, <2>2, <4>1 DEF Sound, Lasting
    <3> QED BY <3>1, <3>2
  <2> QED BY <2>1, <2>2 DEF Succeeded, Open, Final
<1>3. ASSUME Sound, [Next]_vars
      PROVE  [Alone => \A j \in Jobs : Stays(j)]_vars
  BY <1>1, <1>2, <1>3 DEF Stays
<1>4. Sound /\ Knowing /\ [Next]_vars => [Alone => [Gate!Next]_Answered]_vars
  BY AnswersStep
<1>5. Sound /\ Knowing /\ [Next]_vars =>
        [Alone => [Gate!Next]_Answered /\ \A j \in Jobs : Stays(j)]_vars
  BY <1>3, <1>4
<1> QED BY <1>5, SoundAlways, KnowingAlways, PTL DEF Spec, SettledStaysSettled, Stays
=============================================================================
