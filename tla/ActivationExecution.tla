------------------------- MODULE ActivationExecution -------------------------
(***************************************************************************)
(* The activation executor (phase 7-C4-A,                                  *)
(* src/turtle_value_engine/evolution/activation_execution.py): one private *)
(* configuration file whose default profile an explicit command exchanges, *)
(* and an explicit rollback restores.  Under a lock an exchange publishes  *)
(* its intent, secures the bytes it replaces, stages the new bytes, looks  *)
(* at the configuration and at the authority once more, replaces the file  *)
(* and publishes its record.  Every durable write is a step; an invocation *)
(* may die at each of them and leave a file that is incomplete; the owner  *)
(* edits the configuration and the trust root without that lock.           *)
(*                                                                         *)
(* Identities are functions of content: an activation is its receipt, that *)
(* is the bytes it replaces, the release it applies and the registry of    *)
(* keys that authorised it.  The bytes of a configuration are its default  *)
(* profile and all the rest.                                               *)
(***************************************************************************)
EXTENDS OwnerTrustStore

CONSTANTS
  Procs,      \* invocations of activate-profile and rollback-activation
  Profiles,   \* rule profiles
  Releases,   \* released profiles with a signed decision: base and target
  Rests,      \* what else a configuration may contain
  Original,   \* the first configuration
  Signer,     \* the key that signed the decisions
  None,       \* no command, no exchange, no holder
  Scopes      \* bounds: writers, invocations and releases of a behaviour,
              \* snapshots, dead writers, edits by the owner, dead invocations

Contents == [default : Profiles, rest : Rests]
Receipts == [prior : Contents, release : Releases, registry : Registries]
Exchanges == [op : {"apply", "rollback"}, of : Receipts]

ASSUME OriginalAssumption == Original \in Contents
ASSUME ReleasesAssumption ==
  \A r \in Releases : r.base \in Profiles /\ r.target \in Profiles /\ r.base # r.target
ASSUME SignerAssumption == Signer \in Keys
ASSUME NoneAssumption == None \notin Procs \union Receipts \union Exchanges
ASSUME ScopeAssumption ==
  \A s \in Scopes :
    /\ s.writers \subseteq Writers /\ s.procs \subseteq Procs
    /\ s.releases \subseteq Releases
    /\ s.snapshots \in 1..MaxSnapshots /\ s.mishaps \in 0..MaxMishaps
    /\ s.edits \in Nat /\ s.deaths \in Nat

VARIABLES
  config,     \* the configuration file
  files,      \* complete artifacts on disk
  torn,       \* incomplete ones
  lock,       \* the invocation that holds the lock of the configuration
  pc,         \* where each invocation stands
  command,    \* what it was told to apply, as an earlier preview printed it
  prepared,   \* the trust-root snapshot it has read
  seen,       \* the configuration it has read
  exchange,   \* the exchange it is about to make
  answer,     \* what it reported last
  edits,      \* how often the owner edited the configuration
  deaths,     \* how many invocations died
  witnessed,  \* exchanges whose outcome was in place after their intent
  scope       \* the bounds of this behaviour

disk == <<config, files, torn>>
local == <<pc, command, prepared, seen, exchange, answer>>
budget == <<edits, deaths, scope>>
vars == <<trust, disk, lock, local, budget, witnessed>>

-----------------------------------------------------------------------------
(* Receipts, exchanges and artifacts. *)

Receipt(content, release, registry) ==
  [prior |-> content, release |-> release, registry |-> registry]
Activated(r) == [r.prior EXCEPT !.default = r.release.target]

Apply(r) == [op |-> "apply", of |-> r]
Rollback(r) == [op |-> "rollback", of |-> r]
From(x) == IF x.op = "apply" THEN x.of.prior ELSE Activated(x.of)
To(x) == IF x.op = "apply" THEN Activated(x.of) ELSE x.of.prior

Intent(x) == [kind |-> "intent", of |-> x]
Record(x) == [kind |-> "record", of |-> x]
Staged(x) == [kind |-> "staged", of |-> x]
Image(content) == [kind |-> "image", of |-> content]

Present(a) == a \in files \union torn

(* _journals_for_config; a journal that does not validate refuses them all. *)
Journal == {a.of.of : a \in {b \in files : b.kind = "intent" /\ b.of.op = "apply"}}
JournalCorrupt == \E a \in torn : a.kind = "intent" /\ a.of.op = "apply"

Finished(r) == Present(Record(Apply(r)))
Unfinished == {r \in Journal : ~Finished(r)}

(* What a scan finds when the configuration holds this content. *)
Completed(c) == {r \in Journal : Finished(r) /\ c = Activated(r)}
Unrecorded(c) == {r \in Unfinished : c = Activated(r)}
Resumable(c) == {r \in Unfinished : c = r.prior}
Diverged(c) == Unfinished \ (Unrecorded(c) \union Resumable(c))
Stops(c) ==
  Completed(c) \union Unrecorded(c) \union Diverged(c) # {} \/ Cardinality(Resumable(c)) > 1

(* READY: the base of the release is in use and a trusted key has decided. *)
Ready(registry, content, release) ==
  content.default = release.base /\ registry[Signer] = "trusted"

Answer(code, r) == [code |-> code, of |-> r]

-----------------------------------------------------------------------------
Init ==
  /\ TrustInit
  /\ config = Original
  /\ files = {}
  /\ torn = {}
  /\ lock = None
  /\ pc = [p \in Procs |-> "idle"]
  /\ command = [p \in Procs |-> None]
  /\ prepared = [p \in Procs |-> Torn]
  /\ seen = [p \in Procs |-> None]
  /\ exchange = [p \in Procs |-> None]
  /\ answer = [p \in Procs |-> Answer("NONE", None)]
  /\ edits = 0
  /\ deaths = 0
  /\ witnessed = {}
  /\ scope \in Scopes

Goto(p, position) == pc' = [pc EXCEPT ![p] = position]

Forget(p) ==
  /\ Goto(p, "idle")
  /\ prepared' = [prepared EXCEPT ![p] = Torn]
  /\ seen' = [seen EXCEPT ![p] = None]
  /\ exchange' = [exchange EXCEPT ![p] = None]
  /\ lock' = IF lock = p THEN None ELSE lock

(* The invocation reports and releases the lock. *)
End(p, a) ==
  /\ answer' = [answer EXCEPT ![p] = a]
  /\ Forget(p)
  /\ UNCHANGED <<trust, command, budget>>

Refuse(p) == End(p, Answer("REFUSED", None))

(* A READY preview prints the plan and the configuration to expect. *)
Preview(p) ==
  /\ pc[p] = "idle" /\ p \in scope.procs
  /\ Readable
  /\ \E release \in scope.releases :
       /\ Ready(Registry(Latest), config, release)
       /\ command' = [command EXCEPT ![p] = Receipt(config, release, Registry(Latest))]
  /\ answer' = [answer EXCEPT ![p] = Answer("NONE", None)]
  /\ UNCHANGED <<trust, disk, lock, pc, prepared, seen, exchange, budget>>

(* activate-profile --apply: the command line reads the trust root first. *)
Prepare(p) ==
  /\ pc[p] = "idle"
  /\ command[p] # None
  /\ Readable
  /\ prepared' = [prepared EXCEPT ![p] = Latest]
  /\ Goto(p, "lock")
  /\ UNCHANGED <<trust, disk, lock, command, seen, exchange, answer, budget>>

(* rollback-activation --receipt *)
StartRollback(p) ==
  /\ pc[p] = "idle" /\ p \in scope.procs
  /\ \E r \in Journal :
       /\ Record(Apply(r)) \in files
       /\ exchange' = [exchange EXCEPT ![p] = Rollback(r)]
  /\ Goto(p, "lock")
  /\ UNCHANGED <<trust, disk, lock, command, prepared, seen, answer, budget>>

(* flock, not waiting *)
Lockable_always(p) == TRUE
Lockable(p) == lock = None

Acquire(p) ==
  /\ pc[p] = "lock"
  /\ Lockable(p)
  /\ lock' = p
  /\ seen' = [seen EXCEPT ![p] = config]
  /\ Goto(p, IF exchange[p] = None THEN "scan" ELSE "examine")
  /\ UNCHANGED <<trust, disk, command, prepared, exchange, answer, budget>>

Busy(p) ==
  /\ pc[p] = "lock"
  /\ ~Lockable(p)
  /\ Refuse(p)
  /\ UNCHANGED disk

(* The scan of the journals: an activation in place is reported as complete. *)
ScanCompleted(p) ==
  /\ pc[p] = "scan" /\ ~JournalCorrupt
  /\ \E r \in Completed(seen[p]) :
       IF Record(Apply(r)) \in files THEN End(p, Answer("COMPLETED_ALREADY", r)) ELSE Refuse(p)
  /\ UNCHANGED disk

(* ... one that was replaced and not recorded gets its receipt. *)
ScanUnrecorded_refuses(p) ==
  /\ pc[p] = "scan" /\ ~JournalCorrupt /\ Unrecorded(seen[p]) # {}
  /\ Refuse(p)
  /\ UNCHANGED disk
ScanUnrecorded(p) ==
  /\ pc[p] = "scan" /\ ~JournalCorrupt
  /\ \E r \in Unrecorded(seen[p]) : exchange' = [exchange EXCEPT ![p] = Apply(r)]
  /\ Goto(p, "record")
  /\ UNCHANGED <<trust, disk, lock, command, prepared, seen, answer, budget>>

ScanRefused(p) ==
  /\ pc[p] = "scan"
  /\ JournalCorrupt \/ Diverged(seen[p]) # {} \/ Cardinality(Resumable(seen[p])) > 1
  /\ Refuse(p)
  /\ UNCHANGED disk

(* _enforce_authority_recheck: the trust root is still the one prepared. *)
Authorised_always(p) == TRUE
Authorised(p) == Readable /\ Latest = prepared[p]

(* The fresh plan is ready and is the one previewed, the configuration is    *)
(* the one previewed, and an unfinished intent is for this very activation.  *)
Resumes(p, fresh) == Resumable(seen[p]) \subseteq {fresh}

Derivable(p) ==
  LET fresh == Receipt(seen[p], command[p].release, Registry(prepared[p]))
  IN /\ Ready(fresh.registry, fresh.prior, fresh.release)
     /\ fresh = command[p]
     /\ config = seen[p]
     /\ Resumes(p, fresh)
     /\ Authorised(p)

Derive(p) ==
  /\ pc[p] = "scan" /\ ~JournalCorrupt /\ ~Stops(seen[p])
  /\ \/ /\ Derivable(p)
        /\ exchange' = [exchange EXCEPT ![p] = Apply(command[p])]
        /\ Goto(p, "intent")
        /\ UNCHANGED <<trust, lock, command, prepared, seen, answer, budget>>
     \/ /\ ~Derivable(p)
        /\ Refuse(p)
  /\ UNCHANGED disk

(* The examination of a rollback.  Its record decides first, then its        *)
(* intent; prior bytes without either are reported and nothing is recorded.  *)
Restored(p) == seen[p] = To(exchange[p])
Secured(p) == Image(To(exchange[p])) \in files

ExamineRestored(p) ==
  /\ pc[p] = "examine" /\ Restored(p)
  /\ Present(Record(exchange[p])) \/ ~Present(Intent(exchange[p]))
  /\ IF Record(exchange[p]) \in torn THEN Refuse(p) ELSE End(p, Answer("ALREADY_RESTORED", None))
  /\ UNCHANGED disk

ExamineUnrecorded(p) ==
  /\ pc[p] = "examine" /\ Restored(p)
  /\ ~Present(Record(exchange[p])) /\ Present(Intent(exchange[p]))
  /\ \/ /\ Intent(exchange[p]) \in files /\ Secured(p)
        /\ Goto(p, "record")
        /\ UNCHANGED <<trust, lock, command, prepared, seen, exchange, answer, budget>>
     \/ /\ ~(Intent(exchange[p]) \in files /\ Secured(p))
        /\ Refuse(p)
  /\ UNCHANGED disk

Examine(p) ==
  /\ pc[p] = "examine" /\ ~Restored(p)
  /\ \/ /\ seen[p] = From(exchange[p]) /\ Secured(p)
        /\ Goto(p, "intent")
        /\ UNCHANGED <<trust, lock, command, prepared, seen, exchange, answer, budget>>
     \/ /\ ~(seen[p] = From(exchange[p]) /\ Secured(p))
        /\ Refuse(p)
  /\ UNCHANGED disk

(* _write_create_or_identical: incomplete bytes under the name are refused.  *)
Publish_blind(p, a, position) ==
  /\ files' = files \union {a}
  /\ Goto(p, position)
  /\ UNCHANGED <<trust, config, torn, lock, command, prepared, seen, exchange, answer, budget>>
Publish(p, a, position) ==
  \/ /\ a \notin torn
     /\ files' = files \union {a}
     /\ Goto(p, position)
     /\ UNCHANGED <<trust, config, torn, lock, command, prepared, seen, exchange, answer, budget>>
  \/ /\ a \in torn
     /\ Refuse(p)
     /\ UNCHANGED disk

PublishIntent(p) ==
  /\ pc[p] = "intent"
  /\ Publish(p, Intent(exchange[p]), IF exchange[p].op = "apply" THEN "image" ELSE "stage")

(* The bytes that an activation replaces; a rollback has verified them.      *)
PublishImage_never(p) ==
  /\ pc[p] = "image"
  /\ Goto(p, "stage")
  /\ UNCHANGED <<trust, disk, lock, command, prepared, seen, exchange, answer, budget>>
PublishImage(p) ==
  /\ pc[p] = "image"
  /\ Publish(p, Image(seen[p]), "stage")

(* _stage_and_replace: the same bytes left by a dead invocation are written  *)
(* again, others are refused.                                                *)
Stage(p) ==
  /\ pc[p] = "stage"
  /\ Publish(p, Staged(exchange[p]), "compare")

Discard(p) == files' = files \ {Staged(exchange[p])}

(* The configuration is read once more ... *)
Unchanged(p) == config = From(exchange[p])

Compare(p) ==
  /\ pc[p] = "compare"
  /\ \/ /\ Unchanged(p)
        /\ Goto(p, IF exchange[p].op = "apply" THEN "recheck" ELSE "replace")
        /\ UNCHANGED <<trust, files, lock, command, prepared, seen, exchange, answer, budget>>
     \/ /\ ~Unchanged(p)
        /\ Discard(p)
        /\ Refuse(p)
  /\ UNCHANGED <<config, torn>>

(* ... and the authority, for the last time before the replacement. *)
Recheck(p) ==
  /\ pc[p] = "recheck"
  /\ \/ /\ Authorised(p)
        /\ Goto(p, "replace")
        /\ UNCHANGED <<trust, files, lock, command, prepared, seen, exchange, answer, budget>>
     \/ /\ ~Authorised(p)
        /\ Discard(p)
        /\ Refuse(p)
  /\ UNCHANGED <<config, torn>>

Replace(p) ==
  /\ pc[p] = "replace"
  /\ config' = To(exchange[p])
  /\ Discard(p)
  /\ Goto(p, "record")
  /\ UNCHANGED <<trust, torn, lock, command, prepared, seen, exchange, answer, budget>>

(* The receipt of an activation, the outcome of a rollback. *)
PublishRecord(p) ==
  /\ pc[p] = "record"
  /\ \/ /\ Record(exchange[p]) \notin torn
        /\ files' = files \union {Record(exchange[p])}
        /\ End(p, Answer("DONE", exchange[p].of))
        /\ UNCHANGED <<config, torn>>
     \/ /\ Record(exchange[p]) \in torn
        /\ Refuse(p)
        /\ UNCHANGED disk

Step(p) ==
  \/ Acquire(p) \/ Busy(p)
  \/ ScanCompleted(p) \/ ScanUnrecorded(p) \/ ScanRefused(p) \/ Derive(p)
  \/ ExamineRestored(p) \/ ExamineUnrecorded(p) \/ Examine(p)
  \/ PublishIntent(p) \/ PublishImage(p) \/ Stage(p) \/ Compare(p) \/ Recheck(p)
  \/ Replace(p) \/ PublishRecord(p)

(* What an invocation that dies while it writes leaves incomplete. *)
Writing(p) ==
  CASE pc[p] = "intent" -> {Intent(exchange[p])}
    [] pc[p] = "image" -> {Image(seen[p])}
    [] pc[p] = "stage" -> {Staged(exchange[p])}
    [] pc[p] = "record" -> {Record(exchange[p])}
    [] OTHER -> {}

DieRunning(p) ==
  /\ deaths < scope.deaths
  /\ pc[p] # "idle"
  /\ \/ UNCHANGED <<files, torn>>
     \/ \E a \in Writing(p) :
          /\ a \notin files \/ a.kind = "staged"
          /\ torn' = torn \union {a}
          /\ files' = files \ {a}
  /\ deaths' = deaths + 1
  /\ answer' = [answer EXCEPT ![p] = Answer("NONE", None)]
  /\ Forget(p)
  /\ UNCHANGED <<trust, config, command, edits, scope>>

(* The owner edits the configuration by hand. *)
Edit ==
  /\ edits < scope.edits
  /\ config' \in Contents \ {config}
  /\ edits' = edits + 1
  /\ UNCHANGED <<trust, files, torn, lock, local, deaths, scope>>

(* The owner enrols, revokes and rotates keys. *)
Administer(w) ==
  /\ w \in scope.writers
  /\ writer[w] = "idle" => Cardinality(Numbers) < scope.snapshots
  /\ TrustStep(w)
  /\ mishaps' <= scope.mishaps
  /\ UNCHANGED <<disk, lock, local, budget>>

(* History: the outcome of an intended exchange is in place. *)
Intended(x) == Intent(x) \in files
Witness ==
  witnessed' = witnessed \union
    {x \in {a.of : a \in {b \in files' : b.kind = "intent"}} : config' = To(x)}

Next ==
  /\ \/ \E p \in Procs :
          Preview(p) \/ Prepare(p) \/ StartRollback(p) \/ Step(p) \/ DieRunning(p)
     \/ Edit
     \/ \E w \in Writers : Administer(w)
  /\ Witness

Spec == Init /\ [][Next]_vars

(* An invocation runs on, and the operator repeats the command.              *)
Fairness ==
  \A p \in Procs : WF_vars(Step(p) /\ Witness) /\ SF_vars(Prepare(p) /\ Witness)

FairSpec == Spec /\ Fairness

-----------------------------------------------------------------------------
(* Properties *)

Positions ==
  {"idle", "lock", "scan", "examine", "intent", "image", "stage", "compare", "recheck",
   "replace", "record"}
Artifacts ==
  [kind : {"intent", "record", "staged"}, of : Exchanges] \union [kind : {"image"}, of : Contents]

(* Every variable keeps its type, and no artifact is complete and incomplete. *)
TypeOK ==
  /\ TrustTypeOK
  /\ config \in Contents
  /\ files \subseteq Artifacts /\ torn \subseteq Artifacts /\ files \intersect torn = {}
  /\ lock \in Procs \union {None}
  /\ pc \in [Procs -> Positions]
  /\ \A p \in Procs :
       /\ command[p] \in Receipts \union {None}
       /\ prepared[p] = Torn \/ Registry(prepared[p]) \in Registries
       /\ seen[p] \in Contents \union {None}
       /\ exchange[p] \in Exchanges \union {None}
  /\ edits \in Nat /\ deaths \in Nat
  /\ witnessed \subseteq Exchanges

(* A revocation that its command reported as published bars every activation *)
(* that has yet to pass its last recheck, although the registry was read     *)
(* before the lock and the trust root moves without it.                      *)
RevocationBars ==
  [][\A p \in Procs :
       pc[p] = "recheck" /\ pc'[p] = "replace" /\ withdrawn = {} =>
         \A snapshot \in granted : Registry(snapshot)[Signer] # "revoked"]_vars

(* An interrupted activation that its operator repeats while nobody else     *)
(* runs commands is recorded in the end, unless a file was left incomplete,  *)
(* the configuration holds neither its prior nor its activated bytes, the    *)
(* authority has changed, or an earlier activation to the same bytes answers *)
(* in its place.                                                             *)
Open(p) ==
  /\ scope.procs = {p}
  /\ command[p] # None
  /\ Intended(Apply(command[p])) /\ ~Present(Record(Apply(command[p])))
Excused(p) ==
  \/ torn # {} \/ ~Readable
  \/ config \notin {command[p].prior, Activated(command[p])}
  \/ Registry(Latest) # command[p].registry
  \/ Completed(config) # {}
InterruptedIsFinished ==
  \A p \in Procs : Open(p) ~> ~Open(p) \/ Excused(p)

(* Every execution is one of ProfileSwitch: whatever races, dies or is        *)
(* refused, the file is exchanged only after its exchange was announced and   *)
(* the bytes to return to were secured, in place of the bytes announced       *)
(* unless the owner edits it, and the records name what took place.           *)
Artifact(kind, artifacts) == {a.of : a \in {b \in artifacts : b.kind = kind}}
Switch == INSTANCE ProfileSwitch WITH
  Exchanges <- {x \in Exchanges : Ready(x.of.registry, x.of.prior, x.of.release)},
  Forward <- {x \in Exchanges : x.op = "apply"},
  Prior <- LAMBDA x : x.of.prior,
  content <- config,
  intended <- Artifact("intent", files),
  secured <- Artifact("image", files),
  happened <- witnessed,
  recorded <- Artifact("record", files \union torn),
  meddled <- edits > 0
SwitchesSafely == Switch!Spec

(* apply_profile_activation: "this exact activation already completed". *)
CompletedIsRequested ==
  \A p \in Procs : answer[p].code = "COMPLETED_ALREADY" => answer[p].of.release = command[p].release
=============================================================================
