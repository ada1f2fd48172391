--------------------------- MODULE OwnerTrustStore ---------------------------
(***************************************************************************)
(* The owner's trust root (phase 7-C3,                                     *)
(* src/turtle_value_engine/evolution/owner_trust_store.py): numbered,      *)
(* create-only snapshots of a key registry, each naming its parent by the  *)
(* hash of its content.  A command derives the next snapshot from the      *)
(* latest, checks it against the chain once more and creates its file in   *)
(* place: another reader may meet the file before its bytes are complete.  *)
(*                                                                         *)
(* A hash commits to everything before it, so a snapshot is represented by *)
(* the registries from the first snapshot to its own; an incomplete file   *)
(* is the empty sequence.                                                  *)
(***************************************************************************)
EXTENDS Naturals, Sequences, SequencesExt, FiniteSets

CONSTANTS
  Writers,       \* invocations of trust-root commands
  Keys,          \* owner keys
  Founders,      \* keys of the first snapshot
  MaxSnapshots,  \* bound: snapshots of the trust root
  MaxMishaps     \* bound: commands that die or are interrupted

ASSUME FoundersAssumption == Founders \subseteq Keys
ASSUME TrustBoundsAssumption == MaxSnapshots \in Nat \ {0} /\ MaxMishaps \in Nat

VARIABLES
  snapshots,  \* the snapshot files on disk, by sequence number
  writer,     \* where each command stands
  next,       \* the snapshot each command is about to append
  granted,    \* snapshots that a command reported as published
  withdrawn,  \* snapshots whose own writer removed them again
  mishaps     \* how many commands died or were interrupted

trust == <<snapshots, writer, next, granted, withdrawn, mishaps>>

Numbers == DOMAIN snapshots
Torn == <<>>

(* _load_chain: contiguous from 1, complete, each chained to its parent. *)
Readable ==
  /\ Numbers = 1..Cardinality(Numbers)
  /\ \A n \in Numbers :
       /\ Len(snapshots[n]) = n
       /\ n > 1 => Front(snapshots[n]) = snapshots[n - 1]

Latest == snapshots[Cardinality(Numbers)]
Registry(snapshot) == Last(snapshot)

Enrolled(registry) ==
  {[registry EXCEPT ![k] = "trusted"] : k \in {j \in Keys : registry[j] = "unknown"}}
Revoked(registry) ==
  {[registry EXCEPT ![k] = "revoked"] : k \in {j \in Keys : registry[j] = "trusted"}}

(* Rotation revokes one key and enrols another in one snapshot. *)
Rotated(registry) == UNION {Enrolled(revoked) : revoked \in Revoked(registry)}

Transitions(registry) == Enrolled(registry) \union Revoked(registry) \union Rotated(registry)

-----------------------------------------------------------------------------
(* init_store has published the first snapshot. *)
Founding == <<[k \in Keys |-> IF k \in Founders THEN "trusted" ELSE "unknown"]>>

TrustInit ==
  /\ snapshots = <<Founding>>
  /\ writer = [w \in Writers |-> "idle"]
  /\ next = [w \in Writers |-> Torn]
  /\ granted = {Founding}
  /\ withdrawn = {}
  /\ mishaps = 0

Stand(w, position) == writer' = [writer EXCEPT ![w] = position]

Leave(w) ==
  /\ Stand(w, "idle")
  /\ next' = [next EXCEPT ![w] = Torn]

(* apply_snapshot_operation reads the latest snapshot and derives the next. *)
DeriveNext(w) ==
  /\ writer[w] = "idle"
  /\ Readable
  /\ Cardinality(Numbers) < MaxSnapshots
  /\ \E registry \in Transitions(Registry(Latest)) :
       next' = [next EXCEPT ![w] = Append(Latest, registry)]
  /\ Stand(w, "check")
  /\ UNCHANGED <<snapshots, granted, withdrawn, mishaps>>

(* append_snapshot: the next number, and chained to the latest. *)
Chains(snapshot) == Readable /\ Front(snapshot) = Latest

CheckChain(w) ==
  /\ writer[w] = "check"
  /\ \/ Chains(next[w]) /\ Stand(w, "create") /\ UNCHANGED next
     \/ ~Chains(next[w]) /\ Leave(w)
  /\ UNCHANGED <<snapshots, granted, withdrawn, mishaps>>

Number(w) == Len(next[w])
File(n, bytes) == [m \in Numbers \union {n} |-> IF m = n THEN bytes ELSE snapshots[m]]

(* O_CREAT | O_EXCL *)
Free_always(w) == TRUE
Free(w) == Number(w) \notin Numbers

Create(w) ==
  /\ writer[w] = "create"
  /\ Free(w)
  /\ snapshots' = File(Number(w), Torn)
  /\ Stand(w, "write")
  /\ UNCHANGED <<next, granted, withdrawn, mishaps>>

(* The file exists: IDEMPOTENT for the same bytes, or else an error. *)
Exists(w) ==
  /\ writer[w] = "create"
  /\ ~Free(w)
  /\ granted' = granted \union ({snapshots[Number(w)]} \intersect {next[w]})
  /\ Leave(w)
  /\ UNCHANGED <<snapshots, withdrawn, mishaps>>

Write(w) ==
  /\ writer[w] = "write"
  /\ snapshots' = File(Number(w), next[w])
  /\ Stand(w, "sync")
  /\ UNCHANGED <<next, granted, withdrawn, mishaps>>

Sync(w) ==
  /\ writer[w] = "sync"
  /\ granted' = granted \union {next[w]}
  /\ Leave(w)
  /\ UNCHANGED <<snapshots, withdrawn, mishaps>>

(* write, flush or fsync raises, or the operator interrupts the command: it  *)
(* removes the file it created.                                              *)
Withdraw(w) ==
  /\ mishaps < MaxMishaps
  /\ writer[w] \in {"write", "sync"}
  /\ snapshots' = [m \in Numbers \ {Number(w)} |-> snapshots[m]]
  /\ withdrawn' = withdrawn \union {next[w]}
  /\ mishaps' = mishaps + 1
  /\ Leave(w)
  /\ UNCHANGED granted

(* The command is killed: what it created stays as it is. *)
Die(w) ==
  /\ mishaps < MaxMishaps
  /\ writer[w] # "idle"
  /\ mishaps' = mishaps + 1
  /\ Leave(w)
  /\ UNCHANGED <<snapshots, granted, withdrawn>>

TrustStep(w) ==
  \/ DeriveNext(w) \/ CheckChain(w) \/ Create(w) \/ Exists(w)
  \/ Write(w) \/ Sync(w) \/ Withdraw(w) \/ Die(w)

TrustSpec == TrustInit /\ [][\E w \in Writers : TrustStep(w)]_trust

-----------------------------------------------------------------------------
Registries == [Keys -> {"unknown", "trusted", "revoked"}]

TrustTypeOK ==
  /\ Numbers \subseteq 1..MaxSnapshots
  /\ \A n \in Numbers : snapshots[n] = Torn \/ snapshots[n] \in [1..n -> Registries]
  /\ writer \in [Writers -> {"idle", "check", "create", "write", "sync"}]
  /\ \A w \in Writers : writer[w] = "idle" <=> next[w] = Torn
  /\ mishaps \in 0..MaxMishaps

(* "Publication is create-only -- committed snapshots are immutable"         *)
(* (OwnerProvenanceTrustStore): unless a writer removed a file of its own,   *)
(* every snapshot that a command reported as published stays on disk as it   *)
(* is and chains to the ones before it, whatever races or dies, so that a    *)
(* reported revocation cannot be lost in a fork.                             *)
GrantedStays ==
  withdrawn = {} =>
    \A snapshot \in granted : \A n \in 1..Len(snapshot) :
      n \in Numbers /\ snapshots[n] = SubSeq(snapshot, 1, n)

(* The same without that exception. *)
CommittedIsImmutable ==
  \A snapshot \in granted : \A n \in 1..Len(snapshot) :
    n \in Numbers /\ snapshots[n] = SubSeq(snapshot, 1, n)

=============================================================================
