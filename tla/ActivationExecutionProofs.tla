---------------------- MODULE ActivationExecutionProofs ----------------------
(***************************************************************************)
(* What holds of the activation of a profile for every set of invocations, *)
(* profiles, contents, releases, keys and bounds.  Part 1: the trust root  *)
(* keeps what its commands reported (OwnerTrustStore).  Part 2: the        *)
(* executor implements ProfileSwitch, and a reported revocation bars every *)
(* activation (ActivationExecution).  Part 3: the status that the owner    *)
(* reads is true of the configuration (ActivationStatus).                  *)
(***************************************************************************)
EXTENDS ActivationStatus, FiniteSetTheorems, TLAPS

-----------------------------------------------------------------------------
(***************************************************************************)
(* Part 1: the trust root                                                  *)
(***************************************************************************)

(* Successive registries: a key that one of them revokes stays revoked. *)
Lineage ==
  {s \in Seq(Registries) :
     \A i, j \in 1..Len(s) : i <= j =>
       \A k \in Keys : s[i][k] = "revoked" => s[j][k] = "revoked"}

(* A snapshot whose ancestors, and itself, are on disk. *)
ChainedIn(f, s) == \A m \in 1..Len(s) : m \in DOMAIN f /\ f[m] = SubSeq(s, 1, m)
Chained(s) == ChainedIn(snapshots, s)

(* Every file and every snapshot a command holds has its number and its      *)
(* lineage, and the first file stays.                                        *)
TrustTyped ==
  /\ Numbers \subseteq 1..MaxSnapshots
  /\ 1 \in Numbers
  /\ \A n \in Numbers : snapshots[n] \in Lineage /\ Len(snapshots[n]) \in {0, n}
  /\ writer \in [Writers -> {"idle", "check", "create", "write", "sync"}]
  /\ DOMAIN next = Writers
  /\ \A w \in Writers :
       IF writer[w] = "idle" THEN next[w] = Torn
       ELSE next[w] \in Lineage /\ Len(next[w]) \in 2..MaxSnapshots
  /\ granted \subseteq Lineage \ {Torn}
  /\ mishaps \in 0..MaxMishaps

Owning == {"write", "sync"}

(* A command owns the file it created, which is incomplete until it wrote.   *)
Owned ==
  /\ \A w \in Writers : writer[w] \in Owning =>
       /\ Number(w) \in Numbers
       /\ snapshots[Number(w)] = IF writer[w] = "write" THEN Torn ELSE next[w]
  /\ \A w, v \in Writers :
       writer[w] \in Owning /\ writer[v] \in Owning /\ w # v => Number(w) # Number(v)

(* While no writer removed its file, every complete file is chained, and so  *)
(* are what a command has checked and what it has reported.                  *)
Rooted ==
  withdrawn = {} =>
    /\ \A n \in Numbers : snapshots[n] # Torn => Chained(snapshots[n])
    /\ \A w \in Writers : writer[w] \in {"create"} \union Owning => Chained(Front(next[w]))
    /\ \A s \in granted : Chained(s)

TrustInv == TrustTyped /\ Owned /\ Rooted

-----------------------------------------------------------------------------
(* Sequences *)

LEMMA Prefix ==
  ASSUME NEW S, NEW s \in Seq(S), NEW m \in Nat, m <= Len(s)
  PROVE  /\ SubSeq(s, 1, m) \in Seq(S)
         /\ Len(SubSeq(s, 1, m)) = m
         /\ \A i \in 1..m : SubSeq(s, 1, m)[i] = s[i]
OBVIOUS

LEMMA WholeSequence ==
  ASSUME NEW S, NEW s \in Seq(S)
  PROVE  SubSeq(s, 1, Len(s)) = s
OBVIOUS

LEMMA PrefixOfPrefix ==
  ASSUME NEW S, NEW s \in Seq(S), NEW m \in Nat, m <= Len(s), NEW k \in 1..m
  PROVE  SubSeq(SubSeq(s, 1, m), 1, k) = SubSeq(s, 1, k)
OBVIOUS

LEMMA AppendFront ==
  ASSUME NEW S, NEW s \in Seq(S), NEW r \in S
  PROVE  /\ Append(s, r) \in Seq(S)
         /\ Len(Append(s, r)) = Len(s) + 1
         /\ Front(Append(s, r)) = s
BY DEF Front

(* Enrolling, revoking and rotating keep registries, and never trust again.  *)
LEMMA TransitionKeepsRevoked ==
  ASSUME NEW registry \in Registries, NEW r \in Transitions(registry)
  PROVE  /\ r \in Registries
         /\ \A k \in Keys : registry[k] = "revoked" => r[k] = "revoked"
BY DEF Transitions, Enrolled, Revoked, Rotated, Registries

LEMMA LineageGrows ==
  ASSUME NEW s \in Lineage, Len(s) > 0, NEW r \in Transitions(Last(s))
  PROVE  Append(s, r) \in Lineage
<1>1. s \in Seq(Registries) /\ Len(s) \in Nat /\ Last(s) = s[Len(s)] /\ Last(s) \in Registries
  BY DEF Lineage, Last
<1>2. r \in Registries /\ \A k \in Keys : s[Len(s)][k] = "revoked" => r[k] = "revoked"
  BY <1>1, TransitionKeepsRevoked
<1>3. Append(s, r) \in Seq(Registries) /\ Len(Append(s, r)) = Len(s) + 1
  BY <1>1, <1>2, AppendFront
<1>4. ASSUME NEW i \in 1..(Len(s) + 1), NEW j \in 1..(Len(s) + 1), i <= j,
             NEW k \in Keys, Append(s, r)[i][k] = "revoked"
      PROVE  Append(s, r)[j][k] = "revoked"
  <2>1. CASE j <= Len(s)
    BY <1>1, <1>4, <2>1 DEF Lineage
  <2>2. CASE j = Len(s) + 1 /\ i <= Len(s)
    <3>1. s[Len(s)][k] = "revoked"
      BY <1>1, <1>4, <2>2 DEF Lineage
    <3> QED BY <1>1, <1>2, <2>2, <3>1
  <2>3. CASE i = Len(s) + 1
    BY <1>1, <1>4, <2>3
  <2> QED BY <1>1, <2>1, <2>2, <2>3
<1> DEFINE a == Append(s, r)
<1>5. a \in Seq(Registries) /\ Len(a) = Len(s) + 1
  BY <1>3
<1>6. \A i, j \in 1..(Len(s) + 1) : i <= j =>
        \A k \in Keys : a[i][k] = "revoked" => a[j][k] = "revoked"
  BY <1>4
<1> HIDE DEF a
<1>7. a \in Lineage
  BY <1>5, <1>6 DEF Lineage
<1> QED BY <1>7 DEF a

(* The end of a sequence is the end of the prefix before it, and one more.   *)
LEMMA FrontIsPrefix ==
  ASSUME NEW S, NEW s \in Seq(S), Len(s) > 0
  PROVE  Front(s) = SubSeq(s, 1, Len(s) - 1) /\ Len(s) - 1 \in Nat
BY DEF Front

-----------------------------------------------------------------------------
(* The latest snapshot of a readable trust root. *)
LEMMA LatestType ==
  ASSUME TrustTyped, Readable
  PROVE  /\ Cardinality(Numbers) \in Numbers
         /\ Cardinality(Numbers) \in 1..MaxSnapshots
         /\ Latest \in Lineage
         /\ Len(Latest) = Cardinality(Numbers)
         /\ Registry(Latest) \in Registries
<1>1. IsFiniteSet(1..MaxSnapshots)
  BY FS_Interval, TrustBoundsAssumption
<1>2. IsFiniteSet(Numbers)
  BY <1>1, FS_Subset DEF TrustTyped
<1>3. Cardinality(Numbers) \in Nat
  BY <1>2, FS_CardinalityType
<1>4. Numbers = 1..Cardinality(Numbers) /\ 1 \in Numbers
  BY DEF TrustTyped, Readable
<1>5. Cardinality(Numbers) \in Numbers
  BY <1>3, <1>4
<1>6. Latest \in Lineage /\ Len(Latest) = Cardinality(Numbers)
  BY <1>5 DEF TrustTyped, Readable, Latest
<1>7. Registry(Latest) \in Registries
  BY <1>3, <1>4, <1>6 DEF Registry, Last, Lineage
<1> QED BY <1>5, <1>6, <1>7 DEF TrustTyped

(* What is complete stays as it is, and so does every chain. *)
Grows ==
  \A n \in Numbers : snapshots[n] # Torn => n \in Numbers' /\ snapshots'[n] = snapshots[n]

LEMMA ChainStays ==
  ASSUME NEW s \in Seq(Registries), Chained(s), Grows
  PROVE  ChainedIn(snapshots', s)
<1> SUFFICES ASSUME NEW m \in 1..Len(s)
             PROVE  m \in Numbers' /\ snapshots'[m] = SubSeq(s, 1, m)
  BY DEF ChainedIn, Numbers
<1>1. m \in Numbers /\ snapshots[m] = SubSeq(s, 1, m)
  BY DEF Chained, ChainedIn, Numbers
<1>2. SubSeq(s, 1, m) # Torn
  BY Prefix DEF Torn
<1> QED BY <1>1, <1>2 DEF Grows

(* A chained snapshot and its file chain the snapshot that follows it. *)
LEMMA ChainExtends ==
  ASSUME NEW f, NEW s \in Seq(Registries), Len(s) > 0,
         ChainedIn(f, Front(s)), Len(s) \in DOMAIN f, f[Len(s)] = s
  PROVE  ChainedIn(f, s)
<1> SUFFICES ASSUME NEW m \in 1..Len(s)
             PROVE  m \in DOMAIN f /\ f[m] = SubSeq(s, 1, m)
  BY DEF ChainedIn
<1>1. CASE m = Len(s)
  BY <1>1, WholeSequence
<1>2. CASE m # Len(s)
  <2>1. Front(s) = SubSeq(s, 1, Len(s) - 1) /\ Len(s) - 1 \in Nat /\ m \in 1..(Len(s) - 1)
    BY <1>2, FrontIsPrefix
  <2>2. Len(Front(s)) = Len(s) - 1
    BY <2>1, Prefix
  <2>3. m \in DOMAIN f /\ f[m] = SubSeq(Front(s), 1, m)
    BY <2>1, <2>2 DEF ChainedIn
  <2>4. SubSeq(Front(s), 1, m) = SubSeq(s, 1, m)
    BY <2>1, PrefixOfPrefix
  <2> QED BY <2>3, <2>4
<1> QED BY <1>1, <1>2

-----------------------------------------------------------------------------
(* Every command keeps the types. *)

LEMMA FileWritten ==
  ASSUME NEW n, NEW bytes, snapshots' = File(n, bytes)
  PROVE  /\ Numbers' = Numbers \union {n}
         /\ snapshots'[n] = bytes
         /\ \A m \in Numbers : m # n => snapshots'[m] = snapshots[m]
BY DEF File, Numbers

LEMMA TrustTypedStep ==
  ASSUME TrustTyped, Owned, NEW w \in Writers, TrustStep(w)
  PROVE  TrustTyped'
<1> USE DEF TrustTyped
<1>0. Torn \in Lineage /\ Len(Torn) = 0 /\ MaxSnapshots \in Nat /\ MaxMishaps \in Nat
  BY TrustBoundsAssumption DEF Lineage, Torn
<1>1. ASSUME Leave(w), UNCHANGED snapshots, granted' \subseteq Lineage \ {Torn},
             mishaps' \in 0..MaxMishaps
      PROVE  TrustTyped'
  BY <1>1 DEF Leave, Stand, Numbers
<1>2. ASSUME NEW bytes \in Lineage, Len(bytes) \in {0, Number(w)}, Number(w) \in 2..MaxSnapshots,
             snapshots' = File(Number(w), bytes), UNCHANGED <<next, granted, mishaps>>,
             writer[w] # "idle", NEW position \in Owning, Stand(w, position)
      PROVE  TrustTyped'
  <2>1. /\ Numbers' = Numbers \union {Number(w)}
        /\ \A n \in Numbers' : snapshots'[n] \in Lineage /\ Len(snapshots'[n]) \in {0, n}
    <3> DEFINE n == Number(w)
    <3>1. /\ Numbers' = Numbers \union {n} /\ snapshots'[n] = bytes
          /\ \A m \in Numbers : m # n => snapshots'[m] = snapshots[m]
      BY <1>2, FileWritten
    <3>2. Len(bytes) \in {0, n}
      BY <1>2
    <3> HIDE DEF n
    <3>3. Numbers' = Numbers \union {n} /\ \A m \in Numbers' :
            snapshots'[m] \in Lineage /\ Len(snapshots'[m]) \in {0, m}
      BY <3>1, <3>2
    <3> QED BY <3>3 DEF n
  <2>2. Number(w) \in 1..MaxSnapshots /\ Number(w) # 1
    BY <1>0, <1>2
  <2>3. Numbers' \subseteq 1..MaxSnapshots /\ 1 \in Numbers'
    BY <2>1, <2>2
  <2>4. writer' \in [Writers -> {"idle", "check", "create", "write", "sync"}]
    BY <1>2 DEF Stand, Owning
  <2>5. \A v \in Writers : writer'[v] = "idle" <=> writer[v] = "idle"
    BY <1>2 DEF Stand, Owning
  <2> QED BY <1>2, <2>1, <2>3, <2>4, <2>5
<1>3. CASE DeriveNext(w)
  <2>1. PICK registry \in Transitions(Registry(Latest)) :
          next' = [next EXCEPT ![w] = Append(Latest, registry)]
    BY <1>3 DEF DeriveNext
  <2>2. Latest \in Lineage /\ Len(Latest) = Cardinality(Numbers)
        /\ Cardinality(Numbers) \in 1..MaxSnapshots
    BY <1>3, LatestType DEF DeriveNext
  <2>3. Append(Latest, registry) \in Lineage
    BY <1>0, <2>1, <2>2, LineageGrows DEF Registry
  <2>4. Len(Append(Latest, registry)) = Cardinality(Numbers) + 1
    BY <2>2 DEF Lineage
  <2>5. Cardinality(Numbers) + 1 \in 2..MaxSnapshots
    BY <1>0, <1>3, <2>2 DEF DeriveNext
  <2> QED BY <1>3, <2>1, <2>3, <2>4, <2>5 DEF DeriveNext, Stand, Numbers
<1>4. CASE CheckChain(w)
  <2>1. CASE Stand(w, "create") /\ UNCHANGED next
    BY <1>4, <2>1 DEF CheckChain, Stand, Numbers
  <2>2. CASE Leave(w)
    BY <1>1, <1>4, <2>2 DEF CheckChain
  <2> QED BY <1>4, <2>1, <2>2 DEF CheckChain
<1>5. CASE Create(w)
  BY <1>0, <1>2, <1>5 DEF Create, Number, Owning
<1>6. CASE Write(w)
  BY <1>2, <1>6 DEF Write, Number, Owning
<1>7. CASE Exists(w) \/ Sync(w)
  <2>1. writer[w] # "idle" /\ granted' \subseteq granted \union {next[w]}
    BY <1>7 DEF Exists, Sync
  <2>2. next[w] # Torn
    BY <1>0, <2>1
  <2> QED BY <1>1, <1>7, <2>1, <2>2 DEF Exists, Sync
<1>8. CASE Withdraw(w)
  <2>1. Number(w) \in 2..MaxSnapshots
    BY <1>8 DEF Withdraw, Number
  <2>2. Number(w) # 1
    BY <1>0, <2>1
  <2>3. /\ Numbers' = Numbers \ {Number(w)}
        /\ \A n \in Numbers' : snapshots'[n] = snapshots[n]
    BY <1>8 DEF Withdraw, Numbers
  <2>4. mishaps' \in 0..MaxMishaps
    BY <1>0, <1>8 DEF Withdraw
  <2> QED BY <1>8, <2>2, <2>3, <2>4 DEF Withdraw, Leave, Stand
<1>9. CASE Die(w)
  BY <1>0, <1>1, <1>9 DEF Die
<1> QED BY <1>3, <1>4, <1>5, <1>6, <1>7, <1>8, <1>9 DEF TrustStep

(* A command that leaves or reads takes nothing from the others. *)
LEMMA OwnedStep ==
  ASSUME TrustTyped, Owned, NEW w \in Writers, TrustStep(w)
  PROVE  Owned'
<1> USE DEF Owned
<1>0. /\ writer \in [Writers -> {"idle", "check", "create", "write", "sync"}]
      /\ DOMAIN next = Writers
  BY DEF TrustTyped
<1>1. ASSUME UNCHANGED snapshots, writer'[w] \notin Owning,
             \A v \in Writers : v # w => writer'[v] = writer[v] /\ next'[v] = next[v]
      PROVE  Owned'
  BY <1>1 DEF Numbers, Number
<1>2. ASSUME Leave(w), UNCHANGED snapshots PROVE Owned'
  BY <1>0, <1>1, <1>2 DEF Leave, Stand, Owning
<1>3. CASE DeriveNext(w)
  BY <1>0, <1>1, <1>3 DEF DeriveNext, Stand, Owning
<1>4. CASE CheckChain(w)
  BY <1>0, <1>1, <1>2, <1>4 DEF CheckChain, Stand, Owning
<1>5. CASE Create(w)
  <2>1. /\ UNCHANGED next /\ writer'[w] = "write"
        /\ \A v \in Writers : v # w => writer'[v] = writer[v]
        /\ Number(w) \notin Numbers
    BY <1>0, <1>5 DEF Create, Stand, Free
  <2>2. /\ Numbers' = Numbers \union {Number(w)} /\ snapshots'[Number(w)] = Torn
        /\ \A m \in Numbers : snapshots'[m] = snapshots[m]
    BY <1>5, <2>1, FileWritten DEF Create
  <2> QED BY <2>1, <2>2 DEF Owning, Number
<1>6. CASE Write(w)
  <2>1. /\ UNCHANGED next /\ writer[w] = "write" /\ writer'[w] = "sync"
        /\ \A v \in Writers : v # w => writer'[v] = writer[v]
    BY <1>0, <1>6 DEF Write, Stand
  <2>2. /\ Numbers' = Numbers \union {Number(w)} /\ snapshots'[Number(w)] = next[w]
        /\ \A m \in Numbers : m # Number(w) => snapshots'[m] = snapshots[m]
    BY <1>6, FileWritten DEF Write
  <2> QED BY <2>1, <2>2 DEF Owning, Number
<1>7. CASE Exists(w) \/ Sync(w) \/ Die(w)
  BY <1>2, <1>7 DEF Exists, Sync, Die
<1>8. CASE Withdraw(w)
  <2>1. /\ writer[w] \in Owning /\ writer'[w] = "idle"
        /\ \A v \in Writers : v # w => writer'[v] = writer[v] /\ next'[v] = next[v]
    BY <1>0, <1>8 DEF Withdraw, Leave, Stand, Owning
  <2>2. /\ Numbers' = Numbers \ {Number(w)}
        /\ \A n \in Numbers' : snapshots'[n] = snapshots[n]
    BY <1>8 DEF Withdraw, Numbers
  <2> QED BY <2>1, <2>2 DEF Owning, Number
<1> QED BY <1>3, <1>4, <1>5, <1>6, <1>7, <1>8 DEF TrustStep

(* Without a withdrawal no complete file changes: a create finds its name   *)
(* free, and a write fills the file that its own create left incomplete.    *)
LEMMA FilesGrow ==
  ASSUME TrustTyped, Owned, NEW w \in Writers, TrustStep(w), withdrawn' = {}
  PROVE  Grows /\ withdrawn = {}
<1>1. ASSUME UNCHANGED <<snapshots, withdrawn>> PROVE Grows /\ withdrawn = {}
  BY <1>1 DEF Grows, Numbers
<1>2. CASE DeriveNext(w) \/ CheckChain(w) \/ Exists(w) \/ Sync(w) \/ Die(w)
  BY <1>1, <1>2 DEF DeriveNext, CheckChain, Exists, Sync, Die
<1>3. CASE Create(w)
  <2>1. Number(w) \notin Numbers /\ snapshots' = File(Number(w), Torn) /\ UNCHANGED withdrawn
    BY <1>3 DEF Create, Free
  <2> QED BY <2>1, FileWritten DEF Grows
<1>4. CASE Write(w)
  <2>1. snapshots' = File(Number(w), next[w]) /\ UNCHANGED withdrawn
    BY <1>4 DEF Write
  <2>2. snapshots[Number(w)] = Torn
    BY <1>4 DEF Write, Owned, Owning
  <2> QED BY <2>1, <2>2, FileWritten DEF Grows
<1>5. CASE Withdraw(w)
  BY <1>5 DEF Withdraw
<1> QED BY <1>2, <1>3, <1>4, <1>5 DEF TrustStep

LEMMA RootedStep ==
  ASSUME TrustTyped, Owned, Rooted, NEW w \in Writers, TrustStep(w)
  PROVE  Rooted'
<1> SUFFICES ASSUME withdrawn' = {} PROVE Rooted'
  BY DEF Rooted
<1>1. Grows /\ withdrawn = {}
  BY FilesGrow
<1>2. /\ \A n \in Numbers : snapshots[n] # Torn => Chained(snapshots[n])
      /\ \A v \in Writers : writer[v] \in {"create"} \union Owning => Chained(Front(next[v]))
      /\ \A s \in granted : Chained(s)
  BY <1>1 DEF Rooted
<1>3. ASSUME NEW s \in Seq(Registries), Chained(s) PROVE ChainedIn(snapshots', s)
  BY <1>1, <1>3, ChainStays DEF Chained
<1>4. ASSUME NEW v \in Writers, writer[v] # "idle"
      PROVE  /\ next[v] \in Seq(Registries) /\ Len(next[v]) > 0 /\ next[v] # Torn
             /\ Front(next[v]) \in Seq(Registries)
  <2>1. next[v] \in Seq(Registries) /\ Len(next[v]) > 0
    BY <1>4, TrustBoundsAssumption DEF TrustTyped, Lineage
  <2>2. Front(next[v]) = SubSeq(next[v], 1, Len(next[v]) - 1) /\ Len(next[v]) - 1 \in Nat
    BY <2>1, FrontIsPrefix
  <2> QED BY <2>1, <2>2, Prefix DEF Torn
<1>5. \A n \in Numbers' : snapshots'[n] # Torn => ChainedIn(snapshots', snapshots'[n])
  <2>1. ASSUME NEW n \in Numbers, snapshots'[n] # Torn, snapshots'[n] = snapshots[n]
        PROVE  ChainedIn(snapshots', snapshots'[n])
    <3>1. snapshots[n] \in Seq(Registries)
      BY DEF TrustTyped, Lineage
    <3>2. Chained(snapshots[n])
      BY <1>2, <2>1
    <3> QED BY <1>3, <2>1, <3>1, <3>2
  <2>2. CASE UNCHANGED snapshots
    BY <2>1, <2>2 DEF Numbers
  <2>3. CASE Create(w)
    <3>1. snapshots' = File(Number(w), Torn)
      BY <2>3 DEF Create
    <3>2. ASSUME NEW n \in Numbers', snapshots'[n] # Torn
          PROVE  n \in Numbers /\ snapshots'[n] = snapshots[n]
      BY <3>1, <3>2, FileWritten
    <3> QED BY <2>1, <3>2
  <2>4. CASE Write(w)
    <3>1. snapshots' = File(Number(w), next[w]) /\ writer[w] = "write"
      BY <2>4 DEF Write
    <3>2. Number(w) \in Numbers' /\ snapshots'[Number(w)] = next[w]
      BY <3>1, FileWritten
    <3>3. ChainedIn(snapshots', Front(next[w]))
      BY <1>2, <1>3, <1>4, <3>1 DEF Owning
    <3>4. ChainedIn(snapshots', next[w])
      BY <1>4, <3>1, <3>2, <3>3, ChainExtends DEF Number, Numbers
    <3>5. ASSUME NEW n \in Numbers', n # Number(w)
          PROVE  n \in Numbers /\ snapshots'[n] = snapshots[n]
      BY <3>1, <3>5, FileWritten
    <3> QED BY <2>1, <3>2, <3>4, <3>5
  <2>5. CASE Withdraw(w)
    BY <2>5 DEF Withdraw
  <2> QED
    BY <2>2, <2>3, <2>4, <2>5
       DEF TrustStep, DeriveNext, CheckChain, Exists, Sync, Die
<1>6. \A v \in Writers : writer'[v] \in {"create"} \union Owning => ChainedIn(snapshots', Front(next'[v]))
  <2> SUFFICES ASSUME NEW v \in Writers, writer'[v] \in {"create"} \union Owning
               PROVE  ChainedIn(snapshots', Front(next'[v]))
    OBVIOUS
  <2>0. writer \in [Writers -> {"idle", "check", "create", "write", "sync"}]
        /\ DOMAIN next = Writers
    BY DEF TrustTyped
  <2>1. CASE writer[v] \in {"create"} \union Owning /\ next'[v] = next[v]
    <3>1. Chained(Front(next[v])) /\ writer[v] # "idle"
      BY <1>2, <2>1 DEF Owning
    <3> QED BY <1>3, <1>4, <2>1, <3>1
  <2>2. CASE v # w
    <3>1. writer'[v] = writer[v] /\ next'[v] = next[v]
      BY <2>0, <2>2
         DEF TrustStep, DeriveNext, CheckChain, Create, Exists, Write, Sync, Withdraw, Die,
             Leave, Stand
    <3> QED BY <2>1, <3>1
  <2>3. CASE v = w
    <3>1. CASE CheckChain(w)
      <4>1. writer[w] = "check" /\ Chains(next[w]) /\ next'[w] = next[w]
        BY <2>0, <2>3, <3>1 DEF CheckChain, Leave, Stand, Owning
      <4>2. Front(next[w]) = Latest /\ Readable
        BY <4>1 DEF Chains
      <4>3. /\ Cardinality(Numbers) \in Numbers /\ Cardinality(Numbers) \in 1..MaxSnapshots
            /\ Len(Latest) = Cardinality(Numbers)
        BY <4>2, LatestType
      <4>4. Latest # Torn
        BY <4>3, TrustBoundsAssumption DEF Torn
      <4>5. Chained(Latest)
        BY <1>2, <4>3, <4>4 DEF Latest
      <4> QED BY <1>3, <1>4, <2>3, <4>1, <4>2, <4>5
    <3>2. CASE Create(w) \/ Write(w)
      <4>1. writer[w] \in {"create"} \union Owning /\ next'[w] = next[w]
        BY <3>2 DEF Create, Write, Owning
      <4> QED BY <2>1, <2>3, <4>1
    <3>3. CASE DeriveNext(w)
      BY <2>0, <2>3, <3>3 DEF DeriveNext, Stand, Owning
    <3>4. CASE Exists(w) \/ Sync(w) \/ Withdraw(w) \/ Die(w)
      BY <2>0, <2>3, <3>4 DEF Exists, Sync, Withdraw, Die, Leave, Stand, Owning
    <3> QED BY <3>1, <3>2, <3>3, <3>4 DEF TrustStep
  <2> QED BY <2>2, <2>3
<1>7. \A s \in granted' : ChainedIn(snapshots', s)
  <2> SUFFICES ASSUME NEW s \in granted' PROVE ChainedIn(snapshots', s)
    OBVIOUS
  <2>1. CASE s \in granted
    BY <1>2, <1>3, <2>1 DEF TrustTyped, Lineage
  <2>2. CASE s \notin granted
    <3>1. /\ s = next[w] /\ writer[w] # "idle"
          /\ Number(w) \in Numbers /\ snapshots[Number(w)] = next[w]
      <4>1. CASE Exists(w)
        BY <2>2, <4>1 DEF Exists, Free
      <4>2. CASE Sync(w)
        BY <2>2, <4>2 DEF Sync, Owned, Owning
      <4> QED
        BY <2>2, <4>1, <4>2
           DEF TrustStep, DeriveNext, CheckChain, Create, Write, Withdraw, Die
    <3> QED BY <1>2, <1>3, <1>4, <3>1
  <2> QED BY <2>1, <2>2
<1> QED BY <1>5, <1>6, <1>7 DEF Rooted, Chained

LEMMA TrustInvInit == TrustInit => TrustInv
<1> SUFFICES ASSUME TrustInit PROVE TrustInv
  OBVIOUS
<1>0. Founding[1] \in Registries /\ Founding \in Seq(Registries) /\ Len(Founding) = 1
  BY DEF Founding, Registries
<1>1. Founding \in Lineage
  BY <1>0 DEF Lineage
<1>2. Numbers = {1} /\ snapshots[1] = Founding
  BY DEF TrustInit, Numbers
<1>3. TrustTyped
  <2>1. Founding # Torn /\ 1 \in 1..MaxSnapshots /\ 0 \in 0..MaxMishaps
    <3>1. Founding # Torn
      <4>1. Len(Founding) # Len(Torn)
        BY <1>0 DEF Torn
      <4> QED BY <4>1, Zenon
    <3> QED BY <3>1, TrustBoundsAssumption
  <2>2. \A n \in Numbers : snapshots[n] \in Lineage /\ Len(snapshots[n]) \in {0, n}
    BY <1>0, <1>1, <1>2
  <2> QED BY <1>1, <1>2, <2>1, <2>2 DEF TrustInit, TrustTyped
<1>4. Owned
  BY DEF TrustInit, Owned, Owning
<1>5. SubSeq(Founding, 1, 1) = Founding
  BY <1>0, WholeSequence
<1>6. Chained(Founding)
  BY <1>0, <1>2, <1>5 DEF Chained, ChainedIn, Numbers
<1>7. Rooted
  BY <1>2, <1>6 DEF TrustInit, Rooted, Owning
<1> QED BY <1>3, <1>4, <1>7 DEF TrustInv

LEMMA TrustInvStep ==
  TrustInv /\ [\E w \in Writers : TrustStep(w)]_trust => TrustInv'
<1>1. ASSUME TrustInv, NEW w \in Writers, TrustStep(w) PROVE TrustInv'
  BY <1>1, TrustTypedStep, OwnedStep, RootedStep DEF TrustInv
<1>2. ASSUME TrustInv, UNCHANGED trust PROVE TrustInv'
  BY <1>2
     DEF TrustInv, TrustTyped, Owned, Rooted, trust, Numbers, Number, Chained, ChainedIn
<1> QED BY <1>1, <1>2

LEMMA TrustInvType == TrustInv => TrustTypeOK
<1> SUFFICES ASSUME TrustInv PROVE TrustTypeOK
  OBVIOUS
<1> USE DEF TrustInv, TrustTyped
<1>1. ASSUME NEW n \in Numbers PROVE snapshots[n] = Torn \/ snapshots[n] \in [1..n -> Registries]
  BY DEF Lineage, Torn
<1>2. ASSUME NEW w \in Writers, writer[w] # "idle" PROVE next[w] # Torn
  BY <1>2, TrustBoundsAssumption DEF Torn
<1> QED BY <1>1, <1>2 DEF TrustTypeOK

LEMMA TrustInvGranted == TrustInv => GrantedStays
BY DEF TrustInv, Rooted, GrantedStays, Chained, ChainedIn, Numbers

(* Any number of commands may race and die over the trust root: unless one   *)
(* of them removes a file of its own, every snapshot that any of them        *)
(* reported as published stays as it is, behind its ancestors                *)
(* (append_snapshot and _create_only_write of OwnerProvenanceTrustStore).    *)
THEOREM GrantedStaysAlways == TrustSpec => []GrantedStays
<1>1. TrustSpec => []TrustInv
  BY TrustInvInit, TrustInvStep, PTL DEF TrustSpec
<1> QED BY <1>1, TrustInvGranted, PTL

(* ... so that no registry behind a reported revocation is the latest.       *)
LEMMA RevocationIsLatest ==
  ASSUME TrustInv, withdrawn = {}, Readable, NEW s \in granted, NEW k \in Keys,
         Registry(s)[k] = "revoked"
  PROVE  Registry(Latest)[k] = "revoked"
<1> USE DEF TrustInv
<1>1. s \in Lineage /\ Len(s) > 0 /\ Chained(s)
  BY DEF TrustTyped, Rooted, Lineage, Torn
<1>2. Len(s) \in Numbers /\ snapshots[Len(s)] = s
  <2>1. SubSeq(s, 1, Len(s)) = s /\ Len(s) \in 1..Len(s)
    BY <1>1, WholeSequence DEF Lineage
  <2> QED BY <1>1, <2>1 DEF Chained, ChainedIn, Numbers
<1>3. /\ Latest \in Lineage /\ Len(Latest) \in 1..MaxSnapshots
      /\ Len(Latest) = Cardinality(Numbers) /\ Len(Latest) \in Numbers
  BY LatestType
<1>4. Numbers = 1..Len(Latest) /\ Latest = snapshots[Len(Latest)] /\ Len(Latest) \in Nat
  BY <1>3, TrustBoundsAssumption DEF Readable, Latest
<1>5. Latest # Torn
  BY <1>3, TrustBoundsAssumption DEF Torn
<1>6. Chained(Latest)
  BY <1>3, <1>4, <1>5 DEF Rooted
<1>7. Len(s) \in 1..Len(Latest)
  BY <1>2, <1>4
<1>8. s = SubSeq(Latest, 1, Len(s))
  BY <1>2, <1>6, <1>7 DEF Chained, ChainedIn
<1>9. s[Len(s)] = Latest[Len(s)]
  <2>1. Latest \in Seq(Registries) /\ Len(s) \in Nat /\ Len(s) <= Len(Latest)
    BY <1>3, <1>4, <1>7 DEF Lineage
  <2>2. \A i \in 1..Len(s) : SubSeq(Latest, 1, Len(s))[i] = Latest[i]
    BY <2>1, Prefix
  <2>3. Len(s) \in 1..Len(s)
    BY <1>1, <2>1
  <2> QED BY <1>8, <2>2, <2>3
<1>10. Latest[Len(s)][k] = "revoked"
  BY <1>9 DEF Registry, Last
<1>11. Latest[Len(Latest)][k] = "revoked"
  BY <1>3, <1>4, <1>7, <1>10 DEF Lineage
<1> QED BY <1>11 DEF Registry, Last

-----------------------------------------------------------------------------
(***************************************************************************)
(* Part 2: the executor                                                    *)
(***************************************************************************)

(* The exchanges that a release and a decision by a trusted key allow. *)
Sound == {x \in Exchanges : Ready(x.of.registry, x.of.prior, x.of.release)}
Intents == {x \in Exchanges : Intent(x) \in files}

(* Where an invocation holds the lock, and where it is committed to an exchange. *)
Inside == Positions \ {"idle", "lock"}
Committed == {"intent", "image", "stage", "compare", "recheck", "replace", "record"}
Pending == {"stage", "compare", "recheck", "replace"}

Typed ==
  /\ config \in Contents
  /\ files \subseteq Artifacts /\ torn \subseteq Artifacts /\ files \intersect torn = {}
  /\ lock \in Procs \union {None}
  /\ pc \in [Procs -> Positions]
  /\ command \in [Procs -> Receipts \union {None}]
  /\ prepared \in [Procs -> Lineage]
  /\ seen \in [Procs -> Contents \union {None}]
  /\ exchange \in [Procs -> Exchanges \union {None}]
  /\ edits \in Nat /\ deaths \in Nat
  /\ scope \in Scopes

Exclusive == \A p \in Procs : pc[p] \in Inside => lock = p

(* What is announced is allowed, and its outcome does not go unnoticed. *)
Announced == Intents \subseteq Sound
Noticed ==
  /\ witnessed \subseteq Exchanges
  /\ \A x \in Intents : config = To(x) => x \in witnessed

(* What an invocation was told to do. *)
Told(p) ==
  /\ pc[p] = "idle" => exchange[p] = None
  /\ pc[p] = "lock" =>
       exchange[p] = None \/ (exchange[p] \in Sound /\ exchange[p].op = "rollback")
  /\ pc[p] \in {"lock", "scan"} /\ exchange[p] = None => command[p] \in Receipts
  /\ pc[p] = "scan" => exchange[p] = None
  /\ pc[p] = "examine" => exchange[p] \in Sound /\ exchange[p].op = "rollback"
  /\ pc[p] \in Committed => exchange[p] \in Sound

(* What it has read is still there, and what it will find has been noticed. *)
Attentive(p) ==
  pc[p] \in {"scan", "examine"} =>
    /\ seen[p] \in Contents
    /\ edits = 0 => config = seen[p]
    /\ \A x \in Intents : seen[p] = To(x) => x \in witnessed

(* The authority that it looks at last is the one that it has read. *)
Decided(p) ==
  /\ pc[p] = "recheck" => exchange[p].op = "apply"
  /\ pc[p] \in Committed \ {"replace", "record"} /\ exchange[p].op = "apply" =>
       exchange[p].of.registry = Registry(prepared[p])

(* What it has prepared when it is about to act. *)
Sole(p) == pc[p] = "intent" /\ exchange[p].op = "apply" => Unfinished \subseteq {exchange[p].of}
Intending(p) == pc[p] \in Pending \union {"image"} => exchange[p] \in Intents
Keeping(p) ==
  /\ pc[p] \in {"intent", "image"} /\ exchange[p].op = "apply" => seen[p] = exchange[p].of.prior
  /\ pc[p] = "image" => exchange[p].op = "apply"
  /\ pc[p] \in Pending \/ (pc[p] = "intent" /\ exchange[p].op = "rollback") =>
       Image(exchange[p].of.prior) \in files
Undisturbed(p) == pc[p] \in Committed \ {"record"} /\ edits = 0 => config = From(exchange[p])
Done(p) == pc[p] = "record" => exchange[p] \in witnessed

Local(p) ==
  /\ Told(p) /\ Attentive(p) /\ Decided(p) /\ Sole(p)
  /\ Intending(p) /\ Keeping(p) /\ Undisturbed(p) /\ Done(p)

Inv ==
  /\ TrustInv /\ Typed /\ Exclusive /\ Announced /\ Noticed
  /\ \A p \in Procs : Local(p)

-----------------------------------------------------------------------------
(* Receipts, exchanges and artifacts *)

LEMMA ReceiptType ==
  ASSUME NEW r \in Receipts
  PROVE  /\ Activated(r) \in Contents /\ r.prior \in Contents /\ r.registry \in Registries
         /\ Apply(r) \in Exchanges /\ Apply(r).of = r /\ Apply(r).op = "apply"
         /\ Rollback(r) \in Exchanges /\ Rollback(r).of = r /\ Rollback(r).op = "rollback"
BY ReleasesAssumption DEF Receipts, Contents, Activated, Apply, Rollback, Exchanges

LEMMA ExchangeType ==
  ASSUME NEW x \in Exchanges
  PROVE  /\ x.of \in Receipts /\ x.op \in {"apply", "rollback"}
         /\ x = IF x.op = "apply" THEN Apply(x.of) ELSE Rollback(x.of)
         /\ From(x) \in Contents /\ To(x) \in Contents
<1>1. x.of \in Receipts /\ x.op \in {"apply", "rollback"}
  BY DEF Exchanges
<1>2. x = IF x.op = "apply" THEN Apply(x.of) ELSE Rollback(x.of)
  BY DEF Exchanges, Apply, Rollback
<1> QED BY <1>1, <1>2, ReceiptType DEF From, To

LEMMA ArtifactType ==
  /\ \A x \in Exchanges : Intent(x) \in Artifacts /\ Record(x) \in Artifacts /\ Staged(x) \in Artifacts
  /\ \A c \in Contents : Image(c) \in Artifacts
BY DEF Artifacts, Intent, Record, Staged, Image

LEMMA ArtifactForm ==
  ASSUME NEW a \in Artifacts
  PROVE  /\ a.kind = "intent" => a.of \in Exchanges /\ a = Intent(a.of)
         /\ a.kind = "record" => a.of \in Exchanges /\ a = Record(a.of)
         /\ a.kind = "image" => a.of \in Contents /\ a = Image(a.of)
BY DEF Artifacts, Intent, Record, Image

(* The files that are not intents announce nothing. *)
LEMMA ArtifactKinds ==
  ASSUME NEW x, NEW y, NEW c
  PROVE  /\ Intent(x) # Record(y) /\ Intent(x) # Staged(y) /\ Intent(x) # Image(c)
         /\ Record(x) # Staged(y) /\ Record(x) # Image(c) /\ Staged(x) # Image(c)
         /\ Intent(x) = Intent(y) => x = y
         /\ Record(x) = Record(y) => x = y
BY DEF Intent, Record, Staged, Image

(* The journals are the announced activations. *)
LEMMA JournalIsAnnounced ==
  ASSUME files \subseteq Artifacts
  PROVE  /\ \A r \in Journal : r \in Receipts /\ Apply(r) \in Intents
         /\ \A x \in Intents : x.op = "apply" => x.of \in Journal
<1>1. ASSUME NEW r \in Journal PROVE r \in Receipts /\ Apply(r) \in Intents
  <2>1. PICK a \in files : a.kind = "intent" /\ a.of.op = "apply" /\ r = a.of.of
    BY DEF Journal
  <2>2. a.of \in Exchanges /\ a = Intent(a.of)
    BY <2>1, ArtifactForm
  <2>3. r \in Receipts /\ a.of = Apply(r)
    BY <2>1, <2>2, ExchangeType
  <2> QED BY <2>2, <2>3 DEF Intents
<1>2. ASSUME NEW x \in Intents, x.op = "apply" PROVE x.of \in Journal
  <2>1. Intent(x) \in files /\ Intent(x).kind = "intent" /\ Intent(x).of = x
    BY DEF Intents, Intent
  <2> QED BY <1>2, <2>1 DEF Journal
<1> QED BY <1>1, <1>2

(* The intents that Witness looks at are the announced exchanges. *)
LEMMA AnnouncedArtifacts ==
  ASSUME NEW F \in SUBSET Artifacts
  PROVE  {a.of : a \in {b \in F : b.kind = "intent"}} = {x \in Exchanges : Intent(x) \in F}
<1>1. ASSUME NEW a \in F, a.kind = "intent" PROVE a.of \in Exchanges /\ Intent(a.of) \in F
  BY <1>1, ArtifactForm
<1>2. ASSUME NEW x, Intent(x) \in F
      PROVE  \E a \in F : a.kind = "intent" /\ x = a.of
  BY <1>2 DEF Intent
<1> QED BY <1>1, <1>2

LEMMA Witnessed ==
  ASSUME files' \subseteq Artifacts, Witness
  PROVE  witnessed' = witnessed \union {x \in Intents' : config' = To(x)}
BY AnnouncedArtifacts DEF Witness, Intents

LEMMA LatestPrepared ==
  ASSUME TrustInv, Readable
  PROVE  Latest \in Lineage /\ Registry(Latest) \in Registries
BY LatestType DEF TrustInv

-----------------------------------------------------------------------------
(* Every step keeps the types. *)

LEMMA EndTyped ==
  ASSUME Typed, NEW p \in Procs, Forget(p), UNCHANGED <<config, command, edits, scope>>,
         deaths' \in Nat,
         files' \subseteq Artifacts, torn' \subseteq Artifacts, files' \intersect torn' = {}
  PROVE  Typed'
<1>1. Torn \in Lineage
  BY DEF Lineage, Torn
<1> QED BY <1>1 DEF Typed, Forget, Goto, Positions

LEMMA RefuseTyped ==
  ASSUME Typed, NEW p \in Procs, Refuse(p), UNCHANGED <<config, torn>>, files' \subseteq files
  PROVE  Typed'
<1>1. Forget(p) /\ UNCHANGED <<command, edits, scope, deaths>>
  BY DEF Refuse, End, budget
<1>2. /\ files' \subseteq Artifacts /\ torn' \subseteq Artifacts /\ files' \intersect torn' = {}
      /\ deaths' \in Nat
  BY <1>1 DEF Typed
<1> QED BY <1>1, <1>2, EndTyped

LEMMA PublishTyped ==
  ASSUME Typed, NEW p \in Procs, NEW a \in Artifacts, NEW position \in Positions,
         Publish(p, a, position)
  PROVE  Typed'
<1>1. CASE a \notin torn /\ files' = files \union {a} /\ Goto(p, position)
           /\ UNCHANGED <<trust, config, torn, lock, command, prepared, seen, exchange, answer, budget>>
  BY <1>1 DEF Typed, Goto, budget
<1>2. CASE Refuse(p) /\ UNCHANGED disk
  BY <1>2, RefuseTyped DEF disk
<1> QED BY <1>1, <1>2 DEF Publish

LEMMA CommandTyped ==
  ASSUME TrustInv, Typed, NEW p \in Procs,
         Preview(p) \/ Prepare(p) \/ StartRollback(p) \/ Acquire(p) \/ Busy(p)
  PROVE  Typed'
<1> USE DEF Typed
<1>1. CASE Preview(p)
  <2>1. PICK release \in scope.releases :
          command' = [command EXCEPT ![p] = Receipt(config, release, Registry(Latest))]
    BY <1>1 DEF Preview
  <2>2. release \in Releases /\ Registry(Latest) \in Registries
    BY <1>1, <2>1, ScopeAssumption, LatestPrepared DEF Preview
  <2>3. Receipt(config, release, Registry(Latest)) \in Receipts
    BY <2>2 DEF Receipt, Receipts
  <2> QED BY <1>1, <2>1, <2>3 DEF Preview, disk, budget
<1>2. CASE Prepare(p)
  <2>1. Latest \in Lineage
    BY <1>2, LatestPrepared DEF Prepare
  <2> QED BY <1>2, <2>1 DEF Prepare, Goto, Positions, disk, budget
<1>3. CASE StartRollback(p)
  <2>1. PICK r \in Journal : exchange' = [exchange EXCEPT ![p] = Rollback(r)]
    BY <1>3 DEF StartRollback
  <2>2. Rollback(r) \in Exchanges
    BY <2>1, JournalIsAnnounced, ReceiptType
  <2> QED BY <1>3, <2>1, <2>2 DEF StartRollback, Goto, Positions, disk, budget
<1>4. CASE Acquire(p)
  BY <1>4 DEF Acquire, Goto, Positions, disk, budget
<1>5. CASE Busy(p)
  BY <1>5, RefuseTyped DEF Busy, disk
<1> QED BY <1>1, <1>2, <1>3, <1>4, <1>5

LEMMA ScanTyped ==
  ASSUME Inv, NEW p \in Procs,
         \/ ScanCompleted(p) \/ ScanUnrecorded(p) \/ ScanRefused(p) \/ Derive(p)
         \/ ExamineRestored(p) \/ ExamineUnrecorded(p) \/ Examine(p)
  PROVE  Typed'
<1> USE DEF Inv
<1>1. ASSUME NEW a, End(p, a) \/ Refuse(p), UNCHANGED disk PROVE Typed'
  <2>1. Forget(p) /\ UNCHANGED <<command, edits, scope, deaths, config, files, torn>>
    BY <1>1 DEF Refuse, End, budget, disk
  <2> QED BY <2>1, EndTyped DEF Typed
<1>2. ASSUME NEW position \in Positions, Goto(p, position), exchange'[p] \in Exchanges,
             exchange' = [exchange EXCEPT ![p] = exchange'[p]],
             UNCHANGED <<disk, lock, command, prepared, seen, budget>>
      PROVE  Typed'
  BY <1>2 DEF Typed, Goto, disk, budget
<1>3. CASE ScanCompleted(p)
  BY <1>1, <1>3 DEF ScanCompleted
<1>4. CASE ScanUnrecorded(p)
  <2>1. PICK r \in Unrecorded(seen[p]) : exchange' = [exchange EXCEPT ![p] = Apply(r)]
    BY <1>4 DEF ScanUnrecorded
  <2>2. Apply(r) \in Exchanges
    BY <2>1, JournalIsAnnounced, ReceiptType DEF Typed, Unrecorded, Unfinished
  <2> QED BY <1>2, <1>4, <2>1, <2>2 DEF ScanUnrecorded, Typed, Positions
<1>5. CASE ScanRefused(p)
  BY <1>1, <1>5 DEF ScanRefused
<1>6. CASE Derive(p)
  <2>1. CASE Derivable(p) /\ exchange' = [exchange EXCEPT ![p] = Apply(command[p])]
    <3>1. command[p] \in Receipts
      BY <1>6 DEF Derive, Local, Told
    <3>2. Apply(command[p]) \in Exchanges
      BY <3>1, ReceiptType
    <3>3. Goto(p, "intent") \/ Refuse(p)
      BY <1>6 DEF Derive
    <3> QED BY <1>1, <1>2, <1>6, <2>1, <3>2, <3>3 DEF Derive, Typed, Positions
  <2>2. CASE Refuse(p)
    BY <1>1, <1>6, <2>2 DEF Derive
  <2> QED BY <1>6, <2>1, <2>2 DEF Derive
<1>7. CASE ExamineRestored(p)
  BY <1>1, <1>7 DEF ExamineRestored
<1>8. CASE ExamineUnrecorded(p) \/ Examine(p)
  <2>1. exchange[p] \in Exchanges
    BY <1>8 DEF ExamineUnrecorded, Examine, Local, Told, Sound
  <2>2. CASE Refuse(p) /\ UNCHANGED disk
    BY <1>1, <2>2
  <2>3. CASE ~Refuse(p)
    <3>1. /\ UNCHANGED exchange /\ UNCHANGED <<disk, lock, command, prepared, seen, budget>>
          /\ Goto(p, "record") \/ Goto(p, "intent")
      BY <1>8, <2>3 DEF ExamineUnrecorded, Examine
    <3> QED BY <1>2, <2>1, <3>1 DEF Typed, Positions
  <2> QED BY <1>8, <2>2, <2>3 DEF ExamineUnrecorded, Examine
<1> QED BY <1>3, <1>4, <1>5, <1>6, <1>7, <1>8

LEMMA ExchangeTyped ==
  ASSUME Inv, NEW p \in Procs,
         \/ PublishIntent(p) \/ PublishImage(p) \/ Stage(p) \/ Compare(p) \/ Recheck(p)
         \/ Replace(p) \/ PublishRecord(p) \/ DieRunning(p)
  PROVE  Typed'
<1> USE DEF Inv
<1>1. ASSUME pc[p] \in Committed PROVE exchange[p] \in Exchanges
  BY <1>1 DEF Local, Told, Sound
<1>2. ASSUME pc[p] = "image" PROVE seen[p] \in Contents
  <2>1. exchange[p] \in Exchanges /\ seen[p] = exchange[p].of.prior
    BY <1>1, <1>2 DEF Local, Keeping, Committed
  <2> QED BY <2>1, ExchangeType, ReceiptType
<1>3. CASE PublishIntent(p)
  BY <1>1, <1>3, ArtifactType, PublishTyped DEF PublishIntent, Committed, Positions
<1>4. CASE PublishImage(p)
  BY <1>2, <1>4, ArtifactType, PublishTyped DEF PublishImage, Positions
<1>5. CASE Stage(p)
  BY <1>1, <1>5, ArtifactType, PublishTyped DEF Stage, Committed, Positions
<1>6. CASE Compare(p) \/ Recheck(p)
  <2>1. CASE Refuse(p)
    BY <1>6, <2>1, RefuseTyped DEF Compare, Recheck, Discard
  <2>2. CASE ~Refuse(p)
    BY <1>6, <2>2 DEF Compare, Recheck, Typed, Goto, Positions, budget
  <2> QED BY <2>1, <2>2
<1>7. CASE Replace(p)
  <2>1. To(exchange[p]) \in Contents
    BY <1>1, <1>7, ExchangeType DEF Replace, Committed
  <2> QED BY <1>7, <2>1 DEF Replace, Discard, Typed, Goto, Positions, budget
<1>8. CASE PublishRecord(p)
  <2>1. CASE Refuse(p) /\ UNCHANGED disk
    BY <2>1, RefuseTyped DEF disk
  <2>2. CASE ~(Refuse(p) /\ UNCHANGED disk)
    <3>1. /\ Record(exchange[p]) \notin torn /\ files' = files \union {Record(exchange[p])}
          /\ Forget(p) /\ UNCHANGED <<config, torn, command, edits, scope, deaths>>
      BY <1>8, <2>2 DEF PublishRecord, End, budget
    <3>2. Record(exchange[p]) \in Artifacts
      BY <1>1, <1>8, ArtifactType DEF PublishRecord, Committed
    <3> QED BY <3>1, <3>2, EndTyped DEF Typed
  <2> QED BY <2>1, <2>2
<1>9. CASE DieRunning(p)
  <2>1. Writing(p) \subseteq Artifacts
    BY <1>1, <1>2, ArtifactType DEF Writing, Committed
  <2>2. /\ files' \subseteq Artifacts /\ torn' \subseteq Artifacts /\ files' \intersect torn' = {}
    BY <1>9, <2>1 DEF DieRunning, Typed
  <2>3. Forget(p) /\ UNCHANGED <<config, command, edits, scope>> /\ deaths' \in Nat
    BY <1>9 DEF DieRunning, Typed
  <2> QED BY <2>2, <2>3, EndTyped
<1> QED BY <1>3, <1>4, <1>5, <1>6, <1>7, <1>8, <1>9

LEMMA TypedStep ==
  ASSUME Inv, [Next]_vars
  PROVE  Typed'
<1>1. ASSUME NEW p \in Procs, Preview(p) \/ Prepare(p) \/ StartRollback(p) \/ Step(p) \/ DieRunning(p)
      PROVE  Typed'
  BY <1>1, CommandTyped, ScanTyped, ExchangeTyped DEF Step, Inv
<1>2. CASE Edit
  BY <1>2 DEF Edit, Inv, Typed, local
<1>3. ASSUME NEW w \in Writers, Administer(w) PROVE Typed'
  BY <1>3 DEF Administer, Inv, Typed, disk, local, budget
<1>4. CASE UNCHANGED vars
  BY <1>4 DEF Inv, Typed, vars, disk, local, budget
<1> QED BY <1>1, <1>2, <1>3, <1>4 DEF Next

-----------------------------------------------------------------------------
(* What the steps of one invocation leave alone. *)

Command(p) == Preview(p) \/ Prepare(p) \/ StartRollback(p)
Looking(p) ==
  \/ ScanCompleted(p) \/ ScanUnrecorded(p) \/ ScanRefused(p) \/ Derive(p)
  \/ ExamineRestored(p) \/ ExamineUnrecorded(p) \/ Examine(p)
Acting(p) ==
  \/ PublishIntent(p) \/ PublishImage(p) \/ Stage(p) \/ Compare(p) \/ Recheck(p)
  \/ Replace(p) \/ PublishRecord(p)

Same(q) ==
  /\ pc'[q] = pc[q] /\ command'[q] = command[q] /\ prepared'[q] = prepared[q]
  /\ seen'[q] = seen[q] /\ exchange'[q] = exchange[q]

LEMMA StepIs ==
  ASSUME NEW p
  PROVE  Step(p) <=> Acquire(p) \/ Busy(p) \/ Looking(p) \/ Acting(p)
BY DEF Step, Looking, Acting

LEMMA ForgetFrame ==
  ASSUME Typed, NEW p \in Procs, Forget(p), UNCHANGED command
  PROVE  /\ pc'[p] = "idle" /\ exchange'[p] = None
         /\ \A q \in Procs \ {p} : Same(q)
BY DEF Typed, Forget, Goto, Same

LEMMA GotoFrame ==
  ASSUME Typed, NEW p \in Procs, NEW position, Goto(p, position)
  PROVE  pc'[p] = position /\ \A q \in Procs \ {p} : pc'[q] = pc[q]
BY DEF Typed, Goto

(* A step of an invocation that holds the lock ends it or leads it on. *)
Ends(p) == Forget(p) /\ UNCHANGED <<command, edits>>
LeadsOn(p) ==
  /\ pc'[p] \in Committed /\ \A q \in Procs \ {p} : Same(q)
  /\ command'[p] = command[p] /\ prepared'[p] = prepared[p] /\ seen'[p] = seen[p]
  /\ UNCHANGED <<trust, lock, edits>>

LEMMA LookingShape ==
  ASSUME Inv, NEW p \in Procs, Looking(p)
  PROVE  /\ UNCHANGED disk /\ pc[p] \in {"scan", "examine"}
         /\ Ends(p) \/ LeadsOn(p)
<1> USE DEF Inv
<1>1. ASSUME NEW a, End(p, a) \/ Refuse(p) PROVE Ends(p)
  BY <1>1 DEF Refuse, End, budget, Ends
<1>2. ASSUME NEW position \in Committed, Goto(p, position), DOMAIN exchange' = Procs,
             \A q \in Procs \ {p} : exchange'[q] = exchange[q],
             UNCHANGED <<trust, lock, command, prepared, seen, budget>>
      PROVE  LeadsOn(p)
  BY <1>2, GotoFrame DEF LeadsOn, Same, budget
<1>3. CASE ScanCompleted(p) \/ ScanRefused(p) \/ ExamineRestored(p)
  BY <1>1, <1>3 DEF ScanCompleted, ScanRefused, ExamineRestored
<1>4. CASE ScanUnrecorded(p)
  BY <1>2, <1>4 DEF ScanUnrecorded, Typed, Committed, disk, budget
<1>5. CASE Derive(p)
  BY <1>1, <1>2, <1>5 DEF Derive, Typed, Committed
<1>6. CASE ExamineUnrecorded(p) \/ Examine(p)
  BY <1>1, <1>2, <1>6 DEF ExamineUnrecorded, Examine, Typed, Committed
<1> QED BY <1>3, <1>4, <1>5, <1>6 DEF Looking

LEMMA ActingShape ==
  ASSUME Inv, NEW p \in Procs, Acting(p)
  PROVE  /\ pc[p] \in Committed /\ UNCHANGED torn
         /\ Ends(p) \/ (LeadsOn(p) /\ exchange'[p] = exchange[p])
<1> USE DEF Inv
<1>1. ASSUME NEW a, End(p, a) \/ Refuse(p) PROVE Ends(p)
  BY <1>1 DEF Refuse, End, budget, Ends
<1>2. ASSUME NEW position \in Committed, Goto(p, position),
             UNCHANGED <<trust, lock, command, prepared, seen, exchange, budget>>
      PROVE  LeadsOn(p) /\ exchange'[p] = exchange[p]
  BY <1>2, GotoFrame DEF LeadsOn, Same, budget
<1>3. ASSUME NEW a, NEW position \in Committed, Publish(p, a, position)
      PROVE  UNCHANGED torn /\ (Ends(p) \/ (LeadsOn(p) /\ exchange'[p] = exchange[p]))
  BY <1>1, <1>2, <1>3 DEF Publish, disk
<1>4. CASE PublishIntent(p)
  BY <1>3, <1>4 DEF PublishIntent, Committed
<1>5. CASE PublishImage(p) \/ Stage(p)
  BY <1>3, <1>5 DEF PublishImage, Stage, Committed
<1>6. CASE Compare(p) \/ Recheck(p)
  BY <1>1, <1>2, <1>6 DEF Compare, Recheck, Committed
<1>7. CASE Replace(p)
  BY <1>2, <1>7 DEF Replace, Committed
<1>8. CASE PublishRecord(p)
  BY <1>1, <1>8 DEF PublishRecord, Committed, disk
<1> QED BY <1>4, <1>5, <1>6, <1>7, <1>8 DEF Acting

LEMMA CommandShape ==
  ASSUME Inv, NEW p \in Procs, Command(p)
  PROVE  /\ pc[p] = "idle" /\ pc'[p] \in {"idle", "lock"}
         /\ UNCHANGED <<disk, lock, edits>>
         /\ \A q \in Procs \ {p} : Same(q)
<1> USE DEF Inv, Typed, Same, budget
<1>1. CASE Preview(p)
  BY <1>1 DEF Preview
<1>2. CASE Prepare(p)
  BY <1>2 DEF Prepare, Goto
<1>3. CASE StartRollback(p)
  BY <1>3 DEF StartRollback, Goto
<1> QED BY <1>1, <1>2, <1>3 DEF Command

LEMMA AcquireShape ==
  ASSUME Inv, NEW p \in Procs, Acquire(p)
  PROVE  /\ pc[p] = "lock" /\ lock = None /\ lock' = p /\ UNCHANGED <<disk, edits>>
         /\ pc'[p] = IF exchange[p] = None THEN "scan" ELSE "examine"
         /\ seen'[p] = config /\ command'[p] = command[p] /\ exchange'[p] = exchange[p]
         /\ \A q \in Procs \ {p} : Same(q)
BY DEF Acquire, Lockable, Inv, Typed, Goto, Same, budget

(* The lock excludes. *)
LEMMA ExclusiveStep ==
  ASSUME Inv, [Next]_vars
  PROVE  Exclusive'
<1> USE DEF Inv, Exclusive
<1>1. ASSUME NEW p \in Procs, Ends(p) PROVE Exclusive'
  <2>1. pc'[p] = "idle" /\ \A q \in Procs \ {p} : pc'[q] = pc[q]
    BY <1>1, ForgetFrame DEF Ends, Same
  <2>2. \A q \in Procs \ {p} : lock = q => lock' = q
    BY <1>1 DEF Ends, Forget
  <2> QED BY <2>1, <2>2 DEF Inside
<1>2. ASSUME NEW p \in Procs, LeadsOn(p), pc[p] \in Inside PROVE Exclusive'
  BY <1>2 DEF LeadsOn, Same
<1>3. ASSUME NEW p \in Procs, Command(p) PROVE Exclusive'
  BY <1>3, CommandShape DEF Same, Inside
<1>4. ASSUME NEW p \in Procs, Acquire(p) PROVE Exclusive'
  BY <1>4, AcquireShape, NoneAssumption DEF Same
<1>5. ASSUME NEW p \in Procs, Busy(p) \/ DieRunning(p) PROVE Exclusive'
  BY <1>1, <1>5 DEF Busy, Refuse, End, DieRunning, budget, Ends
<1>6. ASSUME NEW p \in Procs, Looking(p) PROVE Exclusive'
  BY <1>1, <1>2, <1>6, LookingShape DEF Inside, Positions
<1>7. ASSUME NEW p \in Procs, Acting(p) PROVE Exclusive'
  BY <1>1, <1>2, <1>7, ActingShape DEF Inside, Positions, Committed
<1>8. CASE Edit \/ (\E w \in Writers : Administer(w)) \/ UNCHANGED vars
  BY <1>8 DEF Edit, Administer, vars, local
<1> QED
  BY <1>3, <1>4, <1>5, <1>6, <1>7, <1>8, StepIs DEF Next, Command

(* Intents are announced by PublishIntent alone, and never withdrawn. *)
LEMMA IntentsStep ==
  ASSUME Inv, NEW p \in Procs, Command(p) \/ Step(p) \/ DieRunning(p)
  PROVE  \/ Intents' = Intents
         \/ /\ pc[p] = "intent" /\ Intents' = Intents \union {exchange[p]}
            /\ UNCHANGED <<config, torn>> /\ LeadsOn(p)
<1> USE DEF Intents
<1>1. ASSUME NEW a, files' = files \union {a} \/ files' = files \ {a}, \A x : a # Intent(x)
      PROVE  Intents' = Intents
  BY <1>1
<1>2. ASSUME UNCHANGED files PROVE Intents' = Intents
  BY <1>2
<1>3. CASE Command(p) \/ Acquire(p) \/ Busy(p) \/ Looking(p)
  BY <1>2, <1>3, CommandShape, AcquireShape, LookingShape DEF Busy, disk
<1>4. CASE PublishIntent(p)
  <2>1. CASE files' = files \union {Intent(exchange[p])}
    <3>1. exchange[p] \in Exchanges
      BY <1>4 DEF PublishIntent, Inv, Local, Told, Committed, Sound
    <3>2. Intents' = Intents \union {exchange[p]}
      BY <2>1, <3>1, ArtifactKinds
    <3>3. CASE UNCHANGED files
      BY <1>2, <3>3
    <3>4. CASE ~UNCHANGED files
      <4>1. /\ UNCHANGED <<trust, config, torn, lock, command, prepared, seen, exchange, budget>>
            /\ Goto(p, IF exchange[p].op = "apply" THEN "image" ELSE "stage")
        BY <1>4, <3>4 DEF PublishIntent, Publish, disk
      <4>2. LeadsOn(p)
        BY <4>1, GotoFrame DEF LeadsOn, Same, budget, Committed, Inv
      <4> QED BY <1>4, <3>2, <4>1, <4>2 DEF PublishIntent
    <3> QED BY <3>3, <3>4
  <2>2. CASE UNCHANGED files
    BY <1>2, <2>2
  <2> QED BY <1>4, <2>1, <2>2 DEF PublishIntent, Publish, disk
<1>5. CASE PublishImage(p) \/ Stage(p)
  <2>1. ASSUME NEW a, NEW position, Publish(p, a, position), \A x : a # Intent(x)
        PROVE  Intents' = Intents
    BY <1>1, <1>2, <2>1 DEF Publish, disk
  <2>2. \A x : Image(seen[p]) # Intent(x) /\ Staged(exchange[p]) # Intent(x)
    BY ArtifactKinds
  <2> QED BY <1>5, <2>1, <2>2 DEF PublishImage, Stage
<1>6. CASE Compare(p) \/ Recheck(p) \/ Replace(p)
  BY <1>1, <1>2, <1>6, ArtifactKinds DEF Compare, Recheck, Replace, Discard
<1>7. CASE PublishRecord(p)
  BY <1>1, <1>2, <1>7, ArtifactKinds DEF PublishRecord, disk
<1>8. CASE DieRunning(p)
  <2>1. CASE UNCHANGED files
    BY <1>2, <2>1
  <2>2. ASSUME NEW a, a \notin files, files' = files \ {a} PROVE Intents' = Intents
    BY <1>2, <2>2
  <2>3. ASSUME NEW a, a.kind = "staged", files' = files \ {a} PROVE Intents' = Intents
    BY <1>1, <2>3 DEF Intent
  <2> QED BY <1>8, <2>1, <2>2, <2>3 DEF DieRunning
<1> QED BY <1>3, <1>4, <1>5, <1>6, <1>7, <1>8, StepIs DEF Acting

LEMMA AnnouncedStep ==
  ASSUME Inv, [Next]_vars
  PROVE  Announced'
<1>1. ASSUME Intents' = Intents PROVE Announced'
  BY <1>1 DEF Inv, Announced
<1>2. ASSUME NEW p \in Procs, pc[p] = "intent", Intents' = Intents \union {exchange[p]}
      PROVE  Announced'
  BY <1>2 DEF Inv, Announced, Local, Told, Committed
<1>3. CASE Edit \/ (\E w \in Writers : Administer(w)) \/ UNCHANGED vars
  BY <1>1, <1>3 DEF Edit, Administer, vars, disk, Intents
<1> QED BY <1>1, <1>2, <1>3, IntentsStep DEF Next, Command

LEMMA NoticedStep ==
  ASSUME Inv, [Next]_vars
  PROVE  Noticed' /\ witnessed \subseteq witnessed'
<1>1. CASE Next
  <2>1. files' \subseteq Artifacts
    BY TypedStep DEF Typed
  <2>2. witnessed' = witnessed \union {x \in Intents' : config' = To(x)}
    BY <1>1, <2>1, Witnessed DEF Next
  <2>3. Intents' \subseteq Exchanges
    BY DEF Intents
  <2> QED BY <2>2, <2>3 DEF Inv, Noticed
<1>2. CASE UNCHANGED vars
  BY <1>2 DEF vars, disk, Inv, Noticed, Intents
<1> QED BY <1>1, <1>2

-----------------------------------------------------------------------------
(* What holds of one invocation survives its own steps and the others'. *)

(* Who stands outside the lock has only been told what to do. *)
LEMMA OutsideLocal ==
  ASSUME NEW q \in Procs, Told(q), pc[q] \in {"idle", "lock"}, Same(q)
  PROVE  Local(q)'
BY DEF Same, Told, Local, Attentive, Decided, Sole, Intending, Keeping, Undisturbed, Done,
       Committed, Pending

LEMMA EndedLocal ==
  ASSUME NEW p \in Procs, pc'[p] = "idle", exchange'[p] = None
  PROVE  Local(p)'
BY DEF Told, Local, Attentive, Decided, Sole, Intending, Keeping, Undisturbed, Done,
       Committed, Pending

(* While the disk stays, or the owner edits the configuration. *)
LEMMA UntouchedLocal ==
  ASSUME Inv, NEW q \in Procs, Same(q), UNCHANGED <<files, torn>>,
         witnessed \subseteq witnessed', UNCHANGED <<config, edits>> \/ edits' # 0
  PROVE  Local(q)'
<1> USE DEF Same
<1>1. Intents' = Intents /\ Unfinished' = Unfinished
  BY DEF Intents, Unfinished, Journal, Finished, Present
<1>2. Local(q)
  BY DEF Inv
<1>3. Told(q)' /\ Attentive(q)' /\ Decided(q)'
  BY <1>1, <1>2 DEF Local, Told, Attentive, Decided
<1>4. Sole(q)' /\ Intending(q)' /\ Keeping(q)'
  BY <1>1, <1>2 DEF Local, Sole, Intending, Keeping
<1>5. Undisturbed(q)' /\ Done(q)'
  BY <1>2 DEF Local, Undisturbed, Done
<1> QED BY <1>3, <1>4, <1>5 DEF Local

(* While another invocation holds the lock. *)
LEMMA BystanderLocal ==
  ASSUME Inv, NEW p \in Procs, pc[p] \in Inside, NEW q \in Procs, q # p, Same(q)
  PROVE  Local(q)'
<1>1. pc[q] \in {"idle", "lock"}
  BY DEF Inv, Exclusive, Typed, Inside
<1> QED BY <1>1, OutsideLocal DEF Inv, Local

LEMMA CommandLocal ==
  ASSUME Inv, NEW p \in Procs, Command(p)
  PROVE  Local(p)'
<1> USE DEF Inv
<1>0. pc[p] = "idle" /\ exchange[p] = None
  BY CommandShape DEF Local, Told
<1>1. CASE Preview(p)
  BY <1>0, <1>1, EndedLocal DEF Preview
<1>2. CASE Prepare(p)
  <2>1. pc'[p] = "lock" /\ exchange'[p] = None /\ command'[p] \in Receipts
    BY <1>0, <1>2 DEF Prepare, Goto, Typed
  <2> QED
    BY <2>1 DEF Told, Local, Attentive, Decided, Sole, Intending, Keeping, Undisturbed, Done,
       Committed, Pending
<1>3. CASE StartRollback(p)
  <2>1. PICK r \in Journal : exchange' = [exchange EXCEPT ![p] = Rollback(r)]
    BY <1>3 DEF StartRollback
  <2>2. r \in Receipts /\ Apply(r) \in Sound
    BY <2>1, JournalIsAnnounced DEF Typed, Announced
  <2>3. Rollback(r) \in Sound /\ Rollback(r).op = "rollback"
    BY <2>2, ReceiptType DEF Sound
  <2>4. pc'[p] = "lock" /\ exchange'[p] = Rollback(r)
    BY <1>3, <2>1 DEF StartRollback, Goto, Typed
  <2>5. exchange'[p] # None
    BY <2>2, <2>4, ReceiptType, NoneAssumption
  <2> QED
    BY <2>3, <2>4, <2>5
       DEF Told, Local, Attentive, Decided, Sole, Intending, Keeping, Undisturbed, Done,
       Committed, Pending
<1> QED BY <1>1, <1>2, <1>3 DEF Command

LEMMA AcquireLocal ==
  ASSUME Inv, NEW p \in Procs, Acquire(p), witnessed \subseteq witnessed'
  PROVE  Local(p)'
<1> USE DEF Inv
<1>1. /\ pc[p] = "lock" /\ UNCHANGED <<disk, edits>>
      /\ pc'[p] = IF exchange[p] = None THEN "scan" ELSE "examine"
      /\ seen'[p] = config /\ command'[p] = command[p] /\ exchange'[p] = exchange[p]
  BY AcquireShape
<1>2. Told(p)'
  BY <1>1 DEF Local, Told, Committed
<1>3. Attentive(p)'
  <2>1. Intents' = Intents /\ config' = config /\ config \in Contents
    BY <1>1 DEF Intents, disk, Typed
  <2> QED BY <1>1, <2>1 DEF Attentive, Noticed
<1> QED
  BY <1>1, <1>2, <1>3
     DEF Local, Decided, Sole, Intending, Keeping, Undisturbed, Done, Committed, Pending

(* Where the scan leads on, it has found the exchange it acts on. *)
LEMMA LookingLocal ==
  ASSUME Inv, NEW p \in Procs, Looking(p), LeadsOn(p), witnessed \subseteq witnessed'
  PROVE  Local(p)'
<1> USE DEF Inv
<1>1. UNCHANGED disk /\ Attentive(p) /\ Told(p) /\ UNCHANGED edits /\ seen'[p] = seen[p]
      /\ prepared'[p] = prepared[p] /\ pc'[p] # "idle"
  BY LookingShape DEF Local, LeadsOn, Committed
<1>2. Intents' = Intents /\ Unfinished' = Unfinished
  BY <1>1 DEF disk, Intents, Unfinished, Journal, Finished, Present
<1>3. ASSUME NEW a, End(p, a) \/ Refuse(p) PROVE FALSE
  BY <1>1, <1>3, ForgetFrame DEF Refuse, End
<1>4. ASSUME pc'[p] = "record", exchange'[p] \in Intents, To(exchange'[p]) = seen[p],
             pc[p] \in {"scan", "examine"}
      PROVE  Local(p)'
  <2>1. exchange'[p] \in Sound /\ exchange'[p] \in witnessed'
    BY <1>1, <1>4 DEF Attentive, Announced
  <2> QED
    BY <1>4, <2>1
       DEF Told, Local, Attentive, Decided, Sole, Intending, Keeping, Undisturbed, Done,
       Committed, Pending
<1>5. CASE ScanCompleted(p) \/ ScanRefused(p) \/ ExamineRestored(p)
  BY <1>3, <1>5 DEF ScanCompleted, ScanRefused, ExamineRestored
<1>6. CASE ScanUnrecorded(p)
  <2>1. PICK r \in Unrecorded(seen[p]) : exchange' = [exchange EXCEPT ![p] = Apply(r)]
    BY <1>6 DEF ScanUnrecorded
  <2>2. r \in Journal /\ seen[p] = Activated(r)
    BY <2>1 DEF Unrecorded, Unfinished
  <2>3. Apply(r) \in Intents /\ r \in Receipts
    BY <2>2, JournalIsAnnounced DEF Typed
  <2>4. exchange'[p] = Apply(r) /\ To(Apply(r)) = Activated(r) /\ pc'[p] = "record"
    BY <1>6, <2>1, <2>3, ReceiptType DEF ScanUnrecorded, Typed, Goto, To
  <2> QED BY <1>4, <1>6, <2>2, <2>3, <2>4 DEF ScanUnrecorded
<1>7. CASE Derive(p)
  <2> DEFINE r == command[p]
             fresh == Receipt(seen[p], r.release, Registry(prepared[p]))
  <2>1. /\ Derivable(p) /\ exchange' = [exchange EXCEPT ![p] = Apply(r)] /\ Goto(p, "intent")
        /\ ~Stops(seen[p]) /\ pc[p] = "scan"
    BY <1>3, <1>7 DEF Derive
  <2>2. pc'[p] = "intent" /\ exchange'[p] = Apply(r) /\ r \in Receipts
    BY <1>1, <2>1 DEF Typed, Goto, Told
  <2>3. /\ r.prior = seen[p] /\ r.registry = Registry(prepared[p])
        /\ Ready(r.registry, r.prior, r.release) /\ Resumes(p, r) /\ config = seen[p]
    <3>1. fresh = r /\ Ready(fresh.registry, fresh.prior, fresh.release) /\ Resumes(p, fresh)
          /\ config = seen[p]
      BY <2>1 DEF Derivable
    <3>2. fresh.prior = seen[p] /\ fresh.registry = Registry(prepared[p])
      BY DEF Receipt
    <3> HIDE DEF fresh
    <3> QED BY <3>1, <3>2
  <2>4. Apply(r) \in Sound /\ Apply(r).of = r /\ Apply(r).op = "apply"
    BY <2>2, <2>3, ReceiptType DEF Sound
  <2>5. Unfinished \subseteq {r}
    <3>1. Unfinished \subseteq Resumable(seen[p])
      BY <2>1 DEF Stops, Diverged
    <3> QED BY <2>3, <3>1 DEF Resumes
  <2>6. From(Apply(r)) = r.prior
    BY <2>4 DEF From
  <2> HIDE DEF r
  <2> QED
    BY <1>1, <1>2, <2>2, <2>3, <2>4, <2>5, <2>6
       DEF Told, Local, Attentive, Decided, Sole, Intending, Keeping, Undisturbed, Done,
       Committed, Pending, disk
<1>8. CASE ExamineUnrecorded(p)
  <2>1. /\ Intent(exchange[p]) \in files /\ Goto(p, "record") /\ UNCHANGED exchange
        /\ seen[p] = To(exchange[p]) /\ pc[p] = "examine"
    BY <1>3, <1>8 DEF ExamineUnrecorded, Restored
  <2>2. exchange[p] \in Intents
    BY <1>1, <2>1 DEF Told, Intents, Sound
  <2> QED BY <1>4, <2>1, <2>2, GotoFrame
<1>9. CASE Examine(p)
  <2>1. /\ seen[p] = From(exchange[p]) /\ Image(To(exchange[p])) \in files
        /\ Goto(p, "intent") /\ UNCHANGED exchange /\ pc[p] = "examine"
    BY <1>3, <1>9 DEF Examine, Secured
  <2>2. exchange[p] \in Sound /\ exchange[p].op = "rollback"
    BY <1>1, <2>1 DEF Told
  <2>3. To(exchange[p]) = exchange[p].of.prior /\ (edits = 0 => config = From(exchange[p]))
    BY <1>1, <2>1, <2>2 DEF To, Attentive
  <2>4. pc'[p] = "intent" /\ exchange'[p] = exchange[p]
    BY <2>1, GotoFrame
  <2> QED
    BY <1>1, <2>1, <2>2, <2>3, <2>4
       DEF Told, Local, Attentive, Decided, Sole, Intending, Keeping, Undisturbed, Done,
       Committed, Pending, disk
<1> QED BY <1>5, <1>6, <1>7, <1>8, <1>9 DEF Looking

(* An exchange keeps what it has prepared up to its record. *)
LEMMA ActingLocal ==
  ASSUME Inv, NEW p \in Procs, Acting(p), LeadsOn(p), Witness, files' \subseteq Artifacts
  PROVE  Local(p)'
<1> DEFINE x == exchange[p]
<1> USE DEF Inv
<1>1. /\ pc[p] \in Committed /\ exchange'[p] = x /\ seen'[p] = seen[p]
      /\ prepared'[p] = prepared[p] /\ UNCHANGED <<torn, edits>> /\ pc'[p] \in Committed
      /\ pc'[p] # "idle"
  <2>1. pc'[p] \in Committed /\ pc'[p] # "idle"
    BY DEF LeadsOn, Committed
  <2>2. ~Ends(p)
    BY <2>1, ForgetFrame DEF Ends
  <2> QED BY <2>1, <2>2, ActingShape DEF LeadsOn
<1>2. x \in Sound /\ x \in Exchanges /\ Decided(p) /\ Sole(p) /\ Intending(p) /\ Keeping(p)
      /\ Undisturbed(p)
  BY <1>1 DEF Local, Told, Sound
<1>3. ASSUME NEW a, End(p, a) \/ Refuse(p) PROVE FALSE
  BY <1>1, <1>3, ForgetFrame DEF Refuse, End
<1>4. Told(p)' /\ Attentive(p)'
  BY <1>1, <1>2 DEF Told, Attentive, Committed
<1>5. ASSUME pc'[p] # "intent", pc'[p] # "record", Decided(p)', Intending(p)', Keeping(p)',
             UNCHANGED config, pc[p] # "record"
      PROVE  Local(p)'
  BY <1>1, <1>2, <1>4, <1>5 DEF Local, Sole, Undisturbed, Done
<1>6. CASE PublishIntent(p)
  <2>1. /\ pc[p] = "intent" /\ files' = files \union {Intent(x)} /\ UNCHANGED config
        /\ pc'[p] = IF x.op = "apply" THEN "image" ELSE "stage"
    BY <1>3, <1>6, GotoFrame DEF PublishIntent, Publish
  <2>2. x.op \in {"apply", "rollback"} /\ x \in Intents'
    BY <1>2, <2>1, ExchangeType DEF Intents
  <2>3. Decided(p)' /\ Intending(p)' /\ Keeping(p)'
    BY <1>1, <1>2, <2>1, <2>2 DEF Decided, Intending, Keeping, Committed, Pending
  <2> QED BY <1>5, <2>1, <2>3
<1>7. CASE PublishImage(p)
  <2>1. /\ pc[p] = "image" /\ files' = files \union {Image(seen[p])} /\ UNCHANGED config
        /\ pc'[p] = "stage"
    BY <1>3, <1>7, GotoFrame DEF PublishImage, Publish
  <2>2. x.op = "apply" /\ seen[p] = x.of.prior /\ x \in Intents'
    BY <1>2, <2>1 DEF Keeping, Intending, Intents, Pending
  <2>3. Decided(p)' /\ Intending(p)' /\ Keeping(p)'
    BY <1>1, <1>2, <2>1, <2>2 DEF Decided, Intending, Keeping, Committed, Pending
  <2> QED BY <1>5, <2>1, <2>3
<1>8. CASE Stage(p)
  <2>1. /\ pc[p] = "stage" /\ files' = files \union {Staged(x)} /\ UNCHANGED config
        /\ pc'[p] = "compare"
    BY <1>3, <1>8, GotoFrame DEF Stage, Publish
  <2>2. x \in Intents' /\ Image(x.of.prior) \in files'
    BY <1>2, <2>1 DEF Intending, Keeping, Intents, Pending
  <2>3. Decided(p)' /\ Intending(p)' /\ Keeping(p)'
    BY <1>1, <1>2, <2>1, <2>2 DEF Decided, Intending, Keeping, Committed, Pending
  <2> QED BY <1>5, <2>1, <2>3
<1>9. CASE Compare(p)
  <2>1. /\ pc[p] = "compare" /\ UNCHANGED <<files, config>>
        /\ pc'[p] = IF x.op = "apply" THEN "recheck" ELSE "replace"
    BY <1>3, <1>9, GotoFrame DEF Compare
  <2>2. x \in Intents' /\ Image(x.of.prior) \in files'
    BY <1>2, <2>1 DEF Intending, Keeping, Intents, Pending
  <2>3. Decided(p)' /\ Intending(p)' /\ Keeping(p)'
    BY <1>1, <1>2, <2>1, <2>2 DEF Decided, Intending, Keeping, Committed, Pending
  <2> QED BY <1>5, <2>1, <2>3
<1>10. CASE Recheck(p)
  <2>1. pc[p] = "recheck" /\ UNCHANGED <<files, config>> /\ pc'[p] = "replace"
    BY <1>3, <1>10, GotoFrame DEF Recheck
  <2>2. x \in Intents' /\ Image(x.of.prior) \in files'
    BY <1>2, <2>1 DEF Intending, Keeping, Intents, Pending
  <2>3. Decided(p)' /\ Intending(p)' /\ Keeping(p)'
    BY <1>1, <1>2, <2>1, <2>2 DEF Decided, Intending, Keeping, Committed, Pending
  <2> QED BY <1>5, <2>1, <2>3
<1>11. CASE Replace(p)
  <2>1. /\ pc[p] = "replace" /\ files' = files \ {Staged(x)} /\ config' = To(x)
        /\ pc'[p] = "record"
    BY <1>11, GotoFrame DEF Replace, Discard
  <2>2. Intent(x) \in files'
    BY <1>2, <2>1, ArtifactKinds DEF Intending, Intents, Pending
  <2>3. x \in Intents'
    BY <1>2, <2>2 DEF Intents
  <2>4. x \in witnessed'
    BY <2>1, <2>3, Witnessed
  <2> HIDE DEF x
  <2> QED
    BY <1>1, <1>4, <2>1, <2>4
       DEF Local, Decided, Sole, Intending, Keeping, Undisturbed, Done, Committed, Pending
<1>12. CASE PublishRecord(p)
  BY <1>3, <1>12 DEF PublishRecord
<1> QED BY <1>6, <1>7, <1>8, <1>9, <1>10, <1>11, <1>12 DEF Acting

LEMMA LocalStep ==
  ASSUME Inv, [Next]_vars, NEW q \in Procs
  PROVE  Local(q)'
<1> USE DEF Inv
<1>1. witnessed \subseteq witnessed' /\ files' \subseteq Artifacts
  BY NoticedStep, TypedStep DEF Typed
<1>2. ASSUME NEW p \in Procs, Ends(p), UNCHANGED disk \/ pc[p] \in Inside PROVE Local(q)'
  <2>1. CASE q = p
    BY <1>2, <2>1, ForgetFrame, EndedLocal DEF Ends
  <2>2. CASE q # p
    <3>1. Same(q)
      BY <1>2, <2>2, ForgetFrame DEF Ends
    <3>2. CASE UNCHANGED disk
      BY <1>1, <1>2, <3>1, <3>2, UntouchedLocal DEF Ends, disk
    <3>3. CASE pc[p] \in Inside
      BY <2>2, <3>1, <3>3, BystanderLocal
    <3> QED BY <1>2, <3>2, <3>3
  <2> QED BY <2>1, <2>2
<1>3. ASSUME NEW p \in Procs, LeadsOn(p), pc[p] \in Inside, Local(p)' PROVE Local(q)'
  BY <1>3, BystanderLocal DEF LeadsOn
<1>4. ASSUME NEW p \in Procs, Command(p) PROVE Local(q)'
  <2>1. CASE q = p
    BY <1>4, <2>1, CommandLocal
  <2>2. CASE q # p
    BY <1>1, <1>4, <2>2, CommandShape, UntouchedLocal DEF disk
  <2> QED BY <2>1, <2>2
<1>5. ASSUME NEW p \in Procs, Acquire(p) PROVE Local(q)'
  <2>1. CASE q = p
    BY <1>1, <1>5, <2>1, AcquireLocal
  <2>2. CASE q # p
    BY <1>1, <1>5, <2>2, AcquireShape, UntouchedLocal DEF disk
  <2> QED BY <2>1, <2>2
<1>6. ASSUME NEW p \in Procs, Busy(p) PROVE Local(q)'
  BY <1>2, <1>6 DEF Busy, Refuse, End, Ends, budget
<1>7. ASSUME NEW p \in Procs, Looking(p) PROVE Local(q)'
  <2>1. UNCHANGED disk /\ pc[p] \in Inside /\ (Ends(p) \/ LeadsOn(p))
    BY <1>7, LookingShape DEF Inside, Positions
  <2> QED BY <1>1, <1>2, <1>3, <1>7, <2>1, LookingLocal
<1>8. ASSUME NEW p \in Procs, Acting(p), Witness PROVE Local(q)'
  <2>1. pc[p] \in Inside /\ (Ends(p) \/ LeadsOn(p))
    BY <1>8, ActingShape DEF Inside, Positions, Committed
  <2> QED BY <1>1, <1>2, <1>3, <1>8, <2>1, ActingLocal
<1>9. ASSUME NEW p \in Procs, DieRunning(p) PROVE Local(q)'
  <2>1. Ends(p)
    BY <1>9 DEF DieRunning, Ends
  <2>2. UNCHANGED disk \/ pc[p] \in Inside
    <3>1. CASE pc[p] = "lock"
      BY <1>9, <3>1 DEF DieRunning, Writing, disk
    <3>2. CASE pc[p] # "lock"
      BY <1>9, <3>2 DEF DieRunning, Inside, Typed
    <3> QED BY <3>1, <3>2
  <2> QED BY <1>2, <2>1, <2>2
<1>10. CASE Edit
  <2>1. Same(q) /\ UNCHANGED <<files, torn>> /\ edits' # 0
    BY <1>10 DEF Edit, local, Same, Typed
  <2> QED BY <1>1, <2>1, UntouchedLocal
<1>11. CASE (\E w \in Writers : Administer(w)) \/ UNCHANGED vars
  <2>1. Same(q) /\ UNCHANGED <<disk, edits>>
    BY <1>11 DEF Administer, vars, local, budget, Same
  <2> QED BY <1>1, <2>1, UntouchedLocal DEF disk
<1> QED
  BY <1>4, <1>5, <1>6, <1>7, <1>8, <1>9, <1>10, <1>11, StepIs DEF Next, Command

-----------------------------------------------------------------------------
(* The invariant *)

(* Only the owner's own commands move the trust root. *)
LEMMA TrustMoves ==
  ASSUME [Next]_vars
  PROVE  [\E w \in Writers : TrustStep(w)]_trust
<1>1. ASSUME NEW p \in Procs, Command(p) \/ Step(p) \/ DieRunning(p) PROVE UNCHANGED trust
  <2>1. ASSUME NEW a, End(p, a) \/ Refuse(p) PROVE UNCHANGED trust
    BY <2>1 DEF Refuse, End
  <2>2. ASSUME NEW a, NEW position, Publish(p, a, position) PROVE UNCHANGED trust
    BY <2>1, <2>2 DEF Publish
  <2>3. ASSUME Command(p) \/ Acquire(p) \/ Busy(p) \/ DieRunning(p) PROVE UNCHANGED trust
    BY <2>1, <2>3 DEF Command, Preview, Prepare, StartRollback, Acquire, Busy, DieRunning
  <2>4. ASSUME Looking(p) PROVE UNCHANGED trust
    BY <2>1, <2>4
       DEF Looking, ScanCompleted, ScanUnrecorded, ScanRefused, Derive, ExamineRestored,
           ExamineUnrecorded, Examine
  <2>5. ASSUME Acting(p) PROVE UNCHANGED trust
    BY <2>1, <2>2, <2>5
       DEF Acting, PublishIntent, PublishImage, Stage, Compare, Recheck, Replace, PublishRecord
  <2> QED BY <1>1, <2>3, <2>4, <2>5, StepIs
<1>2. ASSUME NEW w \in Writers, Administer(w) PROVE TrustStep(w)
  BY <1>2 DEF Administer
<1>3. CASE Edit \/ UNCHANGED vars
  BY <1>3 DEF Edit, vars
<1> QED BY <1>1, <1>2, <1>3 DEF Next, Command

LEMMA InvInit == Init => Inv
<1> SUFFICES ASSUME Init PROVE Inv
  OBVIOUS
<1>1. TrustInv
  BY TrustInvInit DEF Init
<1>2. Torn \in Lineage
  BY DEF Lineage, Torn
<1>3. Typed
  BY <1>2, OriginalAssumption DEF Init, Typed, Positions
<1>4. Intents = {}
  BY DEF Init, Intents
<1>5. Exclusive /\ Announced /\ Noticed
  BY <1>4 DEF Init, Exclusive, Announced, Noticed, Inside
<1>6. ASSUME NEW p \in Procs PROVE Local(p)
  BY DEF Init, Local, Told, Attentive, Decided, Sole, Intending, Keeping, Undisturbed, Done,
     Committed, Pending
<1> QED BY <1>1, <1>3, <1>5, <1>6 DEF Inv

LEMMA InvStep == Inv /\ [Next]_vars => Inv'
<1> SUFFICES ASSUME Inv, [Next]_vars PROVE Inv'
  OBVIOUS
<1>1. TrustInv'
  BY TrustMoves, TrustInvStep DEF Inv
<1> QED
  BY <1>1, TypedStep, ExclusiveStep, AnnouncedStep, NoticedStep, LocalStep DEF Inv

LEMMA InvAlways == Spec => []Inv
BY InvInit, InvStep, PTL DEF Spec

LEMMA InvType == Inv => TypeOK
<1> SUFFICES ASSUME Inv PROVE TypeOK
  OBVIOUS
<1>1. TrustTypeOK
  BY TrustInvType DEF Inv
<1>2. ASSUME NEW p \in Procs PROVE prepared[p] = Torn \/ Registry(prepared[p]) \in Registries
  BY DEF Inv, Typed, Lineage, Registry, Last, Torn
<1> QED BY <1>1, <1>2 DEF Inv, Typed, Noticed, TypeOK

(* Every variable keeps its type; above all no journal, before-image, stage  *)
(* or record is ever complete and incomplete (_write_create_or_identical).   *)
THEOREM TypeAlways == Spec => []TypeOK
BY InvAlways, InvType, PTL

(* The trust root behind the activations keeps what was reported.            *)
THEOREM ActivationGrantedStays == Spec => []GrantedStays
<1>1. Inv => GrantedStays
  BY TrustInvGranted DEF Inv
<1> QED BY <1>1, InvAlways, PTL

-----------------------------------------------------------------------------
(* Revocation *)

(* The one step from the recheck to the replacement has seen the authority.  *)
LEMMA RecheckSees ==
  ASSUME Inv, Next, NEW p \in Procs, pc[p] = "recheck", pc'[p] = "replace"
  PROVE  Authorised(p)
<1> USE DEF Inv
<1>1. ASSUME NEW q \in Procs, Ends(q) PROVE FALSE
  BY <1>1, ForgetFrame DEF Ends, Same
<1>2. ASSUME NEW q \in Procs, q # p, LeadsOn(q) PROVE FALSE
  BY <1>2 DEF LeadsOn, Same
<1>3. ASSUME NEW q \in Procs, Command(q) \/ Acquire(q) PROVE FALSE
  BY <1>3, CommandShape, AcquireShape DEF Same
<1>4. ASSUME NEW q \in Procs, Busy(q) \/ DieRunning(q) PROVE FALSE
  BY <1>1, <1>4 DEF Busy, Refuse, End, DieRunning, budget, Ends
<1>5. ASSUME NEW q \in Procs, Looking(q) PROVE FALSE
  BY <1>1, <1>2, <1>5, LookingShape
<1>6. ASSUME NEW q \in Procs, Acting(q) PROVE q = p /\ Recheck(p) /\ ~Refuse(p)
  <2>1. q = p
    BY <1>1, <1>2, <1>6, ActingShape
  <2>2. Recheck(p)
    BY <1>6, <2>1
       DEF Acting, PublishIntent, PublishImage, Stage, Compare, Replace, PublishRecord
  <2>3. ~Refuse(p)
    BY <1>1 DEF Refuse, End, budget, Ends
  <2> QED BY <2>1, <2>2, <2>3
<1>7. ~Edit /\ ~\E w \in Writers : Administer(w)
  BY DEF Edit, Administer, local
<1> QED BY <1>3, <1>4, <1>5, <1>6, <1>7, StepIs DEF Next, Command, Recheck

LEMMA RevocationStep ==
  ASSUME Inv, [Next]_vars, NEW p \in Procs, pc[p] = "recheck", pc'[p] = "replace",
         withdrawn = {}, NEW s \in granted
  PROVE  Registry(s)[Signer] # "revoked"
<1>1. Next
  BY DEF vars, local
<1>2. Readable /\ Latest = prepared[p]
  BY <1>1, RecheckSees DEF Authorised
<1>3. /\ exchange[p] \in Sound /\ exchange[p].of.registry = Registry(prepared[p])
  BY DEF Inv, Local, Told, Decided, Committed
<1>4. Registry(Latest)[Signer] = "trusted"
  BY <1>2, <1>3 DEF Sound, Ready
<1> QED BY <1>2, <1>4, RevocationIsLatest, SignerAssumption DEF Inv

(* Whoever revokes the deciding key and is told so may rely on it: no        *)
(* activation that is still before its last look at the authority exchanges  *)
(* the configuration, with any number of invocations and commands            *)
(* (_enforce_authority_recheck).                                             *)
THEOREM RevocationAlwaysBars == Spec => RevocationBars
<1>1. Inv /\ [Next]_vars =>
        [\A p \in Procs :
           pc[p] = "recheck" /\ pc'[p] = "replace" /\ withdrawn = {} =>
             \A snapshot \in granted : Registry(snapshot)[Signer] # "revoked"]_vars
  BY RevocationStep
<1> QED BY <1>1, InvAlways, PTL DEF Spec, RevocationBars

-----------------------------------------------------------------------------
(* The refinement: what ProfileSwitch sees of the disk *)

Announcements == Artifact("intent", files)
Securities == Artifact("image", files)
Records == Artifact("record", files \union torn)

LEMMA ArtifactAdded ==
  ASSUME NEW kind, NEW F, NEW a
  PROVE  Artifact(kind, F \union {a}) = Artifact(kind, F) \union (IF a.kind = kind THEN {a.of} ELSE {})
BY DEF Artifact

LEMMA ArtifactRemoved ==
  ASSUME NEW kind, NEW F, NEW a, a \notin F \/ a.kind # kind
  PROVE  Artifact(kind, F \ {a}) = Artifact(kind, F)
BY DEF Artifact

LEMMA RecordsAdded ==
  ASSUME NEW a, files' \union torn' = (files \union torn) \union {a}
  PROVE  Records' = Records \union (IF a.kind = "record" THEN {a.of} ELSE {})
BY ArtifactAdded DEF Records

LEMMA AnnouncementsAreIntents ==
  ASSUME Inv
  PROVE  Announcements = Intents
BY AnnouncedArtifacts DEF Inv, Typed, Announcements, Artifact, Intents

(* Witness is what ProfileSwitch calls Happen. *)
LEMMA WitnessHappens == Witness => Switch!Happen
BY DEF Witness, Switch!Happen, Artifact

(* A step that changes none of these is a stutter of ProfileSwitch: every    *)
(* outcome that is in place has been noticed before.                         *)
LEMMA Stutters ==
  ASSUME Inv, Witness, UNCHANGED <<config, edits>>,
         Announcements' = Announcements, Securities' = Securities, Records' = Records
  PROVE  UNCHANGED Switch!vars
<1>1. witnessed' = witnessed
  <2>1. witnessed' = witnessed \union {x \in Intents : config = To(x)}
    BY AnnouncementsAreIntents DEF Witness, Announcements, Artifact
  <2> QED BY <2>1 DEF Inv, Noticed
<1> QED BY <1>1 DEF Switch!vars, Announcements, Securities, Records

LEMMA QuietStutters ==
  ASSUME Inv, Witness, UNCHANGED <<disk, edits>>
  PROVE  UNCHANGED Switch!vars
<1>1. UNCHANGED <<config, files, torn>>
  BY DEF disk
<1> QED BY <1>1, Stutters DEF Announcements, Securities, Records

LEMMA IntendStep ==
  ASSUME Inv, NEW p \in Procs, PublishIntent(p), files' = files \union {Intent(exchange[p])},
         UNCHANGED <<config, torn, edits>>
  PROVE  Switch!Intend(exchange[p])
<1> DEFINE x == exchange[p]
<1>1. x \in Sound /\ x \in Exchanges /\ Sole(p) /\ pc[p] = "intent"
  BY DEF Inv, Local, Told, Sound, Committed, PublishIntent
<1>2. Intent(x).kind = "intent" /\ Intent(x).of = x
  BY DEF Intent
<1>3. Announcements' = Announcements \union {x}
  BY <1>2, ArtifactAdded DEF Announcements
<1>4. Securities' = Securities
  BY <1>2, ArtifactAdded DEF Securities
<1>5. Records' = Records
  <2>1. files' \union torn' = (files \union torn) \union {Intent(x)}
    OBVIOUS
  <2>2. Records' = Records \union (IF Intent(x).kind = "record" THEN {Intent(x).of} ELSE {})
    BY <2>1, RecordsAdded
  <2> QED BY <1>2, <2>2
<1>6. ASSUME x.op = "apply", NEW y \in Announcements, y \in Exchanges, y.op = "apply", y \notin Records
      PROVE  y = x
  <2>1. y \in Intents /\ y.of \in Journal
    BY <1>6, AnnouncementsAreIntents, JournalIsAnnounced DEF Inv, Typed
  <2>2. y = Apply(y.of) /\ x = Apply(x.of)
    BY <1>1, <1>6, ExchangeType
  <2>3. ~Present(Record(y))
    BY <1>6 DEF Present, Records, Artifact, Record
  <2>4. y.of \in Unfinished
    BY <2>1, <2>2, <2>3 DEF Unfinished, Finished
  <2>5. y.of = x.of
    BY <1>1, <1>6, <2>4 DEF Sole
  <2> QED BY <2>2, <2>5
<1>7. x \in {z \in Exchanges : z.op = "apply"} => Switch!Open \subseteq {x}
  BY <1>6 DEF Switch!Open, Announcements, Records
<1> QED
  BY <1>3, <1>4, <1>5, <1>7 DEF Switch!Intend, Announcements, Securities, Records

LEMMA RecordStep ==
  ASSUME Inv, NEW p \in Procs, pc[p] = "record", UNCHANGED <<config, edits>>,
         Announcements' = Announcements, Securities' = Securities,
         Records' = Records \union {exchange[p]}
  PROVE  Switch!Record(exchange[p])
<1>1. exchange[p] \in witnessed
  BY DEF Inv, Local, Done
<1> QED BY <1>1 DEF Switch!Record, Announcements, Securities, Records

LEMMA ActingStep ==
  ASSUME Inv, NEW p \in Procs, Acting(p), Witness, UNCHANGED edits
  PROVE  Switch!Next \/ UNCHANGED Switch!vars
<1> DEFINE x == exchange[p]
<1>1. x \in Sound /\ x \in Exchanges /\ UNCHANGED torn
  BY ActingShape DEF Inv, Local, Told, Sound
<1>2. ASSUME Switch!Intend(x) \/ Switch!Exchange(x) \/ Switch!Record(x) PROVE Switch!Next
  BY <1>1, <1>2, WitnessHappens DEF Switch!Next, Sound
<1>3. ASSUME NEW a, UNCHANGED config, a.kind = "staged",
             files' = files \union {a} \/ files' = files \ {a} \/ files' = files
      PROVE  UNCHANGED Switch!vars
  <2>1. CASE files' = files \union {a}
    <3>1. files' \union torn' = (files \union torn) \union {a}
      BY <1>1, <2>1
    <3>2. Records' = Records
      <4>1. Records' = Records \union (IF a.kind = "record" THEN {a.of} ELSE {})
        BY <3>1, RecordsAdded
      <4> QED BY <1>3, <4>1
    <3>3. Announcements' = Announcements /\ Securities' = Securities
      <4>1. /\ Artifact("intent", files \union {a}) = Artifact("intent", files)
            /\ Artifact("image", files \union {a}) = Artifact("image", files)
        BY <1>3 DEF Artifact
      <4> QED BY <2>1, <4>1 DEF Announcements, Securities
    <3> QED BY <1>3, <3>2, <3>3, Stutters
  <2>2. CASE files' = files \ {a}
    <3>1. Artifact("record", (files \ {a}) \union torn) = Artifact("record", files \union torn)
      BY <1>3 DEF Artifact
    <3>2. Records' = Records
      BY <1>1, <2>2, <3>1 DEF Records
    <3> QED
      BY <1>3, <2>2, <3>2, ArtifactRemoved, Stutters DEF Announcements, Securities
  <2>3. CASE files' = files
    BY <1>1, <1>3, <2>3, QuietStutters DEF disk
  <2> QED BY <1>3, <2>1, <2>2, <2>3
<1>4. CASE PublishIntent(p)
  <2>1. CASE UNCHANGED disk
    BY <2>1, QuietStutters
  <2>2. CASE ~UNCHANGED disk
    BY <1>2, <1>4, <2>2, IntendStep DEF PublishIntent, Publish
  <2> QED BY <2>1, <2>2
<1>5. CASE PublishImage(p)
  <2>1. CASE UNCHANGED disk
    BY <2>1, QuietStutters
  <2>2. CASE ~UNCHANGED disk
    <3> DEFINE a == Image(seen[p])
    <3>1. files' = files \union {a} /\ UNCHANGED config /\ a.kind = "image" /\ a.of = seen[p]
      BY <1>5, <2>2 DEF PublishImage, Publish, Image
    <3>2. Announcements' = Announcements /\ Securities' = Securities \union {seen[p]}
      BY <3>1, ArtifactAdded DEF Announcements, Securities
    <3>3. Records' = Records
      <4>1. files' \union torn' = (files \union torn) \union {a}
        BY <1>1, <3>1
      <4>2. Records' = Records \union (IF a.kind = "record" THEN {a.of} ELSE {})
        BY <4>1, RecordsAdded
      <4> QED BY <3>1, <4>2
    <3>4. Switch!Secure(seen[p])
      BY <3>1, <3>2, <3>3 DEF Switch!Secure, Announcements, Securities, Records
    <3>5. seen[p] \in Contents
      <4>1. seen[p] = x.of.prior
        BY <1>5 DEF PublishImage, Inv, Local, Keeping
      <4> QED BY <1>1, <4>1, ExchangeType, ReceiptType
    <3> QED BY <3>4, <3>5, WitnessHappens DEF Switch!Next
  <2> QED BY <2>1, <2>2
<1>6. CASE Stage(p)
  <2>1. Staged(x).kind = "staged"
    BY DEF Staged
  <2> QED BY <1>3, <1>6, <2>1 DEF Stage, Publish, disk
<1>7. CASE Compare(p) \/ Recheck(p)
  <2>1. Staged(x).kind = "staged"
    BY DEF Staged
  <2> QED BY <1>3, <1>7, <2>1 DEF Compare, Recheck, Discard
<1>8. CASE Replace(p)
  <2>1. /\ pc[p] = "replace" /\ files' = files \ {Staged(x)} /\ config' = To(x)
        /\ Staged(x).kind = "staged"
    BY <1>8 DEF Replace, Discard, Staged
  <2>2. x \in Intents /\ Image(x.of.prior) \in files /\ (edits = 0 => config = From(x))
    BY <2>1 DEF Inv, Local, Intending, Keeping, Undisturbed, Pending, Committed
  <2>3. x \in Announcements /\ x.of.prior \in Securities
    BY <2>2, AnnouncementsAreIntents DEF Securities, Artifact, Image
  <2>4. Announcements' = Announcements /\ Securities' = Securities
    BY <2>1, ArtifactRemoved DEF Announcements, Securities
  <2>5. Records' = Records
    <3>1. Artifact("record", (files \ {Staged(x)}) \union torn) = Artifact("record", files \union torn)
      BY <2>1 DEF Artifact
    <3> QED BY <1>1, <2>1, <3>1 DEF Records
  <2>6. edits \in Nat /\ (~(edits > 0) => edits = 0)
    BY DEF Inv, Typed
  <2>7. Switch!Exchange(x)
    BY <2>1, <2>2, <2>3, <2>4, <2>5, <2>6
       DEF Switch!Exchange, Announcements, Securities, Records
  <2> QED BY <1>2, <2>7
<1>9. CASE PublishRecord(p)
  <2>1. CASE UNCHANGED disk
    BY <2>1, QuietStutters
  <2>2. CASE ~UNCHANGED disk
    <3> DEFINE a == Record(x)
    <3>1. /\ files' = files \union {a} /\ UNCHANGED config /\ pc[p] = "record"
          /\ a.kind = "record" /\ a.of = x
      BY <1>9, <2>2 DEF PublishRecord, Record
    <3>2. Announcements' = Announcements /\ Securities' = Securities
      BY <3>1, ArtifactAdded DEF Announcements, Securities
    <3>3. Records' = Records \union {x}
      <4>1. files' \union torn' = (files \union torn) \union {a}
        BY <1>1, <3>1
      <4>2. Records' = Records \union (IF a.kind = "record" THEN {a.of} ELSE {})
        BY <4>1, RecordsAdded
      <4> QED BY <3>1, <4>2
    <3> QED BY <1>2, <3>1, <3>2, <3>3, RecordStep
  <2> QED BY <2>1, <2>2
<1> QED BY <1>4, <1>5, <1>6, <1>7, <1>8, <1>9 DEF Acting

(* A death in the middle of a record leaves a record that is incomplete. *)
LEMMA DeathStep ==
  ASSUME Inv, NEW p \in Procs, DieRunning(p), Witness
  PROVE  Switch!Next \/ UNCHANGED Switch!vars
<1>0. UNCHANGED <<config, edits>>
  BY DEF DieRunning
<1>1. CASE UNCHANGED <<files, torn>>
  BY <1>0, <1>1, QuietStutters DEF disk
<1>2. ASSUME NEW a \in Writing(p), a \notin files \/ a.kind = "staged",
             torn' = torn \union {a}, files' = files \ {a}
      PROVE  Switch!Next \/ UNCHANGED Switch!vars
  <2>1. /\ a.kind \in {"intent", "image", "staged", "record"}
        /\ a.kind = "record" => pc[p] = "record" /\ a.of = exchange[p]
    BY <1>2 DEF Writing, Intent, Image, Staged, Record
  <2>2. Announcements' = Announcements /\ Securities' = Securities
    BY <1>2, ArtifactRemoved DEF Announcements, Securities
  <2>3. files' \union torn' = (files \union torn) \union {a}
    BY <1>2
  <2>4. CASE a.kind # "record"
    <3>1. Records' = Records
      BY <2>3, <2>4, RecordsAdded
    <3> QED BY <1>0, <2>2, <3>1, Stutters
  <2>5. CASE a.kind = "record"
    <3>1. Records' = Records \union {exchange[p]}
      BY <2>1, <2>3, <2>5, RecordsAdded
    <3>2. Switch!Record(exchange[p])
      BY <1>0, <2>1, <2>2, <2>5, <3>1, RecordStep
    <3>3. exchange[p] \in Sound
      BY <2>1, <2>5 DEF Inv, Local, Told, Committed
    <3> QED BY <3>2, <3>3, WitnessHappens DEF Switch!Next, Sound
  <2> QED BY <2>4, <2>5
<1> QED BY <1>1, <1>2 DEF DieRunning

LEMMA SwitchInit == Init => Switch!Init
BY OriginalAssumption DEF Init, Switch!Init, Artifact

LEMMA SwitchStep ==
  Inv /\ Inv' /\ [Next]_vars => [Switch!Next]_(Switch!vars)
<1> SUFFICES ASSUME Inv, Inv', [Next]_vars PROVE Switch!Next \/ UNCHANGED Switch!vars
  OBVIOUS
<1>1. CASE UNCHANGED vars
  BY <1>1 DEF vars, disk, budget, Switch!vars
<1>2. CASE Next
  <2>0. Witness
    BY <1>2 DEF Next
  <2>1. ASSUME NEW p \in Procs, Command(p) \/ Acquire(p) \/ Busy(p) \/ Looking(p)
        PROVE  UNCHANGED Switch!vars
    <3>1. UNCHANGED <<disk, edits>>
      BY <2>1, CommandShape, AcquireShape, LookingShape
         DEF Busy, Refuse, End, budget, Ends, LeadsOn
    <3> QED BY <2>0, <3>1, QuietStutters
  <2>2. ASSUME NEW p \in Procs, Acting(p) PROVE Switch!Next \/ UNCHANGED Switch!vars
    <3>1. UNCHANGED edits
      BY <2>2, ActingShape DEF Ends, LeadsOn
    <3> QED BY <2>0, <2>2, <3>1, ActingStep
  <2>3. ASSUME NEW p \in Procs, DieRunning(p) PROVE Switch!Next \/ UNCHANGED Switch!vars
    BY <2>0, <2>3, DeathStep
  <2>4. CASE Edit
    <3>1. config' \in Contents /\ edits' > 0
      BY <2>4 DEF Edit, Inv, Typed
    <3>2. Switch!Meddle
      BY <2>4, <3>1 DEF Edit, Switch!Meddle
    <3> QED BY <2>0, <3>2, WitnessHappens DEF Switch!Next
  <2>5. ASSUME NEW w \in Writers, Administer(w) PROVE UNCHANGED Switch!vars
    BY <2>0, <2>5, QuietStutters DEF Administer, budget
  <2> QED BY <1>2, <2>1, <2>2, <2>3, <2>4, <2>5, StepIs DEF Next, Command
<1> QED BY <1>1, <1>2

(* With any number of invocations, deaths, edits and trust-root commands,    *)
(* activation and rollback are ProfileSwitch: an exchange takes place only   *)
(* after its intent and its before-image, in place of the bytes announced,   *)
(* and a record names only what took place (apply_profile_activation,        *)
(* rollback_profile_activation).                                             *)
THEOREM SwitchesSafelyAlways == Spec => SwitchesSafely
<1>1. Spec => [][Switch!Next]_(Switch!vars)
  BY InvAlways, SwitchStep, PTL DEF Spec
<1> QED BY <1>1, SwitchInit, PTL DEF Spec, SwitchesSafely, Switch!Spec

(* What is proved of ProfileSwitch holds of activation and rollback. *)
SwitchProofs == INSTANCE ProfileSwitchProofs WITH
  Exchanges <- Sound,
  Forward <- {x \in Exchanges : x.op = "apply"},
  Prior <- LAMBDA x : x.of.prior,
  content <- config,
  intended <- Artifact("intent", files),
  secured <- Artifact("image", files),
  happened <- witnessed,
  recorded <- Artifact("record", files \union torn),
  meddled <- edits > 0

LEMMA SwitchProofsStep ==
  Inv /\ Inv' /\ [Next]_vars => [SwitchProofs!Next]_(SwitchProofs!vars)
BY SwitchStep
   DEF Switch!Next, Switch!Intend, Switch!Secure, Switch!Exchange, Switch!Record,
       Switch!Meddle, Switch!Happen, Switch!Open, Switch!vars,
       SwitchProofs!Next, SwitchProofs!Intend, SwitchProofs!Secure, SwitchProofs!Exchange,
       SwitchProofs!Record, SwitchProofs!Meddle, SwitchProofs!Happen, SwitchProofs!Open,
       SwitchProofs!vars, Sound

(* At most one activation of the configuration is announced and not yet on  *)
(* record (the scan of the journals in apply_profile_activation).           *)
THEOREM OneActivationOpen == Spec => []Switch!OneOpen
<1>1. Init => SwitchProofs!OneOpen
  BY DEF Init, SwitchProofs!OneOpen, SwitchProofs!Open, Artifact
<1>2. SwitchProofs!OneOpen /\ Inv /\ Inv' /\ [Next]_vars => SwitchProofs!OneOpen'
  BY SwitchProofsStep, SwitchProofs!OneOpenStep
<1>3. SwitchProofs!OneOpen => Switch!OneOpen
  BY DEF SwitchProofs!OneOpen, SwitchProofs!Open, Switch!OneOpen, Switch!Open
<1> QED BY <1>1, <1>2, <1>3, InvAlways, PTL DEF Spec

(* Every receipt and every rollback record, complete or not, is of an        *)
(* exchange that was announced and whose outcome was in place                *)
(* (_finalize_apply, _finalize_rollback).                                    *)
THEOREM RecordsAreTrue == Spec => []Switch!RecordIsTrue
<1>1. Init => SwitchProofs!RecordIsTrue
  BY DEF Init, SwitchProofs!RecordIsTrue, Artifact
<1>2. SwitchProofs!RecordIsTrue /\ Inv /\ Inv' /\ [Next]_vars => SwitchProofs!RecordIsTrue'
  BY SwitchProofsStep, SwitchProofs!RecordStep
<1>3. SwitchProofs!RecordIsTrue => Switch!RecordIsTrue
  BY DEF SwitchProofs!RecordIsTrue, Switch!RecordIsTrue
<1> QED BY <1>1, <1>2, <1>3, InvAlways, PTL DEF Spec

-----------------------------------------------------------------------------
(***************************************************************************)
(* Part 3: the status                                                      *)
(***************************************************************************)

(* What the artifacts tell of the configuration, while the owner does not    *)
(* edit it and nothing but staged bytes was left incomplete.                 *)

Undamaged == edits = 0 /\ \A a \in torn : a.kind = "staged"
Begun(r) == Intent(Rollback(r)) \in files

(* Every activation starts from the first configuration, and the            *)
(* configuration is that one or what an announced activation put in place.   *)
Grounded == \A r \in Journal : r.prior = Original
Reached == config = Original \/ \E r \in Journal : config = Activated(r)

(* What has been in place can be returned to; an unfinished activation is    *)
(* in place or waits for the first configuration; only what was activated is *)
(* rolled back.                                                              *)
Kept == \A r \in Journal : Apply(r) \in witnessed => Image(Original) \in files
InOrder == \A r \in Unfinished : config \in {Original, Activated(r)}
Earned == \A r \in Receipts : Begun(r) => Record(Apply(r)) \in files

(* What was in place and no longer is, or was announced twice, has begun to  *)
(* be rolled back.                                                           *)
Retired(c) == \E r \in Journal : Activated(r) = c /\ Begun(r)
Returned == \A r \in Journal : Apply(r) \in witnessed => config = Activated(r) \/ Retired(Activated(r))
Repeated ==
  \A r, s \in Journal : r # s /\ Activated(r) = Activated(s) => Retired(Activated(r))

Story == Grounded /\ Reached /\ Kept /\ InOrder /\ Earned /\ Returned /\ Repeated

(* What an invocation adds to it next. *)
Entitled(p) ==
  exchange[p] # None /\ exchange[p].op = "rollback" => Record(Apply(exchange[p].of)) \in files
Alone(p) ==
  pc[p] \in Committed \ {"record"} /\ exchange[p].op = "apply" =>
    Unfinished \subseteq {exchange[p].of} /\ exchange[p].of.prior = Original

StoryInv == Undamaged => Story /\ \A p \in Procs : Entitled(p) /\ Alone(p)

(* Artifacts that stay; stages come and go. *)
Lasting == {a \in files : a.kind # "staged"}

LEMMA LastingArtifacts ==
  ASSUME NEW x, NEW c
  PROVE  /\ Intent(x) \in files <=> Intent(x) \in Lasting
         /\ Record(x) \in files <=> Record(x) \in Lasting
         /\ Image(c) \in files <=> Image(c) \in Lasting
BY DEF Lasting, Intent, Record, Image

LEMMA JournalIs == Inv => Journal = {r \in Receipts : Intent(Apply(r)) \in files}
<1> SUFFICES ASSUME Inv PROVE Journal = {r \in Receipts : Intent(Apply(r)) \in files}
  OBVIOUS
<1>1. ASSUME NEW r \in Journal PROVE r \in Receipts /\ Intent(Apply(r)) \in files
  BY JournalIsAnnounced DEF Inv, Typed, Intents
<1>2. ASSUME NEW r \in Receipts, Intent(Apply(r)) \in files PROVE r \in Journal
  <2>1. Apply(r) \in Intents /\ Apply(r).of = r /\ Apply(r).op = "apply"
    BY <1>2, ReceiptType DEF Intents
  <2> QED BY <2>1, JournalIsAnnounced DEF Inv, Typed
<1> QED BY <1>1, <1>2

(* With nothing incomplete, a record is one that can be read. *)
LEMMA UnfinishedIs ==
  Undamaged => Unfinished = {r \in Journal : Record(Apply(r)) \notin files}
<1> SUFFICES ASSUME Undamaged PROVE Unfinished = {r \in Journal : Record(Apply(r)) \notin files}
  OBVIOUS
<1>1. \A r : Record(Apply(r)) \notin torn
  BY DEF Undamaged, Record
<1> QED BY <1>1 DEF Unfinished, Finished, Present

(* The record is of what was in place, and that was announced. *)
LEMMA TrueRecords ==
  ASSUME Inv, Switch!RecordIsTrue
  PROVE  /\ \A x : Record(x) \in files => x \in witnessed
         /\ \A x \in witnessed : x \in Intents /\ Intent(x) \in files
<1>1. ASSUME NEW x, Record(x) \in files PROVE x \in witnessed
  <2>1. Record(x).kind = "record" /\ Record(x).of = x
    BY DEF Record
  <2>2. x \in Artifact("record", files \union torn)
    BY <1>1, <2>1 DEF Artifact
  <2> QED BY <2>2 DEF Switch!RecordIsTrue
<1>2. witnessed \subseteq Intents
  BY AnnouncementsAreIntents DEF Switch!RecordIsTrue, Announcements
<1> QED BY <1>1, <1>2 DEF Intents

(* An activation changes the configuration. *)
LEMMA ActivationChanges ==
  ASSUME NEW r \in Receipts, Apply(r) \in Sound
  PROVE  Activated(r) # r.prior
<1>1. r.prior.default = r.release.base /\ r.release.base # r.release.target
  BY ReceiptType, ReleasesAssumption DEF Sound, Ready, Receipts
<1>2. r.prior \in Contents
  BY ReceiptType
<1>3. Activated(r).default = r.release.target
  BY <1>2 DEF Activated, Contents
<1> QED BY <1>1, <1>3

-----------------------------------------------------------------------------
(* The steps that write a lasting artifact or the configuration *)

Quietly == Lasting' = Lasting /\ UNCHANGED config
Writes(a) == Lasting' = Lasting \union {a} /\ UNCHANGED config

LEMMA LastingKept ==
  ASSUME NEW a, a.kind = "staged", files' = files \union {a} \/ files' = files \ {a}
  PROVE  Lasting' = Lasting
BY DEF Lasting

LEMMA LastingAdded ==
  ASSUME NEW a, a.kind # "staged", files' = files \union {a}
  PROVE  Lasting' = Lasting \union {a}
BY DEF Lasting

LEMMA ActingWrites ==
  ASSUME Inv, NEW p \in Procs, Acting(p)
  PROVE  \/ Quietly
         \/ PublishIntent(p) /\ Writes(Intent(exchange[p])) /\ LeadsOn(p) /\ exchange'[p] = exchange[p]
         \/ PublishImage(p) /\ Writes(Image(seen[p]))
         \/ PublishRecord(p) /\ Writes(Record(exchange[p]))
         \/ Replace(p) /\ Lasting' = Lasting /\ config' = To(exchange[p])
<1> DEFINE x == exchange[p]
<1>1. Staged(x).kind = "staged" /\ Intent(x).kind = "intent" /\ Record(x).kind = "record"
      /\ Image(seen[p]).kind = "image"
  BY DEF Staged, Intent, Record, Image
<1>2. ASSUME UNCHANGED <<files, config>> PROVE Quietly
  BY <1>2 DEF Quietly, Lasting
<1>3. ASSUME NEW a, a.kind # "staged", files' = files \union {a}, UNCHANGED config PROVE Writes(a)
  BY <1>3, LastingAdded DEF Writes
<1>4. CASE PublishIntent(p)
  <2>1. CASE UNCHANGED disk
    BY <1>2, <2>1 DEF disk
  <2>2. CASE ~UNCHANGED disk
    <3>1. /\ files' = files \union {Intent(x)} /\ UNCHANGED config
          /\ UNCHANGED <<trust, lock, command, prepared, seen, exchange, budget>>
          /\ Goto(p, IF x.op = "apply" THEN "image" ELSE "stage")
      BY <1>4, <2>2 DEF PublishIntent, Publish
    <3>2. LeadsOn(p)
      BY <3>1, GotoFrame DEF LeadsOn, Same, budget, Committed, Inv
    <3> QED BY <1>1, <1>3, <1>4, <3>1, <3>2
  <2> QED BY <2>1, <2>2
<1>5. CASE PublishImage(p)
  <2>1. CASE UNCHANGED disk
    BY <1>2, <2>1 DEF disk
  <2>2. CASE ~UNCHANGED disk
    BY <1>1, <1>3, <1>5, <2>2 DEF PublishImage, Publish
  <2> QED BY <2>1, <2>2
<1>6. CASE Stage(p)
  BY <1>1, <1>2, <1>6, LastingKept DEF Stage, Publish, Quietly, disk
<1>7. CASE Compare(p) \/ Recheck(p)
  BY <1>1, <1>2, <1>7, LastingKept DEF Compare, Recheck, Discard, Quietly
<1>8. CASE Replace(p)
  BY <1>1, <1>8, LastingKept DEF Replace, Discard
<1>9. CASE PublishRecord(p)
  BY <1>1, <1>2, <1>3, <1>9 DEF PublishRecord, disk
<1> QED BY <1>4, <1>5, <1>6, <1>7, <1>8, <1>9 DEF Acting

LEMMA UndamagedBefore ==
  ASSUME Inv, [Next]_vars, Undamaged'
  PROVE  Undamaged /\ ~Edit
<1>1. edits \in Nat
  BY DEF Inv, Typed
<1>2. edits' # 0 \/ (edits' = edits /\ torn \subseteq torn')
  <2>1. ASSUME NEW p \in Procs, Command(p) \/ Acquire(p) \/ Busy(p) \/ Looking(p)
        PROVE  UNCHANGED <<disk, edits>>
    BY <2>1, CommandShape, AcquireShape, LookingShape
       DEF Busy, Refuse, End, budget, Ends, LeadsOn
  <2>2. ASSUME NEW p \in Procs, Acting(p) PROVE UNCHANGED <<torn, edits>>
    BY <2>2, ActingShape DEF Ends, LeadsOn
  <2>3. ASSUME NEW p \in Procs, DieRunning(p) PROVE UNCHANGED edits /\ torn \subseteq torn'
    BY <2>3 DEF DieRunning
  <2>4. CASE Edit
    BY <1>1, <2>4 DEF Edit
  <2>5. CASE (\E w \in Writers : Administer(w)) \/ UNCHANGED vars
    BY <2>5 DEF Administer, vars, budget, disk
  <2> QED BY <1>1, <2>1, <2>2, <2>3, <2>4, <2>5, StepIs DEF Next, Command, disk
<1>3. ~Edit
  BY <1>1 DEF Edit, Undamaged
<1> QED BY <1>2, <1>3 DEF Undamaged

(* A death that damages nothing writes nothing that lasts. *)
LEMMA DyingQuietly ==
  ASSUME NEW p, DieRunning(p), Undamaged'
  PROVE  Quietly
<1>1. CASE UNCHANGED files
  BY <1>1 DEF DieRunning, Quietly, Lasting
<1>2. ASSUME NEW a, torn' = torn \union {a}, files' = files \ {a} PROVE Lasting' = Lasting
  <2>1. a.kind = "staged"
    BY <1>2 DEF Undamaged
  <2> QED BY <1>2, <2>1, LastingKept
<1> QED BY <1>1, <1>2 DEF DieRunning, Quietly

-----------------------------------------------------------------------------
(* What the story reads, after a step *)

LEMMA NextJournalIs == (Inv => Journal = {r \in Receipts : Intent(Apply(r)) \in files})'
BY JournalIs, PTL

LEMMA NextUnfinishedIs ==
  (Undamaged => Unfinished = {r \in Journal : Record(Apply(r)) \notin files})'
BY UnfinishedIs, PTL

LEMMA StoryReads ==
  ASSUME Inv, Inv', Undamaged, Undamaged', NEW S, Lasting' = Lasting \union S
  PROVE  /\ \A x : Intent(x) \in files' <=> Intent(x) \in files \/ Intent(x) \in S
         /\ \A x : Record(x) \in files' <=> Record(x) \in files \/ Record(x) \in S
         /\ \A c : Image(c) \in files' <=> Image(c) \in files \/ Image(c) \in S
         /\ Journal' = {r \in Receipts : Intent(Apply(r)) \in files'}
         /\ Unfinished' = {r \in Journal' : Record(Apply(r)) \notin files'}
<1>1. /\ \A x : Intent(x) \in files' <=> Intent(x) \in Lasting'
      /\ \A x : Record(x) \in files' <=> Record(x) \in Lasting'
      /\ \A c : Image(c) \in files' <=> Image(c) \in Lasting'
  BY DEF Lasting, Intent, Record, Image
<1>2. Journal' = {r \in Receipts : Intent(Apply(r)) \in files'}
  BY NextJournalIs
<1>3. Unfinished' = {r \in Journal' : Record(Apply(r)) \notin files'}
  BY NextUnfinishedIs
<1> QED BY <1>1, <1>2, <1>3, LastingArtifacts

LEMMA QuietReads ==
  ASSUME Inv, Inv', Undamaged, Undamaged', Lasting' = Lasting
  PROVE  /\ \A x : Intent(x) \in files' <=> Intent(x) \in files
         /\ \A x : Record(x) \in files' <=> Record(x) \in files
         /\ \A c : Image(c) \in files' <=> Image(c) \in files
         /\ Journal' = Journal /\ Unfinished' = Unfinished
<1>1. /\ \A x : Intent(x) \in files' <=> Intent(x) \in Lasting'
      /\ \A x : Record(x) \in files' <=> Record(x) \in Lasting'
      /\ \A c : Image(c) \in files' <=> Image(c) \in Lasting'
  BY DEF Lasting, Intent, Record, Image
<1>2. /\ \A x : Intent(x) \in files' <=> Intent(x) \in files
      /\ \A x : Record(x) \in files' <=> Record(x) \in files
      /\ \A c : Image(c) \in files' <=> Image(c) \in files
  BY <1>1, LastingArtifacts
<1>3. Journal' = Journal
  BY <1>2, JournalIs, NextJournalIs
<1> QED BY <1>2, <1>3, UnfinishedIs, NextUnfinishedIs

(* What was noticed before is all there is to notice, unless an exchange is  *)
(* announced or takes place.                                                 *)
LEMMA NothingNew ==
  ASSUME Inv, Inv', [Next]_vars, UNCHANGED config, \A x : Intent(x) \in files' => Intent(x) \in files
  PROVE  \A x \in witnessed' : x \in witnessed
<1>1. CASE Next
  <2>1. witnessed' = witnessed \union {x \in Intents' : config' = To(x)}
    BY <1>1, Witnessed DEF Next, Inv, Typed
  <2>2. Intents' \subseteq Intents
    BY DEF Intents
  <2> QED BY <2>1, <2>2 DEF Inv, Noticed
<1>2. CASE UNCHANGED vars
  BY <1>2 DEF vars
<1> QED BY <1>1, <1>2

(* A step that announces nothing and exchanges nothing. *)
LEMMA UneventfulStory ==
  ASSUME Inv, Inv', [Next]_vars, Undamaged, Undamaged', Story,
         NEW S, Lasting' = Lasting \union S, UNCHANGED config, \A x : Intent(x) \notin S
  PROVE  Story'
<1>1. /\ \A x : Intent(x) \in files' <=> Intent(x) \in files
      /\ \A x : Record(x) \in files => Record(x) \in files'
      /\ \A c : Image(c) \in files => Image(c) \in files'
      /\ Journal' = {r \in Receipts : Intent(Apply(r)) \in files'}
      /\ Unfinished' = {r \in Journal' : Record(Apply(r)) \notin files'}
  BY StoryReads
<1>2. Journal' = Journal /\ Unfinished' \subseteq Unfinished
  BY <1>1, JournalIs, UnfinishedIs
<1>3. \A r : Apply(r) \in witnessed' => Apply(r) \in witnessed
  BY <1>1, NothingNew
<1>4. \A r : Begun(r)' <=> Begun(r)
  BY <1>1 DEF Begun
<1>5. \A c : Retired(c)' <=> Retired(c)
  BY <1>2, <1>4 DEF Retired
<1>6. Grounded' /\ Reached' /\ InOrder'
  BY <1>2 DEF Story, Grounded, Reached, InOrder
<1>7. Kept' /\ Earned'
  BY <1>1, <1>2, <1>3, <1>4 DEF Story, Kept, Earned
<1>8. Returned'
  BY <1>2, <1>3, <1>5 DEF Story, Returned
<1>9. Repeated'
  BY <1>2, <1>5 DEF Story, Repeated
<1> QED BY <1>6, <1>7, <1>8, <1>9 DEF Story

(* An activation is announced while the first configuration is in place and  *)
(* nothing else is unfinished; a rollback is of a recorded activation.       *)
LEMMA AnnouncedStory ==
  ASSUME Inv, Inv', Next, Undamaged, Undamaged', Story, Switch!RecordIsTrue,
         NEW p \in Procs, PublishIntent(p), Entitled(p), Alone(p), Writes(Intent(exchange[p]))
  PROVE  Story'
<1> DEFINE x == exchange[p]
<1>0. /\ pc[p] = "intent" /\ x \in Sound /\ x \in Exchanges /\ x # None /\ config = From(x)
      /\ UNCHANGED config
  <2>1. pc[p] = "intent" /\ x \in Sound /\ UNCHANGED config
    BY DEF PublishIntent, Inv, Local, Told, Committed, Writes
  <2>2. config = From(x)
    BY <2>1 DEF Inv, Local, Undisturbed, Committed, Undamaged
  <2> QED BY <2>1, <2>2, NoneAssumption DEF Sound
<1>1. /\ \A y : Intent(y) \in files' <=> Intent(y) \in files \/ y = x
      /\ \A y : Record(y) \in files' <=> Record(y) \in files
      /\ \A c : Image(c) \in files' <=> Image(c) \in files
      /\ Journal' = {r \in Receipts : Intent(Apply(r)) \in files'}
      /\ Unfinished' = {r \in Journal' : Record(Apply(r)) \notin files'}
  <2>1. /\ \A y : Intent(y) \in {Intent(x)} <=> y = x
        /\ \A y : Record(y) \notin {Intent(x)} /\ Image(y) \notin {Intent(x)}
    BY DEF Intent, Record, Image
  <2> QED BY <2>1, StoryReads DEF Writes
<1>2. \A y \in witnessed' : y \in witnessed \/ (y = x /\ config = To(x))
  <2>1. witnessed' = witnessed \union {y \in Intents' : config' = To(y)}
    BY Witnessed DEF Next, Inv, Typed
  <2>2. Intents' \subseteq Intents \union {x}
    BY <1>1 DEF Intents
  <2> QED BY <1>0, <2>1, <2>2 DEF Inv, Noticed
<1>3. Journal \subseteq Journal'
  BY <1>1, JournalIs
<1>4. \A r : Begun(r) => Begun(r)'
  BY <1>1 DEF Begun
<1>5. \A c : Retired(c) => Retired(c)'
  BY <1>3, <1>4 DEF Retired
<1>6. CASE x.op = "rollback"
  <2>1. \A r : Apply(r) # x
    BY <1>6 DEF Apply
  <2>2. Journal' = Journal /\ Unfinished' = Unfinished
    BY <1>1, <2>1, JournalIs, UnfinishedIs
  <2>3. Grounded' /\ Reached' /\ InOrder'
    BY <1>0, <2>2 DEF Story, Grounded, Reached, InOrder
  <2>4. Kept'
    BY <1>1, <1>2, <2>1, <2>2 DEF Story, Kept
  <2>5. Earned'
    <3> SUFFICES ASSUME NEW r \in Receipts, Begun(r)' PROVE Record(Apply(r)) \in files
      BY <1>1 DEF Earned
    <3>1. CASE Begun(r)
      BY <3>1 DEF Story, Earned
    <3>2. CASE Rollback(r) = x
      BY <1>0, <1>6, <3>2, ReceiptType DEF Entitled
    <3> QED BY <1>1, <3>1, <3>2 DEF Begun
  <2>6. Returned'
    BY <1>0, <1>2, <1>5, <2>1, <2>2 DEF Story, Returned
  <2>7. Repeated'
    BY <1>5, <2>2 DEF Story, Repeated
  <2> QED BY <2>3, <2>4, <2>5, <2>6, <2>7 DEF Story
<1>7. CASE x.op = "apply"
  <2> DEFINE new == x.of
  <2>1. new \in Receipts /\ x = Apply(new) /\ new.prior = Original /\ config = Original
        /\ Unfinished \subseteq {new}
    <3>1. new \in Receipts /\ x = Apply(new)
      BY <1>0, <1>7, ExchangeType
    <3>2. new.prior = Original /\ Unfinished \subseteq {new}
      BY <1>0, <1>7 DEF Alone, Committed
    <3> QED BY <1>0, <1>7, <3>1, <3>2 DEF From
  <2>2. \A r : Apply(r) = x => r = new
    BY DEF Apply
  <2>3. Journal' = Journal \union {new} /\ Unfinished' \subseteq {new}
    BY <1>1, <2>1, <2>2, JournalIs, UnfinishedIs
  <2>4. Grounded'
    BY <2>1, <2>3 DEF Story, Grounded
  <2>5. \A r \in Journal' : Activated(r) # Original
    <3> SUFFICES ASSUME NEW r \in Journal' PROVE Activated(r) # Original
      OBVIOUS
    <3>1. r \in Receipts /\ Apply(r) \in Sound
      <4>1. r \in Receipts /\ Intent(Apply(r)) \in files'
        BY <1>1
      <4>2. Apply(r) \in Intents'
        BY <4>1, ReceiptType DEF Intents
      <4> QED BY <4>1, <4>2 DEF Inv, Announced
    <3>2. r.prior = Original
      BY <2>4 DEF Grounded
    <3> QED BY <3>1, <3>2, ActivationChanges
  <2>6. \A r \in Journal' : Apply(r) \in witnessed' => Apply(r) \in witnessed /\ r \in Journal
    <3> SUFFICES ASSUME NEW r \in Journal', Apply(r) \in witnessed'
                 PROVE  Apply(r) \in witnessed /\ r \in Journal
      OBVIOUS
    <3>1. r \in Receipts
      BY <1>1
    <3>2. To(Apply(r)) = Activated(r)
      BY <3>1, ReceiptType DEF To
    <3>3. Apply(r) \in witnessed
      BY <1>2, <2>1, <2>5, <3>2
    <3>4. Intent(Apply(r)) \in files
      BY <3>3, TrueRecords
    <3> QED BY <3>1, <3>3, <3>4, JournalIs
  <2>7. Reached' /\ InOrder'
    BY <1>0, <2>1, <2>3 DEF Reached, InOrder
  <2>8. Kept'
    BY <1>1, <2>6 DEF Story, Kept
  <2>9. Earned'
    <3>1. \A r : Rollback(r) # x
      BY <1>7 DEF Rollback
    <3> QED BY <1>1, <3>1 DEF Story, Earned, Begun
  <2>10. Returned'
    BY <1>0, <1>5, <2>6 DEF Story, Returned
  <2>11. ASSUME NEW r \in Journal, r # new, Activated(r) = Activated(new)
         PROVE  Retired(Activated(r))
    <3>1. Record(Apply(r)) \in files
      BY <2>1, <2>11, UnfinishedIs
    <3>2. Apply(r) \in witnessed
      BY <3>1, TrueRecords
    <3> QED BY <2>1, <2>3, <2>5, <3>2 DEF Story, Returned
  <2>12. Repeated'
    <3> SUFFICES ASSUME NEW r \in Journal', NEW s \in Journal', r # s, Activated(r) = Activated(s)
                 PROVE  Retired(Activated(r))
      BY <1>5 DEF Repeated
    <3>1. CASE r \in Journal /\ s \in Journal
      BY <3>1 DEF Story, Repeated
    <3>2. CASE r = new
      BY <2>3, <2>11, <3>2
    <3>3. CASE s = new
      BY <2>3, <2>11, <3>3
    <3> QED BY <2>3, <3>1, <3>2, <3>3
  <2> QED BY <2>4, <2>7, <2>8, <2>9, <2>10, <2>12 DEF Story
<1> QED BY <1>0, <1>6, <1>7, ExchangeType

(* An exchange takes place between the first configuration and what an       *)
(* activation puts in its place.                                             *)
LEMMA ExchangedStory ==
  ASSUME Inv, Inv', Next, Undamaged, Undamaged', Story, Switch!RecordIsTrue,
         NEW p \in Procs, Replace(p), Entitled(p), Alone(p),
         Lasting' = Lasting, config' = To(exchange[p])
  PROVE  Story'
<1> DEFINE x == exchange[p]
<1>0. /\ x \in Intents /\ x \in Exchanges /\ x # None /\ config = From(x)
      /\ Image(x.of.prior) \in files /\ pc[p] = "replace"
  <2>1. pc[p] = "replace"
    BY DEF Replace
  <2>2. x \in Intents /\ x \in Sound
    BY <2>1 DEF Inv, Local, Intending, Pending, Told, Committed
  <2>3. config = From(x) /\ Image(x.of.prior) \in files
    BY <2>1 DEF Inv, Local, Undisturbed, Keeping, Pending, Committed, Undamaged
  <2> QED BY <2>1, <2>2, <2>3, NoneAssumption DEF Sound
<1>1. /\ \A y : Intent(y) \in files' <=> Intent(y) \in files
      /\ \A y : Record(y) \in files' <=> Record(y) \in files
      /\ \A c : Image(c) \in files' <=> Image(c) \in files
      /\ Journal' = Journal /\ Unfinished' = Unfinished
  BY QuietReads
<1>2. \A r \in Journal : r \in Receipts /\ r.prior = Original /\ Activated(r) # Original
  <2> SUFFICES ASSUME NEW r \in Journal
               PROVE  r \in Receipts /\ r.prior = Original /\ Activated(r) # Original
    OBVIOUS
  <2>1. r \in Receipts /\ Apply(r) \in Sound
    BY JournalIsAnnounced DEF Inv, Typed, Announced
  <2>2. r.prior = Original
    BY DEF Story, Grounded
  <2> QED BY <2>1, <2>2, ActivationChanges
<1>3. \A r \in Journal : Apply(r) \in witnessed' => Apply(r) \in witnessed \/ Activated(r) = To(x)
  <2>1. witnessed' = witnessed \union {y \in Intents' : config' = To(y)}
    BY Witnessed DEF Next, Inv, Typed
  <2>2. \A r \in Journal : To(Apply(r)) = Activated(r)
    BY <1>2, ReceiptType DEF To
  <2> QED BY <2>1, <2>2
<1>4. \A r : Begun(r)' <=> Begun(r)
  BY <1>1 DEF Begun
<1>5. \A c : Retired(c)' <=> Retired(c)
  BY <1>1, <1>4 DEF Retired
<1>6. Grounded' /\ Earned' /\ Repeated'
  <2>1. Grounded' /\ Earned'
    BY <1>1, <1>4 DEF Story, Grounded, Earned
  <2>2. Repeated'
    BY <1>1, <1>5 DEF Story, Repeated
  <2> QED BY <2>1, <2>2
<1>7. ASSUME NEW r \in Journal, x.of = r PROVE Kept'
  BY <1>0, <1>1, <1>2, <1>7 DEF Kept
<1>8. CASE x.op = "apply"
  <2> DEFINE new == x.of
  <2>1. new \in Journal /\ To(x) = Activated(new) /\ From(x) = new.prior
    BY <1>0, <1>8, JournalIsAnnounced DEF To, From, Inv, Typed
  <2>2. Unfinished \subseteq {new}
    BY <1>0, <1>8 DEF Alone, Committed
  <2>3. config = Original
    BY <1>0, <1>2, <2>1
  <2>4. Reached' /\ InOrder'
    BY <1>1, <2>1, <2>2 DEF Reached, InOrder
  <2>5. Returned'
    <3> SUFFICES ASSUME NEW r \in Journal, Apply(r) \in witnessed'
                 PROVE  config' = Activated(r) \/ Retired(Activated(r))
      BY <1>1, <1>5 DEF Returned
    <3>1. CASE Apply(r) \in witnessed
      BY <1>2, <2>3, <3>1 DEF Story, Returned
    <3> QED BY <1>3, <3>1
  <2> QED BY <1>6, <1>7, <2>1, <2>4, <2>5 DEF Story
<1>9. CASE x.op = "rollback"
  <2> DEFINE old == x.of
  <2>1. old \in Receipts /\ x = Rollback(old) /\ To(x) = old.prior /\ From(x) = Activated(old)
    BY <1>0, <1>9, ExchangeType DEF To, From
  <2>2. old \in Journal
    <3>1. Record(Apply(old)) \in files
      BY <1>0, <1>9 DEF Entitled
    <3>2. Intent(Apply(old)) \in files
      BY <3>1, TrueRecords
    <3> QED BY <2>1, <3>2, JournalIs
  <2>3. Begun(old)
    BY <1>0, <2>1 DEF Begun, Intents
  <2>4. To(x) = Original
    BY <1>2, <2>1, <2>2
  <2>5. Reached' /\ InOrder'
    BY <2>4 DEF Reached, InOrder
  <2>6. Returned'
    <3> SUFFICES ASSUME NEW r \in Journal, Apply(r) \in witnessed' PROVE Retired(Activated(r))
      BY <1>1, <1>5 DEF Returned
    <3>1. Apply(r) \in witnessed
      BY <1>2, <1>3, <2>4
    <3>2. CASE config = Activated(r)
      BY <1>0, <2>1, <2>2, <2>3, <3>2 DEF Retired
    <3> QED BY <3>1, <3>2 DEF Story, Returned
  <2> QED BY <1>6, <1>7, <2>2, <2>5, <2>6 DEF Story
<1> QED BY <1>0, <1>8, <1>9, ExchangeType

-----------------------------------------------------------------------------
(* What an invocation is entitled to *)

LEMMA RecordsStay ==
  ASSUME [Next]_vars, Inv, NEW y, Record(y) \in files
  PROVE  Record(y) \in files'
<1>1. ASSUME Quietly PROVE Record(y) \in files'
  <2>1. Record(y) \in Lasting'
    BY <1>1, LastingArtifacts DEF Quietly
  <2> QED BY <2>1 DEF Lasting
<1>2. ASSUME UNCHANGED disk PROVE Record(y) \in files'
  BY <1>2 DEF disk
<1>3. ASSUME NEW p \in Procs, Command(p) \/ Acquire(p) \/ Busy(p) \/ Looking(p)
      PROVE  UNCHANGED disk
  BY <1>3, CommandShape, AcquireShape, LookingShape DEF Busy
<1>4. ASSUME NEW p \in Procs, Acting(p) PROVE Record(y) \in files'
  <2>1. Lasting \subseteq Lasting'
    BY <1>4, ActingWrites DEF Quietly, Writes
  <2>2. Record(y) \in Lasting'
    BY <2>1, LastingArtifacts
  <2> QED BY <2>2 DEF Lasting
<1>5. ASSUME NEW p \in Procs, DieRunning(p) PROVE Record(y) \in files'
  BY <1>5 DEF DieRunning, Record
<1>6. CASE Edit \/ (\E w \in Writers : Administer(w)) \/ UNCHANGED vars
  <2>1. UNCHANGED files
    BY <1>6 DEF Edit, Administer, vars, disk
  <2> QED BY <2>1
<1> QED
  BY <1>2, <1>3, <1>4, <1>5, <1>6, StepIs DEF Next, Command

(* Whoever has only been looking on keeps what it is entitled to. *)
LEMMA BystanderEntitled ==
  ASSUME Inv, [Next]_vars, NEW q \in Procs, Same(q), Entitled(q)
  PROVE  Entitled(q)'
BY RecordsStay DEF Same, Entitled

LEMMA BystanderAlone ==
  ASSUME Inv, NEW q \in Procs, Same(q), Alone(q),
         pc[q] \in {"idle", "lock"} \/ Unfinished' \subseteq Unfinished
  PROVE  Alone(q)'
BY DEF Same, Alone, Committed

LEMMA QuietUnfinished ==
  ASSUME Inv, Inv', Undamaged, Undamaged', Quietly
  PROVE  Unfinished' = Unfinished
BY QuietReads DEF Quietly

(* The scan leads to a new activation only from the first configuration. *)
LEMMA LookingEntitled ==
  ASSUME Inv, Inv', [Next]_vars, Undamaged, Undamaged', Story,
         NEW p \in Procs, Looking(p), LeadsOn(p), Entitled(p)
  PROVE  Entitled(p)' /\ Alone(p)'
<1> USE DEF Inv
<1>1. ASSUME NEW a, End(p, a) \/ Refuse(p) PROVE FALSE
  <2>1. pc'[p] = "idle"
    BY <1>1, ForgetFrame DEF Refuse, End
  <2> QED BY <2>1 DEF LeadsOn, Committed
<1>2. CASE ScanCompleted(p) \/ ScanRefused(p) \/ ExamineRestored(p)
  BY <1>1, <1>2 DEF ScanCompleted, ScanRefused, ExamineRestored
<1>3. CASE ScanUnrecorded(p)
  <2>1. PICK r \in Unrecorded(seen[p]) : exchange' = [exchange EXCEPT ![p] = Apply(r)]
    BY <1>3 DEF ScanUnrecorded
  <2>2. exchange'[p].op = "apply" /\ pc'[p] = "record"
    BY <1>3, <2>1 DEF ScanUnrecorded, Typed, Goto, Apply
  <2> QED BY <2>2 DEF Entitled, Alone
<1>4. CASE Derive(p)
  <2> DEFINE r == command[p]
  <2>1. /\ Derivable(p) /\ exchange' = [exchange EXCEPT ![p] = Apply(r)] /\ Goto(p, "intent")
        /\ ~Stops(seen[p]) /\ pc[p] = "scan"
    BY <1>1, <1>4 DEF Derive
  <2>2. /\ pc'[p] = "intent" /\ exchange'[p] = Apply(r) /\ Apply(r).op = "apply"
        /\ Apply(r).of = r
    BY <2>1 DEF Typed, Goto, Apply
  <2>3. r.prior = config /\ config = seen[p]
    BY <2>1 DEF Derivable, Receipt
  <2>4. config = Original
    <3>1. ASSUME NEW s \in Journal, config = Activated(s) PROVE FALSE
      <4>1. s \in Completed(config) \/ s \in Unrecorded(config)
        BY <3>1 DEF Completed, Unrecorded, Unfinished
      <4> QED BY <2>1, <2>3, <4>1 DEF Stops
    <3> QED BY <3>1 DEF Story, Reached
  <2>5. Unfinished' \subseteq {r}
    BY <2>2 DEF Local, Sole
  <2> HIDE DEF r
  <2> QED BY <2>2, <2>3, <2>4, <2>5 DEF Entitled, Alone
<1>5. CASE ExamineUnrecorded(p) \/ Examine(p)
  <2>1. exchange'[p] = exchange[p] /\ exchange[p].op = "rollback"
    BY <1>1, <1>5 DEF ExamineUnrecorded, Examine, Local, Told
  <2> QED BY <2>1, RecordsStay DEF Entitled, Alone
<1> QED BY <1>2, <1>3, <1>4, <1>5 DEF Looking

LEMMA ActingEntitled ==
  ASSUME Inv, Inv', [Next]_vars, Undamaged, Undamaged',
         NEW p \in Procs, Acting(p), LeadsOn(p), Entitled(p), Alone(p)
  PROVE  Entitled(p)' /\ Alone(p)'
<1> DEFINE x == exchange[p]
<1>1. exchange'[p] = x /\ pc[p] \in Committed
  <2>1. ~Ends(p)
    BY ForgetFrame DEF Ends, LeadsOn, Committed, Inv
  <2> QED BY <2>1, ActingShape
<1>2. Entitled(p)'
  BY <1>1, RecordsStay DEF Entitled
<1>3. pc[p] # "record"
  <2>1. ASSUME NEW a, End(p, a) \/ Refuse(p) PROVE FALSE
    BY <2>1, ForgetFrame DEF Refuse, End, LeadsOn, Committed, Inv
  <2>2. ~PublishRecord(p)
    BY <2>1 DEF PublishRecord
  <2> QED
    BY <2>2 DEF Acting, PublishIntent, PublishImage, Stage, Compare, Recheck, Replace
<1>4. ASSUME NEW S, Lasting' = Lasting \union S, \A y : Intent(y) \in S => y = x
      PROVE  Unfinished' \subseteq Unfinished \union (IF x.op = "apply" THEN {x.of} ELSE {})
  <2>1. /\ \A y : Intent(y) \in files' => Intent(y) \in files \/ y = x
        /\ \A y : Record(y) \in files => Record(y) \in files'
        /\ Journal' = {r \in Receipts : Intent(Apply(r)) \in files'}
        /\ Unfinished' = {r \in Journal' : Record(Apply(r)) \notin files'}
    BY <1>4, StoryReads
  <2>2. \A r : Apply(r) = x => x.op = "apply" /\ r = x.of
    BY DEF Apply
  <2> QED BY <2>1, <2>2, JournalIs, UnfinishedIs
<1>5. Unfinished' \subseteq Unfinished \union (IF x.op = "apply" THEN {x.of} ELSE {})
  <2>1. CASE Lasting' = Lasting
    BY <2>1, QuietReads
  <2>2. ASSUME NEW a, Lasting' = Lasting \union {a}, \A y : a = Intent(y) => y = x
        PROVE  Unfinished' \subseteq Unfinished \union (IF x.op = "apply" THEN {x.of} ELSE {})
    BY <1>4, <2>2
  <2>3. /\ \A y : Intent(x) = Intent(y) => y = x
        /\ \A y : Image(seen[p]) # Intent(y) /\ Record(x) # Intent(y)
    BY DEF Intent, Image, Record
  <2> QED BY <2>1, <2>2, <2>3, ActingWrites DEF Quietly, Writes
<1>6. Alone(p)'
  BY <1>1, <1>3, <1>5 DEF Alone
<1> QED BY <1>2, <1>6

LEMMA EntitledStep ==
  ASSUME Inv, Inv', [Next]_vars, Undamaged', StoryInv, NEW q \in Procs
  PROVE  Entitled(q)' /\ Alone(q)'
<1>0. Undamaged /\ ~Edit
  BY UndamagedBefore
<1>1. Story /\ \A p \in Procs : Entitled(p) /\ Alone(p)
  BY <1>0 DEF StoryInv
<1>2. ASSUME NEW p \in Procs, pc[p] \in Inside, q # p, Same(q) PROVE Entitled(q)' /\ Alone(q)'
  <2>1. pc[q] \in {"idle", "lock"}
    BY <1>2 DEF Inv, Exclusive, Typed, Inside
  <2> QED BY <1>1, <1>2, <2>1, BystanderEntitled, BystanderAlone
<1>3. ASSUME Same(q), Quietly PROVE Entitled(q)' /\ Alone(q)'
  BY <1>0, <1>1, <1>3, BystanderEntitled, BystanderAlone, QuietUnfinished
<1>4. ASSUME UNCHANGED disk PROVE Quietly
  BY <1>4 DEF disk, Quietly, Lasting
<1>5. ASSUME NEW p \in Procs, Ends(p), Quietly \/ pc[p] \in Inside PROVE Entitled(q)' /\ Alone(q)'
  <2>1. pc'[p] = "idle" /\ exchange'[p] = None /\ \A r \in Procs \ {p} : Same(r)
    BY <1>5, ForgetFrame DEF Ends, Inv
  <2>2. CASE q = p
    BY <2>1, <2>2 DEF Entitled, Alone, Committed
  <2>3. CASE q # p
    BY <1>2, <1>3, <1>5, <2>1, <2>3
  <2> QED BY <2>2, <2>3
<1>6. ASSUME NEW p \in Procs, Command(p) PROVE Entitled(q)' /\ Alone(q)'
  <2>1. Quietly /\ pc'[p] \in {"idle", "lock"} /\ \A r \in Procs \ {p} : Same(r)
    BY <1>4, <1>6, CommandShape
  <2>2. CASE q = p
    <3>1. Alone(q)'
      BY <2>1, <2>2 DEF Alone, Committed
    <3>2. CASE Preview(p) \/ Prepare(p)
      <4>1. exchange'[p] = exchange[p]
        BY <3>2 DEF Preview, Prepare
      <4> QED BY <1>1, <2>2, <3>1, <4>1, RecordsStay DEF Entitled
    <3>3. CASE StartRollback(p)
      <4>1. PICK r \in Journal :
              Record(Apply(r)) \in files /\ exchange' = [exchange EXCEPT ![p] = Rollback(r)]
        BY <3>3 DEF StartRollback
      <4>2. exchange'[p] = Rollback(r) /\ Rollback(r).of = r
        BY <4>1 DEF Inv, Typed, Rollback
      <4> QED BY <2>2, <3>1, <4>1, <4>2, RecordsStay DEF Entitled
    <3> QED BY <1>6, <3>2, <3>3 DEF Command
  <2>3. CASE q # p
    BY <1>3, <2>1, <2>3
  <2> QED BY <2>2, <2>3
<1>7. ASSUME NEW p \in Procs, Acquire(p) PROVE Entitled(q)' /\ Alone(q)'
  <2>1. /\ Quietly /\ \A r \in Procs \ {p} : Same(r)
        /\ pc'[p] \in {"scan", "examine"} /\ exchange'[p] = exchange[p]
    BY <1>4, <1>7, AcquireShape
  <2>2. CASE q = p
    BY <1>1, <2>1, <2>2, RecordsStay DEF Entitled, Alone, Committed
  <2>3. CASE q # p
    BY <1>3, <2>1, <2>3
  <2> QED BY <2>2, <2>3
<1>8. ASSUME NEW p \in Procs, Busy(p) PROVE Entitled(q)' /\ Alone(q)'
  BY <1>4, <1>5, <1>8 DEF Busy, Refuse, End, Ends, budget
<1>9. ASSUME NEW p \in Procs, Looking(p) PROVE Entitled(q)' /\ Alone(q)'
  <2>1. pc[p] \in Inside /\ (Ends(p) \/ LeadsOn(p))
    BY <1>9, LookingShape DEF Inside, Positions
  <2>2. CASE LeadsOn(p)
    BY <1>0, <1>1, <1>2, <1>9, <2>1, <2>2, LookingEntitled DEF LeadsOn
  <2> QED BY <1>5, <2>1, <2>2
<1>10. ASSUME NEW p \in Procs, Acting(p) PROVE Entitled(q)' /\ Alone(q)'
  <2>1. pc[p] \in Inside /\ (Ends(p) \/ LeadsOn(p))
    BY <1>10, ActingShape DEF Inside, Positions, Committed
  <2>2. CASE LeadsOn(p)
    BY <1>0, <1>1, <1>2, <1>10, <2>1, <2>2, ActingEntitled DEF LeadsOn
  <2> QED BY <1>5, <2>1, <2>2
<1>11. ASSUME NEW p \in Procs, DieRunning(p) PROVE Entitled(q)' /\ Alone(q)'
  BY <1>5, <1>11, DyingQuietly DEF DieRunning, Ends
<1>12. CASE (\E w \in Writers : Administer(w)) \/ UNCHANGED vars
  <2>1. Same(q) /\ UNCHANGED disk
    BY <1>12 DEF Administer, vars, local, Same
  <2> QED BY <1>3, <1>4, <2>1
<1> QED
  BY <1>0, <1>6, <1>7, <1>8, <1>9, <1>10, <1>11, <1>12, StepIs DEF Next, Command

LEMMA StoryStep ==
  ASSUME Inv, Inv', [Next]_vars, Switch!RecordIsTrue, Undamaged', StoryInv
  PROVE  Story'
<1>0. Undamaged /\ ~Edit
  BY UndamagedBefore
<1>1. Story /\ \A p \in Procs : Entitled(p) /\ Alone(p)
  BY <1>0 DEF StoryInv
<1>2. ASSUME NEW S, Lasting' = Lasting \union S, UNCHANGED config, \A x : Intent(x) \notin S
      PROVE  Story'
  BY <1>0, <1>1, <1>2, UneventfulStory
<1>3. ASSUME Quietly PROVE Story'
  <2>1. Lasting' = Lasting \union {}
    BY <1>3 DEF Quietly
  <2>2. \A x : Intent(x) \notin {}
    OBVIOUS
  <2> QED BY <1>2, <1>3, <2>1, <2>2 DEF Quietly
<1>4. ASSUME NEW a, Writes(a), \A x : Intent(x) # a PROVE Story'
  <2>1. \A x : Intent(x) \notin {a}
    BY <1>4
  <2> QED BY <1>2, <1>4, <2>1 DEF Writes
<1>5. ASSUME UNCHANGED disk PROVE Story'
  BY <1>3, <1>5 DEF disk, Quietly, Lasting
<1>6. ASSUME NEW p \in Procs, Command(p) \/ Acquire(p) \/ Busy(p) \/ Looking(p) PROVE Story'
  BY <1>5, <1>6, CommandShape, AcquireShape, LookingShape DEF Busy
<1>7. ASSUME NEW p \in Procs, Acting(p), Next PROVE Story'
  <2>1. CASE PublishIntent(p) /\ Writes(Intent(exchange[p]))
    BY <1>0, <1>1, <1>7, <2>1, AnnouncedStory
  <2>2. CASE Replace(p) /\ Lasting' = Lasting /\ config' = To(exchange[p])
    BY <1>0, <1>1, <1>7, <2>2, ExchangedStory
  <2>3. \A x : Intent(x) # Image(seen[p]) /\ Intent(x) # Record(exchange[p])
    BY DEF Intent, Image, Record
  <2> QED BY <1>3, <1>4, <1>7, <2>1, <2>2, <2>3, ActingWrites
<1>8. ASSUME NEW p \in Procs, DieRunning(p) PROVE Story'
  BY <1>3, <1>8, DyingQuietly
<1>9. CASE (\E w \in Writers : Administer(w)) \/ UNCHANGED vars
  BY <1>5, <1>9 DEF Administer, vars
<1> QED BY <1>0, <1>6, <1>7, <1>8, <1>9, StepIs DEF Next, Command

LEMMA StoryInit == Init => StoryInv
<1> SUFFICES ASSUME Init PROVE StoryInv
  OBVIOUS
<1>1. Journal = {} /\ Unfinished = {} /\ config = Original
  BY DEF Init, Journal, Unfinished
<1>2. \A r : ~Begun(r)
  BY DEF Init, Begun
<1>3. Story
  BY <1>1, <1>2 DEF Story, Grounded, Reached, Kept, InOrder, Earned, Returned, Repeated
<1>4. \A p \in Procs : Entitled(p) /\ Alone(p)
  BY DEF Init, Entitled, Alone, Committed
<1> QED BY <1>3, <1>4 DEF StoryInv

LEMMA StoryAlways == Spec => []StoryInv
<1>1. StoryInv /\ Switch!RecordIsTrue /\ Inv /\ Inv' /\ [Next]_vars => StoryInv'
  BY StoryStep, EntitledStep DEF StoryInv
<1> QED BY <1>1, StoryInit, InvAlways, RecordsAreTrue, PTL DEF Spec

-----------------------------------------------------------------------------
(* The status *)

(* No artifact is out of the order in which the executor writes. *)
LEMMA NoProblems ==
  ASSUME Inv, Undamaged, Story, Switch!RecordIsTrue
  PROVE  ~Problems
<1>1. \A a \in torn : a.kind = "staged"
  BY DEF Undamaged
<1>2. ASSUME NEW a \in files, a.kind = "record" PROVE a.of \in Exchanges /\ a = Record(a.of)
  BY <1>2, ArtifactForm DEF Inv, Typed
<1>3. ASSUME NEW a \in files, a.kind = "record" PROVE Intent(a.of) \in files
  BY <1>2, <1>3, TrueRecords
<1>4. ASSUME NEW r \in Journal, Finished(r) \/ config = Activated(r) PROVE Image(r.prior) \in files
  <2>1. r \in Receipts /\ Apply(r) \in Intents /\ To(Apply(r)) = Activated(r)
    BY JournalIsAnnounced, ReceiptType DEF Inv, Typed, To
  <2>2. CASE Finished(r)
    <3>1. Record(Apply(r)) \in files
      BY <1>1, <2>2 DEF Finished, Present, Record
    <3> QED BY <3>1, TrueRecords DEF Story, Kept, Grounded
  <2>3. CASE config = Activated(r)
    BY <2>1, <2>3 DEF Inv, Noticed, Story, Kept, Grounded
  <2> QED BY <1>4, <2>2, <2>3
<1>5. ASSUME NEW a \in files, a.kind \in {"intent", "record"}, a.of.op = "rollback"
      PROVE  Record(Apply(a.of.of)) \in files
  <2>1. a.of \in Exchanges /\ Intent(a.of) \in files
    BY <1>2, <1>3, <1>5, ArtifactForm DEF Inv, Typed
  <2>2. a.of.of \in Receipts /\ a.of = Rollback(a.of.of)
    BY <1>5, <2>1, ExchangeType
  <2> QED BY <2>1, <2>2 DEF Story, Earned, Begun
<1> QED BY <1>1, <1>3, <1>4, <1>5 DEF Problems

LEMMA AtMostOne ==
  ASSUME NEW S, \A x, y \in S : x = y
  PROVE  Cardinality(S) \in {0, 1}
<1>1. CASE S = {}
  BY <1>1, FS_EmptySet
<1>2. ASSUME NEW x \in S PROVE Cardinality(S) = 1
  <2>1. S = {x}
    BY <1>2
  <2> QED BY <2>1, FS_Singleton
<1> QED BY <1>1, <1>2

LEMMA OneUnfinished ==
  ASSUME Inv, Switch!OneOpen, Undamaged
  PROVE  \A r, s \in Unfinished : r = s
<1> SUFFICES ASSUME NEW r \in Unfinished, NEW s \in Unfinished PROVE r = s
  OBVIOUS
<1>1. ASSUME NEW t \in Unfinished PROVE Apply(t) \in Switch!Open
  <2>1. t \in Receipts /\ Apply(t) \in Intents
    BY JournalIsAnnounced DEF Inv, Typed, Unfinished
  <2>2. Apply(t) \in Announcements /\ Apply(t) \in Exchanges /\ Apply(t).op = "apply"
    BY <2>1, AnnouncementsAreIntents, ReceiptType
  <2>3. Apply(t) \notin Records
    <3> SUFFICES ASSUME NEW a \in files \union torn, a.kind = "record", a.of = Apply(t)
                 PROVE  FALSE
      BY DEF Records, Artifact
    <3>1. a = Record(Apply(t))
      BY ArtifactForm DEF Inv, Typed
    <3> QED BY <3>1 DEF Unfinished, Finished, Present
  <2> QED BY <2>2, <2>3 DEF Switch!Open, Announcements, Records
<1>2. Apply(r) = Apply(s)
  BY <1>1 DEF Switch!OneOpen
<1> QED BY <1>2 DEF Apply

(* The configuration that a classification finds, when all is recorded. *)
LEMMA StatusHolds ==
  ASSUME Inv, StoryInv, Switch!RecordIsTrue, Switch!OneOpen
  PROVE  StatusIsTrue
<1> SUFFICES ASSUME lock = None, edits = 0, {a \in torn : a.kind # "staged"} = {}
             PROVE  /\ Status # "CORRUPT_OR_UNVERIFIABLE"
                    /\ Status = "CONFIG_DIVERGED" => \E r \in Active : TakenBack(r)
                    /\ Status = "AMBIGUOUS_HISTORY" => \E r \in Active : Intent(Rollback(r)) \in files
                    /\ Status = "NO_HISTORY" => config = Original
  BY DEF StatusIsTrue
<1>1. Undamaged /\ Story
  BY DEF Undamaged, StoryInv
<1>2. ~Problems
  BY <1>1, NoProblems
<1>3. ~(Cardinality(Unfinished) > 1)
  BY <1>1, OneUnfinished, AtMostOne
<1>4. Unfinished # {} => Unrecorded(config) # {} \/ Resumable(config) # {}
  <2> SUFFICES ASSUME NEW r \in Unfinished PROVE r \in Unrecorded(config) \/ r \in Resumable(config)
    OBVIOUS
  <2>1. config = Activated(r) \/ config = r.prior
    BY <1>1 DEF Story, InOrder, Grounded, Unfinished
  <2> QED BY <2>1 DEF Unrecorded, Resumable
<1>5. Unfinished = {} => History = Journal
  BY DEF History, Unfinished
<1>6. ASSUME Unfinished = {}, Cardinality(Provable) > 1
      PROVE  \E r \in Active : Intent(Rollback(r)) \in files
  <2>1. ~(Cardinality(Provable) \in {0, 1})
    BY <1>6
  <2>2. PICK r, s \in Provable : r # s
    BY <2>1, AtMostOne
  <2>3. /\ r \in Journal /\ s \in Journal /\ config = Activated(r) /\ config = Activated(s)
    BY <2>2 DEF Provable, Active, History
  <2>4. Retired(config)
    BY <1>1, <2>2, <2>3 DEF Story, Repeated
  <2> QED BY <1>5, <1>6, <2>4 DEF Retired, Begun, Active
<1>7. ASSUME Unfinished = {}, Active = {} PROVE config = Original
  BY <1>1, <1>5, <1>7 DEF Story, Reached, Active
<1>8. ASSUME Unfinished = {}, Active = {}, History # {}
      PROVE  \E r \in Prior : BeingTakenBack(r) \/ TakenBack(r)
  <2>1. PICK r \in Journal : Finished(r)
    BY <1>8 DEF History
  <2>2. Apply(r) \in witnessed
    <3>1. Record(Apply(r)) \in files
      BY <1>1, <2>1 DEF Undamaged, Finished, Present, Record
    <3> QED BY <3>1, TrueRecords
  <2>3. config # Activated(r)
    BY <1>5, <1>8 DEF Active
  <2>4. PICK s \in Journal : Begun(s)
    BY <1>1, <2>2, <2>3 DEF Story, Returned, Retired
  <2>5. s \in Prior
    BY <1>1, <1>5, <1>7, <1>8 DEF Prior, Story, Grounded
  <2> QED BY <2>4, <2>5 DEF BeingTakenBack, Begun
<1>9. Provable = {} => \A r \in Active : TakenBack(r)
  BY DEF Provable
<1>10. Status # "CORRUPT_OR_UNVERIFIABLE"
  BY <1>2 DEF Status
<1>11. ASSUME Status = "CONFIG_DIVERGED" PROVE \E r \in Active : TakenBack(r)
  <2>1. /\ Unrecorded(config) = {} /\ Resumable(config) = {} /\ Provable = {}
        /\ Active # {} \/ (History # {} /\ ~\E r \in Prior : BeingTakenBack(r) \/ TakenBack(r))
    BY <1>2, <1>3, <1>4, <1>11 DEF Status
  <2>2. Unfinished = {}
    BY <1>4, <2>1
  <2> QED BY <1>8, <1>9, <2>1, <2>2
<1>12. ASSUME Status = "AMBIGUOUS_HISTORY" PROVE \E r \in Active : Intent(Rollback(r)) \in files
  <2>1. Unfinished = {} /\ Cardinality(Provable) > 1
    BY <1>2, <1>3, <1>12 DEF Status
  <2> QED BY <1>6, <2>1
<1>13. ASSUME Status = "NO_HISTORY" PROVE config = Original
  <2>1. Unfinished = {} /\ Provable = {} /\ Active = {}
    BY <1>2, <1>3, <1>13 DEF Status
  <2> QED BY <1>7, <2>1
<1> QED BY <1>10, <1>11, <1>12, <1>13

(* The status that the owner reads is true of the configuration, with any   *)
(* number of invocations, releases, deaths and rollbacks: no damage is       *)
(* reported where there is none, a divergence or an ambiguity only where an  *)
(* activation was taken back and the same bytes applied again, and no        *)
(* history only before the first activation (_scan_store, _classify).        *)
THEOREM StatusAlwaysTrue == Spec => []StatusIsTrue
BY StatusHolds, StoryAlways, InvAlways, RecordsAreTrue, OneActivationOpen, PTL
=============================================================================
