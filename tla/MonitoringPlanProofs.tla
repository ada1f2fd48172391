------------------------ MODULE MonitoringPlanProofs ------------------------
(***************************************************************************)
(* What holds of MonitoringPlan for every watchlist, number of days and    *)
(* filings, window, limit and as_of of a replay.                           *)
(***************************************************************************)
EXTENDS MonitoringPlan, WellFoundedInduction, TLAPS

(* The committed state of the listing of an event holds the event. *)
KnownNow(e) ==
  /\ ListingOf(e) \in DOMAIN entries
  /\ \E version \in {1, 2} : <<e, version>> \in entries[ListingOf(e)].processed

(* The cursor of its listing stands at or past an event. *)
PassedBy(e) ==
  /\ ListingOf(e) \in DOMAIN entries
  /\ Date(e) <= entries[ListingOf(e)].cursor

Types ==
  /\ TypeOK
  /\ scope \in Scopes

(* A listing without an entry to lose has lost one per edit at most. *)
Dropping ==
  \A l \in Listings :
    dropped[l] + (IF l \in DOMAIN entries /\ watch[l] = "absent" THEN 1 ELSE 0) <= edits

(* Every decision is remembered in the entry of the listing, or was dropped. *)
Remembered ==
  \A e \in Events :
    /\ decided[e] <= dropped[ListingOf(e)] + (IF KnownNow(e) THEN 1 ELSE 0)
    /\ KnownNow(e) => decided[e] > 0

(* The days up to a cursor are over, or a plan took them for over. *)
CursorsPast ==
  \A l \in DOMAIN entries :
    \A d \in 1..entries[l].cursor : 2 * d <= now \/ d \in premature

(* The runner takes no day for over too early, and covers days that are over. *)
DaysPast ==
  /\ Rolling => premature = {}
  /\ \A d \in covered : 2 * d <= now

(* What a cursor of the runner passed is remembered, or lies before every    *)
(* later window; what one of the operator passed is decided, or excused.     *)
Overtaken ==
  \A e \in Events :
    Timely(e) /\ PassedBy(e) =>
      (Rolling /\ (KnownNow(e) \/ Date(e) < RollingStart(ran))) \/ Excused(e)

(* The runner is never more than two half days behind. *)
Scheduled == Rolling => now <= ran + 2

(* Windows of two days or more leave no gap between the runner's cycles. *)
Covering ==
  Rolling /\ Window >= 2 =>
    \A d \in Nat \ {0} :
      2 * d <= ran \/ (staged # None /\ 2 * d <= staged.at) => d \in covered

(* What the runner's cycles have covered is decided, spoiled or in the batch. *)
Owing ==
  Rolling =>
    \A e \in Events :
      Timely(e) /\ Date(e) \in covered =>
        decided[e] > 0 \/ e \in spoiled \/ (staged # None /\ e \in Batch)

(* The batch in flight, or the batch file. *)
BatchShape ==
  staged # None =>
    /\ Rolling => ran < staged.at
    /\ \A e \in Batch :
         /\ e \in Listed
         /\ staged.batch[e] \in {1, 2}
         /\ Rolling => /\ ListingOf(e) \in Enabled
                       /\ Date(e) >= RollingStart(staged.at)
                       /\ 2 * Date(e) <= staged.at

(* It has everything of its listings from the start of the window up to any  *)
(* event that it holds, as far as the days were over when it was acquired.   *)
BatchComplete ==
  staged # None =>
    \A e \in Events, f \in Batch :
      /\ Timely(e) /\ ListingOf(e) = ListingOf(f)
      /\ Date(e) <= Date(f) /\ 2 * Date(e) <= staged.at
      /\ Rolling => Date(e) >= RollingStart(staged.at)
      => e \in Batch \/ Excused(e)

StaleLate == \A e \in stale : e \in Listed /\ (Timely(e) => Excused(e))

Sound ==
  /\ Types /\ Dropping /\ Remembered /\ CursorsPast /\ DaysPast /\ Overtaken
  /\ Scheduled /\ Covering /\ Owing /\ BatchShape /\ BatchComplete /\ StaleLate

-----------------------------------------------------------------------------
(* Dates and windows *)

LEMMA DateArithmetic ==
  ASSUME NEW t \in Nat
  PROVE  /\ UtcDate(t) \in Nat /\ 2 * UtcDate(t) <= t + 1 /\ t <= 2 * UtcDate(t)
         /\ BeijingDate(t) \in Nat /\ 2 * BeijingDate(t) <= t + 2
         /\ t + 1 <= 2 * BeijingDate(t)
BY DEF UtcDate, BeijingDate

LEMMA WindowType == ASSUME scope \in Scopes PROVE Window \in Nat \ {0}
BY ScopesAssumption DEF Window

LEMMA RollingStartType ==
  ASSUME scope \in Scopes, NEW t \in Nat
  PROVE  /\ RollingStart(t) \in Nat
         /\ RollingStart(t) = 1 \/ RollingStart(t) = UtcDate(t) - Window + 1
<1>1. UtcDate(t) \in Nat /\ Window \in Nat
  BY DateArithmetic, WindowType
<1>2. CASE UtcDate(t) < Window
  BY <1>2 DEF RollingStart
<1>3. CASE ~(UtcDate(t) < Window)
  BY <1>1, <1>3 DEF RollingStart
<1> QED BY <1>2, <1>3

LEMMA RollingStartMonotone ==
  ASSUME scope \in Scopes, NEW s \in Nat, NEW t \in Nat, s <= t
  PROVE  RollingStart(s) <= RollingStart(t)
<1>1. UtcDate(s) <= UtcDate(t)
  BY DEF UtcDate
<1>2. UtcDate(s) \in Nat /\ UtcDate(t) \in Nat
  BY DateArithmetic
<1> QED BY <1>1, <1>2, WindowType DEF RollingStart

(* What lies before a window was due before its end. *)
LEMMA BeforeWindow ==
  ASSUME scope \in Scopes, NEW t \in Nat, NEW d \in Nat \ {0}, d < RollingStart(t)
  PROVE  2 * d <= t
<1>1. UtcDate(t) \in Nat /\ 2 * UtcDate(t) <= t + 1
  BY DateArithmetic
<1>2. d < UtcDate(t)
  BY <1>1, RollingStartType, WindowType
<1> QED BY <1>1, <1>2

(* A window of two days reaches back over two half days. *)
LEMMA WindowReaches ==
  ASSUME scope \in Scopes, Window >= 2,
         NEW t \in Nat, NEW d \in Nat \ {0}, 2 * d <= t, t <= 2 * d + 1
  PROVE  d \in RollingStart(t)..UtcDate(t)
<1>1. UtcDate(t) \in Nat /\ 2 * UtcDate(t) <= t + 1 /\ t <= 2 * UtcDate(t)
  BY DateArithmetic
<1>2. RollingStart(t) <= d
  BY <1>1, RollingStartType, WindowType
<1> QED BY <1>1, <1>2, RollingStartType

(* The window of a scope that stays the same. *)
LEMMA SameWindow ==
  ASSUME scope' = scope
  PROVE  /\ Window' = Window /\ Rolling' = Rolling
         /\ \A t : RollingStart(t)' = RollingStart(t)
BY DEF Window, Rolling, RollingStart, UtcDate

(* The latest of some days exists. *)
LEMMA LatestDay ==
  ASSUME NEW S \in SUBSET (0..Days + 1), S # {}
  PROVE  Max(S) \in S /\ \A d \in S : d <= Max(S)
<1> DEFINE T == {Days + 1 - s : s \in S}
<1>1. T \subseteq Nat
  <2>1. ASSUME NEW s \in S PROVE Days + 1 - s \in Nat
    BY DaysAssumption
  <2> QED BY <2>1, Zenon
<1>2. T # {}
  OBVIOUS
<1>3. PICK x \in T : \A y \in T : ~(<<y, x>> \in OpToRel(<, Nat))
  <2> HIDE DEF T
  <2> QED BY <1>1, <1>2, NatLessThanWellFounded, WFMin, Zenon
<1>4. \A y \in T : ~(y < x)
  <2> HIDE DEF T
  <2> QED BY <1>1, <1>3 DEF OpToRel
<1>5. PICK s \in S : x = Days + 1 - s
  OBVIOUS
<1>6. ASSUME NEW t \in S PROVE s >= t
  <2>1. ~(Days + 1 - t < Days + 1 - s)
    BY <1>4, <1>5
  <2> QED BY <2>1, DaysAssumption
<1>7. Max(S) \in S /\ \A d \in S : Max(S) >= d
  BY <1>6 DEF Max
<1>8. \A d \in S : d \in Nat
  BY DaysAssumption
<1> QED BY <1>7, <1>8

(* The earliest of some days exists. *)
LEMMA EarliestDay ==
  ASSUME NEW S \in SUBSET Nat, S # {}
  PROVE  Min(S) \in S /\ \A d \in S : Min(S) <= d
<1>1. PICK x \in S : \A y \in S : ~(<<y, x>> \in OpToRel(<, Nat))
  BY NatLessThanWellFounded, WFMin, Zenon
<1>2. \A y \in S : ~(y < x)
  BY <1>1 DEF OpToRel
<1>3. ASSUME NEW y \in S PROVE x <= y
  <2>1. ~(y < x)
    BY <1>2
  <2> QED BY <2>1
<1> QED BY <1>3 DEF Min

(* What the mapping calls available is over. *)
LEMMA Closing == \A d : Available(d) = 2 * d /\ Close(d) = 2 * d
BY DEF Available, Close

(* The fields of what the source lists. *)
LEMMA ListedFields ==
  ASSUME Types, NEW e \in Listed
  PROVE  /\ e \in Events /\ ListingOf(e) \in Listings
         /\ Date(e) \in 1..Days + 1 /\ Date(e) \in Nat \ {0}
         /\ listed[e].late \in BOOLEAN /\ listed[e].version \in 1..2
         /\ listed[e] \in [date : 1..Days + 1, late : BOOLEAN, version : 1..2]
<1>1. e \in Events /\ listed[e] # None
  BY DEF Listed
<1>2. listed[e] \in [date : 1..Days + 1, late : BOOLEAN, version : 1..2]
  BY <1>1 DEF Types, TypeOK
<1>3. ListingOf(e) \in Listings
  BY <1>1 DEF Events, ListingOf
<1> QED BY <1>1, <1>2, <1>3, DaysAssumption DEF Date

(* The prior entry of a listing that is watched. *)
LEMMA PriorEntry ==
  ASSUME Types, NEW l \in Listings, watch[l] # "absent"
  PROVE  /\ l \in DOMAIN Merged
         /\ l \in DOMAIN entries => Merged[l] = entries[l]
         /\ l \notin DOMAIN entries => Merged[l] = Fresh
         /\ Merged[l] \in [processed : SUBSET (Events \X {1, 2}), cursor : 0..Days]
<1>1. l \in Watched
  BY DEF Watched
<1>2. /\ l \in DOMAIN Merged
      /\ Merged[l] = IF l \in DOMAIN entries THEN entries[l] ELSE Fresh
  BY <1>1 DEF Merged
<1>3. Fresh \in [processed : SUBSET (Events \X {1, 2}), cursor : 0..Days]
  BY DaysAssumption DEF Fresh
<1>4. l \in DOMAIN entries =>
        entries[l] \in [processed : SUBSET (Events \X {1, 2}), cursor : 0..Days]
  BY DEF Types, TypeOK
<1> QED BY <1>2, <1>3, <1>4

(* What a cycle knows of an event is what the committed state holds. *)
LEMMA KnownIsCommitted ==
  ASSUME Types, NEW e \in Listed, watch[ListingOf(e)] # "absent"
  PROVE  (Known(e) <=> KnownNow(e)) /\ (Passed(e) <=> PassedBy(e))
<1> DEFINE l == ListingOf(e)
<1>1. l \in Listings /\ Date(e) \in Nat \ {0}
  BY ListedFields
<1>2. CASE l \in DOMAIN entries
  <2>1. Merged[l] = entries[l]
    BY <1>1, <1>2, PriorEntry
  <2> QED BY <1>2, <2>1 DEF Known, KnownNow, Passed, PassedBy
<1>3. CASE l \notin DOMAIN entries
  <2>1. Merged[l].processed = {} /\ Merged[l].cursor = 0
    BY <1>1, <1>3, PriorEntry DEF Fresh
  <2> QED BY <1>1, <1>3, <2>1 DEF Known, KnownNow, Passed, PassedBy
<1> QED BY <1>2, <1>3

-----------------------------------------------------------------------------
(* The first state *)

LEMMA SoundInit == Init => Sound
<1> SUFFICES ASSUME Init PROVE Sound
  OBVIOUS
<1>1. Listed = {} /\ DOMAIN entries = {}
  BY DEF Init, Listed
<1>2. scope.edits \in Nat
  BY ScopesAssumption DEF Init
<1>3. Types
  BY <1>1, <1>2, DaysAssumption DEF Init, Types, TypeOK
<1>4. \A e \in Events : ~KnownNow(e) /\ ~Timely(e)
  BY <1>1 DEF KnownNow, Timely
<1>5. Dropping /\ Remembered
  <2>1. ASSUME NEW e \in Events PROVE decided[e] = 0 /\ dropped[ListingOf(e)] = 0
    <3>1. ListingOf(e) \in Listings
      BY DEF Events, ListingOf
    <3> QED BY <3>1 DEF Init
  <2>2. Remembered
    BY <1>4, <2>1 DEF Remembered
  <2>3. Dropping
    BY <1>1 DEF Init, Dropping
  <2> QED BY <2>2, <2>3
<1>6. CursorsPast /\ Overtaken /\ DaysPast /\ Owing /\ StaleLate
  BY <1>1, <1>4 DEF Init, CursorsPast, DaysPast, Overtaken, Owing, StaleLate
<1>7. Scheduled /\ BatchShape /\ BatchComplete
  BY DEF Init, Scheduled, BatchShape, BatchComplete
<1>8. Covering
  BY DEF Init, Covering
<1> QED BY <1>3, <1>5, <1>6, <1>7, <1>8 DEF Sound

-----------------------------------------------------------------------------
(* What the source, the calendar and the owner do *)

(* Nothing that was listed loses its date, and what is new and in time is    *)
(* not over.                                                                 *)
Grows ==
  /\ Listed \subseteq Listed'
  /\ \A e \in Listed : Date(e)' = Date(e) /\ listed'[e].late = listed[e].late
  /\ \A e \in Listed' \ Listed : ~listed'[e].late => now < 2 * Date(e)'

(* What is excused stays excused. *)
LEMMA ExcusedStays ==
  ASSUME NEW e, Date(e)' = Date(e), Rolling' = Rolling, premature \subseteq premature',
         decided[e] > 0 => decided'[e] > 0, Excused(e)
  PROVE  Excused(e)'
BY DEF Excused

LEMMA WorldStep ==
  ASSUME Sound, Types', Grows, now <= now', Rolling => now' <= ran + 2,
         UNCHANGED <<scope, watch, entries, staged, ran, decided, stale, spoiled,
                     covered, premature, dropped, edits>>
  PROVE  Sound'
<1>1. /\ now \in Nat /\ now' \in Nat /\ ran \in 0..now
      /\ \A l \in DOMAIN entries : entries[l].cursor \in 0..Days
      /\ staged # None => staged.at \in 1..now /\ Batch \subseteq Listed
      /\ covered \subseteq 1..Days
  BY DEF Sound, Types, TypeOK, Batch
<1>2. ASSUME NEW e \in Events
      PROVE  /\ KnownNow(e)' = KnownNow(e)
             /\ e \in Listed => (PassedBy(e)' = PassedBy(e)) /\ (Timely(e)' = Timely(e))
             /\ Timely(e)' /\ e \notin Listed =>
                  now < 2 * Date(e)' /\ Date(e)' \in Nat \ {0}
  <2>1. KnownNow(e)' = KnownNow(e)
    BY DEF KnownNow
  <2>2. e \in Listed => (PassedBy(e)' = PassedBy(e)) /\ (Timely(e)' = Timely(e))
    BY DEF Grows, PassedBy, Timely
  <2>3. ASSUME Timely(e)', e \notin Listed
        PROVE  now < 2 * Date(e)' /\ Date(e)' \in Nat \ {0}
    <3>1. e \in Listed' /\ ~listed'[e].late
      BY <2>3 DEF Timely
    <3>2. listed'[e] \in [date : 1..Days + 1, late : BOOLEAN, version : 1..2]
      BY <3>1 DEF Types, TypeOK, Listed
    <3>3. Date(e)' = listed'[e].date
      BY DEF Date
    <3> QED BY <2>3, <3>1, <3>2, <3>3, DaysAssumption DEF Grows
  <2> QED BY <2>1, <2>2, <2>3
<1>3. Dropping' /\ Remembered'
  BY <1>2 DEF Sound, Dropping, Remembered
<1>4. CursorsPast'
  <2>1. ASSUME NEW l \in DOMAIN entries, NEW d \in 1..entries[l].cursor
        PROVE  2 * d <= now' \/ d \in premature
    <3>1. 2 * d <= now \/ d \in premature
      BY DEF Sound, CursorsPast
    <3>2. d \in Nat
      BY <1>1, DaysAssumption
    <3> QED BY <1>1, <3>1, <3>2
  <2> QED BY <2>1 DEF CursorsPast
<1>5. DaysPast' /\ Scheduled' /\ Covering'
  <2>1. DaysPast'
    <3>1. \A d \in covered : 2 * d <= now /\ d \in Nat
      BY <1>1, DaysAssumption DEF Sound, DaysPast
    <3> QED BY <1>1, <3>1, SameWindow DEF Sound, DaysPast
  <2>2. Scheduled'
    BY SameWindow DEF Scheduled
  <2>3. Covering'
    BY SameWindow DEF Sound, Covering
  <2> QED BY <2>1, <2>2, <2>3
<1>6. ASSUME NEW e \in Events, e \in Listed, Excused(e)
      PROVE  Excused(e)'
  <2>1. Date(e)' = Date(e)
    BY <1>6 DEF Grows
  <2> QED BY <1>6, <2>1, ExcusedStays, SameWindow
<1>7. Overtaken'
  <2>1. ASSUME NEW e \in Events, Timely(e)', PassedBy(e)'
        PROVE  (Rolling' /\ (KnownNow(e)' \/ Date(e)' < RollingStart(ran)')) \/ Excused(e)'
    <3>1. CASE e \in Listed
      <4>1. (Rolling /\ (KnownNow(e) \/ Date(e) < RollingStart(ran))) \/ Excused(e)
        BY <1>2, <2>1, <3>1 DEF Sound, Overtaken
      <4>2. Date(e)' = Date(e)
        BY <3>1 DEF Grows
      <4> QED BY <1>2, <1>6, <3>1, <4>1, <4>2, SameWindow
    <3>2. CASE e \notin Listed
      <4>1. now < 2 * Date(e)' /\ Date(e)' \in Nat \ {0}
        BY <1>2, <2>1, <3>2
      <4>2. ListingOf(e) \in DOMAIN entries /\ Date(e)' <= entries[ListingOf(e)].cursor
        BY <2>1 DEF PassedBy
      <4>3. Date(e)' \in 1..entries[ListingOf(e)].cursor
        BY <1>1, <4>1, <4>2, DaysAssumption
      <4>4. ~(2 * Date(e)' <= now)
        BY <1>1, <4>1
      <4>5. Date(e)' \in premature
        BY <4>2, <4>3, <4>4 DEF Sound, CursorsPast
      <4>6. ~Rolling
        BY <4>5 DEF Sound, DaysPast
      <4> QED BY <4>5, <4>6, SameWindow DEF Excused
    <3> QED BY <3>1, <3>2
  <2> QED BY <2>1 DEF Overtaken
<1>8. Owing'
  <2>1. ASSUME Rolling, NEW e \in Events, Timely(e)', Date(e)' \in covered
        PROVE  decided[e] > 0 \/ e \in spoiled \/ (staged # None /\ e \in Batch)
    <3>1. e \in Listed
      <4>1. 2 * Date(e)' <= now
        BY <2>1 DEF Sound, DaysPast
      <4> QED BY <1>1, <1>2, <2>1, <4>1
    <3> QED BY <1>2, <2>1, <3>1 DEF Sound, Owing, Grows
  <2>2. Batch' = Batch
    BY DEF Batch
  <2> QED BY <2>1, <2>2, SameWindow DEF Owing
<1>9. BatchShape'
  <2>1. ASSUME staged # None, NEW e \in Batch
        PROVE  e \in Listed' /\ Date(e)' = Date(e)
    BY <1>1, <2>1 DEF Grows
  <2>2. Batch' = Batch /\ Enabled' = Enabled
    BY DEF Batch, Enabled
  <2>3. RollingStart(staged.at)' = RollingStart(staged.at)
    BY DEF RollingStart, UtcDate, Window
  <2> QED BY <2>1, <2>2, <2>3, SameWindow DEF Sound, BatchShape
<1>10. BatchComplete'
  <2>1. ASSUME staged # None, NEW e \in Events, NEW f \in Batch,
               Timely(e)', ListingOf(e) = ListingOf(f),
               Date(e)' <= Date(f)', 2 * Date(e)' <= staged.at,
               Rolling => Date(e)' >= RollingStart(staged.at)
        PROVE  e \in Batch \/ Excused(e)'
    <3>1. f \in Listed /\ Date(f)' = Date(f)
      BY <1>1, <2>1 DEF Grows
    <3>2. e \in Listed
      BY <1>1, <1>2, <2>1
    <3>3. Date(e)' = Date(e)
      BY <3>2 DEF Grows
    <3>4. e \in Batch \/ Excused(e)
      BY <1>2, <2>1, <3>1, <3>2, <3>3 DEF Sound, BatchComplete
    <3> QED BY <1>6, <3>2, <3>4
  <2>2. Batch' = Batch
    BY DEF Batch
  <2>3. RollingStart(staged.at)' = RollingStart(staged.at)
    BY DEF RollingStart, UtcDate, Window
  <2> QED BY <2>1, <2>2, <2>3, SameWindow DEF BatchComplete
<1>11. StaleLate'
  <2>1. ASSUME NEW e \in stale PROVE e \in Listed' /\ (Timely(e)' => Excused(e)')
    <3>1. e \in Listed /\ e \in Events /\ (Timely(e) => Excused(e))
      BY <2>1 DEF Sound, StaleLate, Listed
    <3> QED BY <1>2, <1>6, <3>1 DEF Grows
  <2> QED BY <2>1 DEF StaleLate
<1> QED BY <1>3, <1>4, <1>5, <1>7, <1>8, <1>9, <1>10, <1>11 DEF Sound

LEMMA DiscloseSound == ASSUME Sound, Disclose PROVE Sound'
<1>1. PICK e \in Events \ Listed, date \in 1..BeijingDate(now) :
        listed' = [listed EXCEPT
          ![e] = [date |-> date, late |-> now >= Close(date), version |-> 1]]
  BY DEF Disclose
<1>2. UNCHANGED <<scope, now, watch, entries, staged, ran, decided, stale, spoiled,
                  covered, premature, dropped, edits>>
  BY DEF Disclose, committed, history
<1> DEFINE r == [date |-> date, late |-> now >= Close(date), version |-> 1]
<1>3. now \in 1..2 * Days /\ date \in 1..Days + 1
  <2>1. now \in 1..2 * Days
    BY DEF Sound, Types, TypeOK
  <2>2. BeijingDate(now) \in Nat /\ 2 * BeijingDate(now) <= now + 2
    BY <2>1, DateArithmetic, DaysAssumption
  <2> QED BY <2>1, <2>2, DaysAssumption
<1>4. r \in [date : 1..Days + 1, late : BOOLEAN, version : 1..2]
  BY <1>3
<1>5. r # None
  <2>1. r \in [date : Nat, late : BOOLEAN, version : Nat]
    BY <1>3, DaysAssumption
  <2> QED BY <2>1, NoneAssumption
<1>6. listed'[e] = r /\ \A f \in Events : f # e => listed'[f] = listed[f]
  BY <1>1 DEF Sound, Types, TypeOK
<1>7. Listed' = Listed \union {e}
  <2> HIDE DEF r
  <2> QED BY <1>5, <1>6 DEF Listed
<1>8. Types'
  <2>1. listed' \in [Events -> [date : 1..Days + 1, late : BOOLEAN, version : 1..2]
                              \union {None}]
    <3> HIDE DEF r
    <3>1. listed' = [listed EXCEPT ![e] = r]
      BY <1>1 DEF r
    <3> QED BY <1>4, <3>1 DEF Sound, Types, TypeOK
  <2>2. (stale \union spoiled)' \subseteq Listed'
    BY <1>2, <1>7 DEF Sound, Types, TypeOK
  <2>3. staged' # None => DOMAIN staged'.batch \subseteq Listed'
    BY <1>2, <1>7 DEF Sound, Types, TypeOK
  <2> QED BY <1>2, <2>1, <2>2, <2>3 DEF Sound, Types, TypeOK
<1>9. Grows
  <2>1. ASSUME NEW f \in Listed
        PROVE  Date(f)' = Date(f) /\ listed'[f].late = listed[f].late
    BY <1>6 DEF Listed, Date
  <2>2. ~listed'[e].late => now < 2 * Date(e)'
    <3>1. Date(e)' = date /\ listed'[e].late = (now >= Close(date))
      BY <1>6 DEF Date
    <3>2. ~listed'[e].late => ~(now >= 2 * date)
      BY <3>1, Closing
    <3>3. ~(now >= 2 * date) => now < 2 * date
      BY <1>3, DaysAssumption
    <3> QED BY <3>1, <3>2, <3>3
  <2> QED BY <1>7, <2>1, <2>2 DEF Grows
<1>10. now \in Nat /\ (Rolling => now <= ran + 2)
  BY <1>3, DaysAssumption DEF Sound, Scheduled
<1> QED BY <1>2, <1>8, <1>9, <1>10, WorldStep

LEMMA AmendSound == ASSUME Sound, Amend PROVE Sound'
<1>1. PICK e \in Listed : listed' = [listed EXCEPT ![e].version = 2]
  BY DEF Amend
<1>2. UNCHANGED <<scope, now, watch, entries, staged, ran, decided, stale, spoiled,
                  covered, premature, dropped, edits>>
  BY DEF Amend, committed, history
<1>3. /\ e \in Events
      /\ listed[e] \in [date : 1..Days + 1, late : BOOLEAN, version : 1..2]
  BY ListedFields DEF Sound
<1> DEFINE r == [listed[e] EXCEPT !.version = 2]
<1>4. /\ r \in [date : 1..Days + 1, late : BOOLEAN, version : 1..2]
      /\ r.date = listed[e].date /\ r.late = listed[e].late
  BY <1>3
<1>5. r # None
  <2>1. r \in [date : Nat, late : BOOLEAN, version : Nat]
    BY <1>3, DaysAssumption
  <2> QED BY <2>1, NoneAssumption
<1>6. listed' = [listed EXCEPT ![e] = r]
  BY <1>1
<1> HIDE DEF r
<1>7. listed'[e] = r /\ \A f \in Events : f # e => listed'[f] = listed[f]
  BY <1>3, <1>6 DEF Sound, Types, TypeOK
<1>8. Listed' = Listed
  BY <1>5, <1>7 DEF Listed
<1>9. Types'
  <2>1. listed' \in [Events -> [date : 1..Days + 1, late : BOOLEAN, version : 1..2]
                              \union {None}]
    BY <1>4, <1>6 DEF Sound, Types, TypeOK
  <2> QED BY <1>2, <1>8, <2>1 DEF Sound, Types, TypeOK
<1>10. Grows
  BY <1>4, <1>7, <1>8 DEF Grows, Date, Listed
<1>11. now \in Nat /\ (Rolling => now <= ran + 2)
  BY DaysAssumption DEF Sound, Scheduled, Types, TypeOK
<1> QED BY <1>2, <1>9, <1>10, <1>11, WorldStep

LEMMA TickSound == ASSUME Sound, Tick PROVE Sound'
<1>1. /\ now < 2 * Days /\ (Rolling => now <= ran + 1) /\ now' = now + 1
      /\ UNCHANGED <<scope, listed, watch, entries, staged, ran, decided, stale,
                     spoiled, covered, premature, dropped, edits>>
  BY DEF Tick, committed, history
<1>2. now \in 1..2 * Days /\ ran \in 0..now
  BY DEF Sound, Types, TypeOK
<1>3. Listed' = Listed
  BY <1>1 DEF Listed
<1>4. Types'
  <2>1. now' \in 1..2 * Days /\ ran' \in 0..now'
    BY <1>1, <1>2, DaysAssumption
  <2>2. staged' # None => staged'.at \in 1..now'
    <3>1. staged # None => staged.at \in 1..now
      BY DEF Sound, Types, TypeOK
    <3> QED BY <1>1, <1>2, <3>1, DaysAssumption
  <2> QED BY <1>1, <1>3, <2>1, <2>2 DEF Sound, Types, TypeOK
<1>5. Grows
  BY <1>1, <1>3 DEF Grows, Date
<1>6. now <= now' /\ (Rolling => now' <= ran + 2)
  BY <1>1, <1>2, DaysAssumption
<1> QED BY <1>1, <1>4, <1>5, <1>6, WorldStep

LEMMA EditWatchlistSound == ASSUME Sound, EditWatchlist PROVE Sound'
<1>1. /\ Rolling => staged = None
      /\ edits < scope.edits /\ edits' = edits + 1
      /\ UNCHANGED <<scope, now, listed, entries, staged, ran, decided, stale, spoiled,
                     covered, premature, dropped>>
  BY DEF EditWatchlist, committed, history
<1>2. /\ edits \in 0..scope.edits /\ scope.edits \in Nat
      /\ dropped \in [Listings -> 0..scope.edits]
  BY ScopesAssumption DEF Sound, Types, TypeOK
<1>3. Types'
  <2>1. watch' \in [Listings -> {"enabled", "disabled", "absent"}]
    BY DEF EditWatchlist, Sound, Types, TypeOK
  <2>2. edits' \in 0..scope'.edits
    BY <1>1, <1>2
  <2>3. Listed' = Listed
    BY <1>1 DEF Listed
  <2> QED BY <1>1, <2>1, <2>2, <2>3 DEF Sound, Types, TypeOK
<1>4. Dropping'
  <2>1. ASSUME NEW l \in Listings PROVE dropped[l] <= edits /\ dropped[l] \in Nat
    <3>1. dropped[l] + (IF l \in DOMAIN entries /\ watch[l] = "absent" THEN 1 ELSE 0)
            <= edits
      BY DEF Sound, Dropping
    <3> QED BY <1>2, <3>1
  <2>2. ASSUME NEW l \in Listings, NEW d \in {0, 1} PROVE dropped[l] + d <= edits + 1
    BY <1>2, <2>1, <2>2
  <2> QED BY <1>1, <2>2 DEF Dropping
<1>5. /\ \A e : KnownNow(e)' = KnownNow(e) /\ PassedBy(e)' = PassedBy(e)
      /\ \A e : Timely(e)' = Timely(e) /\ Date(e)' = Date(e)
      /\ Listed' = Listed
  BY <1>1 DEF KnownNow, PassedBy, Timely, Date, Listed
<1>6. \A e : Excused(e)' = Excused(e)
  BY <1>1, <1>5, SameWindow DEF Excused
<1>7. Remembered' /\ CursorsPast' /\ DaysPast' /\ Scheduled' /\ Covering' /\ StaleLate'
  BY <1>1, <1>5, <1>6, SameWindow
     DEF Sound, Remembered, CursorsPast, DaysPast, Scheduled, Covering, StaleLate
<1>8. Overtaken'
  BY <1>1, <1>5, <1>6, SameWindow DEF Sound, Overtaken
<1>9. /\ Batch' = Batch
      /\ RollingStart(staged.at)' = RollingStart(staged.at)
  BY <1>1 DEF Batch, RollingStart, UtcDate, Window
<1>10. Owing'
  BY <1>1, <1>5, <1>9, SameWindow DEF Sound, Owing
<1>11. BatchShape'
  BY <1>1, <1>5, <1>9, SameWindow DEF Sound, BatchShape
<1>12. BatchComplete'
  BY <1>1, <1>5, <1>6, <1>9, SameWindow DEF Sound, BatchComplete
<1> QED BY <1>3, <1>4, <1>7, <1>8, <1>10, <1>11, <1>12 DEF Sound

-----------------------------------------------------------------------------
(* The acquisition *)

(* What the runner covers is over, and with two days or more lacks nothing.  *)
LEMMA OverDays ==
  ASSUME Sound, Rolling, covered' = covered \union Over(RollingStart(now), UtcDate(now))
  PROVE  /\ covered' \subseteq 1..Days
         /\ \A d \in covered' : 2 * d <= now
         /\ ran < now /\ Window >= 2 =>
              \A d \in Nat \ {0} : 2 * d <= now => d \in covered'
<1> DEFINE from == RollingStart(now)
           to == UtcDate(now)
<1>1. /\ now \in 1..2 * Days /\ now \in Nat /\ covered \subseteq 1..Days
      /\ ran \in Nat /\ scope \in Scopes /\ now <= ran + 2
  BY DaysAssumption DEF Sound, Types, TypeOK, Scheduled
<1>2. from \in Nat /\ from >= 1 /\ to \in Nat
  BY <1>1, RollingStartType, DateArithmetic, WindowType DEF RollingStart
<1>3. ASSUME NEW d \in Over(from, to) PROVE d \in 1..Days /\ 2 * d <= now
  <2>1. d \in from..to /\ 2 * d <= now
    BY Closing DEF Over
  <2> HIDE DEF from, to
  <2> QED BY <1>1, <1>2, <2>1, DaysAssumption
<1>4. covered' \subseteq 1..Days /\ \A d \in covered' : 2 * d <= now
  BY <1>1, <1>3 DEF Sound, DaysPast
<1>5. ASSUME ran < now, Window >= 2, NEW d \in Nat \ {0}, 2 * d <= now
      PROVE  d \in covered'
  <2>1. CASE 2 * d <= ran
    BY <1>5, <2>1 DEF Sound, Covering
  <2>2. CASE ~(2 * d <= ran)
    <3>1. now <= 2 * d + 1
      BY <1>1, <1>5, <2>2
    <3>2. d \in from..to
      BY <1>1, <1>5, <3>1, WindowReaches
    <3>3. d \in Over(from, to)
      BY <1>5, <3>2, Closing DEF Over
    <3> QED BY <3>3
  <2> QED BY <2>1, <2>2
<1> QED BY <1>4, <1>5

(* A cycle that ends without a plan has spoiled what was due in its window,  *)
(* and the next window is a later one.                                       *)
LEMMA FailSound ==
  ASSUME Sound, NEW asOf \in 1..now, NEW lost \in SUBSET Listed, FailCycle(asOf, lost),
         Rolling => ran < asOf,
         covered' \subseteq 1..Days, \A d \in covered' : 2 * d <= now,
         Rolling /\ Window >= 2 =>
           \A d \in Nat \ {0} : 2 * d <= asOf => d \in covered',
         Rolling =>
           \A e \in Events : Timely(e) /\ Date(e) \in covered' =>
             decided[e] > 0 \/ e \in spoiled \/ e \in lost,
         ~Rolling => covered' = covered
  PROVE  Sound'
<1>1. /\ IF Rolling THEN staged' = None /\ ran' = asOf ELSE staged' = staged /\ ran' = ran
      /\ spoiled' = (IF Rolling THEN spoiled \union lost ELSE spoiled)
      /\ UNCHANGED <<scope, now, listed, watch, entries, decided, stale, dropped, premature,
                     edits>>
  BY DEF FailCycle, Conclude, world
<1>2. /\ now \in 1..2 * Days /\ ran \in 0..now /\ now \in Nat /\ ran \in Nat
      /\ scope \in Scopes
  BY DaysAssumption DEF Sound, Types, TypeOK
<1>3. ran' \in 0..now /\ ran' \in Nat /\ ran <= ran'
  BY <1>1, <1>2
<1>4. Listed' = Listed /\ Enabled' = Enabled
  BY <1>1 DEF Listed, Enabled
<1>5. \A e : /\ KnownNow(e)' = KnownNow(e) /\ PassedBy(e)' = PassedBy(e)
             /\ Timely(e)' = Timely(e) /\ Date(e)' = Date(e)
  BY <1>1 DEF KnownNow, PassedBy, Timely, Date, Listed
<1>6. \A e : Excused(e)' = Excused(e)
  BY <1>1, <1>5, SameWindow DEF Excused
<1>7. Types'
  <2>1. (stale \union spoiled)' \subseteq Listed'
    BY <1>1, <1>4 DEF Sound, Types, TypeOK
  <2>2. (covered \union premature)' \subseteq 1..Days
    BY <1>1 DEF Sound, Types, TypeOK
  <2>3. staged' # None => staged'.at \in 1..now' /\ DOMAIN staged'.batch \subseteq Listed'
    BY <1>1, <1>4 DEF Sound, Types, TypeOK
  <2> QED BY <1>1, <1>3, <2>1, <2>2, <2>3 DEF Sound, Types, TypeOK
<1>8. Dropping' /\ Remembered' /\ CursorsPast' /\ StaleLate'
  BY <1>1, <1>4, <1>5, <1>6 DEF Sound, Dropping, Remembered, CursorsPast, StaleLate
<1>9. DaysPast'
  BY <1>1, SameWindow DEF Sound, DaysPast
<1>10. Overtaken'
  <2>1. /\ RollingStart(ran)' = RollingStart(ran')
        /\ RollingStart(ran) <= RollingStart(ran')
        /\ RollingStart(ran) \in Nat /\ RollingStart(ran') \in Nat
    <3>1. RollingStart(ran)' = RollingStart(ran')
      BY <1>1 DEF RollingStart, UtcDate, Window
    <3> QED BY <1>2, <1>3, <3>1, RollingStartMonotone, RollingStartType
  <2>2. ASSUME NEW e \in Events, Timely(e), PassedBy(e)
        PROVE  (Rolling /\ (KnownNow(e) \/ Date(e) < RollingStart(ran'))) \/ Excused(e)
    <3>1. (Rolling /\ (KnownNow(e) \/ Date(e) < RollingStart(ran))) \/ Excused(e)
      BY <2>2 DEF Sound, Overtaken
    <3>2. Date(e) \in Nat
      BY <2>2, ListedFields DEF Timely, Sound
    <3> QED BY <2>1, <3>1, <3>2
  <2> QED BY <1>1, <1>5, <1>6, <2>1, <2>2, SameWindow DEF Overtaken
<1>11. Scheduled'
  <2>1. ASSUME Rolling PROVE now <= ran' + 2
    <3>1. now <= ran + 2
      BY <2>1 DEF Sound, Scheduled
    <3>2. \A a, b, c \in Nat : a <= b + 2 /\ b <= c => a <= c + 2
      OBVIOUS
    <3> QED BY <1>2, <1>3, <3>1, <3>2
  <2> QED BY <1>1, <2>1, SameWindow DEF Scheduled
<1>12. Covering'
  BY <1>1, SameWindow DEF Covering
<1>13. Owing'
  BY <1>1, <1>5, SameWindow DEF Owing
<1>14. BatchShape' /\ BatchComplete'
  <2>1. CASE Rolling
    BY <1>1, <2>1 DEF BatchShape, BatchComplete
  <2>2. CASE ~Rolling
    <3>1. staged' = staged /\ Batch' = Batch /\ ~Rolling'
      BY <1>1, <2>2, SameWindow DEF Batch
    <3>2. BatchShape'
      BY <1>4, <2>2, <3>1 DEF Sound, BatchShape
    <3>3. BatchComplete'
      BY <1>5, <1>6, <2>2, <3>1 DEF Sound, BatchComplete
    <3> QED BY <3>2, <3>3
  <2> QED BY <2>1, <2>2
<1> QED BY <1>7, <1>8, <1>9, <1>10, <1>11, <1>12, <1>13, <1>14 DEF Sound

(* What the runner's cycles have covered, this one included, is decided,     *)
(* spoiled or owed by this one.                                              *)
LEMMA OwedCovers ==
  ASSUME Sound, Rolling, staged = None,
         covered' = covered \union Over(RollingStart(now), UtcDate(now)),
         NEW e \in Events, Timely(e), Date(e) \in covered'
  PROVE  decided[e] > 0 \/ e \in spoiled \/ e \in Owed(RollingStart(now), UtcDate(now))
<1>1. CASE Date(e) \in covered
  BY <1>1 DEF Sound, Owing
<1>2. CASE Date(e) \notin covered
  BY <1>2 DEF Owed, Timely
<1> QED BY <1>1, <1>2

LEMMA CycleFailsSound == ASSUME Sound, CycleFails PROVE Sound'
<1> DEFINE lost == Owed(RollingStart(now), UtcDate(now))
<1>1. /\ Rolling /\ staged = None /\ ran < now /\ FailCycle(now, lost)
      /\ covered' = covered \union Over(RollingStart(now), UtcDate(now))
  BY DEF CycleFails
<1>2. lost \in SUBSET Listed /\ now \in 1..now
  BY DaysAssumption DEF Owed, Sound, Types, TypeOK
<1>3. \A e \in Events : Timely(e) /\ Date(e) \in covered' =>
        decided[e] > 0 \/ e \in spoiled \/ e \in lost
  BY <1>1, OwedCovers
<1>4. /\ covered' \subseteq 1..Days
      /\ \A d \in covered' : 2 * d <= now
      /\ Window >= 2 => \A d \in Nat \ {0} : 2 * d <= now => d \in covered'
  BY <1>1, OverDays
<1> HIDE DEF lost
<1> QED BY <1>1, <1>2, <1>3, <1>4, FailSound

(* An event of an enabled listing in a window is in the answer. *)
LEMMA Answer ==
  ASSUME NEW from, NEW to, NEW e
  PROVE  e \in Matching(from, to) <=>
           e \in Listed /\ ListingOf(e) \in Enabled /\ Date(e) \in from..to
BY DEF Matching, Of

LEMMA StageSound ==
  ASSUME Sound, NEW batch \in SUBSET Listed, Stage(batch),
         spoiled \subseteq spoiled', spoiled' \subseteq Listed,
         premature' = premature,
         covered' \subseteq 1..Days, \A d \in covered' : 2 * d <= now,
         Rolling => ran < now,
         Rolling => \A e \in batch : /\ ListingOf(e) \in Enabled
                                     /\ Date(e) >= RollingStart(now)
                                     /\ 2 * Date(e) <= now,
         \A e \in Events, f \in batch :
           /\ Timely(e) /\ ListingOf(e) = ListingOf(f)
           /\ Date(e) <= Date(f) /\ 2 * Date(e) <= now
           /\ Rolling => Date(e) >= RollingStart(now)
           => e \in batch \/ Excused(e),
         Rolling /\ Window >= 2 =>
           \A d \in Nat \ {0} : 2 * d <= now => d \in covered',
         Rolling =>
           \A e \in Events : Timely(e) /\ Date(e) \in covered' =>
             decided[e] > 0 \/ e \in spoiled' \/ e \in batch
  PROVE  Sound'
<1>1. /\ staged' = [at |-> now, batch |-> [e \in batch |-> listed[e].version]]
      /\ UNCHANGED <<scope, now, listed, watch, entries, ran, decided, stale, dropped,
                     edits>>
  BY DEF Stage, world, committed
<1>2. /\ staged'.at = now /\ Batch' = batch
      /\ \A e \in batch : staged'.batch[e] = listed[e].version
  BY <1>1 DEF Batch
<1>3. Listed' = Listed /\ Enabled' = Enabled
  BY <1>1 DEF Listed, Enabled
<1>4. \A e : /\ KnownNow(e)' = KnownNow(e) /\ PassedBy(e)' = PassedBy(e)
             /\ Timely(e)' = Timely(e) /\ Date(e)' = Date(e)
  BY <1>1 DEF KnownNow, PassedBy, Timely, Date, Listed
<1>5. \A e : Excused(e)' = Excused(e)
  BY <1>1, <1>4, SameWindow DEF Excused
<1>6. Types'
  <2>1. (stale \union spoiled)' \subseteq Listed'
    BY <1>1, <1>3 DEF Sound, Types, TypeOK
  <2>2. staged'.at \in 1..now' /\ DOMAIN staged'.batch \subseteq Listed'
    <3>1. now \in 1..now
      BY DaysAssumption DEF Sound, Types, TypeOK
    <3> QED BY <1>1, <1>2, <1>3, <3>1 DEF Batch
  <2>3. (covered \union premature)' \subseteq 1..Days
    BY DEF Sound, Types, TypeOK
  <2> QED BY <1>1, <1>3, <2>1, <2>2, <2>3 DEF Sound, Types, TypeOK
<1>7. Dropping' /\ Remembered' /\ CursorsPast' /\ DaysPast' /\ Scheduled' /\ StaleLate'
  BY <1>1, <1>3, <1>4, <1>5, SameWindow
     DEF Sound, Dropping, Remembered, CursorsPast, DaysPast, Scheduled, StaleLate
<1>8. Overtaken'
  BY <1>1, <1>4, <1>5, SameWindow DEF Sound, Overtaken
<1>9. Covering'
  <2>1. ASSUME Rolling, Window >= 2, NEW d \in Nat \ {0}, 2 * d <= ran \/ 2 * d <= now
        PROVE  d \in covered'
    <3>1. now \in Nat /\ ran \in Nat /\ ran < now
      BY <2>1, DaysAssumption DEF Sound, Types, TypeOK
    <3> QED BY <2>1, <3>1
  <2> QED BY <1>1, <1>2, <2>1, SameWindow DEF Covering
<1>10. \A e \in batch : e \in Events /\ listed[e].version \in {1, 2}
  <2>1. ASSUME NEW e \in batch PROVE e \in Events /\ listed[e].version \in {1, 2}
    <3>1. e \in Events /\ listed[e].version \in 1..2
      BY ListedFields DEF Sound
    <3> QED BY <3>1
  <2> QED BY <2>1
<1>11. staged' # None
  <2> DEFINE content == [e \in batch |-> listed[e].version]
  <2>1. content \in [batch -> {1, 2}]
    BY <1>10
  <2>2. batch \in SUBSET (Listings \X (1..MaxFilings))
    BY <1>10 DEF Events
  <2>3. content \in UNION {[events -> {1, 2}] :
                          events \in SUBSET (Listings \X (1..MaxFilings))}
    <3> HIDE DEF content
    <3> QED BY <2>1, <2>2
  <2>4. now \in Nat
    BY DaysAssumption DEF Sound, Types, TypeOK
  <2>5. staged' = [at |-> now, batch |-> content]
    BY <1>1
  <2> HIDE DEF content
  <2> QED BY <2>3, <2>4, <2>5, NoneAssumption
<1>12. RollingStart(staged.at)' = RollingStart(now)
  BY <1>1, <1>2 DEF RollingStart, UtcDate, Window
<1>13. Owing'
  BY <1>1, <1>2, <1>4, <1>11, SameWindow DEF Owing
<1>14. BatchShape'
  BY <1>1, <1>2, <1>3, <1>4, <1>10, <1>12, SameWindow DEF BatchShape
<1>15. BatchComplete'
  BY <1>2, <1>4, <1>5, <1>10, <1>1, <1>12, SameWindow DEF BatchComplete
<1> QED BY <1>6, <1>7, <1>8, <1>9, <1>13, <1>14, <1>15 DEF Sound

LEMMA AcquireRollingSound == ASSUME Sound, AcquireRolling PROVE Sound'
<1> DEFINE from == RollingStart(now)
           to == UtcDate(now)
           batch == Matching(from, to) \intersect Owed(from, to)
<1>1. /\ Rolling /\ staged = None /\ ran < now
      /\ covered' = covered \union Over(from, to)
      /\ \/ /\ Stage(batch) /\ spoiled' = spoiled \union (Owed(from, to) \ batch)
            /\ premature' = premature
         \/ FailCycle(now, Owed(from, to))
  BY DEF AcquireRolling
<1>2. /\ Owed(from, to) \in SUBSET Listed /\ now \in 1..now /\ now \in Nat
      /\ spoiled \subseteq Listed /\ scope \in Scopes
  BY DaysAssumption DEF Owed, Sound, Types, TypeOK
<1>3. \A e \in Events : Timely(e) /\ Date(e) \in covered' =>
        decided[e] > 0 \/ e \in spoiled \/ e \in Owed(from, to)
  BY <1>1, OwedCovers
<1>4. /\ covered' \subseteq 1..Days
      /\ \A d \in covered' : 2 * d <= now
      /\ Window >= 2 => \A d \in Nat \ {0} : 2 * d <= now => d \in covered'
  BY <1>1, OverDays
<1>5. from \in Nat /\ to \in Nat
  BY <1>2, RollingStartType, DateArithmetic
<1>6. ASSUME NEW e \in batch
      PROVE  /\ e \in Listed /\ ListingOf(e) \in Enabled /\ 2 * Date(e) <= now
             /\ Date(e) >= from /\ Date(e) <= to /\ Date(e) \in Nat
  <2>1. e \in Listed /\ ListingOf(e) \in Enabled /\ Date(e) \in from..to
    BY Answer
  <2>2. Date(e) \in Nat
    BY <2>1, ListedFields DEF Sound
  <2>3. 2 * Date(e) <= now
    BY Closing DEF Owed, Over
  <2> HIDE DEF from, to
  <2> QED BY <1>5, <2>1, <2>2, <2>3
<1>7. ASSUME NEW e \in Events, NEW f \in batch, Timely(e), ListingOf(e) = ListingOf(f),
             Date(e) <= Date(f), 2 * Date(e) <= now, Date(e) >= from
      PROVE  e \in batch
  <2>1. e \in Listed /\ Date(e) \in Nat
    BY <1>7, ListedFields DEF Timely, Sound
  <2>2. ListingOf(e) \in Enabled /\ Date(f) <= to /\ Date(f) \in Nat
    BY <1>6, <1>7
  <2>3. Date(e) \in from..to
    <3> HIDE DEF from, to
    <3> QED BY <1>2, <1>5, <1>7, <2>1, <2>2
  <2>4. Available(Date(e)) <= now
    BY <1>7, Closing
  <2> QED BY <2>1, <2>2, <2>3, <2>4, Answer DEF Owed, Over
<1>8. CASE FailCycle(now, Owed(from, to))
  <2> HIDE DEF from, to
  <2> QED BY <1>1, <1>2, <1>3, <1>4, <1>8, FailSound
<1>9. CASE /\ Stage(batch) /\ spoiled' = spoiled \union (Owed(from, to) \ batch)
           /\ premature' = premature
  <2>1. /\ batch \in SUBSET Listed /\ spoiled \subseteq spoiled' /\ spoiled' \subseteq Listed
        /\ \A e \in Events : Timely(e) /\ Date(e) \in covered' =>
             decided[e] > 0 \/ e \in spoiled' \/ e \in batch
    <3> HIDE DEF from, to, batch
    <3>1. batch \in SUBSET Listed
      BY <1>2 DEF batch
    <3> QED BY <1>2, <1>3, <1>9, <3>1
  <2>2. \A e \in batch :
          /\ ListingOf(e) \in Enabled
          /\ Date(e) >= RollingStart(now)
          /\ 2 * Date(e) <= now
    BY <1>6
  <2>3. \A e \in Events, f \in batch :
          /\ Timely(e) /\ ListingOf(e) = ListingOf(f)
          /\ Date(e) <= Date(f) /\ 2 * Date(e) <= now /\ Date(e) >= RollingStart(now)
          => e \in batch
    BY <1>7
  <2> HIDE DEF batch
  <2> QED BY <1>1, <1>2, <1>4, <1>9, <2>1, <2>2, <2>3, StageSound
<1> QED BY <1>1, <1>8, <1>9

(* The derived window starts before everything that no cursor has passed. *)
LEMMA DerivedStartReaches ==
  ASSUME Sound, Enabled # {}
  PROVE  /\ DerivedStart \in Nat
         /\ \A e \in Listed :
              ListingOf(e) \in Enabled /\ ~PassedBy(e) => DerivedStart <= Date(e)
<1>1. CASE ~HaveCursors
  <2>1. DerivedStart = 1
    BY <1>1 DEF DerivedStart
  <2> QED BY <2>1, ListedFields DEF Sound
<1>2. CASE HaveCursors
  <2> DEFINE S == {entries[l].cursor + 1 : l \in Enabled}
  <2>1. DerivedStart = Min(S)
    BY <1>2 DEF DerivedStart
  <2>2. \A l \in Enabled : l \in DOMAIN entries /\ entries[l].cursor \in Nat
    BY <1>2, DaysAssumption DEF HaveCursors, Sound, Types, TypeOK
  <2>3. S \in SUBSET Nat /\ S # {}
    BY <1>2, <2>2
  <2>4. Min(S) \in S /\ \A d \in S : Min(S) <= d
    <3> HIDE DEF S
    <3> QED BY <2>3, EarliestDay
  <2>5. ASSUME NEW e \in Listed, ListingOf(e) \in Enabled, ~PassedBy(e)
        PROVE  Min(S) <= Date(e)
    <3> DEFINE c == entries[ListingOf(e)].cursor
    <3>1. c + 1 \in S /\ c \in Nat
      BY <2>2, <2>5
    <3>2. ~(Date(e) <= c)
      BY <2>2, <2>5 DEF PassedBy
    <3>3. Date(e) \in Nat
      BY ListedFields DEF Sound
    <3>4. Min(S) <= c + 1 /\ Min(S) \in Nat
      <4> HIDE DEF c, S
      <4> QED BY <2>3, <2>4, <3>1
    <3> HIDE DEF c, S
    <3> QED BY <3>1, <3>2, <3>3, <3>4
  <2> HIDE DEF S
  <2> QED BY <2>1, <2>3, <2>4, <2>5
<1> QED BY <1>1, <1>2

LEMMA AcquireDerivedSound == ASSUME Sound, AcquireDerived PROVE Sound'
<1>1. /\ ~Rolling /\ Enabled # {}
      /\ spoiled' = spoiled /\ premature' = premature /\ covered' = covered
  BY DEF AcquireDerived, history
<1>2. PICK to \in DerivedStart..BeijingDate(now) : Stage(Matching(DerivedStart, to))
  BY DEF AcquireDerived
<1> DEFINE batch == Matching(DerivedStart, to)
<1>3. /\ DerivedStart \in Nat /\ to \in Nat
      /\ \A e \in Listed :
           ListingOf(e) \in Enabled /\ ~PassedBy(e) => DerivedStart <= Date(e)
  <2>1. BeijingDate(now) \in Nat
    BY DateArithmetic, DaysAssumption DEF Sound, Types, TypeOK
  <2> QED BY <1>1, <2>1, DerivedStartReaches
<1>4. batch \in SUBSET Listed
  BY Answer
<1>5. ASSUME NEW e \in Events, NEW f \in batch, Timely(e), ListingOf(e) = ListingOf(f),
             Date(e) <= Date(f)
      PROVE  e \in batch \/ Excused(e)
  <2>1. e \in Listed /\ Date(e) \in Nat /\ f \in Listed /\ Date(f) \in Nat
    BY <1>4, <1>5, ListedFields DEF Timely, Sound
  <2>2. ListingOf(e) \in Enabled /\ Date(f) \in DerivedStart..to
    BY <1>5, Answer
  <2>3. CASE PassedBy(e)
    BY <1>1, <1>5, <2>3 DEF Sound, Overtaken
  <2>4. CASE ~PassedBy(e)
    <3>1. Date(e) \in DerivedStart..to
      BY <1>3, <1>5, <2>1, <2>2, <2>4
    <3> QED BY <2>1, <2>2, <3>1, Answer
  <2> QED BY <2>3, <2>4
<1>6. /\ spoiled \subseteq Listed
      /\ covered \subseteq 1..Days /\ \A d \in covered : 2 * d <= now
  BY DEF Sound, Types, TypeOK, DaysPast
<1> HIDE DEF batch
<1> QED BY <1>1, <1>2, <1>4, <1>5, <1>6, StageSound DEF batch

-----------------------------------------------------------------------------
(* The plan *)

(* What a cycle considers, and what it may not yet have decided. *)
LEMMA BatchMembers ==
  ASSUME Sound, staged # None, NEW e \in Considered, NEW asOf \in Nat
  PROVE  /\ e \in Events /\ e \in Listed /\ ListingOf(e) \in Listings
         /\ e \in Batch /\ watch[ListingOf(e)] = "enabled"
         /\ Date(e) \in Nat \ {0} /\ Date(e) \in 1..Days + 1
         /\ (Known(e) <=> KnownNow(e)) /\ (Passed(e) <=> PassedBy(e))
         /\ (Due(e, asOf) <=> 2 * Date(e) <= asOf)
         /\ staged.batch[e] \in {1, 2}
<1>1. e \in Batch /\ ListingOf(e) \in Enabled
  BY DEF Considered
<1>2. e \in Listed /\ staged.batch[e] \in {1, 2} /\ watch[ListingOf(e)] = "enabled"
  BY <1>1 DEF Sound, BatchShape, Enabled
<1>3. /\ e \in Events /\ ListingOf(e) \in Listings
      /\ Date(e) \in Nat \ {0} /\ Date(e) \in 1..Days + 1
  BY <1>2, ListedFields DEF Sound
<1>4. (Known(e) <=> KnownNow(e)) /\ (Passed(e) <=> PassedBy(e))
  BY <1>2, KnownIsCommitted DEF Sound
<1>5. Due(e, asOf) <=> 2 * Date(e) <= asOf
  BY Closing DEF Due
<1> QED BY <1>1, <1>2, <1>3, <1>4, <1>5

(* The runner considers its whole batch, and all of it is due. *)
LEMMA RunnerConsiders ==
  ASSUME Sound, Rolling, staged # None, NEW e \in Batch
  PROVE  e \in Considered /\ Due(e, staged.at) /\ Date(e) >= RollingStart(staged.at)
BY Closing DEF Sound, BatchShape, Considered, Due

(* What a plan decides, at the as_of it is given. *)
Deciding(asOf) == Decided(Pending(asOf))

(* An event that a cycle finds passed but not known was listed late, or is   *)
(* excused.                                                                  *)
LEMMA PendingPassed ==
  ASSUME Sound, staged # None, NEW asOf \in Nat, NEW e \in Pending(asOf) \ Deciding(asOf)
  PROVE  e \in Listed /\ (Timely(e) => Excused(e))
<1>1. e \in Considered /\ ~Known(e) /\ Passed(e)
  BY DEF Pending, Deciding, Decided
<1>2. /\ e \in Events /\ e \in Listed /\ e \in Batch /\ Date(e) \in Nat
      /\ ~KnownNow(e) /\ PassedBy(e)
  BY <1>1, BatchMembers
<1>3. ASSUME Timely(e), ~Excused(e) PROVE FALSE
  <2>1. Rolling /\ Date(e) < RollingStart(ran)
    BY <1>2, <1>3 DEF Sound, Overtaken
  <2>2. ran < staged.at /\ Date(e) >= RollingStart(staged.at)
    BY <1>2, <2>1 DEF Sound, BatchShape
  <2>3. ran \in Nat /\ staged.at \in Nat /\ scope \in Scopes
    BY DaysAssumption DEF Sound, Types, TypeOK
  <2>4. RollingStart(ran) <= RollingStart(staged.at)
    BY <2>2, <2>3, RollingStartMonotone
  <2>5. RollingStart(ran) \in Nat /\ RollingStart(staged.at) \in Nat
    BY <2>3, RollingStartType
  <2> QED BY <1>2, <2>1, <2>2, <2>4, <2>5
<1> QED BY <1>2, <1>3

(* What a plan decides is new, not passed and due. *)
LEMMA DecidedDays ==
  ASSUME Sound, staged # None, NEW asOf \in 1..2 * Days, NEW f \in Deciding(asOf)
  PROVE  /\ f \in Batch /\ f \in Considered /\ f \in Events /\ ~KnownNow(f)
         /\ Date(f) \in Nat /\ Date(f) \in 0..Days /\ 2 * Date(f) <= asOf
         /\ staged.batch[f] \in {1, 2}
<1>1. f \in Considered /\ Due(f, asOf) /\ ~Known(f) /\ asOf \in Nat
  BY DaysAssumption DEF Deciding, Decided, Pending
<1>2. /\ f \in Batch /\ f \in Events /\ Date(f) \in Nat /\ ~KnownNow(f)
      /\ 2 * Date(f) <= asOf /\ staged.batch[f] \in {1, 2}
  BY <1>1, BatchMembers
<1> QED BY <1>1, <1>2, DaysAssumption

(* The cursor that a run leaves to a listing is the date of one of the       *)
(* events it decided, and the events it knew or decided are processed.       *)
LEMMA AdvancedEntry ==
  ASSUME Sound, staged # None, NEW asOf \in 1..2 * Days,
         NEW l \in Listings, watch[l] # "absent"
  PROVE  LET due == Deciding(asOf)
             next == Advanced(l, due)
         IN /\ next \in [processed : SUBSET (Events \X {1, 2}), cursor : 0..Days]
            /\ Merged[l].processed \subseteq next.processed
            /\ \A e \in due : ListingOf(e) = l => <<e, staged.batch[e]>> \in next.processed
            /\ \A e \in Events, v \in {1, 2} : <<e, v>> \in next.processed =>
                 <<e, v>> \in Merged[l].processed \/ (e \in due /\ ListingOf(e) = l)
            /\ \/ next.cursor = Merged[l].cursor
               \/ \E f \in due : ListingOf(f) = l /\ next.cursor = Date(f)
<1> DEFINE due == Deciding(asOf)
           mine == {e \in due : ListingOf(e) = l}
<1>1. Merged[l] \in [processed : SUBSET (Events \X {1, 2}), cursor : 0..Days]
  BY PriorEntry DEF Sound
<1>2. CASE mine = {}
  <2>1. Advanced(l, due) = Merged[l]
    BY <1>2 DEF Advanced
  <2> QED BY <1>1, <1>2, <2>1
<1>3. CASE mine # {}
  <2> DEFINE new == {<<e, staged.batch[e]>> : e \in mine}
             dates == {Date(e) : e \in mine}
  <2>1. Advanced(l, due) =
          [processed |-> Merged[l].processed \union new, cursor |-> Max(dates)]
    BY <1>3 DEF Advanced
  <2>2. ASSUME NEW e \in mine
        PROVE  /\ e \in Events /\ staged.batch[e] \in {1, 2}
               /\ Date(e) \in 0..Days + 1 /\ Date(e) \in 0..Days
    BY DecidedDays, DaysAssumption
  <2>3. new \in SUBSET (Events \X {1, 2})
    BY <2>2
  <2>4. Max(dates) \in dates
    <3>1. dates \in SUBSET (0..Days + 1) /\ dates # {}
      BY <1>3, <2>2
    <3> HIDE DEF dates
    <3> QED BY <3>1, LatestDay
  <2>5. PICK f \in mine : Max(dates) = Date(f)
    BY <2>4
  <2>6. /\ Advanced(l, due).processed = Merged[l].processed \union new
        /\ Advanced(l, due).cursor = Date(f)
    BY <2>1, <2>5
  <2>7. Advanced(l, due) \in [processed : SUBSET (Events \X {1, 2}), cursor : 0..Days]
    <3>1. Merged[l].processed \union new \in SUBSET (Events \X {1, 2})
      BY <1>1, <2>3
    <3>2. Max(dates) \in 0..Days
      BY <2>2, <2>5
    <3> HIDE DEF new, dates
    <3> QED BY <2>1, <3>1, <3>2
  <2>8. \A e \in due : ListingOf(e) = l => <<e, staged.batch[e]>> \in new
    OBVIOUS
  <2>9. \A e \in Events, v \in {1, 2} : <<e, v>> \in new => e \in due /\ ListingOf(e) = l
    OBVIOUS
  <2> QED BY <2>5, <2>6, <2>7, <2>8, <2>9
<1> QED BY <1>2, <1>3

LEMMA PlanRefusedSound == ASSUME Sound, PlanRefused PROVE Sound'
<1>1. staged # None /\ FailCycle(staged.at, Considered) /\ covered' = covered
  BY DEF PlanRefused
<1>2. /\ staged.at \in 1..now /\ Considered \in SUBSET Listed
      /\ Rolling => ran < staged.at
      /\ covered \subseteq 1..Days /\ \A d \in covered : 2 * d <= now
  BY <1>1 DEF Sound, Types, TypeOK, BatchShape, Considered, Batch, DaysPast
<1>3. Rolling /\ Window >= 2 =>
        \A d \in Nat \ {0} : 2 * d <= staged.at => d \in covered
  BY <1>1 DEF Sound, Covering
<1>4. Rolling =>
        \A e \in Events : Timely(e) /\ Date(e) \in covered =>
          decided[e] > 0 \/ e \in spoiled \/ e \in Considered
  BY <1>1, RunnerConsiders DEF Sound, Owing
<1> QED BY <1>1, <1>2, <1>3, <1>4, FailSound

(* The entries that a plan leaves behind. *)
LEMMA PlanEntries ==
  ASSUME Sound, staged # None, NEW asOf \in 1..2 * Days, PlanAt(asOf)
  PROVE  LET due == Deciding(asOf)
         IN /\ DOMAIN entries' \subseteq Listings
            /\ \A l \in DOMAIN entries' :
                 entries'[l] \in [processed : SUBSET (Events \X {1, 2}), cursor : 0..Days]
            /\ due = {} => entries' = entries
            /\ due # {} => \A l \in DOMAIN entries' :
                             watch[l] # "absent" /\ entries'[l] = Advanced(l, due)
            /\ due # {} => \A l \in Listings : watch[l] # "absent" => l \in DOMAIN entries'
<1> DEFINE due == Deciding(asOf)
<1>1. CASE due = {}
  <2>1. entries' = entries
    BY <1>1 DEF PlanAt, Deciding
  <2> QED BY <1>1, <2>1 DEF Sound, Types, TypeOK
<1>2. CASE due # {}
  <2>1. entries' = [l \in Watched |-> Advanced(l, due)]
    BY <1>2 DEF PlanAt, Deciding
  <2>2. \A l : l \in Watched <=> l \in Listings /\ watch[l] # "absent"
    BY DEF Watched
  <2>3. \A l \in DOMAIN entries' : l \in Watched /\ entries'[l] = Advanced(l, due)
    BY <2>1
  <2>4. \A l \in Watched : l \in DOMAIN entries'
    BY <2>1
  <2>5. \A l \in Watched :
          Advanced(l, due) \in [processed : SUBSET (Events \X {1, 2}), cursor : 0..Days]
    BY <2>2, AdvancedEntry
  <2> HIDE DEF due
  <2> QED BY <1>2, <2>2, <2>3, <2>4, <2>5 DEF due
<1> QED BY <1>1, <1>2

(* What the next state knows: what it knew of watched listings and what it   *)
(* decides.                                                                  *)
LEMMA PlanKnows ==
  ASSUME Sound, staged # None, NEW asOf \in 1..2 * Days, PlanAt(asOf), NEW e \in Events
  PROVE  /\ KnownNow(e)' => KnownNow(e) \/ e \in Deciding(asOf)
         /\ e \in Deciding(asOf) => KnownNow(e)'
         /\ KnownNow(e) => KnownNow(e)' \/ (Deciding(asOf) # {} /\ watch[ListingOf(e)] = "absent")
<1> DEFINE l == ListingOf(e)
           due == Deciding(asOf)
<1>0. l \in Listings /\ asOf \in Nat
  BY DaysAssumption DEF Events, ListingOf
<1>1. CASE due = {}
  <2>1. entries' = entries
    BY <1>1, PlanEntries
  <2> QED BY <1>1, <2>1 DEF KnownNow
<1>2. CASE due # {} /\ watch[l] = "absent"
  <2>1. l \notin DOMAIN entries'
    BY <1>2, PlanEntries
  <2>2. e \notin due
    BY <1>0, <1>2, DecidedDays, BatchMembers
  <2> QED BY <1>2, <2>1, <2>2 DEF KnownNow
<1>3. CASE due # {} /\ watch[l] # "absent"
  <2>1. l \in DOMAIN entries' /\ entries'[l] = Advanced(l, due)
    BY <1>0, <1>3, PlanEntries
  <2>2. /\ Merged[l].processed \subseteq Advanced(l, due).processed
        /\ e \in due => <<e, staged.batch[e]>> \in Advanced(l, due).processed
        /\ \A v \in {1, 2} : <<e, v>> \in Advanced(l, due).processed =>
             <<e, v>> \in Merged[l].processed \/ e \in due
    BY <1>0, <1>3, AdvancedEntry
  <2>3. e \in due => staged.batch[e] \in {1, 2}
    BY DecidedDays
  <2>4. /\ l \in DOMAIN entries => Merged[l] = entries[l]
        /\ l \notin DOMAIN entries => Merged[l].processed = {}
    BY <1>0, <1>3, PriorEntry DEF Sound, Fresh
  <2>5. KnownNow(e)' <=> \E v \in {1, 2} : <<e, v>> \in Advanced(l, due).processed
    BY <2>1 DEF KnownNow
  <2>6. KnownNow(e) <=> \E v \in {1, 2} : <<e, v>> \in Merged[l].processed
    BY <2>4 DEF KnownNow
  <2> HIDE DEF l, due
  <2> QED BY <1>3, <2>2, <2>3, <2>5, <2>6 DEF due
<1> QED BY <1>1, <1>2, <1>3

(* What a plan changes. *)
LEMMA PlanChanges ==
  ASSUME Sound, staged # None, NEW asOf \in 1..2 * Days, Rolling => asOf = staged.at,
         PlanAt(asOf)
  PROVE  /\ IF Rolling THEN staged' = None /\ ran' = staged.at
            ELSE staged' = staged /\ ran' = ran
         /\ now \in 1..2 * Days /\ now \in Nat /\ ran \in Nat /\ asOf \in Nat
         /\ scope \in Scopes
         /\ staged.at \in 1..now /\ staged.at \in Nat /\ (Rolling => ran < staged.at)
         /\ ran' \in 0..now /\ ran <= ran' /\ ran' \in Nat
         /\ stale' = stale \union (Pending(asOf) \ Deciding(asOf))
         /\ UNCHANGED <<scope, now, listed, watch, edits, spoiled, covered>>
         /\ Listed' = Listed /\ Enabled' = Enabled
         /\ \A e : Timely(e)' = Timely(e) /\ Date(e)' = Date(e)
         /\ \A e \in Events :
              decided'[e] = IF e \in Deciding(asOf) THEN decided[e] + 1 ELSE decided[e]
         /\ \A e \in Events : decided[e] \in Nat
         /\ \A l \in Listings :
              /\ dropped[l] \in Nat
              /\ dropped'[l] =
                   IF Deciding(asOf) # {} /\ l \in DOMAIN entries /\ watch[l] = "absent"
                   THEN dropped[l] + 1 ELSE dropped[l]
<1>1. /\ IF Rolling THEN staged' = None /\ ran' = staged.at
         ELSE staged' = staged /\ ran' = ran
      /\ stale' = stale \union (Pending(asOf) \ Deciding(asOf))
      /\ UNCHANGED <<scope, now, listed, watch, edits, spoiled, covered>>
  BY DEF PlanAt, Conclude, Deciding, world
<1>2. /\ staged.at \in 1..now /\ now \in 1..2 * Days /\ ran \in 0..now
      /\ now \in Nat /\ ran \in Nat /\ staged.at \in Nat /\ asOf \in Nat
      /\ scope \in Scopes
  BY DaysAssumption DEF Sound, Types, TypeOK
<1>3. Rolling => ran < staged.at
  BY DEF Sound, BatchShape
<1>4. ran' \in 0..now /\ ran <= ran' /\ ran' \in Nat
  BY <1>1, <1>2, <1>3
<1>5. Listed' = Listed /\ Enabled' = Enabled
  BY <1>1 DEF Listed, Enabled
<1>6. \A e : Timely(e)' = Timely(e) /\ Date(e)' = Date(e)
  BY <1>1, <1>5 DEF Timely, Date
<1>7. \A e \in Events :
        /\ decided'[e] = IF e \in Deciding(asOf) THEN decided[e] + 1 ELSE decided[e]
        /\ decided[e] \in Nat
  BY DEF PlanAt, Deciding, Sound, Types, TypeOK
<1>8. scope.edits \in Nat /\ dropped \in [Listings -> 0..scope.edits]
  BY ScopesAssumption DEF Sound, Types, TypeOK
<1>9. \A l \in Listings :
        /\ dropped[l] \in Nat
        /\ dropped'[l] =
             IF Deciding(asOf) # {} /\ l \in DOMAIN entries /\ watch[l] = "absent"
             THEN dropped[l] + 1 ELSE dropped[l]
  <2>1. CASE Deciding(asOf) = {}
    BY <1>8, <2>1 DEF PlanAt, Deciding
  <2>2. CASE Deciding(asOf) # {}
    BY <1>8, <2>2 DEF PlanAt, Deciding
  <2> QED BY <2>1, <2>2
<1> QED BY <1>1, <1>2, <1>3, <1>4, <1>5, <1>6, <1>7, <1>9

(* What a plan takes for over, and what it leaves excused. *)
LEMMA PlanPremature ==
  ASSUME Sound, staged # None, NEW asOf \in 1..2 * Days, Rolling => asOf = staged.at,
         PlanAt(asOf)
  PROVE  /\ premature \subseteq premature' /\ premature' \subseteq 1..Days
         /\ Rolling => premature' = {}
         /\ Deciding(asOf) # {} =>
              \A d \in Nat \ {0} :
                2 * d <= asOf => 2 * d <= staged.at \/ d \in premature'
         /\ Deciding(asOf) = {} => premature' = premature
         /\ \A e \in Events : Excused(e) => Excused(e)'
<1>1. premature' = premature \/ premature' = premature \union Premature(asOf)
  BY DEF PlanAt
<1>2. Premature(asOf) \subseteq 1..Days /\ premature \subseteq 1..Days
  BY DEF Premature, Sound, Types, TypeOK
<1>3. staged.at \in Nat /\ asOf \in Nat
  BY PlanChanges
<1>4. Rolling => Premature(asOf) = {} /\ premature = {}
  <2>1. ASSUME Rolling, NEW d \in Premature(asOf) PROVE FALSE
    <3>1. d \in Nat /\ staged.at < 2 * d /\ 2 * d <= staged.at
      BY <2>1, DaysAssumption, Closing DEF Premature
    <3> QED BY <1>3, <3>1
  <2> QED BY <2>1 DEF Sound, DaysPast
<1>5. ASSUME Deciding(asOf) # {}, NEW d \in Nat \ {0}, 2 * d <= asOf, ~(2 * d <= staged.at)
      PROVE  d \in premature'
  <2>1. staged.at < 2 * d /\ d \in 1..Days
    BY <1>3, <1>5, DaysAssumption
  <2>2. d \in Premature(asOf)
    BY <1>5, <2>1, Closing DEF Premature
  <2>3. premature' = premature \union Premature(asOf)
    BY <1>5 DEF PlanAt, Deciding
  <2> QED BY <2>2, <2>3
<1>6. Deciding(asOf) = {} => premature' = premature
  BY DEF PlanAt, Deciding
<1>7. ASSUME NEW e \in Events, Excused(e) PROVE Excused(e)'
  <2>1. decided[e] > 0 => decided'[e] > 0
    <3>1. decided[e] \in Nat /\ (decided'[e] = decided[e] \/ decided'[e] = decided[e] + 1)
      BY PlanChanges
    <3> QED BY <3>1
  <2>2. scope' = scope /\ Date(e)' = Date(e)
    BY PlanChanges
  <2> QED BY <1>1, <1>7, <2>1, <2>2, ExcusedStays, SameWindow
<1> QED BY <1>1, <1>2, <1>4, <1>5, <1>6, <1>7

LEMMA PlanDropping ==
  ASSUME Sound, staged # None, NEW asOf \in 1..2 * Days, Rolling => asOf = staged.at,
         PlanAt(asOf)
  PROVE  Dropping'
<1>1. ASSUME NEW l \in Listings
      PROVE  dropped'[l] + (IF l \in DOMAIN entries' /\ watch[l] = "absent" THEN 1 ELSE 0)
               <= edits
  <2>1. dropped[l] + (IF l \in DOMAIN entries /\ watch[l] = "absent" THEN 1 ELSE 0) <= edits
    BY DEF Sound, Dropping
  <2>2. CASE Deciding(asOf) = {}
    <3>1. entries' = entries /\ dropped' = dropped
      BY <2>2 DEF PlanAt, Deciding
    <3> QED BY <2>1, <3>1
  <2>3. CASE Deciding(asOf) # {}
    <3>1. ~(l \in DOMAIN entries' /\ watch[l] = "absent")
      BY <2>3, PlanEntries
    <3>2. /\ dropped[l] \in Nat
          /\ dropped'[l] = IF l \in DOMAIN entries /\ watch[l] = "absent"
                           THEN dropped[l] + 1 ELSE dropped[l]
      BY <2>3, PlanChanges
    <3>3. CASE l \in DOMAIN entries /\ watch[l] = "absent"
      BY <2>1, <3>1, <3>2, <3>3
    <3>4. CASE ~(l \in DOMAIN entries /\ watch[l] = "absent")
      <4>1. dropped[l] + 0 <= edits
        BY <2>1, <3>4
      <4>2. dropped'[l] = dropped[l]
        BY <3>2, <3>4
      <4>3. (IF l \in DOMAIN entries' /\ watch[l] = "absent" THEN 1 ELSE 0) = 0
        BY <3>1
      <4> QED BY <4>1, <4>2, <4>3
    <3> QED BY <3>3, <3>4
  <2> QED BY <2>2, <2>3
<1>2. watch' = watch /\ edits' = edits
  BY PlanChanges
<1> QED BY <1>1, <1>2 DEF Dropping

LEMMA PlanRemembers ==
  ASSUME Sound, staged # None, NEW asOf \in 1..2 * Days, Rolling => asOf = staged.at,
         PlanAt(asOf)
  PROVE  Remembered'
<1>1. ASSUME NEW e \in Events
      PROVE  /\ decided'[e] <= dropped'[ListingOf(e)] + (IF KnownNow(e)' THEN 1 ELSE 0)
             /\ KnownNow(e)' => decided'[e] > 0
  <2> DEFINE l == ListingOf(e)
  <2>1. /\ l \in Listings /\ dropped[l] \in Nat /\ decided[e] \in Nat
        /\ dropped'[l] = (IF /\ Deciding(asOf) # {} /\ l \in DOMAIN entries
                             /\ watch[l] = "absent"
                          THEN dropped[l] + 1 ELSE dropped[l])
        /\ decided'[e] = (IF e \in Deciding(asOf) THEN decided[e] + 1 ELSE decided[e])
    <3>1. l \in Listings
      BY DEF Events, ListingOf
    <3> QED BY <3>1, PlanChanges
  <2>2. /\ decided[e] <= dropped[l] + (IF KnownNow(e) THEN 1 ELSE 0)
        /\ KnownNow(e) => decided[e] > 0
    BY DEF Sound, Remembered
  <2>3. /\ KnownNow(e)' => KnownNow(e) \/ e \in Deciding(asOf)
        /\ e \in Deciding(asOf) => KnownNow(e)'
        /\ KnownNow(e) => KnownNow(e)' \/ (Deciding(asOf) # {} /\ watch[l] = "absent")
    BY PlanKnows
  <2>4. KnownNow(e) => l \in DOMAIN entries
    BY DEF KnownNow
  <2>5. e \in Deciding(asOf) => ~KnownNow(e)
    BY DecidedDays
  <2>6. dropped'[l] \in Nat /\ dropped[l] <= dropped'[l]
    BY <2>1
  <2>7. CASE e \in Deciding(asOf)
    <3>1. decided[e] <= dropped[l]
      <4>1. decided[e] <= dropped[l] + 0
        BY <2>2, <2>5, <2>7
      <4> QED BY <2>1, <4>1
    <3>2. decided'[e] = decided[e] + 1 /\ KnownNow(e)'
      BY <2>1, <2>3, <2>7
    <3>3. decided[e] + 1 <= dropped'[l] + 1 /\ decided[e] + 1 > 0
      <4> HIDE DEF l
      <4> QED BY <2>1, <2>6, <3>1
    <3> QED BY <3>2, <3>3
  <2>8. CASE e \notin Deciding(asOf) /\ KnownNow(e)
    <3>1. decided'[e] = decided[e] /\ decided[e] <= dropped[l] + 1 /\ decided[e] > 0
      BY <2>1, <2>2, <2>8
    <3>2. CASE KnownNow(e)'
      <4>1. decided[e] <= dropped'[l] + 1
        <5> HIDE DEF l
        <5> QED BY <2>1, <2>6, <3>1
      <4> QED BY <3>1, <3>2, <4>1
    <3>3. CASE ~KnownNow(e)'
      <4>1. dropped'[l] = dropped[l] + 1
        BY <2>1, <2>3, <2>4, <2>8, <3>3
      <4>2. (IF KnownNow(e)' THEN 1 ELSE 0) = 0
        BY <3>3
      <4>3. decided'[e] <= dropped'[l] + 0
        BY <2>1, <3>1, <4>1
      <4> QED BY <3>3, <4>2, <4>3
    <3> QED BY <3>2, <3>3
  <2>9. CASE e \notin Deciding(asOf) /\ ~KnownNow(e)
    <3>1. ~KnownNow(e)' /\ decided'[e] = decided[e]
      BY <2>1, <2>3, <2>9
    <3>2. decided[e] <= dropped[l] + 0
      BY <2>2, <2>9
    <3>3. decided'[e] <= dropped'[l] + 0
      <4> HIDE DEF l
      <4> QED BY <2>1, <2>6, <3>1, <3>2
    <3>4. (IF KnownNow(e)' THEN 1 ELSE 0) = 0
      BY <3>1
    <3> QED BY <3>1, <3>3, <3>4
  <2> QED BY <2>7, <2>8, <2>9
<1> QED BY <1>1 DEF Remembered

LEMMA PlanCursorsPast ==
  ASSUME Sound, staged # None, NEW asOf \in 1..2 * Days, Rolling => asOf = staged.at,
         PlanAt(asOf)
  PROVE  CursorsPast' /\ DaysPast'
<1>1. ASSUME NEW l \in DOMAIN entries', NEW d \in 1..entries'[l].cursor
      PROVE  2 * d <= now \/ d \in premature'
  <2>0. premature \subseteq premature'
    BY PlanPremature
  <2>1. CASE Deciding(asOf) = {}
    <3>1. entries' = entries
      BY <2>1, PlanEntries
    <3> QED BY <1>1, <2>0, <3>1 DEF Sound, CursorsPast
  <2>2. CASE Deciding(asOf) # {}
    <3>1. /\ l \in Listings /\ watch[l] # "absent"
          /\ entries'[l] = Advanced(l, Deciding(asOf)) /\ entries'[l].cursor \in 0..Days
      BY <2>2, PlanEntries
    <3>2. d \in Nat \ {0} /\ d <= entries'[l].cursor
      BY <3>1, DaysAssumption
    <3>3. CASE entries'[l].cursor = Merged[l].cursor
      <4>1. CASE l \in DOMAIN entries
        <5>1. Merged[l] = entries[l]
          BY <3>1, <4>1, PriorEntry DEF Sound
        <5> QED BY <2>0, <3>3, <4>1, <5>1 DEF Sound, CursorsPast
      <4>2. CASE l \notin DOMAIN entries
        <5>1. Merged[l].cursor = 0
          BY <3>1, <4>2, PriorEntry DEF Sound, Fresh
        <5> QED BY <3>2, <3>3, <5>1
      <4> QED BY <4>1, <4>2
    <3>4. CASE entries'[l].cursor # Merged[l].cursor
      <4>1. PICK f \in Deciding(asOf) : entries'[l].cursor = Date(f)
        BY <3>1, <3>4, AdvancedEntry
      <4>2. 2 * d <= asOf
        <5>1. 2 * Date(f) <= asOf /\ Date(f) \in Nat /\ d <= Date(f)
          BY <3>2, <4>1, DecidedDays
        <5> QED BY <3>2, <5>1
      <4>3. 2 * d <= staged.at \/ d \in premature'
        BY <2>2, <3>2, <4>2, PlanPremature
      <4>4. staged.at \in 1..now /\ now \in Nat
        BY PlanChanges
      <4> QED BY <3>2, <4>3, <4>4
    <3> QED BY <3>3, <3>4
  <2> QED BY <2>1, <2>2
<1>2. /\ now' = now /\ covered' = covered /\ scope' = scope
      /\ Rolling => premature' = {}
  BY PlanChanges, PlanPremature
<1>3. CursorsPast'
  BY <1>1, <1>2 DEF CursorsPast
<1>4. DaysPast'
  BY <1>2, SameWindow DEF Sound, DaysPast
<1> QED BY <1>3, <1>4

LEMMA PlanOvertakes ==
  ASSUME Sound, staged # None, NEW asOf \in 1..2 * Days, Rolling => asOf = staged.at,
         PlanAt(asOf)
  PROVE  Overtaken'
<1>0. /\ IF Rolling THEN staged' = None /\ ran' = staged.at
         ELSE staged' = staged /\ ran' = ran
      /\ ran \in Nat /\ ran' \in Nat /\ ran <= ran'
      /\ asOf \in Nat /\ scope \in Scopes /\ scope' = scope
      /\ \A e \in Events : Excused(e) => Excused(e)'
      /\ \A e : Timely(e)' = Timely(e) /\ Date(e)' = Date(e)
  BY PlanChanges, PlanPremature
<1>1. /\ RollingStart(ran)' = RollingStart(ran')
      /\ RollingStart(ran) <= RollingStart(ran')
      /\ RollingStart(ran) \in Nat /\ RollingStart(ran') \in Nat
  <2>1. RollingStart(ran)' = RollingStart(ran')
    BY <1>0 DEF RollingStart, UtcDate, Window
  <2> QED BY <1>0, <2>1, RollingStartMonotone, RollingStartType
<1> DEFINE Behind(e) == Rolling /\ Date(e) < RollingStart(ran')
<1>2. ASSUME NEW e \in Events, Timely(e), PassedBy(e)
      PROVE  (Rolling /\ KnownNow(e)) \/ Behind(e) \/ Excused(e)
  <2>1. (Rolling /\ (KnownNow(e) \/ Date(e) < RollingStart(ran))) \/ Excused(e)
    BY <1>2 DEF Sound, Overtaken
  <2>2. Date(e) \in Nat
    BY <1>2, ListedFields DEF Timely, Sound
  <2> QED BY <1>1, <2>1, <2>2
<1>3. ASSUME NEW e \in Events, Timely(e), PassedBy(e)'
      PROVE  (Rolling /\ KnownNow(e)') \/ Behind(e) \/ Excused(e)'
  <2> DEFINE l == ListingOf(e)
  <2>0. e \in Listed /\ l \in Listings /\ Date(e) \in Nat \ {0}
    BY <1>3, ListedFields DEF Timely, Sound
  <2>1. l \in DOMAIN entries' /\ Date(e) <= entries'[l].cursor
    BY <1>0, <1>3 DEF PassedBy
  <2>2. CASE Deciding(asOf) = {}
    <3>1. entries' = entries
      BY <2>2, PlanEntries
    <3>2. PassedBy(e) /\ KnownNow(e)' = KnownNow(e)
      BY <2>1, <3>1 DEF PassedBy, KnownNow
    <3> QED BY <1>0, <1>2, <1>3, <3>2
  <2>3. CASE Deciding(asOf) # {}
    <3>1. watch[l] # "absent" /\ entries'[l] = Advanced(l, Deciding(asOf))
      BY <2>1, <2>3, PlanEntries
    <3>2. KnownNow(e) => KnownNow(e)'
      BY <3>1, PlanKnows
    <3>3. CASE PassedBy(e)
      BY <1>0, <1>2, <1>3, <3>2, <3>3
    <3>4. CASE ~PassedBy(e)
      <4>1. Advanced(l, Deciding(asOf)).cursor # Merged[l].cursor
        <5>1. ASSUME Advanced(l, Deciding(asOf)).cursor = Merged[l].cursor PROVE FALSE
          <6>1. CASE l \in DOMAIN entries
            BY <2>0, <2>1, <3>1, <3>4, <5>1, <6>1, PriorEntry DEF PassedBy, Sound
          <6>2. CASE l \notin DOMAIN entries
            <7>1. Merged[l].cursor = 0
              BY <2>0, <3>1, <6>2, PriorEntry DEF Sound, Fresh
            <7> QED BY <2>0, <2>1, <3>1, <5>1, <7>1
          <6> QED BY <6>1, <6>2
        <5> QED BY <5>1
      <4>2. PICK f \in Deciding(asOf) :
              ListingOf(f) = l /\ Advanced(l, Deciding(asOf)).cursor = Date(f)
        BY <2>0, <3>1, <4>1, AdvancedEntry
      <4>3. /\ f \in Batch /\ 2 * Date(f) <= asOf /\ Date(f) \in Nat
            /\ Date(e) <= Date(f)
        BY <2>1, <3>1, <4>2, DecidedDays
      <4>4. 2 * Date(e) <= asOf
        BY <1>0, <2>0, <4>3
      <4>5. CASE Date(e) \in premature'
        <5>1. ~Rolling
          BY <4>5, PlanPremature
        <5> QED BY <1>0, <4>5, <5>1, SameWindow DEF Excused
      <4>6. CASE Behind(e)
        BY <4>6
      <4>7. CASE Date(e) \notin premature' /\ ~Behind(e)
        <5>1. 2 * Date(e) <= staged.at
          BY <2>0, <2>3, <4>4, <4>7, PlanPremature
        <5>2. Rolling => Date(e) >= RollingStart(staged.at)
          <6>1. ASSUME Rolling PROVE Date(e) >= RollingStart(staged.at)
            <7>1. ran' = staged.at /\ ~(Date(e) < RollingStart(ran'))
              BY <1>0, <4>7, <6>1
            <7> QED BY <1>1, <2>0, <7>1
          <6> QED BY <6>1
        <5>3. e \in Batch \/ Excused(e)
          BY <1>3, <4>2, <4>3, <5>1, <5>2 DEF Sound, BatchComplete
        <5>4. ASSUME e \in Batch PROVE KnownNow(e) \/ e \in Deciding(asOf)
          <6>1. watch[l] = "enabled"
            <7>1. f \in Considered
              BY DecidedDays
            <7> QED BY <1>0, <4>2, <7>1, BatchMembers
          <6>2. e \in Considered
            BY <2>0, <5>4, <6>1 DEF Considered, Enabled
          <6>3. ~Passed(e) /\ Due(e, asOf) /\ (Known(e) <=> KnownNow(e))
            BY <1>0, <3>4, <4>4, <6>2, BatchMembers
          <6> QED BY <6>2, <6>3 DEF Deciding, Decided, Pending
        <5>5. e \in Batch => KnownNow(e)'
          BY <3>2, <5>4, PlanKnows
        <5>6. KnownNow(e)' /\ ~Rolling => Excused(e)'
          <6>1. KnownNow(e)' => decided'[e] > 0
            BY PlanRemembers DEF Remembered
          <6> QED BY <1>0, <6>1, SameWindow DEF Excused
        <5> QED BY <1>0, <5>3, <5>5, <5>6
      <4> QED BY <4>5, <4>6, <4>7
    <3> QED BY <3>3, <3>4
  <2> QED BY <2>2, <2>3
<1> QED BY <1>0, <1>1, <1>3, SameWindow DEF Overtaken

LEMMA PlanOwes ==
  ASSUME Sound, staged # None, NEW asOf \in 1..2 * Days, Rolling => asOf = staged.at,
         PlanAt(asOf)
  PROVE  Owing'
<1>1. ASSUME Rolling, NEW e \in Events, Timely(e), Date(e) \in covered
      PROVE  decided'[e] > 0 \/ e \in spoiled
  <2>1. /\ decided[e] \in Nat /\ asOf \in Nat
        /\ decided'[e] = (IF e \in Deciding(asOf) THEN decided[e] + 1 ELSE decided[e])
    BY PlanChanges
  <2>2. decided[e] > 0 \/ e \in spoiled \/ e \in Batch
    BY <1>1 DEF Sound, Owing
  <2>3. CASE decided[e] > 0
    BY <2>1, <2>3
  <2>4. CASE e \in Batch /\ ~(decided[e] > 0)
    <3>1. e \in Considered /\ Due(e, asOf)
      BY <1>1, <2>4, RunnerConsiders
    <3>2. ~Known(e)
      <4>1. ~KnownNow(e)
        BY <2>4 DEF Sound, Remembered
      <4> QED BY <2>1, <3>1, <4>1, BatchMembers
    <3>3. e \in Pending(asOf)
      BY <3>1, <3>2 DEF Pending
    <3>4. ~Excused(e)
      BY <1>1 DEF Excused
    <3>5. e \in Deciding(asOf)
      BY <1>1, <2>1, <3>3, <3>4, PendingPassed
    <3> QED BY <2>1, <3>5
  <2> QED BY <2>2, <2>3, <2>4
<1>2. /\ scope' = scope /\ spoiled' = spoiled /\ covered' = covered
      /\ \A e : Timely(e)' = Timely(e) /\ Date(e)' = Date(e)
  BY PlanChanges
<1> QED BY <1>1, <1>2, SameWindow DEF Owing

LEMMA PlanSound ==
  ASSUME Sound, staged # None, NEW asOf \in 1..2 * Days, Rolling => asOf = staged.at,
         PlanAt(asOf)
  PROVE  Sound'
<1>1. Types'
  <2>1. DOMAIN entries' \subseteq Listings /\
        \A l \in DOMAIN entries' :
          entries'[l] \in [processed : SUBSET (Events \X {1, 2}), cursor : 0..Days]
    BY PlanEntries
  <2>2. dropped' \in [Listings -> 0..scope.edits]
    <3>1. scope.edits \in Nat /\ edits \in 0..scope.edits /\ edits' = edits
      BY ScopesAssumption, PlanChanges DEF Sound, Types, TypeOK
    <3>2. dropped' = [l \in Listings |-> dropped'[l]]
      <4>1. CASE Deciding(asOf) = {}
        BY <4>1 DEF PlanAt, Deciding, Sound, Types, TypeOK
      <4>2. CASE Deciding(asOf) # {}
        BY <4>2 DEF PlanAt, Deciding
      <4> QED BY <4>1, <4>2
    <3>3. ASSUME NEW l \in Listings PROVE dropped'[l] \in 0..scope.edits
      <4>1. dropped'[l] + (IF l \in DOMAIN entries' /\ watch'[l] = "absent" THEN 1 ELSE 0)
              <= edits
        BY <3>1, PlanDropping DEF Dropping
      <4>2. dropped'[l] \in Nat
        <5>1. /\ dropped[l] \in Nat
              /\ dropped'[l] = dropped[l] \/ dropped'[l] = dropped[l] + 1
          BY PlanChanges
        <5> QED BY <5>1
      <4>3. dropped'[l] <= edits
        <5>1. \A d \in {0, 1} : dropped'[l] + d <= edits => dropped'[l] <= edits
          BY <3>1, <4>2
        <5> QED BY <4>1, <5>1
      <4> QED BY <3>1, <4>2, <4>3
    <3> QED BY <3>2, <3>3
  <2>3. decided' \in [Events -> Nat]
    <3>1. \A e \in Events : decided'[e] \in Nat
      BY PlanChanges
    <3>2. decided' = [e \in Events |-> decided'[e]]
      BY DEF PlanAt
    <3> QED BY <3>1, <3>2
  <2>4. stale' \union spoiled' \subseteq Listed'
    <3>1. asOf \in Nat
      BY PlanChanges
    <3>2. Pending(asOf) \ Deciding(asOf) \subseteq Listed
      BY <3>1, PendingPassed
    <3> QED BY <3>2, PlanChanges DEF Sound, Types, TypeOK
  <2>5. covered' \union premature' \subseteq 1..Days
    BY PlanChanges, PlanPremature DEF Sound, Types, TypeOK
  <2>6. /\ UNCHANGED <<scope, now, listed, watch, edits>> /\ Listed' = Listed
        /\ ran' \in 0..now /\ (staged' = None \/ staged' = staged)
    BY PlanChanges
  <2>7. staged' # None => staged'.at \in 1..now' /\ DOMAIN staged'.batch \subseteq Listed'
    BY <2>6 DEF Sound, Types, TypeOK
  <2> QED BY <2>1, <2>2, <2>3, <2>4, <2>5, <2>6, <2>7 DEF Sound, Types, TypeOK
<1>2. /\ IF Rolling THEN staged' = None /\ ran' = staged.at
         ELSE staged' = staged /\ ran' = ran
      /\ now \in Nat /\ ran \in Nat /\ ran' \in Nat /\ ran <= ran'
      /\ scope' = scope /\ now' = now /\ covered' = covered
      /\ Listed' = Listed /\ Enabled' = Enabled
      /\ \A e : Timely(e)' = Timely(e) /\ Date(e)' = Date(e)
      /\ \A e \in Events : Excused(e) => Excused(e)'
  BY PlanChanges, PlanPremature
<1>3. Scheduled'
  <2>1. ASSUME Rolling PROVE now <= ran' + 2
    <3>1. now <= ran + 2
      BY <2>1 DEF Sound, Scheduled
    <3>2. \A a, b, c \in Nat : a <= b + 2 /\ b <= c => a <= c + 2
      OBVIOUS
    <3> QED BY <1>2, <3>1, <3>2
  <2> QED BY <1>2, <2>1, SameWindow DEF Scheduled
<1>4. Covering'
  BY <1>2, SameWindow DEF Sound, Covering
<1>5. BatchShape' /\ BatchComplete'
  <2>1. CASE Rolling
    BY <1>2, <2>1 DEF BatchShape, BatchComplete
  <2>2. CASE ~Rolling
    <3>1. staged' = staged /\ Batch' = Batch /\ ~Rolling'
      BY <1>2, <2>2, SameWindow DEF Batch
    <3>2. BatchShape'
      BY <1>2, <2>2, <3>1 DEF Sound, BatchShape
    <3>3. BatchComplete'
      BY <1>2, <2>2, <3>1 DEF Sound, BatchComplete
    <3> QED BY <3>2, <3>3
  <2> QED BY <2>1, <2>2
<1>6. StaleLate'
  <2>1. ASSUME NEW e \in stale' PROVE e \in Listed /\ (Timely(e) => Excused(e)')
    <3>1. e \in stale \/ e \in Pending(asOf) \ Deciding(asOf)
      BY <2>1, PlanChanges
    <3>2. asOf \in Nat
      BY PlanChanges
    <3>3. e \in Listed /\ (Timely(e) => Excused(e))
      BY <3>1, <3>2, PendingPassed DEF Sound, StaleLate
    <3>4. e \in Events
      BY <3>3 DEF Listed
    <3> QED BY <1>2, <3>3, <3>4
  <2> QED BY <1>2, <2>1 DEF StaleLate
<1> QED BY <1>1, <1>3, <1>4, <1>5, <1>6, PlanDropping, PlanRemembers, PlanCursorsPast,
          PlanOvertakes, PlanOwes DEF Sound

(* The as_of of a plan. *)
LEMMA PlanIsSound == ASSUME Sound, Plan PROVE Sound'
<1>1. PICK asOf \in AsOfs : PlanAt(asOf)
  BY DEF Plan
<1>2. staged # None
  BY DEF Plan
<1>3. asOf \in 1..2 * Days /\ (Rolling => asOf = staged.at)
  <2>1. CASE Rolling
    BY <1>2, <2>1, DaysAssumption DEF AsOfs, Sound, Types, TypeOK
  <2>2. CASE ~Rolling
    <3>1. PICK d \in 1..Days : asOf = 2 * d
      BY <2>2, Closing DEF AsOfs
    <3> QED BY <2>2, <3>1, DaysAssumption
  <2> QED BY <2>1, <2>2
<1> QED BY <1>1, <1>2, <1>3, PlanSound

-----------------------------------------------------------------------------
(* The theorems *)

LEMMA SoundStep == Sound /\ [Next]_vars => Sound'
<1> SUFFICES ASSUME Sound, [Next]_vars PROVE Sound'
  OBVIOUS
<1>1. CASE UNCHANGED vars
  <2>1. UNCHANGED <<scope, now, listed, watch, entries, staged, ran, decided, stale,
                    spoiled, covered, premature, dropped, edits>>
    BY <1>1 DEF vars, world, committed, history
  <2>2. Listed' = Listed
    BY <2>1 DEF Listed
  <2>3. Types'
    BY <2>1, <2>2 DEF Sound, Types, TypeOK
  <2>4. Grows
    BY <2>1, <2>2 DEF Grows, Date
  <2>5. now <= now' /\ (Rolling => now' <= ran + 2)
    BY <2>1, DaysAssumption DEF Sound, Types, TypeOK, Scheduled
  <2> QED BY <2>1, <2>3, <2>4, <2>5, WorldStep
<1> QED BY <1>1, DiscloseSound, AmendSound, TickSound, EditWatchlistSound,
          AcquireRollingSound, CycleFailsSound, AcquireDerivedSound, PlanIsSound,
          PlanRefusedSound DEF Next

(* Every reachable state of the plan, the acquisition and the committed     *)
(* cursors satisfies the inductive invariant.                               *)
THEOREM SoundAlways == Spec => []Sound
BY SoundInit, SoundStep, PTL DEF Spec

(* Every variable keeps its type, and a listing is dropped at most once per  *)
(* edit of the watchlist.                                                    *)
THEOREM TypeAlways == Spec => []TypeOK
<1>1. Sound => TypeOK
  BY DEF Sound, Types
<1> QED BY <1>1, SoundAlways, PTL

(* Whatever is listed in time is never skipped as older than the cursor, for *)
(* the runner's window and for the derived one, for every watchlist, page    *)
(* limit, window, as_of and order of disclosures, unless the operator        *)
(* decided it before or had an as_of take its day for over too early.        *)
THEOREM StaleAlwaysLate == Spec => []StaleMeansLate
<1>1. Sound => StaleMeansLate
  BY DEF Sound, StaleLate, StaleMeansLate
<1> QED BY <1>1, SoundAlways, PTL

(* No event is planned twice while its listing stays on the watchlist. *)
THEOREM DecidedOnceAlways == Spec => []DecidedOnce
<1>1. ASSUME Sound, NEW e \in Events PROVE decided[e] <= 1 + dropped[ListingOf(e)]
  <2>1. ListingOf(e) \in Listings
    BY DEF Events, ListingOf
  <2>2. scope.edits \in Nat
    BY <1>1, ScopesAssumption DEF Sound, Types
  <2>3. dropped[ListingOf(e)] \in Nat /\ decided[e] \in Nat
    BY <1>1, <2>1, <2>2 DEF Sound, Types, TypeOK
  <2>4. decided[e] <= dropped[ListingOf(e)] + (IF KnownNow(e) THEN 1 ELSE 0)
    BY <1>1 DEF Sound, Remembered
  <2>5. \A d \in {0, 1} : decided[e] <= dropped[ListingOf(e)] + d
                          => decided[e] <= 1 + dropped[ListingOf(e)]
    BY <2>3
  <2> QED BY <2>4, <2>5
<1>2. Sound => DecidedOnce
  BY <1>1 DEF DecidedOnce
<1> QED BY <1>2, SoundAlways, PTL

(* A cursor stands for everything up to it: no filing that was listed in     *)
(* time is behind the cursor of its listing and undecided, except where a    *)
(* cycle of the runner that owed it failed or left its listing out, where a  *)
(* window of one day missed its day, or where a replay of the operator took  *)
(* its day for over before the acquisition had seen it end.                  *)
THEOREM PassedAlwaysDecided == Spec => []PassedIsDecided
<1>1. ASSUME Sound, NEW e \in Events, Timely(e), PassedBy(e)
      PROVE  \/ decided[e] > 0
             \/ Rolling /\ (e \in spoiled \/ Missed(Date(e)))
             \/ ~Rolling /\ Date(e) \in premature
  <2>1. (Rolling /\ (KnownNow(e) \/ Date(e) < RollingStart(ran))) \/ Excused(e)
    BY <1>1 DEF Sound, Overtaken
  <2>2. CASE Excused(e)
    BY <2>2 DEF Excused
  <2>3. CASE KnownNow(e)
    BY <1>1, <2>3 DEF Sound, Remembered
  <2>4. CASE Rolling /\ Date(e) < RollingStart(ran)
    <3>1. Date(e) \in Nat \ {0} /\ ran \in Nat /\ scope \in Scopes
      BY <1>1, ListedFields, DaysAssumption DEF Timely, Sound, Types, TypeOK
    <3>2. 2 * Date(e) <= ran
      BY <2>4, <3>1, BeforeWindow
    <3>3. CASE Date(e) \notin covered
      <4>1. ~(Window >= 2)
        BY <1>1, <2>4, <3>1, <3>2, <3>3 DEF Sound, Covering
      <4>2. Window = 1
        BY <3>1, <4>1, WindowType
      <4> QED BY <2>4, <3>3, <4>2 DEF Missed
    <3>4. CASE Date(e) \in covered
      <4>1. decided[e] > 0 \/ e \in spoiled \/ (staged # None /\ e \in Batch)
        BY <1>1, <2>4, <3>4 DEF Sound, Owing
      <4>2. ASSUME staged # None, e \in Batch PROVE FALSE
        <5>1. ran < staged.at /\ Date(e) >= RollingStart(staged.at)
          BY <1>1, <2>4, <4>2 DEF Sound, BatchShape
        <5>2. staged.at \in Nat
          BY <1>1, <4>2, DaysAssumption DEF Sound, Types, TypeOK
        <5>3. RollingStart(ran) <= RollingStart(staged.at)
          BY <3>1, <5>1, <5>2, RollingStartMonotone
        <5>4. RollingStart(ran) \in Nat /\ RollingStart(staged.at) \in Nat
          BY <3>1, <5>2, RollingStartType
        <5> QED BY <2>4, <3>1, <5>1, <5>3, <5>4
      <4> QED BY <2>4, <4>1, <4>2
    <3> QED BY <3>3, <3>4
  <2> QED BY <2>1, <2>2, <2>3, <2>4
<1>2. Sound => PassedIsDecided
  BY <1>1 DEF PassedIsDecided, PassedBy
<1> QED BY <1>2, SoundAlways, PTL
=============================================================================
