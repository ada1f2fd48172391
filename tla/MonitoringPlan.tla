--------------------------- MODULE MonitoringPlan ---------------------------
(***************************************************************************)
(* From the official disclosure list to the committed watchlist state:     *)
(* acquisition of a window of publication dates                            *)
(* (monitoring_acquisition/service.py, mapping.py) and the plan that       *)
(* decides, defers, skips or excludes each event and moves the cursors     *)
(* (monitoring/service.py), driven either by the unattended runner with a  *)
(* rolling window or by the operator with a window derived from the        *)
(* cursors (cli.py).                                                       *)
(*                                                                         *)
(* A source gives a date and no time.  Time is counted in half days of     *)
(* UTC: 2d - 1 is the part of the day d before the end of the Beijing day  *)
(* d (16:00 UTC), 2d the part after it, when Beijing already writes d + 1. *)
(* One cycle is one acquisition and one commit; what a cycle does when it  *)
(* is interrupted is the subject of MonitoringCycle.                       *)
(***************************************************************************)
EXTENDS Naturals, FiniteSets, FiniteSetsExt

CONSTANTS
  Listings,    \* the listings an owner may watch
  MaxFilings,  \* bound: filings of one listing
  Days,        \* bound: calendar days
  None,        \* nothing staged, not listed
  Scopes       \* the situations to explore

ASSUME DaysAssumption == Days \in Nat \ {0}
ASSUME FilingsAssumption == MaxFilings \in Nat
ASSUME NoneAssumption ==
  /\ None \notin [date : Nat, late : BOOLEAN, version : Nat]
  /\ None \notin [at : Nat, batch : UNION {[events -> {1, 2}] :
                                  events \in SUBSET (Listings \X (1..MaxFilings))}]
ASSUME ScopesAssumption ==
  Scopes \subseteq [driver : {"runner", "operator"}, window : Nat \ {0},
                    filings : [Listings -> Nat], limit : Nat, backdated : BOOLEAN,
                    amendments : BOOLEAN, hasty : BOOLEAN, edits : Nat]

VARIABLES
  scope,     \* who drives the cycles, the runner's window_days, the limit of
             \* a query, and the inputs
  now,       \* the current half day
  listed,    \* what the source lists: date, whether listed late, version
  watch,     \* the watchlist: enabled, disabled or absent
  entries,   \* the committed state: processed versions and cursor per listing
  staged,    \* the batch of the runner's cycle, or the operator's batch file
  ran,       \* the as_of of the runner's latest concluded cycle
  decided,   \* how often each event was decided
  stale,     \* events a cycle skipped as older than the cursor
  spoiled,   \* events due in the window of a runner's cycle that failed or
             \* left their listing out
  covered,   \* days in the window of a cycle of the runner that came after them
  premature, \* days that a plan of the operator took for over and that were not
             \* over when its batch was acquired
  dropped,   \* how often a listing lost its entry
  edits      \* how often the owner edited the watchlist

world == <<scope, now, listed, watch, edits>>
committed == <<entries, ran, decided, stale, dropped>>
history == <<spoiled, covered, premature>>
vars == <<world, committed, history, staged>>

(* The n-th filing of a listing: the source gives each its own identity. *)
Events == Listings \X (1..MaxFilings)
ListingOf(e) == e[1]

Rolling == scope.driver = "runner"
Window == scope.window

UtcDate(t) == (t + 1) \div 2
BeijingDate(t) == t \div 2 + 1

(* The end of a Beijing day, before which the source may list its filings. *)
Close(date) == 2 * date

(* conservative_available_at: the last instant of the Beijing day. *)
Available_opens(date) == 2 * date - 2
Available(date) == Close(date)

Listed == {e \in Events : listed[e] # None}
Date(e) == listed[e].date
Of(listing) == {e \in Listed : ListingOf(e) = listing}
Enabled == {l \in Listings : watch[l] = "enabled"}
Watched == {l \in Listings : watch[l] # "absent"}

Fresh == [processed |-> {}, cursor |-> 0]

(* _merged_state_entries: prior entries for the current watchlist. *)
Merged_enabled ==
  [l \in Watched |-> IF l \in DOMAIN entries /\ l \in Enabled THEN entries[l] ELSE Fresh]
Merged == [l \in Watched |-> IF l \in DOMAIN entries THEN entries[l] ELSE Fresh]

-----------------------------------------------------------------------------
Init ==
  /\ scope \in Scopes
  /\ now = 1
  /\ listed = [e \in Events |-> None]
  /\ watch = [l \in Listings |-> "enabled"]
  /\ entries = [l \in {} |-> Fresh]
  /\ staged = None
  /\ ran = 0
  /\ decided = [e \in Events |-> 0]
  /\ stale = {}
  /\ spoiled = {}
  /\ covered = {}
  /\ premature = {}
  /\ dropped = [l \in Listings |-> 0]
  /\ edits = 0

(* The source lists its next filing, under today's date or an earlier one. *)
Disclose ==
  /\ \E e \in Events \ Listed, date \in 1..BeijingDate(now) :
       /\ e[2] <= scope.filings[ListingOf(e)]
       /\ \A n \in 1..(e[2] - 1) : <<ListingOf(e), n>> \in Listed
       /\ scope.backdated \/ date = BeijingDate(now)
       /\ listed' = [listed EXCEPT
            ![e] = [date |-> date, late |-> now >= Close(date), version |-> 1]]
  /\ UNCHANGED <<scope, now, watch, edits, committed, history, staged>>

(* The source changes the title or the class of a filing it has listed. *)
Amend ==
  /\ scope.amendments
  /\ \E e \in Listed :
       /\ listed[e].version = 1
       /\ listed' = [listed EXCEPT ![e].version = 2]
  /\ UNCHANGED <<scope, now, watch, edits, committed, history, staged>>

(* Time passes.  The runner is scheduled at least once in two half days. *)
Tick ==
  /\ now < 2 * Days
  /\ Rolling => now <= ran + 1
  /\ now' = now + 1
  /\ UNCHANGED <<scope, listed, watch, edits, committed, history, staged>>

(* The file is read by every command of the operator; a cycle of the runner  *)
(* in flight keeps the watchlist that it froze.                              *)
EditWatchlist ==
  /\ Rolling => staged = None
  /\ edits < scope.edits
  /\ \E l \in Listings, setting \in {"enabled", "disabled", "absent"} :
       /\ setting # watch[l]
       /\ watch' = [watch EXCEPT ![l] = setting]
  /\ edits' = edits + 1
  /\ UNCHANGED <<scope, now, listed, committed, history, staged>>

-----------------------------------------------------------------------------
(* The runner freezes as_of and the window of the last window_days dates. *)
RollingStart_short(asOf) ==
  IF UtcDate(asOf) + 1 < Window THEN 1 ELSE UtcDate(asOf) - Window + 2
RollingStart(asOf) ==
  IF UtcDate(asOf) < Window THEN 1 ELSE UtcDate(asOf) - Window + 1

(* derive_window_start_from_state, or the explicit start it asks for when  *)
(* a listing has no cursor: then the operator goes back to the first day.  *)
HaveCursors == \A l \in Enabled : l \in DOMAIN entries /\ entries[l].cursor > 0
DerivedStart_latest ==
  IF HaveCursors THEN Max({entries[l].cursor + 1 : l \in Enabled}) ELSE 1
DerivedStart ==
  IF HaveCursors THEN Min({entries[l].cursor + 1 : l \in Enabled}) ELSE 1

Matching(from, to) == {e \in UNION {Of(l) : l \in Enabled} : Date(e) \in from..to}

(* One page: a listing with more filings than the limit is refused whole. *)
Complete(from, to) ==
  /\ Enabled # {}
  /\ \A l \in Enabled : Cardinality(Of(l) \intersect Matching(from, to)) <= scope.limit

(* The days of a window that are over, and what a cycle with this window     *)
(* owes a decision, whoever is enabled.                                      *)
Over(from, to) == {d \in from..to : Available(d) <= now}
Owed(from, to) == {e \in Listed : Date(e) \in Over(from, to)}

Stage(batch) ==
  /\ staged' = [at |-> now, batch |-> [e \in batch |-> listed[e].version]]
  /\ UNCHANGED <<world, committed>>

(* A concluded cycle of the runner is followed by one with a later as_of and *)
(* a later window; the batch file of the operator stays and may be replayed. *)
Conclude(asOf) ==
  IF Rolling THEN staged' = None /\ ran' = asOf ELSE UNCHANGED <<staged, ran>>

FailCycle(asOf, lost) ==
  /\ Conclude(asOf)
  /\ spoiled' = IF Rolling THEN spoiled \union lost ELSE spoiled
  /\ UNCHANGED <<world, entries, decided, stale, dropped, premature>>

AcquireRolling ==
  /\ Rolling
  /\ staged = None
  /\ ran < now
  /\ LET from == RollingStart(now)
         to == UtcDate(now)
         batch == Matching(from, to) \intersect Owed(from, to)
     IN /\ covered' = covered \union Over(from, to)
        /\ IF Complete(from, to)
           THEN /\ Stage(batch)
                /\ spoiled' = spoiled \union (Owed(from, to) \ batch)
                /\ UNCHANGED premature
           ELSE FailCycle(now, Owed(from, to))

(* The source cannot be asked, or the latest commit is still unresolved. *)
CycleFails ==
  /\ Rolling
  /\ staged = None
  /\ ran < now
  /\ covered' = covered \union Over(RollingStart(now), UtcDate(now))
  /\ FailCycle(now, Owed(RollingStart(now), UtcDate(now)))

(* watch acquire-events: the operator chooses the end of the window.  The    *)
(* as_of it may be given only leaves out later days, as an earlier end does. *)
AcquireDerived ==
  /\ ~Rolling
  /\ Enabled # {}
  /\ \E to \in DerivedStart..BeijingDate(now) :
       /\ Complete(DerivedStart, to)
       /\ Stage(Matching(DerivedStart, to))
  /\ UNCHANGED history

-----------------------------------------------------------------------------
(* run_monitoring *)
Batch == DOMAIN staged.batch
Considered == {e \in Batch : ListingOf(e) \in Enabled}

Known(e) == \E version \in {1, 2} : <<e, version>> \in Merged[ListingOf(e)].processed

(* EVENT_CONFLICT: a processed event came back with other content. *)
Conflicting ==
  \E e \in Considered :
    Known(e) /\ <<e, staged.batch[e]>> \notin Merged[ListingOf(e)].processed

Due_always(e, asOf) == TRUE
Due(e, asOf) == Available(Date(e)) <= asOf
Passed(e) == Date(e) <= Merged[ListingOf(e)].cursor

Pending(asOf) == {e \in Considered : ~Known(e) /\ Due(e, asOf)}
Decided(pending) == {e \in pending : ~Passed(e)}

(* The processed events and the cursor that the run leaves to a listing.     *)
Advanced(l, due) ==
  LET mine == {e \in due : ListingOf(e) = l}
  IN IF mine = {}
     THEN Merged[l]
     ELSE [processed |-> Merged[l].processed \union {<<e, staged.batch[e]>> : e \in mine},
           cursor |-> Max({Date(e) : e \in mine})]

(* The days that this as_of takes for over and the acquisition did not. *)
Premature(asOf) == {d \in 1..Days : staged.at < Close(d) /\ Close(d) <= asOf}

(* run_monitoring and the commit of its next state. *)
PlanAt(asOf) ==
  LET pending == Pending(asOf)
      due == Decided(pending)
  IN /\ decided' = [e \in Events |-> IF e \in due THEN decided[e] + 1 ELSE decided[e]]
     /\ stale' = stale \union (pending \ due)
     /\ IF due = {}
        THEN UNCHANGED <<entries, dropped, premature>>
        ELSE /\ entries' = [l \in Watched |-> Advanced(l, due)]
             /\ dropped' = [l \in Listings |->
                  IF l \in DOMAIN entries /\ watch[l] = "absent"
                  THEN dropped[l] + 1 ELSE dropped[l]]
             /\ premature' = premature \union Premature(asOf)
     /\ Conclude(asOf)
     /\ UNCHANGED <<world, spoiled, covered>>

(* The runner plans at the as_of it acquired at; watch replay at whatever    *)
(* as_of the operator gives it, before or after the acquisition, even one in *)
(* the future.  What tells two of these apart is the days they take for      *)
(* over.  Bound: the modelled days, ahead of the acquisition where the scope *)
(* is hasty.                                                                 *)
AsOfs ==
  IF Rolling
  THEN {staged.at}
  ELSE {Close(d) : d \in {x \in 1..Days : scope.hasty \/ Close(x) <= staged.at}}

Plan ==
  /\ staged # None
  /\ ~Conflicting
  /\ \E asOf \in AsOfs : PlanAt(asOf)

PlanRefused ==
  /\ staged # None
  /\ Conflicting
  /\ FailCycle(staged.at, Considered)
  /\ UNCHANGED covered

Next ==
  \/ Disclose
  \/ Amend
  \/ Tick
  \/ EditWatchlist
  \/ AcquireRolling
  \/ CycleFails
  \/ AcquireDerived
  \/ Plan
  \/ PlanRefused

Spec == Init /\ [][Next]_vars

(* The scheduler starts the runner, and a started cycle of the runner is     *)
(* concluded.  Nobody has to replay anything.                                *)
Fairness ==
  /\ WF_vars(Tick)
  /\ WF_vars(AcquireRolling)
  /\ WF_vars(Rolling /\ (Plan \/ PlanRefused))

FairSpec == Spec /\ Fairness

-----------------------------------------------------------------------------
TypeOK ==
  /\ now \in 1..2 * Days
  /\ listed \in [Events -> [date : 1..Days + 1, late : BOOLEAN, version : 1..2]
                          \union {None}]
  /\ watch \in [Listings -> {"enabled", "disabled", "absent"}]
  /\ DOMAIN entries \subseteq Listings
  /\ \A l \in DOMAIN entries :
       entries[l] \in [processed : SUBSET (Events \X {1, 2}), cursor : 0..Days]
  /\ ran \in 0..now
  /\ decided \in [Events -> Nat]
  /\ stale \union spoiled \subseteq Listed
  /\ dropped \in [Listings -> 0..scope.edits]
  /\ edits \in 0..scope.edits
  /\ covered \union premature \subseteq 1..Days
  /\ staged # None =>
       /\ staged.at \in 1..now
       /\ DOMAIN staged.batch \subseteq Listed

(* Listed before its own day was over. *)
Timely(e) == e \in Listed /\ ~listed[e].late

(* The operator decided it before, or replayed a batch at an as_of that took *)
(* its day for over when the acquisition had not seen the day end.           *)
Excused(e) == ~Rolling /\ (decided[e] > 0 \/ Date(e) \in premature)

(* A cycle calls an event stale only if the source listed it after the       *)
(* instant at which the mapping calls it available.  A replay of the         *)
(* operator may also meet one that it decided before its listing left the    *)
(* watchlist and came back, or one of a day that an as_of took for over too  *)
(* early.                                                                    *)
StaleMeansLate == \A e \in stale : Timely(e) => Excused(e)

(* No event is planned for reanalysis twice, unless its listing left the   *)
(* watchlist in between and lost what it had processed.                    *)
DecidedOnce == \A e \in Events : decided[e] <= 1 + dropped[ListingOf(e)]

(* No cycle of the runner had the day in its window once it was over: this   *)
(* happens with window_days = 1 only, when no cycle runs after 16:00 UTC.    *)
Missed(day) == Rolling /\ Window = 1 /\ day \notin covered

(* The cursor of a listing stands for everything up to it: a filing that was *)
(* listed in time is never behind a cursor and undecided.  With the window   *)
(* derived from the cursors this holds for the whole watchlist, whoever was  *)
(* disabled or removed in between, unless an as_of took the day for over     *)
(* before the acquisition saw it end; with the runner's window a cycle that  *)
(* failed, or ran while the listing was disabled, loses what was due in its  *)
(* window, and a window of one day may miss a day.                           *)
PassedIsDecided ==
  \A e \in Events :
    /\ Timely(e)
    /\ ListingOf(e) \in DOMAIN entries
    /\ Date(e) <= entries[ListingOf(e)].cursor
    => \/ decided[e] > 0
       \/ Rolling /\ (e \in spoiled \/ Missed(Date(e)))
       \/ ~Rolling /\ Date(e) \in premature

(* The runner's window is long enough for its schedule: with two days or     *)
(* more every filing that was listed in time is decided, or was due in a     *)
(* cycle that failed or left its listing out.                                *)
TimelyIsDecided ==
  \A e \in Events :
    (Rolling /\ Window >= 2 /\ Timely(e) /\ Date(e) <= Days)
      ~> (decided[e] > 0 \/ e \in spoiled)
=============================================================================
