------------------------------ MODULE PollLoop ------------------------------
(***************************************************************************)
(* The polling loop `poll` of tools/navimow_live_sync.py (cmd_poll), one   *)
(* process that repeatedly decides which read routes are due, requests     *)
(* them one after the other, re-reads the mower activity the local store   *)
(* now suggests, reschedules, and publishes what it stored to the viewer.  *)
(*                                                                         *)
(* Time is relative.  next_due[r] is an absolute monotonic instant in the  *)
(* code and is only ever compared with the present, so wait[r] is the time *)
(* left until then, never below zero; the timestamp of a stored status row *)
(* is its age, which saturates one above the age at which it is ignored.   *)
(* One Tick is the unit in which the cadences and the interval are given.  *)
(*                                                                         *)
(* --max-iterations is not counted: any iteration may be the last.  The    *)
(* recipes of the Makefile pass 999999.                                    *)
(***************************************************************************)
EXTENDS Integers, FiniteSets

CONSTANTS
    Routes,             \* the route aliases of the run (--routes or config)
    Rank,               \* their position in that list
    CompletionRoutes,   \* trail-time and trail-data, as far as selected
    TrailRank,          \* their order in COMPLETION_REFRESH_ROUTES
    StructuralRoutes,   \* routes whose rows only a viewer rebuild shows
    StateRoutes,        \* routes that store a mower state word
    FixedCadence,       \* cadenceSeconds, of every route
    ActiveCadence,      \* activeCadenceSeconds, of the routes that have one
    IdleCadence,        \* idleCadenceSeconds, of the same routes
    Interval,           \* --interval
    MaxAge,             \* ACTIVITY_STATE_MAX_AGE_SECONDS
    SourceRank,         \* the order in which candidates enter the sort
    Args                \* the sets of command line flags to consider

Mqtt    == "mqtt-message"
Sources == StateRoutes \cup {Mqtt}

\* The routes whose cadence depends on the activity.
Paced == DOMAIN ActiveCadence

\* What classify_activity_text makes of a status word ("other" for None).
Words == {"active", "idle", "other"}

\* live_activity_state, and None for a loop that does not ask.
Activities == {"active", "idle", "unknown", "none"}

\* The two kinds of rows the viewer must be told of.
Kinds == {"live", "structural"}

ASSUME RoutesAssumption ==
    /\ IsFiniteSet(Routes)
    /\ Rank \in [Routes -> Nat]
    /\ \A r, q \in Routes : Rank[r] = Rank[q] => r = q
    /\ CompletionRoutes \subseteq Routes
    /\ TrailRank \in [CompletionRoutes -> Nat]
    /\ \A r, q \in CompletionRoutes : TrailRank[r] = TrailRank[q] => r = q
    /\ StructuralRoutes \subseteq Routes
    /\ StateRoutes \subseteq Routes
    /\ Mqtt \notin Routes

\* Every cadence of READ_ROUTES is positive, and a route that has an active
\* cadence has an idle one; the trail routes have neither.
ASSUME CadenceAssumption ==
    /\ FixedCadence \in [Routes -> Nat \ {0}]
    /\ Paced \subseteq Routes \ CompletionRoutes
    /\ ActiveCadence \in [Paced -> Nat \ {0}]
    /\ IdleCadence \in [Paced -> Nat \ {0}]
    /\ Interval \in Nat
    /\ MaxAge \in Nat

ASSUME SourceAssumption ==
    /\ SourceRank \in [Sources -> Nat]
    /\ \A s, t \in Sources : SourceRank[s] = SourceRank[t] => s = t

\* cmd_poll refuses --refresh-trails-on-completion without activity.
ViewerFlags == {"rebuild", "auto", "status", "none"}

ASSUME ArgsAssumption ==
    /\ Args \subseteq [routeCadence : BOOLEAN, activityAware : BOOLEAN,
                       refreshTrails : BOOLEAN, viewer : ViewerFlags]
    /\ \A a \in Args : a.refreshTrails => a.activityAware

VARIABLES
    args,        \* the flags of this run; they never change
    pc,          \* where the loop is
    wait,        \* next_due, as the time left
    due,         \* due_routes of this iteration
    completion,  \* completion_routes of this iteration
    pending,     \* the routes the running pass has still to request
    activity,    \* activity["state"], the last one read
    prev,        \* previous_activity_state
    totals,      \* the non-zero counts of this iteration, by kind
    passAge,     \* the age of observed_at while a pass runs
    nap,         \* what is left of time.sleep(interval)
    evidence,    \* the newest status row of each source: its class, its age
    unpublished, \* kinds of rows stored since the viewer was last told
    requested,   \* history: the routes requested in this iteration
    seenAt,      \* history: the activity on record when a trail route was
    since        \* history: time since a route of fixed cadence was requested

vars == <<args, pc, wait, due, completion, pending, activity, prev, totals,
          passAge, nap, evidence, unpublished, requested, seenAt, since>>

history == <<requested, seenAt>>

\* The routes that only their own fixed cadence schedules.
FixedRoutes == Routes \ (Paced \cup CompletionRoutes)

Stale   == MaxAge + 1
Stopped == pc \in {"done", "dead"}

TypeOK ==
    /\ args \in Args
    /\ pc \in {"top", "fetch", "settle", "refetch", "resettle", "publish",
               "sleep", "done", "dead"}
    /\ wait \in [Routes -> Nat]
    /\ due \in SUBSET Routes
    /\ completion \in SUBSET CompletionRoutes
    /\ pending \in SUBSET Routes
    /\ activity \in Activities
    /\ prev \in Activities
    /\ totals \in SUBSET Kinds
    /\ passAge \in 0..Stale
    /\ nap \in 0..Interval
    /\ evidence \in [Sources -> [word : Words, age : 0..Stale]]
    /\ unpublished \in SUBSET Kinds
    /\ requested \in SUBSET Routes
    /\ seenAt \in [CompletionRoutes -> Activities]
    /\ since \in [FixedRoutes -> Nat]

ActivityAware   == args.activityAware
UseRouteCadence == args.routeCadence \/ args.activityAware
RefreshTrails   == args.refreshTrails
ViewerFlag      == args.viewer

-----------------------------------------------------------------------------
(* What the store says of the mower.                                       *)

\* Mutant of Usable: the age test is forgotten.
UsableAtAnyAge(ev, s) == ev[s].word # "other"

\* A candidate that survives the age test and that the classifier knows.
Usable(ev, s) == ev[s].age <= MaxAge /\ ev[s].word # "other"

\* The candidate a stable sort by timestamp, newest first, puts before all
\* other usable ones.
Newest(ev, s) ==
    /\ Usable(ev, s)
    /\ \A t \in Sources \ {s} : Usable(ev, t) =>
          \/ ev[s].age < ev[t].age
          \/ ev[s].age = ev[t].age /\ SourceRank[s] < SourceRank[t]

LiveActivityState(ev) ==
    IF \E s \in Sources : Newest(ev, s)
      THEN ev[CHOOSE s \in Sources : Newest(ev, s)].word
      ELSE "unknown"

ActivityNow == IF ActivityAware THEN LiveActivityState(evidence) ELSE "none"

RouteCadence(r, state) ==
    IF ActivityAware /\ r \in Paced /\ state = "active" THEN ActiveCadence[r]
    ELSE IF ActivityAware /\ r \in Paced /\ state = "idle" THEN IdleCadence[r]
    ELSE FixedCadence[r]

\* Mutant of CompletionRefresh: routes that are already due are not left out.
CompletionRefreshAgain(dueRoutes, before, now) ==
    IF RefreshTrails /\ before = "active" /\ now = "idle"
      THEN CompletionRoutes
      ELSE {}

CompletionRefresh(dueRoutes, before, now) ==
    IF RefreshTrails /\ before = "active" /\ now = "idle"
      THEN CompletionRoutes \ dueRoutes
      ELSE {}

\* Mutant of PullForward: the test for an active cadence is forgotten.
PullAllForward(before, now) ==
    IF now = "active" /\ before \notin {"none", "active"} THEN Routes ELSE {}

\* Routes pulled to the present when the activity turns active.
PullForward(before, now) ==
    IF now = "active" /\ before \notin {"none", "active"} THEN Paced ELSE {}

-----------------------------------------------------------------------------
NothingSeen == [r \in CompletionRoutes |-> "none"]

Init ==
    /\ args \in Args
    /\ pc = "top"
    /\ wait = [r \in Routes |-> 0]
    /\ due = {} /\ completion = {} /\ pending = {}
    /\ activity = "none" /\ prev = "none"
    /\ totals = {} /\ passAge = 0 /\ nap = 0
    /\ evidence = [s \in Sources |-> [word |-> "other", age |-> Stale]]
    /\ unpublished = {}
    /\ requested = {}
    /\ seenAt = NothingSeen
    /\ since = [r \in FixedRoutes |-> FixedCadence[r]]

\* The head of an iteration: read the activity, pull routes forward, select
\* the due ones and append the trail routes of a task that just completed.
StartIteration ==
    /\ pc = "top"
    /\ LET now    == ActivityNow
           pulled == [r \in Routes |->
                        IF UseRouteCadence /\ r \in PullForward(prev, now)
                          THEN 0 ELSE wait[r]]
           timed  == IF UseRouteCadence THEN {r \in Routes : pulled[r] = 0}
                                        ELSE Routes
           extra  == CompletionRefresh(timed, prev, now)
       IN /\ activity' = now
          /\ wait' = pulled
          /\ completion' = extra
          /\ due' = timed \cup extra
          /\ pending' = timed \cup extra
          /\ pc' = IF timed \cup extra = {} THEN "publish" ELSE "fetch"
    /\ passAge' = 0
    /\ UNCHANGED <<args, prev, totals, nap, evidence, unpublished, history,
                   since>>

\* A pass works through its routes in order: those that were due in the order
\* of the run's list, then the appended ones in an order of their own.
Before(r, q) ==
    \/ r \notin completion /\ q \in completion
    \/ r \notin completion /\ q \notin completion /\ Rank[r] < Rank[q]
    \/ r \in completion /\ q \in completion /\ TrailRank[r] < TrailRank[q]

\* The kind of the rows a route's response is stored as, if any is new.
KindOf(r) == IF r \in StructuralRoutes THEN "structural" ELSE "live"

\* One route of a pass: request_route, ingest_route_response, commit.  A status
\* row carries the pass's observed_at, taken before the request was made.
Request(r) ==
    /\ pc \in {"fetch", "refetch"}
    /\ r \in pending
    /\ \A q \in pending \ {r} : Before(r, q)
    /\ \E word \in Words :
          evidence' = [s \in Sources |->
                         IF s = r /\ r \in StateRoutes
                           THEN [word |-> word, age |-> passAge]
                           ELSE evidence[s]]
    /\ \E stored \in {{}, {KindOf(r)}} :
          /\ totals' = totals \cup stored
          /\ unpublished' = unpublished \cup stored
    /\ requested' = requested \cup {r}
    /\ seenAt' = [q \in CompletionRoutes |->
                    IF q = r THEN ActivityNow ELSE seenAt[q]]
    /\ since' = [q \in FixedRoutes |-> IF q = r THEN 0 ELSE since[q]]
    /\ pending' = pending \ {r}
    /\ pc' = IF pending # {r} THEN pc
             ELSE IF pc = "fetch" THEN "settle" ELSE "resettle"
    /\ UNCHANGED <<args, wait, due, completion, activity, prev, passAge, nap>>

\* Nothing in the loop catches a failed request, or a failed ingest.
RequestFails ==
    /\ pc \in {"fetch", "refetch"}
    /\ pc' = "dead"
    /\ UNCHANGED <<args, wait, due, completion, pending, activity, prev, totals,
                   passAge, nap, evidence, unpublished, history, since>>

\* Mutant of Schedule: every route is rescheduled, not only those that ran.
ScheduleEveryRoute(now) ==
    /\ wait' = [r \in Routes |->
                  IF UseRouteCadence THEN RouteCadence(r, now) ELSE wait[r]]
    /\ activity' = IF UseRouteCadence THEN now ELSE activity
    /\ pc' = "publish"

\* next_due of every route that ran, from the activity just read.
Schedule(now) ==
    /\ wait' = [r \in Routes |->
                  IF UseRouteCadence /\ r \in due THEN RouteCadence(r, now)
                                               ELSE wait[r]]
    /\ activity' = IF UseRouteCadence THEN now ELSE activity
    /\ pc' = "publish"

\* Mutant of Settle: only the completions known before the pass count.
SettleWithoutCompletions ==
    /\ pc = "settle"
    /\ Schedule(ActivityNow)
    /\ UNCHANGED <<args, due, completion, pending, prev, totals, passAge, nap,
                   evidence, unpublished, history, since>>

\* After the first pass: re-read the activity and either run the trail routes
\* of a completion the pass itself revealed, or reschedule.
Settle ==
    /\ pc = "settle"
    /\ LET now   == ActivityNow
           extra == CompletionRefresh(due, prev, now)
       IN IF extra # {}
            THEN /\ activity' = now
                 /\ due' = due \cup extra
                 /\ completion' = completion \cup extra
                 /\ pending' = extra
                 /\ pc' = "refetch"
                 /\ UNCHANGED wait
            ELSE /\ Schedule(now)
                 /\ UNCHANGED <<due, completion, pending>>
    /\ UNCHANGED <<args, prev, totals, passAge, nap, evidence, unpublished,
                   history, since>>

\* After the second pass the activity is read once more before rescheduling.
Resettle ==
    /\ pc = "resettle"
    /\ Schedule(ActivityNow)
    /\ UNCHANGED <<args, due, completion, pending, prev, totals, passAge, nap,
                   evidence, unpublished, history, since>>

\* Mutant of AutoRefreshAction: the status-only rows are tested for first.
AutoRefreshStatusFirst(counts) ==
    IF "live" \in counts THEN "status"
    ELSE IF "structural" \in counts THEN "rebuild" ELSE "none"

\* auto_viewer_refresh_action.
AutoRefreshAction(counts) ==
    IF "structural" \in counts THEN "rebuild"
    ELSE IF "live" \in counts THEN "status" ELSE "none"

\* What the viewer branch at the end of an iteration shows.
Published ==
    LET action == IF ViewerFlag = "auto" THEN AutoRefreshAction(totals)
                                         ELSE ViewerFlag
    IN  IF due = {} THEN {}
        ELSE IF action = "rebuild" THEN Kinds
        ELSE IF action = "status" THEN {"live"} ELSE {}

\* The viewer branch, the new previous activity, and the sleep or the return.
\* The variables that live for one iteration are reset here.
EndIteration ==
    /\ pc = "publish"
    /\ unpublished' = unpublished \ Published
    /\ prev' = IF ActivityAware THEN activity ELSE prev
    /\ \/ pc' = "sleep" /\ nap' = Interval
       \/ pc' = "done" /\ nap' = 0
    /\ due' = {} /\ completion' = {} /\ totals' = {} /\ passAge' = 0
    /\ requested' = {}
    /\ seenAt' = NothingSeen
    /\ UNCHANGED <<args, wait, pending, activity, evidence, since>>

\* The viewer builder is run with check=True, the status writer uncaught.
PublishFails ==
    /\ pc = "publish"
    /\ due # {} /\ ViewerFlag # "none"
    /\ ViewerFlag = "auto" => AutoRefreshAction(totals) # "none"
    /\ pc' = "dead"
    /\ UNCHANGED <<args, wait, due, completion, pending, activity, prev, totals,
                   passAge, nap, evidence, unpublished, history, since>>

Wake ==
    /\ pc = "sleep" /\ nap = 0
    /\ pc' = "top"
    /\ UNCHANGED <<args, wait, due, completion, pending, activity, prev, totals,
                   passAge, nap, evidence, unpublished, history, since>>

-----------------------------------------------------------------------------
(* The surroundings.                                                       *)

\* Mutant of Less: a route that has long been due keeps counting down.
LessThanZero(n) == n - 1

Less(n) == IF n = 0 THEN 0 ELSE n - 1
Older(n) == IF n = Stale THEN Stale ELSE n + 1

\* Time passes: during requests, builds and sleeps, and in between.
Tick ==
    /\ ~Stopped
    /\ wait' = [r \in Routes |-> Less(wait[r])]
    /\ evidence' = [s \in Sources |-> [evidence[s] EXCEPT !.age = Older(@)]]
    /\ passAge' = IF pc \in {"fetch", "settle", "refetch"} THEN Older(passAge)
                                                           ELSE passAge
    /\ nap' = Less(nap)
    /\ since' = [r \in FixedRoutes |->
                   IF since[r] < FixedCadence[r] THEN since[r] + 1
                                                 ELSE since[r]]
    /\ UNCHANGED <<args, pc, due, completion, pending, activity, prev, totals,
                   unpublished, history>>

\* The MQTT listener, another process, stores a message.  Its report_time may
\* lie in the past; the row counts only when it is not older than the newest.
\* While the MQTT samples are not "ready" the row classifies as "other".
MqttMessage ==
    /\ ~Stopped
    /\ \E word \in Words, age \in 0..evidence[Mqtt].age :
          evidence' = [evidence EXCEPT ![Mqtt] = [word |-> word, age |-> age]]
    /\ UNCHANGED <<args, pc, wait, due, completion, pending, activity, prev,
                   totals, passAge, nap, unpublished, history, since>>

LoopStep ==
    \/ StartIteration
    \/ \E r \in Routes : Request(r)
    \/ Settle
    \/ Resettle
    \/ EndIteration
    \/ Wake

Next == LoopStep \/ RequestFails \/ PublishFails \/ Tick \/ MqttMessage

Spec == Init /\ [][Next]_vars

\* The process keeps running and the clock keeps going; nothing is assumed of
\* the listener, and neither failure nor the last iteration need ever come.
FairSpec == Spec /\ WF_vars(LoopStep) /\ WF_vars(Tick)

-----------------------------------------------------------------------------
(* Properties.                                                             *)

\* No iteration requests a route twice, although two passes and two sources of
\* routes (timers, completions) feed it: what is pending was not read yet.
NoRouteTwice == pending \cap requested = {}

\* An iteration that found the mower active before and ends with it idle has
\* requested every selected trail route, whether it saw the change before its
\* first pass or only in what that pass stored.
CompletionRefreshed ==
    (RefreshTrails /\ pc = "publish" /\ prev = "active" /\ activity = "idle")
       => CompletionRoutes \subseteq requested

\* Neither activity changes nor completions make the loop request a route that
\* only its own cadence schedules before that cadence has passed.
FixedCadenceKept ==
    (UseRouteCadence /\ pc \in {"fetch", "refetch"})
       => \A r \in pending \cap FixedRoutes : since[r] >= FixedCadence[r]

\* When a reschedule happens while every stored status is too old, each route
\* that ran goes back to its fixed cadence, whatever the activity was when the
\* iteration began.
StaleFallsBack ==
    [][(/\ UseRouteCadence
        /\ pc \in {"settle", "resettle"} /\ pc' = "publish"
        /\ \A s \in Sources : evidence[s].age > MaxAge)
          => \A r \in due : wait'[r] = FixedCadence[r]]_vars

\* The kinds of rows the viewer flag of the run promises to show.
Promised ==
    IF ViewerFlag \in {"rebuild", "auto"} THEN Kinds
    ELSE IF ViewerFlag = "status" THEN {"live"} ELSE {}

\* Between iterations nothing the loop stored, in either pass, waits for the
\* viewer: no row of the promised kinds is left until the next change.
NothingLeftUnpublished == pc = "sleep" => unpublished \cap Promised = {}

\* However the activity flaps, every selected route is requested again and
\* again, unless the loop returns or dies.
EveryRouteServed ==
    \A r \in Routes : []<>(r \in requested) \/ <>Stopped

\* README.md:367: polling is "faster while the mower looks active": when an
\* iteration begins with the mower active, a route with an active cadence is
\* never further away than that cadence.
PacedRoutesFollowActive ==
    (pc = "fetch" /\ activity = "active")
       => \A r \in Paced : wait[r] <= ActiveCadence[r]

\* QUICKSTART.md:139: trail routes are read "after sanitized activity changes
\* from active to idle": on such an iteration they were requested when the
\* store already said idle.
TrailsReadAfterCompletion ==
    (RefreshTrails /\ pc = "publish" /\ prev = "active" /\ activity = "idle")
       => \A r \in CompletionRoutes : seenAt[r] = "idle"
=============================================================================
