------------------------------ MODULE Schedule ------------------------------
(***************************************************************************)
(* Schedule drafts: export, add-period, optimize and optimize-weekly of    *)
(* tools/navimow_schedule_cli.py.  A draft is a file with the days of a    *)
(* schedule and the id of the snapshot it was exported from.  The commands *)
(* read it, and the optimizers read the store too, into which a poller and *)
(* ingested captures go on writing: new schedules, trails, states.         *)
(***************************************************************************)
EXTENDS SchedulePlan, SequencesExt, Activity

CONSTANTS
    Logs,         \* what a capture may hold: schedules, each [Days -> Seq(Period)],
                  \* in the order the app showed them
    Maps,         \* what map-detail may say of the areas
    TrailSets,    \* what trail-time may bring: entries, of an area each
    Reports,      \* what the store may say of the mower, the newest rows
    DayArgs, WeekArgs,  \* the arguments of the optimizers
    Additions,    \* periods a user adds, each <<day, period>>
    MaxSnapshots, \* bound: schedule snapshots
    MaxStored,    \* bound: schedule and trail snapshots
    MaxRuns       \* bound: runs of an optimizer; nothing comes after the last

Schedules == UNION {ToSet(log) : log \in Logs}
Sources   == <<"mqtt", "consumer", "location">>

\* weather: whether a flag is adverse.  openapi, today: the texts of these rows.
\* The others: the area they name, whether they are fresh, their texts (the
\* consumer state has one, a location none), and how far the mower has got (the
\* consumer state does not say).
IsReport(r) ==
    /\ r.weather \in BOOLEAN
    /\ \A i \in 1..3 : LET row == r[Sources[i]] IN
          row.area \in Nat \cup {None} /\ row.fresh \in BOOLEAN /\ row.progress \in 0..100
    /\ r.consumer.progress = 0
    /\ \A t \in r.consumer.texts : IsText(t)

\* map-detail does not say when an area was mowed; a trail entry does.  An area
\* may have several entries in one snapshot; row is their order.
IsArea(a) ==
    /\ {"id", "size", "height", "percentage", "covered", "age"} \subseteq DOMAIN a
    /\ a.id \in Nat /\ a.size \in Nat \ {0} /\ a.height \in Nat
    /\ a.percentage = 0 /\ a.covered = 0 /\ a.age = None
IsEntry(e) ==
    /\ e.row \in Nat /\ e.id \in Nat
    /\ e.percentage \in Nat /\ e.covered \in Nat /\ e.age \in Nat \cup {None}

\* What parse_window and argparse let through.
IsWindow(w) == w \in (0..Midnight) \X (0..Midnight)
IsDayArgs(args) ==
    /\ args.day \in Days /\ IsWindow(args.window)
    /\ args.perHour \in Nat \ {0} /\ args.rest \in Nat /\ args.periods \in Int
IsWeekArgs(args) ==
    /\ args.cap \in Int /\ args.target \in Int
    /\ IsWindow(args.day) /\ IsWindow(args.night)
    /\ args.visits \in Int /\ args.priority \in Int

ASSUME ScheduleAssumption ==
    /\ \A log \in Logs : log \in Seq([Days -> Seq([start : Nat, end : Nat, areas : SUBSET Nat,
                                                  mode : {"custom", "all_zones"}])])
    /\ \A r \in Reports : IsReport(r)
    /\ \A map \in Maps : IsFiniteSet(map) /\ \A a, b \in map : IsArea(a) /\ (a.id = b.id => a = b)
    /\ \A entries \in TrailSets :
          IsFiniteSet(entries) /\ \A e, f \in entries : IsEntry(e) /\ (e.row = f.row => e = f)
    /\ \A args \in DayArgs : IsDayArgs(args)
    /\ \A args \in WeekArgs : IsWeekArgs(args)
    /\ \A addition \in Additions : addition[1] \in Days
    /\ MaxSnapshots \in Nat \ {0} /\ MaxStored \in Nat /\ MaxRuns \in Nat \ {0}

VARIABLES
    snapshots, \* schedule_snapshots, by id
    map,       \* map_detail_areas
    trails,    \* trail_time_snapshots, by id, each with its entries
    report,    \* the newest rows on the mower's state and the weather
    file,      \* the draft: schedule-draft.json
    output,    \* the optimized one: schedule-optimized.json
    job,       \* an optimizer that has read the draft and the latest snapshot
    outcome,   \* how the last command ended
    runs,      \* history: runs of an optimizer so far
    missed     \* history: whether a snapshot came while the optimizer ran

store   == <<snapshots, map, trails, report>>
history == <<runs, missed>>
vars    == <<store, file, output, job, outcome, history>>

NoDraft == [base |-> 0, days |-> [d \in Days |-> <<>>], plan |-> "none",
            warned |-> FALSE, edited |-> {}]
NoJob   == [command |-> "none"]

\* base: the snapshot it was exported from.  plan: who optimized it.  warned:
\* whether optimization.warnings says its base is not the latest.  edited
\* (history): the days that were changed since the export.
IsDraft(d) ==
    /\ DOMAIN d = {"base", "days", "plan", "warned", "edited"}
    /\ d.base \in 0..Len(snapshots)
    /\ \A day \in Days : \A i \in DOMAIN d.days[day] : d.days[day][i].mode \in {"custom", "all_zones"}
    /\ d.plan \in {"none", "optimize", "optimize-weekly"}
    /\ d.warned \in BOOLEAN /\ d.edited \subseteq Days

Outcomes ==
    {"", "written", "stale", "blocked", "invalid", "arguments", "too short",
     "constraint", "every area", "unfit"}

TypeOK ==
    /\ Len(snapshots) \in 0..MaxSnapshots
    /\ \A i \in DOMAIN snapshots : snapshots[i] \in Schedules
    /\ map \in Maps /\ report \in Reports
    /\ \A i \in DOMAIN trails : trails[i] \in TrailSets
    /\ IsDraft(file) /\ IsDraft(output)
    /\ file.base = 0 => output = NoDraft
    /\ output.plan # "none" \/ output = NoDraft
    /\ job # NoJob => Valid(job.draft.days) /\ IsDraft(job.draft)
    /\ outcome \in Outcomes
    /\ runs \in 0..MaxRuns /\ missed \in BOOLEAN

Init ==
    /\ snapshots = <<>>
    /\ map \in Maps /\ trails = <<>> /\ report \in Reports
    /\ file = NoDraft /\ output = NoDraft
    /\ job = NoJob /\ outcome = ""
    /\ runs = 0 /\ missed = FALSE

-----------------------------------------------------------------------------
(* What others write into the store.                                       *)

GoesOn == runs < MaxRuns \/ job # NoJob
Bounded(s, t) == Len(s) <= MaxSnapshots /\ Len(s) + Len(t) <= MaxStored

\* extract: of a schedule that comes back in one capture only the first is kept.
Unique(log) ==
    LET kept == InOrder({i \in DOMAIN log : \A j \in 1..(i - 1) : log[j] # log[i]}, <)
    IN  [k \in DOMAIN kept |-> log[kept[k]]]

\* ingest_log: a capture ingested again in another one is stored again.
Capture(log) ==
    /\ GoesOn
    /\ snapshots' = snapshots \o Unique(log)
    /\ missed' = (job # NoJob)
    /\ Bounded(snapshots', trails)
    /\ UNCHANGED <<map, trails, report, file, output, job, outcome, runs>>

\* A pass of the poller, or a capture of any age.
Trails(entries) ==
    /\ GoesOn
    /\ trails' = Append(trails, entries)
    /\ Bounded(snapshots, trails')
    /\ UNCHANGED <<snapshots, map, report, file, output, job, outcome, history>>

Report(r) ==
    /\ GoesOn
    /\ report' = r
    /\ UNCHANGED <<snapshots, map, trails, file, output, job, outcome, history>>

-----------------------------------------------------------------------------
(* load_schedule: of all snapshots the newest of those with the most custom *)
(* periods, which is what the commands take for the latest.                *)

CustomPeriods(s) ==
    Total([d \in Days |-> Cardinality({i \in DOMAIN s[d] : s[d][i].areas # {}})])

Loaded ==
    IF snapshots = <<>> THEN 0
    ELSE CHOOSE i \in DOMAIN snapshots : \A j \in DOMAIN snapshots \ {i} :
            \/ CustomPeriods(snapshots[j]) < CustomPeriods(snapshots[i])
            \/ CustomPeriods(snapshots[j]) = CustomPeriods(snapshots[i]) /\ j < i

-----------------------------------------------------------------------------
(* load_area_last_mow: the entry of an area that ended last (those without *)
(* a time come last), of several the one that was stored last.             *)

Entries(ts, id) == UNION {{<<i, e>> : e \in {f \in ts[i] : f.id = id}} : i \in DOMAIN ts}

Later(e, f) == e.age # f.age /\ (f.age = None \/ (e.age # None /\ e.age < f.age))

\* Of a newer snapshot, or further down in the same one.
StoredAfter(x, y) == x[1] > y[1] \/ (x[1] = y[1] /\ x[2].row > y[2].row)

\* Mutant of LastEntry: the one that was stored last.
LastReceived(entries) ==
    CHOOSE x \in entries : \A y \in entries \ {x} : StoredAfter(x, y)

LastEntry(entries) ==
    CHOOSE x \in entries : \A y \in entries \ {x} :
        Later(x[2], y[2]) \/ (x[2].age = y[2].age /\ StoredAfter(x, y))

LastMown(a, ts) ==
    IF Entries(ts, a.id) = {} THEN a
    ELSE LET last == LastEntry(Entries(ts, a.id))[2]
         IN  [a EXCEPT !.percentage = last.percentage, !.covered = last.covered,
                       !.age = last.age]

\* load_optimization_context.
Known(m, ts) == {LastMown(a, ts) : a \in m}
areas == Known(map, trails)

-----------------------------------------------------------------------------
(* The commands.                                                           *)

Ends(how) == outcome' = how /\ UNCHANGED <<store, history>>

\* cmd_export does not validate what the app has.
Export ==
    /\ job = NoJob /\ runs < MaxRuns /\ snapshots # <<>>
    /\ file' = [NoDraft EXCEPT !.base = Loaded, !.days = snapshots[Loaded]]
    /\ Ends("written")
    /\ UNCHANGED <<output, job>>

\* cmd_add_period: sorted by their starts.
Added(days, day, period, replace) ==
    [days EXCEPT ![day] = ByStart(Append(IF replace THEN <<>> ELSE @, period))]

AddPeriod(day, period, replace) ==
    LET days == Added(file.days, day, period, replace) IN
    /\ job = NoJob /\ runs < MaxRuns /\ file.base # 0
    /\ IF Valid(days)
       THEN /\ file' = [file EXCEPT !.days = days, !.edited = @ \cup {day}]
            /\ Ends("written")
       ELSE Ends("invalid") /\ UNCHANGED file
    /\ UNCHANGED <<output, job>>

\* Mutant of Begin: the draft is not validated first.
BeginInvalid(command, args, warn, ignore) ==
    /\ job = NoJob /\ runs < MaxRuns /\ file.base # 0
    /\ IF warn \/ file.base = Loaded
       THEN /\ job' = [command |-> command, args |-> args, ignore |-> ignore,
                       draft |-> [file EXCEPT !.warned = (file.base # Loaded)]]
            /\ missed' = FALSE /\ runs' = runs + 1
            /\ UNCHANGED <<store, outcome>>
       ELSE Ends("stale") /\ UNCHANGED job
    /\ UNCHANGED <<file, output>>

\* Mutant of Begin: the draft's own base is taken for the latest.
BeginUnchecked(command, args, warn, ignore) ==
    /\ job = NoJob /\ runs < MaxRuns /\ file.base # 0
    /\ IF Valid(file.days)
       THEN /\ job' = [command |-> command, args |-> args, ignore |-> ignore,
                       draft |-> [file EXCEPT !.warned = FALSE]]
            /\ missed' = FALSE /\ runs' = runs + 1
            /\ UNCHANGED <<store, outcome>>
       ELSE Ends("invalid") /\ UNCHANGED job
    /\ UNCHANGED <<file, output>>

\* stale_base_messages.
Stale(draft) == draft.base # Loaded

\* An optimizer reads the draft, and the id of the latest schedule first of all.
\* It goes on with a stale one if told to warn only.
Begin(command, args, warn, ignore) ==
    /\ job = NoJob /\ runs < MaxRuns /\ file.base # 0
    /\ IF Valid(file.days) /\ (warn \/ ~Stale(file))
       THEN /\ job' = [command |-> command, args |-> args, ignore |-> ignore,
                       draft |-> [file EXCEPT !.warned = Stale(file)]]
            /\ missed' = FALSE /\ runs' = runs + 1
            /\ UNCHANGED <<store, outcome>>
       ELSE /\ Ends(IF Valid(file.days) THEN "stale" ELSE "invalid")
            /\ UNCHANGED job
    /\ UNCHANGED <<file, output>>

\* derive_route_insights: the texts an optimizer looks at, whatever their age.
StateTexts(r) == {r.openapi, r.today} \cup r.consumer.texts

\* Mutant of Blocked: as the poller classifies the texts, idle words first.
BlockedByIdle ==
    report.weather \/ \E t \in StateTexts(report) : ActivityClass(t) = "active"

\* optimizer_blockers, of what the store says a moment later.
Blocked == report.weather \/ \E t \in StateTexts(report) : LooksActive(t)

\* apply_optimization_plan and apply_weekly_optimization_plan write only what
\* validate_draft accepts.
Writes(days, edited) ==
    IF Valid(days)
    THEN /\ output' = [job.draft EXCEPT !.days = days, !.plan = job.command,
                                        !.edited = edited]
         /\ Ends("written")
    ELSE Ends("unfit") /\ UNCHANGED output

Optimize ==
    /\ job.command = "optimize"
    /\ IF Blocked /\ ~job.ignore THEN Ends("blocked") /\ UNCHANGED output
       ELSE IF ~DayArgsOk(job.args) THEN Ends("arguments") /\ UNCHANGED output
       ELSE Writes([job.draft.days EXCEPT ![job.args.day] = DayPlan(areas, job.args)],
                   job.draft.edited \cup {job.args.day})
    /\ job' = NoJob
    /\ UNCHANGED file

Histories == {Known(m, ts) : m \in Maps, ts \in BoundedSeq(TrailSets, MaxStored)}

\* The plan for every history and all arguments.
WeekPlans == [h \in Histories |-> [args \in WeekArgs |-> WeekPlan(h, args)]]

OptimizeWeekly ==
    /\ job.command = "optimize-weekly"
    /\ \E plan \in {WeekPlans[areas][job.args]} :
          IF Blocked /\ ~job.ignore THEN Ends("blocked") /\ UNCHANGED output
          ELSE IF plan.refused # "" THEN Ends(plan.refused) /\ UNCHANGED output
          ELSE Writes(plan.days, Days)
    /\ job' = NoJob
    /\ UNCHANGED file

Next ==
    \/ \E log \in Logs : Capture(log)
    \/ \E entries \in TrailSets : Trails(entries)
    \/ \E r \in Reports : Report(r)
    \/ Export
    \/ \E a \in Additions, replace \in BOOLEAN : AddPeriod(a[1], a[2], replace)
    \/ \E warn, ignore \in BOOLEAN :
          \/ \E args \in DayArgs : Begin("optimize", args, warn, ignore)
          \/ \E args \in WeekArgs : Begin("optimize-weekly", args, warn, ignore)
    \/ Optimize
    \/ OptimizeWeekly

Spec == Init /\ [][Next]_vars

-----------------------------------------------------------------------------
(* What must hold.                                                         *)

Written(command) == output' # output /\ output'.plan = command

\* current_area_live_status: where the viewer has the area at work from.
Shown(r) ==
    LET showing == {i \in 1..3 : r[Sources[i]].area # None /\ CandidateActive(r[Sources[i]])}
    IN  IF showing = {} THEN "none" ELSE Sources[Min(showing)]

\* A plan fits: what was laid out never fails the checks made after the fact, that
\* periods are apart, within the day and four at most, and for a week within the
\* limit of hours and, of a night-only area, within the night.  The windows of the
\* day and of the night have to be disjoint.  What is still refused is a time too
\* short for all buckets, and a period with every area.
Disjoint(args) ==
    \A i \in DOMAIN Segments(args.night) :
        Segments(args.night)[i][2] <= args.day[1] \/ args.day[2] <= Segments(args.night)[i][1]

PlansFit ==
    [][job # NoJob /\ job' = NoJob /\ outcome' \in {"unfit", "constraint"} =>
          job.command = "optimize-weekly" /\ ~Disjoint(job.args)]_job

\* In a plan for a week every area of the map has its visits, each on a day of
\* its own, by night if and only if it is a night-only one.  The count is left out if
\* so many visits are asked for that some day must have every area, which
\* docs/navimow-schedule-optimization.md:11 forbids and the code plans: each day needs
\* an area that stays out of it.
VisitDays(days, a) == {d \in Days : \E i \in DOMAIN days[d] : a.id \in days[d][i].areas}

DaysOut(args) == UNION {{a} \X ((Visits(a, args) + 1)..7) : a \in areas}

AreasVisited ==
    [][Written("optimize-weekly") =>
          \A a \in areas :
             /\ Cardinality(DaysOut(job.args)) >= 7 =>
                   Cardinality(VisitDays(output'.days, a)) = AtMost(Visits(a, job.args), 7)
             /\ \A d \in Days : \A i \in DOMAIN output'.days[d] :
                   a.id \in output'.days[d][i].areas =>
                      Within(output'.days[d][i],
                             IF a \in NightOnly(areas, job.args) THEN Segments(job.args.night)
                             ELSE Segments(job.args.day))]_output

\* And exactly the time that was asked for is planned, unless the windows of the
\* days in use hold less.
HoursSpent ==
    [][Written("optimize-weekly") =>
          Ticks(output'.days) =
              AtMost(WeekTicks(job.args), Room(WeekBuckets(areas, job.args)))]_output

\* A plan for one day stays within its window, leaves an area out only if the day
\* is full of periods or it does not fit behind those that are ahead of it, and
\* changes no other day.
LaidBefore(a, periods) ==
    {i \in DOMAIN periods : \E b \in areas : periods[i].areas = {b.id} /\ Ahead(b, a)}

DayPlanGreedy ==
    [][Written("optimize") =>
          LET args    == job.args
              periods == output'.days[args.day]
              Behind(a) == Max({args.window[1]} \cup {periods[i].end : i \in LaidBefore(a, periods)})
          IN  /\ \A d \in Days \ {args.day} : output'.days[d] = job.draft.days[d]
              /\ \A i \in DOMAIN periods : Within(periods[i], <<args.window>>)
              /\ \A a \in {Candidates(areas, args)[i] : i \in DOMAIN Candidates(areas, args)} :
                    \/ \E i \in DOMAIN periods :
                          /\ periods[i].areas = {a.id}
                          /\ periods[i].start = Behind(a)
                    \/ Cardinality(LaidBefore(a, periods)) = args.periods
                    \/ Behind(a) + Duration(a, args.perHour) > args.window[2]]_output

\* However the trails came in, late, twice or out of order, a plan for one day
\* leaves out no area but those whose newest mow was complete and is recent, and
\* none of these is planned.  Of what several entries say of the same time the one
\* that was stored last counts.
Rested(a, args) ==
    LET times  == {x[2].age : x \in Entries(trails, a.id)} \ {None}
        newest == {x \in Entries(trails, a.id) : x[2].age = Min(times)}
    IN  /\ times # {} /\ Min(times) < args.rest
        /\ \E x \in newest : /\ Status(x[2]) = "completed"
                           /\ \A y \in newest \ {x} : StoredAfter(x, y)

NewestMowCounts ==
    [][Written("optimize") =>
          \A a \in map :
             IF Rested(a, job.args)
             THEN \A i \in DOMAIN output'.days[job.args.day] :
                     a.id \notin output'.days[job.args.day][i].areas
             ELSE a.id \in {Candidates(areas, job.args)[i].id :
                              i \in DOMAIN Candidates(areas, job.args)}]_output

\* While the viewer shows an area at work because mower-state says so, there is
\* no plan unless the user ignores that.  The two classify the text with
\* different words.
NoPlanWhileMowing ==
    [][output' # output => job.ignore \/ Shown(report) # "consumer"]_output

\* If no older schedule has more custom periods than the newest, a plan without a
\* warning is laid over the newest: a day nobody has changed since the export is as
\* it is there, unless a newer one came while the optimizer ran.  An older one with
\* more is preferred by load_schedule, though docs/tool-usage.md:119 says drafts
\* come from the latest snapshot; that case is left out.
PlansOnNewest ==
    [][LET newest == Len(snapshots)
       IN  /\ output' # output /\ ~output'.warned /\ ~missed
           /\ \A i \in DOMAIN snapshots :
                 CustomPeriods(snapshots[i]) <= CustomPeriods(snapshots[newest])
           => \A d \in Days \ output'.edited : output'.days[d] = snapshots[newest][d]]_output
=============================================================================
