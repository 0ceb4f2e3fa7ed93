# TLA+ verification of the Navimow live tools

The repository keeps a local copy of what a robot mower's cloud service says
and shows it on a local map page. Four kinds of processes keep it live together,
through one SQLite file and a directory of viewer files, without any lock of
their own; beside them a token file is shared, maps are downloaded, and
schedules are planned from the same store. This project models these parts,
checks them with TLC on small instances, and proves their safety for every value
of the constants with TLAPS.

## The system

| Component | Source | State | Operations | Talks to |
|---|---|---|---|---|
| Polling loop | `navimow_live_sync.py` `cmd_poll` | `next_due` per route, previous activity, counts of the iteration | iteration head, pass, second pass, reschedule, publish, sleep | cloud (HTTP), store, viewer files |
| MQTT listener | `navimow_mqtt_client.py`, `run_mqtt_listener` | two threads, count of messages, the event that ends the wait | connect, subscribe, on message: commit, then refresh the status file; stop | broker, store, status file |
| Viewer builder | `build_navimow_map_viewer.py` | none between runs | build all files; refresh the status file | store, viewer files |
| Viewer server | `navimow_viewer_server.py`, `navimow_live_status.py` | per connection: previous versions | watch file versions, send events, serve the status | viewer files, page |
| Viewer page | `navimow-map.js` | loaded data, reload baseline | event handlers, fetch fallback, merge, reload | server |
| Live console | `navimow_live_console.py` | list of watched children | preflight, start, watch, stop | all child processes |
| OAuth session | `navimow_live_sync.py` | token file | login exchange, refresh, use | poller, listener, commands, OAuth service |
| Map delta and artifacts | `run_map_delta_sync`, `navimow_state_store.py` | resource events, artifacts, signed URLs, files of maps | plan, request, download, discard | cloud, store, disk |
| MQTT readiness gate | `mqtt_readiness_report` | none (reads the store) | decide whether MQTT rows may drive the cadence | polling loop |
| Schedule command line | `navimow_schedule_cli.py`, `load_schedule` | draft files | export, edit, optimize a day or a week | store, user |
| Reports, capture tools, codec | the other tools | none that another process uses | read and print, or one-shot | user |

What is hard in it: passes that discover in their middle that their own
schedule is out of date; several writers that read the store, then replace one
file; a build whose files appear one after the other while a server watches
them; a page fed by two channels that nothing orders; children that end between
two looks at them; interrupts between any two statements; one token file
that several commands refresh and overwrite; downloads that hold the database's
write lock while others write; a gate that reads tables while a replay is
removed from them; integer arithmetic that hands out hours; three readings of
the same status text. `PROJECT.json` lists each such place with its line under
"hazards".

What makes each component correct:

- *Polling loop*: no route twice in an iteration; a completed task always leads
  to fresh trails; activity changes never touch routes with a fixed cadence;
  stale evidence never drives a cadence; whatever either pass stored is shown;
  no route starves.
- *Feed (writers, server, page)*: the page shows only what is stored, and in
  the end shows it for good; a reload finds the data it was caused by; reloading
  ends.
- *Console*: it stops only for a reason and with its code, notices every exit
  that matters, and leaves no child behind.
- *OAuth session*: a command that checked its token is not refused within the
  refresh window; a rotated refresh token is never overwritten by an older one;
  the file becomes readable again.
- *Map delta*: no signed URL survives a run; rows and files agree after a crash;
  a plan comes to rest.
- *Listener and gate*: only real, recent, sufficient samples drive the cadence;
  replays change nothing; a listener that should end does.
- *Schedule*: a plan fits, visits every area, spends the hours asked for, rests
  what was mowed, and is laid over the newest schedule; none is made for a
  mower at work.

## The modules

| Module | Kind | What it is |
|---|---|---|
| `PollLoop` | component | `cmd_poll` with everything it calls, and the MQTT listener as its surroundings |
| `MCPollLoop` | instance | routes, cadences and flags for TLC |
| `PollLoopProofs` | proofs | inductive invariant and safety of `PollLoop` |
| `LiveView` | abstract specification | what the live viewer promises of one change in the store |
| `LiveFeed` | composition | poller, listener, builder, files, server and page; implements `LiveView` |
| `LiveFeedProofs` | proofs | inductive invariant of `LiveFeed`, every step implements `LiveView` |
| `Console` | component | the supervisor, with children that end when they like |
| `MCConsole` | instance | the three runtime commands |
| `ConsoleProofs` | proofs | inductive invariant and safety of `Console` |
| `MapDelta` | component | map commands: plan, routes, downloads, lock, files, crashes |
| `MCMapDelta` | instance | two overlapping commands |
| `MapDeltaProofs` | proofs | inductive invariant and safety of `MapDelta` |
| `OAuthSession` | component | commands that share one token file, and the OAuth service |
| `MCOAuthSession` | instance | two interchangeable processes |
| `OAuthSessionProofs` | proofs | inductive invariant and safety of `OAuthSession` |
| `Activity` | operators | the three readings of a status text |
| `MqttEvidence` | composition | listener, replay, store, readiness gate, poller's decision |
| `MCMqttEvidence` | instance | four messages and a replay |
| `MqttEvidenceProofs` | proofs | invariants of `MqttEvidence` |
| `SchedulePlan` | operators | the optimizer: from areas and history to a plan |
| `Schedule` | component | drafts, commands and the store they read; uses `SchedulePlan`, `Activity` |
| `MCSchedule` | instance | two maps, schedules, histories, arguments |
| `ScheduleProofs` | proofs | inductive invariant of `Schedule`, and what the optimizers' plans are |
| `Induction` | lemmas | induction over sets of naturals, and what it gives: greatest elements, orders, recursion |

Mutants (`...Again`, `...Twice`, `...Under`, ...) stand before the definition
they are mutants of; each changes it as a plausible slip in the code would. They
are used by no specification; a property is kept only if such a slip breaks it.

### PollLoop

One action per part of an iteration that other processes can come between:
`StartIteration` (activity, pull-forward, due routes, completion routes),
`Request(r)` (one route: request, ingest, commit), `Settle` (the activity
re-read after the first pass, then the second pass or rescheduling),
`Resettle`, `EndIteration` (viewer branch, previous activity, sleep or return),
`Wake`, and the failures `RequestFails` and `PublishFails`, which nothing
catches. `Tick` and `MqttMessage` interleave everywhere.

Time is relative: `wait[r]` is `next_due[r]` minus now, cut at zero because the
code only compares; a status row is its class and its age, which saturates one
above the age limit; `passAge` is the age of `observed_at`, taken before the
requests are made, so that slow passes store rows that are already old. What a
response says is a nondeterministic choice: a word of each class, and whether
any row is new. Row contents, request headers and log lines are left out.
A failing `PublishFails` is a single step: the process is gone whatever part of
the build was done (`LiveFeed` has the parts).

### LiveFeed and LiveView

`LiveFeed` follows one arbitrary change of the store: `live` in a picture of
the store says that it was taken after the change was committed. Each writer
goes through the reads and the write of the code as steps of their own
(`refresh`: viewer data read; `query`: store read; `write`: file replaced), and
a build through all of `write_viewer`: store read, data truncated, data filled,
status replaced, assets one by one. `stamp` counts asset writes and stands for
the reload version, a hash of the assets' metadata. `conn` is the loop of
`write_events`: its three previous versions, and whether the status version it
remembers is still the file's. The page keeps what it loaded, its baseline, and
whether a reload is due; events arrive in order, fetch responses at any time.

`LiveView` says: a change is stored once, is on the page only if stored, and,
once stored, is on the page for good in the end, unless the feed stops. The
mapping is `stored <- db.live`, `shown <- page.pc = "shown" /\ page.live`,
`gone <- Stopped`; `ViewImplemented == View!Spec` is a PROPERTY of `feed_build`.

The model starts from a built viewer (the `live-console` recipe needs one; a
status refresh without one builds a status-only viewer, which is not modelled).
At most one fetch is under way. The page's `deepMerge` is modelled by its
effect on the followed change: the newer picture replaces the older one.

### Console

`pc` walks through `run_preflight`, the start loop (`spawn`, `record`), the
watch loop (`scan`, `deadline`, `sleep`) and the three loops of
`terminate_processes` (`ask`, `wait`, `reap`). `watched` is the list
`processes`; `kept` the list being built in a scan. `ChildEnds` may happen at
any time, with any code; `Interrupt` stands for SIGINT and SIGTERM at any point.
`lost` records a child that was started but interrupted before it was
appended: the code has that window, and the properties speak of all others.

### MapDelta

One action per step between which another command, a crash or a user can come:
`Request` (network), `Ingest` (commit), `Plan` (over what is committed),
`Select` (rows with a URL, read once), then per row `Skip`, `Invalid` or `Open`,
`Write`, `Written`, `Replace`, `Record` or `Refuse`, and `Commit` and `Discard`
at the end. Every failure is an action of its own; `IngestLocked`, `LoopLocked`
and `DiscardLocked` are SQLite's five seconds running out, `Raises` is an
exception and what the caller's `finally` still does.

`writer` is the write lock: the first uncommitted discard or error takes it, the
commit gives it back, and in between comes a download. Uncommitted rows are
`draft` and `cleared`. `tmp`, `file` and `inode` follow the bytes: two commands
that download one version write the same temporary file, and a rename moves it
under the writer. `urls` records with each URL who put it there; `Left` stands
for a command that gave up its duty, and for captures ingested with
`--store-signed-urls`.

A map's content is fixed by its version, and a file is whole or a part. Loop
order is arbitrary. Schema creation, reader locks, the long transaction of a log
ingest, and rows without a `vehicle_sn` (the loop skips them, only `sync-once`
discards their URL) are left out. What the plan wants for another mower of the
database is a constant choice (`Wishes`).

### OAuthSession

Each process runs one command after another: a `session` (any networked command:
load, refresh if needed, run), `oauth-refresh`, or `oauth-exchange-code`. `Ask`
is the moment the service answers, `Obtain` the arrival of the answer and the
truncation of the file, `Fill` the write; `torn` marks two fills at once.
Times are relative (`expires`: what the file says; `until`: what the service
honours), so the clock has no bound. The service rotates refresh tokens or does
not, says when a token expires or does not. `spoilt` is history: an answer that
replaced a refresh token was lost, or a write was torn or cut short. A refresh
that revokes other processes' access tokens is not modelled: the code shows
nothing of it.

### Activity and MqttEvidence

`Activity` holds `classify_activity_text` (poller and gate), the viewer's
`classify_live_activity` with `is_live_candidate_active`, and the optimizer's
`is_active_state`, over texts given by what the three look at: the normalized
text, its tokens, the terms it contains. They disagree: "returning to dock"
is idle for the poller and active for the others; "parked" with progress left
over is active for the viewer alone; "not running" is active for the optimizer.

`MqttEvidence` has the listener with its two threads (`main`, `net`), the
compact and the typed table, replay and its removal, and the poller's
`live_activity_state` in the three reads it makes: `Count`, `Gate`, `Decide`.
Each reads the store anew while the others write. `Time` is the report time, or
the time of receipt. The status refresh of a message is `LiveFeed`'s. Redaction
of values, the printed reports and the UI report are left out.

### SchedulePlan and Schedule

`SchedulePlan` is the optimizer as operators: scores, the plan for a day, the
spread of visits over the week, the allocation of quarter-hour ticks, segments
of a window, the constraints a plan is refused for, `validate_draft`. Scores are
whole numbers and weights hundredths, where the code keeps two and three
decimals; rounding (`Round`) is Python's. For the instance all 48 week plans and
12 day plans were compared with those the Python functions compute: they are
equal.

What the code does with `sorted`, `max` and loops that carry something along is
said by the operators `InOrder` (the k-th has k - 1 before it), `First` (the
first of the best) and by functions defined by recursion on the number of steps
(`DayPlan`, `Visited`, `Assigned`, `Total`, `Repeat`), so that it can be proved
about.

`Schedule` has the store (snapshots of schedules, map, trails, newest status
rows), which others go on writing, the draft and the optimized file, and the
commands. An optimizer is two steps, `Begin` (draft and schedule snapshot read)
and `Optimize` or `OptimizeWeekly` (the rest of the store read, the plan made
and written): what the store says may change in between. `Loaded` is the snapshot
`load_schedule` finds, the newest of those with the most custom periods. `warned`, `edited`, `missed` and `runs`
are history. Printing commands, weather flag parsing and the capture codec are
left out, but for the one thing that changes the store's content: a capture
keeps a schedule once, however often it returns to it (`Unique`).

`ScheduleAssumption` says what inputs there are: ids are unique in a map, a trail
snapshot may have several entries of an area, told apart by their row, an area has a size (the code's floor for the weight of an empty
one never applies), `map-detail` says nothing of the last mow, the consumer state
has no progress, texts are described consistently (`IsText`: a text that is
"mowing" contains that term), windows are within a day; hours and visits are any
numbers, and `WeekArgsOk` refuses what the code refuses.

## The runs

| Run | Instance | Shows | Distinct states |
|---|---|---|---|
| `poll_aware` | 3 routes (trail, map, state), 3 flag sets | types, no route twice, completion refresh, fixed cadence, nothing unpublished, stale fallback | 760 000 |
| `poll_live` | 2 routes, real-time flags, fair | every route is served | 133 000 |
| `poll_paced` | 2 paced routes | *violation*: own-pass discovery of activity pulls nothing forward | |
| `poll_trails` | trail and state route | *violation*: a due trail route is read before the completion | |
| `feed_build` | 1 build, 1 asset, 1 stream break, 1 event in flight | types, reload finds new data, refinement, layout settles | 730 000 |
| `feed_late` | status files only | *violation*: a late response undoes a newer event | |
| `feed_missed` | 1 build that keeps the layout | *violation*: a build before the baseline is never loaded | |
| `console` | 3 children, one optional, 2 interrupts | types, nothing left running, stops for a reason, exits noticed | 9 300 |
| `map_delta` | 2 commands, 1 version, 2 events | types, URLs are transient, rows match files, the plan comes to rest | 849 000 |
| `oauth` | 2 processes, 3 refresh tokens, 1 fault | types, a session lasts, the login is kept, the file is readable | 640 000 |
| `evidence` | 4 messages, 1 replay, 3 rows | types, tables in step, the gate's meaning, replays invisible, listeners end | 275 000 |
| `schedule` | 2 maps, 4 captures, 7 reports, 11 argument sets | types, plans fit, visits, hours, greedy day, newest mow, no plan while mowing, newest base | 118 000 |

**Bounds.** The polling instances contain one route of each sort the loop tells
apart; a second route of the same sort would repeat what the first does except
for order, and the proofs cover every set. Cadences are two to six ticks: what
matters is which of sleep, active, fixed and idle cadence is longer. The three
flag sets are the Makefile's, a status-only poll and a bare poll. `MaxAge = 1`
lets rows go stale between two iterations and within a slow pass. One build
suffices for every order of one build against all other writers; a second build
is begun only after the first has ended, and the proofs cover any number. One
break lets a build, a lost event and a reconnection meet in one behaviour. Two
interrupts are what `Console` tells apart (a third cannot be caught either).

`map_delta`: one command downloads with a plan, the other without one, with a
plan but no download, or for all rows; one version, because commands meet over
the same version or not at all (rows of different versions share only the lock);
two events, so that a failure can follow a kill or a deletion a capture. `oauth`:
a token lasts three ticks and is refreshed in its last two, so a session can
begin with a token of any age; three grants allow a login, a refresh and a
refresh of what another has refreshed. `evidence`: samples of both classes, one
reported late, one from the future, one without fields, a replay that would by
itself be enough; the age limit is zero ticks, so evidence goes stale within the
run (the code's `max_age 0` switches the limit off; that is another value).
`schedule`: the arguments make every refusal happen but the one for a broken
constraint, which `PlansFit` shows the allocation never needs, and every
correction of the allocation; one optimizer run is enough since a run reads nothing that a
former one wrote; two snapshots and three stored rows allow a newer schedule or a
trail before, during and after it.

Deadlock is checked for `map_delta` and `oauth`, which never stop. It is not for
the others because they may: the loop returns or dies, the feed of a dead poller
falls silent, the console returns, clock and rows of the other two are bounded.

**Fairness.** `PollLoop`: weak fairness of the loop and of the clock (a process
that runs, a machine whose time advances); none of the listener, of failures or
of the last iteration. `LiveFeed`: a poller that has begun an iteration ends it
or dies; it begins new ones only if `PollKeepsGoing` (it is told 999999
iterations); the server's loop and the page's event queue are served; nothing
is assumed of the listener, of fetches or of the stream. `Console`: the
supervisor keeps running (its sleeps and waits are bounded by timeouts);
nothing is assumed of the children, which need not obey SIGTERM, nor even be
reaped in time after SIGKILL. `MapDelta`: a command that runs goes on (requests
and lock have timeouts), and somebody starts `map-delta` again and again.
`MqttEvidence`: the listener's threads are scheduled and a wait with a timeout
ends; nothing of the broker. `OAuthSession` and `Schedule` have no liveness.

**Findings.** The four violation runs are disagreements between the code and
the repository's own documentation; `PROJECT.json` quotes the lines.
`feed_late` and `feed_build` belong together: with a poller that keeps writing
the late response does no lasting harm, without one it does.

**What the properties leave out on purpose.** Some are weaker than one would
wish, because the code is. A URL may stay in the store when a later route fails
or the command is killed between the commit of `get-iot-file` and the download.
Two overlapping downloads may go on discarding each other's URL, so
`PlanComesToRest` exempts endless overlap. A session that outlives its token is
refused; only the window is promised (`docs/navimow-oauth-openapi.md:81` says
more). A listener without a duration whose network thread died waits for ever.
Once the gate is open, the newest typed row decides, be it synthetic
(`docs/navimow-oauth-openapi.md:147` says otherwise). A report time from the
future shuts the gate until the clock has caught up. `load_schedule` prefers
snapshots with more custom periods over newer ones: `PlansOnNewest` speaks only
of a newest snapshot that none exceeds. In the other case export, staleness check
and plan follow the older snapshot without a warning, against
`docs/tool-usage.md:119`, `README.md:505` and the text of the warning itself. A capture that returns to an earlier
schedule ends on the other one. `optimizer_blockers` looks neither at MQTT status nor at the live
location (`README.md:544`), nor at the age of what it looks at. The plan never
compares index2's map version with the downloaded one, as `QUICKSTART.md:162`
says it does; only the resource's own two versions are compared.
The optimizer forbids a period with every area, and with it any week plan for a
one-area map; it does not forbid a day with every area, against
`docs/navimow-schedule-optimization.md:11`. With the Makefile's arguments, two
areas and one of them night-only, the plan has both areas on the same three days,
since day and night-only areas are spread apart from each other. `AreasVisited`
does not count visits where the count itself would demand such a day, because the
areas together stay out of fewer than seven days (`DaysOut`). The content of one
map version is taken not to change (`MapDelta`).

## What is proved

For every value of the constants that satisfies the modules' assumptions
(`RoutesAssumption`, `CadenceAssumption`, `SourceAssumption`, `ArgsAssumption`,
`FeedAssumption`, `ConsoleAssumption`, `MapDeltaAssumption`, `OAuthAssumption`,
`EvidenceAssumption`, `ScheduleAssumption`; TLC evaluates them on every run):

- **PollLoop**: `TypeOK`, `NoRouteTwice`, `CompletionRefreshed`,
  `FixedCadenceKept`, `NothingLeftUnpublished`, and the action property
  `StaleFallsBack`. None but `TypeOK` is inductive. The invariant adds four
  parts. `Passes`: what is due was requested or is pending, and nothing is
  pending between passes. `Completions`: a second pass exists only with every
  trail route due, so that the re-read after it needs no third pass. `Credit`
  links the two clocks of a fixed route: what it waited plus what is left to
  wait covers its cadence, until it is selected. `Counted`: what waits for the
  viewer is among the counts of the running iteration.
- **LiveFeed**: `TypeOK`, `ReloadFindsNewData`, and that every step is a step of
  `LiveView` or changes nothing it sees (`StepsOfTheView`). The invariant adds
  `Numbering` (from where the builder is follow the stamp and the build of the
  data: the assets of build n are stamps up to n times the number of assets)
  and `Honest` (each picture on any of seven ways was taken from the store).
- **Console**: `TypeOK`, `NothingLeftRunning`, `StopsForAReason`. The invariant
  adds `Known` (every living child is watched, was started in the very last
  step, or is `lost`; during a scan it is kept or still to be looked at; during
  reaping those looked at have ended) and `Reasons` (while the console watches,
  a child that has ended did so by itself).
- **MapDelta**: `TypeOK`, `UrlsAreTransient`, `RowMatchesFile`. The invariant
  adds `Owned` (a running command that put a URL into the store is on its way to
  a download, so its `finally` will discard), `Routed` (a command that keeps URLs
  requests one only if it will download) and `Alone` (of a version that two
  commands never downloaded at once no part of a file is ever recorded, and its
  temporary file is its command's own).
- **OAuthSession**: `TypeOK`, `SessionLasts`, `RefreshTokenLive`, `FileReadable`.
  The invariant adds `Clock` (the expiry a token believes in is late by no more
  than its answer was under way), `Fresh` (a refresh token about to be written is
  live and known to nobody else) and `Bounded`.
- **MqttEvidence**: all its safety: `TypeOK`, `RowsInStep`, `MqttDecides`,
  `ReadyMeansRecent`, and the action properties `ReplayInvisible` and
  `LostByTimeOnly`. The invariant is that of types and tables together with what
  the gate was opened on: real rows are never removed, so what was evidence
  enough stays so. The last two need that a finite set of times has a latest.
- **Schedule**: all its properties: `TypeOK`, `PlansOnNewest`,
  `NoPlanWhileMowing`, `NewestMowCounts`, `DayPlanGreedy`, `PlansFit`,
  `AreasVisited`, `HoursSpent`. The invariant adds three parts. `StoreInv`: what
  the store holds, within its bounds. `OfItsBase`: a day of the draft that was not
  edited is that of the snapshot it was exported from. `JobInv`: an optimizer at
  work has arguments of its command and a draft that is `OfItsBase`, and this
  base was the one `load_schedule` found when it began and still is, unless a warning was given or a
  snapshot came in. What is written then follows from the state the optimizer's
  last step reads, so that the rest is about the plans as functions of areas and
  arguments:
  - the base: if no snapshot has more custom periods than the newest,
    `load_schedule` finds the newest (`LoadedFacts`, `LoadedNewest`), and what an
    optimizer writes is laid over what was found (`PlannedOnLoaded`);
  - the history: of the entries of an area one is newer than all others
    (`LastEntryFacts`), and an area rests if and only if that one says so
    (`RestedFacts`);
  - the day: the recursion keeps periods ascending, apart and within the window
    (`Tidy`), what is laid out stays, and whatever is skipped did not fit then
    (`DayPlanFacts`, `GreedyFacts`);
  - which day: at most seven visits and a day is free for each; a visit adds one
    day to its area and nothing to another (`PlacedOn`, `VisitedFacts`,
    `AssignedFacts`, `WeekBucketsFacts`);
  - how long: rough shares are at least one tick and at most what the window
    holds; while there is too much a bucket has more than one tick, while there is
    too little one has room; each correction changes the sum by one
    (`ShrunkFacts`, `GrownFacts`, `AllocatedFacts`);
  - when: a time that is at most the longest segment is put where it fits
    (`SegmentHolds`); of a day there is at most one bucket of each kind
    (`DayOfWeekFacts`), so periods are apart if the windows are (`WeekValid`);
    and the times of all days add up to the times of the buckets (`TicksFacts`).

`Induction` has what these share. The prover has no induction with a predicate as a
parameter, but sets do as well: a set of naturals that is not empty has a least
element (from the well-foundedness of `<`), so a set with 0 that is closed under
the next step has them all. From this follow greatest elements of finite sets
under any total order (`GreatestBy`), the first of the best (`FirstBy`), that
`InOrder` lists a set once and in order (`RankFacts`), and that a function
defined by recursion up to n exists and obeys its equations (`RecursionExists`,
`RecursionWithin`). Sums are compared as sizes of sets of cells: of the i-th
number, that many cells (`TotalIsSize`).

Each proof has the same layout: the initial states, one lemma or case per
action, the temporal step.

**Only model-checked.** Everything about liveness: `EveryRouteServed`,
`LayoutSettles`, the `Settles` half of `LiveView`, `ExitIsNoticed`,
`PlanComesToRest`, `ListenerEnds`. These need fairness, which the prover does not
treat. Safety is proved throughout: every invariant and action property of a
passing run is a theorem. That the plans are those of the Python functions is a
comparison on the instance. The four disagreements are runs only.

**Not modelled, and why.** Geometry, satellite mosaic and rendering (data without
control); reports and doctors (they read and print); the schedule capture's
decoders, differences and payload comparison, and Android capture (sequential,
outside the store); the printing schedule commands; grandchildren of the console;
the status-only viewer; static files of the server; tables of the store that no
modelled decision reads. `PROJECT.json` gives the status of each component.

## Plan

Done, in this order: `PollLoop` (what is ever known), `LiveView` and `LiveFeed`
(what is ever seen), `Console` (whether either runs), `MapDelta`, `OAuthSession`,
`Activity` with `MqttEvidence`, `SchedulePlan` with `Schedule`.

Left:

1. `LiveSystem`: `Console` composed with the writers of `LiveFeed`, including the
   poller's builder as a grandchild that outlives it.
2. The schedule capture codec: the tick fields of a day block and their inverse
   as operators over bounded inputs, with the round trip as the property.
3. The status-only viewer in `LiveFeed`, and the race of hazard
   `build_navimow_map_viewer.py:2117`.
4. More proofs: the order of `PollLoop`'s passes; `Console` and the map commands under
   the composition of item 1.
