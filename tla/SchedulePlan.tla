---------------------------- MODULE SchedulePlan ----------------------------
(***************************************************************************)
(* The schedule optimizer of tools/navimow_schedule_cli.py: how a plan for *)
(* one day and a plan for a week are computed from the areas of the map    *)
(* and what the trail history says of them.                                *)
(*                                                                         *)
(* An area is a record: id, key (its id as text), name, parts (the         *)
(* normalized texts its name contains), size in square metres, height in   *)
(* millimetres, and of its last trail entry percentage, covered (finished  *)
(* of its area, in percent) and age in days (None: no time).  Scores are   *)
(* whole numbers here and weights hundredths, where the code rounds to two *)
(* and three decimals.  A day is a sequence of periods in quarter-hour     *)
(* ticks.                                                                  *)
(***************************************************************************)
EXTENDS Integers, Sequences, FiniteSetsExt

Days       == 1..7
Midnight   == 96
MaxPeriods == 4
None       == -1

Period(from, to, areas, mode) ==
    [start |-> from, end |-> to, areas |-> areas, mode |-> mode]

\* max(candidates, key): the first of several that are equal.
First(candidates, Better(_, _)) ==
    CHOOSE i \in candidates : \A j \in candidates \ {i} :
        Better(i, j) \/ (~Better(j, i) /\ i < j)

\* sorted(S, key): the k-th has k - 1 before it.
InOrder(S, Before(_, _)) ==
    [k \in 1..Cardinality(S) |->
        CHOOSE x \in S : Cardinality({y \in S : Before(y, x)}) = k - 1]

ByStart(periods) ==
    LET Earlier(i, j) ==
          \/ periods[i].start < periods[j].start
          \/ periods[i].start = periods[j].start /\ i < j
        order == InOrder(DOMAIN periods, Earlier)
    IN  [k \in DOMAIN periods |-> periods[order[k]]]

AtLeast(n, m) == IF n < m THEN m ELSE n
AtMost(n, m)  == IF n > m THEN m ELSE n

-----------------------------------------------------------------------------
(* What is known of an area.                                               *)

\* trail_time_status; an area without an entry has nothing in it.
Status(a) ==
    IF a.percentage >= 98 \/ a.covered >= 98 THEN "completed"
    ELSE IF a.percentage > 0 \/ a.covered > 0 THEN "partial"
    ELSE "no_mow_in_history"

\* score_area.
Score(a) ==
    a.size \div 25
    + (IF Status(a) = "no_mow_in_history" THEN 120
       ELSE IF Status(a) = "partial" THEN 90 + (100 - a.percentage) \div 2
       ELSE IF a.age = None THEN 40 ELSE 3 * AtMost(a.age, 30))
    + (IF a.height >= 60 THEN 8 ELSE 0)

Tall(a) == AtLeast(a.height - 50, 0)

\* estimate_duration_ticks: rounded up.
Duration(a, perHour) ==
    AtLeast(1, -((-4 * a.size * (120 + Tall(a))) \div (120 * perHour)))

\* weekly_area_weight, in hundredths.
Weight(a) ==
    (a.size * (150 + Tall(a)) * (600 + AtMost(Score(a), 180))) \div 900

\* weekly_visit_count.
Visits(a, args) ==
    IF Status(a) # "completed" \/ a.percentage < 80 \/ a.size >= 300
    THEN args.priority ELSE args.visits

Ahead(a, b) ==
    \/ Score(a) > Score(b)
    \/ Score(a) = Score(b) /\ a.size > b.size
    \/ Score(a) = Score(b) /\ a.size = b.size /\ a.id < b.id

Ranked(areas) == InOrder(areas, Ahead)

-----------------------------------------------------------------------------
(* A plan for one day, build_optimization_plan.                            *)

Candidates(areas, args) ==
    Ranked({a \in areas : ~(args.rest > 0 /\ a.age # None /\ a.age < args.rest
                              /\ Status(a) = "completed")})

\* Mutant of Laid: one period more than the limit.
LaidOneMore(periods, a, args) ==
    LET from == IF periods = <<>> THEN args.window[1] ELSE periods[Len(periods)].end
        to   == from + Duration(a, args.perHour)
    IN  IF Len(periods) > args.periods \/ to > args.window[2] THEN periods
        ELSE Append(periods, Period(from, to, {a.id}, "custom"))

\* Mutant of Laid: an area fits if it begins in the window.
LaidPast(periods, a, args) ==
    LET from == IF periods = <<>> THEN args.window[1] ELSE periods[Len(periods)].end
        to   == from + Duration(a, args.perHour)
    IN  IF Len(periods) >= args.periods \/ from >= args.window[2] THEN periods
        ELSE Append(periods, Period(from, to, {a.id}, "custom"))

\* An area that does not fit is passed over, a smaller one may still.
Laid(periods, a, args) ==
    LET from == IF periods = <<>> THEN args.window[1] ELSE periods[Len(periods)].end
        to   == from + Duration(a, args.perHour)
    IN  IF Len(periods) >= args.periods \/ to > args.window[2] THEN periods
        ELSE Append(periods, Period(from, to, {a.id}, "custom"))

DayPlan(areas, args) ==
    LET targets == Candidates(areas, args)
        plan[i \in 0..Len(targets)] ==
          IF i = 0 THEN <<>> ELSE Laid(plan[i - 1], targets[i], args)
    IN  plan[Len(targets)]

\* parse_preferred_window, and the limit on the periods.
DayArgsOk(args) ==
    args.window[1] < args.window[2] /\ args.periods \in 1..MaxPeriods

-----------------------------------------------------------------------------
(* A plan for a week: which area on which day, assign_weekly_buckets.      *)

\* Python's round: a half goes to the even neighbour.
Round(n, d) ==
    LET q == n \div d
        r == n % d
    IN  IF 2 * r < d \/ (2 * r = d /\ q % 2 = 0) THEN q ELSE q + 1

Distance(i, j) == AtMost((i - j) % 7, (j - i) % 7)

\* Mutant of Placed: the days the area already has are not left out.
PlacedAgain(buckets, area, index, visit, visits) ==
    LET preferred == Round(index * visits + 7 * visit, visits) % 7
        Better(d, e) ==
            \/ buckets[d].weight < buckets[e].weight
            \/ /\ buckets[d].weight = buckets[e].weight
               /\ Distance(d - 1, preferred) < Distance(e - 1, preferred)
        day == First(Days, Better)
    IN  [buckets EXCEPT ![day].areas = @ \cup {area.id},
                        ![day].weight = @ + Weight(area)]

\* A visit goes to the day with the least load that the area does not have yet,
\* the one nearest to an even spread among equals.
Placed(buckets, area, index, visit, visits) ==
    LET preferred == Round(index * visits + 7 * visit, visits) % 7
        Better(d, e) ==
            \/ buckets[d].weight < buckets[e].weight
            \/ /\ buckets[d].weight = buckets[e].weight
               /\ Distance(d - 1, preferred) < Distance(e - 1, preferred)
        day == First({d \in Days : area.id \notin buckets[d].areas}, Better)
    IN  [buckets EXCEPT ![day].areas = @ \cup {area.id},
                        ![day].weight = @ + Weight(area)]

\* All visits of one area.
Visited(buckets, area, index, visits) ==
    LET after[v \in 0..visits] ==
          IF v = 0 THEN buckets ELSE Placed(after[v - 1], area, index, v - 1, visits)
    IN  after[visits]

\* The areas of one kind on their days.
Assigned(areas, args, kind, capacity) ==
    LET targets == Ranked(areas)
        after[i \in 0..Len(targets)] ==
          IF i = 0 THEN [d \in Days |-> [kind |-> kind, day |-> d, areas |-> {},
                                         weight |-> 0, capacity |-> capacity]]
          ELSE Visited(after[i - 1], targets[i], i - 1, AtMost(Visits(targets[i], args), 7))
    IN  after[Len(targets)]

\* The buckets of one kind, in the order of their days, without the empty ones.
Buckets(areas, args, kind, capacity) ==
    LET filled == Assigned(areas, args, kind, capacity)
        used   == InOrder({d \in Days : filled[d].areas # {}}, <)
    IN  [k \in DOMAIN used |-> filled[used[k]]]

-----------------------------------------------------------------------------
(* How long each is, allocate_bucket_ticks.                                *)

Total(f) ==
    LET sum[n \in 0..Len(f)] == IF n = 0 THEN 0 ELSE sum[n - 1] + f[n]
    IN  sum[Len(f)]

Room(buckets) ==
    Total([i \in DOMAIN buckets |-> buckets[i].capacity])

Repeat(Step(_), ticks, n) ==
    LET after[k \in 0..n] == IF k = 0 THEN ticks ELSE Step(after[k - 1])
    IN  after[n]

\* Mutant of Allocated: what rounding down has left over is not given out.
AllocatedDown(buckets, target) ==
    IF buckets = <<>> THEN <<>>
    ELSE
    LET weights == [i \in DOMAIN buckets |-> buckets[i].weight]
    IN  [i \in DOMAIN buckets |->
           AtLeast(1, AtMost(buckets[i].capacity,
                             (target * weights[i]) \div Total(weights)))]

\* Mutant of Allocated: what is left over is given out beyond the window.
AllocatedBeyond(buckets, target) ==
    IF buckets = <<>> THEN <<>>
    ELSE
    LET weights == [i \in DOMAIN buckets |-> buckets[i].weight]
        rough   == [i \in DOMAIN buckets |->
                      AtLeast(1, (target * weights[i]) \div Total(weights))]
        Behind(ticks, i) == target * weights[i] - ticks[i] * Total(weights)
        Grow(ticks) ==
            LET Better(i, j) == Behind(ticks, i) > Behind(ticks, j)
            IN  [ticks EXCEPT ![First(DOMAIN ticks, Better)] = @ + 1]
    IN  Repeat(Grow, rough, AtLeast(target - Total(rough), 0))

\* In proportion to the weights, rounded down, at least one tick and no more than
\* the window holds; what is too much is taken from the longest, what is missing
\* goes to those furthest below their share.
Allocated(buckets, target) ==
    IF buckets = <<>> THEN <<>>
    ELSE
    LET weights == [i \in DOMAIN buckets |-> buckets[i].weight]
        total   == Total(weights)
        goal    == AtMost(target, Room(buckets))
        rough   == [i \in DOMAIN buckets |->
                      AtLeast(1, AtMost(buckets[i].capacity, (goal * weights[i]) \div total))]
        Shrink(ticks) ==
            LET Better(i, j) ==
                  \/ ticks[i] > ticks[j]
                  \/ ticks[i] = ticks[j] /\ weights[i] > weights[j]
            IN  [ticks EXCEPT ![First({i \in DOMAIN ticks : ticks[i] > 1}, Better)] = @ - 1]
        Behind(ticks, i) == goal * weights[i] - ticks[i] * total
        Grow(ticks) ==
            LET Better(i, j) ==
                  \/ Behind(ticks, i) > Behind(ticks, j)
                  \/ Behind(ticks, i) = Behind(ticks, j) /\ weights[i] > weights[j]
                open == {i \in DOMAIN ticks : ticks[i] < buckets[i].capacity}
            IN  [ticks EXCEPT ![First(open, Better)] = @ + 1]
        excess  == Total(rough) - goal
    IN  IF excess > 0 THEN Repeat(Shrink, rough, excess) ELSE Repeat(Grow, rough, -excess)

-----------------------------------------------------------------------------
(* When each is, bucket_to_period and window_segments.                     *)

Segments(window) ==
    IF window[1] < window[2] THEN <<window>>
    ELSE <<<<0, window[2]>>, <<window[1], Midnight>>>>

Length(segment) == segment[2] - segment[1]
Capacity(segments) == Max({Length(segments[i]) : i \in DOMAIN segments})

\* The longest of those that hold it; if none does, the longest.
Segment(segments, ticks) ==
    LET Better(i, j) == Length(segments[i]) > Length(segments[j])
        holding == {i \in DOMAIN segments : Length(segments[i]) >= ticks}
    IN  segments[First(IF holding = {} THEN DOMAIN segments ELSE holding, Better)]

WindowOf(bucket, args) ==
    Segments(IF bucket.kind = "night" THEN args.night ELSE args.day)

Fit(buckets, ticks, args) ==
    \A i \in DOMAIN buckets : ticks[i] <= Length(Segment(WindowOf(buckets[i], args), ticks[i]))

\* Night-only areas are planned at night, the others by day.
BucketPeriod(bucket, length, args) ==
    LET from == Segment(WindowOf(bucket, args), length)[1]
    IN  Period(from, from + length, bucket.areas, "custom")

WeekDays(buckets, ticks, args) ==
    LET Indices(d) == InOrder({i \in DOMAIN buckets : buckets[i].day = d}, <)
    IN  [d \in Days |->
           ByStart([k \in DOMAIN Indices(d) |->
                      BucketPeriod(buckets[Indices(d)[k]], ticks[Indices(d)[k]], args)])]

Ticks(days) ==
    Total([d \in Days |-> Total([i \in DOMAIN days[d] |-> days[d][i].end - days[d][i].start])])

-----------------------------------------------------------------------------
(* What a plan for a week is refused for.                                  *)

\* resolve_area_selectors: by id, else by name, else by a part of the name.
Called(areas, selector) ==
    LET byKey  == {a \in areas : a.key = selector}
        byName == {a \in areas : a.name = selector}
        byPart == {a \in areas : selector \in a.parts}
    IN  IF byKey # {} THEN byKey ELSE IF byName # {} THEN byName ELSE byPart

NightOnly(areas, args) == UNION {Called(areas, s) : s \in args.selectors}

WeekArgsOk(areas, args) ==
    /\ areas # {} /\ args.cap > 0 /\ args.target > 0
    /\ args.day[1] < args.day[2]
    /\ args.night[1] # args.night[2]
    /\ \A i \in DOMAIN Segments(args.night) : Length(Segments(args.night)[i]) > 0
    /\ \A s \in args.selectors : \E a \in areas : Called(areas, s) = {a}
    /\ 1 <= args.visits /\ args.visits <= args.priority

Within(period, segments) ==
    \E i \in DOMAIN segments :
        period.start >= segments[i][1] /\ period.end <= segments[i][2]

\* weekly_constraint_errors.
TooLong(days, args) == Ticks(days) > args.cap
NightAtDay(days, areas, args) ==
    \E d \in Days : \E i \in DOMAIN days[d] :
        /\ days[d][i].areas \cap {a.id : a \in NightOnly(areas, args)} # {}
        /\ ~Within(days[d][i], Segments(args.night))
EveryAreaAtOnce(days, areas) ==
    \E d \in Days : \E i \in DOMAIN days[d] : days[d][i].areas = {a.id : a \in areas}

\* build_weekly_optimization_plan; refused: for what.
WeekBuckets(areas, args) ==
    LET night == NightOnly(areas, args)
    IN  Buckets(areas \ night, args, "day", Length(args.day))
        \o Buckets(night, args, "night", Capacity(Segments(args.night)))

WeekTicks(args) == AtMost(args.target, args.cap)

WeekPlan(areas, args) ==
    IF ~WeekArgsOk(areas, args) THEN [refused |-> "arguments", days |-> <<>>]
    ELSE LET buckets == WeekBuckets(areas, args)
             ticks   == Allocated(buckets, WeekTicks(args))
             days    == WeekDays(buckets, ticks, args)
         IN  IF WeekTicks(args) < Len(buckets)
             THEN [refused |-> "too short", days |-> <<>>]
             ELSE IF ~Fit(buckets, ticks, args) \/ NightAtDay(days, areas, args)
                       \/ TooLong(days, args)
             THEN [refused |-> "constraint", days |-> <<>>]
             ELSE IF EveryAreaAtOnce(days, areas)
             THEN [refused |-> "every area", days |-> <<>>]
             ELSE [refused |-> "", days |-> days]

-----------------------------------------------------------------------------
(* validate_draft.                                                         *)

ValidPeriod(p) ==
    /\ 0 <= p.start /\ p.start < p.end /\ p.end <= Midnight
    /\ p.mode \in {"custom", "all_zones"}
    /\ p.areas = {} <=> p.mode = "all_zones"

Valid(days) ==
    \A d \in Days :
        /\ Len(days[d]) <= MaxPeriods
        /\ \A i \in DOMAIN days[d] :
              /\ ValidPeriod(days[d][i])
              /\ \A j \in 1..(i - 1) : days[d][j].end <= days[d][i].start
=============================================================================
