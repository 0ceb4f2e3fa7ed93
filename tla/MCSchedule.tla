----------------------------- MODULE MCSchedule -----------------------------
(***************************************************************************)
(* A small instance of Schedule: four areas, three schedules of the app.   *)
(* The plans of this instance are those the code computes for the same     *)
(* areas and arguments.                                                    *)
(***************************************************************************)
EXTENDS Schedule

Area(id, key, name, parts, size, height) ==
    [id |-> id, key |-> key, name |-> name, parts |-> parts, size |-> size,
     height |-> height, percentage |-> 0, covered |-> 0, age |-> None]

Fore  == Area(1, "1", "frontlawn", {"law"}, 250, 60)
Back  == Area(2, "2", "backlawn", {"law", "back"}, 325, 40)
Strip == Area(3, "3", "strip", {"strip"}, 25, 40)
Side  == Area(4, "4", "lawn", {"law"}, 125, 80)

\* A map of four areas, and one of a single one.
MCMaps == {{Fore, Back, Strip, Side}, {Strip}}

Mowed(row, a, percentage, age) ==
    [row |-> row, id |-> a.id, percentage |-> percentage, covered |-> percentage,
     age |-> age]

\* What was mowed lately, of one area twice, and what an older capture says.
MCTrailSets ==
    {{Mowed(1, Fore, 30, 1), Mowed(2, Fore, 100, 1), Mowed(3, Back, 100, 9),
      Mowed(4, Strip, 99, 3), Mowed(5, Side, 100, 2)},
     {Mowed(1, Fore, 40, 2), Mowed(2, Strip, 98, 20)}}

Morning == Period(24, 32, {}, "all_zones")
Noon    == Period(48, 56, {1, 2}, "custom")
Evening == Period(72, 80, {3}, "custom")
Night   == Period(92, 100, {3}, "custom")

Every(periods) == [d \in Days |-> periods]

Plain   == Every(<<Morning>>)
Mixed   == [Every(<<>>) EXCEPT ![2] = <<Noon>>, ![5] = <<Morning, Evening>>]
Overlong == [Every(<<>>) EXCEPT ![3] = <<Noon, Night>>]

\* In the last one the app goes back to the schedule it had.
MCLogs == {<<Plain>>, <<Mixed>>, <<Overlong>>, <<Mixed, Plain, Mixed>>}

MCAdditions == {<<2, Period(50, 60, {3}, "custom")>>}

\* More areas than periods; a window that holds only a small area; a window over
\* midnight, which the plan for one day refuses.
MCDayArgs ==
    {[day |-> 2, window |-> <<16, 88>>, perHour |-> 100, rest |-> 2, periods |-> 2],
     [day |-> 6, window |-> <<40, 48>>, perHour |-> 100, rest |-> 0, periods |-> 4],
     [day |-> 6, window |-> <<88, 24>>, perHour |-> 100, rest |-> 0, periods |-> 4]}

Week(target, selectors, night, day, visits, priority) ==
    [cap |-> 40, target |-> target, selectors |-> selectors, night |-> night,
     day |-> day, visits |-> visits, priority |-> priority]

\* No night-only area, and short days; a night-only area; more than the nights
\* hold, and more than the cap; hardly a tick for each bucket; as often as there are
\* days; too little time; an ambiguous part of a name; windows that overlap.
MCWeekArgs ==
    {Week(40, {}, <<88, 24>>, <<24, 32>>, 2, 3),
     Week(40, {"strip"}, <<88, 24>>, <<24, 88>>, 2, 3),
     Week(60, {"1", "back"}, <<92, 4>>, <<32, 64>>, 3, 5),
     Week(14, {"1", "back"}, <<92, 4>>, <<32, 64>>, 3, 5),
     Week(30, {"3"}, <<88, 24>>, <<24, 88>>, 2, 9),
     Week(3, {}, <<88, 24>>, <<24, 88>>, 2, 3),
     Week(40, {"law"}, <<88, 24>>, <<24, 88>>, 2, 3),
     Week(40, {"strip"}, <<28, 40>>, <<24, 36>>, 1, 1)}

Running == Text("isrunning", {"is", "running", "isrunning"}, {"running"})
Docked  == Text("docked", {"docked"}, {"dock"})
Return  == Text("returning_to_dock", {"returning", "to", "dock"}, {"return", "dock"})
Working == Text("working", {"working"}, {"work"})

Said(area, fresh, texts, progress) ==
    [area |-> area, fresh |-> fresh, texts |-> texts, progress |-> progress]
Nothing == Said(None, FALSE, {}, 0)

Calm ==
    [weather |-> FALSE, openapi |-> Docked, today |-> NoText,
     mqtt |-> Nothing, consumer |-> Said(1, TRUE, {Docked}, 0), location |-> Nothing]

\* The weather; one source says the mower is at work, an old one, one whose words
\* are read differently; the two sources the optimizer does not read.
MCReports ==
    {Calm,
     [Calm EXCEPT !.weather = TRUE],
     [Calm EXCEPT !.openapi = Running],
     [Calm EXCEPT !.today = Working],
     [Calm EXCEPT !.consumer = Said(1, TRUE, {Return}, 0)],
     [Calm EXCEPT !.consumer = Said(1, FALSE, {Running}, 0)],
     [Calm EXCEPT !.mqtt = Said(2, TRUE, {Running}, 40), !.location = Said(2, TRUE, {}, 40)]}
=============================================================================
