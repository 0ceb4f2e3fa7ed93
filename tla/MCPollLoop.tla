---------------------------- MODULE MCPollLoop ----------------------------
(***************************************************************************)
(* Small instances of PollLoop.  The routes are named after one route of   *)
(* each sort the loop tells apart: index2 (activity-dependent cadence),    *)
(* mower-state (the same, and its rows carry the state word), trail-time   *)
(* (a completion route), map-detail (a fixed cadence, and only a rebuild   *)
(* shows its rows).  The list order puts trail-time before mower-state, as *)
(* the configuration template's list with mower-state appended does.       *)
(***************************************************************************)
EXTENDS PollLoop

MCRank == [r \in Routes |->
    CASE r = "index2" -> 1 [] r = "trail-time" -> 2
      [] r = "map-detail" -> 3 [] r = "mower-state" -> 4]

MCTrailRank == [r \in CompletionRoutes |-> 1]

MCSourceRank == [s \in Sources |-> IF s = "mqtt-message" THEN 0 ELSE 1]

\* One tick stands for 15 seconds: index2 is 45/30/90 in READ_ROUTES and
\* mower-state 15/10/60.  The trail and map routes, 900 and 3600 there, are cut
\* to a few ticks: only their being slower than the sleep matters.
MCFixed == [r \in Routes |->
    CASE r = "mower-state" -> 1 [] OTHER -> 3]
MCActive == [r \in Routes \cap {"index2", "mower-state"} |->
    IF r = "index2" THEN 2 ELSE 1]
MCIdle   == [r \in Routes \cap {"index2", "mower-state"} |->
    IF r = "index2" THEN 6 ELSE 4]

Flags(cadence, aware, trails, viewer) ==
    [routeCadence |-> cadence, activityAware |-> aware,
     refreshTrails |-> trails, viewer |-> viewer]

\* As the Makefile runs the loop, with status updates only, and bare.
MCArgs     == {Flags(TRUE, TRUE, TRUE, "auto"), Flags(TRUE, FALSE, FALSE, "status"),
               Flags(FALSE, FALSE, FALSE, "rebuild")}
MCRealtime == {Flags(TRUE, TRUE, TRUE, "none")}
=============================================================================
