\* Two maps, three schedules of the app, all arguments that matter.
SPECIFICATION Spec
CONSTANTS
    Logs <- MCLogs
    Maps <- MCMaps
    TrailSets <- MCTrailSets
    Reports <- MCReports
    DayArgs <- MCDayArgs
    WeekArgs <- MCWeekArgs
    Additions <- MCAdditions
    MaxSnapshots = 2
    MaxStored = 3
    MaxRuns = 1
INVARIANTS
    TypeOK
PROPERTIES
    PlansFit
    AreasVisited
    HoursSpent
    DayPlanGreedy
    NewestMowCounts
    NoPlanWhileMowing
    PlansOnNewest
CHECK_DEADLOCK FALSE
