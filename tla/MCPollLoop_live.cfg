\* No route is starved, however the activity flaps.
SPECIFICATION FairSpec
CONSTANTS
    Routes = {"trail-time", "mower-state"}
    Rank <- MCRank
    CompletionRoutes = {"trail-time"}
    TrailRank <- MCTrailRank
    StructuralRoutes = {}
    StateRoutes = {"mower-state"}
    FixedCadence <- MCFixed
    ActiveCadence <- MCActive
    IdleCadence <- MCIdle
    Interval = 1
    MaxAge = 1
    SourceRank <- MCSourceRank
    Args <- MCRealtime
PROPERTIES
    EveryRouteServed
CHECK_DEADLOCK FALSE
