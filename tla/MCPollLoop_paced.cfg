\* Activity found by the loop's own pass does not speed up the other routes.
SPECIFICATION Spec
CONSTANTS
    Routes = {"index2", "mower-state"}
    Rank <- MCRank
    CompletionRoutes = {}
    TrailRank <- MCTrailRank
    StructuralRoutes = {}
    StateRoutes = {"mower-state"}
    FixedCadence <- MCFixed
    ActiveCadence <- MCActive
    IdleCadence <- MCIdle
    Interval = 1
    MaxAge = 1
    SourceRank <- MCSourceRank
    Args <- MCRealtime
INVARIANTS
    PacedRoutesFollowActive
CHECK_DEADLOCK FALSE
