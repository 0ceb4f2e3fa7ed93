\* A trail route due in the pass that reveals the completion is read before it.
SPECIFICATION Spec
CONSTANTS
    Routes = {"trail-time", "mower-state"}
    Rank <- MCRank
    CompletionRoutes = {"trail-time"}
    TrailRank <- MCTrailRank
    StructuralRoutes = {}
    StateRoutes = {"mower-state"}
    FixedCadence <- MCFixed
    ActiveCadence <- MCActive
    IdleCadence <- MCIdle
    Interval = 1
    MaxAge = 1
    SourceRank <- MCSourceRank
    Args <- MCRealtime
INVARIANTS
    TrailsReadAfterCompletion
CHECK_DEADLOCK FALSE
