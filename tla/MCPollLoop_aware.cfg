\* The loop as the Makefile runs it, as a status-only poll, and without cadence.
SPECIFICATION Spec
CONSTANTS
    Routes = {"trail-time", "map-detail", "mower-state"}
    Rank <- MCRank
    CompletionRoutes = {"trail-time"}
    TrailRank <- MCTrailRank
    StructuralRoutes = {"map-detail"}
    StateRoutes = {"mower-state"}
    FixedCadence <- MCFixed
    ActiveCadence <- MCActive
    IdleCadence <- MCIdle
    Interval = 1
    MaxAge = 1
    SourceRank <- MCSourceRank
    Args <- MCArgs
INVARIANTS
    TypeOK
    NoRouteTwice
    CompletionRefreshed
    FixedCadenceKept
    NothingLeftUnpublished
PROPERTIES
    StaleFallsBack
CHECK_DEADLOCK FALSE
