\* One structural change, one viewer build, an event stream that breaks once.
SPECIFICATION FairSpec
CONSTANTS
    MaxRebuilds = 1
    ReloadFiles = 1
    MaxDrops = 1
    MaxTroubles = 2
    MaxEvents = 1
    LayoutMayStay = FALSE
    PollKeepsGoing = TRUE
INVARIANTS
    TypeOK
    ReloadFindsNewData
PROPERTIES
    ViewImplemented
    LayoutSettles
CHECK_DEADLOCK FALSE
