\* A build that changes the page's assets and data, not the layout version.
SPECIFICATION FairSpec
CONSTANTS
    MaxRebuilds = 1
    ReloadFiles = 1
    MaxDrops = 0
    MaxTroubles = 1
    MaxEvents = 1
    LayoutMayStay = TRUE
    PollKeepsGoing = TRUE
PROPERTIES
    BuildSettles
CHECK_DEADLOCK FALSE
