\* No structural change and no broken stream: only status files and fetches.
SPECIFICATION FairSpec
CONSTANTS
    MaxRebuilds = 0
    ReloadFiles = 1
    MaxDrops = 0
    MaxTroubles = 0
    MaxEvents = 1
    LayoutMayStay = FALSE
    PollKeepsGoing = FALSE
PROPERTIES
    SettlesOnStatusFile
CHECK_DEADLOCK FALSE
