\* The server and the poller are required, the listener is not.
SPECIFICATION FairSpec
CONSTANTS
    Children = {"viewer-server", "live-poll", "mqtt-listen"}
    Rank <- MCRank
    Required = {"viewer-server", "live-poll"}
    Codes = {0, 3}
    Limited = TRUE
    MaxInterrupts = 2
INVARIANTS
    TypeOK
    NothingLeftRunning
    StopsForAReason
PROPERTIES
    ExitIsNoticed
CHECK_DEADLOCK FALSE
