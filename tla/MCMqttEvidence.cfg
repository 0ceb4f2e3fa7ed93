\* A listener with a limit or a duration, a replay, evidence that is stale a tick later.
SPECIFICATION FairSpec
CONSTANTS
    Payloads = {"mows", "docked", "odd", "binary"}
    Synthetic = {"replay"}
    Content <- MCContent
    StateTexts <- MCTexts
    MaxAge = 0
    Skew = 0
    StartTime = 2
    MaxTime = 3
    MaxMessages = 3
    Modes <- MCModes
    MaxRuns = 1
INVARIANTS
    TypeOK
    RowsInStep
    ReadyMeansRecent
    MqttDecides
PROPERTIES
    ReplayInvisible
    LostByTimeOnly
    ListenerEnds
CHECK_DEADLOCK FALSE
