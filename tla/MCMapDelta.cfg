\* Two overlapping commands.
SPECIFICATION FairSpec
CONSTANTS
    Runs = {"r1", "r2"}
    Commands <- MCCommands
    MaxVersion = 1
    Broken = {}
    Wishes = {{}, {"artifact"}}
    MaxEvents = 2
INVARIANTS
    TypeOK
    UrlsAreTransient
    RowMatchesFile
PROPERTIES
    PlanComesToRest
