\* Two processes; a token lasts three ticks and is refreshed in its last two.
SPECIFICATION Spec
CONSTANTS
    Procs = {p, q}
    Window = 2
    Timeout = 1
    Lifetimes = {3}
    MaxGrants = 3
    MaxFaults = 1
SYMMETRY Interchangeable
INVARIANTS
    TypeOK
    SessionLasts
    RefreshTokenLive
    FileReadable
