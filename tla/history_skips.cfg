SPECIFICATION Spec
CONSTANTS
    Clients <- OneClient
    Reader = "alice"
    Ids = {1, 2, 3}
    Limits = {1}
    TicksPerMs = 2
    MaxTime = 1
    MaxPages = 4
INVARIANTS
    WalkMissesNothing
CHECK_DEADLOCK FALSE
