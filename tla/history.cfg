SPECIFICATION Spec
CONSTANTS
    Clients <- TwoClients
    Reader = "alice"
    Ids = {1, 2, 3, 4}
    Limits = {1, 2}
    TicksPerMs = 2
    MaxTime = 3
    MaxPages = 5
INVARIANTS
    WalkInv
    WalkDescends
    WalkMissesOnlyTies
PROPERTIES
    WalkEnds
CHECK_DEADLOCK FALSE
