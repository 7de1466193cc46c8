SPECIFICATION AuthSpec
CONSTANTS
    NoRow = NoRow
    Refused = Refused
    Runs = {r1, r2}
    ClientIds = {1, 2}
    Keys = {k1, k2}
    Requests = {a1}
    Order <- TwoCurrencies
    Starting <- StartingTwo
    Moves <- UpAndDown
    MaxMoves = 2
SYMMETRY RunSymmetry
INVARIANTS
    AuthInv
    OneSeedClient
    FirstSeedIsBacked
    AnswerWasRight
PROPERTIES
    ReseedRestores
CHECK_DEADLOCK FALSE
