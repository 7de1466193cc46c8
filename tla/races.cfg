SPECIFICATION Spec
CONSTANTS
    NoRow = NoRow
    NoRequest = NoRequest
    Workers = {w1, w2, w3}
    Clients <- OneClient
    Currencies = {"USDT", "BTC"}
    QuoteIds = {"q1", "q2", "q3"}
    Keys = {"k1", "k2"}
    Quote <- RaceQuote
    Requests <- RaceRequests
    Opening <- RaceOpening
    Lifetimes <- FarExpiry
    PoolSize = 3
    MaxMinor = 9
    InstanceofAnswers <- EitherAnswer
    MaxRequests = 3
    MaxTime = 0
    MaxFaults = 0
SYMMETRY WorkerSymmetry
INVARIANTS
    TypeOK
    BalanceNeverNegative
    TradeHasBothLegs
    RowLockProtectsQuote
    RefusalIsTruthful
PROPERTIES
    AtomicTrading
