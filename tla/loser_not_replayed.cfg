SPECIFICATION Spec
CONSTANTS
    NoRow = NoRow
    NoRequest = NoRequest
    Workers = {w1, w2}
    Clients <- OneClient
    Currencies = {"USDT", "BTC"}
    QuoteIds = {"q1"}
    Keys = {"k1"}
    Quote <- OneQuote
    Requests <- OneQuoteRequests
    Opening <- OneQuoteOpening
    Lifetimes <- FarExpiry
    PoolSize = 2
    MaxMinor = 9
    InstanceofAnswers <- NeverRecognised
    MaxRequests = 2
    MaxTime = 0
    MaxFaults = 0
SYMMETRY WorkerSymmetry
INVARIANTS
    LoserIsReplayed
