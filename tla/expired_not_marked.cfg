SPECIFICATION Spec
CONSTANTS
    NoRow = NoRow
    NoRequest = NoRequest
    Workers = {w1}
    Clients <- OneClient
    Currencies = {"USDT", "BTC"}
    QuoteIds = {"q1"}
    Keys = {"k1"}
    Quote <- OneQuote
    Requests <- OneQuoteRequests
    Opening <- OneQuoteOpening
    Lifetimes <- FarExpiry
    PoolSize = 2
    MaxMinor = 9
    InstanceofAnswers <- NeverRecognised
    MaxRequests = 1
    MaxTime = 1
    MaxFaults = 0
INVARIANTS
    RefusalMarksExpired
