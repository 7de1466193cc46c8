SPECIFICATION FairSpec
CONSTANTS
    NoRow = NoRow
    NoRequest = NoRequest
    Workers = {w1, w2, w3}
    Clients <- OneClient
    Currencies = {"USDT", "BTC"}
    QuoteIds = {"q1", "q2"}
    Keys = {"k1"}
    Quote <- WaitQuote
    Requests <- WaitRequests
    Opening <- WaitOpening
    Lifetimes <- FarExpiry
    PoolSize = 2
    MaxMinor = 9
    InstanceofAnswers <- NeverRecognised
    MaxRequests = 3
    MaxTime = 0
    MaxFaults = 0
PROPERTIES
    EveryRequestEnds
