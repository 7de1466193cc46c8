SPECIFICATION Spec
CONSTANTS
    NoRow = NoRow
    NoRequest = NoRequest
    Workers = {w1, w2}
    Clients <- TwoClients
    Currencies = {"USDT", "BTC"}
    QuoteIds = {"q1", "q2"}
    Keys = {"k1"}
    Quote <- FaultQuote
    Requests <- FaultRequests
    Opening <- FaultOpening
    Lifetimes <- FarExpiry
    PoolSize = 2
    MaxMinor = 2
    InstanceofAnswers <- NeverRecognised
    MaxRequests = 4
    MaxTime = 1
    MaxFaults = 1
SYMMETRY WorkerSymmetry
INVARIANTS
    FullInv
    AtMostOneTrade
    ExecutedIffTraded
    NoLateTrade
    AnswersMatchTrades
    LedgerBacksBalances
PROPERTIES
    OnlyLiveQuotesTrade
    LedgerJustifiesMove
