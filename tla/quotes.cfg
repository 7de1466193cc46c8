SPECIFICATION ApiSpec
CONSTANTS
    NoQuote = NoQuote
    Caller = Caller
    Currencies = {"BTC", "ETH", "USDT"}
    Symbols = {"BTCUSDT", "ETHBTC"}
    Base <- PairBase
    Quote <- PairQuote
    UnitsOf <- Units
    AmountScale = 1000
    PriceScale = 10
    OneInBps = 20
    Amounts <- SomeAmounts
    Mids <- SomeMids
    Spreads <- SomeSpreads
    StorageScale = 1000
    MaxMinor = 500
    MaxAge = 1
    MaxStaleAge = 3
    MinOutage = 1
    MaxLatency = 2
    DefaultTtl = 2
    Ttls = {0, 1}
    LastStart = 1
    MaxTime <- Horizon
INVARIANTS
    AmountsAreNearest
    SpreadFavoursHouse
    ApiInv
    StrangerSeesOneAnswer
    MistakesAre4xx
    TradedPriceIsRecent
    StoredPriceExplainsAmount
PROPERTIES
    EveryRequestIsAnswered
CHECK_DEADLOCK FALSE
