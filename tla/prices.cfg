SPECIFICATION Spec
CONSTANTS
    Callers = {c1, c2}
    FreshTtl = 1
    LastKnownTtl = 3
    Timeout = 1
    MaxRetries = 1
    Backoff = 1
    RedisTime = 1
    LastStart = 2
    MaxTime <- Horizon
INVARIANTS
    PricingInv
    FreshMeansRecent
    FallbackIsLastResort
    BoundedLatency
PROPERTIES
    OlderPriceOnlyWhileResending
    PricingIsFeed
CHECK_DEADLOCK FALSE
