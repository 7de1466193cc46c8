----------------------------- MODULE MCPricing -----------------------------
(* Small instances of Pricing for TLC. *)
EXTENDS PricingInvariant

\* Long enough for the last call to be answered.
Horizon == LastStart + (MaxRetries + 1) * Timeout + BackoffSum + 2 * RedisTime
=============================================================================
