---------------------------- MODULE MCApiRequests ----------------------------
(* A small instance of ApiRequests and MoneyMath for TLC: crypto currencies of  *)
(* two decimals and a fiat one of one, requests one digit finer than either,    *)
(* and prices stored five times finer than firm prices are.                     *)
EXTENDS ApiRequests

PairBase == [BTCUSDT |-> "BTC", ETHBTC |-> "ETH"]
PairQuote == [BTCUSDT |-> "USDT", ETHBTC |-> "BTC"]
Units == [BTC |-> 100, ETH |-> 100, USDT |-> 10]
SomeAmounts == 1..12 \cup {44, 45, 46, 994, 995, 1004, 1005, 1050}
SomeMids == {1, 7, 9, 50, 99}
SomeSpreads == {0, 1, 7, 20}

\* Long enough for the longest quote to be traded or to expire.
Horizon == LastStart + MaxLatency + DefaultTtl
==============================================================================
