--------------------------- MODULE MCTradeHistory ---------------------------
(* Small instances of TradeHistory for TLC. *)
EXTENDS TradeHistory

TwoClients == {"alice", "bob"}
OneClient == {"alice"}
=============================================================================
