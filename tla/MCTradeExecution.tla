-------------------------- MODULE MCTradeExecution --------------------------
(* Small instances of TradeExecution for TLC. *)
EXTENDS TradeInvariant, TLC

Usdt == "USDT"
Btc == "BTC"
Alice == "alice"
Bob == "bob"

Terms(client, side, base, quote) ==
    [clientId |-> client, side |-> side, baseCurrency |-> Btc, quoteCurrency |-> Usdt,
     baseAmountMinor |-> base, quoteAmountMinor |-> quote]

TradeSpelled(client, q, k, canonical) ==
    [kind |-> "trade", client |-> client, quote |-> q, canonical |-> canonical, key |-> k]
TradeOf(client, q, k) == TradeSpelled(client, q, k, TRUE)
TradeInUpperCase(client, q, k) == TradeSpelled(client, q, k, FALSE)
Get(client, q) == [kind |-> "getQuote", client |-> client, quote |-> q]
DepositOf(client, currency, amount) ==
    [kind |-> "deposit", client |-> client, currency |-> currency, amount |-> amount]

WorkerSymmetry == Permutations(Workers)

OneClient == {Alice}
TwoClients == {Alice, Bob}

\* What the shipped build answers, and both answers.
NeverRecognised == {FALSE}
EitherAnswer == BOOLEAN

-----------------------------------------------------------------------------
\* Races: q1 and q2 lock the two balances in opposite orders, the balance pays
\* for one of q1 and q3 only, requests share quotes and keys, and one of them is
\* not spelled as Postgres does.
RaceQuote == [q1 |-> Terms(Alice, "BUY", 1, 2),
              q2 |-> Terms(Alice, "SELL", 1, 2),
              q3 |-> Terms(Alice, "BUY", 1, 1)]
RaceRequests == {TradeOf(Alice, "q1", "k1"), TradeInUpperCase(Alice, "q2", "k2"),
                 TradeOf(Alice, "q2", "k1"), TradeOf(Alice, "q3", "k2")}
RaceOpening == <<Alice, Usdt>> :> 2 @@ <<Alice, Btc>> :> 1
FarExpiry == {1}

-----------------------------------------------------------------------------
\* Expiry and faults: trades and reads of a quote race with its expiry while
\* connections are lost, the service crashes and requests are sent again.
\* Deposits and credits race to insert Alice's BTC row, whose column holds no
\* more than MaxMinor; q2 costs nothing once rounded.
FaultQuote == [q1 |-> Terms(Alice, "BUY", 1, 2), q2 |-> Terms(Alice, "BUY", 1, 0)]
FaultRequests == {TradeOf(Alice, "q1", "k1"), TradeOf(Alice, "q2", "k1"),
                  TradeOf(Bob, "q1", "k1"), DepositOf(Alice, Btc, 1), Get(Alice, "q1")}
FaultOpening == [a \in {Alice, Bob} \X {Usdt, Btc} |-> IF a = <<Alice, Usdt>> THEN 2 ELSE NoRow]

-----------------------------------------------------------------------------
\* Waits: quotes that lock the balances in opposite orders and share a key, and
\* a balance row still to be inserted.
WaitQuote == [q1 |-> Terms(Alice, "BUY", 1, 2), q2 |-> Terms(Alice, "SELL", 1, 2)]
WaitRequests == {TradeOf(Alice, "q1", "k1"), TradeOf(Alice, "q2", "k1"), DepositOf(Alice, Btc, 1)}
WaitOpening == <<Alice, Usdt>> :> 2 @@ <<Alice, Btc>> :> NoRow

-----------------------------------------------------------------------------
\* Requests of one quote, for what the documentation says of them.
OneQuote == [q1 |-> Terms(Alice, "BUY", 1, 2)]
OneQuoteRequests == {TradeOf(Alice, "q1", "k1"), Get(Alice, "q1")}
OneQuoteOpening == <<Alice, Usdt>> :> 4 @@ <<Alice, Btc>> :> NoRow
=============================================================================
