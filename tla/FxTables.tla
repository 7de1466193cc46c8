------------------------------ MODULE FxTables ------------------------------
(***************************************************************************)
(* The rows of the Mini-OpenFX database that trading reads and writes      *)
(* (src/db/schema), and the money a quote moves when it is executed.       *)
(*                                                                         *)
(* This module declares constants only; AtomicExchange and TradeExecution  *)
(* share it.  Amounts are integers in minor units.  Names of clients,      *)
(* currencies, quotes and idempotency keys are opaque values; the columns  *)
(* that are only copied (symbol, price, status FILLED) are left out.       *)
(***************************************************************************)
EXTENDS Integers, FiniteSets

CONSTANTS
    Clients,     \* ids of rows of the clients table
    Currencies,  \* currency codes
    QuoteIds,    \* ids of the quotes that may be created
    Quote,       \* the terms locked in by each quote when it is created
    Keys,        \* values of the Idempotency-Key header
    Opening,     \* the balances table when the service starts
    NoRow        \* the answer of a query that finds no row (undefined)

Sides == {"BUY", "SELL"}

QuoteTerms == [clientId : Clients, side : Sides,
               baseCurrency : Currencies, quoteCurrency : Currencies,
               baseAmountMinor : Nat, quoteAmountMinor : Nat]

\* SYMBOLS never pairs a currency with itself.  The amounts are not negative:
\* the request's amount is an unsigned decimal string, the price is positive,
\* and the spread is at most 10000 basis points.  They may be zero, since
\* nothing checks them again once they are rounded to minor units.
ASSUME QuoteAssumption ==
    /\ Quote \in [QuoteIds -> QuoteTerms]
    /\ \A q \in QuoteIds : Quote[q].baseCurrency # Quote[q].quoteCurrency

\* quotes.status, "NONE" standing for a quote whose row is not inserted yet.
QuoteStatus == {"NONE", "ACTIVE", "EXPIRED", "EXECUTED"}

ASSUME NoRowAssumption == NoRow \notin Int \cup QuoteStatus

\* A balance row is identified by its unique (client, currency) pair.
Accounts == Clients \X Currencies

BalanceRow == Int \cup {NoRow}

ASSUME OpeningAssumption == Opening \in [Accounts -> Nat \cup {NoRow}]

\* payBalance?.availableMinor ?? 0n
Available(row) == IF row = NoRow THEN 0 ELSE row

\* BUY: the client pays the quote currency and receives the base currency.
\* SELL: the reverse.
PayCurrency(q) ==
    IF Quote[q].side = "BUY" THEN Quote[q].quoteCurrency ELSE Quote[q].baseCurrency
PayAmount(q) ==
    IF Quote[q].side = "BUY" THEN Quote[q].quoteAmountMinor ELSE Quote[q].baseAmountMinor
ReceiveCurrency(q) ==
    IF Quote[q].side = "BUY" THEN Quote[q].baseCurrency ELSE Quote[q].quoteCurrency
ReceiveAmount(q) ==
    IF Quote[q].side = "BUY" THEN Quote[q].baseAmountMinor ELSE Quote[q].quoteAmountMinor

PayAccount(q) == <<Quote[q].clientId, PayCurrency(q)>>
ReceiveAccount(q) == <<Quote[q].clientId, ReceiveCurrency(q)>>

\* Rows of ledger_entries; refId names the trade or deposit they belong to.
LedgerEntry == [refId : Nat, reason : {"TRADE", "DEPOSIT"},
                account : Accounts, deltaMinor : Int]

\* Mutant of TradeEntries: the side of the quote is ignored.
TradeEntriesOneSided(id, q) ==
    {[refId |-> id, reason |-> "TRADE",
      account |-> <<Quote[q].clientId, Quote[q].quoteCurrency>>,
      deltaMinor |-> -Quote[q].quoteAmountMinor],
     [refId |-> id, reason |-> "TRADE",
      account |-> <<Quote[q].clientId, Quote[q].baseCurrency>>,
      deltaMinor |-> Quote[q].baseAmountMinor]}

TradeEntries(id, q) ==
    {[refId |-> id, reason |-> "TRADE", account |-> PayAccount(q),
      deltaMinor |-> -PayAmount(q)],
     [refId |-> id, reason |-> "TRADE", account |-> ReceiveAccount(q),
      deltaMinor |-> ReceiveAmount(q)]}

DepositEntry(id, a, amount) ==
    [refId |-> id, reason |-> "DEPOSIT", account |-> a, deltaMinor |-> amount]

\* The seed script justifies every opening balance with a ledger entry.
SeedEntries == {DepositEntry(0, a, Opening[a]) : a \in {b \in Accounts : Opening[b] # NoRow}}

\* Rows of trades.
Trade == [id : Nat, clientId : Clients, quoteId : QuoteIds,
          idempotencyKey : Keys, createdAt : Nat]
=============================================================================
