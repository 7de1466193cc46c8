--------------------------- MODULE TradeInvariant ---------------------------
(***************************************************************************)
(* The inductive invariant behind the properties of TradeExecution: what a *)
(* request may rely on between two of its statements.  Most of it is said  *)
(* of one worker, so that a proof can treat the worker that takes a step   *)
(* and the workers that do not apart.                                      *)
(***************************************************************************)
EXTENDS TradeExecution

\* Each statement belongs to one kind of request; a rollback has an error to report.
ServesRequest(w) ==
    /\ pc[w] \in {"preCheck", "lockQuote", "lockPay", "insertTrade", "debit",
                  "lockReceive", "recheck"} => req[w] \in TradeRequest
    /\ pc[w] \in {"readQuote", "checkExpiry", "expireQuote"} => req[w] \in QuoteRequest
    /\ pc[w] = "lockDeposit" => req[w] \in DepositRequest
    /\ pc[w] \in {"begin", "credit", "commit", "rollback"} =>
           req[w] \in TradeRequest \cup DepositRequest
    /\ pc[w] = "rollback" =>
           /\ code[w] \in Errors \cup Violations
           /\ code[w] \in {KeyUnique, QuoteUnique} => req[w] \in TradeRequest

\* A quote that was read is never deleted, and never changes hands.
QuoteSeen(w) == pc[w] \in {"checkExpiry", "expireQuote"} => QuoteVisible(w)

\* No lock is held before the transaction or after it.
LocksReleased(w) == pc[w] \notin InTransaction => locked[w] = {}
LocksDisjoint == \A v, w \in Workers : v # w => locked[v] \cap locked[w] = {}

Crediting(w) == pc[w] \in {"credit", "commit"}

\* The worker has passed the checks of its quote.
HasQuote(w) ==
    \/ pc[w] \in {"lockPay", "insertTrade", "debit", "lockReceive"}
    \/ Crediting(w) /\ req[w].kind = "trade"

BeganInPast(w) == began[w] <= now

\* The row lock freezes the quote: active, in time, and not traded.
QuoteHeld(w) ==
    HasQuote(w) =>
        LET q == req[w].quote IN
        /\ QuoteLock(q) \in locked[w]
        /\ Quote[q].clientId = req[w].client
        /\ quoteStatus[q] = "ACTIVE"
        /\ began[w] < expiresAt[q]
        /\ \A t \in trades : t.quoteId # q

\* The worker has inserted its trade, and so holds its idempotency key.
Inserted(w) == HasQuote(w) /\ pc[w] \notin {"lockPay", "insertTrade"}

KeyHeld(w) ==
    Inserted(w) => /\ KeyLock(req[w].client, req[w].key) \in locked[w]
                   /\ FindByIdempotencyKey(w) = {}

NewTrade(w) == [id |-> reqId[w], clientId |-> req[w].client, quoteId |-> req[w].quote,
                idempotencyKey |-> req[w].key, createdAt |-> began[w]]

\* What the transaction has inserted so far, and the status it has given its quote.
RowsWritten(w) ==
    /\ newTrades[w] = IF Inserted(w) THEN {NewTrade(w)} ELSE {}
    /\ Inserted(w) => newLedger[w] = TradeEntries(reqId[w], req[w].quote)
    /\ Crediting(w) /\ ~HasQuote(w) =>
           newLedger[w] = {DepositEntry(reqId[w], Account(w), req[w].amount)}
    /\ ~Inserted(w) /\ ~Crediting(w) => newLedger[w] = {}
    /\ pc[w] # "rollback" =>
           newStatus[w] = IF pc[w] = "commit" /\ HasQuote(w) THEN "EXECUTED" ELSE NoRow

\* A balance row that was read under lock is still what was read.
RowRead(w, a) == existing[w] # NoRow => /\ BalanceLock(a) \in locked[w]
                                        /\ existing[w] = balances[a]

BalanceRead(w) ==
    /\ pc[w] \in {"insertTrade", "debit"} =>
          /\ RowRead(w, PayAccount(req[w].quote))
          /\ Available(existing[w]) >= PayAmount(req[w].quote)
    /\ pc[w] = "credit" => RowRead(w, Account(w))

\* The balances the transaction has written are the committed ones plus its own
\* amounts, and nobody else can have changed them meanwhile.
Debited(w) == HasQuote(w) /\ pc[w] \in {"lockReceive", "credit", "commit"}
Wrote(w, a, delta) ==
    /\ BalanceLock(a) \in locked[w]
    /\ newBalances[w][a] = Available(balances[a]) + delta
    /\ newBalances[w][a] >= 0

BalancesWritten(w) ==
    /\ Debited(w) => Wrote(w, PayAccount(req[w].quote), -PayAmount(req[w].quote))
    /\ pc[w] = "commit" => Wrote(w, Account(w), Delta(w))
    /\ \A a \in Accounts : newBalances[w][a] # NoRow =>
          \/ Debited(w) /\ a = PayAccount(req[w].quote)
          \/ pc[w] = "commit" /\ a = Account(w)

\* Ids are not reused: the ledger knows none of a request that is being served.
IdFresh(w) ==
    pc[w] \notin Resting => /\ reqId[w] \in 1..received
                            /\ \A e \in ledger : e.refId # reqId[w]
IdsDistinct ==
    /\ \A e \in ledger : e.refId \in 0..received
    /\ \A v, w \in Workers :
          v # w /\ pc[v] \notin Resting /\ pc[w] \notin Resting => reqId[v] # reqId[w]

\* A quote with a trade was in time when it was traded, and is no longer active.
TradedQuotes ==
    \A t \in trades : /\ quoteStatus[t.quoteId] \in {"EXECUTED", "EXPIRED"}
                      /\ t.createdAt < expiresAt[t.quoteId]

LocalInv(w) ==
    /\ ServesRequest(w)
    /\ QuoteSeen(w)
    /\ LocksReleased(w)
    /\ BeganInPast(w)
    /\ QuoteHeld(w)
    /\ KeyHeld(w)
    /\ RowsWritten(w)
    /\ BalanceRead(w)
    /\ BalancesWritten(w)
    /\ IdFresh(w)

\* What holds between any two statements of any two requests; it is inductive.
IInv ==
    /\ TypeOK
    /\ \A w \in Workers : LocalInv(w)
    /\ LocksDisjoint
    /\ BalanceNeverNegative
    /\ IdsDistinct
    /\ TradedQuotes
    /\ AtMostOneTrade
    /\ ExecutedIffTraded

-----------------------------------------------------------------------------
\* The ledger entries of a trade are those of its quote, under its own client,
\* and no trade entry is without its trade.
LedgerRows ==
    /\ \A t \in trades : /\ t.clientId = Quote[t.quoteId].clientId
                          /\ {e \in ledger : e.refId = t.id} = TradeEntries(t.id, t.quoteId)
    /\ \A e \in ledger : e.reason = "TRADE" => \E t \in trades : t.id = e.refId

\* The stored trade that an answer or an error of worker w speaks of.
QuoteTraded(w) == \E t \in trades : t.quoteId = req[w].quote
KeyTraded(w) == FindByIdempotencyKey(w) # {}

\* An error has its reason before the rollback that turns it into an answer, and
\* keeps it until then.
ErrorFounded(w) ==
    /\ pc[w] = "rollback" =>
          /\ code[w] # "IDEMPOTENCY_CONFLICT"
          /\ code[w] \in {QuoteUnique, "QUOTE_ALREADY_EXECUTED"} => QuoteTraded(w)
          /\ code[w] = KeyUnique => KeyTraded(w)
    /\ pc[w] = "recheck" => KeyTraded(w)

\* What an answer says is so.
AnswerFounded(w) == pc[w] = "done" =>
    /\ code[w] = "OK" /\ req[w].kind = "trade" =>
          \E t \in FindByIdempotencyKey(w) : t.id = returned[w] /\ t.quoteId = req[w].quote
    /\ code[w] = "IDEMPOTENCY_CONFLICT" =>
          \E t \in FindByIdempotencyKey(w) : t.quoteId # req[w].quote \/ ~req[w].canonical
    /\ code[w] = "QUOTE_ALREADY_EXECUTED" => QuoteTraded(w)

\* An account has finitely many entries, so that their sum means something.
EntriesFinite == \A a \in Accounts : IsFiniteSet({e \in ledger : e.account = a})

\* The invariant with what the books and the answers rest on; it is inductive.
FullInv ==
    /\ IInv
    /\ LedgerRows
    /\ EntriesFinite
    /\ LedgerBacksBalances
    /\ \A w \in Workers : ErrorFounded(w) /\ AnswerFounded(w)
=============================================================================
