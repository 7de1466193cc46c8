------------------------ MODULE TradeRefinement_proofs ------------------------
(***************************************************************************)
(* TradeExecution implements AtomicExchange: COMMIT of a trade or of a     *)
(* deposit is the one step that moves money, and it does what the atomic   *)
(* operation does.  The action properties of the tables follow the same    *)
(* way.                                                                    *)
(***************************************************************************)
EXTENDS TradeSafety_proofs

USE DEF At, Goto, QuoteLock, BalanceLock, KeyLock

\* Only COMMIT touches balances, ledger or trades.
LEMMA OnlyCommitMoves ==
  ASSUME [Next]_vars, ~\E w \in Workers : Commit(w)
  PROVE  UNCHANGED <<balances, ledger, trades>>
BY DEF Next, Step, Tick, CreateQuote, Crash, Finished, vars, PreCheck, Begin, LockQuote, LockPay,
   InsertTrade, InsertTradeFails, Debit, LockReceive, Credit, ApplyDelta, ApplyDeltaFails, Rollback,
   Recheck, ReadQuote, CheckExpiry, ExpireQuote, LockDeposit, DeadlockVictim, ConnectionLost, Receive,
   tables

\* COMMIT of a trade.
LEMMA TradeMoves ==
  ASSUME IInv, NEW w \in Workers, Commit(w), req[w].kind = "trade",
         NEW q, q = req[w].quote
  PROVE  /\ req[w] \in TradeRequest
         /\ quoteStatus[q] = "ACTIVE"
         /\ quoteStatus' = [quoteStatus EXCEPT ![q] = "EXECUTED"]
         /\ trades' = trades \cup {NewTrade(w)}
         /\ ledger' = ledger \cup TradeEntries(reqId[w], q)
         /\ Available(balances[PayAccount(q)]) >= PayAmount(q)
         /\ balances' = [balances EXCEPT ![PayAccount(q)] = Available(@) - PayAmount(q),
                                         ![ReceiveAccount(q)] = Available(@) + ReceiveAmount(q)]
<1> DEFINE pay == PayAccount(q)
           rcv == ReceiveAccount(q)
<1>0. TypeOK /\ LocalInv(w)
  BY DEF IInv
<1>1. /\ pc[w] = "commit" /\ HasQuote(w) /\ Inserted(w) /\ Debited(w)
      /\ req[w] \in TradeRequest /\ newStatus[w] = "EXECUTED" /\ q \in QuoteIds
  BY CommitFacts, KindOfRequest
<1>2. /\ newTrades[w] = {NewTrade(w)} /\ newLedger[w] = TradeEntries(reqId[w], q)
      /\ quoteStatus[q] = "ACTIVE"
  BY <1>0, <1>1 DEF LocalInv, RowsWritten, QuoteHeld
<1>3. /\ quoteStatus' = [quoteStatus EXCEPT ![q] = "EXECUTED"]
      /\ trades' = trades \cup {NewTrade(w)}
      /\ ledger' = ledger \cup TradeEntries(reqId[w], q)
  <2>1. "EXECUTED" # NoRow
    BY NoRowAssumption DEF QuoteStatus
  <2> QED BY <1>1, <1>2, <2>1 DEF Commit
<1>4. Account(w) = rcv /\ Delta(w) = ReceiveAmount(q)
  BY <1>1 DEF Account, Delta
<1>5. /\ pay \in Accounts /\ rcv \in Accounts /\ pay # rcv
      /\ PayAmount(q) \in Nat /\ ReceiveAmount(q) \in Nat
  BY <1>1, LegsOfQuote
<1>6. \A a \in Accounts : Available(balances[a]) \in Int
  BY <1>0 DEF TypeOK, Available, BalanceRow
<1>7. /\ newBalances[w][pay] = Available(balances[pay]) - PayAmount(q)
      /\ newBalances[w][pay] >= 0
      /\ newBalances[w][rcv] = Available(balances[rcv]) + ReceiveAmount(q)
  <2>1. Wrote(w, pay, -PayAmount(q)) /\ Wrote(w, rcv, ReceiveAmount(q))
    BY <1>0, <1>1, <1>4 DEF LocalInv, BalancesWritten
  <2>2. newBalances[w][pay] = Available(balances[pay]) + (-PayAmount(q))
    BY <2>1 DEF Wrote
  <2> QED BY <1>5, <1>6, <2>1, <2>2 DEF Wrote
<1>8. \A a \in Accounts \ {pay, rcv} : newBalances[w][a] = NoRow
  BY <1>0, <1>1, <1>4 DEF LocalInv, BalancesWritten
<1>9. balances' = [balances EXCEPT ![pay] = Available(@) - PayAmount(q),
                                   ![rcv] = Available(@) + ReceiveAmount(q)]
  <2>1. balances \in [Accounts -> BalanceRow]
    BY <1>0 DEF TypeOK
  <2>2. balances' = [a \in Accounts |-> IF newBalances[w][a] = NoRow
                                        THEN balances[a] ELSE newBalances[w][a]]
    BY DEF Commit
  <2>3. newBalances[w][pay] # NoRow /\ newBalances[w][rcv] # NoRow
    BY <1>5, <1>6, <1>7, NoRowAssumption
  <2> HIDE DEF pay, rcv
  <2>4. balances' = [a \in Accounts |-> IF a = pay THEN Available(balances[pay]) - PayAmount(q)
                                        ELSE IF a = rcv THEN Available(balances[rcv]) + ReceiveAmount(q)
                                        ELSE balances[a]]
    BY <1>5, <1>7, <1>8, <2>2, <2>3
  <2> QED BY <1>5, <2>1, <2>4
<1> QED BY <1>1, <1>2, <1>3, <1>5, <1>6, <1>7, <1>9

\* COMMIT of a deposit.
LEMMA DepositMoves ==
  ASSUME IInv, NEW w \in Workers, Commit(w), req[w].kind # "trade"
  PROVE  /\ req[w] \in DepositRequest
         /\ Account(w) = <<req[w].client, req[w].currency>> /\ Account(w) \in Accounts
         /\ quoteStatus' = quoteStatus /\ trades' = trades
         /\ ledger' = ledger \cup {DepositEntry(reqId[w], Account(w), req[w].amount)}
         /\ balances' = [balances EXCEPT ![Account(w)] = Available(@) + req[w].amount]
<1>0. TypeOK /\ LocalInv(w)
  BY DEF IInv
<1>1. /\ pc[w] = "commit" /\ ~HasQuote(w) /\ ~Inserted(w) /\ ~Debited(w)
      /\ req[w] \in DepositRequest /\ newStatus[w] = NoRow /\ req[w].kind = "deposit"
  BY CommitFacts, KindOfRequest
<1>2. /\ newTrades[w] = {}
      /\ newLedger[w] = {DepositEntry(reqId[w], Account(w), req[w].amount)}
  BY <1>0, <1>1 DEF LocalInv, RowsWritten, Crediting
<1>3. /\ Account(w) = <<req[w].client, req[w].currency>> /\ Delta(w) = req[w].amount
      /\ Account(w) \in Accounts /\ Delta(w) \in Int
  BY <1>1, AccountsOfWorker DEF Account, Delta, Crediting
<1>4. /\ newBalances[w][Account(w)] = Available(balances[Account(w)]) + Delta(w)
      /\ \A a \in Accounts \ {Account(w)} : newBalances[w][a] = NoRow
  BY <1>0, <1>1, <1>3 DEF LocalInv, BalancesWritten, Wrote
<1>5. balances' = [balances EXCEPT ![Account(w)] = Available(@) + req[w].amount]
  <2>1. balances \in [Accounts -> BalanceRow]
    BY <1>0 DEF TypeOK
  <2>2. newBalances[w][Account(w)] # NoRow
    BY <1>3, <1>4, <2>1, NoRowAssumption DEF Available, BalanceRow
  <2>3. balances' = [a \in Accounts |-> IF newBalances[w][a] = NoRow
                                        THEN balances[a] ELSE newBalances[w][a]]
    BY DEF Commit
  <2> QED BY <1>3, <1>4, <2>1, <2>2, <2>3
<1> QED BY <1>1, <1>2, <1>3, <1>5 DEF Commit

LEMMA JustifiedStep == IInv /\ [Next]_vars => JustifiedMove
<1> SUFFICES ASSUME IInv, [Next]_vars, NEW a \in Accounts
             PROVE  LET added == {e \in ledger' \ ledger : e.account = a} IN
                    \/ added = {} /\ balances'[a] = balances[a]
                    \/ \E e \in added : /\ added = {e}
                                        /\ Available(balances'[a]) = Available(balances[a]) + e.deltaMinor
  BY DEF JustifiedMove
<1> DEFINE added == {e \in ledger' \ ledger : e.account = a}
<1>0. balances \in [Accounts -> BalanceRow] /\ \A b \in Accounts : Available(balances[b]) \in Int
  BY DEF IInv, TypeOK, Available, BalanceRow
<1>1. ASSUME NEW w \in Workers, Commit(w), req[w].kind = "trade"
      PROVE  \/ added = {} /\ balances'[a] = balances[a]
             \/ \E e \in added : /\ added = {e}
                                 /\ Available(balances'[a]) = Available(balances[a]) + e.deltaMinor
  <2> DEFINE q == req[w].quote
             debit == [refId |-> reqId[w], reason |-> "TRADE", account |-> PayAccount(q),
                       deltaMinor |-> -PayAmount(q)]
             credit == [refId |-> reqId[w], reason |-> "TRADE", account |-> ReceiveAccount(q),
                        deltaMinor |-> ReceiveAmount(q)]
  <2>1. /\ ledger' = ledger \cup {debit, credit}
        /\ balances' = [balances EXCEPT ![PayAccount(q)] = Available(@) - PayAmount(q),
                                        ![ReceiveAccount(q)] = Available(@) + ReceiveAmount(q)]
    BY <1>1, TradeMoves DEF TradeEntries
  <2>2. /\ PayAccount(q) \in Accounts /\ ReceiveAccount(q) \in Accounts
        /\ PayAccount(q) # ReceiveAccount(q)
        /\ PayAmount(q) \in Nat /\ ReceiveAmount(q) \in Nat
    BY <1>1, TradeMoves, KindOfRequest, LegsOfQuote
  <2>3. debit \notin ledger /\ credit \notin ledger
    <3>1. \A e \in ledger : e.refId # reqId[w]
      BY <1>1 DEF IInv, LocalInv, IdFresh, Commit, Resting
    <3> QED BY <3>1
  <2>4. /\ debit.account = PayAccount(q) /\ debit.deltaMinor = -PayAmount(q)
        /\ credit.account = ReceiveAccount(q) /\ credit.deltaMinor = ReceiveAmount(q)
    OBVIOUS
  <2> HIDE DEF debit, credit, q
  <2>5. CASE a = PayAccount(q)
    <3>1. added = {debit}
      BY <2>1, <2>2, <2>3, <2>4, <2>5
    <3>2. balances'[a] = Available(balances[a]) - PayAmount(q)
      BY <1>0, <2>1, <2>2, <2>5
    <3>3. Available(balances'[a]) = Available(balances[a]) + debit.deltaMinor
      BY <1>0, <2>2, <2>4, <3>2, NoRowAssumption DEF Available
    <3> QED BY <3>1, <3>3
  <2>6. CASE a = ReceiveAccount(q)
    <3>1. added = {credit}
      BY <2>1, <2>2, <2>3, <2>4, <2>6
    <3>2. balances'[a] = Available(balances[a]) + ReceiveAmount(q)
      BY <1>0, <2>1, <2>2, <2>6
    <3>3. Available(balances'[a]) = Available(balances[a]) + credit.deltaMinor
      BY <1>0, <2>2, <2>4, <3>2, NoRowAssumption DEF Available
    <3> QED BY <3>1, <3>3
  <2>7. CASE a # PayAccount(q) /\ a # ReceiveAccount(q)
    <3>1. added = {}
      BY <2>1, <2>4, <2>7
    <3>2. balances'[a] = balances[a]
      BY <1>0, <2>1, <2>7
    <3> QED BY <3>1, <3>2
  <2> QED BY <2>5, <2>6, <2>7
<1>2. ASSUME NEW w \in Workers, Commit(w), req[w].kind # "trade"
      PROVE  \/ added = {} /\ balances'[a] = balances[a]
             \/ \E e \in added : /\ added = {e}
                                 /\ Available(balances'[a]) = Available(balances[a]) + e.deltaMinor
  <2> DEFINE entry == DepositEntry(reqId[w], Account(w), req[w].amount)
  <2>1. /\ ledger' = ledger \cup {entry}
        /\ balances' = [balances EXCEPT ![Account(w)] = Available(@) + req[w].amount]
        /\ req[w].amount \in Nat /\ Account(w) \in Accounts
    BY <1>2, DepositMoves, KindOfRequest
  <2>2. entry.account = Account(w) /\ entry.deltaMinor = req[w].amount /\ entry.refId = reqId[w]
    BY DEF DepositEntry
  <2>3. entry \notin ledger
    BY <1>2, <2>2 DEF IInv, LocalInv, IdFresh, Commit, Resting
  <2> HIDE DEF entry
  <2>4. CASE a = Account(w)
    <3>1. added = {entry}
      BY <2>1, <2>2, <2>3, <2>4
    <3>2. balances'[a] = Available(balances[a]) + req[w].amount
      BY <1>0, <2>1, <2>4
    <3>3. Available(balances'[a]) = Available(balances[a]) + entry.deltaMinor
      BY <1>0, <2>1, <2>2, <3>2, NoRowAssumption DEF Available
    <3> QED BY <3>1, <3>3
  <2>5. CASE a # Account(w)
    <3>1. added = {}
      BY <2>1, <2>2, <2>5
    <3>2. balances'[a] = balances[a]
      BY <1>0, <2>1, <2>5
    <3> QED BY <3>1, <3>2
  <2> QED BY <2>4, <2>5
<1>3. CASE ~\E w \in Workers : Commit(w)
  BY <1>3, OnlyCommitMoves
<1> QED BY <1>1, <1>2, <1>3

\* Money moves in the transaction that justifies it, or not at all.
THEOREM MovesAreJustified == Spec => LedgerJustifiesMove
<1>1. IInv /\ [Next]_vars => [JustifiedMove]_vars
  BY JustifiedStep
<1> QED BY <1>1, InductiveInvariant, PTL DEF Spec, LedgerJustifiesMove

LEMMA LiveStep == IInv /\ [Next]_vars => LiveQuoteTrade
<1> SUFFICES ASSUME IInv, [Next]_vars PROVE LiveQuoteTrade
  OBVIOUS
<1>0. quoteStatus \in [QuoteIds -> QuoteStatus]
  BY DEF IInv, TypeOK
<1>1. ASSUME NEW w \in Workers, Commit(w) PROVE LiveQuoteTrade
  <2>1. CASE req[w].kind = "trade"
    <3> DEFINE q == req[w].quote
    <3>1. /\ quoteStatus[q] = "ACTIVE" /\ quoteStatus' = [quoteStatus EXCEPT ![q] = "EXECUTED"]
          /\ trades' = trades \cup {NewTrade(w)} /\ q \in QuoteIds
      BY <1>1, <2>1, TradeMoves, KindOfRequest
    <3>2. NewTrade(w).quoteId = q
      BY DEF NewTrade
    <3> QED BY <1>0, <3>1, <3>2 DEF LiveQuoteTrade
  <2>2. CASE req[w].kind # "trade"
    BY <1>1, <2>2, DepositMoves DEF LiveQuoteTrade
  <2> QED BY <2>1, <2>2
<1>2. ASSUME NEW w \in Workers, ExpireQuote(w) PROVE LiveQuoteTrade
  BY <1>0, <1>2 DEF ExpireQuote, LiveQuoteTrade
<1>3. ASSUME NEW q \in QuoteIds, CreateQuote(q) PROVE LiveQuoteTrade
  BY <1>0, <1>3 DEF CreateQuote, LiveQuoteTrade
<1>4. CASE UNCHANGED <<quoteStatus, trades>>
  BY <1>4 DEF LiveQuoteTrade
<1> QED
  BY <1>1, <1>2, <1>3, <1>4 DEF Next, Step, Tick, Crash, Finished, vars, PreCheck, Begin, LockQuote,
     LockPay, InsertTrade, InsertTradeFails, Debit, LockReceive, Credit, ApplyDelta, ApplyDeltaFails,
     Rollback, Recheck, ReadQuote, CheckExpiry, LockDeposit, DeadlockVictim, ConnectionLost, Receive,
     tables

\* Only an active quote trades, and an expired one never revives.
THEOREM LiveQuotesTrade == Spec => OnlyLiveQuotesTrade
<1>1. IInv /\ [Next]_vars => [LiveQuoteTrade]_vars
  BY LiveStep
<1> QED BY <1>1, InductiveInvariant, PTL DEF Spec, OnlyLiveQuotesTrade

\* The operators of FxTables mean the same in Exchange.
LEMMA SameTables ==
  /\ \A row : Exchange!Available(row) = Available(row)
  /\ \A q : /\ Exchange!PayAccount(q) = PayAccount(q) /\ Exchange!PayAmount(q) = PayAmount(q)
           /\ Exchange!ReceiveAccount(q) = ReceiveAccount(q)
           /\ Exchange!ReceiveAmount(q) = ReceiveAmount(q)
  /\ \A id, q : Exchange!TradeEntries(id, q) = TradeEntries(id, q)
  /\ \A id, a, amount : Exchange!DepositEntry(id, a, amount) = DepositEntry(id, a, amount)
  /\ Exchange!Accounts = Accounts /\ Exchange!SeedEntries = SeedEntries
<1>1. Exchange!Accounts = Accounts
  BY DEF Exchange!Accounts, Accounts
<1>2. \A row : Exchange!Available(row) = Available(row)
  BY DEF Exchange!Available, Available
<1>3. \A q : /\ Exchange!PayAccount(q) = PayAccount(q) /\ Exchange!PayAmount(q) = PayAmount(q)
            /\ Exchange!ReceiveAccount(q) = ReceiveAccount(q)
            /\ Exchange!ReceiveAmount(q) = ReceiveAmount(q)
  BY DEF Exchange!PayAccount, PayAccount, Exchange!PayCurrency, PayCurrency, Exchange!PayAmount, PayAmount,
         Exchange!ReceiveAccount, ReceiveAccount, Exchange!ReceiveCurrency, ReceiveCurrency,
         Exchange!ReceiveAmount, ReceiveAmount
<1>4. \A id, q : Exchange!TradeEntries(id, q) = TradeEntries(id, q)
  BY <1>3 DEF Exchange!TradeEntries, TradeEntries
<1>5. \A id, a, amount : Exchange!DepositEntry(id, a, amount) = DepositEntry(id, a, amount)
  BY DEF Exchange!DepositEntry, DepositEntry
<1>6. Exchange!SeedEntries = SeedEntries
  BY <1>1, <1>5 DEF Exchange!SeedEntries, SeedEntries
<1> QED BY <1>1, <1>2, <1>3, <1>4, <1>5, <1>6

LEMMA InitRefines == Init => Exchange!Init
BY SameTables DEF Init, Exchange!Init

\* COMMIT of a trade is Execute, COMMIT of a deposit is Deposit.
LEMMA CommitRefines ==
  ASSUME IInv, NEW w \in Workers, Commit(w)
  PROVE  Exchange!Next
<1>0. /\ TypeOK /\ LocalInv(w) /\ pc[w] = "commit"
      /\ reqId[w] \in 1..received /\ \A e \in ledger : e.refId # reqId[w]
  BY DEF IInv, LocalInv, IdFresh, Commit, Resting
<1>1. reqId[w] \in 1..MaxRequests /\ Exchange!Fresh(reqId[w])
  BY <1>0, BoundAssumption DEF TypeOK, Exchange!Fresh
<1>2. CASE req[w].kind = "trade"
  <2> DEFINE q == req[w].quote
             k == req[w].key
  <2>1. q \in QuoteIds /\ k \in Keys
    BY <1>2, TradeMoves, KindOfRequest
  <2>2. began[w] \in 0..MaxTime
    BY <1>0, BoundAssumption DEF TypeOK, LocalInv, BeganInPast
  <2>3. QuoteHeld(w) /\ FindByIdempotencyKey(w) = {} /\ HasQuote(w)
    BY <1>0, <1>2, CommitFacts DEF LocalInv, KeyHeld
  <2>4. \A t \in trades : /\ t.quoteId # q
                          /\ <<t.clientId, t.idempotencyKey>> # <<Quote[q].clientId, k>>
    BY <2>3 DEF QuoteHeld, FindByIdempotencyKey
  <2>5. NewTrade(w) = [id |-> reqId[w], clientId |-> Quote[q].clientId, quoteId |-> q,
                       idempotencyKey |-> k, createdAt |-> began[w]]
    BY <2>3 DEF QuoteHeld, NewTrade
  <2>6. Exchange!Execute(q, k, reqId[w], began[w])
    BY <1>1, <1>2, <2>4, <2>5, TradeMoves, SameTables DEF Exchange!Execute
  <2> QED BY <1>1, <2>1, <2>2, <2>6 DEF Exchange!Next
<1>3. CASE req[w].kind # "trade"
  <2>1. req[w].amount \in {r.amount : r \in {s \in Requests : s.kind = "deposit"}}
    <3>1. req[w] \in DepositRequest /\ req[w] \in Requests \cup {NoRequest} /\ req[w].kind = "deposit"
      BY <1>0, <1>3, DepositMoves, KindOfRequest DEF TypeOK
    <3>2. req[w] # NoRequest
      BY <3>1, RequestsAssumption
    <3> QED BY <3>1, <3>2
  <2>2. Exchange!Deposit(Account(w), req[w].amount, reqId[w])
    BY <1>1, <1>3, DepositMoves, SameTables DEF Exchange!Deposit
  <2> QED BY <1>1, <1>3, <2>1, <2>2, DepositMoves, SameTables DEF Exchange!Next
<1> QED BY <1>2, <1>3

LEMMA NextRefines == IInv /\ [Next]_vars => [Exchange!Next]_(Exchange!vars)
<1> SUFFICES ASSUME IInv, [Next]_vars PROVE [Exchange!Next]_(Exchange!vars)
  OBVIOUS
<1>1. ASSUME NEW w \in Workers, Commit(w) PROVE Exchange!Next
  BY <1>1, CommitRefines
<1>2. ASSUME NEW w \in Workers, ExpireQuote(w) PROVE Exchange!Next
  <2>1. req[w].quote \in QuoteIds /\ quoteStatus[req[w].quote] # "NONE"
    BY <1>2, KindOfRequest DEF IInv, LocalInv, QuoteSeen, QuoteVisible, ServesRequest, ExpireQuote
  <2> QED BY <1>2, <2>1 DEF ExpireQuote, Exchange!Next, Exchange!MarkExpired
<1>3. ASSUME NEW q \in QuoteIds, CreateQuote(q) PROVE Exchange!Next
  BY <1>3 DEF CreateQuote, Exchange!Next, Exchange!CreateQuote
<1>4. CASE UNCHANGED <<quoteStatus, balances, ledger, trades>>
  BY <1>4 DEF Exchange!vars
<1> QED
  BY <1>1, <1>2, <1>3, <1>4 DEF Next, Step, Tick, Crash, Finished, vars, PreCheck, Begin, LockQuote,
     LockPay, InsertTrade, InsertTradeFails, Debit, LockReceive, Credit, ApplyDelta, ApplyDeltaFails,
     Rollback, Recheck, ReadQuote, CheckExpiry, LockDeposit, DeadlockVictim, ConnectionLost, Receive,
     tables

\* Trades and deposits are atomic: seen from the tables, every behaviour is one
\* of AtomicExchange.
THEOREM Refinement == Spec => AtomicTrading
<1>1. Init => Exchange!Init
  BY InitRefines
<1>2. IInv /\ [Next]_vars => [Exchange!Next]_(Exchange!vars)
  BY NextRefines
<1> QED BY <1>1, <1>2, InductiveInvariant, PTL DEF Spec, AtomicTrading, Exchange!Spec
=============================================================================
