-------------------------- MODULE TradeSafety_proofs --------------------------
(***************************************************************************)
(* TradeExecution is well typed, IInv is an inductive invariant of it, and *)
(* the safety properties that follow from IInv.                            *)
(*                                                                         *)
(* A step of worker w is treated in three parts: what it may do to the     *)
(* tables (TablesStep), what therefore stays true of the other workers,    *)
(* which it does not touch (Frame, LocalFrame), and what becomes true of w *)
(* itself, whose next statement belongs to the request it serves           *)
(* (ServesStep, LocalOwn).                                                 *)
(***************************************************************************)
EXTENDS TradeInvariant, TLAPS

USE DEF At, Goto, QuoteLock, BalanceLock, KeyLock


-----------------------------------------------------------------------------
(* Types *)

\* Every worker serves its request, and holds locks only inside a transaction.
RequestOK == \A w \in Workers : ServesRequest(w) /\ LocksReleased(w)

\* Requests of the three kinds are told apart by their kind.
LEMMA KindOfRequest ==
  /\ \A r \in TradeRequest : r.kind = "trade" /\ r.client \in Clients /\ r.quote \in QuoteIds /\ r.key \in Keys
  /\ \A r \in QuoteRequest : r.kind = "getQuote" /\ r.client \in Clients /\ r.quote \in QuoteIds
  /\ \A r \in DepositRequest : r.kind = "deposit" /\ r.client \in Clients /\ r.currency \in Currencies /\ r.amount \in Nat
BY DEF TradeRequest, QuoteRequest, DepositRequest

\* The accounts and amounts of a quote's two legs.
LEMMA LegsOfQuote ==
  ASSUME NEW q \in QuoteIds
  PROVE  /\ PayAccount(q) \in Accounts /\ ReceiveAccount(q) \in Accounts
         /\ PayAccount(q) # ReceiveAccount(q)
         /\ PayAmount(q) \in Nat /\ ReceiveAmount(q) \in Nat
BY QuoteAssumption DEF QuoteTerms, Sides, Accounts, PayAccount, ReceiveAccount, PayCurrency, ReceiveCurrency, PayAmount, ReceiveAmount

LEMMA AccountType ==
  ASSUME TypeOK, RequestOK, NEW w \in Workers,
         pc[w] \in {"lockPay", "debit", "lockReceive", "credit", "lockDeposit"}
  PROVE  Account(w) \in Accounts /\ Delta(w) \in Int
<1>1. CASE req[w] \in DepositRequest
  BY <1>1, KindOfRequest DEF Account, Delta, Accounts
<1>2. CASE req[w] \in TradeRequest
  <2>1. req[w].kind # "deposit" /\ req[w].quote \in QuoteIds
    BY <1>2, KindOfRequest
  <2> QED BY <2>1, LegsOfQuote DEF Account, Delta
<1> QED BY <1>1, <1>2 DEF RequestOK, ServesRequest

LEMMA WantsType ==
  ASSUME TypeOK, RequestOK, NEW w \in Workers
  PROVE  Wants(w) \subseteq Locks
<1>1. CASE pc[w] \in {"lockPay", "debit", "lockReceive", "credit", "lockDeposit"}
  BY <1>1, AccountType DEF Wants, Locks, LocksQuote, LocksBalance, InsertsBalance, InsertsKey
<1>2. CASE pc[w] \in {"lockQuote", "expireQuote", "insertTrade"}
  BY <1>2, KindOfRequest DEF Wants, Locks, RequestOK, ServesRequest, LocksQuote, LocksBalance, InsertsBalance, InsertsKey
<1>3. CASE pc[w] \notin {"lockPay", "debit", "lockReceive", "credit", "lockDeposit", "lockQuote", "expireQuote", "insertTrade"}
  BY <1>3 DEF Wants, LocksQuote, LocksBalance, InsertsBalance, InsertsKey
<1> QED BY <1>1, <1>2, <1>3

LEMMA InitTyped == Init => TypeOK /\ RequestOK
  BY OpeningAssumption, NoRowAssumption, BoundAssumption
  DEF Init, TypeOK, RequestOK, ServesRequest, ServesRequest, LocksReleased, Steps, Resting, QuoteStatus, BalanceRow, NoWrites, SeedEntries, DepositEntry, LedgerEntry

\* Ending a transaction, whatever the reason, leaves its variables well typed.
LEMMA EndTransactionTyped ==
  ASSUME TypeOK, NEW w \in Workers, EndTransaction(w)
  PROVE  /\ began' \in [Workers -> Nat]
         /\ existing' \in [Workers -> BalanceRow]
         /\ newStatus' \in [Workers -> QuoteStatus \cup {NoRow}]
         /\ newBalances' \in [Workers -> [Accounts -> BalanceRow]]
         /\ newLedger' \in [Workers -> SUBSET LedgerEntry]
         /\ newTrades' \in [Workers -> SUBSET Trade]
         /\ locked' \in [Workers -> SUBSET Locks]
BY DEF TypeOK, EndTransaction, NoWrites, BalanceRow

LEMMA TypeStep == TypeOK /\ RequestOK /\ [Next]_vars => TypeOK'
<1> USE DEF tables, request, answer, writes, environment
<1> SUFFICES ASSUME TypeOK, RequestOK, [Next]_vars PROVE TypeOK'
  OBVIOUS
<1>1. CASE Tick
  BY <1>1, BoundAssumption DEF Tick, TypeOK
<1>2. ASSUME NEW q \in QuoteIds, CreateQuote(q) PROVE TypeOK'
  BY <1>2, BoundAssumption, LifetimesAssumption DEF CreateQuote, TypeOK, QuoteStatus
<1>3. ASSUME NEW w \in Workers, NEW r \in Requests, Receive(w, r) PROVE TypeOK'
  BY <1>3, BoundAssumption DEF Receive, FirstStep, TypeOK, Steps, Resting
<1>4. ASSUME NEW w \in Workers, PreCheck(w) PROVE TypeOK'
  BY <1>4 DEF PreCheck, Replay, Answer, AnswerTrade, FindByIdempotencyKey, TypeOK, Steps, Resting, Trade, Errors
<1>5. ASSUME NEW w \in Workers, Begin(w) PROVE TypeOK'
  BY <1>5, BoundAssumption DEF Begin, TypeOK, Steps, InTransaction
<1>6. ASSUME NEW w \in Workers, LockQuote(w) PROVE TypeOK'
  <2>1. locked' \in [Workers -> SUBSET Locks]
    BY <1>6, WantsType DEF LockQuote, TakeLock, TypeOK
  <2>2. newStatus' \in [Workers -> QuoteStatus \cup {NoRow}]
    BY <1>6 DEF LockQuote, TypeOK, QuoteStatus
  <2>3. pc' = [pc EXCEPT ![w] = "rollback"] \/ pc' = [pc EXCEPT ![w] = "lockPay"]
    BY <1>6 DEF LockQuote, Throw
  <2>4. code' \in [Workers -> {"NONE", "OK"} \cup Errors \cup Violations]
    <3>1. \/ UNCHANGED code
          \/ \E c \in {"NOT_FOUND", "QUOTE_ALREADY_EXECUTED", "QUOTE_EXPIRED"} :
                code' = [code EXCEPT ![w] = c]
      BY <1>6 DEF LockQuote, Throw
    <3> QED BY <3>1 DEF TypeOK, Errors
  <2>5. pc' \in [Workers -> Steps]
    BY <2>3 DEF TypeOK, Steps, InTransaction
  <2>51. ASSUME NEW v \in Workers, pc'[v] = "done" PROVE v # w /\ pc[v] = "done"
    <3>1. pc \in [Workers -> Steps]
      BY DEF TypeOK
    <3> QED BY <2>3, <2>51, <3>1
  <2>6. \A v \in Workers \ {w} : code'[v] = code[v]
    BY <1>6 DEF LockQuote, Throw, TypeOK
  <2> QED
    BY <1>6, <2>1, <2>2, <2>4, <2>5, <2>51, <2>6 DEF LockQuote, TypeOK
<1>7. ASSUME NEW w \in Workers, LockPay(w) PROVE TypeOK'
  BY <1>7, WantsType, AccountType DEF LockPay, FindForUpdate, TakeLock, Throw, TypeOK, Steps, InTransaction, Errors
<1>8. ASSUME NEW w \in Workers, InsertTrade(w) PROVE TypeOK'
  BY <1>8, WantsType, KindOfRequest, LegsOfQuote DEF InsertTrade, TakeLock, TypeOK, RequestOK, ServesRequest, Steps, InTransaction, Trade, TradeEntries, LedgerEntry
<1>9. ASSUME NEW w \in Workers, InsertTradeFails(w) PROVE TypeOK'
  BY <1>9, EndTransactionTyped DEF InsertTradeFails, Abort, Throw, TypeOK, Steps, InTransaction, Violations
<1>10. ASSUME NEW w \in Workers, Debit(w) PROVE TypeOK'
  BY <1>10, WantsType, AccountType, NoRowAssumption DEF Debit, ApplyDelta, TakeLock, TypeOK, Steps, InTransaction, BalanceRow, Available
<1>11. ASSUME NEW w \in Workers, LockReceive(w) PROVE TypeOK'
  BY <1>11, WantsType, AccountType DEF LockReceive, FindForUpdate, TakeLock, TypeOK, Steps, InTransaction
<1>12. ASSUME NEW w \in Workers, Credit(w) PROVE TypeOK'
  BY <1>12, WantsType, AccountType, NoRowAssumption DEF Credit, ApplyDelta, TakeLock, TypeOK, Steps, InTransaction, BalanceRow, Available, QuoteStatus
<1>13. ASSUME NEW w \in Workers, ApplyDeltaFails(w) PROVE TypeOK'
  BY <1>13, EndTransactionTyped DEF ApplyDeltaFails, Abort, Throw, TypeOK, Steps, InTransaction, Violations, Errors
<1>14. ASSUME NEW w \in Workers, Commit(w) PROVE TypeOK'
  <2>1. quoteStatus' \in [QuoteIds -> QuoteStatus]
    <3>1. newStatus[w] \in QuoteStatus \cup {NoRow}
      BY DEF TypeOK
    <3> QED BY <1>14, <3>1 DEF Commit, TypeOK
  <2>2. balances' \in [Accounts -> BalanceRow]
    BY <1>14 DEF Commit, TypeOK
  <2>3. ledger' \subseteq LedgerEntry /\ trades' \subseteq Trade
    BY <1>14 DEF Commit, TypeOK
  <2>4. pc' = [pc EXCEPT ![w] = "done"] /\ pc' \in [Workers -> Steps]
    BY <1>14 DEF Commit, Answer, AnswerTrade, TypeOK, Steps, Resting
  <2>5. code' = [code EXCEPT ![w] = "OK"] \/ code' = [code EXCEPT ![w] = "INTERNAL_SERVER_ERROR"]
    BY <1>14 DEF Commit, Answer, AnswerTrade
  <2>6. /\ code' \in [Workers -> {"NONE", "OK"} \cup Errors \cup Violations]
        /\ \A v \in Workers : pc'[v] = "done" => code'[v] \in {"OK"} \cup Errors
    BY <2>4, <2>5 DEF TypeOK, Errors
  <2>7. returned' \in [Workers -> Nat]
    BY <1>14 DEF Commit, AnswerTrade, TypeOK
  <2>71. faults' \in 0..MaxFaults
    BY <1>14, BoundAssumption DEF Commit, TypeOK
  <2>8. UNCHANGED <<expiresAt, request, now, received>>
    BY <1>14 DEF Commit
  <2>9. EndTransaction(w)
    BY <1>14 DEF Commit
  <2> QED
    BY <2>1, <2>2, <2>3, <2>4, <2>6, <2>7, <2>71, <2>8, <2>9, EndTransactionTyped DEF TypeOK
<1>15. ASSUME NEW w \in Workers, Rollback(w) PROVE TypeOK'
  BY <1>15, EndTransactionTyped DEF Rollback, Answer, TypeOK, RequestOK, ServesRequest, Steps, Resting, Errors
<1>16. ASSUME NEW w \in Workers, Recheck(w) PROVE TypeOK'
  BY <1>16 DEF Recheck, Replay, Answer, AnswerTrade, FindByIdempotencyKey, TypeOK, Steps, Resting, Trade, Errors
<1>17. ASSUME NEW w \in Workers, ReadQuote(w) PROVE TypeOK'
  BY <1>17 DEF ReadQuote, Answer, TypeOK, Steps, Resting, Errors
<1>18. ASSUME NEW w \in Workers, CheckExpiry(w) PROVE TypeOK'
  BY <1>18 DEF CheckExpiry, Answer, TypeOK, Steps, Resting
<1>19. ASSUME NEW w \in Workers, ExpireQuote(w) PROVE TypeOK'
  BY <1>19 DEF ExpireQuote, Answer, TypeOK, Steps, Resting, QuoteStatus
<1>20. ASSUME NEW w \in Workers, LockDeposit(w) PROVE TypeOK'
  BY <1>20, WantsType, AccountType DEF LockDeposit, FindForUpdate, TakeLock, TypeOK, Steps, InTransaction, DepositEntry, LedgerEntry
<1>21. ASSUME NEW w \in Workers, DeadlockVictim(w) PROVE TypeOK'
  BY <1>21, EndTransactionTyped DEF DeadlockVictim, Abort, Throw, TypeOK, Steps, InTransaction, Errors
<1>22. ASSUME NEW w \in Workers, ConnectionLost(w) PROVE TypeOK'
  BY <1>22, EndTransactionTyped, BoundAssumption DEF ConnectionLost, Answer, TypeOK, Steps, Resting, Errors
<1>23. CASE Crash
  BY <1>23, BoundAssumption DEF Crash, TypeOK, Steps, Resting, NoWrites, BalanceRow
<1>24. CASE UNCHANGED vars
  BY <1>24 DEF vars, TypeOK
<1> QED
  BY <1>1, <1>2, <1>3, <1>4, <1>5, <1>6, <1>7, <1>8, <1>9, <1>10, <1>11, <1>12, <1>13, <1>14, <1>15,
     <1>16, <1>17, <1>18, <1>19, <1>20, <1>21, <1>22, <1>23, <1>24
  DEF Next, Step, Finished

\* A step of one worker.
WorkerStep(w) == Step(w) \/ ConnectionLost(w) \/ \E r \in Requests : Receive(w, r)

\* A transaction that Postgres aborts to break a cycle of waits holds a lock.
LEMMA VictimInTransaction ==
  ASSUME RequestOK, NEW w \in Workers, OnWaitCycle(w)
  PROVE  pc[w] \in InTransaction
<1>1. PICK v \in Workers : w \in WaitsFor(v)
  BY DEF OnWaitCycle
<1> QED BY <1>1 DEF WaitsFor, RequestOK, LocksReleased

\* The step of one worker touches no other worker's request or transaction.
Untouched(v) ==
  /\ pc'[v] = pc[v] /\ req'[v] = req[v] /\ reqId'[v] = reqId[v] /\ code'[v] = code[v]
  /\ began'[v] = began[v] /\ existing'[v] = existing[v] /\ newStatus'[v] = newStatus[v]
  /\ newBalances'[v] = newBalances[v] /\ newLedger'[v] = newLedger[v]
  /\ newTrades'[v] = newTrades[v] /\ locked'[v] = locked[v]

LEMMA Frame ==
  ASSUME TypeOK, NEW w \in Workers, NEW v \in Workers, v # w, WorkerStep(w)
  PROVE  Untouched(v)
<1> USE DEF tables, request, answer, writes, environment, TypeOK, Untouched
<1>1. ASSUME EndTransaction(w)
      PROVE  /\ began'[v] = began[v] /\ existing'[v] = existing[v] /\ newStatus'[v] = newStatus[v]
             /\ newBalances'[v] = newBalances[v] /\ newLedger'[v] = newLedger[v]
             /\ newTrades'[v] = newTrades[v] /\ locked'[v] = locked[v]
  BY <1>1 DEF EndTransaction
<1>2. CASE PreCheck(w)
  BY <1>2 DEF PreCheck, Replay, Answer, AnswerTrade
<1>3. CASE Begin(w)
  BY <1>3 DEF Begin
<1>4. CASE LockQuote(w)
  BY <1>4 DEF LockQuote, TakeLock, Throw
<1>5. CASE LockPay(w)
  BY <1>5 DEF LockPay, FindForUpdate, TakeLock, Throw
<1>6. CASE InsertTrade(w)
  BY <1>6 DEF InsertTrade, TakeLock
<1>7. CASE InsertTradeFails(w)
  BY <1>7, <1>1 DEF InsertTradeFails, Abort, Throw
<1>8. CASE Debit(w)
  BY <1>8 DEF Debit, ApplyDelta, TakeLock
<1>9. CASE LockReceive(w)
  BY <1>9 DEF LockReceive, FindForUpdate, TakeLock
<1>10. CASE Credit(w)
  BY <1>10 DEF Credit, ApplyDelta, TakeLock
<1>11. CASE ApplyDeltaFails(w)
  BY <1>11, <1>1 DEF ApplyDeltaFails, Abort, Throw
<1>12. CASE Commit(w)
  BY <1>12, <1>1 DEF Commit, Answer, AnswerTrade
<1>13. CASE Rollback(w)
  BY <1>13, <1>1 DEF Rollback, Answer
<1>14. CASE Recheck(w)
  BY <1>14 DEF Recheck, Replay, Answer, AnswerTrade
<1>15. CASE ReadQuote(w)
  BY <1>15 DEF ReadQuote, Answer
<1>16. CASE CheckExpiry(w)
  BY <1>16 DEF CheckExpiry, Answer
<1>17. CASE ExpireQuote(w)
  BY <1>17 DEF ExpireQuote, Answer
<1>18. CASE LockDeposit(w)
  BY <1>18 DEF LockDeposit, FindForUpdate, TakeLock
<1>19. CASE DeadlockVictim(w)
  BY <1>19, <1>1 DEF DeadlockVictim, Abort, Throw
<1>20. CASE ConnectionLost(w)
  BY <1>20, <1>1 DEF ConnectionLost, Answer
<1>21. ASSUME NEW r \in Requests, Receive(w, r) PROVE Untouched(v)
  BY <1>21 DEF Receive
<1> QED
  BY <1>2, <1>3, <1>4, <1>5, <1>6, <1>7, <1>8, <1>9, <1>10, <1>11, <1>12, <1>13, <1>14, <1>15,
     <1>16, <1>17, <1>18, <1>19, <1>20, <1>21
  DEF WorkerStep, Step

\* The step of a worker leaves it with a request its next statement belongs to.
LEMMA ServesStep ==
  ASSUME TypeOK, RequestOK, NEW w \in Workers, WorkerStep(w)
  PROVE  ServesRequest(w)'
<1> USE DEF tables, request, answer, writes, environment, TypeOK, ServesRequest
<1> ServesRequest(w)
  BY DEF RequestOK
<1>2. CASE PreCheck(w)
  BY <1>2 DEF PreCheck, Replay, Answer, AnswerTrade
<1>3. CASE Begin(w)
  BY <1>3, KindOfRequest DEF Begin
<1>4. CASE LockQuote(w)
  BY <1>4 DEF LockQuote, Throw, Errors, KeyUnique, QuoteUnique
<1>5. CASE LockPay(w)
  BY <1>5 DEF LockPay, FindForUpdate, TakeLock, Throw, Errors, KeyUnique, QuoteUnique
<1>6. CASE InsertTrade(w)
  BY <1>6 DEF InsertTrade
<1>7. CASE InsertTradeFails(w)
  BY <1>7 DEF InsertTradeFails, Abort, Throw, Violations
<1>8. CASE Debit(w)
  BY <1>8 DEF Debit, ApplyDelta
<1>9. CASE LockReceive(w)
  BY <1>9 DEF LockReceive
<1>10. CASE Credit(w)
  BY <1>10 DEF Credit, ApplyDelta
<1>11. CASE ApplyDeltaFails(w)
  <2>1. pc[w] \in InTransaction /\ req' = req /\ pc' = [pc EXCEPT ![w] = "rollback"]
    BY <1>11 DEF ApplyDeltaFails, Abort, Throw, InTransaction
  <2>2. \/ code' = [code EXCEPT ![w] = "INTERNAL_SERVER_ERROR"]
        \/ code' = [code EXCEPT ![w] = BalanceUnique]
    BY <1>11 DEF ApplyDeltaFails, Abort, Throw
  <2>3. req[w] \in TradeRequest \cup DepositRequest
    BY <2>1 DEF InTransaction
  <2> QED BY <2>1, <2>2, <2>3 DEF Errors, Violations, KeyUnique, QuoteUnique, BalanceUnique
<1>12. CASE Commit(w)
  BY <1>12 DEF Commit, Answer, AnswerTrade
<1>13. CASE Rollback(w)
  BY <1>13 DEF Rollback, Answer, IsUniqueViolation
<1>14. CASE Recheck(w)
  BY <1>14 DEF Recheck, Replay, Answer, AnswerTrade
<1>15. CASE ReadQuote(w)
  BY <1>15 DEF ReadQuote, Answer
<1>16. CASE CheckExpiry(w)
  BY <1>16 DEF CheckExpiry, Answer
<1>17. CASE ExpireQuote(w)
  BY <1>17 DEF ExpireQuote, Answer
<1>18. CASE LockDeposit(w)
  BY <1>18 DEF LockDeposit
<1>19. CASE DeadlockVictim(w)
  <2>1. pc[w] \in InTransaction
    BY <1>19, VictimInTransaction DEF DeadlockVictim
  <2>2. pc' = [pc EXCEPT ![w] = "rollback"] /\ req' = req
        /\ code' = [code EXCEPT ![w] = "INTERNAL_SERVER_ERROR"]
    BY <1>19 DEF DeadlockVictim, Abort, Throw
  <2>3. req[w] \in TradeRequest \cup DepositRequest
    BY <2>1 DEF InTransaction
  <2> QED BY <2>2, <2>3 DEF Errors, KeyUnique, QuoteUnique
<1>20. CASE ConnectionLost(w)
  BY <1>20 DEF ConnectionLost, Answer
<1>21. ASSUME NEW r \in Requests, Receive(w, r) PROVE ServesRequest(w)'
  <2>1. r \in TradeRequest \cup QuoteRequest \cup DepositRequest
    BY RequestsAssumption
  <2> QED BY <1>21, <2>1, KindOfRequest DEF Receive, FirstStep
<1> QED
  BY <1>2, <1>3, <1>4, <1>5, <1>6, <1>7, <1>8, <1>9, <1>10, <1>11, <1>12, <1>13, <1>14, <1>15,
     <1>16, <1>17, <1>18, <1>19, <1>20, <1>21
  DEF WorkerStep, Step

\* The step of a worker outside a transaction leaves it with no lock.
LEMMA ReleasedStep ==
  ASSUME TypeOK, RequestOK, NEW w \in Workers, WorkerStep(w)
  PROVE  LocksReleased(w)'
<1> USE DEF tables, request, answer, writes, environment, TypeOK, LocksReleased
<1> LocksReleased(w)
  BY DEF RequestOK
<1>1. CASE EndTransaction(w)
  BY <1>1 DEF EndTransaction
<1>2. CASE \/ PreCheck(w) \/ Recheck(w) \/ Begin(w) \/ ReadQuote(w) \/ CheckExpiry(w) \/ ExpireQuote(w)
           \/ \E r \in Requests : Receive(w, r)
  <2>1. pc[w] \notin InTransaction /\ UNCHANGED locked
    BY <1>2 DEF PreCheck, Recheck, Begin, ReadQuote, CheckExpiry, ExpireQuote, Receive, Resting, InTransaction
  <2> QED BY <2>1
<1>3. CASE LockQuote(w) \/ LockPay(w) \/ InsertTrade(w) \/ Debit(w) \/ LockReceive(w) \/ Credit(w) \/ LockDeposit(w)
  <2>1. pc'[w] \in InTransaction
    BY <1>3 DEF LockQuote, LockPay, InsertTrade, Debit, LockReceive, Credit, LockDeposit, ApplyDelta, Throw, InTransaction
  <2> QED BY <2>1
<1> QED
  BY <1>1, <1>2, <1>3
  DEF WorkerStep, Step, InsertTradeFails, ApplyDeltaFails, Commit, Rollback, DeadlockVictim, ConnectionLost, Abort

LEMMA RequestStep == TypeOK /\ RequestOK /\ [Next]_vars => RequestOK'
<1> SUFFICES ASSUME TypeOK, RequestOK, [Next]_vars, NEW v \in Workers
             PROVE  ServesRequest(v)' /\ LocksReleased(v)'
  BY DEF RequestOK
<1> USE DEF ServesRequest, LocksReleased, TypeOK
<1> ServesRequest(v) /\ LocksReleased(v)
  BY DEF RequestOK
<1>1. ASSUME NEW w \in Workers, WorkerStep(w) PROVE ServesRequest(v)' /\ LocksReleased(v)'
  <2>1. CASE v = w
    BY <1>1, <2>1, ServesStep, ReleasedStep
  <2>2. CASE v # w
    BY <1>1, <2>2, Frame DEF Untouched
  <2> QED BY <2>1, <2>2
<1>2. CASE UNCHANGED <<pc, req, code, locked>>
  BY <1>2
<1>3. CASE Crash
  BY <1>3 DEF Crash, request
<1> QED
  BY <1>1, <1>2, <1>3
  DEF Next, WorkerStep, Tick, CreateQuote, Finished, vars, tables, request, answer, writes, environment

\* Every variable keeps its type in every behaviour, and no answer carries the
\* name of a database constraint.
THEOREM TypeCorrect == Spec => []TypeOK
<1>1. TypeOK /\ RequestOK /\ [Next]_vars => (TypeOK /\ RequestOK)'
  BY TypeStep, RequestStep
<1> QED
  BY InitTyped, <1>1, PTL DEF Spec

-----------------------------------------------------------------------------
(* Safety *)

\* A request holds only the locks that nobody else holds.
LEMMA TakeLockDisjoint ==
  ASSUME TypeOK, LocksDisjoint, NEW w \in Workers, ~Blocked(w),
         locked' = locked \/ TakeLock(w)
  PROVE  LocksDisjoint'
BY DEF TypeOK, LocksDisjoint, Blocked, WaitsFor, TakeLock

\* The tables change only under the locks of the worker that changes them.
TablesMove(w) ==
  /\ \A q \in QuoteIds : quoteStatus'[q] # quoteStatus[q] =>
        /\ quoteStatus[q] # "NONE" /\ quoteStatus'[q] # "NONE"
        /\ \A v \in Workers : v # w => QuoteLock(q) \notin locked[v]
  /\ expiresAt' = expiresAt
  /\ trades \subseteq trades' /\ ledger \subseteq ledger'
  /\ \A t \in trades' \ trades : /\ QuoteLock(t.quoteId) \in locked[w]
                                 /\ KeyLock(t.clientId, t.idempotencyKey) \in locked[w]
  /\ \A a \in Accounts : balances'[a] # balances[a] => BalanceLock(a) \in locked[w]
  /\ \A e \in ledger' \ ledger : e.refId = reqId[w] /\ pc[w] \notin Resting
  /\ received' \in {received, received + 1}

\* What is known of a request when it commits.
LEMMA CommitFacts ==
  ASSUME IInv, NEW w \in Workers, Commit(w)
  PROVE  /\ pc[w] = "commit" /\ req[w] \in TradeRequest \cup DepositRequest
         /\ req[w].kind = "trade" => /\ HasQuote(w) /\ Inserted(w) /\ Debited(w)
                                     /\ req[w] \in TradeRequest
                                     /\ newStatus[w] = "EXECUTED"
         /\ req[w].kind # "trade" => /\ ~HasQuote(w) /\ ~Inserted(w) /\ ~Debited(w)
                                     /\ req[w] \in DepositRequest
                                     /\ newStatus[w] = NoRow
<1>1. pc[w] = "commit"
  BY DEF Commit
<1>2. ServesRequest(w) /\ RowsWritten(w)
  BY DEF IInv, LocalInv
<1>3. req[w] \in TradeRequest \cup DepositRequest
  BY <1>1, <1>2 DEF ServesRequest
<1>4. newStatus[w] = IF HasQuote(w) THEN "EXECUTED" ELSE NoRow
  BY <1>1, <1>2 DEF RowsWritten
<1>5. HasQuote(w) <=> req[w].kind = "trade"
  BY <1>1 DEF HasQuote, Crediting
<1>6. Inserted(w) = HasQuote(w) /\ Debited(w) = HasQuote(w)
  BY <1>1 DEF Inserted, Debited, HasQuote, Crediting
<1> QED
  BY <1>1, <1>3, <1>4, <1>5, <1>6, KindOfRequest

LEMMA TablesStep ==
  ASSUME IInv, NEW w \in Workers, WorkerStep(w)
  PROVE  TablesMove(w)
<1> USE DEF tables, request, answer, writes, environment
<1>0. TypeOK /\ LocalInv(w) /\ LocksDisjoint
  BY DEF IInv
<1>1. CASE Commit(w)
  <2>0. /\ pc[w] = "commit"
        /\ QuoteHeld(w) /\ KeyHeld(w) /\ RowsWritten(w) /\ BalancesWritten(w)
    BY <1>0, <1>1 DEF LocalInv, Commit
  <2>1. ASSUME NEW q \in QuoteIds, quoteStatus'[q] # quoteStatus[q]
        PROVE  /\ quoteStatus[q] # "NONE" /\ quoteStatus'[q] # "NONE"
               /\ \A v \in Workers : v # w => QuoteLock(q) \notin locked[v]
    <3>1. newStatus[w] # NoRow
      BY <1>1, <2>1 DEF Commit
    <3>2. req[w].kind = "trade" /\ HasQuote(w) /\ newStatus[w] = "EXECUTED"
      BY <3>1, <1>1, CommitFacts
    <3>3. quoteStatus' = [quoteStatus EXCEPT ![req[w].quote] = "EXECUTED"]
      BY <1>1, <3>1, <3>2 DEF Commit
    <3>4. quoteStatus \in [QuoteIds -> QuoteStatus]
      BY <1>0 DEF TypeOK
    <3>5. q = req[w].quote /\ quoteStatus'[q] = "EXECUTED"
      BY <2>1, <3>3, <3>4
    <3> QED BY <1>0, <2>0, <3>2, <3>5 DEF QuoteHeld, LocksDisjoint
  <2>2. ASSUME NEW t \in trades' \ trades
        PROVE  QuoteLock(t.quoteId) \in locked[w] /\ KeyLock(t.clientId, t.idempotencyKey) \in locked[w]
    <3>1. t \in newTrades[w]
      BY <1>1, <2>2 DEF Commit
    <3>2. Inserted(w) /\ t = NewTrade(w)
      BY <2>0, <3>1 DEF RowsWritten
    <3> QED BY <2>0, <3>2 DEF QuoteHeld, KeyHeld, Inserted, NewTrade
  <2>3. ASSUME NEW a \in Accounts, balances'[a] # balances[a]
        PROVE  BalanceLock(a) \in locked[w]
    <3>1. newBalances[w][a] # NoRow
      BY <1>1, <2>3 DEF Commit
    <3> QED BY <2>0, <3>1 DEF BalancesWritten, Wrote
  <2>4. ASSUME NEW e \in ledger' \ ledger
        PROVE  e.refId = reqId[w]
    <3>1. e \in newLedger[w]
      BY <1>1, <2>4 DEF Commit
    <3>2. CASE Inserted(w)
      BY <2>0, <3>1, <3>2 DEF RowsWritten, TradeEntries
    <3>3. CASE ~Inserted(w)
      <4>1. ~HasQuote(w) /\ Crediting(w)
        BY <2>0, <3>3 DEF Inserted, Crediting
      <4> QED BY <2>0, <3>1, <4>1 DEF RowsWritten, DepositEntry
    <3> QED BY <3>2, <3>3
  <2>5. expiresAt' = expiresAt /\ received' = received /\ trades \subseteq trades' /\ ledger \subseteq ledger'
    BY <1>1 DEF Commit
  <2> QED BY <2>0, <2>1, <2>2, <2>3, <2>4, <2>5 DEF TablesMove, Resting
<1>2. CASE ExpireQuote(w)
  <2>1. QuoteVisible(w) /\ req[w] \in QuoteRequest
    BY <1>0, <1>2 DEF LocalInv, QuoteSeen, ServesRequest, ExpireQuote
  <2>2. \A v \in Workers : v # w => QuoteLock(req[w].quote) \notin locked[v]
    BY <1>2, <2>1 DEF ExpireQuote, Blocked, WaitsFor, Wants, LocksQuote
  <2>3. \A q \in QuoteIds : quoteStatus'[q] # quoteStatus[q] => q = req[w].quote /\ quoteStatus'[q] = "EXPIRED"
    <3>1. quoteStatus \in [QuoteIds -> QuoteStatus]
      BY <1>0 DEF TypeOK
    <3> QED BY <1>2, <3>1 DEF ExpireQuote
  <2>4. /\ expiresAt' = expiresAt /\ trades' = trades /\ ledger' = ledger
        /\ balances' = balances /\ received' = received
    BY <1>2 DEF ExpireQuote
  <2> QED BY <2>1, <2>2, <2>3, <2>4 DEF TablesMove, QuoteVisible
<1>3. CASE UNCHANGED tables /\ received' \in {received, received + 1}
  BY <1>3 DEF TablesMove
<1> QED
  <2>1. Commit(w) \/ ExpireQuote(w) \/ (UNCHANGED tables /\ received' \in {received, received + 1})
    BY DEF WorkerStep, Step, PreCheck, Begin, LockQuote, LockPay, InsertTrade, InsertTradeFails,
           Debit, LockReceive, Credit, ApplyDelta, ApplyDeltaFails, Rollback, Recheck, ReadQuote,
           CheckExpiry, LockDeposit, DeadlockVictim, ConnectionLost, Receive
  <2> QED BY <1>1, <1>2, <1>3, <2>1

\* The accounts a worker's statement is about are accounts.
LEMMA AccountsOfWorker ==
  ASSUME IInv, NEW w \in Workers
  PROVE  /\ HasQuote(w) => /\ req[w] \in TradeRequest /\ req[w].kind = "trade"
                          /\ req[w].quote \in QuoteIds
         /\ pc[w] \in {"lockQuote", "insertTrade", "debit"} => req[w].quote \in QuoteIds
         /\ Crediting(w) => Account(w) \in Accounts /\ Delta(w) \in Int /\ Delta(w) >= 0
         /\ HasQuote(w) => /\ PayAccount(req[w].quote) \in Accounts
                          /\ PayAmount(req[w].quote) \in Nat
<1>1. ServesRequest(w)
  BY DEF IInv, LocalInv
<1>2. HasQuote(w) => req[w] \in TradeRequest
  BY <1>1, KindOfRequest DEF ServesRequest, HasQuote, Crediting
<1>3. pc[w] \in {"lockQuote", "insertTrade", "debit"} => req[w] \in TradeRequest
  BY <1>1 DEF ServesRequest
<1>4. ASSUME Crediting(w) PROVE Account(w) \in Accounts /\ Delta(w) \in Int /\ Delta(w) >= 0
  <2>1. req[w] \in TradeRequest \cup DepositRequest /\ pc[w] \in {"credit", "commit"}
    BY <1>1, <1>4 DEF ServesRequest, Crediting
  <2>2. CASE req[w] \in DepositRequest
    BY <2>2, KindOfRequest DEF Account, Delta, Accounts
  <2>3. CASE req[w] \in TradeRequest
    <3>1. req[w].kind = "trade" /\ req[w].quote \in QuoteIds
      BY <2>3, KindOfRequest
    <3>2. Account(w) = ReceiveAccount(req[w].quote) /\ Delta(w) = ReceiveAmount(req[w].quote)
      BY <2>1, <3>1 DEF Account, Delta
    <3> QED BY <3>1, <3>2, LegsOfQuote
  <2> QED BY <2>1, <2>2, <2>3
<1> QED BY <1>2, <1>3, <1>4, KindOfRequest, LegsOfQuote

\* What one worker has locked, and therefore relies on, no other worker changes.
LEMMA LocalFrame ==
  ASSUME IInv, NEW w \in Workers, NEW v \in Workers, v # w, WorkerStep(w)
  PROVE  LocalInv(v)'
<1>1. TypeOK /\ LocalInv(v) /\ LocksDisjoint /\ IdsDistinct
  BY DEF IInv
<1>2. Untouched(v) /\ TablesMove(w)
  BY <1>1, Frame, TablesStep
<1>3. \A l \in locked[v] : l \notin locked[w]
  BY <1>1 DEF LocksDisjoint
<1>4. HasQuote(v)' = HasQuote(v) /\ Crediting(v)' = Crediting(v)
  BY <1>2 DEF Untouched, HasQuote, Crediting
<1>5. Inserted(v)' = Inserted(v) /\ Debited(v)' = Debited(v)
  BY <1>2, <1>4 DEF Untouched, Inserted, Debited
<1>6. Account(v)' = Account(v) /\ Delta(v)' = Delta(v)
  BY <1>2 DEF Untouched, Account, Delta
<1>7. NewTrade(v)' = NewTrade(v)
  BY <1>2 DEF Untouched, NewTrade
<1>8. ServesRequest(v)' /\ LocksReleased(v)'
  BY <1>1, <1>2 DEF LocalInv, Untouched, ServesRequest, LocksReleased
<1>9. QuoteSeen(v)'
  <2> SUFFICES ASSUME pc[v] \in {"checkExpiry", "expireQuote"} PROVE QuoteVisible(v)'
    BY <1>2 DEF QuoteSeen, Untouched
  <2>1. req[v].quote \in QuoteIds /\ QuoteVisible(v)
    BY <1>1, KindOfRequest DEF LocalInv, ServesRequest, QuoteSeen
  <2> QED BY <1>2, <2>1 DEF QuoteVisible, Untouched, TablesMove
<1>10. BeganInPast(v)'
  <2>1. now' = now
    BY DEF WorkerStep, Step, PreCheck, Begin, LockQuote, LockPay, InsertTrade, InsertTradeFails,
           Debit, LockReceive, Credit, ApplyDelta, ApplyDeltaFails, Commit, Rollback, Recheck,
           ReadQuote, CheckExpiry, ExpireQuote, LockDeposit, DeadlockVictim, ConnectionLost,
           Receive, environment
  <2> QED BY <1>1, <1>2, <2>1 DEF LocalInv, BeganInPast, Untouched
<1>11. QuoteHeld(v)'
  <2> SUFFICES ASSUME HasQuote(v) PROVE QuoteHeld(v)'
    BY <1>4 DEF QuoteHeld
  <2>1. req[v].quote \in QuoteIds
    BY AccountsOfWorker
  <2>2. QuoteHeld(v)
    BY <1>1 DEF LocalInv
  <2>3. quoteStatus'[req[v].quote] = quoteStatus[req[v].quote]
    BY <1>2, <2>1, <2>2 DEF TablesMove, QuoteHeld
  <2>4. \A t \in trades' : t.quoteId # req[v].quote
    BY <1>2, <1>3, <2>2 DEF TablesMove, QuoteHeld
  <2> QED BY <1>2, <2>2, <2>3, <2>4 DEF QuoteHeld, Untouched, TablesMove
<1>12. KeyHeld(v)'
  <2> SUFFICES ASSUME Inserted(v) PROVE KeyHeld(v)'
    BY <1>5 DEF KeyHeld
  <2>1. KeyLock(req[v].client, req[v].key) \in locked[v] /\ FindByIdempotencyKey(v) = {}
    BY <1>1 DEF LocalInv, KeyHeld
  <2>2. FindByIdempotencyKey(v)' = {}
    BY <1>2, <1>3, <2>1 DEF FindByIdempotencyKey, Untouched, TablesMove
  <2> QED BY <1>2, <2>1, <2>2 DEF KeyHeld, Untouched
<1>13. RowsWritten(v)'
  BY <1>1, <1>2, <1>4, <1>5, <1>6, <1>7 DEF LocalInv, RowsWritten, Untouched
<1>14. BalanceRead(v)'
  <2>1. ASSUME NEW a \in Accounts, RowRead(v, a) PROVE RowRead(v, a)'
    BY <1>2, <1>3, <2>1 DEF RowRead, Untouched, TablesMove
  <2>2. BalanceRead(v)
    BY <1>1 DEF LocalInv
  <2>3. CASE pc[v] \in {"insertTrade", "debit"}
    <3>1. PayAccount(req[v].quote) \in Accounts
      BY <2>3, AccountsOfWorker, LegsOfQuote
    <3>2. RowRead(v, PayAccount(req[v].quote))'
      BY <2>1, <2>2, <2>3, <3>1, <1>2 DEF BalanceRead, Untouched
    <3> QED BY <1>2, <2>2, <2>3, <3>2 DEF BalanceRead, Untouched
  <2>4. CASE pc[v] = "credit"
    <3>1. Account(v) \in Accounts
      BY <2>4, AccountsOfWorker DEF Crediting
    <3>2. RowRead(v, Account(v))
      BY <2>2, <2>4 DEF BalanceRead
    <3>3. RowRead(v, Account(v))'
      BY <1>2, <1>3, <1>6, <3>1, <3>2 DEF RowRead, Untouched, TablesMove
    <3> QED BY <1>2, <2>4, <3>3 DEF BalanceRead, Untouched
  <2> QED BY <1>2, <2>3, <2>4 DEF BalanceRead, Untouched
<1>15. BalancesWritten(v)'
  <2>1. BalancesWritten(v)
    BY <1>1 DEF LocalInv
  <2>2. Debited(v) => Wrote(v, PayAccount(req[v].quote), -PayAmount(req[v].quote))'
    <3> SUFFICES ASSUME Debited(v)
                 PROVE  Wrote(v, PayAccount(req[v].quote), -PayAmount(req[v].quote))'
      OBVIOUS
    <3>1. PayAccount(req[v].quote) \in Accounts
      BY AccountsOfWorker DEF Debited
    <3>2. Wrote(v, PayAccount(req[v].quote), -PayAmount(req[v].quote))
      BY <2>1 DEF BalancesWritten
    <3> QED BY <1>2, <1>3, <3>1, <3>2 DEF Wrote, Untouched, TablesMove
  <2>3. pc[v] = "commit" => Wrote(v, Account(v), Delta(v))'
    <3> SUFFICES ASSUME pc[v] = "commit" PROVE Wrote(v, Account(v), Delta(v))'
      OBVIOUS
    <3>1. Account(v) \in Accounts
      BY AccountsOfWorker DEF Crediting
    <3>2. Wrote(v, Account(v), Delta(v))
      BY <2>1 DEF BalancesWritten
    <3> QED BY <1>2, <1>3, <1>6, <3>1, <3>2 DEF Wrote, Untouched, TablesMove
  <2>4. /\ req'[v] = req[v] /\ pc'[v] = pc[v] /\ newBalances'[v] = newBalances[v]
    BY <1>2 DEF Untouched
  <2> QED BY <1>5, <1>6, <2>1, <2>2, <2>3, <2>4 DEF BalancesWritten
<1>16. IdFresh(v)'
  BY <1>1, <1>2 DEF LocalInv, IdFresh, IdsDistinct, Untouched, TablesMove, TypeOK
<1> QED
  BY <1>8, <1>9, <1>10, <1>11, <1>12, <1>13, <1>14, <1>15, <1>16 DEF LocalInv

\* The parts of LocalInv that do not depend on the statement being executed.
LEMMA OwnCommon ==
  ASSUME IInv, NEW w \in Workers, WorkerStep(w)
  PROVE  ServesRequest(w)' /\ LocksReleased(w)'
BY ServesStep, ReleasedStep DEF IInv, LocalInv, RequestOK

\* A worker that has no transaction open and has written nothing.
Clean(w) ==
  /\ newStatus[w] = NoRow /\ newLedger[w] = {} /\ newTrades[w] = {}
  /\ \A a \in Accounts : newBalances[w][a] = NoRow

Unheld == {"preCheck", "begin", "recheck", "readQuote", "checkExpiry", "expireQuote",
           "idle", "done", "rollback", "lockQuote", "lockDeposit"}

\* Such a worker holds nothing, so most of LocalInv says nothing of it.
LEMMA CleanLocal ==
  ASSUME NEW w \in Workers, Clean(w)', pc'[w] \in Unheld
  PROVE  (QuoteHeld(w) /\ KeyHeld(w) /\ RowsWritten(w) /\ BalanceRead(w) /\ BalancesWritten(w))'
<1>1. (~HasQuote(w) /\ ~Inserted(w) /\ ~Debited(w) /\ ~Crediting(w))'
  BY DEF HasQuote, Inserted, Debited, Crediting, Unheld
<1>2. pc'[w] \notin {"insertTrade", "debit", "credit", "commit"}
  BY DEF Unheld
<1> QED
  BY <1>1, <1>2 DEF Clean, QuoteHeld, KeyHeld, RowsWritten, BalanceRead, BalancesWritten

\* The converse: before its first write a worker is clean.
LEMMA LocalClean ==
  ASSUME NEW w \in Workers, LocalInv(w), pc[w] \in Unheld \cup {"lockPay", "insertTrade"},
         pc[w] # "rollback"
  PROVE  Clean(w)
<1>1. ~Inserted(w) /\ ~Debited(w) /\ ~Crediting(w) /\ pc[w] # "commit"
  BY DEF HasQuote, Inserted, Debited, Crediting, Unheld
<1> QED
  BY <1>1 DEF Clean, LocalInv, RowsWritten, BalancesWritten

LEMMA EndedClean ==
  ASSUME TypeOK, NEW w \in Workers, EndTransaction(w)
  PROVE  Clean(w)' /\ began'[w] = 0
BY DEF TypeOK, EndTransaction, Clean, NoWrites

\* A statement that is not COMMIT inserts nothing in the ledger.
LEMMA IdFreshKept ==
  ASSUME NEW w \in Workers, IdFresh(w), pc[w] \notin Resting,
         UNCHANGED <<reqId, received, ledger>>
  PROVE  IdFresh(w)'
BY DEF IdFresh

\* Steps that end a transaction.
Ends(w) == \/ InsertTradeFails(w) \/ ApplyDeltaFails(w) \/ Commit(w) \/ Rollback(w)
           \/ DeadlockVictim(w) \/ ConnectionLost(w)

LEMMA OwnEnds ==
  ASSUME IInv, NEW w \in Workers, Ends(w)
  PROVE  LocalInv(w)'
<1> USE DEF tables, request, answer, environment
<1>0. TypeOK /\ RequestOK /\ LocalInv(w) /\ WorkerStep(w)
  BY DEF IInv, LocalInv, RequestOK, Ends, WorkerStep, Step
<1>1. EndTransaction(w)
  BY DEF Ends, InsertTradeFails, ApplyDeltaFails, Commit, Rollback, DeadlockVictim, ConnectionLost, Abort
<1>2. UNCHANGED <<reqId, received, now>>
  BY DEF Ends, InsertTradeFails, ApplyDeltaFails, Commit, Rollback, DeadlockVictim, ConnectionLost
<1>3. pc \in [Workers -> Steps]
  BY <1>0 DEF TypeOK
<1>4. /\ pc[w] \notin Resting
      /\ pc'[w] \in {"rollback", "done", "recheck"}
      /\ pc'[w] = "done" \/ ledger' = ledger
  <2>1. CASE DeadlockVictim(w)
    <3>1. pc[w] \in InTransaction
      BY <1>0, <2>1, VictimInTransaction DEF DeadlockVictim
    <3> QED BY <1>3, <2>1, <3>1 DEF DeadlockVictim, Abort, Throw, InTransaction, Resting
  <2>2. CASE Rollback(w)
    <3>1. pc[w] = "rollback" /\ ledger' = ledger
      BY <2>2 DEF Rollback
    <3>2. pc' = [pc EXCEPT ![w] = "recheck"] \/ pc' = [pc EXCEPT ![w] = "done"]
      BY <2>2 DEF Rollback, Answer
    <3> QED BY <1>3, <3>1, <3>2 DEF Resting
  <2>3. CASE Commit(w)
    BY <1>3, <2>3 DEF Commit, Answer, AnswerTrade, Resting
  <2>4. CASE ConnectionLost(w)
    BY <1>3, <2>4 DEF ConnectionLost, Answer, Resting
  <2>5. CASE InsertTradeFails(w) \/ ApplyDeltaFails(w)
    BY <1>3, <2>5 DEF InsertTradeFails, ApplyDeltaFails, Abort, Throw, Resting
  <2> QED BY <2>1, <2>2, <2>3, <2>4, <2>5 DEF Ends
<1>5. Clean(w)' /\ began'[w] = 0
  BY <1>0, <1>1, EndedClean
<1>6. (QuoteHeld(w) /\ KeyHeld(w) /\ RowsWritten(w) /\ BalanceRead(w) /\ BalancesWritten(w))'
  <2>1. pc'[w] \in Unheld
    BY <1>4 DEF Unheld
  <2> QED BY <1>5, <2>1, CleanLocal
<1>7. QuoteSeen(w)'
  BY <1>4 DEF QuoteSeen
<1>8. BeganInPast(w)'
  <2>1. now' \in Nat
    BY <1>0, <1>2, BoundAssumption DEF TypeOK
  <2> QED BY <1>5, <2>1 DEF BeganInPast
<1>9. IdFresh(w)'
  <2>1. CASE pc'[w] = "done"
    BY <2>1 DEF IdFresh, Resting
  <2>2. CASE ledger' = ledger
    BY <1>0, <1>2, <1>4, <2>2, IdFreshKept DEF LocalInv
  <2> QED BY <1>4, <2>1, <2>2
<1> QED BY <1>0, <1>6, <1>7, <1>8, <1>9, OwnCommon DEF LocalInv

\* Steps outside a transaction, and its BEGIN.
Outside(w) == \/ PreCheck(w) \/ Begin(w) \/ Recheck(w) \/ ReadQuote(w) \/ CheckExpiry(w)
              \/ ExpireQuote(w) \/ \E r \in Requests : Receive(w, r)

LEMMA OwnOutside ==
  ASSUME IInv, NEW w \in Workers, Outside(w)
  PROVE  LocalInv(w)'
<1> USE DEF tables, request, answer, environment, writes
<1>0. TypeOK /\ LocalInv(w) /\ WorkerStep(w)
  BY DEF IInv, Outside, WorkerStep, Step
<1>1. UNCHANGED <<writes, existing, locked, ledger, now>>
  BY DEF Outside, PreCheck, Begin, Recheck, ReadQuote, CheckExpiry, ExpireQuote, Receive
<1>2. pc \in [Workers -> Steps]
  BY <1>0 DEF TypeOK
<1>3. pc[w] \in Unheld \ {"rollback"}
  BY DEF Outside, PreCheck, Begin, Recheck, ReadQuote, CheckExpiry, ExpireQuote, Receive, Unheld, Resting
<1>4. pc'[w] \in Unheld
  <2>1. CASE PreCheck(w) \/ Recheck(w)
    BY <1>2, <2>1 DEF PreCheck, Recheck, Replay, Answer, AnswerTrade, Unheld
  <2>2. CASE Begin(w) \/ ReadQuote(w) \/ CheckExpiry(w) \/ ExpireQuote(w)
    BY <1>2, <2>2 DEF Begin, ReadQuote, CheckExpiry, ExpireQuote, Answer, Unheld
  <2>3. ASSUME NEW r \in Requests, Receive(w, r) PROVE pc'[w] \in Unheld
    BY <1>2, <2>3 DEF Receive, FirstStep, Unheld
  <2> QED BY <2>1, <2>2, <2>3 DEF Outside
<1>5. Clean(w)'
  BY <1>0, <1>1, <1>3, LocalClean DEF Clean
<1>6. (QuoteHeld(w) /\ KeyHeld(w) /\ RowsWritten(w) /\ BalanceRead(w) /\ BalancesWritten(w))'
  BY <1>4, <1>5, CleanLocal
<1>7. QuoteSeen(w)'
  <2>1. CASE ReadQuote(w)
    BY <1>2, <2>1 DEF ReadQuote, Answer, QuoteSeen, QuoteVisible
  <2>2. CASE CheckExpiry(w)
    BY <1>0, <1>2, <2>2 DEF CheckExpiry, Answer, QuoteSeen, QuoteVisible, LocalInv
  <2>3. CASE PreCheck(w) \/ Recheck(w) \/ Begin(w) \/ ExpireQuote(w)
    BY <1>2, <2>3 DEF PreCheck, Recheck, Begin, ExpireQuote, Replay, Answer, AnswerTrade, QuoteSeen
  <2>4. ASSUME NEW r \in Requests, Receive(w, r) PROVE QuoteSeen(w)'
    BY <1>2, <2>4 DEF Receive, FirstStep, QuoteSeen
  <2> QED BY <2>1, <2>2, <2>3, <2>4 DEF Outside
<1>8. BeganInPast(w)'
  <2>1. now \in Nat /\ began \in [Workers -> Nat]
    BY <1>0, BoundAssumption DEF TypeOK
  <2>2. CASE Begin(w)
    BY <1>1, <2>1, <2>2 DEF Begin, BeganInPast
  <2>3. CASE began' = began
    BY <1>0, <1>1, <2>3 DEF LocalInv, BeganInPast
  <2> QED BY <2>2, <2>3 DEF Outside, PreCheck, Recheck, ReadQuote, CheckExpiry, ExpireQuote, Receive
<1>9. IdFresh(w)'
  <2>1. ASSUME NEW r \in Requests, Receive(w, r) PROVE IdFresh(w)'
    <3>1. /\ \A e \in ledger : e.refId \in 0..received
          /\ received \in Nat /\ reqId \in [Workers -> Nat]
      BY <1>0, BoundAssumption DEF IInv, IdsDistinct, TypeOK
    <3>2. reqId'[w] = received + 1 /\ received' = received + 1
      BY <2>1, <3>1 DEF Receive
    <3> QED BY <1>1, <3>1, <3>2 DEF IdFresh
  <2>2. CASE PreCheck(w) \/ Recheck(w) \/ Begin(w) \/ ReadQuote(w) \/ CheckExpiry(w) \/ ExpireQuote(w)
    <3>1. pc[w] \notin Resting /\ UNCHANGED <<reqId, received>>
      BY <2>2 DEF PreCheck, Recheck, Begin, ReadQuote, CheckExpiry, ExpireQuote, Resting
    <3> QED BY <1>0, <1>1, <3>1, IdFreshKept DEF LocalInv
  <2> QED BY <2>1, <2>2 DEF Outside
<1> QED BY <1>0, <1>6, <1>7, <1>8, <1>9, OwnCommon DEF LocalInv

\* Statements inside a transaction.
Inside(w) == \/ LockQuote(w) \/ LockPay(w) \/ InsertTrade(w) \/ Debit(w) \/ LockReceive(w)
             \/ Credit(w) \/ LockDeposit(w)

\* They write nothing that is committed, and only add locks.
LEMMA InsideFacts ==
  ASSUME IInv, NEW w \in Workers, Inside(w)
  PROVE  /\ UNCHANGED <<tables, request, began, environment>>
         /\ locked[w] \subseteq locked'[w]
         /\ locked'[w] = locked[w] \cup Wants(w)
         /\ ServesRequest(w)' /\ LocksReleased(w)' /\ QuoteSeen(w)' /\ BeganInPast(w)' /\ IdFresh(w)'
<1> USE DEF tables, request, answer, environment, writes
<1>0. TypeOK /\ LocalInv(w) /\ WorkerStep(w)
  BY DEF IInv, Inside, WorkerStep, Step
<1>1. UNCHANGED <<tables, request, began, environment>>
  BY DEF Inside, LockQuote, LockPay, InsertTrade, Debit, LockReceive, Credit, ApplyDelta, LockDeposit
<1>2. TakeLock(w)
  BY DEF Inside, LockQuote, LockPay, InsertTrade, Debit, LockReceive, Credit, ApplyDelta, LockDeposit, FindForUpdate
<1>3. locked'[w] = locked[w] \cup Wants(w)
  BY <1>0, <1>2 DEF TakeLock, TypeOK
<1>4. pc \in [Workers -> Steps]
  BY <1>0 DEF TypeOK
<1>5. pc'[w] \notin {"checkExpiry", "expireQuote"} /\ pc[w] \notin Resting
  BY <1>4 DEF Inside, LockQuote, LockPay, InsertTrade, Debit, LockReceive, Credit, ApplyDelta, LockDeposit, Throw, Resting
<1>6. QuoteSeen(w)' /\ BeganInPast(w)'
  BY <1>0, <1>1, <1>5 DEF QuoteSeen, BeganInPast, LocalInv
<1>7. IdFresh(w)'
  BY <1>0, <1>1, <1>5, IdFreshKept DEF LocalInv
<1> QED BY <1>0, <1>1, <1>3, <1>6, <1>7, OwnCommon

LEMMA OwnLockQuote ==
  ASSUME IInv, NEW w \in Workers, LockQuote(w)
  PROVE  LocalInv(w)'
<1>0. TypeOK /\ LocalInv(w) /\ TradedQuotes /\ pc[w] = "lockQuote" /\ Inside(w)
  BY DEF IInv, LockQuote, Inside
<1>1. UNCHANGED <<quoteStatus, expiresAt, trades, req, began, now, newBalances, newLedger, newTrades>>
  BY DEF LockQuote, tables, request, environment
<1>2. Clean(w)
  BY <1>0, LocalClean DEF Unheld
<1>3. req[w].quote \in QuoteIds
  BY <1>0, AccountsOfWorker
<1>4. CASE pc'[w] = "rollback"
  <2>1. ~(HasQuote(w)') /\ ~(Inserted(w)') /\ ~(Debited(w)') /\ ~(Crediting(w)')
    BY <1>4 DEF HasQuote, Inserted, Debited, Crediting
  <2>2. (QuoteHeld(w) /\ KeyHeld(w) /\ RowsWritten(w) /\ BalanceRead(w) /\ BalancesWritten(w))'
    BY <1>1, <1>2, <1>4, <2>1 DEF Clean, QuoteHeld, KeyHeld, RowsWritten, BalanceRead, BalancesWritten
  <2> QED BY <1>0, <2>2, InsideFacts DEF LocalInv
<1>5. CASE pc'[w] = "lockPay"
  <2>1. /\ QuoteVisible(w) /\ ~Expired(req[w].quote) /\ quoteStatus[req[w].quote] # "EXECUTED"
        /\ newStatus' = newStatus
    <3>1. pc \in [Workers -> Steps]
      BY <1>0 DEF TypeOK
    <3> QED BY <1>5, <3>1 DEF LockQuote, Throw
  <2>2. /\ quoteStatus[req[w].quote] = "ACTIVE" /\ Quote[req[w].quote].clientId = req[w].client
        /\ now < expiresAt[req[w].quote]
    <3>1. quoteStatus \in [QuoteIds -> QuoteStatus] /\ expiresAt \in [QuoteIds -> Int] /\ now \in Nat
      BY <1>0, BoundAssumption DEF TypeOK
    <3> QED BY <1>3, <2>1, <3>1 DEF QuoteVisible, Expired, QuoteStatus
  <2>3. QuoteLock(req[w].quote) \in locked'[w]
    BY <1>0, <2>1, InsideFacts DEF Wants, LocksQuote
  <2>4. \A t \in trades : t.quoteId # req[w].quote
    BY <1>0, <2>2 DEF TradedQuotes
  <2>5. began[w] < expiresAt[req[w].quote]
    <3>1. began[w] \in Nat /\ now \in Nat /\ expiresAt[req[w].quote] \in Int /\ began[w] <= now
      BY <1>0, <1>3, BoundAssumption DEF TypeOK, LocalInv, BeganInPast
    <3> QED BY <2>2, <3>1
  <2>6. QuoteHeld(w)'
    BY <1>1, <2>2, <2>3, <2>4, <2>5 DEF QuoteHeld
  <2>7. ~(Inserted(w)') /\ ~(Debited(w)') /\ ~(Crediting(w)')
    BY <1>5 DEF Inserted, Debited, Crediting
  <2>8. (KeyHeld(w) /\ RowsWritten(w) /\ BalanceRead(w) /\ BalancesWritten(w))'
    BY <1>1, <1>2, <1>5, <2>1, <2>7 DEF Clean, KeyHeld, RowsWritten, BalanceRead, BalancesWritten
  <2> QED BY <1>0, <2>6, <2>8, InsideFacts DEF LocalInv
<1>6. pc'[w] \in {"rollback", "lockPay"}
  <2>1. pc' = [pc EXCEPT ![w] = "rollback"] \/ pc' = [pc EXCEPT ![w] = "lockPay"]
    BY DEF LockQuote, Throw
  <2> QED BY <1>0, <2>1 DEF TypeOK
<1> QED BY <1>4, <1>5, <1>6

\* Past its checks, a worker keeps its quote.
LEMMA OwnQuote ==
  ASSUME IInv, NEW w \in Workers, Inside(w), HasQuote(w)
  PROVE  QuoteHeld(w)'
<1>1. QuoteHeld(w)
  BY DEF IInv, LocalInv
<1>2. UNCHANGED <<quoteStatus, expiresAt, trades, req, began>> /\ locked[w] \subseteq locked'[w]
  BY InsideFacts DEF tables, request
<1> QED BY <1>1, <1>2 DEF QuoteHeld

LEMMA OwnKey ==
  ASSUME IInv, NEW w \in Workers, Inside(w), Inserted(w)
  PROVE  KeyHeld(w)'
<1>1. KeyHeld(w)
  BY DEF IInv, LocalInv
<1>2. UNCHANGED <<trades, req>> /\ locked[w] \subseteq locked'[w]
  BY InsideFacts DEF tables, request
<1> QED BY <1>1, <1>2 DEF KeyHeld, FindByIdempotencyKey

\* findForUpdate: the row that is found is locked, and is the committed one.
LEMMA RowIsLocked ==
  ASSUME IInv, NEW w \in Workers, Inside(w), FindForUpdate(w),
         pc[w] \in {"lockPay", "lockReceive", "lockDeposit"}
  PROVE  /\ existing'[w] = balances[Account(w)]
         /\ existing'[w] # NoRow => BalanceLock(Account(w)) \in locked'[w]
<1>1. existing'[w] = balances[Account(w)]
  BY DEF FindForUpdate, IInv, TypeOK
<1>2. ASSUME balances[Account(w)] # NoRow PROVE BalanceLock(Account(w)) \in locked'[w]
  BY <1>2, InsideFacts DEF Wants, LocksQuote, LocksBalance
<1> QED BY <1>1, <1>2

LEMMA OwnLockPay ==
  ASSUME IInv, NEW w \in Workers, LockPay(w)
  PROVE  LocalInv(w)'
<1>0. TypeOK /\ LocalInv(w) /\ pc[w] = "lockPay" /\ Inside(w) /\ FindForUpdate(w) /\ HasQuote(w)
  BY DEF IInv, LockPay, Inside, HasQuote
<1>1. UNCHANGED <<balances, req, writes>>
  BY DEF LockPay, tables, request
<1>2. Clean(w)
  BY <1>0, LocalClean
<1>3. req[w].kind = "trade" /\ req[w].quote \in QuoteIds
  BY <1>0, AccountsOfWorker
<1>4. Account(w) = PayAccount(req[w].quote)
  BY <1>0, <1>3 DEF Account
<1>5. /\ pc'[w] = "rollback" \/ (/\ pc'[w] = "insertTrade"
                                 /\ ~(Available(balances[Account(w)]) < PayAmount(req[w].quote)))
  BY <1>0 DEF LockPay, Throw, TypeOK
<1>6. ~(Inserted(w)') /\ ~(Debited(w)') /\ ~(Crediting(w)')
  BY <1>5 DEF Inserted, Debited, Crediting, HasQuote
<1>7. (KeyHeld(w) /\ RowsWritten(w) /\ BalancesWritten(w))'
  BY <1>1, <1>2, <1>5, <1>6 DEF Clean, KeyHeld, RowsWritten, BalancesWritten, writes
<1>8. BalanceRead(w)'
  <2> SUFFICES ASSUME pc'[w] = "insertTrade" PROVE BalanceRead(w)'
    BY <1>5 DEF BalanceRead
  <2>1. existing'[w] = balances[Account(w)] /\ (existing'[w] # NoRow => BalanceLock(Account(w)) \in locked'[w])
    BY <1>0, RowIsLocked
  <2>2. Available(balances[Account(w)]) \in Int /\ PayAmount(req[w].quote) \in Int
    BY <1>0, <1>3, <1>4, LegsOfQuote DEF TypeOK, Available, BalanceRow
  <2>3. Available(existing'[w]) >= PayAmount(req[w].quote)
    BY <1>5, <2>1, <2>2
  <2> QED BY <1>1, <1>4, <2>1, <2>3 DEF BalanceRead, RowRead, Available
<1>9. QuoteHeld(w)'
  BY <1>0, OwnQuote
<1> QED BY <1>0, <1>7, <1>8, <1>9, InsideFacts DEF LocalInv

LEMMA OwnInsertTrade ==
  ASSUME IInv, NEW w \in Workers, InsertTrade(w)
  PROVE  LocalInv(w)'
<1>0. TypeOK /\ LocalInv(w) /\ pc[w] = "insertTrade" /\ Inside(w) /\ HasQuote(w)
  BY DEF IInv, InsertTrade, Inside, HasQuote
<1>1. UNCHANGED <<balances, trades, req, reqId, began, existing, newStatus, newBalances>>
  BY DEF InsertTrade, tables, request
<1>2. Clean(w)
  BY <1>0, LocalClean
<1>3. pc'[w] = "debit"
  BY <1>0 DEF InsertTrade, TypeOK
<1>4. KeyHeld(w)'
  <2>1. Wants(w) = {KeyLock(req[w].client, req[w].key)}
    BY <1>0 DEF Wants, LocksQuote, LocksBalance, InsertsBalance, InsertsKey
  <2>2. FindByIdempotencyKey(w) = {}
    BY DEF InsertTrade
  <2> QED BY <1>0, <1>1, <2>1, <2>2, InsideFacts DEF KeyHeld, FindByIdempotencyKey
<1>5. Inserted(w)' /\ ~(Debited(w)') /\ ~(Crediting(w)')
  BY <1>3 DEF Inserted, Debited, Crediting, HasQuote
<1>6. RowsWritten(w)'
  <2>1. newTrades'[w] = {NewTrade(w)} /\ newLedger'[w] = TradeEntries(reqId[w], req[w].quote)
    BY <1>0 DEF InsertTrade, NewTrade, TypeOK
  <2>2. NewTrade(w)' = NewTrade(w)
    BY <1>1 DEF NewTrade
  <2>3. newStatus'[w] = NoRow
    BY <1>1, <1>2 DEF Clean
  <2> QED BY <1>1, <1>3, <1>5, <2>1, <2>2, <2>3 DEF RowsWritten
<1>7. BalanceRead(w)'
  BY <1>0, <1>1, <1>3, InsideFacts DEF BalanceRead, RowRead, LocalInv
<1>8. BalancesWritten(w)'
  BY <1>1, <1>2, <1>3, <1>5 DEF Clean, BalancesWritten
<1>9. QuoteHeld(w)'
  BY <1>0, OwnQuote
<1> QED BY <1>0, <1>4, <1>6, <1>7, <1>8, <1>9, InsideFacts DEF LocalInv

\* applyDelta: the account's row is locked, and the new balance is the committed
\* one plus the amount.
LEMMA DeltaApplied ==
  ASSUME IInv, NEW w \in Workers, NEW next, Inside(w), ApplyDelta(w, next),
         pc[w] \in {"debit", "credit"}, Account(w) \in Accounts, RowRead(w, Account(w))
  PROVE  /\ BalanceLock(Account(w)) \in locked'[w]
         /\ newBalances'[w] = [newBalances[w] EXCEPT ![Account(w)] = Available(balances[Account(w)]) + Delta(w)]
         /\ existing[w] = balances[Account(w)]
<1>1. existing[w] = balances[Account(w)]
  BY DEF ApplyDelta, RowRead
<1>2. BalanceLock(Account(w)) \in locked'[w]
  <2>1. CASE existing[w] # NoRow
    BY <2>1, InsideFacts DEF RowRead
  <2>2. CASE existing[w] = NoRow
    BY <1>1, <2>2, InsideFacts DEF Wants, LocksQuote, LocksBalance, InsertsBalance
  <2> QED BY <2>1, <2>2
<1>3. newBalances' = [newBalances EXCEPT ![w][Account(w)] = Available(existing[w]) + Delta(w)]
  BY DEF ApplyDelta
<1>4. newBalances \in [Workers -> [Accounts -> BalanceRow]]
  BY DEF IInv, TypeOK
<1> QED BY <1>1, <1>2, <1>3, <1>4

LEMMA OwnDebit ==
  ASSUME IInv, NEW w \in Workers, Debit(w)
  PROVE  LocalInv(w)'
<1>0. TypeOK /\ LocalInv(w) /\ pc[w] = "debit" /\ Inside(w) /\ Inserted(w) /\ HasQuote(w)
  BY DEF IInv, Debit, Inside, HasQuote, Inserted
<1>1. UNCHANGED <<balances, req, reqId, began, newStatus, newLedger, newTrades>>
  BY DEF Debit, ApplyDelta, tables, request
<1>2. pc'[w] = "lockReceive"
  BY <1>0 DEF Debit, ApplyDelta, TypeOK
<1>3. req[w].kind = "trade" /\ req[w].quote \in QuoteIds
  BY <1>0, AccountsOfWorker
<1> DEFINE a == PayAccount(req[w].quote)
<1>4. Account(w) = a /\ Delta(w) = -PayAmount(req[w].quote) /\ a \in Accounts
  BY <1>0, <1>3, LegsOfQuote DEF Account, Delta
<1>5. RowRead(w, a) /\ Available(existing[w]) >= PayAmount(req[w].quote)
  BY <1>0 DEF LocalInv, BalanceRead
<1>6. /\ BalanceLock(a) \in locked'[w]
      /\ newBalances'[w] = [newBalances[w] EXCEPT ![a] = Available(balances[a]) - PayAmount(req[w].quote)]
      /\ existing[w] = balances[a]
  <2>1. ApplyDelta(w, "lockReceive")
    BY DEF Debit
  <2>2. Available(balances[a]) \in Int /\ PayAmount(req[w].quote) \in Int
    BY <1>0, <1>3, <1>4, LegsOfQuote DEF TypeOK, Available, BalanceRow
  <2> QED BY <1>0, <1>4, <1>5, <2>1, <2>2, DeltaApplied
<1>7. Debited(w)' /\ Inserted(w)' /\ ~(Crediting(w)') /\ pc'[w] # "commit" /\ ~Debited(w) /\ ~Crediting(w)
  BY <1>0, <1>2 DEF Debited, Inserted, Crediting, HasQuote
<1>8. BalancesWritten(w)'
  <2>1. newBalances[w] \in [Accounts -> BalanceRow] /\ Available(balances[a]) \in Int /\ PayAmount(req[w].quote) \in Int
    BY <1>0, <1>3, <1>4, LegsOfQuote DEF TypeOK, Available, BalanceRow
  <2>2. newBalances'[w][a] = Available(balances[a]) + (-PayAmount(req[w].quote)) /\ newBalances'[w][a] >= 0
    BY <1>4, <1>5, <1>6, <2>1
  <2>3. \A b \in Accounts : newBalances[w][b] = NoRow
    BY <1>0, <1>7 DEF LocalInv, BalancesWritten
  <2>4. \A b \in Accounts : newBalances'[w][b] # NoRow => b = a
    BY <1>6, <2>1, <2>3
  <2> QED BY <1>1, <1>6, <1>7, <2>2, <2>4 DEF BalancesWritten, Wrote
<1>9. RowsWritten(w)'
  <2>1. NewTrade(w)' = NewTrade(w)
    BY <1>1 DEF NewTrade
  <2> QED BY <1>0, <1>1, <1>2, <1>7, <2>1 DEF RowsWritten, LocalInv
<1>10. BalanceRead(w)'
  BY <1>2 DEF BalanceRead
<1> QED BY <1>0, <1>8, <1>9, <1>10, OwnQuote, OwnKey, InsideFacts DEF LocalInv

LEMMA OwnLockReceive ==
  ASSUME IInv, NEW w \in Workers, LockReceive(w)
  PROVE  LocalInv(w)'
<1>0. TypeOK /\ LocalInv(w) /\ pc[w] = "lockReceive" /\ Inside(w) /\ Inserted(w) /\ HasQuote(w)
  BY DEF IInv, LockReceive, Inside, HasQuote, Inserted
<1>1. UNCHANGED <<balances, req, reqId, began, newStatus, newBalances, newLedger, newTrades>>
  BY DEF LockReceive, tables, request, writes
<1>2. pc'[w] = "credit"
  BY <1>0 DEF LockReceive, TypeOK
<1>3. req[w].kind = "trade" /\ req[w].quote \in QuoteIds
  BY <1>0, AccountsOfWorker
<1>4. Account(w)' = Account(w)
  BY <1>0, <1>1, <1>2, <1>3 DEF Account
<1>5. Debited(w)' /\ Inserted(w)' /\ HasQuote(w)' /\ Debited(w)
  BY <1>0, <1>1, <1>2, <1>3 DEF Debited, Inserted, Crediting, HasQuote
<1>6. RowsWritten(w)'
  <2>1. NewTrade(w)' = NewTrade(w)
    BY <1>1 DEF NewTrade
  <2> QED BY <1>0, <1>1, <1>2, <1>5, <2>1 DEF RowsWritten, LocalInv
<1>7. BalanceRead(w)'
  <2>1. FindForUpdate(w)
    BY DEF LockReceive
  <2>2. existing'[w] = balances[Account(w)] /\ (existing'[w] # NoRow => BalanceLock(Account(w)) \in locked'[w])
    BY <1>0, <2>1, RowIsLocked
  <2> QED BY <1>1, <1>2, <1>4, <2>2 DEF BalanceRead, RowRead
<1>8. BalancesWritten(w)'
  BY <1>0, <1>1, <1>2, <1>5, InsideFacts DEF BalancesWritten, Wrote, LocalInv
<1> QED BY <1>0, <1>6, <1>7, <1>8, OwnQuote, OwnKey, InsideFacts DEF LocalInv

LEMMA OwnCredit ==
  ASSUME IInv, NEW w \in Workers, Credit(w)
  PROVE  LocalInv(w)'
<1>0. TypeOK /\ LocalInv(w) /\ pc[w] = "credit" /\ Inside(w) /\ Crediting(w)
  BY DEF IInv, Credit, Inside, Crediting
<1>1. UNCHANGED <<balances, req, reqId, began, newLedger, newTrades>>
  BY DEF Credit, ApplyDelta, tables, request
<1>2. pc'[w] = "commit"
  BY <1>0 DEF Credit, ApplyDelta, TypeOK
<1>3. Account(w) \in Accounts /\ Delta(w) \in Int /\ Delta(w) >= 0
  BY <1>0, AccountsOfWorker
<1>4. Account(w)' = Account(w) /\ Delta(w)' = Delta(w)
  BY <1>0, <1>1, <1>2 DEF Account, Delta
<1>5. /\ HasQuote(w)' = HasQuote(w) /\ Crediting(w)'
      /\ Inserted(w)' = HasQuote(w) /\ Inserted(w) = HasQuote(w)
      /\ Debited(w)' = HasQuote(w) /\ Debited(w) = HasQuote(w)
      /\ HasQuote(w) = (req[w].kind = "trade")
  BY <1>0, <1>1, <1>2 DEF Debited, Inserted, Crediting, HasQuote
<1>6. RowsWritten(w)'
  <2>1. NewTrade(w)' = NewTrade(w)
    BY <1>1 DEF NewTrade
  <2>2. newStatus'[w] = IF HasQuote(w) THEN "EXECUTED" ELSE NoRow
    <3>1. newStatus \in [Workers -> QuoteStatus \cup {NoRow}] /\ newStatus[w] = NoRow
      BY <1>0 DEF TypeOK, LocalInv, RowsWritten
    <3> QED BY <1>5, <3>1 DEF Credit
  <2>3. /\ newTrades[w] = IF HasQuote(w) THEN {NewTrade(w)} ELSE {}
        /\ HasQuote(w) => newLedger[w] = TradeEntries(reqId[w], req[w].quote)
        /\ ~HasQuote(w) => newLedger[w] = {DepositEntry(reqId[w], Account(w), req[w].amount)}
    BY <1>0, <1>5 DEF LocalInv, RowsWritten
  <2> QED BY <1>1, <1>2, <1>4, <1>5, <2>1, <2>2, <2>3 DEF RowsWritten
<1>7. BalanceRead(w)'
  BY <1>2 DEF BalanceRead
<1>8. BalancesWritten(w)'
  <2>1. RowRead(w, Account(w)) /\ ApplyDelta(w, "commit")
    BY <1>0 DEF LocalInv, BalanceRead, Credit
  <2>2. /\ BalanceLock(Account(w)) \in locked'[w]
        /\ newBalances'[w] = [newBalances[w] EXCEPT ![Account(w)] = Available(balances[Account(w)]) + Delta(w)]
    BY <1>0, <1>3, <2>1, DeltaApplied
  <2>3. newBalances[w] \in [Accounts -> BalanceRow] /\ Available(balances[Account(w)]) \in Int
        /\ Available(balances[Account(w)]) >= 0
    BY <1>0, <1>3 DEF TypeOK, Available, BalanceRow, IInv, BalanceNeverNegative
  <2>4. Wrote(w, Account(w), Delta(w))'
    BY <1>1, <1>3, <1>4, <2>2, <2>3 DEF Wrote
  <2>5. BalancesWritten(w)
    BY <1>0 DEF LocalInv
  <2>6. ASSUME HasQuote(w) PROVE Wrote(w, PayAccount(req[w].quote), -PayAmount(req[w].quote))'
    <3>1. Account(w) # PayAccount(req[w].quote) /\ PayAccount(req[w].quote) \in Accounts
      <4>1. req[w].quote \in QuoteIds /\ req[w].kind = "trade"
        BY <2>6, AccountsOfWorker
      <4> QED BY <1>0, <4>1, LegsOfQuote DEF Account
    <3>2. Wrote(w, PayAccount(req[w].quote), -PayAmount(req[w].quote))
      BY <1>5, <2>5, <2>6 DEF BalancesWritten
    <3> QED BY <1>0, <1>1, <2>2, <2>3, <3>1, <3>2, InsideFacts DEF Wrote
  <2>7. ASSUME NEW a \in Accounts, newBalances'[w][a] # NoRow
        PROVE  (Debited(w)' /\ a = PayAccount(req'[w].quote)) \/ a = Account(w)'
    BY <1>0, <1>1, <1>4, <1>5, <2>2, <2>3, <2>5, <2>7 DEF BalancesWritten
  <2> QED BY <1>1, <1>2, <1>5, <2>4, <2>6, <2>7 DEF BalancesWritten
<1>9. QuoteHeld(w)'
  <2>1. CASE HasQuote(w)
    BY <1>0, <2>1, OwnQuote
  <2>2. CASE ~HasQuote(w)
    BY <1>5, <2>2 DEF QuoteHeld
  <2> QED BY <2>1, <2>2
<1>10. KeyHeld(w)'
  <2>1. CASE Inserted(w)
    BY <1>0, <2>1, OwnKey
  <2>2. CASE ~Inserted(w)
    BY <1>5, <2>2 DEF KeyHeld
  <2> QED BY <2>1, <2>2
<1> QED BY <1>0, <1>6, <1>7, <1>8, <1>9, <1>10, InsideFacts DEF LocalInv

LEMMA OwnLockDeposit ==
  ASSUME IInv, NEW w \in Workers, LockDeposit(w)
  PROVE  LocalInv(w)'
<1>0. TypeOK /\ LocalInv(w) /\ pc[w] = "lockDeposit" /\ Inside(w) /\ FindForUpdate(w)
  BY DEF IInv, LockDeposit, Inside
<1>1. UNCHANGED <<balances, req, reqId, newStatus, newBalances, newTrades>>
  BY DEF LockDeposit, tables, request
<1>2. pc'[w] = "credit"
  BY <1>0 DEF LockDeposit, TypeOK
<1>3. Clean(w)
  BY <1>0, LocalClean DEF Unheld
<1>4. req[w].kind = "deposit"
  BY <1>0, KindOfRequest DEF LocalInv, ServesRequest
<1>5. Account(w)' = Account(w) /\ Delta(w) = req[w].amount
  BY <1>1, <1>4 DEF Account, Delta
<1>6. ~(HasQuote(w)') /\ ~(Inserted(w)') /\ ~(Debited(w)') /\ Crediting(w)'
  BY <1>1, <1>2, <1>4 DEF Debited, Inserted, Crediting, HasQuote
<1>7. RowsWritten(w)'
  <2>1. newLedger'[w] = {DepositEntry(reqId[w], Account(w), req[w].amount)}
    BY <1>0, <1>5 DEF LockDeposit, TypeOK
  <2> QED BY <1>1, <1>2, <1>3, <1>5, <1>6, <2>1 DEF RowsWritten, Clean
<1>8. BalanceRead(w)'
  <2>1. existing'[w] = balances[Account(w)] /\ (existing'[w] # NoRow => BalanceLock(Account(w)) \in locked'[w])
    BY <1>0, RowIsLocked
  <2> QED BY <1>1, <1>2, <1>5, <2>1 DEF BalanceRead, RowRead
<1>9. (QuoteHeld(w) /\ KeyHeld(w) /\ BalancesWritten(w))'
  BY <1>1, <1>2, <1>3, <1>6 DEF QuoteHeld, KeyHeld, BalancesWritten, Clean
<1> QED BY <1>0, <1>7, <1>8, <1>9, InsideFacts DEF LocalInv

\* What becomes true of the worker that takes the step.
LEMMA LocalOwn ==
  ASSUME IInv, NEW w \in Workers, WorkerStep(w)
  PROVE  LocalInv(w)'
BY OwnEnds, OwnOutside, OwnLockQuote, OwnLockPay, OwnInsertTrade, OwnDebit, OwnLockReceive, OwnCredit,
   OwnLockDeposit
DEF WorkerStep, Step, Ends, Outside

LEMMA DisjointStep ==
  ASSUME IInv, NEW w \in Workers, WorkerStep(w)
  PROVE  LocksDisjoint'
<1>0. TypeOK /\ LocksDisjoint /\ \A v \in Workers : v # w => locked'[v] = locked[v]
  BY Frame DEF IInv, Untouched
<1>1. CASE Ends(w)
  <2>1. EndTransaction(w)
    BY <1>1 DEF Ends, InsertTradeFails, ApplyDeltaFails, Commit, Rollback, DeadlockVictim, ConnectionLost, Abort
  <2>2. locked'[w] = {}
    BY <1>0, <2>1 DEF EndTransaction, TypeOK
  <2> QED BY <1>0, <2>2 DEF LocksDisjoint
<1>2. CASE Outside(w)
  <2>1. locked' = locked
    BY <1>2 DEF Outside, PreCheck, Begin, Recheck, ReadQuote, CheckExpiry, ExpireQuote, Receive
  <2> QED BY <1>0, <2>1 DEF LocksDisjoint
<1>3. CASE Inside(w)
  <2>1. ~Blocked(w) /\ TakeLock(w)
    BY <1>3 DEF Inside, LockQuote, LockPay, InsertTrade, Debit, LockReceive, Credit, ApplyDelta, LockDeposit, FindForUpdate
  <2> QED BY <1>0, <2>1, TakeLockDisjoint
<1> QED BY <1>1, <1>2, <1>3 DEF WorkerStep, Step, Ends, Outside, Inside

LEMMA BalanceStep ==
  ASSUME IInv, NEW w \in Workers, WorkerStep(w)
  PROVE  BalanceNeverNegative'
<1>0. BalanceNeverNegative
  BY DEF IInv
<1>1. CASE Commit(w)
  <2>1. BalancesWritten(w) /\ pc[w] = "commit"
    BY <1>1 DEF IInv, LocalInv, Commit
  <2> SUFFICES ASSUME NEW a \in Accounts PROVE Available(balances'[a]) >= 0
    BY DEF BalanceNeverNegative, Available
  <2>2. CASE newBalances[w][a] = NoRow
    BY <1>0, <1>1, <2>2 DEF Commit, BalanceNeverNegative
  <2>3. CASE newBalances[w][a] # NoRow
    <3>1. newBalances[w][a] >= 0
      BY <2>1, <2>3 DEF BalancesWritten, Wrote
    <3>2. balances'[a] = newBalances[w][a]
      BY <1>1, <2>3 DEF Commit
    <3> QED BY <2>3, <3>1, <3>2 DEF Available
  <2> QED BY <2>2, <2>3
<1>2. CASE balances' = balances
  BY <1>0, <1>2 DEF BalanceNeverNegative, Available
<1> QED
  BY <1>1, <1>2 DEF WorkerStep, Step, PreCheck, Begin, LockQuote, LockPay, InsertTrade, InsertTradeFails,
     Debit, LockReceive, Credit, ApplyDelta, ApplyDeltaFails, Rollback, Recheck, ReadQuote, CheckExpiry,
     ExpireQuote, LockDeposit, DeadlockVictim, ConnectionLost, Receive, tables

LEMMA IdsStep ==
  ASSUME IInv, NEW w \in Workers, WorkerStep(w)
  PROVE  IdsDistinct'
<1>0. TypeOK /\ IdsDistinct /\ TablesMove(w) /\ (\A v \in Workers : IdFresh(v))
  BY TablesStep DEF IInv, LocalInv
<1>1. /\ received \in Nat /\ received' \in Nat /\ received <= received'
      /\ reqId \in [Workers -> Nat] /\ ledger \subseteq LedgerEntry
  BY <1>0, BoundAssumption DEF TypeOK, TablesMove
<1>2. ASSUME NEW e \in ledger' PROVE e.refId \in 0..received'
  BY <1>0, <1>1, <1>2 DEF TablesMove, IdsDistinct, IdFresh
<1>3. ASSUME NEW v \in Workers, v # w, pc'[v] \notin Resting, pc'[w] \notin Resting
      PROVE  reqId'[v] # reqId'[w]
  <2>1. pc[v] \notin Resting /\ reqId'[v] = reqId[v]
    BY <1>0, <1>3, Frame DEF Untouched
  <2>2. reqId[v] \in 1..received
    BY <1>0, <2>1 DEF IdFresh
  <2>3. ASSUME NEW r \in Requests, Receive(w, r) PROVE reqId'[v] # reqId'[w]
    <3>1. reqId'[w] = received + 1
      BY <1>1, <2>3 DEF Receive
    <3> QED BY <1>1, <2>1, <2>2, <3>1
  <2>4. CASE Step(w) \/ ConnectionLost(w)
    <3>1. pc[w] \notin Resting
      <4>1. CASE DeadlockVictim(w)
        BY <4>1, VictimInTransaction DEF DeadlockVictim, IInv, LocalInv, RequestOK, InTransaction, Resting
      <4> QED
        BY <2>4, <4>1 DEF Step, PreCheck, Begin, LockQuote, LockPay, InsertTrade, InsertTradeFails,
           Debit, LockReceive, Credit, ApplyDeltaFails, Commit, Rollback, Recheck, ReadQuote,
           CheckExpiry, ExpireQuote, LockDeposit, ConnectionLost, Resting
    <3>2. reqId' = reqId
      BY <2>4 DEF Step, PreCheck, Begin, LockQuote, LockPay, InsertTrade, InsertTradeFails,
         Debit, LockReceive, Credit, ApplyDelta, ApplyDeltaFails, Commit, Rollback, Recheck, ReadQuote,
         CheckExpiry, ExpireQuote, LockDeposit, DeadlockVictim, ConnectionLost, request
    <3> QED BY <1>0, <1>3, <2>1, <3>1, <3>2 DEF IdsDistinct
  <2> QED BY <2>3, <2>4 DEF WorkerStep
<1>4. ASSUME NEW u \in Workers, NEW v \in Workers, u # v, pc'[u] \notin Resting, pc'[v] \notin Resting,
             u # w, v # w
      PROVE  reqId'[u] # reqId'[v]
  BY <1>0, <1>4, Frame DEF Untouched, IdsDistinct
<1> QED BY <1>2, <1>3, <1>4 DEF IdsDistinct

\* What a trade that commits adds to the tables.
LEMMA TradeCommits ==
  ASSUME IInv, NEW w \in Workers, Commit(w)
  PROVE  LET q == req[w].quote IN
         \/ trades' = trades /\ quoteStatus' = quoteStatus
         \/ /\ q \in QuoteIds
            /\ trades' = trades \cup {NewTrade(w)}
            /\ quoteStatus' = [quoteStatus EXCEPT ![q] = "EXECUTED"]
            /\ quoteStatus[q] = "ACTIVE" /\ began[w] < expiresAt[q]
            /\ \A t \in trades : /\ t.quoteId # q
                                 /\ <<t.clientId, t.idempotencyKey>> # <<req[w].client, req[w].key>>
<1> DEFINE q == req[w].quote
<1>0. LocalInv(w)
  BY DEF IInv
<1>1. CASE req[w].kind = "trade"
  <2>1. HasQuote(w) /\ Inserted(w) /\ req[w].quote \in QuoteIds /\ newStatus[w] = "EXECUTED"
    BY <1>1, CommitFacts, KindOfRequest
  <2>2. newTrades[w] = {NewTrade(w)} /\ QuoteHeld(w) /\ FindByIdempotencyKey(w) = {}
    BY <1>0, <2>1 DEF LocalInv, RowsWritten, KeyHeld
  <2>3. NoRow # "EXECUTED"
    BY NoRowAssumption DEF QuoteStatus
  <2>4. quoteStatus' = [quoteStatus EXCEPT ![q] = "EXECUTED"] /\ trades' = trades \cup {NewTrade(w)}
    BY <2>1, <2>2, <2>3 DEF Commit
  <2> QED BY <2>1, <2>2, <2>4 DEF QuoteHeld, FindByIdempotencyKey
<1>2. CASE req[w].kind # "trade"
  <2>1. ~Inserted(w) /\ newStatus[w] = NoRow
    BY <1>2, CommitFacts
  <2>2. newTrades[w] = {}
    BY <1>0, <2>1 DEF LocalInv, RowsWritten
  <2> QED BY <2>1, <2>2 DEF Commit
<1> QED BY <1>1, <1>2

LEMMA TradesStep ==
  ASSUME IInv, NEW w \in Workers, WorkerStep(w)
  PROVE  TradedQuotes' /\ AtMostOneTrade' /\ ExecutedIffTraded'
<1>0. /\ quoteStatus \in [QuoteIds -> QuoteStatus] /\ trades \subseteq Trade
      /\ TradedQuotes /\ AtMostOneTrade /\ ExecutedIffTraded
  BY DEF IInv, TypeOK
<1>1. CASE Commit(w)
  <2>1. expiresAt' = expiresAt
    BY <1>1 DEF Commit
  <2>2. CASE trades' = trades /\ quoteStatus' = quoteStatus
    BY <1>0, <2>1, <2>2 DEF TradedQuotes, AtMostOneTrade, ExecutedIffTraded
  <2> DEFINE q == req[w].quote
             n == NewTrade(w)
  <2>3. CASE ~(trades' = trades /\ quoteStatus' = quoteStatus)
    <3>1. /\ q \in QuoteIds
          /\ trades' = trades \cup {n}
          /\ quoteStatus' = [quoteStatus EXCEPT ![q] = "EXECUTED"]
          /\ began[w] < expiresAt[q]
          /\ \A t \in trades : /\ t.quoteId # q
                               /\ <<t.clientId, t.idempotencyKey>> # <<req[w].client, req[w].key>>
      BY <1>1, <2>3, TradeCommits
    <3>2. /\ n.quoteId = q /\ n.createdAt = began[w]
          /\ n.clientId = req[w].client /\ n.idempotencyKey = req[w].key
      BY DEF NewTrade
    <3> HIDE DEF n
    <3>3. \A p \in QuoteIds : quoteStatus'[p] = IF p = q THEN "EXECUTED" ELSE quoteStatus[p]
      BY <1>0, <3>1
    <3>4. \A t \in trades : t.quoteId \in QuoteIds
      BY <1>0 DEF Trade
    <3>5. TradedQuotes'
      BY <1>0, <2>1, <3>1, <3>2, <3>3, <3>4 DEF TradedQuotes
    <3>6. AtMostOneTrade'
      BY <1>0, <3>1, <3>2 DEF AtMostOneTrade
    <3>7. ExecutedIffTraded'
      BY <1>0, <3>1, <3>2, <3>3 DEF ExecutedIffTraded
    <3> QED BY <3>5, <3>6, <3>7
  <2> QED BY <2>2, <2>3
<1>2. CASE ExpireQuote(w)
  <2>1. /\ trades' = trades /\ expiresAt' = expiresAt
        /\ quoteStatus' = [quoteStatus EXCEPT ![req[w].quote] = "EXPIRED"]
    BY <1>2 DEF ExpireQuote
  <2>2. \A p \in QuoteIds : quoteStatus'[p] \in {quoteStatus[p], "EXPIRED"}
    BY <1>0, <2>1
  <2>3. \A t \in trades : t.quoteId \in QuoteIds
    BY <1>0 DEF Trade
  <2> QED BY <1>0, <2>1, <2>2, <2>3 DEF TradedQuotes, AtMostOneTrade, ExecutedIffTraded
<1>3. CASE UNCHANGED <<trades, expiresAt, quoteStatus>>
  BY <1>0, <1>3 DEF TradedQuotes, AtMostOneTrade, ExecutedIffTraded
<1> QED
  BY <1>1, <1>2, <1>3 DEF WorkerStep, Step, PreCheck, Begin, LockQuote, LockPay, InsertTrade,
     InsertTradeFails, Debit, LockReceive, Credit, ApplyDelta, ApplyDeltaFails, Rollback, Recheck,
     ReadQuote, CheckExpiry, LockDeposit, DeadlockVictim, ConnectionLost, Receive, tables

LEMMA WorkerInv ==
  ASSUME IInv, NEW w \in Workers, WorkerStep(w), TypeOK'
  PROVE  IInv'
BY LocalOwn, LocalFrame, DisjointStep, BalanceStep, IdsStep, TradesStep DEF IInv

\* A new quote is one that nobody has read, locked or traded.
LEMMA CreateInv ==
  ASSUME IInv, NEW q \in QuoteIds, CreateQuote(q), TypeOK'
  PROVE  IInv'
<1> USE DEF request, answer, writes, environment
<1>1. /\ quoteStatus \in [QuoteIds -> QuoteStatus] /\ expiresAt \in [QuoteIds -> Int]
      /\ trades \subseteq Trade
  BY DEF IInv, TypeOK
<1>2. /\ quoteStatus[q] = "NONE" /\ quoteStatus'[q] = "ACTIVE"
      /\ \A p \in QuoteIds \ {q} : quoteStatus'[p] = quoteStatus[p] /\ expiresAt'[p] = expiresAt[p]
      /\ UNCHANGED <<balances, ledger, trades, pc, req, reqId, code, returned, began, existing,
                     newStatus, newBalances, newLedger, newTrades, locked, now, received, faults>>
  BY <1>1 DEF CreateQuote
<1>3. ASSUME NEW w \in Workers PROVE LocalInv(w)'
  <2>0. LocalInv(w)
    BY DEF IInv
  <2>1. /\ HasQuote(w)' = HasQuote(w) /\ Crediting(w)' = Crediting(w) /\ Inserted(w)' = Inserted(w)
        /\ Debited(w)' = Debited(w) /\ Account(w)' = Account(w) /\ Delta(w)' = Delta(w)
        /\ NewTrade(w)' = NewTrade(w) /\ FindByIdempotencyKey(w)' = FindByIdempotencyKey(w)
    BY <1>2 DEF HasQuote, Crediting, Inserted, Debited, Account, Delta, NewTrade, FindByIdempotencyKey
  <2>2. QuoteSeen(w)'
    <3> SUFFICES ASSUME pc[w] \in {"checkExpiry", "expireQuote"} PROVE QuoteVisible(w)'
      BY <1>2 DEF QuoteSeen
    <3>1. req[w].quote \in QuoteIds /\ QuoteVisible(w)
      BY <2>0, KindOfRequest DEF LocalInv, ServesRequest, QuoteSeen
    <3> QED BY <1>2, <3>1 DEF QuoteVisible
  <2>3. QuoteHeld(w)'
    <3> SUFFICES ASSUME HasQuote(w) PROVE QuoteHeld(w)'
      BY <2>1 DEF QuoteHeld
    <3>1. req[w].quote \in QuoteIds /\ QuoteHeld(w)
      BY <2>0, AccountsOfWorker DEF LocalInv
    <3> QED BY <1>2, <3>1 DEF QuoteHeld
  <2>4. ServesRequest(w)' /\ LocksReleased(w)' /\ BeganInPast(w)'
    BY <1>2, <2>0 DEF LocalInv, ServesRequest, LocksReleased, BeganInPast
  <2>5. KeyHeld(w)' /\ RowsWritten(w)'
    BY <1>2, <2>0, <2>1 DEF LocalInv, KeyHeld, RowsWritten
  <2>6. BalanceRead(w)' /\ BalancesWritten(w)'
    BY <1>2, <2>0, <2>1 DEF LocalInv, BalanceRead, RowRead, BalancesWritten, Wrote
  <2>7. IdFresh(w)'
    BY <1>2, <2>0 DEF LocalInv, IdFresh
  <2> QED BY <2>2, <2>3, <2>4, <2>5, <2>6, <2>7 DEF LocalInv
<1>4. TradedQuotes' /\ AtMostOneTrade' /\ ExecutedIffTraded'
  <2>1. \A t \in trades : t.quoteId \in QuoteIds /\ t.quoteId # q
    BY <1>1, <1>2 DEF IInv, TradedQuotes, Trade
  <2> QED BY <1>2, <2>1 DEF IInv, TradedQuotes, AtMostOneTrade, ExecutedIffTraded
<1>5. LocksDisjoint' /\ BalanceNeverNegative' /\ IdsDistinct'
  BY <1>2 DEF IInv, LocksDisjoint, BalanceNeverNegative, IdsDistinct, Available
<1> QED BY <1>3, <1>4, <1>5 DEF IInv

\* With nothing committed and every worker unchanged, time may only pass.
LEMMA TickInv ==
  ASSUME IInv, Tick \/ UNCHANGED vars, TypeOK'
  PROVE  IInv'
<1> USE DEF tables, request, answer, writes, environment
<1>1. /\ UNCHANGED <<quoteStatus, expiresAt, balances, ledger, trades, pc, req, reqId, code, returned,
                      began, existing, newStatus, newBalances, newLedger, newTrades, locked, received>>
      /\ now \in Nat /\ now' \in Nat /\ now <= now'
  BY BoundAssumption DEF Tick, vars, IInv, TypeOK
<1>2. ASSUME NEW w \in Workers PROVE LocalInv(w)'
  <2>0. LocalInv(w) /\ began \in [Workers -> Nat]
    BY DEF IInv, TypeOK
  <2>1. /\ HasQuote(w)' = HasQuote(w) /\ Crediting(w)' = Crediting(w) /\ Inserted(w)' = Inserted(w)
        /\ Debited(w)' = Debited(w) /\ Account(w)' = Account(w) /\ Delta(w)' = Delta(w)
        /\ NewTrade(w)' = NewTrade(w) /\ FindByIdempotencyKey(w)' = FindByIdempotencyKey(w)
    BY <1>1 DEF HasQuote, Crediting, Inserted, Debited, Account, Delta, NewTrade, FindByIdempotencyKey
  <2>2. ServesRequest(w)' /\ LocksReleased(w)' /\ QuoteSeen(w)'
    BY <1>1, <2>0 DEF LocalInv, ServesRequest, LocksReleased, QuoteSeen, QuoteVisible
  <2>3. BeganInPast(w)'
    BY <1>1, <2>0 DEF LocalInv, BeganInPast
  <2>4. QuoteHeld(w)' /\ KeyHeld(w)' /\ RowsWritten(w)'
    BY <1>1, <2>0, <2>1 DEF LocalInv, QuoteHeld, KeyHeld, RowsWritten
  <2>5. BalanceRead(w)' /\ BalancesWritten(w)'
    BY <1>1, <2>0, <2>1 DEF LocalInv, BalanceRead, RowRead, BalancesWritten, Wrote
  <2>6. IdFresh(w)'
    BY <1>1, <2>0 DEF LocalInv, IdFresh
  <2> QED BY <2>2, <2>3, <2>4, <2>5, <2>6 DEF LocalInv
<1>3. TradedQuotes' /\ AtMostOneTrade' /\ ExecutedIffTraded'
  BY <1>1 DEF IInv, TradedQuotes, AtMostOneTrade, ExecutedIffTraded
<1>4. LocksDisjoint' /\ BalanceNeverNegative' /\ IdsDistinct'
  BY <1>1 DEF IInv, LocksDisjoint, BalanceNeverNegative, IdsDistinct, Available
<1> QED BY <1>2, <1>3, <1>4 DEF IInv

\* A crash loses every open transaction and no committed row.
LEMMA CrashInv ==
  ASSUME IInv, Crash, TypeOK'
  PROVE  IInv'
<1>1. UNCHANGED <<quoteStatus, expiresAt, balances, ledger, trades, received>>
  BY DEF Crash, tables
<1>2. ASSUME NEW w \in Workers
      PROVE  /\ pc'[w] \in Resting /\ Clean(w)' /\ locked'[w] = {} /\ began'[w] = 0
  BY DEF Crash, Resting, Clean, NoWrites
<1>3. ASSUME NEW w \in Workers PROVE LocalInv(w)'
  <2>1. pc'[w] \in Resting /\ Clean(w)' /\ locked'[w] = {} /\ began'[w] = 0
    BY <1>2
  <2>2. (QuoteHeld(w) /\ KeyHeld(w) /\ RowsWritten(w) /\ BalanceRead(w) /\ BalancesWritten(w))'
    BY <2>1, CleanLocal DEF Unheld, Resting
  <2>3. BeganInPast(w)'
    <3>1. now' \in Nat
      BY BoundAssumption DEF TypeOK
    <3> QED BY <2>1, <3>1 DEF BeganInPast
  <2>4. ServesRequest(w)' /\ QuoteSeen(w)' /\ LocksReleased(w)' /\ IdFresh(w)'
    BY <2>1 DEF ServesRequest, QuoteSeen, LocksReleased, IdFresh, Resting
  <2> QED BY <2>2, <2>3, <2>4 DEF LocalInv
<1>4. TradedQuotes' /\ AtMostOneTrade' /\ ExecutedIffTraded'
  BY <1>1 DEF IInv, TradedQuotes, AtMostOneTrade, ExecutedIffTraded
<1>5. LocksDisjoint' /\ BalanceNeverNegative' /\ IdsDistinct'
  BY <1>1, <1>2 DEF IInv, LocksDisjoint, BalanceNeverNegative, IdsDistinct, Available
<1> QED BY <1>3, <1>4, <1>5 DEF IInv

LEMMA InitInv == Init => IInv
<1> SUFFICES ASSUME Init PROVE IInv
  OBVIOUS
<1>1. TypeOK
  BY InitTyped
<1>2. ASSUME NEW w \in Workers PROVE LocalInv(w)
  BY DEF Init, NoWrites, LocalInv, ServesRequest, QuoteSeen, LocksReleased, BeganInPast, QuoteHeld, HasQuote,
     Crediting, KeyHeld, Inserted, RowsWritten, BalanceRead, BalancesWritten, Debited, IdFresh, Resting
<1>3. LocksDisjoint /\ IdsDistinct /\ TradedQuotes /\ AtMostOneTrade /\ ExecutedIffTraded
  BY DEF Init, LocksDisjoint, IdsDistinct, TradedQuotes, AtMostOneTrade, ExecutedIffTraded, Resting,
     SeedEntries, DepositEntry
<1>4. BalanceNeverNegative
  BY OpeningAssumption DEF Init, BalanceNeverNegative, Available
<1> QED BY <1>1, <1>2, <1>3, <1>4 DEF IInv

LEMMA NextInv == IInv /\ [Next]_vars => IInv'
<1> SUFFICES ASSUME IInv, [Next]_vars PROVE IInv'
  OBVIOUS
<1>1. TypeOK'
  BY TypeStep DEF IInv, LocalInv, RequestOK
<1> QED
  BY <1>1, WorkerInv, CreateInv, TickInv, CrashInv DEF Next, WorkerStep, Finished

\* Every behaviour satisfies the invariant, for any number of concurrent requests.
THEOREM InductiveInvariant == Spec => []IInv
BY InitInv, NextInv, PTL DEF Spec

\* No client can spend more than it has.
THEOREM NeverOverspent == Spec => []BalanceNeverNegative
<1>1. IInv => BalanceNeverNegative
  BY DEF IInv
<1> QED BY <1>1, InductiveInvariant, PTL

\* A quote and an idempotency key buy at most one trade.
THEOREM TradedOnce == Spec => []AtMostOneTrade
<1>1. IInv => AtMostOneTrade
  BY DEF IInv
<1> QED BY <1>1, InductiveInvariant, PTL

\* A quote's status never denies its trade.
THEOREM StatusTellsTrade == Spec => []ExecutedIffTraded
<1>1. IInv => ExecutedIffTraded
  BY DEF IInv
<1> QED BY <1>1, InductiveInvariant, PTL

\* Every trade is dated before the expiry of its quote.
THEOREM TradedInTime == Spec => []NoLateTrade
<1>1. IInv => NoLateTrade
  BY DEF IInv, TradedQuotes, NoLateTrade
<1> QED BY <1>1, InductiveInvariant, PTL

\* The row lock alone keeps a second trade of a quote from being inserted.
THEOREM LockSuffices == Spec => []RowLockProtectsQuote
<1>1. IInv => RowLockProtectsQuote
  BY DEF IInv, LocalInv, QuoteHeld, HasQuote, RowLockProtectsQuote
<1> QED BY <1>1, InductiveInvariant, PTL
=============================================================================
