--------------------------- MODULE TradeExecution ---------------------------
(***************************************************************************)
(* The requests of Mini-OpenFX that write to Postgres, run concurrently:   *)
(*                                                                         *)
(*   POST /v1/trades       TradesService.executeTrade                      *)
(*   GET  /v1/quotes/:id   QuotesService.getQuote (lazy expiry)            *)
(*   POST /v1/deposits     DepositsService.createDeposit                   *)
(*   POST /v1/quotes       the INSERT at the end of createQuote            *)
(*                                                                         *)
(* A worker runs one request at a time; its program counter names the next *)
(* SQL statement it awaits, so requests interleave at every await.  The    *)
(* database is Postgres at READ COMMITTED: a statement sees committed rows *)
(* and its own transaction's writes, SELECT ... FOR UPDATE locks the row   *)
(* it returns until the transaction ends, an INSERT waits for another      *)
(* transaction that has inserted the same unique key, and a cycle of waits *)
(* is broken by aborting one of its transactions.                          *)
(***************************************************************************)
EXTENDS FxTables, FiniteSetsExt

CONSTANTS
    Workers,             \* requests in flight at the same time
    Requests,            \* the requests clients may send
    Lifetimes,           \* time a quote has left when its row is inserted
    PoolSize,            \* connections of the pool
    MaxMinor,            \* the largest value of a bigint column
    InstanceofAnswers,   \* what `error instanceof PostgresError` may answer
    NoRequest,           \* a worker that has had no request yet
    MaxRequests,         \* bound: requests received
    MaxTime,             \* bound: ticks of the clock
    MaxFaults            \* bound: connection losses and crashes

\* A UUID may be written in upper case, and then names the same row; canonical
\* says whether quote_id is spelled the way Postgres prints it.
TradeRequest == [kind : {"trade"}, client : Clients, quote : QuoteIds, canonical : BOOLEAN,
                 key : Keys]
QuoteRequest == [kind : {"getQuote"}, client : Clients, quote : QuoteIds]
DepositRequest == [kind : {"deposit"}, client : Clients, currency : Currencies, amount : Nat]

ASSUME RequestsAssumption ==
    /\ Requests \subseteq TradeRequest \cup QuoteRequest \cup DepositRequest
    /\ NoRequest \notin TradeRequest \cup QuoteRequest \cup DepositRequest
ASSUME LifetimesAssumption == Lifetimes \subseteq Int
ASSUME InstanceofAssumption == InstanceofAnswers \in SUBSET BOOLEAN \ {{}}
ASSUME ColumnAssumption == MaxMinor \in Nat
ASSUME BoundAssumption == /\ PoolSize \in Nat \ {0}
                          /\ MaxRequests \in Nat
                          /\ MaxTime \in Nat
                          /\ MaxFaults \in Nat

VARIABLES
    \* Committed rows
    quoteStatus,  \* quotes.status, "NONE" before the row is inserted
    expiresAt,    \* quotes.expires_at
    balances,     \* balances.available_minor by (client, currency), or NoRow
    ledger,       \* the rows of ledger_entries
    trades,       \* the rows of trades
    \* The request each worker runs
    pc,           \* the next statement of the worker
    req,          \* its request
    reqId,        \* the id its trade or deposit is given
    code,         \* the error thrown, then the answer's code
    returned,     \* the id of the trade in the answer, 0 when there is none
    \* The transaction each worker has open
    began,        \* time of BEGIN, which is what now() returns in it
    existing,     \* the balance row the last findForUpdate returned
    newStatus,    \* its uncommitted update of the quote's status, or NoRow
    newBalances,  \* its uncommitted balance rows, NoRow where it wrote none
    newLedger,    \* its uncommitted rows of ledger_entries
    newTrades,    \* its uncommitted rows of trades
    locked,       \* the rows and unique keys it has locked
    \* The environment
    now,          \* the clock
    received,     \* requests received so far
    faults        \* faults suffered so far

tables == <<quoteStatus, expiresAt, balances, ledger, trades>>
request == <<req, reqId>>
answer == <<code, returned>>
writes == <<newStatus, newBalances, newLedger, newTrades>>
environment == <<now, received, faults>>
vars == <<tables, pc, request, answer, began, existing, writes, locked, environment>>

\* What a transaction may lock.  The key of an uncommitted row is locked like a row.
QuoteLock(q) == <<"quote", q>>
BalanceLock(a) == <<"balance", a>>
KeyLock(c, k) == <<"key", <<c, k>>>>
Locks == {QuoteLock(q) : q \in QuoteIds} \cup {BalanceLock(a) : a \in Accounts}
            \cup {KeyLock(c, k) : c \in Clients, k \in Keys}

\* Names of unique indexes, as the driver's error reports them.
KeyUnique == "trades_client_idempotency_key_unique"
QuoteUnique == "trades_quote_id_unique"
BalanceUnique == "balances_client_currency_unique"
Violations == {KeyUnique, QuoteUnique, BalanceUnique}

Errors == {"NOT_FOUND", "QUOTE_ALREADY_EXECUTED", "QUOTE_EXPIRED", "INSUFFICIENT_FUNDS",
           "IDEMPOTENCY_CONFLICT", "INTERNAL_SERVER_ERROR"}

Resting == {"idle", "done"}
InTransaction == {"lockQuote", "lockPay", "insertTrade", "debit", "lockReceive", "credit",
                  "lockDeposit", "commit", "rollback"}
Steps == Resting \cup InTransaction
            \cup {"preCheck", "begin", "recheck", "readQuote", "checkExpiry", "expireQuote"}

NoWrites == [a \in Accounts |-> NoRow]

Init ==
    /\ quoteStatus = [q \in QuoteIds |-> "NONE"]
    /\ expiresAt = [q \in QuoteIds |-> 0]
    /\ balances = Opening
    /\ ledger = SeedEntries
    /\ trades = {}
    /\ pc = [w \in Workers |-> "idle"]
    /\ req = [w \in Workers |-> NoRequest]
    /\ reqId = [w \in Workers |-> 0]
    /\ code = [w \in Workers |-> "NONE"]
    /\ returned = [w \in Workers |-> 0]
    /\ began = [w \in Workers |-> 0]
    /\ existing = [w \in Workers |-> NoRow]
    /\ newStatus = [w \in Workers |-> NoRow]
    /\ newBalances = [w \in Workers |-> NoWrites]
    /\ newLedger = [w \in Workers |-> {}]
    /\ newTrades = [w \in Workers |-> {}]
    /\ locked = [w \in Workers |-> {}]
    /\ now = 0
    /\ received = 0
    /\ faults = 0

-----------------------------------------------------------------------------
(* Parts of the steps *)

Goto(w, step) == pc' = [pc EXCEPT ![w] = step]
At(w, step) == pc[w] = step

QuoteVisible(w) == /\ quoteStatus[req[w].quote] # "NONE"
                   /\ Quote[req[w].quote].clientId = req[w].client

\* The account whose balance the worker's next statement is about.
Account(w) ==
    IF req[w].kind = "deposit" THEN <<req[w].client, req[w].currency>>
    ELSE IF pc[w] \in {"lockPay", "debit"} THEN PayAccount(req[w].quote)
    ELSE ReceiveAccount(req[w].quote)

\* The signed amount the worker's applyDelta call adds to that account.
Delta(w) ==
    IF req[w].kind = "deposit" THEN req[w].amount
    ELSE IF At(w, "debit") THEN -PayAmount(req[w].quote)
    ELSE ReceiveAmount(req[w].quote)

\* Mutant of LocksQuote: the quote is read without FOR UPDATE.
LocksNoQuote(w) == FALSE

\* The lock the worker's next statement must be able to take, if it needs one.
\* A row that is not committed yet is not seen, and so not waited for, by a
\* SELECT ... FOR UPDATE; an INSERT of the same key does wait for it.
LocksQuote(w) == pc[w] \in {"lockQuote", "expireQuote"} /\ QuoteVisible(w)
LocksBalance(w) == pc[w] \in {"lockPay", "lockReceive", "lockDeposit"} /\ balances[Account(w)] # NoRow
InsertsBalance(w) ==
    pc[w] \in {"debit", "credit"} /\ existing[w] = NoRow /\ balances[Account(w)] = NoRow
InsertsKey(w) == At(w, "insertTrade")

Wants(w) ==
    IF LocksQuote(w) THEN {QuoteLock(req[w].quote)}
    ELSE IF LocksBalance(w) \/ InsertsBalance(w) THEN {BalanceLock(Account(w))}
    ELSE IF InsertsKey(w) THEN {KeyLock(req[w].client, req[w].key)}
    ELSE {}

WaitsFor(w) == {v \in Workers \ {w} : Wants(w) \cap locked[v] # {}}
Blocked(w) == WaitsFor(w) # {}
TakeLock(w) == locked' = [locked EXCEPT ![w] = @ \cup Wants(w)]

\* A connection is held from BEGIN to the end of the transaction, and while a
\* statement of its own waits for a lock.
Connected == {w \in Workers : pc[w] \in InTransaction \cup {"expireQuote"}}
FreeConnection == Cardinality(Connected) < PoolSize

\* An error thrown inside db.transaction() rolls the transaction back first.
Throw(w, error) ==
    /\ Goto(w, "rollback")
    /\ code' = [code EXCEPT ![w] = error]

\* The transaction is over and its locks are released.
EndTransaction(w) ==
    /\ began' = [began EXCEPT ![w] = 0]
    /\ existing' = [existing EXCEPT ![w] = NoRow]
    /\ newStatus' = [newStatus EXCEPT ![w] = NoRow]
    /\ newBalances' = [newBalances EXCEPT ![w] = NoWrites]
    /\ newLedger' = [newLedger EXCEPT ![w] = {}]
    /\ newTrades' = [newTrades EXCEPT ![w] = {}]
    /\ locked' = [locked EXCEPT ![w] = {}]

\* An error raised by Postgres ends the transaction there and then.
Abort(w, error) == Throw(w, error) /\ EndTransaction(w)

Answer(w, c) ==
    /\ Goto(w, "done")
    /\ code' = [code EXCEPT ![w] = c]

AnswerTrade(w, id) ==
    /\ Answer(w, "OK")
    /\ returned' = [returned EXCEPT ![w] = id]

FindByIdempotencyKey(w) ==
    {t \in trades : t.clientId = req[w].client /\ t.idempotencyKey = req[w].key}

\* Mutant of Replay: any trade of the key is returned.
ReplayAnyQuote(w, t) == AnswerTrade(w, t.id)

\* The stored trade of a key is the answer, if it is a trade of the same quote.
\* The ids are compared as strings: the column is in Postgres's spelling, the
\* request in the client's.
Replay(w, t) ==
    IF t.quoteId = req[w].quote /\ req[w].canonical
    THEN AnswerTrade(w, t.id)
    ELSE Answer(w, "IDEMPOTENCY_CONFLICT") /\ UNCHANGED returned

-----------------------------------------------------------------------------
(* The environment: time, requests, new quotes *)

Tick ==
    /\ now < MaxTime
    /\ now' = now + 1
    /\ UNCHANGED <<tables, pc, request, answer, began, existing, writes, locked,
                   received, faults>>

\* The row is inserted some time after expiresAt was computed, so it may have
\* little of its lifetime left, or none.
CreateQuote(q) ==
    /\ quoteStatus[q] = "NONE"
    /\ quoteStatus' = [quoteStatus EXCEPT ![q] = "ACTIVE"]
    /\ \E left \in Lifetimes : expiresAt' = [expiresAt EXCEPT ![q] = now + left]
    /\ UNCHANGED <<balances, ledger, trades, pc, request, answer, began, existing, writes,
                   locked, environment>>

FirstStep(r) ==
    IF r.kind = "trade" THEN "preCheck"
    ELSE IF r.kind = "getQuote" THEN "readQuote"
    ELSE "begin"

Receive(w, r) ==
    /\ pc[w] \in Resting
    /\ received < MaxRequests
    /\ received' = received + 1
    /\ Goto(w, FirstStep(r))
    /\ req' = [req EXCEPT ![w] = r]
    /\ reqId' = [reqId EXCEPT ![w] = received + 1]
    /\ code' = [code EXCEPT ![w] = "NONE"]
    /\ returned' = [returned EXCEPT ![w] = 0]
    /\ UNCHANGED <<tables, began, existing, writes, locked, now, faults>>

-----------------------------------------------------------------------------
(* POST /v1/trades *)

PreCheck(w) ==
    /\ At(w, "preCheck")
    /\ FreeConnection
    /\ IF FindByIdempotencyKey(w) = {}
       THEN Goto(w, "begin") /\ UNCHANGED answer
       ELSE Replay(w, CHOOSE t \in FindByIdempotencyKey(w) : TRUE)
    /\ UNCHANGED <<tables, request, began, existing, writes, locked, environment>>

\* BEGIN, for a trade or a deposit.
Begin(w) ==
    /\ At(w, "begin")
    /\ FreeConnection
    /\ Goto(w, IF req[w].kind = "trade" THEN "lockQuote" ELSE "lockDeposit")
    /\ began' = [began EXCEPT ![w] = now]
    /\ UNCHANGED <<tables, request, answer, existing, writes, locked, environment>>

\* Mutant of Expired: a quote is still good at the instant it expires.
ExpiredLate(q) == quoteStatus[q] = "EXPIRED" \/ expiresAt[q] < now

Expired(q) == quoteStatus[q] = "EXPIRED" \/ expiresAt[q] <= now

\* findByIdForClientForUpdate and the checks of the row it returns.
LockQuote(w) ==
    LET q == req[w].quote IN
    /\ At(w, "lockQuote")
    /\ ~Blocked(w)
    /\ TakeLock(w)
    /\ IF ~QuoteVisible(w) THEN
            Throw(w, "NOT_FOUND") /\ UNCHANGED newStatus
       ELSE IF quoteStatus[q] = "EXECUTED" THEN
            Throw(w, "QUOTE_ALREADY_EXECUTED") /\ UNCHANGED newStatus
       ELSE IF Expired(q) THEN
            /\ Throw(w, "QUOTE_EXPIRED")
            /\ newStatus' = [newStatus EXCEPT
                   ![w] = IF quoteStatus[q] # "EXPIRED" THEN "EXPIRED" ELSE @]
       ELSE Goto(w, "lockPay") /\ UNCHANGED <<code, newStatus>>
    /\ UNCHANGED <<tables, request, returned, began, existing, newBalances, newLedger,
                   newTrades, environment>>

\* Mutant of FindForUpdate: a plain read.
FindUnlocked(w) ==
    /\ existing' = [existing EXCEPT ![w] = balances[Account(w)]]
    /\ UNCHANGED locked

FindForUpdate(w) ==
    /\ ~Blocked(w)
    /\ TakeLock(w)
    /\ existing' = [existing EXCEPT ![w] = balances[Account(w)]]

\* Mutant of LockPay: the base amount is checked whichever side the quote has.
LockPayBaseAmount(w) ==
    /\ At(w, "lockPay")
    /\ FindForUpdate(w)
    /\ IF Available(balances[Account(w)]) < Quote[req[w].quote].baseAmountMinor
       THEN Throw(w, "INSUFFICIENT_FUNDS")
       ELSE Goto(w, "insertTrade") /\ UNCHANGED code
    /\ UNCHANGED <<tables, request, returned, began, writes, environment>>

LockPay(w) ==
    /\ At(w, "lockPay")
    /\ FindForUpdate(w)
    /\ IF Available(balances[Account(w)]) < PayAmount(req[w].quote)
       THEN Throw(w, "INSUFFICIENT_FUNDS")
       ELSE Goto(w, "insertTrade") /\ UNCHANGED code
    /\ UNCHANGED <<tables, request, returned, began, writes, environment>>

\* Mutant of InsertTrade: trades_client_idempotency_key_unique is missing.
InsertTradeNoKeyIndex(w) ==
    /\ At(w, "insertTrade")
    /\ \A t \in trades : t.quoteId # req[w].quote
    /\ UNCHANGED locked
    /\ newTrades' = [newTrades EXCEPT ![w] =
           {[id |-> reqId[w], clientId |-> req[w].client, quoteId |-> req[w].quote,
             idempotencyKey |-> req[w].key, createdAt |-> began[w]]}]
    /\ newLedger' = [newLedger EXCEPT ![w] = TradeEntries(reqId[w], req[w].quote)]
    /\ Goto(w, "debit")
    /\ UNCHANGED <<tables, request, answer, began, existing, newStatus, newBalances,
                   environment>>

\* The INSERT into trades, then the two ledger entries.
InsertTrade(w) ==
    /\ At(w, "insertTrade")
    /\ ~Blocked(w)
    /\ FindByIdempotencyKey(w) = {}
    /\ \A t \in trades : t.quoteId # req[w].quote
    /\ TakeLock(w)
    /\ newTrades' = [newTrades EXCEPT ![w] =
           {[id |-> reqId[w], clientId |-> req[w].client, quoteId |-> req[w].quote,
             idempotencyKey |-> req[w].key, createdAt |-> began[w]]}]
    /\ newLedger' = [newLedger EXCEPT ![w] = TradeEntries(reqId[w], req[w].quote)]
    /\ Goto(w, "debit")
    /\ UNCHANGED <<tables, request, answer, began, existing, newStatus, newBalances,
                   environment>>

\* The INSERT meets a committed trade; trades_quote_id_unique is checked first.
InsertTradeFails(w) ==
    /\ At(w, "insertTrade")
    /\ ~Blocked(w)
    /\ \E t \in trades : t.quoteId = req[w].quote \/ t \in FindByIdempotencyKey(w)
    /\ Abort(w, IF \E t \in trades : t.quoteId = req[w].quote THEN QuoteUnique ELSE KeyUnique)
    /\ UNCHANGED <<tables, request, returned, environment>>

\* Mutant of ApplyDelta: an upsert that sets the balance to the delta.
ApplyDeltaUpsert(w, next) ==
    /\ ~Blocked(w)
    /\ TakeLock(w)
    /\ newBalances' = [newBalances EXCEPT ![w][Account(w)] = Available(existing[w]) + Delta(w)]
    /\ Goto(w, next)
    /\ UNCHANGED <<tables, request, answer, began, existing, newLedger, newTrades, environment>>

\* The new balance is more than the column holds.
Overflows(w) == Available(existing[w]) + Delta(w) > MaxMinor

\* applyDelta: the new balance is computed from the row read under lock, or a
\* first row is inserted.
ApplyDelta(w, next) ==
    /\ ~Blocked(w)
    /\ ~Overflows(w)
    /\ existing[w] # NoRow \/ balances[Account(w)] = NoRow
    /\ TakeLock(w)
    /\ newBalances' = [newBalances EXCEPT ![w][Account(w)] = Available(existing[w]) + Delta(w)]
    /\ Goto(w, next)
    /\ UNCHANGED <<tables, request, answer, began, existing, newLedger, newTrades, environment>>

Debit(w) ==
    /\ At(w, "debit")
    /\ ApplyDelta(w, "lockReceive")
    /\ UNCHANGED newStatus

LockReceive(w) ==
    /\ At(w, "lockReceive")
    /\ FindForUpdate(w)
    /\ Goto(w, "credit")
    /\ UNCHANGED <<tables, request, answer, began, writes, environment>>

\* Mutant of Credit: the quote is not marked executed.
CreditOnly(w) ==
    /\ At(w, "credit")
    /\ ApplyDelta(w, "commit")
    /\ UNCHANGED newStatus

\* The credit of a deposit or of a trade; a trade then marks its quote executed.
Credit(w) ==
    /\ At(w, "credit")
    /\ ApplyDelta(w, "commit")
    /\ newStatus' = IF req[w].kind = "trade"
                    THEN [newStatus EXCEPT ![w] = "EXECUTED"] ELSE newStatus

\* The balance is out of range; or no row was found to update, and somebody has
\* committed one since.
ApplyDeltaFails(w) ==
    /\ pc[w] \in {"debit", "credit"}
    /\ \/ Overflows(w) /\ Abort(w, "INTERNAL_SERVER_ERROR")
       \/ /\ ~Overflows(w)
          /\ existing[w] = NoRow
          /\ balances[Account(w)] # NoRow
          /\ Abort(w, BalanceUnique)
    /\ UNCHANGED <<tables, request, returned, environment>>

\* COMMIT makes every write of the transaction visible at once.  When its
\* acknowledgement is lost the request fails although the transaction took place.
Commit(w) ==
    /\ At(w, "commit")
    /\ quoteStatus' = IF newStatus[w] = NoRow THEN quoteStatus
                      ELSE [quoteStatus EXCEPT ![req[w].quote] = newStatus[w]]
    /\ balances' = [a \in Accounts |-> IF newBalances[w][a] = NoRow
                                       THEN balances[a] ELSE newBalances[w][a]]
    /\ ledger' = ledger \cup newLedger[w]
    /\ trades' = trades \cup newTrades[w]
    /\ EndTransaction(w)
    /\ \/ /\ IF req[w].kind = "trade"
             THEN AnswerTrade(w, reqId[w])
             ELSE Answer(w, "OK") /\ UNCHANGED returned
          /\ UNCHANGED faults
       \/ /\ faults < MaxFaults
          /\ faults' = faults + 1
          /\ Answer(w, "INTERNAL_SERVER_ERROR")
          /\ UNCHANGED returned
    /\ UNCHANGED <<expiresAt, request, now, received>>

\* The driver reports a unique violation as a PostgresError, but drizzle-orm wraps
\* what a statement throws in an error of its own since 0.44, and package-lock.json
\* pins 0.45.2: there the test of the class fails, whatever the constraint.
IsUniqueViolation(w, isPostgresError, constraint) == isPostgresError /\ code[w] = constraint

\* Mutant of Rollback: the constraint's name is the answer's code.
RollbackLeaksConstraint(w) ==
    /\ At(w, "rollback")
    /\ EndTransaction(w)
    /\ Answer(w, code[w])
    /\ UNCHANGED <<tables, request, returned, environment>>

\* Mutant of Rollback: no constraint is named, so that every unique violation is
\* taken for that of the quote.
RollbackNamesNoConstraint(w) ==
    /\ At(w, "rollback")
    /\ EndTransaction(w)
    /\ \E isPostgresError \in InstanceofAnswers :
           IF code[w] \notin Violations THEN Answer(w, code[w])
           ELSE Answer(w, IF isPostgresError THEN "QUOTE_ALREADY_EXECUTED"
                          ELSE "INTERNAL_SERVER_ERROR")
    /\ UNCHANGED <<tables, request, returned, environment>>

\* Mutant of Rollback: the transaction is tried again whatever went wrong.
RollbackRetries(w) ==
    /\ At(w, "rollback")
    /\ EndTransaction(w)
    /\ Goto(w, "begin")
    /\ UNCHANGED <<tables, request, answer, environment>>

\* ROLLBACK, and the catch block of executeTrade.
Rollback(w) ==
    /\ At(w, "rollback")
    /\ EndTransaction(w)
    /\ \E isPostgresError \in InstanceofAnswers :
           IF IsUniqueViolation(w, isPostgresError, KeyUnique)
           THEN Goto(w, "recheck") /\ UNCHANGED code
           ELSE IF IsUniqueViolation(w, isPostgresError, QuoteUnique)
           THEN Answer(w, "QUOTE_ALREADY_EXECUTED")
           ELSE Answer(w, IF code[w] \in Violations THEN "INTERNAL_SERVER_ERROR" ELSE code[w])
    /\ UNCHANGED <<tables, request, returned, environment>>

\* The winner of an idempotency-key race is looked up after the rollback, if the
\* error was recognised.
Recheck(w) ==
    /\ At(w, "recheck")
    /\ FreeConnection
    /\ IF FindByIdempotencyKey(w) = {}
       THEN Answer(w, "INTERNAL_SERVER_ERROR") /\ UNCHANGED returned
       ELSE Replay(w, CHOOSE t \in FindByIdempotencyKey(w) : TRUE)
    /\ UNCHANGED <<tables, request, began, existing, writes, locked, environment>>

-----------------------------------------------------------------------------
(* GET /v1/quotes/:id *)

\* The row is read without a lock.
ReadQuote(w) ==
    /\ At(w, "readQuote")
    /\ FreeConnection
    /\ IF ~QuoteVisible(w) THEN Answer(w, "NOT_FOUND")
       ELSE IF quoteStatus[req[w].quote] = "ACTIVE" THEN Goto(w, "checkExpiry") /\ UNCHANGED code
       ELSE Answer(w, "OK")
    /\ UNCHANGED <<tables, request, returned, began, existing, writes, locked, environment>>

CheckExpiry(w) ==
    /\ At(w, "checkExpiry")
    /\ IF expiresAt[req[w].quote] <= now
       THEN FreeConnection /\ Goto(w, "expireQuote") /\ UNCHANGED code
       ELSE Answer(w, "OK")
    /\ UNCHANGED <<tables, request, returned, began, existing, writes, locked, environment>>

\* markExpired outside a transaction: the UPDATE selects the row by id alone,
\* whatever its status has become since it was read.
ExpireQuote(w) ==
    /\ At(w, "expireQuote")
    /\ ~Blocked(w)
    /\ quoteStatus' = [quoteStatus EXCEPT ![req[w].quote] = "EXPIRED"]
    /\ Answer(w, "OK")
    /\ UNCHANGED <<expiresAt, balances, ledger, trades, request, returned, began, existing,
                   writes, locked, environment>>

-----------------------------------------------------------------------------
(* POST /v1/deposits *)

\* Mutant of LockDeposit: no ledger entry is inserted.
LockDepositNoEntry(w) ==
    /\ At(w, "lockDeposit")
    /\ FindForUpdate(w)
    /\ Goto(w, "credit")
    /\ UNCHANGED <<tables, request, answer, began, writes, environment>>

\* The balance row is locked, then the ledger entry is inserted; Credit follows.
LockDeposit(w) ==
    /\ At(w, "lockDeposit")
    /\ FindForUpdate(w)
    /\ newLedger' = [newLedger EXCEPT ![w] = {DepositEntry(reqId[w], Account(w), Delta(w))}]
    /\ Goto(w, "credit")
    /\ UNCHANGED <<tables, request, answer, began, newStatus, newBalances, newTrades,
                   environment>>

-----------------------------------------------------------------------------
(* Deadlocks and faults *)

OnWaitCycle(w) ==
    \E S \in SUBSET Workers :
        /\ w \in S
        /\ \A v \in S : Blocked(v)
        /\ UNION {WaitsFor(v) : v \in S} = S

\* Postgres aborts one transaction of a cycle of waits (error 40P01).
DeadlockVictim(w) ==
    /\ OnWaitCycle(w)
    /\ Abort(w, "INTERNAL_SERVER_ERROR")
    /\ UNCHANGED <<tables, request, returned, environment>>

\* The connection fails before the next statement has taken effect.
ConnectionLost(w) ==
    /\ pc[w] \notin Resting \cup {"checkExpiry"}
    /\ faults < MaxFaults
    /\ faults' = faults + 1
    /\ EndTransaction(w)
    /\ Answer(w, "INTERNAL_SERVER_ERROR")
    /\ UNCHANGED <<tables, request, returned, now, received>>

\* The service dies and is restarted: what was in flight is never answered.
Crash ==
    /\ faults < MaxFaults
    /\ faults' = faults + 1
    /\ \E w \in Workers : pc[w] \notin Resting
    /\ pc' = [w \in Workers |-> IF pc[w] = "done" THEN "done" ELSE "idle"]
    /\ code' = [w \in Workers |-> IF pc[w] = "done" THEN code[w] ELSE "NONE"]
    /\ began' = [w \in Workers |-> 0]
    /\ existing' = [w \in Workers |-> NoRow]
    /\ newStatus' = [w \in Workers |-> NoRow]
    /\ newBalances' = [w \in Workers |-> NoWrites]
    /\ newLedger' = [w \in Workers |-> {}]
    /\ newTrades' = [w \in Workers |-> {}]
    /\ locked' = [w \in Workers |-> {}]
    /\ UNCHANGED <<tables, request, returned, now, received>>

-----------------------------------------------------------------------------
\* What a worker does by itself, once it has a request.
Step(w) ==
    \/ PreCheck(w) \/ Begin(w)
    \/ LockQuote(w) \/ LockPay(w) \/ InsertTrade(w) \/ InsertTradeFails(w)
    \/ Debit(w) \/ LockReceive(w) \/ Credit(w) \/ ApplyDeltaFails(w)
    \/ Commit(w) \/ Rollback(w) \/ Recheck(w)
    \/ ReadQuote(w) \/ CheckExpiry(w) \/ ExpireQuote(w)
    \/ LockDeposit(w)
    \/ DeadlockVictim(w)

\* Nothing more is asked and nobody waits: the only state the system may rest in.
Finished ==
    /\ received = MaxRequests
    /\ \A w \in Workers : pc[w] \in Resting
    /\ UNCHANGED vars

Next ==
    \/ Tick
    \/ \E q \in QuoteIds : CreateQuote(q)
    \/ \E w \in Workers : Step(w) \/ ConnectionLost(w) \/ \E r \in Requests : Receive(w, r)
    \/ Crash
    \/ Finished

Spec == Init /\ [][Next]_vars

\* The event loop and Postgres run whatever is runnable; clients, the clock and
\* faults owe nothing.
FairSpec == Spec /\ \A w \in Workers : WF_vars(Step(w))
-----------------------------------------------------------------------------
(* Properties *)

\* Every variable has its type; an answer carries one of the API's own codes,
\* never the name of a database constraint.
TypeOK ==
    /\ quoteStatus \in [QuoteIds -> QuoteStatus]
    /\ expiresAt \in [QuoteIds -> Int]
    /\ balances \in [Accounts -> BalanceRow]
    /\ ledger \subseteq LedgerEntry
    /\ trades \subseteq Trade
    /\ pc \in [Workers -> Steps]
    /\ req \in [Workers -> Requests \cup {NoRequest}]
    /\ reqId \in [Workers -> Nat]
    /\ code \in [Workers -> {"NONE", "OK"} \cup Errors \cup Violations]
    /\ \A w \in Workers : pc[w] = "done" => code[w] \in {"OK"} \cup Errors
    /\ returned \in [Workers -> Nat]
    /\ began \in [Workers -> Nat]
    /\ existing \in [Workers -> BalanceRow]
    /\ newStatus \in [Workers -> QuoteStatus \cup {NoRow}]
    /\ newBalances \in [Workers -> [Accounts -> BalanceRow]]
    /\ newLedger \in [Workers -> SUBSET LedgerEntry]
    /\ newTrades \in [Workers -> SUBSET Trade]
    /\ locked \in [Workers -> SUBSET Locks]
    /\ now \in 0..MaxTime
    /\ received \in 0..MaxRequests
    /\ faults \in 0..MaxFaults

\* No client can spend more than it has, however its trades and deposits
\* interleave: the check of the pay balance still holds when the trade commits.
BalanceNeverNegative == \A a \in Accounts : Available(balances[a]) >= 0

LedgerTotal(a) == MapThenSumSet(LAMBDA e : e.deltaMinor, {e \in ledger : e.account = a})

\* The balances table never drifts from the ledger it is derived from
\* (db/schema/balances.ts): no update is lost, and none is made twice.
LedgerBacksBalances == \A a \in Accounts : Available(balances[a]) = LedgerTotal(a)

\* A trade has exactly two ledger entries, which move its base and quote amounts
\* in opposite directions as its side says, and every trade entry belongs to a
\* stored trade.
TradeHasBothLegs ==
    /\ \A t \in trades :
          LET legs == {e \in ledger : e.refId = t.id}
              terms == Quote[t.quoteId]
              sign == IF terms.side = "BUY" THEN 1 ELSE -1
              Moves(currency, delta) == \E e \in legs : /\ e.account = <<t.clientId, currency>>
                                                        /\ e.deltaMinor = delta
          IN  /\ Cardinality(legs) = 2
              /\ Moves(terms.baseCurrency, sign * terms.baseAmountMinor)
              /\ Moves(terms.quoteCurrency, -sign * terms.quoteAmountMinor)
    /\ \A e \in ledger : e.reason = "TRADE" => \E t \in trades : t.id = e.refId

\* A quote is executed at most once, and a client's idempotency key buys at most
\* one trade, under retries, races, crashes and lost acknowledgements.
AtMostOneTrade ==
    \A s, t \in trades :
        (s.quoteId = t.quoteId
            \/ <<s.clientId, s.idempotencyKey>> = <<t.clientId, t.idempotencyKey>>) => s = t

\* A quote marked executed has its trade, and a quote with a trade is never
\* active again.
ExecutedIffTraded ==
    \A q \in QuoteIds :
        LET traded == \E t \in trades : t.quoteId = q IN
        /\ quoteStatus[q] = "EXECUTED" => traded
        /\ traded => quoteStatus[q] \in {"EXECUTED", "EXPIRED"}

\* The timestamp of a trade is before the expiry of its quote, although its
\* transaction may wait for locks and commit long after it.
NoLateTrade == \A t \in trades : t.createdAt < expiresAt[t.quoteId]

\* Every successful answer names a stored trade of that client, key and quote:
\* nothing is acknowledged before it is durable, and a replay never shows
\* somebody else's trade.
AnswersMatchTrades ==
    \A w \in Workers :
        (pc[w] = "done" /\ code[w] = "OK" /\ req[w].kind = "trade") =>
            \E t \in trades : /\ t.id = returned[w]
                              /\ t.clientId = req[w].client
                              /\ t.quoteId = req[w].quote
                              /\ t.idempotencyKey = req[w].key

\* A refusal is true: a quote said to be executed has its trade, and the key of a
\* conflict bought another quote - or bought this one, and the request spells its
\* id in another way than Postgres does.
RefusalIsTruthful ==
    \A w \in Workers : pc[w] = "done" =>
        /\ code[w] = "IDEMPOTENCY_CONFLICT" =>
              \E t \in FindByIdempotencyKey(w) : t.quoteId # req[w].quote \/ ~req[w].canonical
        /\ code[w] = "QUOTE_ALREADY_EXECUTED" => \E t \in trades : t.quoteId = req[w].quote

\* UNIQUE(quote_id) is defense in depth: the lock on the quote row alone keeps a
\* second trade of the quote from reaching the INSERT (trades.service.ts).
RowLockProtectsQuote ==
    \A w \in Workers : pc[w] = "insertTrade" => \A t \in trades : t.quoteId # req[w].quote

\* One step changes a balance exactly by the one ledger entry it adds for that
\* account: money moves in the transaction that justifies it, or not at all.
JustifiedMove ==
    \A a \in Accounts :
        LET added == {e \in ledger' \ ledger : e.account = a} IN
        \/ added = {} /\ balances'[a] = balances[a]
        \/ \E e \in added : /\ added = {e}
                            /\ Available(balances'[a]) = Available(balances[a]) + e.deltaMinor
LedgerJustifiesMove == [][JustifiedMove]_vars

\* A trade appears only for a quote that is active until that very step and
\* executed after it; an expired quote stays expired.
LiveQuoteTrade ==
    /\ \A t \in trades' \ trades : /\ quoteStatus[t.quoteId] = "ACTIVE"
                                  /\ quoteStatus'[t.quoteId] = "EXECUTED"
    /\ \A q \in QuoteIds : quoteStatus[q] = "EXPIRED" => quoteStatus'[q] = "EXPIRED"
OnlyLiveQuotesTrade == [][LiveQuoteTrade]_vars

\* Every request is answered, or dies with the process: waits for locks and
\* connections end, and deadlocks are broken.
EveryRequestEnds == \A w \in Workers : pc[w] \notin Resting ~> pc[w] \in Resting

Exchange == INSTANCE AtomicExchange WITH
    Ids <- 1..MaxRequests,
    Times <- 0..MaxTime,
    DepositAmounts <- {r.amount : r \in {s \in Requests : s.kind = "deposit"}}

\* Seen from the tables, every execution is one of AtomicExchange: trades and
\* deposits are atomic.
AtomicTrading == Exchange!Spec

\* README, "executeTrade": an expired quote is refused, "lazily marking it
\* EXPIRED on the way out".
RefusalMarksExpired ==
    \A w \in Workers :
        (pc[w] = "done" /\ code[w] = "QUOTE_EXPIRED") => quoteStatus[req[w].quote] = "EXPIRED"

\* quotes.service.ts, getQuote: lazy expiry corrects the stored status "so the DB
\* stops lying about it": what is stored for a quote that has a trade is EXECUTED.
TradedQuoteReadsExecuted == \A t \in trades : quoteStatus[t.quoteId] = "EXECUTED"

\* README, concurrency: of two concurrent requests with one idempotency key one
\* executes, and the other is answered with the winner's trade.
LoserIsReplayed ==
    \A w \in Workers :
        (pc[w] = "done" /\ code[w] = "QUOTE_ALREADY_EXECUTED") =>
            ~\E t \in FindByIdempotencyKey(w) : t.quoteId = req[w].quote

\* README, concurrency: the INSERT that hits one of the two constraints is "caught
\* and turned into 'return the winner's trade' rather than a 500".  Speaks of the
\* step that answers a request whose INSERT was refused, unless a fault ends it.
LostRaceIsNoError ==
    [][\A w \in Workers :
         (pc[w] \in {"rollback", "recheck"} /\ code[w] \in {KeyUnique, QuoteUnique}
             /\ faults' = faults) => code'[w] # "INTERNAL_SERVER_ERROR"]_vars
=============================================================================
