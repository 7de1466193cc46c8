------------------------- MODULE TradeAnswers_proofs --------------------------
(***************************************************************************)
(* What the answers of TradeExecution say is so, every stored trade has    *)
(* its two ledger entries, neither more nor less, and the entries of an    *)
(* account add up to its balance.                                          *)
(*                                                                         *)
(* An error is founded when it is thrown (ErrorFounded), rows are never    *)
(* deleted, and so it is still founded when the rollback makes an answer   *)
(* of it (AnswerFounded).  The sum of a set of entries is what one         *)
(* function on its subsets says (SumUnique, SumExists), and grows by the   *)
(* amount of each entry that is added.                                     *)
(***************************************************************************)
EXTENDS TradeRefinement_proofs, FiniteSetTheorems, WellFoundedInduction

USE DEF At, Goto, QuoteLock, BalanceLock, KeyLock

Founded(w) == ErrorFounded(w) /\ AnswerFounded(w)

\* A statement that neither fails nor answers makes no claim.
LEMMA NoClaim ==
  ASSUME NEW w \in Workers, pc'[w] \notin {"rollback", "recheck", "done"}
  PROVE  Founded(w)'
BY DEF Founded, ErrorFounded, AnswerFounded

\* Nor does an error of the database itself, or the answer to another kind of request.
LEMMA PlainError ==
  ASSUME NEW w \in Workers, pc'[w] \in {"rollback", "done"},
         code'[w] \in {"INTERNAL_SERVER_ERROR", "NOT_FOUND", "QUOTE_EXPIRED", "INSUFFICIENT_FUNDS",
                       BalanceUnique}
  PROVE  Founded(w)'
BY DEF Founded, ErrorFounded, AnswerFounded, QuoteUnique, KeyUnique, BalanceUnique

\* What was founded stays so while its worker does nothing.
LEMMA FoundedFrame ==
  ASSUME NEW v \in Workers, Founded(v), trades \subseteq trades',
         pc'[v] = pc[v], req'[v] = req[v], code'[v] = code[v], returned'[v] = returned[v]
  PROVE  Founded(v)'
<1>1. FindByIdempotencyKey(v) \subseteq FindByIdempotencyKey(v)'
  BY DEF FindByIdempotencyKey
<1>2. (QuoteTraded(v) => QuoteTraded(v)') /\ (KeyTraded(v) => KeyTraded(v)')
  BY <1>1 DEF QuoteTraded, KeyTraded
<1> QED BY <1>1, <1>2 DEF Founded, ErrorFounded, AnswerFounded

\* The step of a worker leaves every other worker's answer alone.
LEMMA ReturnedFrame ==
  ASSUME TypeOK, NEW w \in Workers, NEW v \in Workers, v # w, WorkerStep(w)
  PROVE  returned'[v] = returned[v]
<1> USE DEF answer, TypeOK
<1>1. CASE PreCheck(w) \/ Recheck(w)
  BY <1>1 DEF PreCheck, Recheck, Replay, Answer, AnswerTrade
<1>2. CASE Commit(w)
  BY <1>2 DEF Commit, Answer, AnswerTrade
<1>3. ASSUME NEW r \in Requests, Receive(w, r) PROVE returned'[v] = returned[v]
  BY <1>3 DEF Receive
<1>4. CASE UNCHANGED returned
  BY <1>4
<1> QED
  BY <1>1, <1>2, <1>3, <1>4 DEF WorkerStep, Step, Begin, LockQuote, LockPay, InsertTrade,
     InsertTradeFails, Debit, LockReceive, Credit, ApplyDelta, ApplyDeltaFails, Rollback, ReadQuote,
     CheckExpiry, ExpireQuote, LockDeposit, DeadlockVictim, ConnectionLost

\* A replayed trade is one of the request's own key, and of its quote.
LEMMA ReplayFounded ==
  ASSUME TypeOK, NEW w \in Workers, KeyTraded(w), req' = req, trades' = trades,
         Replay(w, CHOOSE t \in FindByIdempotencyKey(w) : TRUE)
  PROVE  Founded(w)'
<1> DEFINE t == CHOOSE s \in FindByIdempotencyKey(w) : TRUE
<1>1. t \in FindByIdempotencyKey(w)
  BY DEF KeyTraded
<1>2. FindByIdempotencyKey(w)' = FindByIdempotencyKey(w)
  BY DEF FindByIdempotencyKey
<1>3. /\ pc \in [Workers -> Steps] /\ DOMAIN code = Workers /\ DOMAIN returned = Workers
  BY DEF TypeOK
<1> HIDE DEF t
<1>4. CASE t.quoteId = req[w].quote /\ req[w].canonical
  <2>1. pc'[w] = "done" /\ code'[w] = "OK" /\ returned'[w] = t.id
    BY <1>3, <1>4 DEF Replay, AnswerTrade, Answer, t
  <2> QED BY <1>1, <1>2, <1>4, <2>1 DEF Founded, ErrorFounded, AnswerFounded
<1>5. CASE ~(t.quoteId = req[w].quote /\ req[w].canonical)
  <2>1. pc'[w] = "done" /\ code'[w] = "IDEMPOTENCY_CONFLICT"
    BY <1>3, <1>5 DEF Replay, Answer, t
  <2> QED BY <1>1, <1>2, <1>5, <2>1 DEF Founded, ErrorFounded, AnswerFounded
<1> QED BY <1>4, <1>5

\* No step takes a trade away.
LEMMA TradesStay == [Next]_vars => trades \subseteq trades'
<1>1. ASSUME NEW w \in Workers, Commit(w) PROVE trades \subseteq trades'
  BY <1>1 DEF Commit
<1> QED BY <1>1, OnlyCommitMoves

\* A rollback turns an error into an answer, or a lost race into a second look.
LEMMA RollbackFounded ==
  ASSUME IInv, NEW w \in Workers, ErrorFounded(w), Rollback(w)
  PROVE  Founded(w)'
<1> USE DEF tables, request
<1>1. /\ pc[w] = "rollback" /\ UNCHANGED <<req, trades>>
      /\ code[w] \in Errors \cup Violations
  BY DEF Rollback, IInv, LocalInv, ServesRequest
<1>2. QuoteTraded(w)' = QuoteTraded(w) /\ KeyTraded(w)' = KeyTraded(w)
      /\ FindByIdempotencyKey(w)' = FindByIdempotencyKey(w)
  BY <1>1 DEF QuoteTraded, KeyTraded, FindByIdempotencyKey
<1>3. pc \in [Workers -> Steps] /\ DOMAIN code = Workers
  BY DEF IInv, TypeOK
<1>4. CASE pc' = [pc EXCEPT ![w] = "recheck"] /\ code[w] = KeyUnique
  <2>1. pc'[w] = "recheck" /\ KeyTraded(w)
    BY <1>1, <1>3, <1>4 DEF ErrorFounded
  <2> QED BY <1>2, <2>1 DEF Founded, ErrorFounded, AnswerFounded
<1>5. CASE \/ Answer(w, "QUOTE_ALREADY_EXECUTED") /\ code[w] = QuoteUnique
           \/ Answer(w, "INTERNAL_SERVER_ERROR")
           \/ Answer(w, code[w]) /\ code[w] \in Errors
  <2>1. /\ pc'[w] = "done"
        /\ \/ code'[w] = "QUOTE_ALREADY_EXECUTED" /\ code[w] = QuoteUnique
           \/ code'[w] = "INTERNAL_SERVER_ERROR"
           \/ code'[w] = code[w] /\ code[w] \in Errors
    BY <1>3, <1>5 DEF Answer
  <2>2. QuoteTraded(w) \/ code'[w] \notin {"QUOTE_ALREADY_EXECUTED", "IDEMPOTENCY_CONFLICT", "OK"}
    BY <1>1, <2>1 DEF ErrorFounded, Errors
  <2>3. code'[w] \notin {"IDEMPOTENCY_CONFLICT", "OK"}
    BY <1>1, <2>1 DEF ErrorFounded, Errors
  <2> QED BY <1>2, <2>1, <2>2, <2>3 DEF Founded, ErrorFounded, AnswerFounded
<1> QED BY <1>1, <1>4, <1>5 DEF Rollback, IsUniqueViolation

\* Under the lock on its quote a trade reads a status that tells whether it was
\* executed, and an INSERT fails on a trade that is there.
LEMMA RefusalFounded ==
  ASSUME IInv, NEW w \in Workers, LockQuote(w) \/ LockPay(w) \/ InsertTradeFails(w)
  PROVE  Founded(w)'
<1> USE DEF tables, request
<1>1. /\ pc \in [Workers -> Steps] /\ DOMAIN code = Workers
      /\ UNCHANGED <<req, trades>>
  BY DEF IInv, TypeOK, LockQuote, LockPay, InsertTradeFails
<1>2. QuoteTraded(w)' = QuoteTraded(w) /\ KeyTraded(w)' = KeyTraded(w)
  BY <1>1 DEF QuoteTraded, KeyTraded, FindByIdempotencyKey
<1>3. CASE LockQuote(w)
  <2>1. /\ req[w].quote \in QuoteIds
        /\ quoteStatus[req[w].quote] = "EXECUTED" => QuoteTraded(w)
    BY <1>3, AccountsOfWorker DEF LockQuote, IInv, ExecutedIffTraded, QuoteTraded
  <2>2. \/ pc'[w] = "lockPay"
        \/ pc'[w] = "rollback" /\ code'[w] \in {"NOT_FOUND", "QUOTE_EXPIRED"}
        \/ /\ pc'[w] = "rollback" /\ code'[w] = "QUOTE_ALREADY_EXECUTED"
           /\ quoteStatus[req[w].quote] = "EXECUTED"
    BY <1>1, <1>3 DEF LockQuote, Throw
  <2>3. CASE code'[w] = "QUOTE_ALREADY_EXECUTED" /\ pc'[w] = "rollback" /\ QuoteTraded(w)
    BY <1>2, <2>3 DEF Founded, ErrorFounded, AnswerFounded, KeyUnique
  <2> QED BY <2>1, <2>2, <2>3, NoClaim, PlainError
<1>4. CASE LockPay(w)
  <2>1. \/ pc'[w] = "insertTrade"
        \/ pc'[w] = "rollback" /\ code'[w] = "INSUFFICIENT_FUNDS"
    BY <1>1, <1>4 DEF LockPay, Throw
  <2> QED BY <2>1, NoClaim, PlainError
<1>5. CASE InsertTradeFails(w)
  <2>1. /\ pc'[w] = "rollback"
        /\ \/ code'[w] = QuoteUnique /\ QuoteTraded(w)
           \/ code'[w] = KeyUnique /\ KeyTraded(w)
    BY <1>1, <1>5 DEF InsertTradeFails, Abort, Throw, QuoteTraded, KeyTraded
  <2> QED BY <1>2, <2>1 DEF Founded, ErrorFounded, AnswerFounded, QuoteUnique, KeyUnique
<1> QED BY <1>3, <1>4, <1>5

\* A trade is acknowledged once its row is stored, under its own id.
LEMMA CommitFounded ==
  ASSUME IInv, NEW w \in Workers, Commit(w)
  PROVE  Founded(w)'
<1>1. /\ pc \in [Workers -> Steps] /\ DOMAIN code = Workers /\ DOMAIN returned = Workers
      /\ req' = req
  BY DEF IInv, TypeOK, Commit, request
<1>2. pc'[w] = "done" /\ code'[w] \in {"OK", "INTERNAL_SERVER_ERROR"}
  BY <1>1 DEF Commit, Answer, AnswerTrade
<1>3. ASSUME code'[w] = "OK", req[w].kind = "trade"
      PROVE  \E t \in FindByIdempotencyKey(w)' : t.id = returned'[w] /\ t.quoteId = req[w].quote
  <2>1. returned'[w] = reqId[w]
    BY <1>1, <1>3 DEF Commit, Answer, AnswerTrade
  <2>2. NewTrade(w) \in trades'
    BY <1>3, TradeMoves
  <2> QED BY <1>1, <2>1, <2>2 DEF FindByIdempotencyKey, NewTrade
<1> QED BY <1>1, <1>2, <1>3 DEF Founded, ErrorFounded, AnswerFounded

\* Every claim a worker makes after its own step is founded.
LEMMA FoundedOwn ==
  ASSUME IInv, NEW w \in Workers, Founded(w), WorkerStep(w)
  PROVE  Founded(w)'
<1> USE DEF tables, request
<1>1. /\ pc \in [Workers -> Steps] /\ DOMAIN code = Workers
      /\ ServesRequest(w) /\ ErrorFounded(w)
  BY DEF IInv, TypeOK, LocalInv, Founded
<1>2. CASE PreCheck(w)
  <2>1. req' = req /\ trades' = trades
    BY <1>2 DEF PreCheck
  <2>2. CASE KeyTraded(w)
    BY <1>2, <2>1, <2>2, ReplayFounded DEF PreCheck, KeyTraded, IInv
  <2>3. CASE ~ KeyTraded(w)
    BY <1>1, <1>2, <2>3, NoClaim DEF PreCheck, KeyTraded
  <2> QED BY <2>2, <2>3
<1>3. CASE Recheck(w)
  <2>1. req' = req /\ trades' = trades /\ KeyTraded(w)
    BY <1>1, <1>3 DEF Recheck, ErrorFounded
  <2> QED BY <1>3, <2>1, ReplayFounded DEF Recheck, KeyTraded, IInv
<1>4. CASE \/ Begin(w) \/ InsertTrade(w) \/ Debit(w) \/ LockReceive(w) \/ Credit(w) \/ LockDeposit(w)
           \/ \E r \in Requests : Receive(w, r)
  <2>1. pc'[w] \notin {"rollback", "recheck", "done"}
    BY <1>1, <1>4 DEF Begin, InsertTrade, Debit, LockReceive, Credit, LockDeposit, ApplyDelta, Receive,
       FirstStep
  <2> QED BY <2>1, NoClaim
<1>5. CASE DeadlockVictim(w) \/ ConnectionLost(w) \/ ApplyDeltaFails(w)
  <2>1. /\ pc'[w] \in {"rollback", "done"}
        /\ code'[w] \in {"INTERNAL_SERVER_ERROR", BalanceUnique}
    BY <1>1, <1>5 DEF DeadlockVictim, ConnectionLost, ApplyDeltaFails, Abort, Throw, Answer
  <2> QED BY <2>1, PlainError
<1>6. CASE ReadQuote(w) \/ CheckExpiry(w) \/ ExpireQuote(w)
  <2>1. /\ req' = req /\ req[w].kind = "getQuote"
        /\ \/ pc'[w] \in {"checkExpiry", "expireQuote"}
           \/ pc'[w] = "done" /\ code'[w] \in {"OK", "NOT_FOUND"}
    <3>1. req' = req /\ pc[w] \in {"readQuote", "checkExpiry", "expireQuote"}
      BY <1>6 DEF ReadQuote, CheckExpiry, ExpireQuote
    <3>2. req[w].kind = "getQuote"
      BY <1>1, <3>1 DEF ServesRequest, QuoteRequest
    <3>3. \/ pc'[w] \in {"checkExpiry", "expireQuote"}
          \/ pc'[w] = "done" /\ code'[w] \in {"OK", "NOT_FOUND"}
      BY <1>1, <1>6 DEF ReadQuote, CheckExpiry, ExpireQuote, Answer
    <3> QED BY <3>1, <3>2, <3>3
  <2>2. CASE pc'[w] = "done" /\ code'[w] \in {"OK", "NOT_FOUND"}
    BY <2>1, <2>2 DEF Founded, ErrorFounded, AnswerFounded
  <2> QED BY <2>1, <2>2, NoClaim
<1> QED
  BY <1>1, <1>2, <1>3, <1>4, <1>5, <1>6, RollbackFounded, RefusalFounded, CommitFounded
  DEF WorkerStep, Step

LEMMA FoundedStep ==
  ASSUME IInv, \A w \in Workers : Founded(w), [Next]_vars
  PROVE  \A w \in Workers : Founded(w)'
<1> SUFFICES ASSUME NEW v \in Workers PROVE Founded(v)'
  OBVIOUS
<1>0. trades \subseteq trades' /\ Founded(v)
  BY TradesStay
<1>1. ASSUME NEW w \in Workers, WorkerStep(w) PROVE Founded(v)'
  <2>1. CASE v = w
    BY <1>0, <1>1, <2>1, FoundedOwn
  <2>2. CASE v # w
    BY <1>0, <1>1, <2>2, Frame, ReturnedFrame, FoundedFrame DEF Untouched, IInv
  <2> QED BY <2>1, <2>2
<1>2. CASE Crash
  <2>1. \/ pc'[v] = "idle"
        \/ pc'[v] = "done" /\ pc[v] = "done" /\ code'[v] = code[v]
    BY <1>2 DEF Crash
  <2>2. req' = req /\ returned' = returned
    BY <1>2 DEF Crash, request
  <2> QED BY <1>0, <2>1, <2>2, NoClaim, FoundedFrame
<1>3. CASE UNCHANGED <<pc, req, code, returned>>
  BY <1>0, <1>3, FoundedFrame
<1> QED
  BY <1>1, <1>2, <1>3
  DEF Next, WorkerStep, Tick, CreateQuote, Finished, vars, request, answer
-----------------------------------------------------------------------------
\* The two entries of a trade.
LEMMA EntriesOfTrade ==
  ASSUME NEW id, NEW q
  PROVE  /\ TradeEntries(id, q) # {}
         /\ \A e \in TradeEntries(id, q) : e.refId = id /\ e.reason = "TRADE"
BY DEF TradeEntries

\* COMMIT stores a trade with its entries, under an id the ledger does not know.
LEMMA LedgerRowsStep ==
  ASSUME IInv, LedgerRows, [Next]_vars
  PROVE  LedgerRows'
<1>1. ASSUME NEW w \in Workers, Commit(w), req[w].kind = "trade" PROVE LedgerRows'
  <2> DEFINE q == req[w].quote
             new == NewTrade(w)
  <2>1. /\ trades' = trades \cup {new} /\ ledger' = ledger \cup TradeEntries(reqId[w], q)
        /\ new.id = reqId[w] /\ new.quoteId = q /\ new.clientId = req[w].client
    BY <1>1, TradeMoves DEF NewTrade
  <2>2. \A e \in ledger : e.refId # reqId[w]
    BY <1>1 DEF IInv, LocalInv, IdFresh, Commit, Resting
  <2>3. new.clientId = Quote[q].clientId
    BY <1>1, <2>1, CommitFacts DEF IInv, LocalInv, QuoteHeld
  <2> HIDE DEF q, new
  <2>4. {e \in ledger' : e.refId = new.id} = TradeEntries(new.id, new.quoteId)
    BY <2>1, <2>2, EntriesOfTrade
  <2>5. ASSUME NEW t \in trades
        PROVE  {e \in ledger' : e.refId = t.id} = TradeEntries(t.id, t.quoteId)
    <3>1. {e \in ledger : e.refId = t.id} = TradeEntries(t.id, t.quoteId)
      BY DEF LedgerRows
    <3>2. t.id # reqId[w]
      BY <2>2, <3>1, EntriesOfTrade
    <3> QED BY <2>1, <3>1, <3>2, EntriesOfTrade
  <2>6. \A e \in ledger' : e.reason = "TRADE" => \E t \in trades' : t.id = e.refId
    BY <2>1, EntriesOfTrade DEF LedgerRows
  <2> QED BY <2>1, <2>3, <2>4, <2>5, <2>6 DEF LedgerRows
<1>2. ASSUME NEW w \in Workers, Commit(w), req[w].kind # "trade" PROVE LedgerRows'
  <2> DEFINE entry == DepositEntry(reqId[w], Account(w), req[w].amount)
  <2>1. trades' = trades /\ ledger' = ledger \cup {entry}
    BY <1>2, DepositMoves
  <2>2. entry.refId = reqId[w] /\ entry.reason = "DEPOSIT"
    BY DEF DepositEntry
  <2>3. \A e \in ledger : e.refId # reqId[w]
    BY <1>2 DEF IInv, LocalInv, IdFresh, Commit, Resting
  <2> HIDE DEF entry
  <2>4. ASSUME NEW t \in trades
        PROVE  {e \in ledger' : e.refId = t.id} = TradeEntries(t.id, t.quoteId)
    <3>1. {e \in ledger : e.refId = t.id} = TradeEntries(t.id, t.quoteId)
      BY DEF LedgerRows
    <3>2. t.id # reqId[w]
      BY <2>3, <3>1, EntriesOfTrade
    <3> QED BY <2>1, <2>2, <3>1, <3>2
  <2>5. \A e \in ledger' : e.reason = "TRADE" => \E t \in trades' : t.id = e.refId
    BY <2>1, <2>2 DEF LedgerRows
  <2> QED BY <2>1, <2>4, <2>5 DEF LedgerRows
<1>3. CASE ~\E w \in Workers : Commit(w)
  BY <1>3, OnlyCommitMoves DEF LedgerRows
<1> QED BY <1>1, <1>2, <1>3
-----------------------------------------------------------------------------
\* The sum that LedgerTotal takes: its first row, a step, and its recursion.
First(s) == CHOOSE x \in s : TRUE
Total(S) == MapThenSumSet(LAMBDA e : e.deltaMinor, S)
SumStep(g, s) == IF s = {} THEN 0 ELSE First(s).deltaMinor + g[s \ {First(s)}]
IsSum(g, S) == g = [s \in SUBSET S |-> SumStep(g, s)]

\* Every set of finite sets has a member with no other member inside it.
LEMMA LeastSet ==
  ASSUME NEW S, IsFiniteSet(S), NEW T, T \subseteq SUBSET S, T # {}
  PROVE  \E s \in T : \A t \in T : t \subseteq s => t = s
<1> DEFINE R == StrictSubsetOrdering(S)
<1>1. IsWellFoundedOn(R, SUBSET S)
  BY FS_StrictSubsetOrderingWellFounded, FS_FiniteSubsetsOfFinite, Zenon
<1>2. \A s, t \in SUBSET S : s \subseteq t /\ s # t => <<s, t>> \in R
  BY DEF StrictSubsetOrdering
<1> HIDE DEF R
<1>3. PICK s \in T : \A t \in T : ~ (<<t, s>> \in R)
  BY <1>1, WFMin, Zenon
<1> QED BY <1>2, <1>3, Zenon

LEMMA FirstIn ==
  ASSUME NEW s, s # {}
  PROVE  First(s) \in s
BY DEF First

\* Two sums agree wherever both are defined.
LEMMA SumUnique ==
  ASSUME NEW A, NEW B, NEW g, NEW h, IsSum(g, A), IsSum(h, B),
         NEW S, IsFiniteSet(S), S \subseteq A, S \subseteq B
  PROVE  g[S] = h[S]
<1> DEFINE Bad == {s \in SUBSET S : g[s] # h[s]}
<1> SUFFICES ASSUME Bad # {} PROVE FALSE
  OBVIOUS
<1>1. PICK s \in Bad : \A t \in Bad : t \subseteq s => t = s
  <2>1. Bad \subseteq SUBSET S
    OBVIOUS
  <2> HIDE DEF Bad
  <2> QED BY <2>1, LeastSet
<1>2. g[s] = SumStep(g, s) /\ h[s] = SumStep(h, s)
  BY DEF IsSum
<1>3. CASE s = {}
  BY <1>2, <1>3 DEF SumStep
<1>4. CASE s # {}
  <2> DEFINE t == s \ {First(s)}
  <2>1. t \in SUBSET S /\ t \subseteq s /\ t # s
    BY <1>4, FirstIn
  <2>2. g[t] = h[t]
    BY <1>1, <2>1
  <2> QED BY <1>1, <1>2, <1>4, <2>2 DEF SumStep
<1> QED BY <1>3, <1>4

\* The sum of a finite set is defined.
LEMMA SumExists ==
  ASSUME NEW S, IsFiniteSet(S)
  PROVE  \E g : IsSum(g, S)
<1> DEFINE Bad == {s \in SUBSET S : ~ \E g : IsSum(g, s)}
<1> SUFFICES ASSUME Bad # {} PROVE FALSE
  OBVIOUS
<1>1. PICK s \in Bad : \A t \in Bad : t \subseteq s => t = s
  <2>1. Bad \subseteq SUBSET S
    OBVIOUS
  <2> HIDE DEF Bad
  <2> QED BY <2>1, LeastSet
<1>2. \A t \in SUBSET s : t # s => \E g : IsSum(g, t)
  BY <1>1
<1> DEFINE G == [t \in SUBSET s |-> CHOOSE g : IsSum(g, t)]
           sum == [t \in SUBSET s |-> IF t = {} THEN 0
                                      ELSE LET r == t \ {First(t)} IN First(t).deltaMinor + G[r][r]]
<1>3. \A t \in SUBSET s : t # s => IsSum(G[t], t)
  BY <1>2
<1>4. ASSUME NEW t \in SUBSET s, t # s PROVE sum[t] = G[t][t]
  <2>1. G[t][t] = SumStep(G[t], t)
    <3>1. IsSum(G[t], t)
      BY <1>3, <1>4
    <3> HIDE DEF G
    <3> QED BY <3>1 DEF IsSum
  <2>2. CASE t = {}
    BY <2>1, <2>2 DEF SumStep
  <2>3. CASE t # {}
    <3> DEFINE r == t \ {First(t)}
    <3>1. r \in SUBSET s /\ r \in SUBSET t /\ r # s
      BY <1>4
    <3>2. IsFiniteSet(r)
      BY <1>1, <3>1, FS_Subset
    <3>3. IsSum(G[r], r) /\ IsSum(G[t], t)
      BY <1>3, <1>4, <3>1
    <3> HIDE DEF G
    <3>4. G[t][r] = G[r][r]
      BY <3>1, <3>2, <3>3, SumUnique
    <3> QED BY <2>1, <2>3, <3>4 DEF SumStep
  <2> QED BY <2>2, <2>3
<1>5. ASSUME NEW t \in SUBSET s PROVE sum[t] = SumStep(sum, t)
  <2>1. CASE t = {}
    BY <2>1 DEF SumStep
  <2>2. CASE t # {}
    <3> DEFINE r == t \ {First(t)}
    <3>1. r \in SUBSET s /\ r # s
      BY <2>2, FirstIn
    <3>2. sum[r] = G[r][r]
      BY <1>4, <3>1
    <3>3. sum[t] = First(t).deltaMinor + G[r][r]
      BY <2>2
    <3> HIDE DEF sum, G
    <3> QED BY <2>2, <3>2, <3>3 DEF SumStep
  <2> QED BY <2>1, <2>2
<1>6. IsSum(sum, s)
  <2>1. sum = [t \in SUBSET s |-> sum[t]]
    OBVIOUS
  <2> HIDE DEF sum
  <2> QED BY <1>5, <2>1 DEF IsSum
<1> HIDE DEF sum
<1> QED BY <1>1, <1>6

\* What MapThenSumSet computes for a finite set, one row at a time.
LEMMA TotalStep ==
  ASSUME NEW S, IsFiniteSet(S)
  PROVE  Total(S) = IF S = {} THEN 0 ELSE First(S).deltaMinor + Total(S \ {First(S)})
<1>1. ASSUME NEW A, IsFiniteSet(A) PROVE \E g : IsSum(g, A) /\ Total(A) = g[A]
  <2> DEFINE g == CHOOSE h : h = [s \in SUBSET A |->
                     IF s = {} THEN 0 ELSE (CHOOSE x \in s : TRUE).deltaMinor
                                              + h[s \ {CHOOSE x \in s : TRUE}]]
  <2>1. IsSum(g, A)
    BY <1>1, SumExists DEF IsSum, SumStep, First
  <2>2. Total(A) = g[A]
    BY DEF Total, MapThenSumSet, MapThenFoldSet
  <2> QED BY <2>1, <2>2
<1>2. PICK g : IsSum(g, S) /\ Total(S) = g[S]
  BY <1>1
<1>3. g[S] = SumStep(g, S)
  BY <1>2 DEF IsSum
<1>4. CASE S = {}
  BY <1>2, <1>3, <1>4 DEF SumStep
<1>5. CASE S # {}
  <2> DEFINE r == S \ {First(S)}
  <2>1. IsFiniteSet(r) /\ r \subseteq S
    BY FS_Subset
  <2>2. PICK h : IsSum(h, r) /\ Total(r) = h[r]
    BY <1>1, <2>1
  <2>3. g[r] = h[r]
    BY <1>2, <2>1, <2>2, SumUnique
  <2> QED BY <1>2, <1>3, <1>5, <2>2, <2>3 DEF SumStep
<1> QED BY <1>4, <1>5

\* The order in which the rows are added does not matter.
LEMMA TotalRemove ==
  ASSUME NEW S, IsFiniteSet(S), \A e \in S : e.deltaMinor \in Int
  PROVE  /\ Total(S) \in Int
         /\ \A e \in S : Total(S) = e.deltaMinor + Total(S \ {e})
<1> DEFINE Good(s) == /\ Total(s) \in Int
                      /\ \A e \in s : Total(s) = e.deltaMinor + Total(s \ {e})
           Bad == {s \in SUBSET S : ~ Good(s)}
<1> SUFFICES ASSUME Bad # {} PROVE FALSE
  OBVIOUS
<1>1. PICK s \in Bad : \A t \in Bad : t \subseteq s => t = s
  <2>1. Bad \subseteq SUBSET S
    OBVIOUS
  <2> HIDE DEF Bad
  <2> QED BY <2>1, LeastSet
<1>2. s \in SUBSET S /\ ~ Good(s) /\ \A t \in SUBSET s : t # s => Good(t)
  BY <1>1
<1>3. \A t \in SUBSET s : IsFiniteSet(t)
  BY <1>2, FS_Subset
<1> HIDE DEF Bad
<1>4. CASE s = {}
  <2>1. Total(s) = 0
    BY <1>3, <1>4, TotalStep
  <2> QED BY <1>2, <1>4, <2>1
<1>5. CASE s # {}
  <2> DEFINE x == First(s)
             r == s \ {x}
  <2>1. x \in s /\ x.deltaMinor \in Int
    BY <1>2, <1>5, FirstIn
  <2>2. r \in SUBSET s /\ r # s /\ Good(r)
    BY <1>2, <2>1
  <2>3. Total(s) = x.deltaMinor + Total(r)
    BY <1>3, <1>5, TotalStep
  <2> HIDE DEF x
  <2>4. Total(s) \in Int
    BY <2>1, <2>2, <2>3
  <2>5. ASSUME NEW e \in s PROVE Total(s) = e.deltaMinor + Total(s \ {e})
    <3>1. CASE e = x
      BY <2>3, <3>1
    <3>2. CASE e # x
      <4> DEFINE both == r \ {e}
                 rest == s \ {e}
      <4>1. e \in r /\ x \in rest /\ both = rest \ {x} /\ rest \in SUBSET s /\ rest # s
            /\ both \in SUBSET s /\ both # s
        BY <2>1, <3>2
      <4>2. Good(rest) /\ Good(both)
        BY <1>2, <4>1
      <4>3. Total(r) = e.deltaMinor + Total(both)
        BY <2>2, <4>1
      <4>4. Total(rest) = x.deltaMinor + Total(both)
        BY <4>1, <4>2
      <4>5. e.deltaMinor \in Int /\ Total(both) \in Int /\ Total(r) \in Int
        BY <1>2, <2>2, <4>2
      <4> HIDE DEF both, rest, r
      <4>6. Total(s) = e.deltaMinor + Total(rest)
        BY <2>1, <2>3, <4>3, <4>4, <4>5
      <4> QED BY <4>6 DEF rest
    <3> QED BY <3>1, <3>2
  <2> QED BY <1>2, <2>4, <2>5
<1> QED BY <1>4, <1>5

LEMMA TotalOfAccount == \A a \in Accounts : LedgerTotal(a) = Total({e \in ledger : e.account = a})
BY DEF LedgerTotal, Total

LEMMA BooksOfNextState ==
  ASSUME \A a \in Accounts : /\ IsFiniteSet({e \in ledger' : e.account = a})
                             /\ Available(balances'[a]) = Total({e \in ledger' : e.account = a})
  PROVE  EntriesFinite' /\ LedgerBacksBalances'
<1>1. EntriesFinite'
  BY DEF EntriesFinite
<1>2. ASSUME NEW a \in Accounts PROVE Available(balances'[a]) = LedgerTotal(a)'
  <2>1. LedgerTotal(a)' = Total({e \in ledger' : e.account = a})
    BY DEF LedgerTotal, Total, MapThenSumSet, MapThenFoldSet
  <2> QED BY <2>1
<1>3. ASSUME NEW a \in Accounts PROVE Available(balances[a])' = Available(balances'[a])
  BY DEF Available
<1>4. LedgerBacksBalances'
  <2> SUFFICES ASSUME NEW a \in Accounts PROVE Available(balances[a])' = LedgerTotal(a)'
    BY Zenon DEF LedgerBacksBalances
  <2> QED BY <1>2, <1>3, Zenon
<1> QED BY <1>1, <1>4

\* No step takes a ledger entry away.
LEMMA EntriesStay ==
  ASSUME [Next]_vars
  PROVE  ledger \subseteq ledger'
<1>1. ASSUME NEW w \in Workers, Commit(w) PROVE ledger \subseteq ledger'
  BY <1>1 DEF Commit
<1> QED BY <1>1, OnlyCommitMoves

\* A step that adds an entry changes the balance by the entry's amount.
LEMMA BooksStep ==
  ASSUME IInv, EntriesFinite, LedgerBacksBalances, [Next]_vars
  PROVE  EntriesFinite' /\ LedgerBacksBalances'
<1> SUFFICES ASSUME NEW a \in Accounts
             PROVE  /\ IsFiniteSet({e \in ledger' : e.account = a})
                    /\ Available(balances'[a]) = Total({e \in ledger' : e.account = a})
  BY BooksOfNextState
<1> DEFINE old == {e \in ledger : e.account = a}
           new == {e \in ledger' : e.account = a}
           added == {e \in ledger' \ ledger : e.account = a}
<1>1. IsFiniteSet(old) /\ Available(balances[a]) = Total(old)
  BY TotalOfAccount DEF EntriesFinite, LedgerBacksBalances
<1>2. new = old \cup added /\ old \cap added = {}
  BY EntriesStay
<1>3. \/ added = {} /\ balances'[a] = balances[a]
      \/ \E e \in added : /\ added = {e}
                          /\ Available(balances'[a]) = Available(balances[a]) + e.deltaMinor
  BY JustifiedStep DEF JustifiedMove
<1>4. \A e \in new : e.deltaMinor \in Int
  BY NextInv DEF IInv, TypeOK, LedgerEntry
<1> HIDE DEF old, new, added
<1>5. CASE added = {} /\ balances'[a] = balances[a]
  BY <1>1, <1>2, <1>5 DEF new
<1>6. ASSUME NEW e \in added, added = {e},
             Available(balances'[a]) = Available(balances[a]) + e.deltaMinor
      PROVE  IsFiniteSet(new) /\ Available(balances'[a]) = Total(new)
  <2>1. new = old \cup {e} /\ e \in new /\ new \ {e} = old
    BY <1>2, <1>6
  <2>2. IsFiniteSet(new)
    BY <1>1, <2>1, FS_AddElement
  <2>3. Total(new) = e.deltaMinor + Total(old) /\ e.deltaMinor \in Int /\ Total(old) \in Int
    <3>1. \A f \in old : f.deltaMinor \in Int
      BY <1>2, <1>4
    <3> QED BY <1>1, <1>4, <2>1, <2>2, <3>1, TotalRemove
  <2> QED BY <1>1, <1>6, <2>2, <2>3
<1> QED BY <1>3, <1>5, <1>6 DEF new

\* The entries of the seed script back the opening balances.
LEMMA BooksOpen ==
  ASSUME Init
  PROVE  EntriesFinite /\ LedgerBacksBalances
<1> SUFFICES ASSUME NEW a \in Accounts
             PROVE  /\ IsFiniteSet({e \in ledger : e.account = a})
                    /\ Available(balances[a]) = Total({e \in ledger : e.account = a})
  BY TotalOfAccount DEF EntriesFinite, LedgerBacksBalances
<1> DEFINE old == {e \in ledger : e.account = a}
           entry == DepositEntry(0, a, Opening[a])
<1>1. CASE Opening[a] = NoRow
  <2>1. old = {}
    BY <1>1 DEF Init, SeedEntries, DepositEntry
  <2>2. Available(balances[a]) = 0
    BY <1>1 DEF Init, Available
  <2> QED BY <2>1, <2>2, FS_EmptySet, TotalStep
<1>2. CASE Opening[a] # NoRow
  <2>1. old = {entry} /\ entry.deltaMinor = Opening[a] /\ Opening[a] \in Int
    BY <1>2, OpeningAssumption DEF Init, SeedEntries, DepositEntry
  <2>2. Available(balances[a]) = Opening[a]
    BY <1>2 DEF Init, Available
  <2> HIDE DEF entry
  <2>3. IsFiniteSet({entry}) /\ {entry} \ {entry} = {} /\ entry \in {entry}
    BY FS_Singleton
  <2>4. Total({entry}) = entry.deltaMinor + Total({}) /\ Total({}) = 0
    BY <2>1, <2>3, FS_EmptySet, TotalStep, TotalRemove
  <2>5. IsFiniteSet(old) /\ Total(old) = Opening[a]
    <3> HIDE DEF old
    <3>1. Total({entry}) = Opening[a]
      BY <2>1, <2>4
    <3> QED BY <2>1, <2>3, <3>1
  <2> QED BY <2>2, <2>5
<1> QED BY <1>1, <1>2
-----------------------------------------------------------------------------
\* What the books and the answers rest on holds in every behaviour.
THEOREM FullInvariant == Spec => []FullInv
<1>1. Init => FullInv
  <2> SUFFICES ASSUME Init PROVE FullInv
    OBVIOUS
  <2>1. LedgerRows
    BY DEF Init, LedgerRows, SeedEntries, DepositEntry
  <2>2. \A w \in Workers : ErrorFounded(w) /\ AnswerFounded(w)
    BY DEF Init, ErrorFounded, AnswerFounded
  <2> QED BY <2>1, <2>2, InitInv, BooksOpen DEF FullInv
<1>2. FullInv /\ [Next]_vars => FullInv'
  BY NextInv, FoundedStep, LedgerRowsStep, BooksStep DEF FullInv, Founded
<1> QED BY <1>1, <1>2, PTL DEF Spec

\* The balances table never drifts from the ledger.
THEOREM LedgerIsSource == Spec => []LedgerBacksBalances
<1>1. FullInv => LedgerBacksBalances
  BY DEF FullInv
<1> QED BY <1>1, FullInvariant, PTL

\* A successful answer names a stored trade of that client, key and quote.
THEOREM AcknowledgedIsStored == Spec => []AnswersMatchTrades
<1>1. FullInv => AnswersMatchTrades
  BY DEF FullInv, AnswerFounded, AnswersMatchTrades, FindByIdempotencyKey
<1> QED BY <1>1, FullInvariant, PTL

\* A quote said to be executed has its trade, and the key of a conflict bought
\* another quote, or this one when the request does not spell its id as Postgres does.
THEOREM RefusedForCause == Spec => []RefusalIsTruthful
<1>1. FullInv => RefusalIsTruthful
  BY DEF FullInv, AnswerFounded, RefusalIsTruthful, QuoteTraded
<1> QED BY <1>1, FullInvariant, PTL

\* The two entries of a trade, its sign and its amounts, for each side.
LEMMA BothLegs ==
  ASSUME IInv, LedgerRows
  PROVE  TradeHasBothLegs
<1> SUFFICES ASSUME NEW t \in trades
             PROVE  LET legs == {e \in ledger : e.refId = t.id}
                        terms == Quote[t.quoteId]
                        sign == IF terms.side = "BUY" THEN 1 ELSE -1
                        Moves(currency, delta) == \E e \in legs : /\ e.account = <<t.clientId, currency>>
                                                                  /\ e.deltaMinor = delta
                    IN  /\ Cardinality(legs) = 2
                        /\ Moves(terms.baseCurrency, sign * terms.baseAmountMinor)
                        /\ Moves(terms.quoteCurrency, -sign * terms.quoteAmountMinor)
  BY DEF TradeHasBothLegs, LedgerRows
<1> DEFINE q == t.quoteId
           debit == [refId |-> t.id, reason |-> "TRADE", account |-> PayAccount(q),
                     deltaMinor |-> -PayAmount(q)]
           credit == [refId |-> t.id, reason |-> "TRADE", account |-> ReceiveAccount(q),
                      deltaMinor |-> ReceiveAmount(q)]
           legs == {e \in ledger : e.refId = t.id}
           sign == IF Quote[q].side = "BUY" THEN 1 ELSE -1
<1>1. q \in QuoteIds /\ t.clientId = Quote[q].clientId
  BY DEF IInv, TypeOK, Trade, LedgerRows
<1>2. legs = {debit, credit}
  BY DEF LedgerRows, TradeEntries
<1>3. debit # credit
  BY <1>1, LegsOfQuote
<1>4. Cardinality(legs) = 2
  <2> HIDE DEF debit, credit, legs
  <2>1. IsFiniteSet({debit}) /\ Cardinality({debit}) = 1
    BY FS_Singleton
  <2>2. Cardinality({debit} \cup {credit}) = Cardinality({debit}) + 1
    BY <1>3, <2>1, FS_AddElement
  <2>3. legs = {debit} \cup {credit}
    BY <1>2
  <2> QED BY <2>1, <2>2, <2>3
<1>5. /\ Quote[q].side \in {"BUY", "SELL"}
      /\ Quote[q].baseAmountMinor \in Nat /\ Quote[q].quoteAmountMinor \in Nat
  BY <1>1, QuoteAssumption DEF QuoteTerms, Sides
<1>6. /\ debit \in legs /\ debit.account = PayAccount(q) /\ debit.deltaMinor = -PayAmount(q)
      /\ credit \in legs /\ credit.account = ReceiveAccount(q) /\ credit.deltaMinor = ReceiveAmount(q)
  BY <1>2
<1>7. /\ \E b \in legs : /\ b.account = <<t.clientId, Quote[q].baseCurrency>>
                         /\ b.deltaMinor = sign * Quote[q].baseAmountMinor
      /\ \E b \in legs : /\ b.account = <<t.clientId, Quote[q].quoteCurrency>>
                         /\ b.deltaMinor = -sign * Quote[q].quoteAmountMinor
  <2> HIDE DEF debit, credit, legs
  <2>1. CASE Quote[q].side = "BUY"
    <3>1. /\ ReceiveAccount(q) = <<t.clientId, Quote[q].baseCurrency>>
          /\ ReceiveAmount(q) = sign * Quote[q].baseAmountMinor
          /\ PayAccount(q) = <<t.clientId, Quote[q].quoteCurrency>>
          /\ -PayAmount(q) = -sign * Quote[q].quoteAmountMinor
      BY <1>1, <1>5, <2>1
      DEF PayAccount, ReceiveAccount, PayCurrency, ReceiveCurrency, PayAmount, ReceiveAmount
    <3> QED BY <1>6, <3>1
  <2>2. CASE Quote[q].side = "SELL"
    <3>1. /\ PayAccount(q) = <<t.clientId, Quote[q].baseCurrency>>
          /\ -PayAmount(q) = sign * Quote[q].baseAmountMinor
          /\ ReceiveAccount(q) = <<t.clientId, Quote[q].quoteCurrency>>
          /\ ReceiveAmount(q) = -sign * Quote[q].quoteAmountMinor
      BY <1>1, <1>5, <2>2
      DEF PayAccount, ReceiveAccount, PayCurrency, ReceiveCurrency, PayAmount, ReceiveAmount
    <3> QED BY <1>6, <3>1
  <2> QED BY <1>5, <2>1, <2>2
<1> QED BY <1>4, <1>7

\* Every trade has its two ledger entries and every trade entry its trade.
THEOREM TradesAreBooked == Spec => []TradeHasBothLegs
<1>1. FullInv => TradeHasBothLegs
  BY BothLegs DEF FullInv
<1> QED BY <1>1, FullInvariant, PTL
=============================================================================
