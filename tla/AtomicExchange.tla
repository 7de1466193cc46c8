--------------------------- MODULE AtomicExchange ---------------------------
(***************************************************************************)
(* What Mini-OpenFX promises about money, with no processes, transactions, *)
(* locks or failures: every trade and every deposit happens in one step    *)
(* that writes all its rows, and no other step touches a balance.          *)
(* TradeExecution implements this specification.                           *)
(***************************************************************************)
EXTENDS FxTables

CONSTANTS
    Ids,             \* ids a trade or a deposit may be given
    Times,           \* values of created_at
    DepositAmounts   \* amounts a client may deposit

VARIABLES
    quoteStatus,  \* quotes.status, "NONE" before the row is inserted
    balances,     \* balances.available_minor by (client, currency), or NoRow
    ledger,       \* the rows of ledger_entries
    trades        \* the rows of trades

vars == <<quoteStatus, balances, ledger, trades>>

Init ==
    /\ quoteStatus = [q \in QuoteIds |-> "NONE"]
    /\ balances = Opening
    /\ ledger = SeedEntries
    /\ trades = {}

CreateQuote(q) ==
    /\ quoteStatus[q] = "NONE"
    /\ quoteStatus' = [quoteStatus EXCEPT ![q] = "ACTIVE"]
    /\ UNCHANGED <<balances, ledger, trades>>

MarkExpired(q) ==
    /\ quoteStatus[q] # "NONE"
    /\ quoteStatus' = [quoteStatus EXCEPT ![q] = "EXPIRED"]
    /\ UNCHANGED <<balances, ledger, trades>>

Fresh(id) == \A e \in ledger : e.refId # id

Execute(q, k, id, at) ==
    /\ quoteStatus[q] = "ACTIVE"
    /\ \A t \in trades : /\ t.quoteId # q
                         /\ <<t.clientId, t.idempotencyKey>> # <<Quote[q].clientId, k>>
    /\ Fresh(id)
    /\ Available(balances[PayAccount(q)]) >= PayAmount(q)
    /\ quoteStatus' = [quoteStatus EXCEPT ![q] = "EXECUTED"]
    /\ balances' = [balances EXCEPT
                       ![PayAccount(q)] = Available(@) - PayAmount(q),
                       ![ReceiveAccount(q)] = Available(@) + ReceiveAmount(q)]
    /\ ledger' = ledger \cup TradeEntries(id, q)
    /\ trades' = trades \cup {[id |-> id, clientId |-> Quote[q].clientId, quoteId |-> q,
                               idempotencyKey |-> k, createdAt |-> at]}

Deposit(a, amount, id) ==
    /\ Fresh(id)
    /\ balances' = [balances EXCEPT ![a] = Available(@) + amount]
    /\ ledger' = ledger \cup {DepositEntry(id, a, amount)}
    /\ UNCHANGED <<quoteStatus, trades>>

Next ==
    \/ \E q \in QuoteIds : CreateQuote(q) \/ MarkExpired(q)
    \/ \E q \in QuoteIds, k \in Keys, id \in Ids, at \in Times : Execute(q, k, id, at)
    \/ \E a \in Accounts, amount \in DepositAmounts, id \in Ids : Deposit(a, amount, id)

Spec == Init /\ [][Next]_vars
=============================================================================
