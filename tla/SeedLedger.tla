----------------------------- MODULE SeedLedger -----------------------------
(***************************************************************************)
(* src/db/seed.ts, run again and again beside a running service.           *)
(*                                                                         *)
(* The script awaits one statement after another, each committed on its    *)
(* own; a run may die between any two of them or fail at one, and a        *)
(* developer may start another, even before the last one has ended.  The   *)
(* service moves balances meanwhile, each time together with the ledger    *)
(* entry that justifies it.                                                *)
(***************************************************************************)
EXTENDS Integers, FiniteSets, Sequences

CONSTANTS
    Runs,           \* runs of the script
    ClientIds,      \* ids a clients row may be given
    Keys,           \* API keys
    Order,          \* the currencies, in the order the script seeds them
    Starting,       \* STARTING_BALANCES, in minor units
    Moves,          \* amounts by which the service may change a balance
    NoRow,          \* a row that does not exist
    MaxMoves        \* bound: changes made by the service

Currencies == {Order[i] : i \in DOMAIN Order}

ASSUME OrderAssumption ==
    /\ Order \in Seq(Currencies) /\ Order # <<>>
    /\ \A i, j \in DOMAIN Order : i # j => Order[i] # Order[j]
ASSUME StartingAssumption == Starting \in [Currencies -> Nat] /\ Moves \subseteq Int
ASSUME MoveAssumption == MaxMoves \in Nat
ASSUME NoRowAssumption == NoRow \notin Int \cup ClientIds \cup Keys

VARIABLES
    apiKeyHash, \* the key of each row of clients, or NoRow; all have SEED_CLIENT_NAME
    balances,   \* available_minor by client and currency, or NoRow
    ledger,     \* the sum of the ledger entries of each client and currency
    run,        \* where each run of the script is
    moves,      \* changes made by the service
    overlapped, \* history: the runs that were in progress beside another one
    disturbed   \* history: the runs beside which the service wrote

vars == <<apiKeyHash, balances, ledger, run, moves, overlapped, disturbed>>
history == <<overlapped, disturbed>>

Accounts == ClientIds \X Currencies

Run == [pc : {"new", "findClient", "insertClient", "updateHash", "findBalance",
              "updateBalance", "insertBalance", "insertEntry", "complete", "dead"},
        key : Keys \cup {NoRow},         \* SEED_CLIENT_API_KEY
        client : ClientIds \cup {NoRow},
        at : Nat]    \* the currency it seeds, by its place in Order

TypeOK ==
    /\ apiKeyHash \in [ClientIds -> Keys \cup {NoRow}]
    /\ balances \in [Accounts -> Nat \cup {NoRow}]
    /\ ledger \in [Accounts -> Int]
    /\ run \in [Runs -> Run]
    /\ \A s \in Runs : run[s].at \in 1..(Len(Order) + 1)
    /\ moves \in 0..MaxMoves
    /\ overlapped \subseteq Runs
    /\ disturbed \subseteq Runs

Init ==
    /\ apiKeyHash = [c \in ClientIds |-> NoRow]
    /\ balances = [a \in Accounts |-> NoRow]
    /\ ledger = [a \in Accounts |-> 0]
    /\ run = [s \in Runs |-> [pc |-> "new", key |-> NoRow, client |-> NoRow, at |-> 1]]
    /\ moves = 0
    /\ overlapped = {}
    /\ disturbed = {}

Clients == {c \in ClientIds : apiKeyHash[c] # NoRow}

InProgress(s) == run[s].pc \notin {"new", "complete", "dead"}
Account(s) == <<run[s].client, Order[run[s].at]>>
Amount(s) == Starting[Order[run[s].at]]

Continue(s, pc) == run' = [run EXCEPT ![s].pc = pc]

-----------------------------------------------------------------------------
\* The environment names the key, the same as last time or another.
Begin(s) ==
    /\ run[s].pc = "new"
    /\ \E key \in Keys : run' = [run EXCEPT ![s].pc = "findClient", ![s].key = key]
    /\ LET others == {t \in Runs : InProgress(t)}
       IN  overlapped' = overlapped \cup others \cup (IF others = {} THEN {} ELSE {s})
    /\ UNCHANGED <<apiKeyHash, balances, ledger, moves, disturbed>>

\* Mutant of Existing: the row is never looked for.
ExistingNone == {}

\* findFirst: any row with the name.
Existing == Clients

FindClient(s) ==
    /\ run[s].pc = "findClient"
    /\ IF Existing = {}
       THEN Continue(s, "insertClient")
       ELSE \E c \in Existing : run' = [run EXCEPT ![s].pc = "updateHash", ![s].client = c]
    /\ UNCHANGED <<apiKeyHash, balances, ledger, moves, history>>

\* clients.name has no unique index: the row goes in whatever is there.
InsertClient(s) ==
    /\ run[s].pc = "insertClient"
    /\ \E c \in ClientIds \ Clients :
          /\ apiKeyHash' = [apiKeyHash EXCEPT ![c] = run[s].key]
          /\ run' = [run EXCEPT ![s].pc = "findBalance", ![s].client = c]
    /\ UNCHANGED <<balances, ledger, moves, history>>

UpdateHash(s) ==
    /\ run[s].pc = "updateHash"
    /\ apiKeyHash' = [apiKeyHash EXCEPT ![run[s].client] = run[s].key]
    /\ Continue(s, "findBalance")
    /\ UNCHANGED <<balances, ledger, moves, history>>

FindBalance(s) ==
    /\ run[s].pc = "findBalance"
    /\ Continue(s, IF balances[Account(s)] = NoRow THEN "insertBalance" ELSE "updateBalance")
    /\ UNCHANGED <<apiKeyHash, balances, ledger, moves, history>>

\* Mutant of Seeded: the balance is incremented.
SeededOnTop(s) == balances[Account(s)] + Amount(s)

\* The balance is set, whatever it is by now.
Seeded(s) == Amount(s)

UpdateBalance(s) ==
    /\ run[s].pc = "updateBalance"
    /\ balances' = [balances EXCEPT ![Account(s)] = Seeded(s)]
    /\ Continue(s, "insertEntry")
    /\ UNCHANGED <<apiKeyHash, ledger, moves, history>>

\* The unique index on (client, currency) stops a run that lost a race.
InsertBalance(s) ==
    /\ run[s].pc = "insertBalance"
    /\ IF balances[Account(s)] = NoRow
       THEN /\ balances' = [balances EXCEPT ![Account(s)] = Amount(s)]
            /\ Continue(s, "insertEntry")
       ELSE Continue(s, "dead") /\ UNCHANGED balances
    /\ UNCHANGED <<apiKeyHash, ledger, moves, history>>

\* Mutant of Justified: the entry is left out.
JustifiedNot(s) == 0

\* The entry of the seeded amount, whatever the balance was before.
Justified(s) == Amount(s)

InsertEntry(s) ==
    /\ run[s].pc = "insertEntry"
    /\ ledger' = [ledger EXCEPT ![Account(s)] = @ + Justified(s)]
    /\ run' = [run EXCEPT ![s].at = @ + 1,
                          ![s].pc = IF run[s].at = Len(Order) THEN "complete" ELSE "findBalance"]
    /\ UNCHANGED <<apiKeyHash, balances, moves, history>>

\* The run is killed, or a statement fails.
Die(s) ==
    /\ InProgress(s)
    /\ Continue(s, "dead")
    /\ UNCHANGED <<apiKeyHash, balances, ledger, moves, history>>

\* Mutant of Sufficient: the balance is not compared with the payment.
SufficientAlways(available, amount) == TRUE

\* A trade that would overdraw the balance is refused.
Sufficient(available, amount) == available + amount >= 0

\* A deposit or a leg of a trade: the balance and its entry in one transaction.
ServiceMoves(a, amount) ==
    /\ a[1] \in Clients
    /\ moves < MaxMoves
    /\ LET available == IF balances[a] = NoRow THEN 0 ELSE balances[a]
       IN  /\ Sufficient(available, amount)
           /\ balances' = [balances EXCEPT ![a] = available + amount]
    /\ ledger' = [ledger EXCEPT ![a] = @ + amount]
    /\ moves' = moves + 1
    /\ disturbed' = disturbed \cup {s \in Runs : InProgress(s)}
    /\ UNCHANGED <<apiKeyHash, run, overlapped>>

Step(s) ==
    \/ Begin(s) \/ FindClient(s) \/ InsertClient(s) \/ UpdateHash(s) \/ FindBalance(s)
    \/ UpdateBalance(s) \/ InsertBalance(s) \/ InsertEntry(s) \/ Die(s)

Next ==
    \/ \E s \in Runs : Step(s)
    \/ \E a \in Accounts, amount \in Moves : ServiceMoves(a, amount)

Spec == Init /\ [][Next]_vars
-----------------------------------------------------------------------------
Alone(s) == s \notin overlapped \cup disturbed

\* Running the script again, after a complete run or one that died anywhere,
\* never makes a second client as long as no two runs overlap (the comment of
\* seed.ts: "re-running it won't duplicate the client").
OneSeedClient == overlapped = {} => Cardinality(Clients) <= 1

\* A run that completes alone leaves its client with its key and every balance
\* at its starting value, whatever trades and runs cut short have left before it
\* (the comments of seed.ts: "balances are set (not incremented)", "Keep the hash
\* in sync in case SEED_CLIENT_API_KEY changed").
ReseedRestores ==
    [][\A s \in Runs : Alone(s) /\ run'[s].pc = "complete" /\ run[s].pc # "complete" =>
          /\ apiKeyHash'[run[s].client] = run[s].key
          /\ \A k \in Currencies : balances'[<<run[s].client, k>>] = Starting[k]]_vars

\* While only one run has begun, and it completed alone, the ledger adds up to
\* the balances, whatever the service does afterwards.  A second run breaks it:
\* it sets the balances again and adds the same entries once more.
FirstSeedIsBacked ==
    \A s \in Runs :
        Alone(s) /\ run[s].pc = "complete" /\ (\A t \in Runs : t # s => run[t].pc = "new") =>
            \A k \in Currencies : balances[<<run[s].client, k>>] = ledger[<<run[s].client, k>>]
=============================================================================
