---------------------------- MODULE SeedInvariant -----------------------------
(***************************************************************************)
(* The inductive invariants behind the properties of SeedLedger and        *)
(* ClientAuth: what a run of the seed script has done when it is the only  *)
(* one, and what a request to authenticate may still answer.               *)
(***************************************************************************)
EXTENDS ClientAuth

Seeding == {"findBalance", "updateBalance", "insertBalance", "insertEntry"}

\* A run past its first statement has its key and its client, and a currency to seed.
RunInv(s) ==
    LET r == run[s] IN
    /\ r.pc # "new" => r.key \in Keys
    /\ r.pc \in Seeding \cup {"updateHash", "complete"} => r.client \in Clients
    /\ r.pc \in Seeding \cup {"findClient", "insertClient", "updateHash"} => r.at \in DOMAIN Order
    /\ r.pc \in {"new", "findClient", "insertClient", "updateHash"} => r.at = 1

\* While no two runs have overlapped, at most one is in progress, and it inserts
\* a client only where there is none.
OneAtATime ==
    overlapped = {} =>
        /\ \A s, t \in Runs : InProgress(s) /\ InProgress(t) => s = t
        /\ \A s \in Runs : run[s].pc = "insertClient" => Clients = {}
        /\ \A c, d \in Clients : c = d

\* What a run in progress alone has restored by now.
Restored(s) ==
    LET r == run[s] IN
    Alone(s) /\ InProgress(s) =>
        /\ \A t \in Runs : InProgress(t) => t = s
        /\ r.pc \in Seeding =>
              /\ apiKeyHash[r.client] = r.key
              /\ \A i \in DOMAIN Order : i < r.at => balances[<<r.client, Order[i]>>] = Starting[Order[i]]
        /\ r.pc = "insertEntry" => balances[Account(s)] = Amount(s)

Untouched == Clients = {} /\ \A a \in Accounts : balances[a] = NoRow /\ ledger[a] = 0

\* The first run, as long as it is the only one and the service has not written
\* beside it: every balance is there with its entry, or neither is.
First(s) == Alone(s) /\ \A t \in Runs : t # s => run[t].pc = "new"
FirstSeed(s) ==
    LET r == run[s]
        A(i) == <<r.client, Order[i]>>
    IN
    First(s) =>
        /\ r.pc \in {"findClient", "insertClient"} => Untouched
        /\ r.pc \notin {"updateHash", "updateBalance"}
        /\ r.pc \in Seeding => \A i \in DOMAIN Order :
              /\ i < r.at => balances[A(i)] = ledger[A(i)]
              /\ i >= r.at => ledger[A(i)] = 0
              /\ i > r.at => balances[A(i)] = NoRow
        /\ r.pc \in {"findBalance", "insertBalance"} => balances[Account(s)] = NoRow
        /\ r.pc = "insertEntry" => balances[Account(s)] = Amount(s)
        /\ r.pc = "complete" => \A k \in Currencies : balances[<<r.client, k>>] = ledger[<<r.client, k>>]

SeedInv ==
    /\ TypeOK
    /\ \A s \in Runs : RunInv(s) /\ Restored(s) /\ FirstSeed(s)
    /\ OneAtATime
    /\ (\A s \in Runs : run[s].pc = "new") => Untouched

\* What a request may still answer was right at some instant since it came: each
\* row that its key opens, and the refusal unless such a row is left.
Candid(r) ==
    LET a == auth[r] IN
    /\ a.pc \in {"findAll", "compare"} => a.key \in Keys /\ RightAnswers(apiKeyHash, a.key) \subseteq right[r]
    /\ a.pc = "compare" =>
          /\ \A row \in a.candidates : row[2] = a.key => row[1] \in right[r]
          /\ Refused \in right[r] \/ \E row \in a.candidates : row[2] = a.key
    /\ a.pc = "done" => a.answer \in right[r]

AuthInv == AuthTypeOK /\ SeedInv /\ \A r \in Requests : Candid(r)
=============================================================================
