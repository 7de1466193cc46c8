-------------------------- MODULE ClientAuth_proofs ---------------------------
(***************************************************************************)
(* Theorems about the seed script and about authentication beside it, for  *)
(* any number of runs, clients, keys, currencies and requests.             *)
(*                                                                         *)
(* A step of run s leaves the other runs what they were (OtherRuns); what  *)
(* is left to show is what becomes true of s itself (RunSteps).            *)
(***************************************************************************)
EXTENDS SeedInvariant, TLAPS, FiniteSetTheorems, SequenceTheorems

Pcs == {"new", "findClient", "insertClient", "updateHash", "findBalance",
        "updateBalance", "insertBalance", "insertEntry", "complete", "dead"}

LEMMA OrderFacts ==
  /\ DOMAIN Order = 1..Len(Order) /\ Len(Order) \in Nat \ {0} /\ 1 \in DOMAIN Order
  /\ \A i \in DOMAIN Order : Order[i] \in Currencies /\ Starting[Order[i]] \in Nat
  /\ \A k \in Currencies : \E i \in DOMAIN Order : k = Order[i]
<1>1. Order \in Seq(Currencies) /\ Order # <<>>
  BY OrderAssumption
<1>2. DOMAIN Order = 1..Len(Order) /\ Len(Order) \in Nat \ {0}
  BY <1>1
<1>3. \A i \in DOMAIN Order : Order[i] \in Currencies
  BY DEF Currencies
<1>4. \A k \in Currencies : \E i \in DOMAIN Order : k = Order[i]
  BY DEF Currencies
<1> QED BY <1>2, <1>3, <1>4, StartingAssumption

LEMMA RunTypes ==
  ASSUME TypeOK, NEW s \in Runs
  PROVE  /\ run[s].pc \in Pcs /\ run[s].key \in Keys \cup {NoRow} /\ run[s].client \in ClientIds \cup {NoRow}
         /\ run[s].at \in Nat /\ run[s].at \in 1..(Len(Order) + 1)
BY DEF TypeOK, Run, Pcs

\* A step that only moves the program counter of a run.
LEMMA Continues ==
  ASSUME TypeOK, NEW s \in Runs, NEW pc, pc \in Pcs, Continue(s, pc)
  PROVE  /\ run' \in [Runs -> Run]
         /\ \A t \in Runs : t # s => run'[t] = run[t]
         /\ run'[s].pc = pc /\ run'[s].key = run[s].key /\ run'[s].client = run[s].client
         /\ run'[s].at = run[s].at
         /\ \A t \in Runs : run'[t].at \in 1..(Len(Order) + 1)
<1>1. run \in [Runs -> Run] /\ \A t \in Runs : run[t].at \in 1..(Len(Order) + 1)
  BY DEF TypeOK
<1>2. run' = [run EXCEPT ![s].pc = pc]
  BY DEF Continue
<1>3. /\ \A t \in Runs : t # s => run'[t] = run[t]
      /\ run'[s].pc = pc /\ run'[s].key = run[s].key /\ run'[s].client = run[s].client
      /\ run'[s].at = run[s].at
  BY <1>1, <1>2 DEF Run
<1>4. run' \in [Runs -> Run]
  BY <1>1, <1>2 DEF Run, Pcs
<1> QED BY <1>1, <1>3, <1>4

\* The key and the balance of a client row are of their types.
LEMMA RowTypes ==
  ASSUME TypeOK
  PROVE  /\ \A c \in Clients : c \in ClientIds /\ apiKeyHash[c] \in Keys
         /\ \A c \in ClientIds : apiKeyHash[c] \in Keys => c \in Clients
         /\ NoRow \notin Keys /\ NoRow \notin Int /\ NoRow \notin ClientIds
BY NoRowAssumption DEF TypeOK, Clients

-----------------------------------------------------------------------------
(* One step of one run *)

LEMMA OtherRuns ==
  ASSUME SeedInv, NEW s \in Runs, NEW t \in Runs, t # s, run'[t] = run[t], run'[s].pc # "new",
         Clients \subseteq Clients', overlapped \subseteq overlapped', disturbed \subseteq disturbed',
         InProgress(s) \/ (InProgress(t) => t \in overlapped')
  PROVE  RunInv(t)' /\ Restored(t)' /\ FirstSeed(t)'
<1>1. RunInv(t)'
  BY DEF SeedInv, RunInv
<1>2. Restored(t)'
  <2>1. ~ (Alone(t)' /\ InProgress(t)')
    BY DEF SeedInv, Restored, Alone, InProgress
  <2> QED BY <2>1 DEF Restored, Alone
<1>3. FirstSeed(t)'
  BY DEF FirstSeed, First
<1> QED BY <1>1, <1>2, <1>3

LEMMA RunSteps ==
  ASSUME SeedInv, NEW s \in Runs, InProgress(s), TypeOK',
         \A t \in Runs : t # s => run'[t] = run[t],
         run'[s].pc # "new", UNCHANGED history, Clients \subseteq Clients',
         RunInv(s)', Restored(s)', FirstSeed(s)',
         overlapped = {} /\ run'[s].pc = "insertClient" => Clients' = {},
         overlapped = {} => \A c, d \in Clients' : c = d
  PROVE  SeedInv'
<1>1. overlapped' = overlapped /\ disturbed' = disturbed
  BY DEF history
<1>2. \A t \in Runs : RunInv(t)' /\ Restored(t)' /\ FirstSeed(t)'
  BY <1>1, OtherRuns
<1>3. \A t \in Runs : InProgress(t)' => InProgress(t)
  BY DEF InProgress
<1>4. OneAtATime'
  <2> SUFFICES ASSUME overlapped = {}
               PROVE  /\ \A u, t \in Runs : InProgress(u)' /\ InProgress(t)' => u = t
                      /\ \A t \in Runs : run'[t].pc = "insertClient" => Clients' = {}
                      /\ \A c, d \in Clients' : c = d
    BY <1>1 DEF OneAtATime
  <2>1. \A u, t \in Runs : InProgress(u) /\ InProgress(t) => u = t
    BY DEF SeedInv, OneAtATime
  <2>2. ASSUME NEW t \in Runs, run'[t].pc = "insertClient" PROVE Clients' = {}
    <3>1. t = s
      BY <2>1, <2>2 DEF InProgress
    <3> QED BY <2>2, <3>1
  <2> QED BY <1>3, <2>1, <2>2
<1>5. ~ \A t \in Runs : run'[t].pc = "new"
  OBVIOUS
<1> QED BY <1>2, <1>4, <1>5 DEF SeedInv

\* What is known of the run that makes a step, before it.
LEMMA OwnFacts ==
  ASSUME SeedInv, NEW s \in Runs, InProgress(s), \A t \in Runs : t # s => run'[t] = run[t],
         UNCHANGED history
  PROVE  /\ TypeOK /\ RunInv(s) /\ Restored(s) /\ FirstSeed(s)
         /\ Alone(s)' = Alone(s) /\ First(s)' = First(s)
         /\ Alone(s) => \A t \in Runs : InProgress(t)' => t = s
<1>1. overlapped' = overlapped /\ disturbed' = disturbed
  BY DEF history
<1>2. TypeOK /\ RunInv(s) /\ Restored(s) /\ FirstSeed(s)
  BY DEF SeedInv
<1>3. Alone(s)' = Alone(s)
  BY <1>1 DEF Alone
<1>4. First(s)' = First(s)
  BY <1>3 DEF First
<1>5. Alone(s) => \A t \in Runs : InProgress(t)' => t = s
  BY <1>2 DEF Restored, InProgress
<1> QED BY <1>2, <1>3, <1>4, <1>5

\* The account a run seeds, and those of its other currencies.
LEMMA AccountFacts ==
  ASSUME TypeOK, NEW s \in Runs, RunInv(s), run[s].pc \in Seeding
  PROVE  /\ run[s].client \in Clients /\ run[s].client \in ClientIds
         /\ run[s].at \in DOMAIN Order /\ run[s].at \in Nat
         /\ Account(s) \in Accounts /\ Amount(s) \in Nat
         /\ Account(s) = <<run[s].client, Order[run[s].at]>>
         /\ Amount(s) = Starting[Order[run[s].at]]
         /\ \A i \in DOMAIN Order : <<run[s].client, Order[i]>> \in Accounts
         /\ \A i \in DOMAIN Order : i # run[s].at => <<run[s].client, Order[i]>> # Account(s)
<1>1. run[s].client \in Clients /\ run[s].client \in ClientIds
  BY RowTypes DEF RunInv
<1>2. run[s].at \in DOMAIN Order /\ run[s].at \in Nat
  BY OrderFacts DEF RunInv
<1>3. \A i \in DOMAIN Order : <<run[s].client, Order[i]>> \in Accounts
  BY <1>1, OrderFacts DEF Accounts
<1>4. \A i \in DOMAIN Order : i # run[s].at => <<run[s].client, Order[i]>> # Account(s)
  BY <1>2, OrderAssumption DEF Account
<1> QED BY <1>1, <1>2, <1>3, <1>4, OrderFacts DEF Account, Amount

LEMMA BeginInv ==
  ASSUME SeedInv, NEW s \in Runs, Begin(s)
  PROVE  SeedInv'
<1>1. PICK key \in Keys : run' = [run EXCEPT ![s].pc = "findClient", ![s].key = key]
  BY DEF Begin
<1>2. /\ run[s].pc = "new"
      /\ UNCHANGED <<apiKeyHash, balances, ledger, moves, disturbed>>
  BY DEF Begin
<1>3. TypeOK
  BY DEF SeedInv
<1>4. run \in [Runs -> Run]
  BY <1>3 DEF TypeOK
<1>5. /\ \A t \in Runs : t # s => run'[t] = run[t]
      /\ run'[s].pc = "findClient" /\ run'[s].key = key /\ run'[s].at = run[s].at
      /\ run'[s].client = run[s].client
  BY <1>1, <1>4 DEF Run
<1>6. run' \in [Runs -> Run]
  BY <1>1, <1>4 DEF Run
<1> DEFINE others == {t \in Runs : InProgress(t)}
<1>7. overlapped' = overlapped \cup others \cup (IF others = {} THEN {} ELSE {s})
  BY DEF Begin
<1>8. overlapped' \subseteq Runs /\ overlapped \subseteq overlapped'
  BY <1>3, <1>7 DEF TypeOK
<1>9. TypeOK'
  <2>1. \A t \in Runs : run'[t].at \in 1..(Len(Order) + 1)
    BY <1>3, <1>5 DEF TypeOK
  <2> QED BY <1>2, <1>3, <1>6, <1>8, <2>1 DEF TypeOK
<1>10. Clients' = Clients
  BY <1>2 DEF Clients
<1>11. RunInv(s)'
  <2>1. run[s].at = 1
    BY <1>2 DEF SeedInv, RunInv
  <2> QED BY <2>1, <1>5, OrderFacts DEF RunInv, Seeding
<1>12. \A t \in Runs : InProgress(t)' => t = s \/ t \in others
  BY <1>5 DEF InProgress
<1>13. Restored(s)'
  <2>1. Alone(s)' => others = {}
    BY <1>7 DEF Alone
  <2> QED BY <2>1, <1>5, <1>12 DEF Restored, Seeding
<1>14. FirstSeed(s)'
  <2>1. First(s)' => \A t \in Runs : run[t].pc = "new"
    BY <1>2, <1>5 DEF First
  <2>2. First(s)' => Untouched
    BY <2>1 DEF SeedInv
  <2>3. First(s)' => Untouched'
    BY <2>2, <1>2, <1>10 DEF Untouched
  <2> QED BY <2>3, <1>5 DEF FirstSeed, Seeding
<1>15. \A t \in Runs : RunInv(t)' /\ Restored(t)' /\ FirstSeed(t)'
  <2> SUFFICES ASSUME NEW t \in Runs, t # s PROVE RunInv(t)' /\ Restored(t)' /\ FirstSeed(t)'
    BY <1>11, <1>13, <1>14
  <2>1. InProgress(t) => t \in overlapped'
    BY <1>7
  <2>2. run'[t] = run[t] /\ run'[s].pc # "new" /\ disturbed \subseteq disturbed'
    BY <1>2, <1>5
  <2> QED BY <2>1, <2>2, <1>8, <1>10, OtherRuns
<1>16. OneAtATime'
  <2> SUFFICES ASSUME overlapped' = {}
               PROVE  /\ \A u, t \in Runs : InProgress(u)' /\ InProgress(t)' => u = t
                      /\ \A t \in Runs : run'[t].pc = "insertClient" => Clients' = {}
                      /\ \A c, d \in Clients' : c = d
    BY DEF OneAtATime
  <2>1. overlapped = {} /\ others = {}
    BY <1>7
  <2>2. \A t \in Runs : InProgress(t)' => t = s
    BY <2>1, <1>12
  <2>3. \A t \in Runs : run'[t].pc # "insertClient"
    BY <2>2, <1>5 DEF InProgress
  <2>4. \A c, d \in Clients : c = d
    BY <2>1 DEF SeedInv, OneAtATime
  <2> QED BY <2>2, <2>3, <2>4, <1>10
<1>17. ~ \A t \in Runs : run'[t].pc = "new"
  BY <1>5
<1> QED BY <1>9, <1>15, <1>16, <1>17 DEF SeedInv

LEMMA FindClientInv ==
  ASSUME SeedInv, NEW s \in Runs, FindClient(s)
  PROVE  SeedInv'
<1>1. run[s].pc = "findClient" /\ UNCHANGED <<apiKeyHash, balances, ledger, moves, history>>
  BY DEF FindClient
<1>2. TypeOK /\ InProgress(s) /\ run \in [Runs -> Run] /\ Clients \subseteq ClientIds
  BY <1>1 DEF SeedInv, InProgress, TypeOK, Clients
<1>3. \/ /\ Clients = {}
         /\ run' = [run EXCEPT ![s].pc = "insertClient"]
      \/ \E c \in Clients : run' = [run EXCEPT ![s].pc = "updateHash", ![s].client = c]
  BY DEF FindClient, Existing, Continue
<1>4. /\ \A t \in Runs : t # s => run'[t] = run[t]
      /\ run'[s].key = run[s].key /\ run'[s].at = run[s].at
      /\ \/ run'[s].pc = "insertClient" /\ Clients = {}
         \/ run'[s].pc = "updateHash" /\ run'[s].client \in Clients
      /\ run' \in [Runs -> Run]
  BY <1>2, <1>3 DEF Run
<1>5. /\ RunInv(s) /\ FirstSeed(s) /\ First(s)' = First(s)
      /\ Alone(s)' = Alone(s) /\ (Alone(s) => \A t \in Runs : InProgress(t)' => t = s)
  BY <1>1, <1>2, <1>4, OwnFacts
<1>6. TypeOK'
  <2>1. \A t \in Runs : run'[t].at \in 1..(Len(Order) + 1)
    BY <1>2, <1>4 DEF TypeOK
  <2> QED BY <1>1, <1>2, <1>4, <2>1 DEF TypeOK, history
<1>7. Clients' = Clients
  BY <1>1 DEF Clients
<1>8. RunInv(s)'
  BY <1>1, <1>4, <1>5, <1>7 DEF RunInv, Seeding
<1>9. Restored(s)'
  BY <1>4, <1>5 DEF Restored, Seeding
<1>10. FirstSeed(s)'
  <2>1. First(s) => Untouched
    BY <1>1, <1>5 DEF FirstSeed
  <2>2. First(s) => Untouched' /\ Clients = {}
    BY <2>1, <1>1, <1>7 DEF Untouched
  <2> QED BY <2>2, <1>4, <1>5 DEF FirstSeed, Seeding
<1>11. overlapped = {} => \A c, d \in Clients' : c = d
  BY <1>7 DEF SeedInv, OneAtATime
<1> QED BY <1>1, <1>2, <1>4, <1>6, <1>7, <1>8, <1>9, <1>10, <1>11, RunSteps

LEMMA InsertClientInv ==
  ASSUME SeedInv, NEW s \in Runs, InsertClient(s)
  PROVE  SeedInv'
<1>1. run[s].pc = "insertClient" /\ UNCHANGED <<balances, ledger, moves, history>>
  BY DEF InsertClient
<1>2. PICK c \in ClientIds \ Clients :
         /\ apiKeyHash' = [apiKeyHash EXCEPT ![c] = run[s].key]
         /\ run' = [run EXCEPT ![s].pc = "findBalance", ![s].client = c]
  BY DEF InsertClient
<1>3. TypeOK /\ InProgress(s) /\ run \in [Runs -> Run]
  BY <1>1 DEF SeedInv, InProgress, TypeOK
<1>4. /\ \A t \in Runs : t # s => run'[t] = run[t]
      /\ run'[s].pc = "findBalance" /\ run'[s].key = run[s].key /\ run'[s].at = run[s].at
      /\ run'[s].client = c /\ run' \in [Runs -> Run]
  BY <1>2, <1>3 DEF Run
<1>5. /\ RunInv(s) /\ FirstSeed(s) /\ First(s)' = First(s)
      /\ Alone(s)' = Alone(s) /\ (Alone(s) => \A t \in Runs : InProgress(t)' => t = s)
  BY <1>1, <1>3, <1>4, OwnFacts
<1>6. run[s].key \in Keys /\ run[s].at = 1 /\ 1 \in DOMAIN Order
  BY <1>1, <1>5, OrderFacts DEF RunInv
<1>7. TypeOK'
  <2>1. \A t \in Runs : run'[t].at \in 1..(Len(Order) + 1)
    BY <1>3, <1>4 DEF TypeOK
  <2>2. apiKeyHash' \in [ClientIds -> Keys \cup {NoRow}]
    BY <1>2, <1>3, <1>6 DEF TypeOK
  <2> QED BY <1>1, <1>3, <1>4, <2>1, <2>2 DEF TypeOK, history
<1>8. apiKeyHash'[c] = run[s].key /\ Clients' = Clients \cup {c}
  BY <1>2, <1>3, <1>6, RowTypes DEF TypeOK, Clients
<1>9. RunInv(s)'
  BY <1>4, <1>6, <1>8 DEF RunInv, Seeding
<1>10. Restored(s)'
  <2>1. \A i \in DOMAIN Order : ~ (i < 1)
    BY OrderFacts
  <2> QED BY <2>1, <1>4, <1>5, <1>6, <1>8 DEF Restored
<1>11. FirstSeed(s)'
  <2>1. First(s) => Untouched
    BY <1>1, <1>5 DEF FirstSeed
  <2>2. \A i \in DOMAIN Order : <<c, Order[i]>> \in Accounts /\ ~ (i < 1)
    BY OrderFacts DEF Accounts
  <2>3. First(s) => \A i \in DOMAIN Order :
           balances'[<<c, Order[i]>>] = NoRow /\ ledger'[<<c, Order[i]>>] = 0
    BY <2>1, <2>2, <1>1 DEF Untouched
  <2>4. First(s) => balances'[Account(s)'] = NoRow
    BY <2>3, <1>4, <1>6 DEF Account
  <2> QED BY <2>2, <2>3, <2>4, <1>4, <1>5, <1>6 DEF FirstSeed, Seeding
<1>12. overlapped = {} => Clients = {}
  BY <1>1 DEF SeedInv, OneAtATime
<1>13. overlapped = {} => \A d, e \in Clients' : d = e
  BY <1>8, <1>12
<1> QED BY <1>1, <1>3, <1>4, <1>7, <1>8, <1>9, <1>10, <1>11, <1>13, RunSteps

LEMMA UpdateHashInv ==
  ASSUME SeedInv, NEW s \in Runs, UpdateHash(s)
  PROVE  SeedInv'
<1>1. run[s].pc = "updateHash" /\ UNCHANGED <<balances, ledger, moves, history>>
  BY DEF UpdateHash
<1>2. apiKeyHash' = [apiKeyHash EXCEPT ![run[s].client] = run[s].key] /\ Continue(s, "findBalance")
  BY DEF UpdateHash
<1>3. TypeOK /\ InProgress(s)
  BY <1>1 DEF SeedInv, InProgress
<1>4. /\ run' \in [Runs -> Run]
      /\ \A t \in Runs : t # s => run'[t] = run[t]
      /\ run'[s].pc = "findBalance" /\ run'[s].key = run[s].key
      /\ run'[s].client = run[s].client /\ run'[s].at = run[s].at
      /\ \A t \in Runs : run'[t].at \in 1..(Len(Order) + 1)
  BY <1>2, <1>3, Continues DEF Pcs
<1>5. /\ RunInv(s) /\ FirstSeed(s) /\ First(s)' = First(s)
      /\ Alone(s)' = Alone(s) /\ (Alone(s) => \A t \in Runs : InProgress(t)' => t = s)
  BY <1>1, <1>3, <1>4, OwnFacts
<1>6. run[s].key \in Keys /\ run[s].client \in Clients /\ run[s].at = 1 /\ 1 \in DOMAIN Order
  BY <1>1, <1>5, OrderFacts DEF RunInv
<1>7. TypeOK'
  <2>1. apiKeyHash' \in [ClientIds -> Keys \cup {NoRow}]
    BY <1>2, <1>3, <1>6 DEF TypeOK
  <2> QED BY <1>1, <1>3, <1>4, <2>1 DEF TypeOK, history
<1>8. apiKeyHash'[run[s].client] = run[s].key /\ Clients' = Clients
  BY <1>2, <1>3, <1>6, RowTypes DEF TypeOK, Clients
<1>9. RunInv(s)'
  BY <1>4, <1>6, <1>8 DEF RunInv, Seeding
<1>10. Restored(s)'
  <2>1. \A i \in DOMAIN Order : ~ (i < 1)
    BY OrderFacts
  <2> QED BY <2>1, <1>4, <1>5, <1>6, <1>8 DEF Restored
<1>11. FirstSeed(s)'
  BY <1>1, <1>5 DEF FirstSeed
<1>12. overlapped = {} => \A d, e \in Clients' : d = e
  BY <1>8 DEF SeedInv, OneAtATime
<1> QED BY <1>1, <1>3, <1>4, <1>7, <1>8, <1>9, <1>10, <1>11, <1>12, RunSteps

LEMMA FindBalanceInv ==
  ASSUME SeedInv, NEW s \in Runs, FindBalance(s)
  PROVE  SeedInv'
<1> DEFINE pc == IF balances[Account(s)] = NoRow THEN "insertBalance" ELSE "updateBalance"
<1>1. run[s].pc = "findBalance" /\ UNCHANGED <<apiKeyHash, balances, ledger, moves, history>>
  BY DEF FindBalance
<1>2. Continue(s, pc) /\ pc \in Pcs
  BY DEF FindBalance, Pcs
<1>3. TypeOK /\ InProgress(s)
  BY <1>1 DEF SeedInv, InProgress
<1>4. /\ run' \in [Runs -> Run]
      /\ \A t \in Runs : t # s => run'[t] = run[t]
      /\ run'[s].pc = pc /\ run'[s].key = run[s].key
      /\ run'[s].client = run[s].client /\ run'[s].at = run[s].at
      /\ \A t \in Runs : run'[t].at \in 1..(Len(Order) + 1)
  BY <1>2, <1>3, Continues
<1>5. /\ RunInv(s) /\ Restored(s) /\ FirstSeed(s) /\ First(s)' = First(s)
      /\ Alone(s)' = Alone(s) /\ (Alone(s) => \A t \in Runs : InProgress(t)' => t = s)
  BY <1>1, <1>3, <1>4, OwnFacts
<1>6. TypeOK'
  BY <1>1, <1>3, <1>4 DEF TypeOK, history
<1>7. Clients' = Clients /\ Account(s)' = Account(s)
  BY <1>1, <1>4 DEF Clients, Account
<1>8. RunInv(s)'
  BY <1>1, <1>4, <1>5, <1>7 DEF RunInv, Seeding
<1>9. Restored(s)'
  BY <1>1, <1>3, <1>4, <1>5 DEF Restored, Seeding
<1>10. FirstSeed(s)'
  <2>1. First(s) => balances[Account(s)] = NoRow
    BY <1>1, <1>5 DEF FirstSeed
  <2> QED BY <2>1, <1>1, <1>4, <1>5, <1>7 DEF FirstSeed, Seeding
<1>11. overlapped = {} => \A d, e \in Clients' : d = e
  BY <1>7 DEF SeedInv, OneAtATime
<1> HIDE DEF pc
<1>12. run'[s].pc # "new" /\ run'[s].pc # "insertClient"
  BY <1>4 DEF pc
<1> QED BY <1>1, <1>3, <1>4, <1>6, <1>7, <1>8, <1>9, <1>10, <1>11, <1>12, RunSteps

LEMMA UpdateBalanceInv ==
  ASSUME SeedInv, NEW s \in Runs, UpdateBalance(s)
  PROVE  SeedInv'
<1>1. run[s].pc = "updateBalance" /\ UNCHANGED <<apiKeyHash, ledger, moves, history>>
  BY DEF UpdateBalance
<1>2. balances' = [balances EXCEPT ![Account(s)] = Amount(s)] /\ Continue(s, "insertEntry")
  BY DEF UpdateBalance, Seeded
<1>3. TypeOK /\ InProgress(s)
  BY <1>1 DEF SeedInv, InProgress
<1>4. /\ run' \in [Runs -> Run]
      /\ \A t \in Runs : t # s => run'[t] = run[t]
      /\ run'[s].pc = "insertEntry" /\ run'[s].key = run[s].key
      /\ run'[s].client = run[s].client /\ run'[s].at = run[s].at
      /\ \A t \in Runs : run'[t].at \in 1..(Len(Order) + 1)
  BY <1>2, <1>3, Continues DEF Pcs
<1>5. /\ RunInv(s) /\ Restored(s) /\ FirstSeed(s) /\ First(s)' = First(s)
      /\ Alone(s)' = Alone(s) /\ (Alone(s) => \A t \in Runs : InProgress(t)' => t = s)
  BY <1>1, <1>3, <1>4, OwnFacts
<1>6. run[s].pc \in Seeding
  BY <1>1 DEF Seeding
<1>7. TypeOK'
  <2>1. balances' \in [Accounts -> Nat \cup {NoRow}]
    BY <1>2, <1>3, <1>5, <1>6, AccountFacts DEF TypeOK
  <2> QED BY <1>1, <1>3, <1>4, <2>1 DEF TypeOK, history
<1>8. Clients' = Clients /\ Account(s)' = Account(s) /\ Amount(s)' = Amount(s)
  BY <1>1, <1>4 DEF Clients, Account, Amount
<1>9. /\ balances'[Account(s)] = Amount(s)
      /\ \A i \in DOMAIN Order : i # run[s].at =>
            balances'[<<run[s].client, Order[i]>>] = balances[<<run[s].client, Order[i]>>]
  BY <1>2, <1>3, <1>5, <1>6, AccountFacts DEF TypeOK
<1>10. RunInv(s)'
  BY <1>1, <1>4, <1>5, <1>8 DEF RunInv, Seeding
<1>11. Restored(s)'
  <2>1. \A i \in DOMAIN Order : i < run[s].at => i # run[s].at
    BY OrderFacts
  <2>2. balances'[Account(s)'] = Amount(s)'
    BY <1>8, <1>9
  <2>3. Alone(s) => apiKeyHash[run[s].client] = run[s].key
    BY <1>3, <1>5, <1>6 DEF Restored
  <2>4. Alone(s) => \A i \in DOMAIN Order :
           i < run[s].at => balances[<<run[s].client, Order[i]>>] = Starting[Order[i]]
    BY <1>3, <1>5, <1>6 DEF Restored
  <2>5. Alone(s) => \A i \in DOMAIN Order :
           i < run[s].at => balances'[<<run[s].client, Order[i]>>] = Starting[Order[i]]
    BY <2>1, <2>4, <1>9
  <2> QED BY <2>2, <2>3, <2>5, <1>1, <1>4, <1>5 DEF Restored
<1>12. FirstSeed(s)'
  BY <1>1, <1>5 DEF FirstSeed
<1>13. overlapped = {} => \A d, e \in Clients' : d = e
  BY <1>8 DEF SeedInv, OneAtATime
<1> QED BY <1>1, <1>3, <1>4, <1>7, <1>8, <1>10, <1>11, <1>12, <1>13, RunSteps

\* A run that ends leaves nothing to be shown of it.
LEMMA DeadRuns ==
  ASSUME SeedInv, NEW s \in Runs, InProgress(s), Continue(s, "dead"),
         UNCHANGED <<apiKeyHash, balances, ledger, moves, history>>
  PROVE  SeedInv'
<1>1. TypeOK
  BY DEF SeedInv
<1>2. /\ run' \in [Runs -> Run]
      /\ \A t \in Runs : t # s => run'[t] = run[t]
      /\ run'[s].pc = "dead" /\ run'[s].key = run[s].key
      /\ run'[s].client = run[s].client /\ run'[s].at = run[s].at
      /\ \A t \in Runs : run'[t].at \in 1..(Len(Order) + 1)
  BY <1>1, Continues DEF Pcs
<1>3. TypeOK'
  BY <1>1, <1>2 DEF TypeOK, history
<1>4. Clients' = Clients /\ RunInv(s)
  BY DEF Clients, SeedInv
<1>5. RunInv(s)'
  BY <1>2, <1>4 DEF RunInv, Seeding, InProgress
<1>6. Restored(s)' /\ FirstSeed(s)'
  BY <1>2 DEF Restored, FirstSeed, InProgress, Seeding
<1>7. overlapped = {} => \A d, e \in Clients' : d = e
  BY <1>4 DEF SeedInv, OneAtATime
<1>8. UNCHANGED history
  OBVIOUS
<1> QED BY <1>2, <1>3, <1>4, <1>5, <1>6, <1>7, <1>8, RunSteps

LEMMA InsertBalanceInv ==
  ASSUME SeedInv, NEW s \in Runs, InsertBalance(s)
  PROVE  SeedInv'
<1>1. run[s].pc = "insertBalance" /\ UNCHANGED <<apiKeyHash, ledger, moves, history>>
  BY DEF InsertBalance
<1>2. TypeOK /\ InProgress(s)
  BY <1>1 DEF SeedInv, InProgress
<1>3. CASE balances[Account(s)] # NoRow
  <2>1. Continue(s, "dead") /\ balances' = balances
    BY <1>3 DEF InsertBalance
  <2> QED BY <2>1, <1>1, <1>2, DeadRuns
<1>4. CASE balances[Account(s)] = NoRow
  <2>1. balances' = [balances EXCEPT ![Account(s)] = Amount(s)] /\ Continue(s, "insertEntry")
    BY <1>4 DEF InsertBalance
  <2>2. /\ run' \in [Runs -> Run]
        /\ \A t \in Runs : t # s => run'[t] = run[t]
        /\ run'[s].pc = "insertEntry" /\ run'[s].key = run[s].key
        /\ run'[s].client = run[s].client /\ run'[s].at = run[s].at
        /\ \A t \in Runs : run'[t].at \in 1..(Len(Order) + 1)
    BY <2>1, <1>2, Continues DEF Pcs
  <2>3. /\ RunInv(s) /\ Restored(s) /\ FirstSeed(s) /\ First(s)' = First(s)
        /\ Alone(s)' = Alone(s) /\ (Alone(s) => \A t \in Runs : InProgress(t)' => t = s)
    BY <2>2, <1>1, <1>2, OwnFacts
  <2>4. run[s].pc \in Seeding
    BY <1>1 DEF Seeding
  <2>5. TypeOK'
    <3>1. balances' \in [Accounts -> Nat \cup {NoRow}]
      BY <2>1, <1>2, <2>3, <2>4, AccountFacts DEF TypeOK
    <3> QED BY <1>1, <1>2, <2>2, <3>1 DEF TypeOK, history
  <2>6. Clients' = Clients /\ Account(s)' = Account(s) /\ Amount(s)' = Amount(s)
    BY <1>1, <2>2 DEF Clients, Account, Amount
  <2>7. /\ balances'[Account(s)] = Amount(s)
        /\ \A i \in DOMAIN Order : i # run[s].at =>
              balances'[<<run[s].client, Order[i]>>] = balances[<<run[s].client, Order[i]>>]
    BY <1>2, <2>1, <2>3, <2>4, AccountFacts DEF TypeOK
  <2>8. RunInv(s)'
    BY <1>1, <2>2, <2>3, <2>6 DEF RunInv, Seeding
  <2>9. \A i \in DOMAIN Order : (i < run[s].at => i # run[s].at) /\ (i > run[s].at => i # run[s].at)
    BY <2>3, <2>4, <1>2, AccountFacts, OrderFacts
  <2>10. balances'[Account(s)'] = Amount(s)'
    BY <2>6, <2>7
  <2>11. Restored(s)'
    <3>1. Alone(s) => apiKeyHash[run[s].client] = run[s].key
      BY <1>2, <2>3, <2>4 DEF Restored
    <3>2. Alone(s) => \A i \in DOMAIN Order :
             i < run[s].at => balances[<<run[s].client, Order[i]>>] = Starting[Order[i]]
      BY <1>2, <2>3, <2>4 DEF Restored
    <3>3. Alone(s) => \A i \in DOMAIN Order :
             i < run[s].at => balances'[<<run[s].client, Order[i]>>] = Starting[Order[i]]
      BY <2>7, <2>9, <3>2
    <3> QED BY <2>10, <3>1, <3>3, <1>1, <2>2, <2>3 DEF Restored
  <2>12. FirstSeed(s)'
    <3> SUFFICES ASSUME First(s) PROVE FirstSeed(s)'
      BY <2>3 DEF FirstSeed
    <3>1. \A i \in DOMAIN Order :
             LET a == <<run[s].client, Order[i]>> IN
             /\ i < run[s].at => balances[a] = ledger[a]
             /\ i >= run[s].at => ledger[a] = 0
             /\ i > run[s].at => balances[a] = NoRow
      BY <2>3, <2>4 DEF FirstSeed
    <3>2. \A i \in DOMAIN Order :
             LET a == <<run[s].client, Order[i]>> IN
             /\ i < run[s].at => balances'[a] = ledger'[a]
             /\ i >= run[s].at => ledger'[a] = 0
             /\ i > run[s].at => balances'[a] = NoRow
      BY <3>1, <2>7, <2>9, <1>1
    <3> QED BY <3>2, <2>10, <2>2 DEF FirstSeed
  <2>13. overlapped = {} => \A d, e \in Clients' : d = e
    BY <2>6 DEF SeedInv, OneAtATime
  <2> QED BY <1>1, <1>2, <2>2, <2>5, <2>6, <2>8, <2>11, <2>12, <2>13, RunSteps
<1> QED BY <1>3, <1>4

LEMMA InsertEntryInv ==
  ASSUME SeedInv, NEW s \in Runs, InsertEntry(s)
  PROVE  SeedInv'
<1> DEFINE pc == IF run[s].at = Len(Order) THEN "complete" ELSE "findBalance"
<1>1. /\ run[s].pc = "insertEntry" /\ UNCHANGED <<apiKeyHash, balances, moves, history>>
      /\ ledger' = [ledger EXCEPT ![Account(s)] = @ + Amount(s)]
      /\ run' = [run EXCEPT ![s].at = @ + 1, ![s].pc = pc]
  BY DEF InsertEntry, Justified
<1>2. TypeOK /\ InProgress(s) /\ run[s].pc \in Seeding /\ run \in [Runs -> Run]
  BY <1>1 DEF SeedInv, InProgress, Seeding, TypeOK
<1>3. RunInv(s)
  BY DEF SeedInv
<1>4. /\ run[s].at \in DOMAIN Order /\ run[s].at \in Nat
      /\ run[s].at + 1 \in 1..(Len(Order) + 1)
      /\ run[s].at # Len(Order) => run[s].at + 1 \in DOMAIN Order
  BY <1>2, <1>3, AccountFacts, OrderFacts
<1>5. /\ \A t \in Runs : t # s => run'[t] = run[t]
      /\ run'[s].pc = pc /\ run'[s].key = run[s].key /\ run'[s].at = run[s].at + 1
      /\ run'[s].client = run[s].client
  BY <1>1, <1>2 DEF Run
<1>6. run' \in [Runs -> Run]
  <2>1. pc \in Pcs /\ run[s] \in Run
    BY <1>2 DEF Pcs
  <2> QED BY <2>1, <1>1, <1>2, <1>4 DEF Run, Pcs
<1>7. pc \in {"complete", "findBalance"}
  OBVIOUS
<1>8. /\ Restored(s) /\ FirstSeed(s) /\ First(s)' = First(s)
      /\ Alone(s)' = Alone(s) /\ (Alone(s) => \A t \in Runs : InProgress(t)' => t = s)
  BY <1>1, <1>2, <1>5, OwnFacts
<1>9. TypeOK'
  <2>1. \A t \in Runs : run'[t].at \in 1..(Len(Order) + 1)
    BY <1>2, <1>4, <1>5 DEF TypeOK
  <2>2. ledger' \in [Accounts -> Int]
    BY <1>1, <1>2, <1>3, AccountFacts DEF TypeOK
  <2> QED BY <1>1, <1>2, <1>6, <2>1, <2>2 DEF TypeOK, history
<1>10. Clients' = Clients
  BY <1>1 DEF Clients
<1>11. RunInv(s)'
  <2>1. pc = "findBalance" => run[s].at + 1 \in DOMAIN Order
    BY <1>4
  <2>2. run[s].pc # "new" /\ run[s].client \in Clients
    BY <1>1, <1>2, <1>3, AccountFacts
  <2> QED BY <2>1, <2>2, <1>3, <1>5, <1>7, <1>10 DEF RunInv, Seeding
<1>12. balances[Account(s)] = Amount(s) \/ ~ (Alone(s) \/ First(s))
  BY <1>1, <1>2, <1>8 DEF Restored, First
<1>13. \A i \in DOMAIN Order :
          /\ i < run[s].at + 1 => i < run[s].at \/ i = run[s].at
          /\ i >= run[s].at + 1 => i >= run[s].at /\ i # run[s].at
          /\ i > run[s].at + 1 => i > run[s].at
          /\ i = run[s].at + 1 => i > run[s].at
  BY <1>4, OrderFacts
<1>14. Alone(s) => \A i \in DOMAIN Order :
          i < run[s].at + 1 => balances[<<run[s].client, Order[i]>>] = Starting[Order[i]]
  <2> SUFFICES ASSUME Alone(s), NEW i \in DOMAIN Order, i < run[s].at + 1
               PROVE  balances[<<run[s].client, Order[i]>>] = Starting[Order[i]]
    OBVIOUS
  <2>1. CASE i < run[s].at
    BY <2>1, <1>2, <1>8 DEF Restored
  <2>2. CASE i = run[s].at
    BY <2>2, <1>12 DEF Account, Amount
  <2> QED BY <2>1, <2>2, <1>13
<1>15. Restored(s)'
  <2>1. Alone(s) => apiKeyHash[run[s].client] = run[s].key
    BY <1>2, <1>8 DEF Restored
  <2> QED BY <2>1, <1>1, <1>5, <1>7, <1>8, <1>14 DEF Restored
<1>16. /\ First(s) => ledger'[Account(s)] = Amount(s)
       /\ \A i \in DOMAIN Order : i # run[s].at =>
             ledger'[<<run[s].client, Order[i]>>] = ledger[<<run[s].client, Order[i]>>]
  <2>1. First(s) => ledger[Account(s)] = 0
    <3>1. run[s].at >= run[s].at
      BY <1>4
    <3> QED BY <3>1, <1>2, <1>4, <1>8 DEF FirstSeed, Account
  <2> QED BY <2>1, <1>1, <1>2, <1>3, AccountFacts DEF TypeOK
<1>17. First(s) => \A i \in DOMAIN Order :
          LET a == <<run[s].client, Order[i]>> IN
          /\ i < run[s].at + 1 => balances[a] = ledger'[a]
          /\ i >= run[s].at + 1 => ledger'[a] = 0 /\ balances[a] = NoRow
  <2> SUFFICES ASSUME First(s), NEW i \in DOMAIN Order
               PROVE  LET a == <<run[s].client, Order[i]>> IN
                      /\ i < run[s].at + 1 => balances[a] = ledger'[a]
                      /\ i >= run[s].at + 1 => ledger'[a] = 0 /\ balances[a] = NoRow
    OBVIOUS
  <2>1. LET a == <<run[s].client, Order[i]>> IN
        /\ i < run[s].at => balances[a] = ledger[a]
        /\ i >= run[s].at => ledger[a] = 0
        /\ i > run[s].at => balances[a] = NoRow
    BY <1>2, <1>8 DEF FirstSeed
  <2>2. i = run[s].at => balances[<<run[s].client, Order[i]>>] = ledger'[<<run[s].client, Order[i]>>]
    BY <1>12, <1>16 DEF Account
  <2>3. i >= run[s].at + 1 => i > run[s].at
    BY <1>4, OrderFacts
  <2> QED BY <2>1, <2>2, <2>3, <1>13, <1>16
<1>18. FirstSeed(s)'
  <2> SUFFICES ASSUME First(s) PROVE FirstSeed(s)'
    BY <1>8 DEF FirstSeed
  <2>1. CASE pc = "complete"
    <3>1. \A i \in DOMAIN Order : i < run[s].at + 1
      BY <2>1, <1>4, OrderFacts
    <3>2. \A k \in Currencies : balances'[<<run'[s].client, k>>] = ledger'[<<run'[s].client, k>>]
      BY <3>1, <1>1, <1>5, <1>17, OrderFacts
    <3> QED BY <2>1, <3>2, <1>5 DEF FirstSeed, Seeding
  <2>2. CASE pc = "findBalance"
    <3>1. \A i \in DOMAIN Order : i > run[s].at + 1 => i >= run[s].at + 1
      BY <1>4, OrderFacts
    <3>2. run[s].at + 1 \in DOMAIN Order /\ run[s].at + 1 >= run[s].at + 1
      BY <2>2, <1>4
    <3>3. balances'[Account(s)'] = NoRow
      BY <3>2, <1>1, <1>5, <1>17 DEF Account
    <3>4. \A i \in DOMAIN Order :
             LET a == <<run[s].client, Order[i]>> IN
             /\ i < run[s].at + 1 => balances'[a] = ledger'[a]
             /\ i >= run[s].at + 1 => ledger'[a] = 0
             /\ i > run[s].at + 1 => balances'[a] = NoRow
      BY <3>1, <1>1, <1>17
    <3> QED BY <2>2, <3>3, <3>4, <1>5 DEF FirstSeed
  <2> QED BY <2>1, <2>2, <1>7
<1>19. overlapped = {} => \A d, e \in Clients' : d = e
  BY <1>10 DEF SeedInv, OneAtATime
<1>20. run'[s].pc # "new" /\ run'[s].pc # "insertClient" /\ UNCHANGED history
  BY <1>1, <1>5, <1>7
<1> QED BY <1>2, <1>5, <1>9, <1>10, <1>11, <1>15, <1>18, <1>19, <1>20, RunSteps

LEMMA ServiceMovesInv ==
  ASSUME SeedInv, NEW a \in Accounts, NEW amount \in Moves, ServiceMoves(a, amount)
  PROVE  SeedInv'
<1> DEFINE available == IF balances[a] = NoRow THEN 0 ELSE balances[a]
<1>1. /\ a[1] \in Clients /\ moves < MaxMoves /\ moves' = moves + 1
      /\ available + amount >= 0
      /\ balances' = [balances EXCEPT ![a] = available + amount]
      /\ ledger' = [ledger EXCEPT ![a] = @ + amount]
      /\ disturbed' = disturbed \cup {s \in Runs : InProgress(s)}
      /\ apiKeyHash' = apiKeyHash /\ run' = run /\ overlapped' = overlapped
  BY DEF ServiceMoves, Sufficient
<1>2. TypeOK
  BY DEF SeedInv
<1>3. amount \in Int /\ available \in Nat
  BY <1>2, StartingAssumption DEF TypeOK
<1>4. TypeOK'
  <2>1. available + amount \in Nat
    BY <1>1, <1>3
  <2>2. balances' \in [Accounts -> Nat \cup {NoRow}]
    BY <2>1, <1>1, <1>2 DEF TypeOK
  <2>3. ledger' \in [Accounts -> Int]
    BY <1>1, <1>2, <1>3 DEF TypeOK
  <2>4. moves' \in 0..MaxMoves
    BY <1>1, <1>2, MoveAssumption DEF TypeOK
  <2>5. disturbed' \subseteq Runs
    BY <1>1, <1>2 DEF TypeOK
  <2> QED BY <1>1, <1>2, <2>2, <2>3, <2>4, <2>5 DEF TypeOK
<1>5. Clients' = Clients
  BY <1>1 DEF Clients
<1>6. ASSUME NEW s \in Runs PROVE RunInv(s)' /\ Restored(s)' /\ FirstSeed(s)'
  <2>1. RunInv(s) /\ FirstSeed(s)
    BY DEF SeedInv
  <2>2. RunInv(s)'
    BY <2>1, <1>1, <1>5 DEF RunInv
  <2>3. Alone(s)' => ~ InProgress(s) /\ ~ InProgress(s)' /\ Alone(s)
    BY <1>1 DEF Alone, InProgress
  <2>4. Restored(s)'
    BY <2>3 DEF Restored
  <2>5. FirstSeed(s)'
    <3> SUFFICES ASSUME First(s)' PROVE FirstSeed(s)'
      BY DEF FirstSeed
    <3>1. First(s) /\ run[s].pc \in {"new", "complete", "dead"}
      BY <2>3, <1>1 DEF First, InProgress
    <3>2. ASSUME run[s].pc = "complete", NEW k \in Currencies
          PROVE  balances'[<<run[s].client, k>>] = ledger'[<<run[s].client, k>>]
      <4>1. run[s].client \in ClientIds /\ <<run[s].client, k>> \in Accounts
        BY <3>2, <2>1, RowTypes, <1>2 DEF RunInv, Accounts
      <4>2. balances[<<run[s].client, k>>] = ledger[<<run[s].client, k>>]
        BY <3>1, <3>2, <2>1 DEF FirstSeed
      <4>3. ledger[<<run[s].client, k>>] \in Int /\ NoRow \notin Int
        BY <4>1, <1>2, RowTypes DEF TypeOK
      <4>4. CASE a = <<run[s].client, k>>
        <5>1. available = balances[a]
          BY <4>2, <4>3, <4>4
        <5> QED BY <5>1, <4>2, <4>4, <1>1, <1>2 DEF TypeOK
      <4>5. CASE a # <<run[s].client, k>>
        BY <4>1, <4>2, <4>5, <1>1, <1>2 DEF TypeOK
      <4> QED BY <4>4, <4>5
    <3> QED BY <3>1, <3>2, <1>1 DEF FirstSeed, Seeding
  <2> QED BY <2>2, <2>4, <2>5
<1>7. OneAtATime'
  BY <1>1, <1>5 DEF SeedInv, OneAtATime, InProgress
<1>8. ~ \A s \in Runs : run'[s].pc = "new"
  BY <1>1 DEF SeedInv, Untouched
<1> QED BY <1>4, <1>6, <1>7, <1>8 DEF SeedInv

-----------------------------------------------------------------------------
(* The script *)

LEMMA SeedInit == Init => SeedInv
<1> SUFFICES ASSUME Init PROVE SeedInv
  OBVIOUS
<1>1. 1 \in DOMAIN Order /\ 1 \in 1..(Len(Order) + 1)
  BY OrderFacts
<1>2. TypeOK
  BY <1>1, MoveAssumption DEF Init, TypeOK, Run
<1>3. Clients = {}
  BY DEF Init, Clients
<1>4. Untouched
  BY <1>3 DEF Init, Untouched
<1>5. \A s \in Runs : run[s].pc = "new" /\ run[s].at = 1
  BY DEF Init
<1>6. \A s \in Runs : RunInv(s) /\ Restored(s) /\ FirstSeed(s)
  BY <1>5 DEF RunInv, Restored, FirstSeed, InProgress, Seeding
<1>7. OneAtATime
  BY <1>3, <1>5 DEF OneAtATime, InProgress
<1> QED BY <1>2, <1>4, <1>6, <1>7 DEF SeedInv

LEMMA SeedStutter ==
  ASSUME SeedInv, UNCHANGED vars
  PROVE  SeedInv'
<1>1. /\ apiKeyHash' = apiKeyHash /\ balances' = balances /\ ledger' = ledger /\ run' = run
      /\ moves' = moves /\ overlapped' = overlapped /\ disturbed' = disturbed
  BY DEF vars
<1>2. TypeOK' /\ Clients' = Clients
  BY <1>1 DEF SeedInv, TypeOK, Clients
<1>3. OneAtATime'
  BY <1>1, <1>2 DEF SeedInv, OneAtATime, InProgress
<1>4. \A s \in Runs : RunInv(s)' /\ Restored(s)' /\ FirstSeed(s)'
  <2> SUFFICES ASSUME NEW s \in Runs PROVE RunInv(s)' /\ Restored(s)' /\ FirstSeed(s)'
    OBVIOUS
  <2>1. RunInv(s) /\ Restored(s) /\ FirstSeed(s)
    BY DEF SeedInv
  <2>2. /\ Alone(s)' = Alone(s) /\ InProgress(s)' = InProgress(s) /\ Untouched' = Untouched
        /\ Account(s)' = Account(s) /\ Amount(s)' = Amount(s) /\ First(s)' = First(s)
    BY <1>1, <1>2 DEF Alone, InProgress, Untouched, Account, Amount, First
  <2>3. RunInv(s)'
    BY <2>1, <1>1, <1>2 DEF RunInv
  <2>4. Restored(s)'
    BY <2>1, <2>2, <1>1 DEF Restored, InProgress
  <2>5. FirstSeed(s)'
    BY <2>1, <2>2, <1>1 DEF FirstSeed
  <2> QED BY <2>3, <2>4, <2>5
<1>5. (\A s \in Runs : run'[s].pc = "new") => Untouched'
  BY <1>1, <1>2 DEF SeedInv, Untouched
<1> QED BY <1>2, <1>3, <1>4, <1>5 DEF SeedInv

LEMMA SeedNext == SeedInv /\ [Next]_vars => SeedInv'
<1> SUFFICES ASSUME SeedInv, [Next]_vars PROVE SeedInv'
  OBVIOUS
<1>1. ASSUME NEW s \in Runs, Step(s) PROVE SeedInv'
  <2>1. CASE Die(s)
    BY <2>1, DeadRuns DEF Die
  <2> QED BY <1>1, <2>1, BeginInv, FindClientInv, InsertClientInv, UpdateHashInv, FindBalanceInv,
             UpdateBalanceInv, InsertBalanceInv, InsertEntryInv DEF Step
<1> QED BY <1>1, ServiceMovesInv, SeedStutter DEF Next

\* In every reachable state of the script beside the service, a run in progress
\* alone has restored the currencies before the one it is at, the first run has
\* left each account untouched or backed, and runs that have not overlapped have
\* made one client between them (src/db/seed.ts).
THEOREM SeedInductive == Spec => []SeedInv
BY SeedInit, SeedNext, PTL DEF Spec

\* However often the script is run again, after runs that completed or died
\* anywhere, it makes no second client as long as no two runs overlap.
THEOREM OneClientIsMade == Spec => []OneSeedClient
<1>1. SeedInv => OneSeedClient
  <2> SUFFICES ASSUME SeedInv, overlapped = {} PROVE Cardinality(Clients) <= 1
    BY DEF OneSeedClient
  <2>1. \A c, d \in Clients : c = d
    BY DEF SeedInv, OneAtATime
  <2>2. Clients = {} \/ \E c \in Clients : Clients = {c}
    BY <2>1
  <2>3. Cardinality(Clients) = 0 \/ Cardinality(Clients) = 1
    BY <2>2, FS_EmptySet, FS_Singleton
  <2> QED BY <2>3
<1> QED BY <1>1, SeedInductive, PTL

\* Until a second run begins, the entries of a first run that completed alone
\* add up to the balances it set, whatever the service has booked since.
THEOREM FirstRunIsBacked == Spec => []FirstSeedIsBacked
<1>1. SeedInv => FirstSeedIsBacked
  BY DEF SeedInv, FirstSeedIsBacked, FirstSeed, First
<1> QED BY <1>1, SeedInductive, PTL

\* The step that completes a run that was alone leaves its client with the run's
\* key and every balance at its starting value.
THEOREM RerunRestores == Spec => ReseedRestores
<1> DEFINE Restoring ==
      \A s \in Runs : Alone(s) /\ run'[s].pc = "complete" /\ run[s].pc # "complete" =>
         /\ apiKeyHash'[run[s].client] = run[s].key
         /\ \A k \in Currencies : balances'[<<run[s].client, k>>] = Starting[k]
<1>1. SeedInv /\ [Next]_vars => [Restoring]_vars
  <2> SUFFICES ASSUME SeedInv, Next PROVE Restoring
    OBVIOUS
  <2> SUFFICES ASSUME NEW s \in Runs, Alone(s), run'[s].pc = "complete", run[s].pc # "complete"
               PROVE  /\ apiKeyHash'[run[s].client] = run[s].key
                      /\ \A k \in Currencies : balances'[<<run[s].client, k>>] = Starting[k]
    OBVIOUS
  <2>1. TypeOK /\ RunInv(s) /\ Restored(s) /\ run \in [Runs -> Run]
    BY DEF SeedInv, TypeOK
  <2>2. \A t \in Runs, pc \in Pcs : Continue(t, pc) => run'[s] = run[s] \/ run'[s].pc = pc
    BY <2>1, Continues
  <2>3. PICK t \in Runs : Step(t)
    BY DEF Next, ServiceMoves
  <2>4. InsertEntry(t) /\ t = s
    <3>1. ~ Begin(t)
      BY <2>1 DEF Begin, Run
    <3>2. ~ FindClient(t) /\ ~ UpdateHash(t) /\ ~ FindBalance(t)
      BY <2>1, <2>2 DEF FindClient, UpdateHash, FindBalance, Pcs, Run
    <3>3. ~ UpdateBalance(t) /\ ~ InsertBalance(t) /\ ~ Die(t)
      BY <2>2 DEF UpdateBalance, InsertBalance, Die, Pcs
    <3>4. ~ InsertClient(t)
      BY <2>1 DEF InsertClient, Run
    <3>5. InsertEntry(t)
      BY <2>3, <3>1, <3>2, <3>3, <3>4 DEF Step
    <3> QED BY <2>1, <3>5 DEF InsertEntry
  <2>5. /\ run[s].pc = "insertEntry" /\ apiKeyHash' = apiKeyHash /\ balances' = balances
        /\ run' = [run EXCEPT ![s].at = @ + 1,
                      ![s].pc = IF run[s].at = Len(Order) THEN "complete" ELSE "findBalance"]
    BY <2>4 DEF InsertEntry
  <2>6. run[s].at = Len(Order)
    <3>1. run'[s].pc = IF run[s].at = Len(Order) THEN "complete" ELSE "findBalance"
      BY <2>1, <2>5 DEF Run
    <3> QED BY <3>1
  <2>7. run[s].pc \in Seeding /\ InProgress(s)
    BY <2>5 DEF Seeding, InProgress
  <2>8. /\ apiKeyHash[run[s].client] = run[s].key
        /\ \A i \in DOMAIN Order :
              i < run[s].at => balances[<<run[s].client, Order[i]>>] = Starting[Order[i]]
        /\ balances[Account(s)] = Amount(s)
    BY <2>1, <2>5, <2>7 DEF Restored
  <2>9. \A i \in DOMAIN Order : i < run[s].at \/ i = run[s].at
    BY <2>6, OrderFacts
  <2>10. \A i \in DOMAIN Order : balances[<<run[s].client, Order[i]>>] = Starting[Order[i]]
    BY <2>8, <2>9 DEF Account, Amount
  <2> QED BY <2>5, <2>8, <2>10, OrderFacts
<1> QED BY <1>1, SeedInductive, PTL DEF Spec, ReseedRestores

-----------------------------------------------------------------------------
(* Authentication beside the script *)

LEMMA RightTypes ==
  ASSUME NEW hashes \in [ClientIds -> Keys \cup {NoRow}], NEW key
  PROVE  /\ RightAnswers(hashes, key) \subseteq ClientIds \cup {Refused}
         /\ \A c \in ClientIds : hashes[c] = key => c \in RightAnswers(hashes, key)
         /\ Refused \in RightAnswers(hashes, key) \/ \E c \in ClientIds : hashes[c] = key
BY DEF RightAnswers

\* What was right stays noted, and what is right now is added while a request waits.
LEMMA Observes ==
  ASSUME Observe, TypeOK', auth' \in [Requests -> Auth],
         right \in [Requests -> SUBSET (ClientIds \cup {Refused})]
  PROVE  /\ right' \in [Requests -> SUBSET (ClientIds \cup {Refused})]
         /\ \A r \in Requests : right[r] \subseteq right'[r]
         /\ \A r \in Requests : auth'[r].pc # "idle" /\ auth[r].pc # "done" =>
               RightAnswers(apiKeyHash', auth'[r].key) \subseteq right'[r]
<1>1. ASSUME NEW r \in Requests
      PROVE  RightAnswers(apiKeyHash', auth'[r].key) \subseteq ClientIds \cup {Refused}
  BY RightTypes DEF TypeOK
<1>2. right' = [r \in Requests |->
                  IF auth'[r].pc = "idle" \/ auth[r].pc = "done" THEN right[r]
                  ELSE right[r] \cup RightAnswers(apiKeyHash', auth'[r].key)]
  BY DEF Observe
<1>3. ASSUME NEW r \in Requests
      PROVE  right'[r] = IF auth'[r].pc = "idle" \/ auth[r].pc = "done" THEN right[r]
                         ELSE right[r] \cup RightAnswers(apiKeyHash', auth'[r].key)
  BY <1>2
<1>4. right' \in [Requests -> SUBSET (ClientIds \cup {Refused})]
  <2>1. ASSUME NEW r \in Requests PROVE right'[r] \in SUBSET (ClientIds \cup {Refused})
    BY <1>1, <1>3
  <2> QED BY <1>2, <2>1
<1>5. \A r \in Requests : right[r] \subseteq right'[r]
  BY <1>3
<1> QED BY <1>3, <1>4, <1>5

\* A request that does not move stays candid while others do.
LEMMA CandidStays ==
  ASSUME Observe, TypeOK', auth' \in [Requests -> Auth],
         right \in [Requests -> SUBSET (ClientIds \cup {Refused})],
         NEW r \in Requests, Candid(r), auth'[r] = auth[r]
  PROVE  Candid(r)'
<1>1. /\ right[r] \subseteq right'[r]
      /\ auth'[r].pc # "idle" /\ auth[r].pc # "done" =>
            RightAnswers(apiKeyHash', auth'[r].key) \subseteq right'[r]
  BY Observes
<1> QED BY <1>1 DEF Candid

LEMMA AuthTypes ==
  ASSUME AuthInv, NEW r \in Requests
  PROVE  /\ auth \in [Requests -> Auth] /\ auth[r] \in Auth
         /\ right \in [Requests -> SUBSET (ClientIds \cup {Refused})]
         /\ TypeOK /\ SeedInv /\ \A q \in Requests : Candid(q)
BY DEF AuthInv, AuthTypeOK

\* One request moves: what is left to show is that it stays candid.
LEMMA OneRequest ==
  ASSUME AuthInv, UNCHANGED vars, Observe, NEW r \in Requests,
         auth' \in [Requests -> Auth], \A q \in Requests : q # r => auth'[q] = auth[q],
         Candid(r)'
  PROVE  AuthInv'
<1>1. SeedInv' /\ TypeOK'
  BY SeedStutter DEF AuthInv, SeedInv
<1>2. /\ right \in [Requests -> SUBSET (ClientIds \cup {Refused})]
      /\ \A q \in Requests : Candid(q)
  BY AuthTypes
<1>3. AuthTypeOK'
  BY <1>1, <1>2, Observes DEF AuthTypeOK
<1>4. ASSUME NEW q \in Requests, q # r PROVE Candid(q)'
  BY <1>1, <1>2, <1>4, CandidStays
<1> QED BY <1>1, <1>3, <1>4 DEF AuthInv

LEMMA PresentInv ==
  ASSUME AuthInv, UNCHANGED vars, Observe, NEW r \in Requests, NEW key \in Keys, Present(r, key)
  PROVE  AuthInv'
<1>1. /\ auth \in [Requests -> Auth] /\ auth[r] \in Auth
      /\ right \in [Requests -> SUBSET (ClientIds \cup {Refused})]
      /\ auth[r].pc = "idle" /\ auth' = [auth EXCEPT ![r].pc = "findAll", ![r].key = key]
  BY AuthTypes DEF Present
<1>2. /\ auth' \in [Requests -> Auth] /\ auth'[r].pc = "findAll" /\ auth'[r].key = key
      /\ \A q \in Requests : q # r => auth'[q] = auth[q]
  BY <1>1 DEF Auth
<1>3. TypeOK'
  BY SeedStutter DEF AuthInv, SeedInv
<1>4. RightAnswers(apiKeyHash', auth'[r].key) \subseteq right'[r]
  BY <1>1, <1>2, <1>3, Observes
<1>5. Candid(r)'
  BY <1>2, <1>4 DEF Candid
<1> QED BY <1>2, <1>5, OneRequest

LEMMA FindAllInv ==
  ASSUME AuthInv, UNCHANGED vars, Observe, NEW r \in Requests, FindAll(r)
  PROVE  AuthInv'
<1> DEFINE rows == {<<c, apiKeyHash[c]>> : c \in Clients}
<1>1. /\ auth \in [Requests -> Auth] /\ auth[r] \in Auth
      /\ right \in [Requests -> SUBSET (ClientIds \cup {Refused})]
      /\ TypeOK /\ Candid(r) /\ apiKeyHash' = apiKeyHash
      /\ auth[r].pc = "findAll" /\ auth' = [auth EXCEPT ![r].pc = "compare", ![r].candidates = rows]
  BY AuthTypes DEF FindAll, Rows, vars
<1>2. rows \subseteq ClientIds \X Keys
  BY <1>1, RowTypes
<1>3. /\ auth'[r].pc = "compare" /\ auth'[r].key = auth[r].key /\ auth'[r].candidates = rows
      /\ auth'[r].answer = auth[r].answer
      /\ \A q \in Requests : q # r => auth'[q] = auth[q]
  BY <1>1 DEF Auth
<1>4. auth' \in [Requests -> Auth]
  <2> HIDE DEF rows
  <2> QED BY <1>1, <1>2 DEF Auth
<1>5. TypeOK'
  BY SeedStutter DEF AuthInv, SeedInv
<1> DEFINE key == auth[r].key
<1>6. RightAnswers(apiKeyHash, key) \subseteq right'[r]
  BY <1>1, <1>3, <1>4, <1>5, Observes
<1>7. key \in Keys
  BY <1>1 DEF Candid
<1>8. apiKeyHash \in [ClientIds -> Keys \cup {NoRow}]
  BY <1>1 DEF TypeOK
<1>9. \A row \in rows : row[2] = key => row[1] \in right'[r]
  BY <1>1, <1>6, <1>8, RightTypes, RowTypes
<1>10. Refused \in right'[r] \/ \E row \in rows : row[2] = key
  <2>1. CASE Refused \in RightAnswers(apiKeyHash, key)
    BY <2>1, <1>6
  <2>2. CASE \E c \in ClientIds : apiKeyHash[c] = key
    <3>1. PICK c \in ClientIds : apiKeyHash[c] = key
      BY <2>2
    <3>2. c \in Clients /\ <<c, apiKeyHash[c]>> \in rows
      BY <3>1, <1>1, <1>7, RowTypes
    <3> QED BY <3>1, <3>2
  <2> QED BY <2>1, <2>2, <1>8, RightTypes
<1>11. Candid(r)'
  BY <1>1, <1>3, <1>6, <1>7, <1>9, <1>10 DEF Candid
<1> QED BY <1>3, <1>4, <1>11, OneRequest

LEMMA CompareInv ==
  ASSUME AuthInv, UNCHANGED vars, Observe, NEW r \in Requests, NEW row \in auth[r].candidates,
         Compare(r, row)
  PROVE  AuthInv'
<1>1. /\ auth \in [Requests -> Auth] /\ auth[r] \in Auth
      /\ right \in [Requests -> SUBSET (ClientIds \cup {Refused})]
      /\ Candid(r) /\ apiKeyHash' = apiKeyHash /\ auth[r].pc = "compare"
  BY AuthTypes DEF Compare, vars
<1>2. TypeOK'
  BY SeedStutter DEF AuthInv, SeedInv
<1>3. row \in ClientIds \X Keys
  BY <1>1 DEF Auth
<1>4. CASE row[2] = auth[r].key
  <2>1. auth' = [auth EXCEPT ![r] = [@ EXCEPT !.pc = "done", !.answer = row[1], !.candidates = {}]]
    BY <1>4 DEF Compare
  <2>2. /\ auth' \in [Requests -> Auth] /\ auth'[r].pc = "done" /\ auth'[r].answer = row[1]
        /\ \A q \in Requests : q # r => auth'[q] = auth[q]
    BY <2>1, <1>1, <1>3 DEF Auth
  <2>3. row[1] \in right[r] /\ right[r] \subseteq right'[r]
    BY <1>1, <1>2, <1>4, <2>2, Observes DEF Candid
  <2>4. Candid(r)'
    BY <2>2, <2>3 DEF Candid
  <2> QED BY <2>2, <2>4, OneRequest
<1>5. CASE row[2] # auth[r].key
  <2>1. auth' = [auth EXCEPT ![r] = [@ EXCEPT !.candidates = auth[r].candidates \ {row}]]
    BY <1>5 DEF Compare
  <2>2. /\ auth' \in [Requests -> Auth] /\ auth'[r].pc = "compare" /\ auth'[r].key = auth[r].key
        /\ auth'[r].candidates = auth[r].candidates \ {row}
        /\ \A q \in Requests : q # r => auth'[q] = auth[q]
    BY <2>1, <1>1 DEF Auth
  <2>3. /\ right[r] \subseteq right'[r]
        /\ RightAnswers(apiKeyHash', auth'[r].key) \subseteq right'[r]
    BY <1>1, <1>2, <2>2, Observes
  <2>4. Candid(r)'
    BY <1>1, <1>5, <2>2, <2>3 DEF Candid
  <2> QED BY <2>2, <2>4, OneRequest
<1> QED BY <1>4, <1>5

LEMMA NoneLeftInv ==
  ASSUME AuthInv, UNCHANGED vars, Observe, NEW r \in Requests, NoneLeft(r)
  PROVE  AuthInv'
<1>1. /\ auth \in [Requests -> Auth] /\ auth[r] \in Auth
      /\ right \in [Requests -> SUBSET (ClientIds \cup {Refused})]
      /\ Candid(r) /\ auth[r].pc = "compare" /\ auth[r].candidates = {}
      /\ auth' = [auth EXCEPT ![r].pc = "done", ![r].answer = Refused]
  BY AuthTypes DEF NoneLeft
<1>2. TypeOK'
  BY SeedStutter DEF AuthInv, SeedInv
<1>3. /\ auth' \in [Requests -> Auth] /\ auth'[r].pc = "done" /\ auth'[r].answer = Refused
      /\ \A q \in Requests : q # r => auth'[q] = auth[q]
  BY <1>1 DEF Auth
<1>4. Refused \in right[r] /\ right[r] \subseteq right'[r]
  BY <1>1, <1>2, <1>3, Observes DEF Candid
<1>5. Candid(r)'
  BY <1>3, <1>4 DEF Candid
<1> QED BY <1>3, <1>5, OneRequest

LEMMA AuthInitInv == AuthInit => AuthInv
<1> SUFFICES ASSUME AuthInit PROVE AuthInv
  OBVIOUS
<1>1. SeedInv /\ TypeOK
  BY SeedInit DEF AuthInit, SeedInv
<1>2. AuthTypeOK
  BY <1>1 DEF AuthInit, AuthTypeOK, Auth
<1>3. \A r \in Requests : auth[r].pc = "idle"
  BY DEF AuthInit
<1> QED BY <1>1, <1>2, <1>3 DEF AuthInv, Candid

LEMMA AuthNextInv == AuthInv /\ [AuthNext]_<<vars, authVars>> => AuthInv'
<1> SUFFICES ASSUME AuthInv, [AuthNext]_<<vars, authVars>> PROVE AuthInv'
  OBVIOUS
<1>1. ASSUME NEW r \in Requests, Authenticate(r), UNCHANGED vars, Observe PROVE AuthInv'
  BY <1>1, PresentInv, FindAllInv, CompareInv, NoneLeftInv DEF Authenticate
<1>2. ASSUME Next, UNCHANGED auth, Observe PROVE AuthInv'
  <2>1. /\ auth \in [Requests -> Auth] /\ right \in [Requests -> SUBSET (ClientIds \cup {Refused})]
        /\ \A r \in Requests : Candid(r)
    BY DEF AuthInv, AuthTypeOK
  <2>2. SeedInv' /\ TypeOK'
    BY <1>2, SeedNext DEF AuthInv, SeedInv
  <2>3. AuthTypeOK'
    BY <1>2, <2>1, <2>2, Observes DEF AuthTypeOK
  <2>4. ASSUME NEW r \in Requests PROVE Candid(r)'
    BY <1>2, <2>1, <2>2, CandidStays
  <2> QED BY <2>2, <2>3, <2>4 DEF AuthInv
<1>3. ASSUME UNCHANGED <<vars, authVars>> PROVE AuthInv'
  <2>1. UNCHANGED vars /\ auth' = auth /\ right' = right /\ apiKeyHash' = apiKeyHash
    BY <1>3 DEF authVars, vars
  <2>2. SeedInv' /\ TypeOK'
    BY <2>1, SeedStutter DEF AuthInv, SeedInv
  <2>3. AuthTypeOK'
    BY <2>1, <2>2 DEF AuthInv, AuthTypeOK
  <2>4. \A r \in Requests : Candid(r)'
    BY <2>1 DEF AuthInv, Candid
  <2> QED BY <2>2, <2>3, <2>4 DEF AuthInv
<1> QED BY <1>1, <1>2, <1>3 DEF AuthNext

\* In every reachable state, what a request to authenticate may still answer was
\* right at some instant since it came (src/modules/clients/client-auth.service.ts).
THEOREM AuthInductive == AuthSpec => []AuthInv
BY AuthInitInv, AuthNextInv, PTL DEF AuthSpec

\* Every answer of authenticate was right at some instant between the request
\* and the answer, whatever runs of the seed script do to the rows meanwhile.
THEOREM AnswersWereRight == AuthSpec => []AnswerWasRight
<1>1. AuthInv => AnswerWasRight
  BY DEF AuthInv, AnswerWasRight, Candid
<1> QED BY <1>1, AuthInductive, PTL

\* By its form AuthSpec lets the script take its own steps alone, so that what is
\* proved of Spec holds in the specification that TLC checks.
LEMMA AuthBesideScript == AuthSpec => Spec
<1>1. AuthInit => Init
  BY DEF AuthInit
<1>2. [AuthNext]_<<vars, authVars>> => [Next]_vars
  BY DEF AuthNext, vars
<1> QED BY <1>1, <1>2, PTL DEF AuthSpec, Spec
=============================================================================
