----------------------------- MODULE ClientAuth -----------------------------
(***************************************************************************)
(* ClientAuthService.authenticate, beside runs of the seed script: the     *)
(* rows of clients are read once, without an order, and their hashes are   *)
(* compared with the key one after the other, each comparison an await     *)
(* long enough for the script to change the rows.                          *)
(*                                                                         *)
(* A hash is modelled by the key it was made from: bcrypt.compare accepts  *)
(* that key and no other.                                                  *)
(***************************************************************************)
EXTENDS SeedLedger

CONSTANTS
    Requests,   \* requests to authenticate
    Refused     \* the answer UNAUTHORIZED

ASSUME RefusedAssumption == Refused \notin ClientIds

VARIABLES
    auth,       \* where each request is
    right       \* history: what was right to answer at some instant of the request

authVars == <<auth, right>>

Auth == [pc : {"idle", "findAll", "compare", "done"},
         key : Keys \cup {NoRow},
         candidates : SUBSET (ClientIds \X Keys),   \* rows not compared yet
         answer : ClientIds \cup {Refused, NoRow}]

AuthTypeOK ==
    /\ TypeOK
    /\ auth \in [Requests -> Auth]
    /\ right \in [Requests -> SUBSET (ClientIds \cup {Refused})]

AuthInit ==
    /\ Init
    /\ auth = [r \in Requests |->
                  [pc |-> "idle", key |-> NoRow, candidates |-> {}, answer |-> NoRow]]
    /\ right = [r \in Requests |-> {}]

\* The clients a key opens, given the hashes.
RightAnswers(hashes, key) ==
    LET open == {c \in ClientIds : hashes[c] = key}
    IN  IF open = {} THEN {Refused} ELSE open

Present(r, key) ==
    /\ auth[r].pc = "idle"
    /\ auth' = [auth EXCEPT ![r].pc = "findAll", ![r].key = key]

\* Mutant of Rows: one row is taken for the whole table.
RowsFirst(rows) == IF rows = {} THEN {} ELSE {CHOOSE row \in rows : TRUE}

\* What findAll returns of the table.
Rows(rows) == rows

FindAll(r) ==
    /\ auth[r].pc = "findAll"
    /\ auth' = [auth EXCEPT ![r].pc = "compare",
                            ![r].candidates = Rows({<<c, apiKeyHash[c]>> : c \in Clients})]

Compare(r, row) ==
    /\ auth[r].pc = "compare"
    /\ row \in auth[r].candidates
    /\ auth' = [auth EXCEPT ![r] =
           IF row[2] = @.key THEN [@ EXCEPT !.pc = "done", !.answer = row[1], !.candidates = {}]
           ELSE [@ EXCEPT !.candidates = auth[r].candidates \ {row}]]

NoneLeft(r) ==
    /\ auth[r].pc = "compare"
    /\ auth[r].candidates = {}
    /\ auth' = [auth EXCEPT ![r].pc = "done", ![r].answer = Refused]

Authenticate(r) ==
    \/ \E key \in Keys : Present(r, key)
    \/ FindAll(r)
    \/ \E row \in auth[r].candidates : Compare(r, row)
    \/ NoneLeft(r)

\* What the hashes make right is noted from the arrival of a request to its answer.
Observe ==
    right' = [r \in Requests |->
                 IF auth'[r].pc = "idle" \/ auth[r].pc = "done" THEN right[r]
                 ELSE right[r] \cup RightAnswers(apiKeyHash', auth'[r].key)]

AuthNext ==
    /\ \/ Next /\ UNCHANGED auth
       \/ (\E r \in Requests : Authenticate(r)) /\ UNCHANGED vars
    /\ Observe

AuthSpec == AuthInit /\ [][AuthNext]_<<vars, authVars>>
-----------------------------------------------------------------------------
\* Every answer was right at some instant between the request and the answer,
\* although the rows change while they are compared: a key that opened a client
\* all the while is never refused, and a key replaced before the request came
\* never opens it.
AnswerWasRight == \A r \in Requests : auth[r].pc = "done" => auth[r].answer \in right[r]
=============================================================================
