---------------------------- MODULE TradeHistory ----------------------------
(***************************************************************************)
(* GET /v1/trades: a client walks its trade history page by page, newest   *)
(* first, each page asking for the rows older than the cursor the previous *)
(* page returned, while other requests keep committing trades.             *)
(*                                                                         *)
(* Postgres stamps created_at with the time the transaction began, in      *)
(* microseconds, and the row becomes visible when it commits.  A row read  *)
(* into a JavaScript Date, and the cursor made from it, keep milliseconds  *)
(* only.  Time here is in ticks of the database's clock.                   *)
(***************************************************************************)
EXTENDS Integers, FiniteSets, Sequences

CONSTANTS
    Clients,     \* rows of the clients table
    Reader,      \* the client that walks its history
    Ids,         \* ids of the trades; uuids, random but totally ordered
    Limits,      \* page sizes the reader may ask for
    TicksPerMs,  \* ticks of created_at in a millisecond of Date
    MaxTime,     \* bound: ticks of the clock
    MaxPages     \* bound: pages the reader asks for, more than its walk needs

ASSUME ReaderAssumption == Reader \in Clients
ASSUME IdsAssumption == Ids \subseteq Nat
ASSUME LimitsAssumption == Limits \subseteq Nat \ {0}
ASSUME ClockAssumption == TicksPerMs \in Nat \ {0}
ASSUME BoundAssumption == MaxTime \in Nat /\ MaxPages \in Nat

VARIABLES
    now,      \* the database's clock
    open,     \* trades of the transactions in progress
    trades,   \* the committed rows of trades
    walk,     \* "idle" before the first page, "reading", then "done"
    cursor,   \* the cursor of the next request, {} when there is none
    pages,    \* the pages answered so far, each a set of rows
    atStart   \* the reader's trades when its first page was read

vars == <<now, open, trades, walk, cursor, pages, atStart>>

Row == [id : Ids, clientId : Clients, createdAt : Nat]
Cursor == [id : Ids, createdAt : Nat]

TypeOK ==
    /\ now \in 0..MaxTime
    /\ open \subseteq Row
    /\ trades \subseteq Row
    /\ walk \in {"idle", "reading", "done"}
    /\ cursor \subseteq Cursor
    /\ pages \in Seq(SUBSET Row)
    /\ atStart \subseteq Row

Init ==
    /\ now = 0
    /\ open = {}
    /\ trades = {}
    /\ walk = "idle"
    /\ cursor = {}
    /\ pages = <<>>
    /\ atStart = {}

-----------------------------------------------------------------------------
\* The order of the listing: created_at, then id, both descending.
Newer(r, s) ==
    \/ r.createdAt > s.createdAt
    \/ r.createdAt = s.createdAt /\ r.id > s.id

\* Mutants of BeforeCursor: no tiebreaker; the row of the cursor matches too.
BeforeCursorByTime(r, k) == r.createdAt <= k.createdAt
BeforeCursorOrSame(r, k) ==
    \/ r.createdAt < k.createdAt
    \/ r.createdAt = k.createdAt /\ r.id <= k.id

\* The WHERE condition of a page that has a cursor.
BeforeCursor(r, k) ==
    \/ r.createdAt < k.createdAt
    \/ r.createdAt = k.createdAt /\ r.id < k.id

\* ORDER BY created_at DESC, id DESC LIMIT limit
Newest(rows, limit) ==
    {r \in rows : Cardinality({s \in rows : Newer(s, r)}) < limit}

Oldest(rows) == CHOOSE r \in rows : \A s \in rows : s # r => Newer(s, r)

ListForClient(limit) ==
    Newest({r \in trades : r.clientId = Reader /\ \A k \in cursor : BeforeCursor(r, k)}, limit)

\* Date keeps milliseconds, so the cursor names the start of the row's millisecond.
Millisecond(t) == t - (t % TicksPerMs)

\* Mutant of EncodeCursor: the tiebreaker is left out.
EncodeCursorTime(r) == [createdAt |-> Millisecond(r.createdAt)]

EncodeCursor(r) == [id |-> r.id, createdAt |-> Millisecond(r.createdAt)]

\* Mutant of LastRow: the extra row, which no page shows.
LastRowFetched(rows, limit) == Oldest(rows)

\* The row next_cursor is made from: the last row of the trimmed page.
LastRow(rows, limit) == Oldest(Newest(rows, limit))

\* One request of the walk, with the limit the client chose for it.  The query asks
\* for one row more than the page so as to know whether another page follows.
ListTrades(limit) ==
    LET rows == ListForClient(limit + 1)
        hasMore == Cardinality(rows) > limit
    IN  /\ walk # "done"
        /\ Len(pages) < MaxPages
        /\ pages' = Append(pages, IF hasMore THEN Newest(rows, limit) ELSE rows)
        /\ cursor' = IF hasMore THEN {EncodeCursor(LastRow(rows, limit))} ELSE {}
        /\ walk' = IF hasMore THEN "reading" ELSE "done"
        /\ atStart' = IF walk = "idle" THEN {r \in trades : r.clientId = Reader} ELSE atStart
        /\ UNCHANGED <<now, open, trades>>

-----------------------------------------------------------------------------
\* The other requests: transactions that insert a trade, in any overlap.
Walk == <<walk, cursor, pages, atStart>>

BeginTrade(c, id) ==
    /\ id \notin {r.id : r \in open \cup trades}
    /\ open' = open \cup {[id |-> id, clientId |-> c, createdAt |-> now]}
    /\ UNCHANGED <<now, trades, Walk>>

CommitTrade(r) ==
    /\ r \in open
    /\ open' = open \ {r}
    /\ trades' = trades \cup {r}
    /\ UNCHANGED <<now, Walk>>

RollbackTrade(r) ==
    /\ r \in open
    /\ open' = open \ {r}
    /\ UNCHANGED <<now, trades, Walk>>

Tick ==
    /\ now < MaxTime
    /\ now' = now + 1
    /\ UNCHANGED <<open, trades, Walk>>

NextPage == \E limit \in Limits : ListTrades(limit)

Next ==
    \/ NextPage
    \/ \E c \in Clients, id \in Ids : BeginTrade(c, id)
    \/ \E r \in open : CommitTrade(r) \/ RollbackTrade(r)
    \/ Tick

\* The client asks for the next page while there is one.
Spec == Init /\ [][Next]_vars /\ WF_vars(NextPage)

-----------------------------------------------------------------------------
Shown == UNION {pages[i] : i \in DOMAIN pages}

\* No trade is shown twice and the order never goes back: every row of a later
\* page is older than every row of an earlier one, whatever commits in between
\* (the keyset condition of listForClient).
WalkDescends ==
    \A i, j \in DOMAIN pages : i < j =>
        \A r \in pages[i], s \in pages[j] : Newer(r, s)

\* Rows that a walk passes by without showing them: those that share the millisecond
\* of the last row of a page, behind it.
PassedBy(r) == \E i \in DOMAIN pages : \E last \in pages[i] :
    /\ Newer(last, r)
    /\ Millisecond(last.createdAt) = Millisecond(r.createdAt)
    /\ \A s \in pages[i] : s = last \/ Newer(s, last)

\* What a finished walk may miss of the trades that existed when it started:
\* only rows that share the millisecond of the last row of a page, behind it.
WalkMissesOnlyTies == walk = "done" => \A r \in atStart \ Shown : PassedBy(r)

\* While the walk goes on it has a cursor, and no row shown would match the cursor
\* again although its instant is truncated (encodeCursor, and the WHERE condition
\* of listForClient).
NothingShownMatches ==
    /\ walk = "idle" => pages = <<>> /\ cursor = {}
    /\ walk = "reading" => cursor # {}
    /\ \A k \in cursor, r \in Shown : ~ BeforeCursor(r, k)

\* A trade that existed when the walk started is still in the table, and has been
\* shown, is still to come, or was passed by.
StartAccountedFor ==
    /\ atStart \subseteq {r \in trades : r.clientId = Reader}
    /\ walk # "idle" => \A r \in atStart :
          \/ r \in Shown
          \/ PassedBy(r)
          \/ walk = "reading" /\ \A k \in cursor : BeforeCursor(r, k)

\* The inductive invariant of a walk: whatever the cursor still lets through is
\* older than everything shown, and nothing else is left to show.
WalkInv ==
    /\ TypeOK
    /\ IsFiniteSet(trades)
    /\ WalkDescends
    /\ NothingShownMatches
    /\ StartAccountedFor

\* A finished walk has shown every trade that existed when it started, as the
\* comment of trade-cursor.ts promises of keyset pagination.
WalkMissesNothing == walk = "done" => atStart \subseteq Shown

\* A walk ends although trades keep being committed while it runs: hasMore
\* cannot stay true, because the cursor only moves to older rows, so the walk
\* never comes to the bound on its pages.
WalkEnds == <>(walk = "done")
=============================================================================
