------------------------- MODULE TradeHistory_proofs -------------------------
(***************************************************************************)
(* A walk through the trade history never shows a trade twice nor goes     *)
(* back in time (WalkDescends), and misses none but ties of a page's last  *)
(* millisecond (WalkMissesOnlyTies), for any number of clients, trades,    *)
(* page sizes and any clock resolution.                                    *)
(*                                                                         *)
(* The invariant behind it: whatever the cursor still lets through is      *)
(* older than everything shown, because truncation only moves the cursor   *)
(* to the past; and what a page leaves out is behind its last row, where   *)
(* the next cursor finds it unless the truncation has passed it by.        *)
(***************************************************************************)
EXTENDS TradeHistory, TLAPS, FiniteSetTheorems, WellFoundedInduction

\* Every set of natural numbers with an element has a least one.
LEMMA LeastNumber ==
  ASSUME NEW T, T \subseteq Nat, T # {}
  PROVE  \E n \in T : \A m \in T : n <= m
<1> DEFINE R == OpToRel(<, Nat)
<1>1. \A x, y \in Nat : <<x, y>> \in R <=> x < y
  BY DEF OpToRel
<1>2. IsWellFoundedOn(R, Nat)
  BY NatLessThanWellFounded, Zenon
<1> HIDE DEF R
<1>3. PICK x \in T : \A y \in T : ~ (<<y, x>> \in R)
  BY <1>2, WFMin, Zenon
<1>4. \A m \in T : ~ (m < x)
  BY <1>1, <1>3, Zenon
<1> QED BY <1>4

\* The order of the listing is transitive and total on one client's rows.
LEMMA NewerOrder ==
  ASSUME NEW r \in Row, NEW s \in Row, NEW t \in Row
  PROVE  /\ Newer(r, s) /\ Newer(s, t) => Newer(r, t)
         /\ ~ Newer(r, r)
         /\ r.clientId = s.clientId => r = s \/ Newer(r, s) \/ Newer(s, r)
<1> USE IdsAssumption DEF Row, Newer
<1>1. r.createdAt \in Nat /\ s.createdAt \in Nat /\ t.createdAt \in Nat
  OBVIOUS
<1>2. r.id \in Nat /\ s.id \in Nat /\ t.id \in Nat
  OBVIOUS
<1>3. (Newer(r, s) /\ Newer(s, t) => Newer(r, t)) /\ ~ Newer(r, r)
  BY <1>1, <1>2
<1>4. r.clientId = s.clientId /\ r.id = s.id /\ r.createdAt = s.createdAt => r = s
  OBVIOUS
<1> QED BY <1>1, <1>2, <1>3, <1>4

\* The instant a cursor keeps is not later than the row's.
LEMMA Truncation ==
  ASSUME NEW t \in Nat
  PROVE  Millisecond(t) \in Nat /\ Millisecond(t) <= t
<1>1. t % TicksPerMs \in Nat /\ t % TicksPerMs <= t
  BY ClockAssumption
<1> QED BY <1>1 DEF Millisecond

\* A smaller multiple is smaller by the factor at least.
LEMMA MultiplesApart ==
  ASSUME NEW m \in Nat, NEW a \in Nat, NEW b \in Nat, b < a
  PROVE  m * b + m <= m * a
<1>1. PICK e \in Nat : a = b + 1 + e
  <2>1. a - (b + 1) \in Nat /\ a = b + 1 + (a - (b + 1))
    OBVIOUS
  <2> QED BY <2>1
<1>2. m * (b + 1 + e) = m * (b + 1) + m * e /\ m * e \in Nat /\ m * (b + 1) \in Nat
  OBVIOUS
<1>3. m * (b + 1) = m * b + m
  OBVIOUS
<1> QED BY <1>1, <1>2, <1>3

\* Two instants that the truncation of the later one does not tell apart are of
\* the same millisecond.
LEMMA SameMillisecond ==
  ASSUME NEW t \in Nat, NEW u \in Nat, Millisecond(t) <= u, u <= t
  PROVE  Millisecond(u) = Millisecond(t)
<1> DEFINE m == TicksPerMs
           a == t \div m
           b == u \div m
           c == t % m
           d == u % m
<1>1. m \in Nat \ {0}
  BY ClockAssumption
<1>2. /\ a \in Nat /\ c \in Nat /\ c < m /\ t = m * a + c
      /\ b \in Nat /\ d \in Nat /\ d < m /\ u = m * b + d
  BY <1>1
<1>3. Millisecond(t) = t - c /\ Millisecond(u) = u - d
  BY DEF Millisecond
<1> HIDE DEF a, b, c, d, m
<1>4. m * a \in Nat /\ m * b \in Nat
  BY <1>1, <1>2
<1>5. Millisecond(t) = m * a /\ Millisecond(u) = m * b
  BY <1>2, <1>3, <1>4
<1>6. ~ (b < a)
  <2>1. b < a => m * b + m <= m * a
    BY <1>1, <1>2, MultiplesApart
  <2> QED BY <1>1, <1>2, <1>4, <1>5, <2>1
<1>7. ~ (a < b)
  <2>1. a < b => m * a + m <= m * b
    BY <1>1, <1>2, MultiplesApart
  <2> QED BY <1>1, <1>2, <1>4, <2>1
<1>8. a = b
  BY <1>2, <1>6, <1>7
<1> QED BY <1>5, <1>8

\* A non-empty finite set of rows has one that none is newer than.
LEMMA NewestOne ==
  ASSUME NEW rows \in SUBSET Row, IsFiniteSet(rows), rows # {}
  PROVE  \E r \in rows : \A s \in rows : ~ Newer(s, r)
<1> DEFINE Before(r) == {s \in rows : Newer(s, r)}
           Counts == {Cardinality(Before(r)) : r \in rows}
<1>1. \A r \in rows : IsFiniteSet(Before(r)) /\ Cardinality(Before(r)) \in Nat
  BY FS_Subset, FS_CardinalityType, Zenon
<1>2. PICK n \in Counts : \A m \in Counts : n <= m
  <2>1. Counts \subseteq Nat /\ Counts # {}
    BY <1>1, Zenon
  <2> HIDE DEF Counts
  <2> QED BY <2>1, LeastNumber, Zenon
<1>3. PICK r \in rows : n = Cardinality(Before(r))
  BY <1>2, Zenon
<1>4. Before(r) = {}
  <2> SUFFICES ASSUME NEW s \in Before(r) PROVE FALSE
    BY Zenon
  <2>1. s \in rows /\ Newer(s, r)
    OBVIOUS
  <2>2. Before(s) \subseteq Before(r) /\ s \notin Before(s)
    BY <2>1, NewerOrder
  <2>3. Cardinality(Before(s)) <= Cardinality(Before(r)) /\ Before(s) # Before(r)
    <3>1. Before(s) \in SUBSET Before(r) /\ IsFiniteSet(Before(r))
      BY <1>1, <2>2, Zenon
    <3> HIDE DEF Before
    <3>2. Cardinality(Before(s)) <= Cardinality(Before(r))
      BY <3>1, FS_Subset, Zenon
    <3> QED BY <2>2, <3>2, Zenon
  <2>4. n <= Cardinality(Before(s))
    BY <1>2, <2>1, Zenon
  <2>5. Before(s) \in SUBSET Before(r) /\ IsFiniteSet(Before(r))
    BY <1>1, <2>2, Zenon
  <2>6. Cardinality(Before(s)) \in Nat /\ Cardinality(Before(r)) \in Nat
    BY <1>1, <2>1, Zenon
  <2>7. Cardinality(Before(s)) = Cardinality(Before(r))
    BY <1>3, <2>3, <2>4, <2>6
  <2> HIDE DEF Before
  <2> QED BY <2>3, <2>5, <2>7, FS_Subset, Zenon
<1> QED BY <1>4

\* The LIMIT keeps something of a non-empty finite set of rows.
LEMMA NewestExists ==
  ASSUME NEW rows \in SUBSET Row, IsFiniteSet(rows), rows # {}, NEW limit \in Nat \ {0}
  PROVE  Newest(rows, limit) # {}
<1>1. PICK r \in rows : \A s \in rows : ~ Newer(s, r)
  BY NewestOne, Zenon
<1>2. {s \in rows : Newer(s, r)} = {}
  BY <1>1
<1>3. Cardinality({s \in rows : Newer(s, r)}) = 0
  BY <1>2, FS_EmptySet, Zenon
<1> QED BY <1>3 DEF Newest

\* The LIMIT keeps what is newer than a row it keeps.
LEMMA NewestClosed ==
  ASSUME NEW rows \in SUBSET Row, IsFiniteSet(rows), NEW limit \in Nat,
         NEW last \in Newest(rows, limit), NEW r \in rows, Newer(r, last)
  PROVE  r \in Newest(rows, limit)
<1> DEFINE Before(x) == {s \in rows : Newer(s, x)}
<1>1. last \in rows /\ Cardinality(Before(last)) < limit
  BY DEF Newest
<1>2. Before(r) \in SUBSET Before(last)
  BY <1>1, NewerOrder
<1>3. IsFiniteSet(Before(last)) /\ IsFiniteSet(Before(r))
  BY FS_Subset, Zenon
<1>4. Cardinality(Before(r)) \in Nat /\ Cardinality(Before(last)) \in Nat
  BY <1>3, FS_CardinalityType, Zenon
<1>5. Cardinality(Before(r)) <= Cardinality(Before(last))
  <2> HIDE DEF Before
  <2> QED BY <1>2, <1>3, FS_Subset, Zenon
<1>6. Cardinality(Before(r)) < limit
  <2> HIDE DEF Before
  <2> QED BY <1>1, <1>4, <1>5
<1> QED BY <1>6 DEF Newest

\* A LIMIT that is not reached has left nothing out.
LEMMA NewestAll ==
  ASSUME NEW rows \in SUBSET Row, IsFiniteSet(rows), NEW limit \in Nat,
         ~ (Cardinality(Newest(rows, limit + 1)) > limit)
  PROVE  Newest(rows, limit + 1) = rows
<1> DEFINE kept == Newest(rows, limit + 1)
           rest == rows \ kept
           Before(x) == {s \in rows : Newer(s, x)}
<1>1. kept \in SUBSET rows
  BY DEF Newest
<1>2. IsFiniteSet(rest) /\ IsFiniteSet(kept) /\ rest \in SUBSET Row
  BY <1>1, FS_Subset, Zenon
<1> SUFFICES ASSUME rest # {} PROVE FALSE
  BY <1>1
<1>3. PICK r \in rest : \A s \in rest : ~ Newer(s, r)
  BY <1>2, NewestOne, Zenon
<1>4. Before(r) \in SUBSET kept
  BY <1>3
<1>5. ~ (Cardinality(Before(r)) < limit + 1)
  BY <1>3 DEF Newest
<1>6. Cardinality(Before(r)) <= Cardinality(kept)
  <2> HIDE DEF Before, kept
  <2> QED BY <1>2, <1>4, FS_Subset, Zenon
<1>7. Cardinality(kept) \in Nat /\ Cardinality(Before(r)) \in Nat
  <2>1. IsFiniteSet(Before(r))
    BY <1>2, <1>4, FS_Subset, Zenon
  <2> QED BY <1>2, <2>1, FS_CardinalityType, Zenon
<1>8. ~ (Cardinality(kept) > limit)
  OBVIOUS
<1> HIDE DEF Before, kept, rest
<1> QED BY <1>5, <1>6, <1>7, <1>8

\* A non-empty set of rows of one client has an oldest one.
LEMMA OldestExists ==
  ASSUME NEW rows \in SUBSET Row, rows # {}, \A r, s \in rows : r.clientId = s.clientId
  PROVE  /\ Oldest(rows) \in rows
         /\ \A s \in rows : s # Oldest(rows) => Newer(s, Oldest(rows))
<1> DEFINE Times == {r.createdAt : r \in rows}
<1>1. PICK t \in Times : \A u \in Times : t <= u
  <2>1. Times \subseteq Nat /\ Times # {}
    BY DEF Row
  <2> HIDE DEF Times
  <2> QED BY <2>1, LeastNumber, Zenon
<1> DEFINE Names == {r.id : r \in {s \in rows : s.createdAt = t}}
<1>2. PICK i \in Names : \A j \in Names : i <= j
  <2>1. Names \subseteq Nat
    BY IdsAssumption DEF Row
  <2>2. Names # {}
    BY <1>1
  <2> HIDE DEF Names
  <2> QED BY <2>1, <2>2, LeastNumber, Zenon
<1>3. PICK r \in rows : r.createdAt = t /\ r.id = i
  BY <1>2
<1>4. \A s \in rows : s # r => Newer(s, r)
  <2> SUFFICES ASSUME NEW s \in rows, Newer(r, s) PROVE FALSE
    BY NewerOrder, Zenon
  <2>1. s.createdAt \in Times /\ (s.createdAt = t => s.id \in Names)
    OBVIOUS
  <2> HIDE DEF Times, Names
  <2>2. t <= s.createdAt /\ (s.createdAt = t => i <= s.id)
    BY <1>1, <1>2, <2>1, Zenon
  <2>3. r \in Row /\ s \in Row
    OBVIOUS
  <2>4. r.createdAt \in Nat /\ s.createdAt \in Nat /\ r.id \in Nat /\ s.id \in Nat
    BY <2>3, IdsAssumption DEF Row
  <2> QED BY <1>3, <2>2, <2>4 DEF Newer
<1>5. \E last \in rows : \A s \in rows : s # last => Newer(s, last)
  BY <1>4, Zenon
<1> QED BY <1>5, Zenon DEF Oldest
-----------------------------------------------------------------------------
\* The rows a request may show: the reader's, and older than the cursor.
Matching == {r \in trades : r.clientId = Reader /\ \A k \in cursor : BeforeCursor(r, k)}

\* What one request adds: rows of the reader behind the cursor, and a cursor that
\* none of them matches; what it leaves out is older than its last row.
LEMMA PageFacts ==
  ASSUME WalkInv, NEW limit \in Limits, ListTrades(limit)
  PROVE  \E page \in SUBSET Matching :
            /\ pages' = Append(pages, page)
            /\ \/ walk' = "done" /\ cursor' = {} /\ page = Matching
               \/ \E last \in page :
                     /\ walk' = "reading"
                     /\ cursor' = {EncodeCursor(last)}
                     /\ \A r \in page : r # last => Newer(r, last)
                     /\ \A r \in Matching \ page : Newer(last, r)
<1> DEFINE rows == ListForClient(limit + 1)
           cut == Newest(rows, limit)
<1>1. rows \in SUBSET Matching /\ cut \in SUBSET rows
  BY DEF ListForClient, Newest, Matching
<1>2. Matching \in SUBSET Row /\ IsFiniteSet(Matching) /\ \A r \in Matching : r.clientId = Reader
  BY FS_Subset DEF WalkInv, TypeOK, Matching
<1>3. limit \in Nat \ {0}
  BY LimitsAssumption
<1>4. CASE Cardinality(rows) > limit
  <2>1. IsFiniteSet(rows) /\ rows \in SUBSET Row
    BY <1>1, <1>2, FS_Subset
  <2>2. rows # {}
    BY <1>3, <1>4, FS_EmptySet
  <2>3. cut # {} /\ cut \in SUBSET Row
    BY <1>1, <1>3, <2>1, <2>2, NewestExists
  <2>4. \A r, s \in cut : r.clientId = s.clientId
    BY <1>1, <1>2
  <2>5. Oldest(cut) \in cut /\ \A r \in cut : r # Oldest(cut) => Newer(r, Oldest(cut))
    BY <2>3, <2>4, OldestExists
  <2>6. /\ pages' = Append(pages, cut) /\ walk' = "reading"
        /\ cursor' = {EncodeCursor(Oldest(cut))}
    BY <1>4 DEF ListTrades, LastRow
  <2>7. ASSUME NEW r \in Matching \ cut PROVE Newer(Oldest(cut), r)
    <3> DEFINE last == Oldest(cut)
    <3>1. last \in cut /\ last \in rows /\ last \in Matching /\ r \in Matching /\ r # last
      BY <1>1, <2>5
    <3>2. last \in Row /\ r \in Row /\ last.clientId = r.clientId
      BY <1>2, <3>1
    <3> HIDE DEF last, rows, cut
    <3>3. ~ Newer(r, last)
      <4> SUFFICES ASSUME Newer(r, last) PROVE FALSE
        OBVIOUS
      <4>1. r \in rows
        BY <1>2, <1>3, <3>1, NewestClosed DEF rows, ListForClient, Matching
      <4>2. r \in cut
        BY <1>3, <2>1, <3>1, <4>1, NewestClosed DEF cut
      <4> QED BY <4>2
    <3>4. Newer(last, r)
      BY <3>1, <3>2, <3>3, NewerOrder, Zenon
    <3> QED BY <3>4 DEF last
  <2> QED BY <1>1, <2>5, <2>6, <2>7
<1>5. CASE ~ (Cardinality(rows) > limit)
  <2>1. pages' = Append(pages, rows) /\ walk' = "done" /\ cursor' = {}
    BY <1>5 DEF ListTrades
  <2>2. rows = Newest(Matching, limit + 1)
    BY DEF ListForClient, Matching
  <2> HIDE DEF rows
  <2>3. rows = Matching
    BY <1>2, <1>3, <1>5, <2>2, NewestAll
  <2> QED BY <2>1, <2>3
<1> QED BY <1>4, <1>5

\* A row behind the cursor is older than every row shown.
LEMMA BehindIsOlder ==
  ASSUME NEW k \in Cursor, NEW r \in Row, NEW s \in Row, ~ BeforeCursor(r, k), BeforeCursor(s, k)
  PROVE  Newer(r, s)
<1>1. k.createdAt \in Nat /\ r.createdAt \in Nat /\ s.createdAt \in Nat
  BY DEF Cursor, Row
<1>2. k.id \in Nat /\ r.id \in Nat /\ s.id \in Nat
  BY IdsAssumption DEF Cursor, Row
<1> QED BY <1>1, <1>2 DEF BeforeCursor, Newer

\* The cursor made from a row matches neither it nor a newer row.
LEMMA CursorOfLast ==
  ASSUME NEW last \in Row, NEW r \in Row, r = last \/ Newer(r, last)
  PROVE  EncodeCursor(last) \in Cursor /\ ~ BeforeCursor(r, EncodeCursor(last))
<1>1. last.createdAt \in Nat /\ r.createdAt \in Nat
  BY DEF Row
<1>2. last.id \in Nat /\ r.id \in Nat /\ last.id \in Ids
  BY IdsAssumption DEF Row
<1>3. Millisecond(last.createdAt) \in Nat /\ Millisecond(last.createdAt) <= last.createdAt
  BY <1>1, Truncation
<1>4. EncodeCursor(last) \in Cursor
  BY <1>2, <1>3 DEF EncodeCursor, Cursor
<1>5. ~ BeforeCursor(r, EncodeCursor(last))
  BY <1>1, <1>2, <1>3 DEF EncodeCursor, BeforeCursor, Newer
<1> QED BY <1>4, <1>5

\* A row behind the last one of a page matches its cursor, unless they share the
\* millisecond.
LEMMA LeftBehind ==
  ASSUME NEW last \in Row, NEW r \in Row, Newer(last, r)
  PROVE  BeforeCursor(r, EncodeCursor(last)) \/ Millisecond(last.createdAt) = Millisecond(r.createdAt)
<1>1. last.createdAt \in Nat /\ r.createdAt \in Nat
  BY DEF Row
<1>2. Millisecond(last.createdAt) \in Nat
  BY <1>1, Truncation
<1>3. r.createdAt <= last.createdAt
  BY <1>1 DEF Newer
<1>4. CASE r.createdAt < Millisecond(last.createdAt)
  BY <1>4 DEF BeforeCursor, EncodeCursor
<1>5. CASE Millisecond(last.createdAt) <= r.createdAt
  BY <1>1, <1>3, <1>5, SameMillisecond
<1> QED BY <1>1, <1>2, <1>4, <1>5

\* The rows of all pages after a page was appended.
LEMMA ShownGrows ==
  ASSUME pages \in Seq(SUBSET Row), NEW page \in SUBSET Row, pages' = Append(pages, page)
  PROVE  /\ pages' \in Seq(SUBSET Row)
         /\ DOMAIN pages' = DOMAIN pages \cup {Len(pages) + 1}
         /\ \A i \in DOMAIN pages : pages'[i] = pages[i]
         /\ pages'[Len(pages) + 1] = page
         /\ Shown' = Shown \cup page
<1>1. /\ pages' \in Seq(SUBSET Row)
      /\ DOMAIN pages' = DOMAIN pages \cup {Len(pages) + 1}
      /\ \A i \in DOMAIN pages : pages'[i] = pages[i]
      /\ pages'[Len(pages) + 1] = page
  OBVIOUS
<1>2. \A r : r \in Shown' <=> \E i \in DOMAIN pages' : r \in pages'[i]
  BY Zenon DEF Shown
<1>3. \A r : r \in Shown <=> \E i \in DOMAIN pages : r \in pages[i]
  BY Zenon DEF Shown
<1>4. \A r : r \in Shown' <=> r \in Shown \/ r \in page
  BY <1>1, <1>2, <1>3, Zenon
<1> QED BY <1>1, <1>4
-----------------------------------------------------------------------------
\* One request of the walk keeps the invariant.
LEMMA ListTradesInv ==
  ASSUME WalkInv, NEW limit \in Limits, ListTrades(limit)
  PROVE  WalkInv'
<1>1. PICK page \in SUBSET Matching :
         /\ pages' = Append(pages, page)
         /\ \/ walk' = "done" /\ cursor' = {} /\ page = Matching
            \/ \E last \in page :
                  /\ walk' = "reading"
                  /\ cursor' = {EncodeCursor(last)}
                  /\ \A r \in page : r # last => Newer(r, last)
                  /\ \A r \in Matching \ page : Newer(last, r)
  BY PageFacts, Zenon
<1>2. /\ TypeOK /\ IsFiniteSet(trades) /\ WalkDescends /\ NothingShownMatches
      /\ StartAccountedFor
      /\ pages \in Seq(SUBSET Row) /\ trades \in SUBSET Row /\ cursor \in SUBSET Cursor
  BY DEF WalkInv, TypeOK
<1>3. page \in SUBSET Row /\ \A r \in page : r.clientId = Reader /\ \A k \in cursor : BeforeCursor(r, k)
  BY <1>2 DEF Matching
<1>4. /\ pages' \in Seq(SUBSET Row)
      /\ DOMAIN pages' = DOMAIN pages \cup {Len(pages) + 1}
      /\ \A i \in DOMAIN pages : pages'[i] = pages[i]
      /\ pages'[Len(pages) + 1] = page
      /\ Shown' = Shown \cup page
  BY <1>1, <1>2, <1>3, ShownGrows, Zenon
<1>5. /\ UNCHANGED <<now, open, trades>> /\ walk # "done"
      /\ atStart' = IF walk = "idle" THEN {r \in trades : r.clientId = Reader} ELSE atStart
  BY DEF ListTrades
<1>6. pages = <<>> \/ \E k \in cursor : TRUE
  BY <1>2, <1>5 DEF NothingShownMatches, TypeOK
<1>7. Shown \in SUBSET Row
  BY <1>2 DEF Shown
<1>8. \A r \in Shown, s \in page : Newer(r, s)
  <2> SUFFICES ASSUME NEW r \in Shown, NEW s \in page PROVE Newer(r, s)
    OBVIOUS
  <2>1. pages # <<>>
    BY DEF Shown
  <2>2. PICK k \in cursor : TRUE
    BY <1>6, <2>1
  <2>3. ~ BeforeCursor(r, k) /\ BeforeCursor(s, k) /\ k \in Cursor /\ r \in Row /\ s \in Row
    BY <1>2, <1>3, <1>7, <2>2 DEF NothingShownMatches
  <2> QED BY <2>3, BehindIsOlder
<1>9. TypeOK'
  <2>1. cursor' \subseteq Cursor /\ walk' \in {"idle", "reading", "done"}
    <3>1. CASE walk' = "done" /\ cursor' = {}
      BY <3>1
    <3>2. CASE \E last \in page : walk' = "reading" /\ cursor' = {EncodeCursor(last)}
      BY <1>3, <3>2, CursorOfLast
    <3> QED BY <1>1, <3>1, <3>2
  <2>2. atStart' \subseteq Row
    BY <1>2, <1>5 DEF TypeOK
  <2> QED BY <1>2, <1>4, <1>5, <2>1, <2>2 DEF TypeOK
<1>10. WalkDescends'
  <2> SUFFICES ASSUME NEW i \in DOMAIN pages', NEW j \in DOMAIN pages', i < j,
                      NEW r \in pages'[i], NEW s \in pages'[j]
               PROVE  Newer(r, s)
    BY DEF WalkDescends
  <2>1. i \in DOMAIN pages /\ r \in pages[i]
    BY <1>2, <1>4
  <2>2. CASE j \in DOMAIN pages
    BY <1>2, <1>4, <2>1, <2>2 DEF WalkDescends
  <2>3. CASE j = Len(pages) + 1
    <3>1. s \in page /\ r \in Shown
      BY <1>4, <2>1, <2>3 DEF Shown
    <3> QED BY <1>8, <3>1
  <2> QED BY <1>4, <2>2, <2>3
<1>11. NothingShownMatches'
  <2>1. CASE walk' = "done" /\ cursor' = {}
    BY <2>1 DEF NothingShownMatches
  <2>2. CASE \E last \in page : /\ walk' = "reading"
                                /\ cursor' = {EncodeCursor(last)}
                                /\ \A r \in page : r # last => Newer(r, last)
    <3>1. PICK last \in page : /\ walk' = "reading"
                               /\ cursor' = {EncodeCursor(last)}
                               /\ \A r \in page : r # last => Newer(r, last)
      BY <2>2
    <3>2. \A r \in Shown' : r \in Row /\ (r = last \/ Newer(r, last))
      BY <1>3, <1>4, <1>7, <1>8, <3>1
    <3>3. \A r \in Shown' : ~ BeforeCursor(r, EncodeCursor(last))
      BY <1>3, <3>1, <3>2, CursorOfLast
    <3>4. \A k \in cursor', r \in Shown' : ~ BeforeCursor(r, k)
      BY <3>1, <3>3
    <3>5. cursor' # {} /\ walk' = "reading"
      BY <3>1
    <3> QED BY <3>4, <3>5 DEF NothingShownMatches
  <2> QED BY <1>1, <2>1, <2>2
<1>12. ASSUME NEW r \in Row, PassedBy(r) PROVE PassedBy(r)'
  BY <1>4, <1>12 DEF PassedBy
<1>13. ASSUME NEW r \in Matching
       PROVE  r \in Shown' \/ PassedBy(r)' \/ (walk' = "reading" /\ \A k \in cursor' : BeforeCursor(r, k))
  <2>1. CASE r \in page
    BY <1>4, <2>1
  <2>2. CASE r \notin page
    <3>1. PICK last \in page :
             /\ walk' = "reading" /\ cursor' = {EncodeCursor(last)}
             /\ \A s \in page : s # last => Newer(s, last)
             /\ Newer(last, r)
      BY <1>1, <2>2
    <3>2. last \in Row /\ r \in Row
      BY <1>2, <1>3 DEF Matching
    <3>3. BeforeCursor(r, EncodeCursor(last)) \/ Millisecond(last.createdAt) = Millisecond(r.createdAt)
      BY <3>1, <3>2, LeftBehind
    <3>4. CASE BeforeCursor(r, EncodeCursor(last))
      BY <3>1, <3>4
    <3>5. CASE Millisecond(last.createdAt) = Millisecond(r.createdAt)
      <4>1. Len(pages) + 1 \in DOMAIN pages' /\ last \in pages'[Len(pages) + 1]
        BY <1>4
      <4> QED BY <1>4, <3>1, <3>5, <4>1 DEF PassedBy
    <3> QED BY <3>3, <3>4, <3>5
  <2> QED BY <2>1, <2>2
<1>14. StartAccountedFor'
  <2>1. walk' # "idle"
    BY <1>1
  <2>2. CASE walk = "idle"
    <3>1. cursor = {} /\ atStart' = {r \in trades : r.clientId = Reader} /\ trades' = trades
      BY <1>2, <1>5, <2>2 DEF NothingShownMatches
    <3>2. atStart' = Matching
      BY <3>1 DEF Matching
    <3> QED BY <1>13, <3>1, <3>2 DEF StartAccountedFor
  <2>3. CASE walk # "idle"
    <3>1. atStart' = atStart /\ trades' = trades /\ walk = "reading"
      BY <1>2, <1>5, <2>3 DEF TypeOK
    <3>2. ASSUME NEW r \in atStart
          PROVE  r \in Shown' \/ PassedBy(r)' \/ (walk' = "reading" /\ \A k \in cursor' : BeforeCursor(r, k))
      <4>1. r \in trades /\ r.clientId = Reader /\ r \in Row
        BY <1>2 DEF StartAccountedFor
      <4>2. CASE \A k \in cursor : BeforeCursor(r, k)
        BY <1>13, <4>1, <4>2 DEF Matching
      <4>3. CASE r \in Shown \/ PassedBy(r)
        BY <1>4, <1>12, <4>1, <4>3
      <4> QED BY <1>2, <2>3, <4>2, <4>3 DEF StartAccountedFor
    <3> QED BY <1>2, <3>1, <3>2 DEF StartAccountedFor
  <2> QED BY <2>2, <2>3
<1> QED BY <1>2, <1>5, <1>9, <1>10, <1>11, <1>14 DEF WalkInv

\* A step of another transaction changes nothing of the walk.
LEMMA OthersInv ==
  ASSUME WalkInv, UNCHANGED Walk, now' \in 0..MaxTime,
         open' \subseteq Row, trades' \subseteq Row, trades \subseteq trades', IsFiniteSet(trades')
  PROVE  WalkInv'
<1>1. UNCHANGED <<walk, cursor, pages, atStart>>
  BY DEF Walk
<1>2. TypeOK'
  BY <1>1 DEF WalkInv, TypeOK
<1>3. WalkDescends' /\ NothingShownMatches'
  BY <1>1 DEF WalkInv, WalkDescends, NothingShownMatches, Shown
<1>4. StartAccountedFor'
  BY <1>1 DEF WalkInv, StartAccountedFor, PassedBy, Shown
<1> QED BY <1>2, <1>3, <1>4 DEF WalkInv

\* Every step keeps the invariant.
LEMMA NextWalkInv ==
  ASSUME WalkInv, [Next]_vars
  PROVE  WalkInv'
<1>0. /\ TypeOK /\ now \in 0..MaxTime /\ MaxTime \in Nat /\ open \subseteq Row
      /\ trades \subseteq Row /\ IsFiniteSet(trades)
  BY BoundAssumption DEF WalkInv, TypeOK
<1>1. ASSUME NEW limit \in Limits, ListTrades(limit) PROVE WalkInv'
  BY <1>1, ListTradesInv
<1>2. ASSUME NEW c \in Clients, NEW id \in Ids, BeginTrade(c, id) PROVE WalkInv'
  <2>1. [id |-> id, clientId |-> c, createdAt |-> now] \in Row
    BY <1>0 DEF Row
  <2>2. /\ open' \subseteq Row /\ trades' = trades /\ now' = now /\ UNCHANGED Walk
    BY <1>0, <1>2, <2>1 DEF BeginTrade
  <2> QED BY <1>0, <2>2, OthersInv
<1>3. ASSUME NEW r \in open, CommitTrade(r) PROVE WalkInv'
  <2>1. /\ open' \subseteq Row /\ trades' \subseteq Row /\ trades' = trades \cup {r}
        /\ now' = now /\ UNCHANGED Walk
    BY <1>0, <1>3 DEF CommitTrade
  <2>2. IsFiniteSet(trades')
    BY <1>0, <2>1, FS_AddElement
  <2> QED BY <1>0, <2>1, <2>2, OthersInv
<1>4. ASSUME NEW r \in open, RollbackTrade(r) PROVE WalkInv'
  <2>1. open' \subseteq Row /\ trades' = trades /\ now' = now /\ UNCHANGED Walk
    BY <1>0, <1>4 DEF RollbackTrade
  <2> QED BY <1>0, <2>1, OthersInv
<1>5. ASSUME Tick PROVE WalkInv'
  <2>1. now' \in 0..MaxTime /\ open' = open /\ trades' = trades /\ UNCHANGED Walk
    BY <1>0, <1>5 DEF Tick
  <2> QED BY <1>0, <2>1, OthersInv
<1>6. ASSUME UNCHANGED vars PROVE WalkInv'
  <2>1. now' = now /\ open' = open /\ trades' = trades /\ UNCHANGED Walk
    BY <1>6 DEF vars, Walk
  <2> QED BY <1>0, <2>1, OthersInv
<1> QED BY <1>1, <1>2, <1>3, <1>4, <1>5, <1>6 DEF Next, NextPage

\* The initial state satisfies it.
LEMMA InitWalkInv == Init => WalkInv
<1> SUFFICES ASSUME Init PROVE WalkInv
  OBVIOUS
<1>1. TypeOK
  BY BoundAssumption DEF Init, TypeOK
<1>2. IsFiniteSet(trades)
  BY FS_EmptySet DEF Init
<1>3. WalkDescends /\ NothingShownMatches
  BY DEF Init, WalkDescends, NothingShownMatches, Shown
<1>4. StartAccountedFor
  BY DEF Init, StartAccountedFor
<1> QED BY <1>1, <1>2, <1>3, <1>4 DEF WalkInv

\* In every reachable state, whatever the cursor lets through is older than every
\* row shown, and what existed when the walk started was shown, is still to come,
\* or shares the millisecond of a page's last row (listForClient, encodeCursor).
THEOREM WalkInductive == Spec => []WalkInv
<1>1. Init => WalkInv
  BY InitWalkInv
<1>2. WalkInv /\ [Next]_vars => WalkInv'
  BY NextWalkInv
<1> QED BY <1>1, <1>2, PTL DEF Spec

\* Every variable keeps its type: a page holds rows and a cursor names one, for any
\* resolution of the clock (listTrades, encodeCursor).
THEOREM WalkTyped == Spec => []TypeOK
<1>1. WalkInv => TypeOK
  BY DEF WalkInv
<1> QED BY <1>1, WalkInductive, PTL

\* No trade is shown twice and the order never goes back: every row of a later
\* page is older than every row of an earlier one (listForClient).
THEOREM WalkNeverRepeats == Spec => []WalkDescends
<1>1. WalkInv => WalkDescends
  BY DEF WalkInv
<1> QED BY <1>1, WalkInductive, PTL

\* No row already shown matches the cursor, although the cursor's instant is
\* truncated to milliseconds (encodeCursor).
THEOREM CursorExcludesShown == Spec => []NothingShownMatches
<1>1. WalkInv => NothingShownMatches
  BY DEF WalkInv
<1> QED BY <1>1, WalkInductive, PTL

\* A walk misses nothing of what existed when it started but rows behind the last
\* row of a page in the same millisecond (encodeCursor truncates to milliseconds).
THEOREM WalkMissesTies == Spec => []WalkMissesOnlyTies
<1>1. WalkInv => WalkMissesOnlyTies
  BY DEF WalkInv, StartAccountedFor, WalkMissesOnlyTies
<1> QED BY <1>1, WalkInductive, PTL
=============================================================================
