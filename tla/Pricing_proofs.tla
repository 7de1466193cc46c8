---------------------------- MODULE Pricing_proofs ----------------------------
(***************************************************************************)
(* Theorems about Pricing: what a price is worth and how long it takes to  *)
(* get one, for every number of calls and all durations.                   *)
(***************************************************************************)
EXTENDS PricingInvariant, TLAPS, SequenceTheorems, WellFoundedInduction

-----------------------------------------------------------------------------
(* Arithmetic of attempts and sleeps *)

\* Every set of natural numbers with an element has a least one.
LEMMA LeastNumber ==
  ASSUME NEW T, T \subseteq Nat, T # {}
  PROVE  \E n \in T : \A m \in T : n <= m
<1> DEFINE R == OpToRel(<, Nat)
<1>1. \A x, y \in Nat : <<x, y>> \in R <=> x < y
  BY DEF OpToRel
<1>2. IsWellFoundedOn(R, Nat)
  BY NatLessThanWellFounded, Zenon
<1> HIDE DEF R
<1>3. PICK x \in T : \A y \in T : ~ (<<y, x>> \in R)
  BY <1>2, WFMin, Zenon
<1>4. \A m \in T : ~ (m < x)
  BY <1>1, <1>3, Zenon
<1> QED BY <1>4

LEMMA SleptStep ==
  ASSUME NEW k \in Nat
  PROVE  /\ Slept(k) \in Nat
         /\ Slept(k + 1) = Slept(k) + BackoffTime(k)
         /\ BackoffTime(k) \in Nat
<1> DEFINE tri(n) == (n * (n + 1)) \div 2
<1>1. k * (k + 1) \in Nat /\ (k + 1) * ((k + 1) + 1) = k * (k + 1) + 2 * (k + 1)
  OBVIOUS
<1>2. tri(k) \in Nat /\ tri(k + 1) = tri(k) + (k + 1)
  BY <1>1
<1>3. Backoff \in Nat
  BY DurationAssumption
<1> HIDE DEF tri
<1>4. Backoff * tri(k + 1) = Backoff * tri(k) + Backoff * (k + 1)
  BY <1>2, <1>3
<1>5. Backoff * tri(k) \in Nat /\ Backoff * (k + 1) \in Nat
  BY <1>2, <1>3
<1> QED BY <1>4, <1>5 DEF Slept, BackoffTime, tri

LEMMA SleptMonotone ==
  ASSUME NEW k \in 0..MaxRetries
  PROVE  Slept(k) <= Slept(MaxRetries)
<1> DEFINE tri(n) == (n * (n + 1)) \div 2
<1>1. MaxRetries \in Nat /\ Backoff \in Nat /\ k \in Nat /\ k <= MaxRetries
  BY DurationAssumption
<1>2. k * (k + 1) <= MaxRetries * (MaxRetries + 1) /\ k * (k + 1) \in Nat
      /\ MaxRetries * (MaxRetries + 1) \in Nat
  BY <1>1
<1>3. tri(k) <= tri(MaxRetries) /\ tri(k) \in Nat /\ tri(MaxRetries) \in Nat
  BY <1>2
<1> HIDE DEF tri
<1>4. Backoff * tri(k) <= Backoff * tri(MaxRetries)
  BY <1>1, <1>3
<1> QED BY <1>4 DEF Slept, tri

LEMMA DeadlineStep ==
  ASSUME NEW k \in Nat
  PROVE  /\ Deadline(k) \in Nat
         /\ Deadline(k + 1) = Deadline(k) + Timeout + BackoffTime(k)
         /\ Deadline(0) = RedisTime + Timeout
<1>1. RedisTime \in Nat /\ Timeout \in Nat
  BY DurationAssumption
<1>2. ((k + 1) + 1) * Timeout = (k + 1) * Timeout + Timeout /\ (k + 1) * Timeout \in Nat
  BY <1>1
<1>3. Slept(0) = 0
  BY DurationAssumption DEF Slept
<1>4. /\ Deadline(k) = RedisTime + (k + 1) * Timeout + Slept(k)
      /\ Deadline(k + 1) = RedisTime + ((k + 1) + 1) * Timeout + Slept(k + 1)
      /\ Deadline(0) = RedisTime + (0 + 1) * Timeout + Slept(0)
  BY DEF Deadline
<1>5. Slept(k) \in Nat /\ Slept(k + 1) = Slept(k) + BackoffTime(k) /\ BackoffTime(k) \in Nat
  BY SleptStep
<1>6. (0 + 1) * Timeout = Timeout
  BY <1>1
<1>7. Deadline(0) = RedisTime + Timeout
  BY <1>1, <1>3, <1>4, <1>6
<1>8. Deadline(k) \in Nat
  BY <1>1, <1>2, <1>4, <1>5
<1>9. Deadline(k + 1) = Deadline(k) + Timeout + BackoffTime(k)
  BY <1>1, <1>2, <1>4, <1>5
<1> QED BY <1>7, <1>8, <1>9

LEMMA DeadlineMonotone ==
  ASSUME NEW k \in 0..MaxRetries
  PROVE  Deadline(k) <= Deadline(MaxRetries)
<1>1. RedisTime \in Nat /\ Timeout \in Nat /\ MaxRetries \in Nat /\ k \in Nat /\ k <= MaxRetries
  BY DurationAssumption
<1>2. (k + 1) * Timeout <= (MaxRetries + 1) * Timeout
      /\ (k + 1) * Timeout \in Nat /\ (MaxRetries + 1) * Timeout \in Nat
  BY <1>1
<1>3. Slept(k) \in Nat /\ Slept(MaxRetries) \in Nat
  BY <1>1, SleptStep
<1> QED BY <1>1, <1>2, <1>3, SleptMonotone DEF Deadline

-----------------------------------------------------------------------------
(* The queue of commands *)

\* A command sent now joins the queue.
LEMMA QueueGrows ==
  ASSUME NEW q \in Seq(Command), Ordered(q), NEW m \in Command,
         \A x \in Range(q) : x.sent <= m.sent /\ ~ (x.caller = m.caller /\ x.name = m.name)
  PROVE  /\ Append(q, m) \in Seq(Command)
         /\ Ordered(Append(q, m))
         /\ Range(Append(q, m)) = Range(q) \cup {m}
<1> DEFINE r == Append(q, m)
<1>1. /\ r \in Seq(Command) /\ DOMAIN q = 1..Len(q) /\ DOMAIN r = 1..(Len(q) + 1) /\ Len(q) \in Nat
      /\ \A i \in DOMAIN q : r[i] = q[i]
      /\ r[Len(q) + 1] = m
  OBVIOUS
<1> HIDE DEF r
<1>2. Range(r) = Range(q) \cup {m}
  BY <1>1 DEF Range
<1>3. Ordered(r)
  <2> SUFFICES ASSUME NEW i \in DOMAIN r, NEW j \in DOMAIN r
               PROVE  /\ i < j => r[i].sent <= r[j].sent
                      /\ r[i].caller = r[j].caller /\ r[i].name = r[j].name => i = j
    BY DEF Ordered
  <2>1. m.sent <= m.sent
    BY DEF Command
  <2>2. CASE i \in DOMAIN q /\ j \in DOMAIN q
    BY <1>1, <2>2 DEF Ordered
  <2>3. CASE i = Len(q) + 1 \/ j = Len(q) + 1
    BY <1>1, <2>1, <2>3 DEF Range
  <2> QED BY <1>1, <2>2, <2>3
<1> QED BY <1>1, <1>2, <1>3 DEF r

\* The oldest command leaves it.
LEMMA QueueShrinks ==
  ASSUME NEW q \in Seq(Command), Ordered(q), q # <<>>
  PROVE  /\ Tail(q) \in Seq(Command)
         /\ Ordered(Tail(q))
         /\ Head(q) \in Command
         /\ Range(q) = Range(Tail(q)) \cup {Head(q)}
         /\ \A x \in Range(Tail(q)) : /\ Head(q).sent <= x.sent
                                      /\ ~ (x.caller = Head(q).caller /\ x.name = Head(q).name)
<1> DEFINE r == Tail(q)
           h == Head(q)
<1>1. /\ r \in Seq(Command) /\ DOMAIN q = 1..Len(q) /\ DOMAIN r = 1..(Len(q) - 1)
      /\ Len(q) \in Nat \ {0}
      /\ \A i \in DOMAIN r : r[i] = q[i + 1]
      /\ h = q[1] /\ h \in Command
  OBVIOUS
<1> HIDE DEF r, h
<1>2. Ordered(r)
  BY <1>1 DEF Ordered
<1>3. Range(q) = Range(r) \cup {h}
  <2>1. ASSUME NEW i \in DOMAIN q PROVE q[i] \in Range(r) \cup {h}
    <3>1. CASE i = 1
      BY <1>1, <3>1
    <3>2. CASE i # 1
      <4>1. i - 1 \in DOMAIN r /\ r[i - 1] = q[i]
        BY <1>1, <3>2
      <4> QED BY <4>1 DEF Range
    <3> QED BY <3>1, <3>2
  <2>2. Range(r) \subseteq Range(q) /\ h \in Range(q)
    BY <1>1 DEF Range
  <2> QED BY <2>1, <2>2 DEF Range
<1>4. ASSUME NEW i \in DOMAIN r
      PROVE  h.sent <= r[i].sent /\ ~ (r[i].caller = h.caller /\ r[i].name = h.name)
  <2>1. 1 \in DOMAIN q /\ i + 1 \in DOMAIN q /\ 1 < i + 1
    BY <1>1
  <2> QED BY <1>1, <2>1 DEF Ordered
<1> QED BY <1>1, <1>2, <1>3, <1>4 DEF Range, r, h

LEMMA RangeOfQueue ==
  ASSUME TypeOK
  PROVE  \A m \in Waiting : m \in Command
BY DEF TypeOK, Waiting, Range

\* What is in the queue is served, so a call that does not wait has none there.
LEMMA NothingQueued ==
  ASSUME PricingInv, NEW c \in Callers, call[c].pc \in {"idle", "fetch", "backoff"}
  PROVE  \A m \in Waiting : m.caller # c
<1> SUFFICES ASSUME NEW m \in Waiting, m.caller = c PROVE FALSE
  OBVIOUS
<1>1. m \in Command
  BY RangeOfQueue DEF PricingInv, TypeOK
<1>2. CommandServed(m)
  BY DEF PricingInv
<1> QED BY <1>1, <1>2 DEF CommandServed, Command, Sets

-----------------------------------------------------------------------------
(* What a step leaves alone *)

Names == {"getFresh", "setFresh", "setLast", "getLast"}

LEMMA CallKept ==
  ASSUME NEW v \in Callers, CallInv(v), call'[v] = call[v], now' = now,
         \A name \in Names : Queued(v, name) => Queued(v, name)'
  PROVE  CallInv(v)'
<1>1. Awaits(v)'
  BY DEF CallInv, Awaits, Names, Sets
<1>2. Punctual(v)'
  BY DEF CallInv, Punctual
<1>3. Honest(v)'
  BY DEF CallInv, Honest, Age
<1> QED BY <1>1, <1>2, <1>3 DEF CallInv

LEMMA CommandKept ==
  ASSUME NEW m, CommandServed(m), call'[m.caller] = call[m.caller], now' = now
  PROVE  CommandServed(m)'
BY DEF CommandServed

\* A step that stores nothing and sends no SET leaves the keys alone.
LEMMA KeysKept ==
  ASSUME PricingInv, fresh' = fresh, lastKnown' = lastKnown, now' = now,
         \A m \in Waiting : m \in Waiting',
         \A m \in Waiting' : m \in Waiting \/ m.name \notin Sets
  PROVE  KeyInv("setFresh", fresh, FreshTtl)' /\ KeyInv("setLast", lastKnown, LastKnownTtl)'
<1>1. KeyInv("setFresh", fresh, FreshTtl)'
  <2>1. KeyInv("setFresh", fresh, FreshTtl)
    BY DEF PricingInv
  <2> QED BY <2>1 DEF KeyInv, Sets
<1>2. KeyInv("setLast", lastKnown, LastKnownTtl)'
  <2>1. KeyInv("setLast", lastKnown, LastKnownTtl)
    BY DEF PricingInv
  <2> QED BY <2>1 DEF KeyInv, Sets
<1> QED BY <1>1, <1>2

-----------------------------------------------------------------------------
(* Records of calls *)

LEMMA NotCalledType == NotCalled \in Call
BY DurationAssumption DEF Call, NotCalled

LEMMA StartedType ==
  ASSUME NEW t \in Nat
  PROVE  [NotCalled EXCEPT !.pc = "getFresh", !.startedAt = t] \in Call
<1>1. ASSUME NEW r \in Call PROVE [r EXCEPT !.pc = "getFresh", !.startedAt = t] \in Call
  BY DEF Call
<1> QED BY <1>1, NotCalledType

LEMMA AnsweredType ==
  ASSUME NEW r \in Call, now \in Nat
  PROVE  /\ \A p \in Nat, s \in BOOLEAN : Answered(r, p, s) \in Call
         /\ Unavailable(r) \in Call
         /\ \A k \in 0..MaxRetries : Fetching(r, k) \in Call
<1>1. ASSUME NEW p \in Nat, NEW s \in BOOLEAN PROVE Answered(r, p, s) \in Call
  BY DEF Call, Answered
<1>2. Unavailable(r) \in Call
  BY DEF Call, Unavailable
<1>3. ASSUME NEW k \in 0..MaxRetries PROVE Fetching(r, k) \in Call
  <2>1. now + Timeout \in Nat
    BY DurationAssumption
  <2> QED BY <2>1 DEF Call, Fetching
<1> QED BY <1>1, <1>2, <1>3

LEMMA UpdatedType ==
  ASSUME NEW r \in Call
  PROVE  /\ \A p \in Nat : [r EXCEPT !.pc = "set", !.unset = 2, !.price = p] \in Call
         /\ \A t \in Nat : [r EXCEPT !.pc = "backoff", !.timer = t] \in Call
         /\ [r EXCEPT !.pc = "getLast"] \in Call
         /\ \A u \in 0..2 : [r EXCEPT !.unset = u] \in Call
<1>0. 2 \in 0..2
  OBVIOUS
<1>1. ASSUME NEW p \in Nat PROVE [r EXCEPT !.pc = "set", !.unset = 2, !.price = p] \in Call
  BY <1>0 DEF Call
<1>2. ASSUME NEW t \in Nat PROVE [r EXCEPT !.pc = "backoff", !.timer = t] \in Call
  BY DEF Call
<1>3. [r EXCEPT !.pc = "getLast"] \in Call
  BY DEF Call
<1>4. ASSUME NEW u \in 0..2 PROVE [r EXCEPT !.unset = u] \in Call
  BY DEF Call
<1> QED BY <1>1, <1>2, <1>3, <1>4

-----------------------------------------------------------------------------
(* The steps of a call *)

\* The step of a call that does not wait for Redis, and the commands it sends.
LEMMA CallMoves ==
  ASSUME PricingInv, NEW c \in Callers, call[c].pc \in {"idle", "fetch", "backoff"},
         NEW r \in Call, call' = [call EXCEPT ![c] = r], UNCHANGED <<now, fresh, lastKnown>>,
         commands' \in Seq(Command), Ordered(commands'),
         Waiting \subseteq Waiting', \A m \in Waiting' : m \in Waiting \/ CommandServed(m)',
         CallInv(c)',
         KeyInv("setFresh", fresh, FreshTtl)', KeyInv("setLast", lastKnown, LastKnownTtl)'
  PROVE  PricingInv'
<1>0. TypeOK
  BY DEF PricingInv
<1>1. TypeOK'
  BY <1>0 DEF TypeOK
<1>2. \A v \in Callers : v # c => call'[v] = call[v]
  BY <1>0 DEF TypeOK
<1>3. \A v \in Callers, name \in Names : Queued(v, name) => Queued(v, name)'
  BY DEF Queued
<1>4. \A v \in Callers : CallInv(v)'
  BY <1>2, <1>3, CallKept DEF PricingInv
<1>5. ASSUME NEW m \in Waiting PROVE CommandServed(m)'
  <2>1. m.caller # c /\ m.caller \in Callers
    BY <1>0, NothingQueued, RangeOfQueue DEF Command
  <2> QED BY <1>2, <2>1, CommandKept DEF PricingInv
<1>6. \A m \in Waiting' : CommandServed(m)'
  BY <1>5
<1> QED BY <1>1, <1>4, <1>6 DEF PricingInv

\* A command sent now by a call that did not wait.
LEMMA CommandSent ==
  ASSUME PricingInv, NEW c \in Callers, call[c].pc \in {"idle", "fetch", "backoff"},
         NEW m \in Command, m.caller = c, m.sent = now
  PROVE  /\ Append(commands, m) \in Seq(Command) /\ Ordered(Append(commands, m))
         /\ Range(Append(commands, m)) = Waiting \cup {m}
BY NothingQueued, QueueGrows DEF PricingInv, TypeOK, Waiting, CommandServed

LEMMA StartInv ==
  ASSUME PricingInv, NEW c \in Callers, Start(c)
  PROVE  PricingInv'
<1>m. PICK m : m = Send(c, "getFresh", 0)
  OBVIOUS
<1>r. PICK r : r = [NotCalled EXCEPT !.pc = "getFresh", !.startedAt = now]
  OBVIOUS
<1>0. TypeOK
  BY DEF PricingInv
<1>1. /\ call[c].pc = "idle" /\ now' = now /\ fresh' = fresh /\ lastKnown' = lastKnown
      /\ call' = [call EXCEPT ![c] = r] /\ call'[c] = r
      /\ commands' = Append(commands, m)
  BY <1>0, <1>m, <1>r DEF Start, Become, TypeOK
<1>2. /\ m \in Command /\ m.caller = c /\ m.name = "getFresh" /\ m.sent = now
      /\ now \in Nat /\ r \in Call
  <2>1. now \in Nat
    BY <1>0, BoundAssumption DEF TypeOK
  <2>2. r \in Call
    BY <2>1, <1>r, StartedType
  <2> QED BY <1>m, <2>1, <2>2 DEF Send, Command
<1>3. commands' \in Seq(Command) /\ Ordered(commands') /\ Waiting' = Waiting \cup {m}
  BY <1>1, <1>2, CommandSent DEF Waiting
<1>4. /\ r.pc = "getFresh" /\ r.attempt = 0 /\ r.price = 0 /\ r.startedAt = now
      /\ r.outcome = "none" /\ r.stale = FALSE /\ r.answeredAt = 0
  BY <1>r DEF NotCalled
<1>5. CallInv(c)'
  <2>1. Queued(c, "getFresh")'
    BY <1>2, <1>3 DEF Queued
  <2> QED BY <1>1, <1>4, <2>1 DEF CallInv, Awaits, Punctual, Honest
<1>6. CommandServed(m)'
  BY <1>1, <1>2, <1>4, DurationAssumption DEF CommandServed, Sets
<1>7. KeyInv("setFresh", fresh, FreshTtl)' /\ KeyInv("setLast", lastKnown, LastKnownTtl)'
  BY <1>1, <1>2, <1>3, KeysKept DEF Sets
<1>8. /\ UNCHANGED <<now, fresh, lastKnown>> /\ call[c].pc \in {"idle", "fetch", "backoff"}
      /\ call' = [call EXCEPT ![c] = r] /\ r \in Call
      /\ commands' \in Seq(Command) /\ Ordered(commands')
      /\ Waiting \subseteq Waiting' /\ \A x \in Waiting' : x \in Waiting \/ CommandServed(x)'
  BY <1>1, <1>2, <1>3, <1>6
<1> QED BY <1>5, <1>7, <1>8, CallMoves, Zenon

\* The time of an attempt, as it ends.
LEMMA AttemptTime ==
  ASSUME PricingInv, NEW c \in Callers, call[c].pc = "fetch"
  PROVE  /\ now \in Nat /\ call[c] \in Call /\ call[c].attempt \in 0..MaxRetries
         /\ now - call[c].startedAt >= Slept(call[c].attempt)
         /\ now - call[c].startedAt <= Deadline(call[c].attempt)
         /\ now - call[c].startedAt <= Deadline(MaxRetries)
         /\ call[c].price = 0 /\ call[c].outcome = "none" /\ ~ call[c].stale /\ call[c].answeredAt = 0
<1>1. /\ now \in Nat /\ call[c] \in Call /\ call[c].attempt \in 0..MaxRetries
      /\ call[c].startedAt \in Nat /\ call[c].timer \in Nat
  BY DEF PricingInv, TypeOK, Call
<1>2. Punctual(c) /\ Honest(c)
  BY DEF PricingInv, CallInv
<1>3. /\ Deadline(call[c].attempt) <= Deadline(MaxRetries)
      /\ Deadline(call[c].attempt) \in Nat /\ Deadline(MaxRetries) \in Nat
  BY <1>1, DeadlineMonotone, DeadlineStep, DurationAssumption
<1> QED BY <1>1, <1>2, <1>3 DEF Punctual, Honest

LEMMA FetchAnswersInv ==
  ASSUME PricingInv, NEW c \in Callers, FetchAnswers(c)
  PROVE  PricingInv'
<1>a. PICK a : a = Send(c, "setFresh", now)
  OBVIOUS
<1>b. PICK b : b = Send(c, "setLast", now)
  OBVIOUS
<1>r. PICK r : r = [call[c] EXCEPT !.pc = "set", !.unset = 2, !.price = now]
  OBVIOUS
<1>0. TypeOK
  BY DEF PricingInv
<1>1. /\ call[c].pc = "fetch" /\ now' = now /\ fresh' = fresh /\ lastKnown' = lastKnown
      /\ call' = [call EXCEPT ![c] = r] /\ call'[c] = r
      /\ commands' = commands \o <<a, b>>
  BY <1>0, <1>a, <1>b, <1>r DEF FetchAnswers, Become, TypeOK, Stamp
<1>2. /\ a \in Command /\ a.caller = c /\ a.name = "setFresh" /\ a.sent = now /\ a.price = now
      /\ b \in Command /\ b.caller = c /\ b.name = "setLast" /\ b.sent = now /\ b.price = now
      /\ now \in Nat /\ r \in Call
  BY <1>1, <1>a, <1>b, <1>r, AttemptTime, UpdatedType DEF Send, Command
<1>3. commands' \in Seq(Command) /\ Ordered(commands') /\ Waiting' = Waiting \cup {a, b}
  <2>q. PICK q : q = Append(commands, a)
    OBVIOUS
  <2>1. q \in Seq(Command) /\ Ordered(q) /\ Range(q) = Waiting \cup {a}
    BY <1>1, <1>2, <2>q, CommandSent
  <2>2. \A x \in Range(q) : x.sent <= b.sent /\ ~ (x.caller = b.caller /\ x.name = b.name)
    <3>1. \A x \in Waiting : x.sent <= now
      BY DEF PricingInv, CommandServed
    <3> QED BY <1>1, <1>2, <2>1, <3>1, NothingQueued
  <2>3. /\ Append(q, b) \in Seq(Command) /\ Ordered(Append(q, b))
        /\ Range(Append(q, b)) = Range(q) \cup {b}
    BY <1>2, <2>1, <2>2, QueueGrows
  <2>4. commands' = Append(q, b)
    <3>1. commands \in Seq(Command)
      BY <1>0 DEF TypeOK
    <3> QED BY <1>1, <1>2, <2>q, <3>1
  <2> QED BY <2>1, <2>3, <2>4 DEF Waiting
<1>4. /\ r.pc = "set" /\ r.unset = 2 /\ r.price = now /\ r.startedAt = call[c].startedAt
      /\ r.outcome = "none" /\ ~ r.stale /\ r.answeredAt = 0
  BY <1>1, <1>r, AttemptTime DEF Call
<1>5. CallInv(c)'
  <2>1. \A name \in Sets : Queued(c, name)'
    BY <1>2, <1>3 DEF Queued, Sets
  <2>2. r.price - r.startedAt <= Deadline(MaxRetries)
    BY <1>1, <1>4, AttemptTime
  <2> QED BY <1>1, <1>4, <2>1, <2>2 DEF CallInv, Awaits, Punctual, Honest, Sets
<1>6. CommandServed(a)' /\ CommandServed(b)'
  BY <1>1, <1>2, <1>4, DurationAssumption DEF CommandServed, Sets
<1>7. KeyInv("setFresh", fresh, FreshTtl)' /\ KeyInv("setLast", lastKnown, LastKnownTtl)'
  <2>1. KeyInv("setFresh", fresh, FreshTtl) /\ KeyInv("setLast", lastKnown, LastKnownTtl)
    BY DEF PricingInv
  <2>2. KeyInv("setFresh", fresh, FreshTtl)'
    BY <1>1, <1>2, <1>3, <2>1 DEF KeyInv
  <2>3. KeyInv("setLast", lastKnown, LastKnownTtl)'
    BY <1>1, <1>2, <1>3, <2>1 DEF KeyInv
  <2> QED BY <2>2, <2>3
<1>8. /\ UNCHANGED <<now, fresh, lastKnown>> /\ call[c].pc \in {"idle", "fetch", "backoff"}
      /\ call' = [call EXCEPT ![c] = r] /\ r \in Call
      /\ commands' \in Seq(Command) /\ Ordered(commands')
      /\ Waiting \subseteq Waiting' /\ \A x \in Waiting' : x \in Waiting \/ CommandServed(x)'
  BY <1>1, <1>2, <1>3, <1>6
<1> QED BY <1>5, <1>7, <1>8, CallMoves, Zenon

\* A step that sends nothing leaves the queue as it is.
LEMMA NothingSent ==
  ASSUME PricingInv, NEW c \in Callers, call[c].pc \in {"idle", "fetch", "backoff"},
         NEW r \in Call, call' = [call EXCEPT ![c] = r], UNCHANGED <<now, fresh, lastKnown, commands>>,
         CallInv(c)'
  PROVE  PricingInv'
<1>1. /\ commands' \in Seq(Command) /\ Ordered(commands') /\ Waiting' = Waiting
  BY DEF PricingInv, TypeOK, Waiting
<1>2. KeyInv("setFresh", fresh, FreshTtl)' /\ KeyInv("setLast", lastKnown, LastKnownTtl)'
  BY <1>1, KeysKept
<1>3. /\ UNCHANGED <<now, fresh, lastKnown>>
      /\ Waiting \subseteq Waiting' /\ \A x \in Waiting' : x \in Waiting \/ CommandServed(x)'
  BY <1>1
<1> QED BY <1>1, <1>2, <1>3, CallMoves, Zenon

LEMMA FetchFailsInv ==
  ASSUME PricingInv, NEW c \in Callers, FetchFails(c)
  PROVE  PricingInv'
<1> DEFINE k == call[c].attempt
<1>0. TypeOK /\ call[c].pc = "fetch" /\ now' = now /\ fresh' = fresh /\ lastKnown' = lastKnown
  BY DEF PricingInv, FetchFails
<1>1. CASE k < MaxRetries
  <2>r. PICK r : r = [call[c] EXCEPT !.pc = "backoff", !.timer = now + BackoffTime(k)]
    OBVIOUS
  <2>1. k \in Nat /\ BackoffTime(k) \in Nat /\ now \in Nat
    <3>1. k \in Nat /\ now \in Nat
      BY <1>0, AttemptTime, DurationAssumption
    <3> QED BY <3>1, SleptStep
  <2>2. r \in Call
    <3>1. now + BackoffTime(k) \in Nat /\ call[c] \in Call
      BY <1>0, <2>1, AttemptTime
    <3> QED BY <2>r, <3>1, UpdatedType, Zenon
  <2>3. call' = [call EXCEPT ![c] = r] /\ call'[c] = r /\ commands' = commands
    BY <1>0, <1>1, <2>r DEF FetchFails, MayRetry, Become, TypeOK
  <2>4. /\ r.pc = "backoff" /\ r.timer = now + BackoffTime(k) /\ r.attempt = k
        /\ r.startedAt = call[c].startedAt /\ r.price = call[c].price /\ r.outcome = call[c].outcome
        /\ r.stale = call[c].stale /\ r.answeredAt = call[c].answeredAt /\ r.startedAt \in Nat
    BY <1>0, <2>r, AttemptTime DEF Call
  <2>5. /\ Slept(k) \in Nat /\ Slept(k + 1) = Slept(k) + BackoffTime(k)
        /\ Deadline(k) \in Nat /\ Deadline(k + 1) - Timeout = Deadline(k) + BackoffTime(k)
    BY <2>1, SleptStep, DeadlineStep, DurationAssumption
  <2>6. /\ now <= r.timer
        /\ r.timer - r.startedAt >= Slept(r.attempt + 1)
        /\ r.timer - r.startedAt <= Deadline(r.attempt + 1) - Timeout
    BY <1>0, <2>1, <2>4, <2>5, AttemptTime
  <2>7. /\ call[c].price = 0 /\ call[c].outcome = "none" /\ ~ call[c].stale /\ call[c].answeredAt = 0
    BY <1>0, AttemptTime
  <2>8. CallInv(c)'
    BY <1>0, <1>1, <2>3, <2>4, <2>6, <2>7 DEF CallInv, Awaits, Punctual, Honest
  <2> QED BY <1>0, <2>2, <2>3, <2>8, NothingSent
<1>2. CASE ~ (k < MaxRetries)
  <2>r. PICK r : r = [call[c] EXCEPT !.pc = "getLast"]
    OBVIOUS
  <2>m. PICK m : m = Send(c, "getLast", 0)
    OBVIOUS
  <2>1. k = MaxRetries /\ now \in Nat
    BY <1>0, <1>2, AttemptTime, DurationAssumption
  <2>2. r \in Call
    BY <1>0, <2>r, AttemptTime, UpdatedType
  <2>3. call' = [call EXCEPT ![c] = r] /\ call'[c] = r /\ commands' = Append(commands, m)
    BY <1>0, <1>2, <2>r, <2>m DEF FetchFails, MayRetry, Become, TypeOK
  <2>4. /\ r.pc = "getLast" /\ r.attempt = k
        /\ r.startedAt = call[c].startedAt /\ r.price = call[c].price /\ r.outcome = call[c].outcome
        /\ r.stale = call[c].stale /\ r.answeredAt = call[c].answeredAt
    BY <1>0, <2>r, AttemptTime DEF Call
  <2>5. m \in Command /\ m.caller = c /\ m.name = "getLast" /\ m.sent = now
    BY <2>m, <2>1 DEF Send, Command
  <2>6. commands' \in Seq(Command) /\ Ordered(commands') /\ Waiting' = Waiting \cup {m}
    BY <1>0, <2>3, <2>5, CommandSent DEF Waiting
  <2>7. Queued(c, "getLast")'
    BY <2>5, <2>6 DEF Queued
  <2>8. CallInv(c)'
    <3>1. now - r.startedAt >= Slept(MaxRetries)
      BY <1>0, <2>1, <2>4, AttemptTime
    <3>2. call[c].price = 0 /\ call[c].outcome = "none" /\ ~ call[c].stale /\ call[c].answeredAt = 0
      BY <1>0, AttemptTime
    <3> QED BY <1>0, <2>1, <2>3, <2>4, <2>7, <3>1, <3>2 DEF CallInv, Awaits, Punctual, Honest
  <2>9. CommandServed(m)'
    <3>1. now - r.startedAt <= Deadline(MaxRetries)
      BY <1>0, <2>4, AttemptTime
    <3> QED BY <1>0, <2>1, <2>3, <2>4, <2>5, <3>1, DurationAssumption DEF CommandServed, Sets
  <2>10. KeyInv("setFresh", fresh, FreshTtl)' /\ KeyInv("setLast", lastKnown, LastKnownTtl)'
    BY <1>0, <2>5, <2>6, KeysKept DEF Sets
  <2>11. /\ UNCHANGED <<now, fresh, lastKnown>> /\ call[c].pc \in {"idle", "fetch", "backoff"}
         /\ Waiting \subseteq Waiting' /\ \A x \in Waiting' : x \in Waiting \/ CommandServed(x)'
    BY <1>0, <2>6, <2>9
  <2> QED BY <2>2, <2>3, <2>6, <2>8, <2>10, <2>11, CallMoves, Zenon
<1> QED BY <1>1, <1>2

LEMMA RetryInv ==
  ASSUME PricingInv, NEW c \in Callers, Retry(c)
  PROVE  PricingInv'
<1> DEFINE k == call[c].attempt
<1>r. PICK r : r = Fetching(call[c], k + 1)
  OBVIOUS
<1>0. /\ TypeOK /\ call[c].pc = "backoff" /\ UNCHANGED <<now, fresh, lastKnown, commands>>
      /\ now >= call[c].timer
  BY DEF PricingInv, Retry
<1>1. /\ call[c] \in Call /\ now \in Nat /\ call[c].timer \in Nat /\ call[c].startedAt \in Nat
      /\ k \in 0..MaxRetries
  BY <1>0, BoundAssumption DEF TypeOK, Call
<1>2. Punctual(c) /\ Honest(c)
  BY DEF PricingInv, CallInv
<1>3. /\ k + 1 \in 0..MaxRetries /\ now = call[c].timer
      /\ now - call[c].startedAt >= Slept(k + 1)
      /\ now - call[c].startedAt <= Deadline(k + 1) - Timeout
      /\ call[c].price = 0 /\ call[c].outcome = "none" /\ ~ call[c].stale /\ call[c].answeredAt = 0
  BY <1>0, <1>1, <1>2, DurationAssumption DEF Punctual, Honest
<1>4. r \in Call
  BY <1>1, <1>3, <1>r, AnsweredType
<1>5. call' = [call EXCEPT ![c] = r] /\ call'[c] = r
  BY <1>0, <1>r DEF Retry, Become, TypeOK, NextAttempt
<1>6. /\ r.pc = "fetch" /\ r.timer = now + Timeout /\ r.attempt = k + 1
      /\ r.startedAt = call[c].startedAt /\ r.price = call[c].price /\ r.outcome = call[c].outcome
      /\ r.stale = call[c].stale /\ r.answeredAt = call[c].answeredAt
  BY <1>1, <1>r DEF Fetching, Call
<1>7. /\ now <= r.timer /\ now - r.startedAt >= Slept(r.attempt)
      /\ r.timer - r.startedAt <= Deadline(r.attempt)
  BY <1>1, <1>3, <1>6, DeadlineStep, DurationAssumption
<1>8. CallInv(c)'
  BY <1>0, <1>3, <1>5, <1>6, <1>7 DEF CallInv, Awaits, Punctual, Honest
<1> QED BY <1>0, <1>4, <1>5, <1>8, NothingSent

\* The clock never runs past a timer, nor past what Redis may take.
LEMMA TickInv ==
  ASSUME PricingInv, Tick
  PROVE  PricingInv'
<1>0. /\ TypeOK /\ UNCHANGED <<fresh, lastKnown, commands, call>> /\ now' = now + 1 /\ now < MaxTime
      /\ now \in Nat
  BY BoundAssumption DEF PricingInv, Tick, TypeOK
<1>1. TypeOK'
  BY <1>0, BoundAssumption DEF TypeOK
<1>2. Ordered(commands') /\ Waiting' = Waiting
  BY <1>0 DEF PricingInv, Waiting
<1>3. ASSUME NEW m \in Waiting PROVE now < m.sent + RedisTime
  <2>1. commands # <<>>
    BY <1>0 DEF Waiting, Range, TypeOK
  <2>2. now < Head(commands).sent + RedisTime
    BY <2>1 DEF Tick
  <2>3. Head(commands).sent <= m.sent /\ Head(commands).sent \in Nat /\ m.sent \in Nat
    <3>1. /\ Head(commands) \in Command /\ Waiting = Range(Tail(commands)) \cup {Head(commands)}
          /\ \A x \in Range(Tail(commands)) : Head(commands).sent <= x.sent
      BY <1>0, <2>1, QueueShrinks DEF PricingInv, TypeOK, Waiting
    <3>2. m \in Command
      BY <1>0, RangeOfQueue
    <3> QED BY <3>1, <3>2 DEF Command
  <2> QED BY <1>0, <2>2, <2>3, DurationAssumption
<1>4. ASSUME NEW m \in Waiting PROVE CommandServed(m)'
  <2>1. CommandServed(m) /\ m.sent \in Nat
    BY <1>0, RangeOfQueue DEF PricingInv, Command
  <2>2. m.sent <= now' /\ now' <= m.sent + RedisTime
    BY <1>0, <1>3, <2>1, DurationAssumption DEF CommandServed
  <2> QED BY <1>0, <2>1, <2>2 DEF CommandServed
<1>5. ASSUME NEW c \in Callers PROVE CallInv(c)'
  <2>1. CallInv(c) /\ call[c] \in Call /\ call[c].timer \in Nat /\ call[c].startedAt \in Nat
    BY <1>0 DEF PricingInv, TypeOK, Call
  <2>2. Awaits(c)'
    BY <1>0, <1>2, <2>1 DEF CallInv, Awaits, Queued
  <2>3. Punctual(c)'
    <3>1. call[c].pc \in {"fetch", "backoff"} => now < call[c].timer
      BY DEF Tick
    <3>2. Slept(call[c].attempt) \in Nat /\ Slept(MaxRetries) \in Nat
      BY <2>1, SleptStep, DurationAssumption DEF Call
    <3> QED BY <1>0, <2>1, <3>1, <3>2 DEF CallInv, Punctual
  <2>4. Honest(c)'
    BY <1>0, <2>1 DEF CallInv, Honest, Age
  <2> QED BY <2>2, <2>3, <2>4 DEF CallInv
<1>6. KeyInv("setFresh", fresh, FreshTtl)'
  <2>1. KeyInv("setFresh", fresh, FreshTtl) /\ fresh.price \in Nat
    BY <1>0 DEF PricingInv, TypeOK, Entry
  <2> QED BY <1>0, <1>2, <2>1 DEF KeyInv
<1>7. KeyInv("setLast", lastKnown, LastKnownTtl)'
  <2>1. KeyInv("setLast", lastKnown, LastKnownTtl) /\ lastKnown.price \in Nat
    BY <1>0 DEF PricingInv, TypeOK, Entry
  <2> QED BY <1>0, <1>2, <2>1 DEF KeyInv
<1> QED BY <1>1, <1>2, <1>4, <1>5, <1>6, <1>7 DEF PricingInv

-----------------------------------------------------------------------------
(* Redis *)

\* What a batch of waiting commands leaves in a key: what was there, or the price
\* of one of them.
LEMMA LatestSet ==
  ASSUME NEW batch \in Seq(Command), NEW name, NEW entry, NEW ttl
  PROVE  \/ Latest(batch, name, entry, ttl) = entry /\ \A m \in Range(batch) : m.name # name
         \/ \E m \in Range(batch) : /\ m.name = name
                                    /\ Latest(batch, name, entry, ttl) = [price |-> m.price, until |-> now + ttl]
<1> DEFINE sets == {i \in DOMAIN batch : batch[i].name = name}
           Last(i) == \A j \in sets : j <= i
<1>1. DOMAIN batch = 1..Len(batch) /\ Len(batch) \in Nat
  OBVIOUS
<1>2. CASE sets = {}
  BY <1>2 DEF Latest, Range
<1>3. CASE sets # {}
  <2> DEFINE left == {Len(batch) - i : i \in sets}
  <2>1. left \subseteq Nat /\ left # {}
    BY <1>1, <1>3
  <2> HIDE DEF left
  <2>2. PICK n \in left : \A k \in left : n <= k
    BY <2>1, LeastNumber
  <2>3. \E i \in sets : Last(i)
    <3>1. PICK i \in sets : n = Len(batch) - i
      BY <2>2 DEF left
    <3>2. ASSUME NEW j \in sets PROVE j <= i
      <4>1. Len(batch) - j \in left
        BY DEF left
      <4> QED BY <1>1, <2>2, <3>1, <4>1
    <3> QED BY <3>2
  <2>4. (CHOOSE i \in sets : Last(i)) \in sets
    BY <2>3
  <2>5. Latest(batch, name, entry, ttl)
          = [price |-> batch[CHOOSE i \in sets : Last(i)].price, until |-> now + ttl]
    BY <1>3 DEF Latest
  <2> QED BY <2>4, <2>5 DEF Range
<1> QED BY <1>2, <1>3

\* A key after a batch of commands of which the queue keeps "rest".
LEMMA KeyStored ==
  ASSUME TypeOK, NEW name \in Sets, NEW entry \in Entry, NEW ttl \in Nat, NEW batch \in Seq(Command),
         NEW next, next = Latest(batch, name, entry, ttl),
         Range(batch) \subseteq Waiting, \A m \in Waiting : CommandServed(m),
         entry.price <= now, entry.until <= entry.price + ttl + RedisTime,
         (\E m \in Waiting : m.name = name) => \E m \in Waiting : m.name = name /\ m.price >= entry.price,
         NEW rest, rest \subseteq Waiting,
         \A m \in Waiting : m \in rest \/ \A x \in Range(batch) \cup rest : m.sent <= x.sent,
         rest = Waiting \/ Range(batch) \cap rest = {}
  PROVE  /\ next \in Entry
         /\ next.price <= now
         /\ next.until <= next.price + ttl + RedisTime
         /\ (\E m \in rest : m.name = name) => \E m \in rest : m.name = name /\ m.price >= next.price
         /\ next.price < entry.price => \E m \in rest : m.name = name /\ m.price >= entry.price
<1>1. now \in Nat /\ RedisTime \in Nat
  BY BoundAssumption, DurationAssumption DEF TypeOK
<1>2. \A m \in Waiting : /\ m \in Command /\ m.price \in Nat /\ m.sent \in Nat
                         /\ m.sent <= now /\ now <= m.sent + RedisTime
                         /\ m.name = name => m.price = m.sent
  BY RangeOfQueue DEF Command, CommandServed, Sets
<1>3. entry.price \in Nat /\ entry.until \in Nat
  BY DEF Entry
<1>4. CASE next = entry
  <2>1. ASSUME NEW m \in rest, m.name = name PROVE \E x \in rest : x.name = name /\ x.price >= entry.price
    <3>1. PICK x \in Waiting : x.name = name /\ x.price >= entry.price
      BY <2>1
    <3>2. CASE x \in rest
      BY <3>1, <3>2
    <3>3. CASE x \notin rest
      BY <1>2, <1>3, <2>1, <3>1, <3>3
    <3> QED BY <3>2, <3>3
  <2> QED BY <1>3, <1>4, <2>1
<1>5. ASSUME NEW h \in Range(batch), h.name = name, next = [price |-> h.price, until |-> now + ttl]
      PROVE  /\ next \in Entry
             /\ next.price <= now
             /\ next.until <= next.price + ttl + RedisTime
             /\ (\E m \in rest : m.name = name) => \E m \in rest : m.name = name /\ m.price >= next.price
             /\ next.price < entry.price => \E m \in rest : m.name = name /\ m.price >= entry.price
  <2>1. h \in Waiting /\ h.price = h.sent /\ next.price = h.price /\ next.until = now + ttl
        /\ h.sent \in Nat /\ h.sent <= now /\ now <= h.sent + RedisTime
    BY <1>2, <1>5
  <2>2. next \in Entry
    BY <1>1, <1>5, <2>1 DEF Entry
  <2>3. ASSUME NEW m \in rest, m.name = name PROVE \E x \in rest : x.name = name /\ x.price >= next.price
    <3>1. CASE h \in rest
      BY <1>5, <2>1, <3>1
    <3>2. CASE h \notin rest
      BY <1>2, <2>1, <2>3, <3>2
    <3> QED BY <3>1, <3>2
  <2>4. ASSUME next.price < entry.price PROVE \E x \in rest : x.name = name /\ x.price >= entry.price
    <3>1. PICK x \in Waiting : x.name = name /\ x.price >= entry.price
      BY <1>5, <2>1
    <3>2. CASE x \in rest
      BY <3>1, <3>2
    <3>3. CASE x \notin rest
      <4>1. x.sent <= h.sent /\ x.price = x.sent /\ x.price \in Nat
        BY <1>2, <1>5, <3>1, <3>3
      <4> QED BY <1>3, <2>1, <2>4, <3>1, <4>1
    <3> QED BY <3>2, <3>3
  <2> QED BY <1>1, <2>1, <2>2, <2>3, <2>4
<1> QED BY <1>4, <1>5, LatestSet

\* Both keys, after a batch.
LEMMA BothStored ==
  ASSUME PricingInv, NEW batch \in Seq(Command), Store(batch), now' = now,
         Range(batch) \subseteq Waiting, Waiting' \subseteq Waiting,
         \A m \in Waiting : m \in Waiting' \/ \A x \in Range(batch) \cup Waiting' : m.sent <= x.sent,
         Waiting' = Waiting \/ Range(batch) \cap Waiting' = {}
  PROVE  /\ fresh' \in Entry /\ lastKnown' \in Entry
         /\ KeyInv("setFresh", fresh, FreshTtl)' /\ KeyInv("setLast", lastKnown, LastKnownTtl)'
         /\ fresh'.price < fresh.price =>
               \E m \in Waiting' : m.name = "setFresh" /\ m.price >= fresh.price
         /\ lastKnown'.price < lastKnown.price =>
               \E m \in Waiting' : m.name = "setLast" /\ m.price >= lastKnown.price
<1>0. /\ TypeOK /\ fresh \in Entry /\ lastKnown \in Entry /\ FreshTtl \in Nat /\ LastKnownTtl \in Nat
      /\ \A m \in Waiting : CommandServed(m)
  BY DurationAssumption DEF PricingInv, TypeOK
<1>1. /\ fresh' = Latest(batch, "setFresh", fresh, FreshTtl)
      /\ lastKnown' = Latest(batch, "setLast", lastKnown, LastKnownTtl)
  BY DEF Store
<1>w. PICK rest : rest = Waiting'
  OBVIOUS
<1>2. /\ rest \subseteq Waiting
      /\ \A m \in Waiting : m \in rest \/ \A x \in Range(batch) \cup rest : m.sent <= x.sent
      /\ rest = Waiting \/ Range(batch) \cap rest = {}
  BY <1>w
<1>3. /\ fresh' \in Entry /\ fresh'.price <= now
      /\ fresh'.until <= fresh'.price + FreshTtl + RedisTime
      /\ (\E m \in rest : m.name = "setFresh") => \E m \in rest : m.name = "setFresh" /\ m.price >= fresh'.price
      /\ fresh'.price < fresh.price => \E m \in rest : m.name = "setFresh" /\ m.price >= fresh.price
  <2>1. /\ "setFresh" \in Sets /\ fresh.price <= now /\ fresh.until <= fresh.price + FreshTtl + RedisTime
        /\ (\E m \in Waiting : m.name = "setFresh") =>
              \E m \in Waiting : m.name = "setFresh" /\ m.price >= fresh.price
    BY DEF PricingInv, KeyInv, Sets
  <2> QED BY <1>0, <1>1, <1>2, <2>1, KeyStored
<1>4. /\ lastKnown' \in Entry /\ lastKnown'.price <= now
      /\ lastKnown'.until <= lastKnown'.price + LastKnownTtl + RedisTime
      /\ (\E m \in rest : m.name = "setLast") => \E m \in rest : m.name = "setLast" /\ m.price >= lastKnown'.price
      /\ lastKnown'.price < lastKnown.price => \E m \in rest : m.name = "setLast" /\ m.price >= lastKnown.price
  <2>1. /\ "setLast" \in Sets /\ lastKnown.price <= now
        /\ lastKnown.until <= lastKnown.price + LastKnownTtl + RedisTime
        /\ (\E m \in Waiting : m.name = "setLast") =>
              \E m \in Waiting : m.name = "setLast" /\ m.price >= lastKnown.price
    BY DEF PricingInv, KeyInv, Sets
  <2> QED BY <1>0, <1>1, <1>2, <2>1, KeyStored
<1>5. KeyInv("setFresh", fresh, FreshTtl)' /\ KeyInv("setLast", lastKnown, LastKnownTtl)'
  BY <1>3, <1>4, <1>w DEF KeyInv
<1> QED BY <1>3, <1>4, <1>5, <1>w

\* ioredis sends everything again: keys may change, calls notice nothing.
LEMMA ResendInv ==
  ASSUME PricingInv, Resend
  PROVE  /\ PricingInv'
         /\ fresh'.price < fresh.price =>
               \E m \in Waiting' : m.name = "setFresh" /\ m.price >= fresh.price
         /\ lastKnown'.price < lastKnown.price =>
               \E m \in Waiting' : m.name = "setLast" /\ m.price >= lastKnown.price
<1>0. TypeOK /\ UNCHANGED <<now, commands, call>> /\ Waiting' = Waiting
  BY DEF PricingInv, Resend, Waiting
<1>1. PICK n \in DOMAIN commands : Store(SubSeq(commands, 1, n))
  BY DEF Resend
<1>b. PICK batch : batch = SubSeq(commands, 1, n)
  OBVIOUS
<1>2. /\ batch \in Seq(Command)
      /\ Len(batch) = n /\ n \in Nat /\ n <= Len(commands) /\ DOMAIN batch = 1..n
      /\ \A i \in 1..n : batch[i] = commands[i]
  BY <1>0, <1>b DEF TypeOK
<1>3. Range(batch) \subseteq Waiting
  BY <1>0, <1>2 DEF Range, Waiting, TypeOK
<1>4. /\ fresh' \in Entry /\ lastKnown' \in Entry
      /\ KeyInv("setFresh", fresh, FreshTtl)' /\ KeyInv("setLast", lastKnown, LastKnownTtl)'
      /\ fresh'.price < fresh.price =>
            \E m \in Waiting' : m.name = "setFresh" /\ m.price >= fresh.price
      /\ lastKnown'.price < lastKnown.price =>
            \E m \in Waiting' : m.name = "setLast" /\ m.price >= lastKnown.price
  BY <1>0, <1>1, <1>2, <1>3, <1>b, BothStored
<1>5. TypeOK'
  BY <1>0, <1>4 DEF TypeOK
<1>6. \A m \in Waiting' : CommandServed(m)'
  BY <1>0, CommandKept DEF PricingInv
<1>7. \A c \in Callers : CallInv(c)'
  <2>1. \A c \in Callers, name \in Names : Queued(c, name) => Queued(c, name)'
    BY <1>0 DEF Queued
  <2> QED BY <1>0, <2>1, CallKept DEF PricingInv
<1>8. Ordered(commands')
  BY <1>0 DEF PricingInv
<1> QED BY <1>4, <1>5, <1>6, <1>7, <1>8 DEF PricingInv

\* What Redis answers, to the call that asked: nothing that is still waiting is
\* left without its call, and no call without what it waits for.
LEMMA ResumeInv ==
  ASSUME PricingInv, NEW hit \in BOOLEAN, NEW failed \in BOOLEAN, NEW m, NEW rest,
         now' = now, Resume(m, hit, failed),
         m \in Waiting, Waiting = rest \cup {m}, Waiting' = rest,
         \A x \in rest : ~ (x.caller = m.caller /\ x.name = m.name),
         hit /\ m.name = "getFresh" => now < fresh.until,
         hit /\ m.name = "getLast" => now < lastKnown.until
  PROVE  /\ call' \in [Callers -> Call]
         /\ \A c \in Callers : CallInv(c)'
         /\ \A x \in Waiting' : CommandServed(x)'
<1> DEFINE c == m.caller
           r == call[c]
<1>0. /\ TypeOK /\ now \in Nat /\ RedisTime \in Nat /\ MaxRetries \in Nat /\ 0 \in 0..MaxRetries
      /\ Timeout \in Nat
  BY BoundAssumption, DurationAssumption DEF PricingInv, TypeOK
<1>1. /\ m \in Command /\ c \in Callers /\ r \in Call /\ m.name \in Names /\ m.sent \in Nat /\ m.price \in Nat
      /\ r.startedAt \in Nat /\ r.price \in Nat /\ r.unset \in 0..2
  BY <1>0, RangeOfQueue DEF Command, Names, TypeOK, Call
<1>2. /\ CommandServed(m) /\ \A x \in rest : CommandServed(x)
      /\ \A v \in Callers : CallInv(v)
      /\ m.sent <= now /\ now <= m.sent + RedisTime
  BY DEF PricingInv, CommandServed
<1>3. \A x \in rest : x.caller \in Callers /\ x.name \in Names
  BY <1>0, RangeOfQueue DEF Command, Names
<1>4. Deadline(MaxRetries) \in Nat /\ Deadline(0) <= Deadline(MaxRetries) /\ Deadline(0) = RedisTime + Timeout
      /\ Slept(0) = 0
  <2>1. Slept(0) = 0
    BY DurationAssumption DEF Slept
  <2> QED BY <1>0, <2>1, DeadlineStep, DeadlineMonotone
<1>5. /\ fresh.price \in Nat /\ fresh.until \in Nat /\ lastKnown.price \in Nat /\ lastKnown.until \in Nat
      /\ fresh.price <= now /\ fresh.until <= fresh.price + FreshTtl + RedisTime
      /\ lastKnown.price <= now /\ lastKnown.until <= lastKnown.price + LastKnownTtl + RedisTime
  BY <1>0 DEF PricingInv, KeyInv, TypeOK, Entry
\* It is enough to know the record that the caller becomes.
<1>6. ASSUME NEW s \in Call, call' = [call EXCEPT ![c] = s],
             CallInv(c)', \A x \in rest : x.caller = c => CommandServed(x)'
      PROVE  /\ call' \in [Callers -> Call]
             /\ \A v \in Callers : CallInv(v)'
             /\ \A x \in Waiting' : CommandServed(x)'
  <2>1. call' \in [Callers -> Call] /\ \A v \in Callers : v # c => call'[v] = call[v]
    BY <1>0, <1>6 DEF TypeOK
  <2>2. \A v \in Callers, name \in Names : v # c /\ Queued(v, name) => Queued(v, name)'
    BY DEF Queued
  <2>3. \A v \in Callers : CallInv(v)'
    BY <1>2, <1>6, <2>1, <2>2, CallKept
  <2>4. \A x \in rest : CommandServed(x)'
    BY <1>2, <1>3, <1>6, <2>1, CommandKept
  <2> QED BY <2>1, <2>3, <2>4
<1>7. CASE m.name \in {"getFresh", "getLast"}
  <2>1. \A x \in rest : x.caller # c
    BY <1>1, <1>2, <1>3, <1>7 DEF CommandServed, Names, Sets
  <2>2. r.pc = m.name /\ Honest(c) /\ Punctual(c)
    BY <1>1, <1>2, <1>7 DEF CommandServed, CallInv
  <2>s. PICK s : s = IF m.name = "getFresh" THEN AfterGetFresh(r, hit) ELSE AfterGetLast(r, hit)
    OBVIOUS
  <2>3. call' = [call EXCEPT ![c] = s]
    BY <1>7, <2>s DEF Resume, Become
  <2>4. s \in Call /\ CallInv(c)'
    <3>1. CASE m.name = "getFresh" /\ hit
      <4>1. s = Answered(r, fresh.price, FALSE)
        BY <2>s, <3>1 DEF AfterGetFresh
      <4>2. s \in Call /\ call'[c] = s
        BY <1>0, <1>1, <1>5, <2>3, <4>1, AnsweredType DEF TypeOK
      <4>3. /\ s.pc = "done" /\ s.price = fresh.price /\ s.stale = FALSE /\ s.answeredAt = now
            /\ s.outcome = "price" /\ s.startedAt = r.startedAt
        BY <1>1, <4>1 DEF Answered, Call
      <4>4. now - r.startedAt <= RedisTime
        BY <1>0, <1>1, <1>2, <3>1 DEF CommandServed
      <4>5. now - fresh.price <= FreshTtl + RedisTime
        BY <1>0, <1>5, <3>1, DurationAssumption
      <4> QED BY <1>0, <1>1, <1>4, <1>5, <4>2, <4>3, <4>4, <4>5
              DEF CallInv, Awaits, Punctual, Honest, Age
    <3>2. CASE m.name = "getFresh" /\ ~ hit
      <4>1. s = Fetching(r, 0)
        BY <2>s, <3>2 DEF AfterGetFresh
      <4>2. s \in Call /\ call'[c] = s
        BY <1>0, <1>1, <2>3, <4>1, AnsweredType DEF TypeOK
      <4>3. /\ s.pc = "fetch" /\ s.attempt = 0 /\ s.timer = now + Timeout /\ s.startedAt = r.startedAt
            /\ s.price = r.price /\ s.stale = r.stale /\ s.outcome = r.outcome /\ s.answeredAt = r.answeredAt
        BY <1>1, <4>1 DEF Fetching, Call
      <4>4. now - r.startedAt <= RedisTime /\ now - r.startedAt >= 0
        BY <1>0, <1>1, <1>2, <3>2 DEF CommandServed
      <4>5. r.price = 0 /\ r.outcome = "none" /\ ~ r.stale /\ r.answeredAt = 0
        BY <2>2, <3>2 DEF Honest
      <4> QED BY <1>0, <1>1, <1>4, <4>2, <4>3, <4>4, <4>5
              DEF CallInv, Awaits, Punctual, Honest
    <3>3. CASE m.name = "getLast" /\ hit
      <4>1. s = Answered(r, lastKnown.price, TRUE)
        BY <2>s, <3>3 DEF AfterGetLast
      <4>2. s \in Call /\ call'[c] = s
        BY <1>0, <1>1, <1>5, <2>3, <4>1, AnsweredType DEF TypeOK
      <4>3. /\ s.pc = "done" /\ s.price = lastKnown.price /\ s.stale = TRUE /\ s.answeredAt = now
            /\ s.outcome = "price" /\ s.startedAt = r.startedAt /\ s.attempt = r.attempt
        BY <1>1, <4>1 DEF Answered, Call
      <4>4. now - r.startedAt <= Deadline(MaxRetries) + RedisTime
        BY <1>0, <1>1, <1>2, <1>4, <3>3 DEF CommandServed
      <4>5. now - lastKnown.price <= LastKnownTtl + RedisTime
        BY <1>0, <1>5, <3>3, DurationAssumption
      <4>6. r.attempt = MaxRetries /\ now - r.startedAt >= Slept(MaxRetries)
        BY <2>2, <3>3 DEF Punctual
      <4> QED BY <1>0, <1>1, <1>4, <1>5, <4>2, <4>3, <4>4, <4>5, <4>6
              DEF CallInv, Awaits, Punctual, Honest, Age
    <3>4. CASE m.name = "getLast" /\ ~ hit
      <4>1. s = Unavailable(r)
        BY <2>s, <3>4 DEF AfterGetLast
      <4>2. s \in Call /\ call'[c] = s
        BY <1>0, <1>1, <2>3, <4>1, AnsweredType DEF TypeOK
      <4>3. /\ s.pc = "done" /\ s.price = r.price /\ s.stale = r.stale /\ s.answeredAt = now
            /\ s.outcome = "error" /\ s.startedAt = r.startedAt /\ s.attempt = r.attempt
        BY <1>1, <4>1 DEF Unavailable, Call
      <4>4. now - r.startedAt <= Deadline(MaxRetries) + RedisTime
        BY <1>0, <1>1, <1>2, <1>4, <3>4 DEF CommandServed
      <4>5. r.price = 0 /\ ~ r.stale
        BY <2>2, <3>4 DEF Honest
      <4>6. r.attempt = MaxRetries /\ now - r.startedAt >= Slept(MaxRetries)
        BY <2>2, <3>4 DEF Punctual
      <4> QED BY <1>0, <1>1, <1>4, <4>2, <4>3, <4>4, <4>5, <4>6
              DEF CallInv, Awaits, Punctual, Honest
    <3> QED BY <1>7, <3>1, <3>2, <3>3, <3>4
  <2> QED BY <1>6, <2>1, <2>3, <2>4
<1>8. CASE m.name \in Sets /\ r.pc = "set"
  <2>1. /\ r.price = m.price /\ m.price = m.sent /\ Honest(c) /\ Punctual(c) /\ Awaits(c)
    <3>1. r.price = m.price /\ m.price = m.sent
      BY <1>2, <1>8 DEF CommandServed
    <3>2. Honest(c) /\ Punctual(c) /\ Awaits(c)
      BY <1>1, <1>2 DEF CallInv
    <3> QED BY <3>1, <3>2
  <2>2. \A x \in rest : x.caller = c =>
           x.name \in Sets /\ x.name # m.name /\ x.price = x.sent /\ r.price = x.price
    <3>1. ASSUME NEW x \in rest, x.caller = c
          PROVE  x.name \in Sets /\ x.name # m.name /\ x.price = x.sent /\ r.price = x.price
      <4>1. CommandServed(x) /\ x.name # m.name
        BY <1>2, <3>1
      <4>2. x.name # "getFresh" /\ x.name # "getLast"
        BY <1>8, <3>1, <4>1 DEF CommandServed
      <4>3. x.name \in Sets
        BY <1>3, <4>2 DEF Names, Sets
      <4> QED BY <1>8, <3>1, <4>1, <4>3 DEF CommandServed
    <3> QED BY <3>1
  <2>s. PICK s : s = AfterSet(r, failed)
    OBVIOUS
  <2>3. call' = [call EXCEPT ![c] = s]
    BY <1>8, <2>s DEF Resume, Become, Sets
  <2>4. CASE ~ failed /\ r.unset > 1
    <3>1. s = [r EXCEPT !.unset = 1]
      BY <2>s, <2>4 DEF AfterSet
    <3>2. s \in Call /\ call'[c] = s
      <4>1. 1 \in 0..2
        OBVIOUS
      <4> QED BY <1>0, <1>1, <2>3, <3>1, <4>1, UpdatedType DEF TypeOK
    <3>3. /\ s.pc = "set" /\ s.unset = 1 /\ s.price = r.price /\ s.stale = r.stale
          /\ s.answeredAt = r.answeredAt /\ s.outcome = r.outcome /\ s.startedAt = r.startedAt
      BY <1>1, <1>8, <3>1 DEF Call
    <3>4. \E name \in Sets : Queued(c, name)'
      <4>1. PICK other \in Sets : other # m.name
        BY DEF Sets
      <4>2. Queued(c, other)
        BY <1>8, <2>1, <2>4 DEF Awaits
      <4>3. Queued(c, other)'
        BY <4>1, <4>2 DEF Queued
      <4> QED BY <4>3
    <3>5. CallInv(c)'
      BY <1>8, <2>1, <3>2, <3>3, <3>4 DEF CallInv, Awaits, Punctual, Honest
    <3>6. \A x \in rest : x.caller = c => CommandServed(x)'
      BY <1>2, <1>8, <2>2, <3>2, <3>3 DEF CommandServed, Sets
    <3> QED BY <1>6, <2>3, <3>2, <3>5, <3>6
  <2>5. CASE ~ (~ failed /\ r.unset > 1)
    <3>t. PICK t : t = [r EXCEPT !.unset = 0]
      OBVIOUS
    <3>1. s = Answered(t, r.price, FALSE)
      BY <2>s, <2>5, <3>t DEF AfterSet
    <3>2. t \in Call
      <4>1. 0 \in 0..2
        OBVIOUS
      <4> QED BY <1>1, <3>t, <4>1, UpdatedType
    <3>3. s \in Call /\ call'[c] = s
      BY <1>0, <1>1, <2>3, <3>1, <3>2, AnsweredType DEF TypeOK
    <3>4. /\ s.pc = "done" /\ s.price = r.price /\ s.stale = FALSE
          /\ s.answeredAt = now /\ s.outcome = "price" /\ s.startedAt = r.startedAt
      BY <1>1, <3>1, <3>2, <3>t DEF Answered, Call
    <3>5. /\ r.price <= now /\ now - r.price <= RedisTime
          /\ r.price - r.startedAt <= Deadline(MaxRetries)
      BY <1>0, <1>1, <1>2, <1>8, <2>1 DEF Punctual
    <3>6. now - r.price <= FreshTtl + RedisTime /\ now - r.startedAt <= Deadline(MaxRetries) + RedisTime
      BY <1>0, <1>1, <1>4, <3>5, DurationAssumption
    <3>7. CallInv(c)'
      BY <3>3, <3>4, <3>5, <3>6 DEF CallInv, Awaits, Punctual, Honest, Age
    <3>8. \A x \in rest : x.caller = c => CommandServed(x)'
      BY <1>2, <2>2, <3>3, <3>4 DEF CommandServed, Sets
    <3> QED BY <1>6, <2>3, <3>3, <3>7, <3>8
  <2> QED BY <2>4, <2>5
<1>9. CASE m.name \in Sets /\ r.pc # "set"
  <2>1. r.pc = "done"
    BY <1>2, <1>9 DEF CommandServed
  <2>2. call' = [call EXCEPT ![c] = r] /\ call'[c] = r
    BY <1>0, <1>9 DEF Resume, Become, Sets, TypeOK
  <2>3. CallInv(c)'
    <3>1. Awaits(c)' /\ Punctual(c)'
      BY <2>1, <2>2 DEF Awaits, Punctual
    <3>2. Honest(c)
      BY <1>1, <1>2 DEF CallInv
    <3>3. Honest(c)'
      BY <2>1, <2>2, <3>2 DEF Honest, Age
    <3> QED BY <3>1, <3>3 DEF CallInv
  <2>4. \A x \in rest : x.caller = c => CommandServed(x)'
    BY <1>2, <2>2, CommandKept
  <2> QED BY <1>1, <1>6, <2>2, <2>3, <2>4
<1> QED BY <1>1, <1>7, <1>8, <1>9 DEF Names, Sets

\* Redis executes the oldest command.
LEMMA ExecuteInv ==
  ASSUME PricingInv, Execute
  PROVE  /\ PricingInv'
         /\ fresh'.price < fresh.price =>
               \E m \in Waiting' : m.name = "setFresh" /\ m.price >= fresh.price
         /\ lastKnown'.price < lastKnown.price =>
               \E m \in Waiting' : m.name = "setLast" /\ m.price >= lastKnown.price
<1>m. PICK m : m = Head(commands)
  OBVIOUS
<1>h. PICK hit \in BOOLEAN : hit = (\/ m.name = "getFresh" /\ now < fresh.until
                                    \/ m.name = "getLast" /\ now < lastKnown.until)
  OBVIOUS
<1>b. PICK batch : batch = <<m>>
  OBVIOUS
<1>w. PICK rest : rest = Range(Tail(commands))
  OBVIOUS
<1>0. TypeOK /\ commands \in Seq(Command) /\ commands # <<>> /\ now' = now /\ commands' = Tail(commands)
  BY DEF PricingInv, TypeOK, Execute
<1>1. /\ commands' \in Seq(Command) /\ Ordered(commands')
      /\ m \in Command /\ Waiting = rest \cup {m} /\ Waiting' = rest
      /\ \A x \in rest : m.sent <= x.sent /\ ~ (x.caller = m.caller /\ x.name = m.name)
  BY <1>0, <1>m, <1>w, QueueShrinks DEF PricingInv, Waiting
<1>2. Store(batch) /\ Resume(m, hit, FALSE)
  BY <1>m, <1>h, <1>b DEF Execute
<1>3. /\ hit /\ m.name = "getFresh" => now < fresh.until
      /\ hit /\ m.name = "getLast" => now < lastKnown.until
  BY <1>h
<1>4. /\ call' \in [Callers -> Call]
      /\ \A c \in Callers : CallInv(c)'
      /\ \A x \in Waiting' : CommandServed(x)'
  BY <1>0, <1>1, <1>2, <1>3, ResumeInv
<1>5. batch \in Seq(Command) /\ Range(batch) = {m}
  BY <1>1, <1>b DEF Range
<1>6. /\ fresh' \in Entry /\ lastKnown' \in Entry
      /\ KeyInv("setFresh", fresh, FreshTtl)' /\ KeyInv("setLast", lastKnown, LastKnownTtl)'
      /\ fresh'.price < fresh.price =>
            \E x \in Waiting' : x.name = "setFresh" /\ x.price >= fresh.price
      /\ lastKnown'.price < lastKnown.price =>
            \E x \in Waiting' : x.name = "setLast" /\ x.price >= lastKnown.price
  <2>1. m.sent <= m.sent /\ m \notin rest
    BY <1>1 DEF Command
  <2> QED BY <1>0, <1>1, <1>2, <1>5, <2>1, BothStored
<1>7. TypeOK'
  BY <1>0, <1>1, <1>4, <1>6 DEF TypeOK
<1> QED BY <1>1, <1>4, <1>6, <1>7 DEF PricingInv

\* The connection gives the oldest command up.
LEMMA FailInv ==
  ASSUME PricingInv, Fail
  PROVE  PricingInv'
<1>m. PICK m : m = Head(commands)
  OBVIOUS
<1>w. PICK rest : rest = Range(Tail(commands))
  OBVIOUS
<1>0. /\ TypeOK /\ commands \in Seq(Command) /\ commands # <<>> /\ UNCHANGED <<now, fresh, lastKnown>>
      /\ commands' = Tail(commands)
  BY DEF PricingInv, TypeOK, Fail
<1>1. /\ commands' \in Seq(Command) /\ Ordered(commands')
      /\ m \in Command /\ Waiting = rest \cup {m} /\ Waiting' = rest
      /\ \A x \in rest : m.sent <= x.sent /\ ~ (x.caller = m.caller /\ x.name = m.name)
  BY <1>0, <1>m, <1>w, QueueShrinks DEF PricingInv, Waiting
<1>2. Resume(m, FALSE, TRUE)
  BY <1>m DEF Fail
<1>4. /\ call' \in [Callers -> Call]
      /\ \A c \in Callers : CallInv(c)'
      /\ \A x \in Waiting' : CommandServed(x)'
  BY <1>0, <1>1, <1>2, ResumeInv
<1>5. \A x \in Waiting : x.price \in Nat /\ (x.name \in Sets => x.price = x.sent)
  BY <1>0, RangeOfQueue DEF PricingInv, CommandServed, Command
<1>6. fresh.price \in Nat /\ lastKnown.price \in Nat
  BY <1>0 DEF TypeOK, Entry
<1>7. KeyInv("setFresh", fresh, FreshTtl)'
  <2>1. KeyInv("setFresh", fresh, FreshTtl)
    BY DEF PricingInv
  <2>2. ASSUME NEW x \in rest, x.name = "setFresh"
        PROVE  \E y \in rest : y.name = "setFresh" /\ y.price >= fresh.price
    <3>1. PICK y \in Waiting : y.name = "setFresh" /\ y.price >= fresh.price
      BY <1>1, <2>1, <2>2 DEF KeyInv
    <3> QED BY <1>1, <1>5, <1>6, <2>2, <3>1 DEF Sets
  <2> QED BY <1>0, <1>1, <2>1, <2>2 DEF KeyInv
<1>8. KeyInv("setLast", lastKnown, LastKnownTtl)'
  <2>1. KeyInv("setLast", lastKnown, LastKnownTtl)
    BY DEF PricingInv
  <2>2. ASSUME NEW x \in rest, x.name = "setLast"
        PROVE  \E y \in rest : y.name = "setLast" /\ y.price >= lastKnown.price
    <3>1. PICK y \in Waiting : y.name = "setLast" /\ y.price >= lastKnown.price
      BY <1>1, <2>1, <2>2 DEF KeyInv
    <3> QED BY <1>1, <1>5, <1>6, <2>2, <3>1 DEF Sets
  <2> QED BY <1>0, <1>1, <2>1, <2>2 DEF KeyInv
<1>9. TypeOK'
  BY <1>0, <1>1, <1>4 DEF TypeOK
<1> QED BY <1>1, <1>4, <1>7, <1>8, <1>9 DEF PricingInv

-----------------------------------------------------------------------------
LEMMA InitInv == Init => PricingInv
<1> SUFFICES ASSUME Init PROVE PricingInv
  OBVIOUS
<1>1. Waiting = {} /\ Ordered(commands)
  BY DEF Init, Waiting, Range, Ordered
<1>2. TypeOK
  BY NotCalledType, BoundAssumption DEF Init, TypeOK, Entry, Gone
<1>3. \A c \in Callers : CallInv(c)
  BY DEF Init, CallInv, Awaits, Punctual, Honest, NotCalled
<1>4. KeyInv("setFresh", fresh, FreshTtl) /\ KeyInv("setLast", lastKnown, LastKnownTtl)
  BY <1>1, DurationAssumption DEF Init, KeyInv, Gone
<1> QED BY <1>1, <1>2, <1>3, <1>4 DEF PricingInv

LEMMA NextInv == PricingInv /\ [Next]_vars => PricingInv'
<1> SUFFICES ASSUME PricingInv, [Next]_vars PROVE PricingInv'
  OBVIOUS
<1>1. CASE UNCHANGED vars
  <2>0. TypeOK /\ UNCHANGED <<now, fresh, lastKnown, commands, call>> /\ Waiting' = Waiting
    BY <1>1 DEF PricingInv, vars, Waiting
  <2>1. TypeOK' /\ Ordered(commands')
    BY <2>0 DEF PricingInv, TypeOK
  <2>2. \A c \in Callers : CallInv(c)'
    <3>1. \A c \in Callers, name \in Names : Queued(c, name) => Queued(c, name)'
      BY <2>0 DEF Queued
    <3> QED BY <2>0, <3>1, CallKept DEF PricingInv
  <2>3. \A m \in Waiting' : CommandServed(m)'
    BY <2>0, CommandKept DEF PricingInv
  <2>4. KeyInv("setFresh", fresh, FreshTtl)' /\ KeyInv("setLast", lastKnown, LastKnownTtl)'
    BY <2>0, KeysKept
  <2> QED BY <2>1, <2>2, <2>3, <2>4 DEF PricingInv
<1> QED
  BY <1>1, StartInv, FetchAnswersInv, FetchFailsInv, RetryInv, ExecuteInv, FailInv, ResendInv, TickInv
  DEF Next, Timers, Redis

\* The queue, the keys and the calls are as PricingInv says in every behaviour.
THEOREM PricingInductive == Spec => []PricingInv
BY InitInv, NextInv, PTL DEF Spec

\* Every record of Pricing keeps its type: clock, keys, queue and calls.
THEOREM PricingTyped == Spec => []TypeOK
<1>1. PricingInv => TypeOK
  BY DEF PricingInv
<1> QED BY <1>1, PricingInductive, PTL

-----------------------------------------------------------------------------
(* What a price is worth, and what it takes to get one *)

\* getIndicativePrice never returns a price as fresh that is older than the
\* lifetime of the fresh key and the time its SET took, whatever Redis and
\* Binance do.
THEOREM PricesAreRecent == Spec => []FreshMeansRecent
<1>1. PricingInv => FreshMeansRecent
  BY DEF PricingInv, CallInv, Honest, FreshMeansRecent
<1> QED BY <1>1, PricingInductive, PTL

\* The stale fallback, and the 503, come after every attempt has failed and all
\* sleeps have passed; trouble with Redis alone leads to neither.
THEOREM FallbackAfterRetries == Spec => []FallbackIsLastResort
<1>1. BackoffSum = Slept(MaxRetries)
  BY DEF BackoffSum, Slept
<1>2. PricingInv => FallbackIsLastResort
  <2> SUFFICES ASSUME PricingInv, NEW c \in Callers,
                      Done(c), call[c].stale \/ call[c].outcome = "error"
               PROVE  /\ call[c].attempt = MaxRetries
                      /\ call[c].answeredAt - call[c].startedAt >= BackoffSum
    BY DEF FallbackIsLastResort
  <2>1. Honest(c)
    BY DEF PricingInv, CallInv
  <2> QED BY <1>1, <2>1 DEF Honest, Done
<1> QED BY <1>2, PricingInductive, PTL

\* The most that a call may take, put together from its attempts.
LEMMA LatencySum ==
  /\ Deadline(MaxRetries) + RedisTime = (MaxRetries + 1) * Timeout + BackoffSum + 2 * RedisTime
  /\ Deadline(MaxRetries) \in Nat
<1>1. Deadline(MaxRetries) = RedisTime + (MaxRetries + 1) * Timeout + BackoffSum
  BY DEF Deadline, Slept, BackoffSum
<1>2. MaxRetries \in Nat /\ RedisTime \in Nat /\ Timeout \in Nat
  BY DurationAssumption
<1>3. Slept(MaxRetries) \in Nat /\ Deadline(MaxRetries) \in Nat
  BY <1>2, SleptStep, DeadlineStep
<1>4. BackoffSum \in Nat
  BY <1>3 DEF Slept, BackoffSum
<1>5. (MaxRetries + 1) * Timeout \in Nat
  BY <1>2
<1> QED BY <1>1, <1>2, <1>3, <1>4, <1>5

\* A call that is on its way has not taken longer than that.
LEMMA WaitingInTime ==
  ASSUME PricingInv, NEW c \in Callers, call[c].pc \notin {"idle", "done"}
  PROVE  now - call[c].startedAt <= Deadline(MaxRetries) + RedisTime
<1> DEFINE r == call[c]
<1>0. /\ TypeOK /\ Awaits(c) /\ Punctual(c)
      /\ now \in Nat /\ RedisTime \in Nat /\ MaxRetries \in Nat /\ Timeout \in Nat
  BY BoundAssumption, DurationAssumption DEF PricingInv, CallInv, TypeOK
<1>1. /\ r \in Call /\ r.startedAt \in Nat /\ r.attempt \in 0..MaxRetries /\ r.timer \in Nat
      /\ r.price \in Nat
  BY <1>0 DEF TypeOK, Call
<1>2. Deadline(MaxRetries) \in Nat /\ Deadline(0) <= Deadline(MaxRetries) /\ Deadline(0) = RedisTime + Timeout
  BY <1>0, DeadlineStep, DeadlineMonotone
<1>3. ASSUME NEW name \in Names, Queued(c, name)
      PROVE  \E m \in Waiting : m.caller = c /\ m.name = name /\ m.sent \in Nat /\ CommandServed(m)
  BY <1>0, <1>3, RangeOfQueue DEF PricingInv, Queued, Command
<1>4. CASE r.pc = "getFresh"
  <2>1. PICK m \in Waiting : m.caller = c /\ m.name = "getFresh" /\ m.sent \in Nat /\ CommandServed(m)
    BY <1>0, <1>3, <1>4 DEF Awaits, Names
  <2>2. m.sent = r.startedAt /\ now <= m.sent + RedisTime
    BY <2>1 DEF CommandServed
  <2> QED BY <1>0, <1>1, <1>2, <2>1, <2>2
<1>5. CASE r.pc = "fetch"
  <2>1. Deadline(r.attempt) \in Nat /\ Deadline(r.attempt) <= Deadline(MaxRetries)
    BY <1>1, DeadlineStep, DeadlineMonotone
  <2>2. now <= r.timer /\ r.timer - r.startedAt <= Deadline(r.attempt)
    BY <1>0, <1>5 DEF Punctual
  <2> HIDE DEF r
  <2>3. now - r.startedAt <= Deadline(MaxRetries)
    BY <1>0, <1>1, <1>2, <2>1, <2>2
  <2>4. now - r.startedAt <= Deadline(MaxRetries) + RedisTime
    BY <1>0, <1>1, <1>2, <2>3
  <2> QED BY <2>4 DEF r
<1>6. CASE r.pc = "backoff"
  <2>1. now <= r.timer /\ r.timer - r.startedAt <= Deadline(r.attempt + 1) - Timeout /\ r.attempt < MaxRetries
    BY <1>0, <1>6 DEF Punctual
  <2>2. r.attempt + 1 \in 0..MaxRetries
    BY <1>0, <1>1, <2>1
  <2>3. Deadline(r.attempt + 1) \in Nat /\ Deadline(r.attempt + 1) <= Deadline(MaxRetries)
    BY <2>2, DeadlineStep, DeadlineMonotone
  <2> HIDE DEF r
  <2>4. now - r.startedAt <= Deadline(MaxRetries) + RedisTime
    BY <1>0, <1>1, <1>2, <2>1, <2>3
  <2> QED BY <2>4 DEF r
<1>7. CASE r.pc = "set"
  <2>1. PICK m \in Waiting : m.caller = c /\ m.name \in Sets /\ m.sent \in Nat /\ CommandServed(m)
    BY <1>0, <1>3, <1>7 DEF Awaits, Names, Sets
  <2>2. r.price = m.sent /\ now <= m.sent + RedisTime /\ r.price - r.startedAt <= Deadline(MaxRetries)
    BY <1>0, <1>7, <2>1 DEF CommandServed, Punctual
  <2> QED BY <1>0, <1>1, <1>2, <2>1, <2>2
<1>8. CASE r.pc = "getLast"
  <2>1. PICK m \in Waiting : m.caller = c /\ m.name = "getLast" /\ m.sent \in Nat /\ CommandServed(m)
    BY <1>0, <1>3, <1>8 DEF Awaits, Names
  <2>2. m.sent - r.startedAt <= Deadline(MaxRetries) /\ now <= m.sent + RedisTime
    BY <2>1 DEF CommandServed, Sets
  <2> QED BY <1>0, <1>1, <1>2, <2>1, <2>2
<1> QED BY <1>1, <1>4, <1>5, <1>6, <1>7, <1>8 DEF Call

LEMMA LatencyHolds == PricingInv => BoundedLatency
<1> SUFFICES ASSUME PricingInv, NEW c \in Callers, call[c].pc # "idle"
             PROVE  (IF Done(c) THEN call[c].answeredAt ELSE now) - call[c].startedAt
                        <= (MaxRetries + 1) * Timeout + BackoffSum + 2 * RedisTime
  BY DEF BoundedLatency
<1>1. CASE Done(c)
  <2>1. Honest(c)
    BY DEF PricingInv, CallInv
  <2> QED BY <1>1, <2>1, LatencySum DEF Honest, Done
<1>2. CASE ~ Done(c)
  BY <1>2, WaitingInTime, LatencySum DEF Done
<1> QED BY <1>1, <1>2

\* No call, answered or not, takes longer than its timeouts, its sleeps and two
\* waits for Redis.
THEOREM LatencyBounded == Spec => []BoundedLatency
BY LatencyHolds, PricingInductive, PTL

-----------------------------------------------------------------------------
(* Concurrent stores *)

\* A key goes back to an older price only while a SET of the newer one is in the
\* queue again: calls that race to refill the cache cannot leave it older.
THEOREM NoSilentSetback == Spec => OlderPriceOnlyWhileResending
<1>1. ASSUME PricingInv, [Next]_vars
      PROVE  /\ fresh'.price < fresh.price =>
                   \E m \in Waiting' : m.name = "setFresh" /\ m.price >= fresh.price
             /\ lastKnown'.price < lastKnown.price =>
                   \E m \in Waiting' : m.name = "setLast" /\ m.price >= lastKnown.price
  <2>1. CASE Execute
    BY <1>1, <2>1, ExecuteInv
  <2>2. CASE Resend
    BY <1>1, <2>2, ResendInv
  <2>3. CASE ~ Execute /\ ~ Resend
    <3>1. fresh' = fresh /\ lastKnown' = lastKnown
      BY <1>1, <2>3 DEF Next, vars, Timers, Redis, Start, FetchAnswers, FetchFails, Retry, Fail, Tick
    <3>2. fresh.price \in Nat /\ lastKnown.price \in Nat
      BY <1>1 DEF PricingInv, TypeOK, Entry
    <3> QED BY <3>1, <3>2
  <2> QED BY <2>1, <2>2, <2>3
<1>2. PricingInv /\ [Next]_vars =>
        [Back("setFresh", fresh, fresh') /\ Back("setLast", lastKnown, lastKnown')]_<<fresh, lastKnown>>
  BY <1>1 DEF Back, Waiting, Range
<1> QED BY <1>2, PricingInductive, PTL DEF Spec, OlderPriceOnlyWhileResending

-----------------------------------------------------------------------------
(* Pricing implements PriceFeed *)

\* EXCEPT on fields of one record, as an update of the record.
LEMMA AskFields ==
  ASSUME NEW a \in Feed!Ask
  PROVE  a = [state |-> a.state, since |-> a.since, priceAt |-> a.priceAt, stale |-> a.stale]
BY DEF Feed!Ask

LEMMA AskAnswered ==
  ASSUME NEW A, NEW c, A[c] \in Feed!Ask, NEW v, v \in Feed!Ask, v.since = A[c].since
  PROVE  [A EXCEPT ![c].state = v.state, ![c].priceAt = v.priceAt, ![c].stale = v.stale]
            = [A EXCEPT ![c] = v]
<1>1. PICK a : a = [A[c] EXCEPT !.state = v.state, !.priceAt = v.priceAt, !.stale = v.stale]
  OBVIOUS
<1>2. a \in Feed!Ask /\ a.state = v.state /\ a.since = v.since /\ a.priceAt = v.priceAt /\ a.stale = v.stale
  BY <1>1 DEF Feed!Ask
<1>3. a = v
  <2>1. a = [state |-> a.state, since |-> a.since, priceAt |-> a.priceAt, stale |-> a.stale]
    BY <1>2, AskFields
  <2>2. v = [state |-> v.state, since |-> v.since, priceAt |-> v.priceAt, stale |-> v.stale]
    BY AskFields
  <2> QED BY <1>2, <2>1, <2>2, Zenon
<1>4. [A EXCEPT ![c].state = v.state, ![c].priceAt = v.priceAt, ![c].stale = v.stale] = [A EXCEPT ![c] = a]
  BY <1>1, Zenon
<1> QED BY <1>3, <1>4, Zenon

LEMMA AskStarted ==
  ASSUME NEW A, NEW c, A[c] \in Feed!Ask, NEW n \in Nat
  PROVE  [A EXCEPT ![c].state = "waiting", ![c].since = n]
            = [A EXCEPT ![c] = [state |-> "waiting", since |-> n, priceAt |-> A[c].priceAt,
                                stale |-> A[c].stale]]
<1>1. PICK a : a = [A[c] EXCEPT !.state = "waiting", !.since = n]
  OBVIOUS
<1>2. a \in Feed!Ask /\ a.state = "waiting" /\ a.since = n /\ a.priceAt = A[c].priceAt
      /\ a.stale = A[c].stale
  BY <1>1 DEF Feed!Ask
<1>3. a = [state |-> "waiting", since |-> n, priceAt |-> A[c].priceAt, stale |-> A[c].stale]
  BY <1>2, AskFields
<1>4. [A EXCEPT ![c].state = "waiting", ![c].since = n] = [A EXCEPT ![c] = a]
  BY <1>1, Zenon
<1> QED BY <1>3, <1>4, Zenon

LEMMA InitIsFeed == Init => Feed!Init
BY DEF Init, NotCalled, Asks, Done, Feed!Init, Feed!NotAsked

\* A call on its way that moves, to its answer or not, is an answer of PriceFeed
\* or nothing.
LEMMA MoveIsFeed ==
  ASSUME PricingInv, PricingInv', now' = now,
         NEW c \in Callers, NEW s, call' = [call EXCEPT ![c] = s],
         call[c].pc \notin {"idle", "done"}, s.pc # "idle", s.startedAt = call[c].startedAt,
         s.pc = "done" => s.answeredAt = now
  PROVE  [Feed!Next]_(Feed!vars)
<1> DEFINE r == call[c]
<1>0. /\ TypeOK /\ TypeOK' /\ call'[c] = s /\ s \in Call /\ r \in Call
      /\ Honest(c) /\ Honest(c)' /\ now \in Nat
  BY BoundAssumption DEF PricingInv, CallInv, TypeOK
<1>1. r.outcome = "none" /\ ~ r.stale /\ r.price = r.price
  BY <1>0 DEF Honest
<1>2. Asks[c] = [state |-> "waiting", since |-> r.startedAt, priceAt |-> 0, stale |-> r.stale]
  BY <1>1 DEF Asks, Done
<1>3. PICK view : view = [state |-> CASE s.pc = "idle" -> "idle"
                                      [] s.outcome = "price" -> "priced"
                                      [] s.outcome = "error" -> "failed"
                                      [] OTHER -> "waiting",
                          since |-> s.startedAt,
                          priceAt |-> IF s.pc = "done" THEN s.price ELSE 0,
                          stale |-> s.stale]
  OBVIOUS
<1>4. Asks' = [Asks EXCEPT ![c] = view]
  BY <1>0, <1>3 DEF Asks, Done, TypeOK
<1>5. CASE s.pc # "done"
  <2>1. s.outcome = "none" /\ ~ s.stale
    BY <1>0, <1>5 DEF Honest
  <2>2. view = Asks[c]
    <3>1. s.stale = r.stale
      BY <1>0, <1>1, <2>1 DEF Call
    <3> QED BY <1>2, <1>3, <1>5, <2>1, <3>1
  <2> QED BY <1>4, <2>2 DEF Feed!vars, Asks
<1>6. CASE s.pc = "done"
  <2>1. /\ s.answeredAt = now
        /\ \/ /\ s.outcome = "price" /\ s.price <= now
              /\ now - s.price <= (IF s.stale THEN LastKnownTtl ELSE FreshTtl) + RedisTime
           \/ s.outcome = "error" /\ s.price = 0 /\ ~ s.stale
        /\ s.stale \/ s.outcome = "error" => now - s.startedAt >= Slept(MaxRetries)
    BY <1>0, <1>6 DEF Honest, Age
  <2>2. BackoffSum = Slept(MaxRetries)
    BY DEF BackoffSum, Slept
  <2>3. s.price \in Nat /\ s.stale \in BOOLEAN
    BY <1>0 DEF Call
  <2>4. Asks[c].state = "waiting" /\ Asks[c].since = s.startedAt
    BY <1>2
  <2>5. ASSUME view.state \in {"priced", "failed"}
        PROVE  Feed!Answer(c, view.state, view.priceAt, view.stale)
    <3>1. Asks[c] \in Feed!Ask
      BY <1>0, <1>2 DEF Call, Feed!Ask
    <3>2. view \in Feed!Ask /\ view.since = Asks[c].since
      BY <1>0, <1>3, <2>3, <2>4, <2>5 DEF Call, Feed!Ask
    <3>3. [Asks EXCEPT ![c].state = view.state, ![c].priceAt = view.priceAt, ![c].stale = view.stale]
            = [Asks EXCEPT ![c] = view]
      BY <3>1, <3>2, AskAnswered, Zenon
    <3> QED BY <1>4, <2>4, <3>3 DEF Feed!Answer
  <2>6. CASE s.outcome = "price" /\ ~ s.stale
    <3>1. Feed!Answer(c, "priced", s.price, FALSE)
      <4>1. view.state = "priced" /\ view.priceAt = s.price /\ view.stale = FALSE
        BY <1>3, <1>6, <2>3, <2>6
      <4> QED BY <2>5, <4>1
    <3>2. s.price \in 0..now /\ now - s.price <= FreshTtl + RedisTime
      BY <1>0, <2>1, <2>3, <2>6
    <3> QED BY <3>1, <3>2 DEF Feed!Next, Feed!Answered, Feed!AnswerFresh
  <2>7. CASE s.outcome = "price" /\ s.stale
    <3>1. Feed!Answer(c, "priced", s.price, TRUE)
      <4>1. view.state = "priced" /\ view.priceAt = s.price /\ view.stale = TRUE
        BY <1>3, <1>6, <2>3, <2>7
      <4> QED BY <2>5, <4>1
    <3>2. s.price \in 0..now /\ now - s.price <= LastKnownTtl + RedisTime
      BY <1>0, <2>1, <2>3, <2>7
    <3>3. Feed!GiveUp(c)
      BY <2>1, <2>2, <2>4, <2>7 DEF Feed!GiveUp
    <3> QED BY <3>1, <3>2, <3>3 DEF Feed!Next, Feed!Answered, Feed!AnswerStale
  <2>8. CASE s.outcome = "error"
    <3>1. Feed!Answer(c, "failed", 0, FALSE)
      <4>1. view.state = "failed" /\ view.priceAt = 0 /\ view.stale = FALSE
        BY <1>3, <1>6, <2>1, <2>3, <2>8
      <4> QED BY <2>5, <4>1
    <3>2. Feed!GiveUp(c)
      BY <2>1, <2>2, <2>4, <2>8 DEF Feed!GiveUp
    <3> QED BY <3>1, <3>2 DEF Feed!Next, Feed!Answered, Feed!AnswerUnavailable
  <2> QED BY <2>1, <2>3, <2>6, <2>7, <2>8
<1> QED BY <1>5, <1>6

LEMMA StartIsFeed ==
  ASSUME PricingInv, NEW c \in Callers, Start(c)
  PROVE  Feed!Next
<1>r. PICK r : r = [NotCalled EXCEPT !.pc = "getFresh", !.startedAt = now]
  OBVIOUS
<1>1. /\ call[c].pc = "idle" /\ now' = now /\ call' = [call EXCEPT ![c] = r]
      /\ call \in [Callers -> Call] /\ call[c] = NotCalled
  BY <1>r DEF Start, Become, PricingInv, TypeOK, CallInv, Honest
<1>2. Asks[c] = [state |-> "idle", since |-> 0, priceAt |-> 0, stale |-> FALSE]
  <2>1. /\ call[c].pc = "idle" /\ call[c].outcome = "none" /\ call[c].startedAt = 0
        /\ call[c].price = 0 /\ call[c].stale = FALSE
    BY <1>1 DEF NotCalled
  <2> QED BY <2>1 DEF Asks, Done
<1>3. Asks' = [Asks EXCEPT ![c] = [state |-> "waiting", since |-> now, priceAt |-> 0, stale |-> FALSE]]
  BY <1>1, <1>r DEF Asks, Done, NotCalled
<1>4. [Asks EXCEPT ![c].state = "waiting", ![c].since = now]
        = [Asks EXCEPT ![c] = [state |-> "waiting", since |-> now, priceAt |-> 0, stale |-> FALSE]]
  <2>1. Asks[c] \in Feed!Ask /\ Asks[c].priceAt = 0 /\ Asks[c].stale = FALSE
    BY <1>2 DEF Feed!Ask
  <2>2. now \in Nat
    BY BoundAssumption DEF PricingInv, TypeOK
  <2>3. [Asks EXCEPT ![c].state = "waiting", ![c].since = now]
          = [Asks EXCEPT ![c] = [state |-> "waiting", since |-> now, priceAt |-> Asks[c].priceAt,
                                 stale |-> Asks[c].stale]]
    BY <2>1, <2>2, AskStarted, Zenon
  <2> QED BY <2>1, <2>3, Zenon
<1>5. Feed!Start(c)
  BY <1>1, <1>2, <1>3, <1>4 DEF Feed!Start
<1> QED BY <1>5 DEF Feed!Next

\* An answer of Redis moves the call that waits for it, if it still does.
LEMMA ResumeIsFeed ==
  ASSUME PricingInv, PricingInv', now' = now,
         NEW m \in Waiting, NEW hit \in BOOLEAN, NEW failed \in BOOLEAN, Resume(m, hit, failed)
  PROVE  [Feed!Next]_(Feed!vars)
<1> DEFINE c == m.caller
           r == call[c]
<1>1. /\ TypeOK /\ CommandServed(m) /\ m \in Command /\ c \in Callers /\ r \in Call /\ call \in [Callers -> Call]
      /\ m.name \in Names
  BY RangeOfQueue DEF PricingInv, TypeOK, Command, Names
<1>2. CASE m.name \in {"getFresh", "getLast"} \/ r.pc = "set"
  <2>1. PICK s : /\ call' = [call EXCEPT ![c] = s]
                 /\ s = CASE m.name = "getFresh" -> AfterGetFresh(r, hit)
                          [] m.name = "getLast" -> AfterGetLast(r, hit)
                          [] m.name \in {"setFresh", "setLast"} /\ r.pc = "set" -> AfterSet(r, failed)
                          [] OTHER -> r
    BY DEF Resume, Become
  <2>2. r.pc \notin {"idle", "done"}
    BY <1>1, <1>2 DEF CommandServed
  <2>3. s \in {AfterGetFresh(r, hit), AfterGetLast(r, hit), AfterSet(r, failed), r}
    BY <2>1
  <2>4. s.pc # "idle" /\ s.startedAt = r.startedAt /\ (s.pc = "done" => s.answeredAt = now)
    BY <1>1, <2>2, <2>3
    DEF AfterGetFresh, AfterGetLast, AfterSet, Answered, Unavailable, Fetching, Call
  <2> QED BY <1>1, <2>1, <2>2, <2>4, MoveIsFeed
<1>3. CASE m.name \notin {"getFresh", "getLast"} /\ r.pc # "set"
  <2>1. call' = [call EXCEPT ![c] = r]
    BY <1>1, <1>3 DEF Resume, Become, Names
  <2>2. call' = call
    BY <1>1, <2>1
  <2> QED BY <2>2 DEF Feed!vars, Asks, Done
<1> QED BY <1>2, <1>3

\* The clock of PriceFeed may tick because no call is late after the tick.
LEMMA TickIsFeed ==
  ASSUME PricingInv, PricingInv', BoundedLatency', Tick
  PROVE  Feed!Next
<1>1. /\ now < MaxTime /\ now' = now + 1 /\ call' = call /\ now \in Nat
      /\ call \in [Callers -> Call]
  BY BoundAssumption DEF Tick, PricingInv, TypeOK
<1>2. Asks' = Asks
  BY <1>1 DEF Asks, Done
<1>3. ASSUME NEW c \in Callers, Asks[c].state = "waiting"
      PROVE  now - Asks[c].since < (MaxRetries + 1) * Timeout + BackoffSum + 2 * RedisTime
  <2>1. call[c].pc # "idle" /\ call[c].outcome = "none" /\ Asks[c].since = call[c].startedAt
    BY <1>1, <1>3 DEF Asks, Call
  <2>2. ~ Done(c)
    BY <2>1 DEF Done, PricingInv, CallInv, Honest
  <2>3. call[c].startedAt \in Nat
    BY <1>1 DEF Call
  <2>4. PICK limit \in Nat : limit = (MaxRetries + 1) * Timeout + BackoffSum + 2 * RedisTime
    BY LatencySum, DurationAssumption
  <2>5. call'[c].pc # "idle" /\ ~ Done(c)' /\ call'[c].startedAt = call[c].startedAt
    BY <1>1, <2>1, <2>2 DEF Done
  <2>6. now' - call'[c].startedAt <= limit
    BY <2>4, <2>5, Zenon DEF BoundedLatency
  <2>7. (now + 1) - call[c].startedAt <= limit
    BY <1>1, <2>5, <2>6, Zenon
  <2>8. now - call[c].startedAt < limit
    BY <1>1, <2>3, <2>4, <2>7
  <2> QED BY <2>1, <2>4, <2>8
<1>4. Feed!Tick
  BY <1>1, <1>2, <1>3 DEF Feed!Tick
<1> QED BY <1>4 DEF Feed!Next

LEMMA NextIsFeed ==
  PricingInv /\ PricingInv' /\ BoundedLatency' /\ [Next]_vars => [Feed!Next]_(Feed!vars)
<1> SUFFICES ASSUME PricingInv, PricingInv', BoundedLatency', [Next]_vars
             PROVE  [Feed!Next]_(Feed!vars)
  OBVIOUS
<1>0. TypeOK
  BY DEF PricingInv
<1>1. CASE UNCHANGED vars \/ Resend
  BY <1>1 DEF vars, Resend, Feed!vars, Asks, Done
<1>2. ASSUME NEW c \in Callers, FetchAnswers(c) \/ FetchFails(c) \/ Retry(c)
      PROVE  [Feed!Next]_(Feed!vars)
  <2>1. call[c].pc \in {"fetch", "backoff"} /\ now' = now /\ call[c] \in Call
    BY <1>0, <1>2 DEF FetchAnswers, FetchFails, Retry, TypeOK
  <2>2. \E s : /\ call' = [call EXCEPT ![c] = s]
               /\ s.pc \in {"set", "backoff", "getLast", "fetch"} /\ s.startedAt = call[c].startedAt
    <3>1. CASE FetchAnswers(c)
      <4>1. PICK s : s = [call[c] EXCEPT !.pc = "set", !.unset = 2, !.price = Stamp(c)]
        OBVIOUS
      <4>2. call' = [call EXCEPT ![c] = s]
        BY <3>1, <4>1 DEF FetchAnswers, Become
      <4>3. s.pc \in {"set", "backoff", "getLast", "fetch"} /\ s.startedAt = call[c].startedAt
        BY <2>1, <4>1 DEF Call
      <4> QED BY <4>2, <4>3
    <3>2. CASE FetchFails(c)
      BY <2>1, <3>2 DEF FetchFails, Become, Call
    <3>3. CASE Retry(c)
      <4>1. PICK s : s = Fetching(call[c], NextAttempt(c))
        OBVIOUS
      <4>2. call' = [call EXCEPT ![c] = s]
        BY <3>3, <4>1 DEF Retry, Become
      <4>3. s.pc \in {"set", "backoff", "getLast", "fetch"} /\ s.startedAt = call[c].startedAt
        BY <2>1, <4>1 DEF Fetching, Call
      <4> QED BY <4>2, <4>3
    <3> QED BY <1>2, <3>1, <3>2, <3>3
  <2> QED BY <2>1, <2>2, MoveIsFeed
<1>3. CASE Execute \/ Fail
  <2>1. commands # <<>> /\ now' = now /\ Head(commands) \in Waiting
    <3>1. commands # <<>> /\ now' = now
      BY <1>3 DEF Execute, Fail
    <3> QED BY <1>0, <3>1, QueueShrinks DEF PricingInv, TypeOK, Waiting
  <2>2. \E hit \in BOOLEAN, failed \in BOOLEAN : Resume(Head(commands), hit, failed)
    BY <1>3 DEF Execute, Fail
  <2> QED BY <2>1, <2>2, ResumeIsFeed
<1>4. ASSUME NEW c \in Callers, Start(c) PROVE Feed!Next
  BY <1>4, StartIsFeed
<1>5. CASE Tick
  BY <1>5, TickIsFeed
<1> QED BY <1>1, <1>2, <1>3, <1>4, <1>5 DEF Next, Timers, Redis

\* Seen from its callers, pricing is PriceFeed, as far as safety goes: recent or
\* marked stale, in time, and no giving up before the provider had its chances.
THEOREM FeedSafety == Spec => Feed!Safety
<1>1. PricingInv /\ [Next]_vars => PricingInv'
  BY NextInv
<1>2. PricingInv' => BoundedLatency'
  BY LatencyHolds, PTL
<1> QED BY <1>1, <1>2, InitIsFeed, NextIsFeed, InitInv, PTL DEF Spec, Feed!Safety
=============================================================================
