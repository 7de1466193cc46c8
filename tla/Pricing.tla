------------------------------- MODULE Pricing -------------------------------
(***************************************************************************)
(* The price of one symbol: PricingService.getIndicativePrice, the Redis   *)
(* cache in front of it and the Binance adapter behind it, called by       *)
(* GET /v1/prices and by the first half of POST /v1/quotes.                *)
(*                                                                         *)
(* A price is known by the instant its answer arrived (its timestamp), the *)
(* only datum that freshness depends on.  All callers of the process share *)
(* one Redis connection, which executes commands in the order sent; ioredis *)
(* sends them again when it is lost.  Each caller makes one call.          *)
(***************************************************************************)
EXTENDS Integers, Sequences

CONSTANTS
    Callers,       \* calls of getIndicativePrice
    FreshTtl,      \* PRICE_CACHE_TTL_MS
    LastKnownTtl,  \* LAST_KNOWN_TTL_SECONDS
    Timeout,       \* PRICING_TIMEOUT_MS
    MaxRetries,    \* PRICING_MAX_RETRIES
    Backoff,       \* the wait before the first retry, 200 ms
    RedisTime,     \* the longest Redis takes to execute or fail a command
    LastStart,     \* bound: no call starts later
    MaxTime        \* bound: ticks of the clock

ASSUME DurationAssumption ==
    /\ FreshTtl \in Nat \ {0} /\ LastKnownTtl \in Nat \ {0}
    /\ Timeout \in Nat \ {0} /\ Backoff \in Nat \ {0}
    /\ MaxRetries \in Nat /\ RedisTime \in Nat
ASSUME BoundAssumption == LastStart \in Nat /\ MaxTime \in Nat

VARIABLES
    now,        \* the clock of the process and of Redis
    fresh,      \* the key price:fresh:<symbol>
    lastKnown,  \* the key price:last:<symbol>
    commands,   \* commands sent to Redis and not answered yet, oldest first
    call        \* what each caller does

vars == <<now, fresh, lastKnown, commands, call>>

\* A key of Redis; it is there while the clock is before "until".
Entry == [price : Nat, until : Nat]
Gone == [price |-> 0, until |-> 0]

Command == [caller : Callers, name : {"getFresh", "setFresh", "setLast", "getLast"},
            price : Nat, sent : Nat]

\* pc: "getFresh", "set" and "getLast" wait for Redis, "fetch" for Binance and
\* "backoff" for the sleep between attempts; timer is when the last two give up.
Call == [pc : {"idle", "getFresh", "fetch", "backoff", "set", "getLast", "done"},
         attempt : 0..MaxRetries,
         timer : Nat,
         unset : 0..2,       \* SETs that Promise.all still waits for
         price : Nat,
         stale : BOOLEAN,
         outcome : {"none", "price", "error"},
         startedAt : Nat,
         answeredAt : Nat]

TypeOK ==
    /\ now \in 0..MaxTime
    /\ fresh \in Entry
    /\ lastKnown \in Entry
    /\ commands \in Seq(Command)
    /\ call \in [Callers -> Call]

NotCalled == [pc |-> "idle", attempt |-> 0, timer |-> 0, unset |-> 0,
              price |-> 0, stale |-> FALSE, outcome |-> "none",
              startedAt |-> 0, answeredAt |-> 0]

Init ==
    /\ now = 0
    /\ fresh = Gone
    /\ lastKnown = Gone
    /\ commands = <<>>
    /\ call = [c \in Callers |-> NotCalled]

Become(c, record) == call' = [call EXCEPT ![c] = record]

Send(c, name, price) ==
    [caller |-> c, name |-> name, price |-> price, sent |-> now]

-----------------------------------------------------------------------------
\* The call returns a price.
Answered(r, price, stale) ==
    [r EXCEPT !.pc = "done", !.price = price, !.stale = stale, !.answeredAt = now,
              !.outcome = "price"]

\* getIndicativePrice throws PricingProviderError.
Unavailable(r) == [r EXCEPT !.pc = "done", !.outcome = "error", !.answeredAt = now]

\* The request of a caller; getFresh sends its GET at once.
Start(c) ==
    /\ call[c].pc = "idle"
    /\ now <= LastStart
    /\ Become(c, [NotCalled EXCEPT !.pc = "getFresh", !.startedAt = now])
    /\ commands' = Append(commands, Send(c, "getFresh", 0))
    /\ UNCHANGED <<now, fresh, lastKnown>>

\* fetchOnce: the timer that aborts the request starts with it.
Fetching(r, attempt) ==
    [r EXCEPT !.pc = "fetch", !.attempt = attempt, !.timer = now + Timeout]

\* Mutant of Stamp: the instant the call began.
StampAtStart(c) == call[c].startedAt

\* timestamp: new Date(), once the answer is parsed.
Stamp(c) == now

\* Binance answers in time: both SETs are sent together.
FetchAnswers(c) ==
    /\ call[c].pc = "fetch"
    /\ Become(c, [call[c] EXCEPT !.pc = "set", !.unset = 2, !.price = Stamp(c)])
    /\ commands' = commands \o <<Send(c, "setFresh", Stamp(c)), Send(c, "setLast", Stamp(c))>>
    /\ UNCHANGED <<now, fresh, lastKnown>>

\* Mutant of BackoffTime: one step too long.
BackoffTimeLong(attempt) == Backoff * (attempt + 2)

BackoffTime(attempt) == Backoff * (attempt + 1)

\* Mutant of MayRetry: one attempt too many.
MayRetryOnceMore(attempt) == attempt <= MaxRetries

MayRetry(attempt) == attempt < MaxRetries

\* An attempt fails: a network error, any status that is not 2xx, a body that
\* is not a ticker, or the abort once the timer has run out.
FetchFails(c) ==
    /\ call[c].pc = "fetch"
    /\ IF MayRetry(call[c].attempt)
       THEN /\ Become(c, [call[c] EXCEPT !.pc = "backoff",
                                         !.timer = now + BackoffTime(call[c].attempt)])
            /\ UNCHANGED commands
       ELSE /\ Become(c, [call[c] EXCEPT !.pc = "getLast"])
            /\ commands' = Append(commands, Send(c, "getLast", 0))
    /\ UNCHANGED <<now, fresh, lastKnown>>

\* Mutant of NextAttempt: the attempt is not counted.
NextAttemptSame(c) == call[c].attempt

NextAttempt(c) == call[c].attempt + 1

\* The sleep between two attempts ends.
Retry(c) ==
    /\ call[c].pc = "backoff"
    /\ now >= call[c].timer
    /\ Become(c, Fetching(call[c], NextAttempt(c)))
    /\ UNCHANGED <<now, fresh, lastKnown, commands>>

-----------------------------------------------------------------------------
\* Redis.  What a caller does when a command it still waits for is answered:
\* hit tells whether a GET found its key; a failure reads as a miss (readKey).
AfterGetFresh(r, hit) ==
    IF hit THEN Answered(r, fresh.price, FALSE) ELSE Fetching(r, 0)

\* Mutant of AfterGetLast: the fallback is not marked stale.
AfterGetLastUnmarked(r, hit) ==
    IF hit THEN Answered(r, lastKnown.price, FALSE) ELSE Unavailable(r)

AfterGetLast(r, hit) ==
    IF hit THEN Answered(r, lastKnown.price, TRUE) ELSE Unavailable(r)

\* Mutant of AfterSet: a failed SET fails the call.
AfterSetHard(r, failed) ==
    IF failed THEN Unavailable(r)
    ELSE IF r.unset > 1 THEN [r EXCEPT !.unset = 1]
    ELSE Answered([r EXCEPT !.unset = 0], r.price, FALSE)

\* Promise.all is done when both SETs are, or when one fails, which is logged
\* only; the other SET stays on its way.
AfterSet(r, failed) ==
    IF ~ failed /\ r.unset > 1 THEN [r EXCEPT !.unset = 1]
    ELSE Answered([r EXCEPT !.unset = 0], r.price, FALSE)

Resume(m, hit, failed) ==
    LET r == call[m.caller]
    IN  Become(m.caller,
            CASE m.name = "getFresh" -> AfterGetFresh(r, hit)
              [] m.name = "getLast" -> AfterGetLast(r, hit)
              [] m.name \in {"setFresh", "setLast"} /\ r.pc = "set" -> AfterSet(r, failed)
              [] OTHER -> r)

\* The entry that a batch of commands leaves in the key one of their names sets.
Latest(batch, name, entry, ttl) ==
    LET sets == {i \in DOMAIN batch : batch[i].name = name}
    IN  IF sets = {} THEN entry
        ELSE [price |-> batch[CHOOSE i \in sets : \A j \in sets : j <= i].price, until |-> now + ttl]

Store(batch) ==
    /\ fresh' = Latest(batch, "setFresh", fresh, FreshTtl)
    /\ lastKnown' = Latest(batch, "setLast", lastKnown, LastKnownTtl)

\* Redis executes the oldest command and its caller hears of it: the way back of a
\* reply takes no time of its own, RedisTime is spent before the key is looked at.
Execute ==
    /\ commands # <<>>
    /\ Store(<<Head(commands)>>)
    /\ LET m == Head(commands)
       IN  Resume(m, \/ m.name = "getFresh" /\ now < fresh.until
                     \/ m.name = "getLast" /\ now < lastKnown.until, FALSE)
    /\ commands' = Tail(commands)
    /\ UNCHANGED now

\* The connection is lost once Redis has executed some commands and before it
\* has answered them: ioredis reconnects and sends them all again, in order.
Resend ==
    /\ \E n \in DOMAIN commands : Store(SubSeq(commands, 1, n))
    /\ UNCHANGED <<now, commands, call>>

\* The second failure to connect: maxRetriesPerRequest rejects the command.
Fail ==
    /\ commands # <<>>
    /\ Resume(Head(commands), FALSE, TRUE)
    /\ commands' = Tail(commands)
    /\ UNCHANGED <<now, fresh, lastKnown>>

Redis == Execute \/ Fail

\* Timers fire on time, and Redis is never slower than RedisTime.
Tick ==
    /\ now < MaxTime
    /\ \A c \in Callers : call[c].pc \in {"fetch", "backoff"} => now < call[c].timer
    /\ commands # <<>> => now < Head(commands).sent + RedisTime
    /\ now' = now + 1
    /\ UNCHANGED <<fresh, lastKnown, commands, call>>

Timers(c) == FetchFails(c) \/ Retry(c)

Next ==
    \/ \E c \in Callers : Start(c) \/ FetchAnswers(c) \/ Timers(c)
    \/ Redis
    \/ Resend
    \/ Tick

\* The clock runs, an attempt ends once its timer is due, and Redis executes or
\* fails every command.  The last is not the program's doing: it waits for Redis
\* without a timeout of its own (redis.module.ts sets no commandTimeout).
Spec ==
    /\ Init /\ [][Next]_vars
    /\ WF_vars(Tick)
    /\ \A c \in Callers : WF_vars(Timers(c))
    /\ WF_vars(Redis)

-----------------------------------------------------------------------------
Done(c) == call[c].pc = "done"
Age(c) == call[c].answeredAt - call[c].price

\* A price not marked stale is at most the TTL old, plus the time its SET took
\* to reach Redis (getIndicativePrice, setFromProviderResult); its age is taken when
\* Redis looks at its key, or Binance's answer is stored.
FreshMeansRecent ==
    \A c \in Callers : call[c].outcome = "price" /\ ~ call[c].stale => Age(c) <= FreshTtl + RedisTime

\* The sleeps between all attempts.
BackoffSum == Backoff * ((MaxRetries * (MaxRetries + 1)) \div 2)

\* A call falls back to an old price, or fails, only after every attempt has
\* failed, with the sleeps in between; what goes wrong in Redis alone never has
\* that effect (the loop of fetchPrice, the soft failures of PriceCacheService).
FallbackIsLastResort ==
    \A c \in Callers : Done(c) /\ (call[c].stale \/ call[c].outcome = "error") =>
        /\ call[c].attempt = MaxRetries
        /\ call[c].answeredAt - call[c].startedAt >= BackoffSum

\* No call takes longer than its timeouts, its sleeps and two waits for Redis:
\* "typed, bounded-latency", as BinancePricingProvider says.
BoundedLatency ==
    \A c \in Callers : call[c].pc # "idle" =>
        (IF Done(c) THEN call[c].answeredAt ELSE now) - call[c].startedAt
            <= (MaxRetries + 1) * Timeout + BackoffSum + 2 * RedisTime

\* Calls that miss the cache together all fetch and all store, and a lost
\* connection makes Redis store again what it had: a key goes back to an older
\* price only while the newer one is on its way once more.
Back(name, entry, next) ==
    next.price < entry.price =>
        \E i \in DOMAIN commands' : commands'[i].name = name /\ commands'[i].price >= entry.price
OlderPriceOnlyWhileResending ==
    [][Back("setFresh", fresh, fresh') /\ Back("setLast", lastKnown, lastKnown')]_<<fresh, lastKnown>>

\* What each call has come to, for its caller.
Asks ==
    [c \in Callers |->
        [state |-> CASE call[c].pc = "idle" -> "idle"
                     [] call[c].outcome = "price" -> "priced"
                     [] call[c].outcome = "error" -> "failed"
                     [] OTHER -> "waiting",
         since |-> call[c].startedAt,
         priceAt |-> IF Done(c) THEN call[c].price ELSE 0,
         stale |-> call[c].stale]]

Feed == INSTANCE PriceFeed WITH
    MaxAge <- FreshTtl + RedisTime,
    MaxStaleAge <- LastKnownTtl + RedisTime,
    MinOutage <- BackoffSum,
    MaxLatency <- (MaxRetries + 1) * Timeout + BackoffSum + 2 * RedisTime,
    ask <- Asks

\* Seen from its callers, pricing is PriceFeed, its liveness included: cache,
\* retries, timeouts and a Redis that fails or loses its connection leave every
\* call with an answer in time, recent or marked stale.
PricingIsFeed == Feed!Spec
=============================================================================
