# Mini-OpenFX: specification and verification

Mini-OpenFX is a NestJS service over Postgres and Redis: an institutional client
asks for an indicative price, locks in a firm quote, executes it as a trade
against pre-funded balances and pages through its history. This directory holds
TLA+ specifications of the code, the TLC configurations that model-check them and
TLAPS proofs about them. Paths below are relative to the repository's root;
`modules/` stands for `src/modules/`, `db/` for `src/db/`.

Contents: 1 inventory, 2 how the parts interact, 3 what is hard, 4 modules,
5 runs, 6 fairness, 7 proofs, 8 disagreements found, 9 what is not modelled,
10 plan.

## 1. Inventory

| component (code) | state it keeps | operations | correct when | module |
|---|---|---|---|---|
| trade execution (`modules/trades`) | rows of `trades` | `executeTrade` | a quote and an idempotency key buy at most one trade; a trade is in time, paid for and fully booked; an answer is true | `TradeExecution`, `AtomicExchange` |
| quotes (`modules/quotes`) | rows of `quotes`: terms, status, expiry | `createQuote`, `getQuote` with its lazy expiry | an expired quote never trades; EXECUTED and the trade go together; no trade at a price older than promised | `TradeExecution`, `ApiRequests`, `MoneyMath` |
| balances (`modules/balances`) | one row per client and currency | `findForUpdate`, `applyDelta` | never negative, no lost update, equal to the sum of the ledger | `TradeExecution` |
| ledger (`modules/ledger`) | rows of `ledger_entries` | two entries of a trade, one of a deposit | every balance change has exactly its entry | `TradeExecution` |
| deposits (`modules/deposits`) | none | `createDeposit` | as for balances and ledger | `TradeExecution` |
| schema and pool (`db/`) | unique indexes, row locks, connections | transactions | requests never wait for each other for ever | `TradeExecution` |
| trade history (`modules/trades`, `trade-cursor.ts`) | none; the cursor travels with the client | `listTrades` | no row twice, none missing, only the client's own | `TradeHistory` |
| pricing (`modules/pricing`, `redis/`) | two Redis keys per symbol | `getIndicativePrice`, cache, retries, stale fallback | prices are recent or marked stale; a refusal only after every attempt; latency bounded | `Pricing`, `PriceFeed` |
| money math (`src/domain`) | none | minor units, rounding, spread, quote amounts | nearest minor unit, rounded once; the spread favours the house | `MoneyMath` |
| seed script (`db/seed.ts`) | writes clients, balances, ledger | `main`, statement by statement | re-runnable; balances restored; ledger backs them | `SeedLedger` |
| client authentication (`modules/clients`) | none | `findAll`, then a bcrypt comparison per row | an answer was right at some instant of the request | `ClientAuth` |
| validation, guards, error mapping, deposit gate, health (`src/common`, `src/domain/errors.ts`, controllers) | none; one exception per request | body parser, guards and their read of the clients, Zod pipe, handler's checks, `AllExceptionsFilter` | every request is answered; a mistake that a check finds gets a 4xx and costs nothing; a stranger learns nothing | `ApiRequests` |
| configuration (`src/config`) | the validated environment | parsing at boot | a flag is on only when it says so | `ApiRequests` (the flag); constants |
| presenters, wiring, tests, deployment | none that changes | | | not modelled (section 9) |

## 2. How the parts interact

A request is authenticated, validated, and then handled by one async function
whose awaits are its only scheduling points; Node runs any number of requests
interleaved, and several processes may share the database. `POST /v1/quotes`
calls pricing, computes the firm amounts and inserts the quote. From then on the
quote row is the only bridge: `POST /v1/trades` reads the row, never pricing.
Trade, deposit and lazy expiry meet in Postgres only, through row locks
(`SELECT ... FOR UPDATE` on the quote and on each balance), unique indexes
(trade per quote, trade per client and key, balance per client and currency) and
transactions at READ COMMITTED. Whatever is thrown on the way, by the body
parser, a guard, the Zod pipe, a service or the database, reaches one exception
filter, which makes the answer of it. Pricing shares one Redis connection per process.
The seed script writes the same tables without a transaction.

## 3. What is hard here

`PROJECT.json` lists each hazard at its line with the properties that cover it.
In groups: requests that interleave on one quote, key or balance; reads made
before a lock (`getQuote`, the idempotency pre-check); opposite lock orders and
waits for uncommitted keys; a rollback that undoes an update the code meant to
keep; lost connections, lost acknowledgements of COMMIT, crashes, and clients
that retry; expiry while a trade waits; a paginated walk while rows are committed
out of order, with two clock resolutions; timeouts, retries and a cache whose
entries outlive their prices, on a connection that executes commands twice; a
price that ages in the cache, in the request and in the quote; rounding at ties;
a column at its limit; checks that answer in the wrong order; a script that dies
half-way.

## 4. Modules

**`FxTables`** declares the rows and the terms of quotes: which account a side
pays from and receives to, the ledger rows of a trade, a deposit and the seed.

**`TradeExecution`** (core) runs `Workers` requests. A worker's `pc` names the
SQL statement it awaits next, so steps interleave at every await:

| `pc` | code |
|---|---|
| `preCheck`, `begin` | `findByIdempotencyKey` before the transaction; `db.transaction` |
| `lockQuote` | `findByIdForClientForUpdate` and the checks after it, `markExpired` and the throw included |
| `lockPay`, `insertTrade`, `debit`, `lockReceive`, `credit` | balance lock and check, the INSERT of the trade with its ledger entries, the two `applyDelta` calls |
| `commit`, `rollback`, `recheck` | the end of the transaction, and the `catch` block's second look at the key |
| `readQuote`, `checkExpiry`, `expireQuote` | `getQuote`: an unlocked read, the comparison with the clock, the UPDATE by id |
| `lockDeposit`, `credit` | `createDeposit` |

Committed rows (`quoteStatus`, `expiresAt`, `balances`, `ledger`, `trades`) are
apart from what each open transaction has written (`newStatus`, `newBalances`,
`newLedger`, `newTrades`) and locked (`locked`). `WaitsFor` is the wait-for graph
and a cycle in it lets Postgres abort a member. `ConnectionLost` kills one
connection between two statements, `Commit` may take place and lose its
acknowledgement, `Crash` ends every worker, and a balance beyond `MaxMinor`, the
column's limit, makes `applyDelta` fail in the middle of a transaction.
Statements that Postgres executes under the same locks with nothing in between
that another worker could see are merged: the two ledger entries with the INSERT
of the trade, `markExecuted` with the credit.

Two details of the code decide what a client is told. The `catch` block recognises
a unique violation by `error instanceof postgres.PostgresError`
(`trades.repository.ts:53`). `package-lock.json` pins drizzle-orm 0.45.2, which
throws an error of its own with the driver's inside, so the test is false as the
program is built; `InstanceofAnswers` holds what the test may answer, {FALSE} for
this build. `Rollback` and `Recheck` translate the whole `catch` block, and `races`
gives the test both answers, which adds the behaviours of a build that recognises
the error to those of this one. And a replay is recognised by comparing the
request's `quote_id`, a string, with the id Postgres returns, which is in lower
case, while the schema accepts a UUID in either: `canonical` says how a request
spells it, and a replay that is not canonical is answered IDEMPOTENCY_CONFLICT
(`Replay`).

**`AtomicExchange`** is the abstract specification: quotes are created and
expire, a trade happens in one step or not at all, so does a deposit.
`TradeExecution` implements it under the identity mapping of the tables
(`AtomicTrading`): COMMIT is the abstract step, everything before it stutters.

**`TradeInvariant`** holds the inductive invariants: `IInv`, most of it said of one
worker, and `FullInv`, which adds what answers and books rest on.
**`TradeSafety_proofs`**, **`TradeRefinement_proofs`** and
**`TradeAnswers_proofs`**, each building on the one before, hold the theorems.

**`TradeHistory`** models `GET /v1/trades`: `ListTrades` is the whole handler
(query with `limit + 1` rows, trimming, next cursor); other transactions begin,
commit and roll back trades between pages. `createdAt` has `TicksPerMs` ticks to a
millisecond, and the cursor keeps whole milliseconds, as a JavaScript Date does.

**`Pricing`** models `getIndicativePrice` for one symbol: the GET of the fresh
key, up to `MaxRetries + 1` attempts with an abort timer and growing sleeps, two
SETs in parallel and the last-known fallback. Redis executes one connection's
commands in order; when the connection is lost, ioredis sends the unanswered ones
again although Redis may have executed some (`Resend`), and after the second
failed attempt to connect it rejects them (`Fail`). A price is named by the
instant it was stamped with. `Execute` hands Redis's reply over in the same step, so
the waits a command has are those before Redis executes it, and an age is taken at
that instant; a reply that travels slowly is not counted.

**`PriceFeed`** is what a caller of `getIndicativePrice` may rely on: an answer
within `MaxLatency`, which is a price of at most `MaxAge`, an older one marked
stale, or a refusal, and the last two only when the provider has failed for
`MinOutage`. `Pricing` implements it with the bounds its timeouts, sleeps and TTLs
give (`PricingIsFeed`, liveness included): a call's record maps to what it has come
to, and cache, retries and Redis disappear.

**`MoneyMath`** is `domain/money.ts` and the amounts of `createQuote`, as exact
rationals: one rounding operator, minor units, the spread, base then quote amount.

**`ApiRequests`** composes `PriceFeed` and `MoneyMath` into one request from its
arrival to its answer. A request is its route and the set of checks it does not
pass; `Checks` lists each route's checks in the order the code makes them, the
first that fails throws (`Refuse`), and `ToErrorResponse`, the exception filter,
makes the answer. Among the checks are what fails outside the request's control, the
guard's read of the clients (`read`), and what only Postgres notices (`date`, `uuid`).
Whatever the filter does not know is a 500: errors of Postgres, and those of the body
parser other than a syntax error. `getPrice` and `createQuote` go on to the price (`AskPrice`,
`ShowPrice`, `PriceQuote`), a quote to its amounts, its expiry and its INSERT, and
from there to the trade that executes it (`Trade`), so that the age of a price can be followed to
the end. The handlers of the other routes are one step here (`Handle`), with the
refusals that `TradeExecution` and `TradeHistory` arrive at.

**`SeedLedger`** models `seed.ts`, each statement committed alone, with runs that
die anywhere, overlap or follow each other, with the same API key or another,
beside a service that moves balances. **`ClientAuth`** extends it with
`authenticate`: one unordered read of all clients, then one comparison after the
other, while the script changes keys and rows.

**`PricingInvariant`** and **`SeedInvariant`** hold the inductive invariants of
`Pricing` and of `SeedLedger` with `ClientAuth`; those of `TradeHistory` (`WalkInv`)
and `ApiRequests` (`ApiInv`) are at the end of these modules. Each run checks the
inductive invariant of its specification. **`TradeHistory_proofs`**,
**`MoneyMath_proofs`**, **`Pricing_proofs`**, **`ApiRequests_proofs`** and
**`ClientAuth_proofs`** (which is also about `SeedLedger`) hold the theorems.

The `MC*` modules instantiate these for TLC. In the component modules an operator
with a comment `Mutant of X` is a plausible mistake in `X`: put in its place, it
breaks the property it is paired with in `PROJECT.json`, which shows that the
property depends on the code.

## 5. Runs

| run | instance | what it shows |
|---|---|---|
| `races` | 3 workers, three quotes in both directions, two keys, a balance for one of two BUYs, one quote id in upper case, `InstanceofAnswers` both | atomic trading (implements `AtomicExchange`), both ledger legs, no balance below 0, the row lock alone suffices, refusals are true |
| `faults` | 2 workers, 2 clients, one key, 4 requests, a lifetime of one tick, one fault, a column that holds 2 at most | `FullInv`; one trade per quote and key; no late trade, no expired quote trades, status agrees with trades; a success names the right stored trade; no balance drifts from the ledger; each move has its entry |
| `liveness` | 3 workers on 2 connections, trades in both directions on one key, deposits, a row still to insert | every request ends, whether it waits for a connection, a lock or a key |
| `expired_not_marked`, `expiry_overwrites`, `loser_not_replayed`, `loser_gets_500` | 1 or 2 workers, 1 or 2 quotes, one key | four disagreements (section 8) |
| `history` | 4 trades of 2 clients, pages of 1 and 2, 2 ticks to a millisecond | the walk descends, ends, and misses only millisecond ties |
| `history_skips` | as `history` | a disagreement (section 8) |
| `prices` | 2 calls, one retry, all durations 1 tick, last-known TTL 3 | freshness, fallback only after all attempts, latency bound, a key goes back to an older price only while the newer one is being sent again; implements `PriceFeed` with its liveness: every call answered |
| `quotes` | one request to any of 9 routes with any set of mistakes, the guard's read failing or not, 5 spellings of the flag, any price `PriceFeed` allows, 20 amounts around rounding ties, 5 prices, 4 spreads up to 100 %, both sides, currencies of different and of equal decimals, a column that holds 500 at most | amounts are nearest, natural and favour the house; the stored price explains them; a traded price is no older than freshness and lifetime allow; a caller without a key gets one answer; mistakes that a check finds get a 4xx and cost nothing; every request is answered |
| `reseeds` | 2 runs of the script, 2 keys, 2 service moves, 1 request to authenticate | one client unless runs overlap; key and balances restored; the first seed is backed; an authentication was right at some instant |

**Bounds, and why they are enough.** Three workers let one hold a row, one wait
for it, and a third come in between the release and the waiter's next statement;
`races` uses three, `faults` two, the fewest with a cycle of waits. In `liveness`
three workers share two connections, so that all are in use while one request
waits, and two can hold connections and wait for each other's locks; in the other
runs nobody waits for a connection, which only delays a step and so adds no state
to the tables. The safety theorems hold for any number of either.
`MaxRequests` lets a worker serve a second request, so that retries meet finished
trades. Amounts 1 and 2 are enough to tell the legs, the sides and an
insufficient balance apart; the proofs hold for all amounts. One tick and a lifetime
of one let the expiry fall between any two steps, the instant itself included.
`MaxPages`
in `history` exceeds what any walk of four rows can need, so `WalkEnds` means that
the walk ended by itself. In `prices` the clock runs (`Horizon`) until the last
call has had its longest time, so the liveness of `PriceFeed` is not cut off, and with
`LastKnownTtl` 3 the second call can find the fallback alive or gone. In
`quotes` the clock runs until the longest quote is traded or expired, some amounts
exceed the column, and a 100 % spread has 20 basis points instead of 10000 and currencies have
one and two decimals instead of two and eight; the proofs of the amounts hold for
all of them.
In `reseeds` two runs are one that dies or completes and one that meets what it
left, or two that overlap; requests to authenticate do not influence each other, so
one is enough.

`MaxMinor` is 9 in the other runs of `TradeExecution`, more than any balance in
them; in `faults` it is 2, so that a trade that debits one account can fail when it
credits the other.

`CHECK_DEADLOCK FALSE` is set where the system may stop: walks, calls and requests
that are over and scripts that have run. The runs of `TradeExecution` check deadlock.
`NoRow`, `NoRequest` and `NoQuote` are model values outside every data set.
Symmetry is used for workers, runs and keys, and not where liveness is checked.

## 6. Fairness

*TradeExecution*: weak fairness for every worker's next statement and for the
breaking of a wait cycle. Node's event loop resumes every settled await, Postgres
executes a statement once its lock is granted, and its deadlock detector runs
after `deadlock_timeout`. The clock, requests, new quotes and faults are not
fair. Weak fairness leaves open that a waiter is overtaken for ever at a lock or
at the pool; Postgres' and the pool's queues are FIFO, and in the model the bound
on requests takes that part: only finitely many others can overtake.

*TradeHistory*: the client asks for the next page while there is one; without
that there is no walk to speak of. *Pricing*: the clock runs, timers fire, and
Redis executes or fails every command. The last is an assumption about Redis,
because the code gives a command no timeout of its own (section 8). Lost
connections are not fair, and may happen at any time and any number of times.
*ApiRequests*: the request's own steps; the wait for a price is `PriceFeed`'s
promise, and Postgres ends every INSERT or fails it.

## 7. Proofs

TLAPS checks the following for every value of the constants that the modules'
assumptions allow: any number of workers, quotes, keys, trades, calls, requests and
runs of the script, any amounts and durations. Every invariant and action property
that a run checks is the statement of a theorem. Each proof rests on an inductive
invariant that TLC checks too.

*TradeExecution, statements and locks.* `TypeCorrect` comes first.
`InductiveInvariant` proves
`Spec => []IInv`. The properties are not inductive alone: that a balance is not
negative at `commit` needs that the row read under lock is still the committed one
and that what the transaction wrote is that row plus its own amount
(`BalanceRead`, `BalancesWritten`); that needs the lock to be exclusive and held
(`LocksDisjoint`, `LocksReleased`); that a quote is traded once needs the row lock
to freeze its status (`QuoteHeld`), and that a key is used once needs the key of
the uncommitted INSERT (`KeyHeld`). The proof treats each action three times: the
worker that moves (its `LocalInv` is re-established), the workers that do not
(they are disturbed only through the tables, by a worker that holds a lock they do
not hold), and the tables. Only `Commit`, `ExpireQuote` and `CreateQuote` move
tables, which keeps most cases short.
From `IInv` follow `NeverOverspent`, `TradedOnce`, `StatusTellsTrade`,
`TradedInTime`, `LockSuffices`, the action properties
`MovesAreJustified` and `LiveQuotesTrade`, and `Refinement`: a step that commits
a trade is `Execute`, one that commits a deposit is `Deposit`, and every other
step either is an abstract one on quotes or leaves the tables alone.

*TradeExecution, answers and books.* `FullInvariant` proves `Spec => []FullInv`. An
answer is made from an error that was thrown earlier, in a transaction that has
since been rolled back, so its truth has to be carried from the throw to the answer:
`ErrorFounded` says that an error has its reason while the rollback is still to come,
and `AnswerFounded` that the answer has it. Both survive other requests because rows
of `trades` are never deleted. `LedgerRows` says that a trade's entries are exactly
its two legs. That the entries of an account add up to its balance
(`LedgerIsSource`) needs the sum of a set that grows by one row: `MapThenSumSet` is a
fold over a function that `CHOOSE` names, so the lemmas around `SumUnique` and
`SumExists` show first, by well-founded induction on subsets, that there is one such
function and that the sum does not depend on the order of the rows.
From `FullInv` follow also `AcknowledgedIsStored`, `RefusedForCause` and
`TradesAreBooked`. All hold whatever `InstanceofAnswers` is. `RefusedForCause` says of
a conflict what the code makes true: the key has bought another quote, or the
request did not spell its quote's id as Postgres does.

*TradeHistory.* `WalkInductive` shows that the rows still matching the cursor are
older than all rows shown, and that each trade that existed when the walk started
(`StartAccountedFor`) was shown, is still to come, or was passed by. The cursor's
truncation moves it only to the past, so it excludes what was shown already; a row
that the page left out is behind the page's last row (`NewestClosed`, `NewestAll`
about the LIMIT), so either it matches the new cursor or the truncation has put both
in one millisecond (`SameMillisecond`). Hence `WalkTyped`, `WalkNeverRepeats`,
`CursorExcludesShown` and `WalkMissesTies`.

*Pricing.* `PricingInductive` proves `PricingInv`. That a fresh price is recent needs
the age of the key it is read from, which needs the age of the SET that wrote it,
which may have waited in the queue and been executed twice: `KeyInv` and
`CommandServed` bound them by the time Redis may take, and `Ordered`, the
order of the connection, keeps a resent SET from overtaking a newer one.
`Punctual` says how much time a call has spent by its attempt, from below (a
fallback comes after every sleep) and from above (the latency). From it follow
`PricesAreRecent`, `FallbackAfterRetries`, `LatencyBounded`, the action property
`NoSilentSetback`, and `FeedSafety`: `Pricing` implements the safety half of
`PriceFeed` under the mapping that `PricingIsFeed` checks with liveness.

*MoneyMath.* `RoundsToNearest` brackets the rounding operator, and it is
monotone; from these `RoundedOnce`, `HouseFavoured` and
`AmountsNeverNegative`, which discharges what `FxTables` assumes of the amounts
of a quote.

*ApiRequests.* `ApiInductive` proves `ApiInv`: how far a request is tells what it has
(`Progress`), and its row was made from the price it was given, in time
(`RowFounded`). Which check fails first is read off each route's list
(`FirstFailure`), what it is answered off the filter (`ExceptionAnswers`). Hence
`StrangerLearnsNothing`, `MistakesAreFree` (with the mistakes that are answered 500
named in it), `TradesAtRecentPrices`, and `PriceExplainsAmount`, for every precision: the stored
price has at least the decimals of a firm price, so storing it loses nothing.
`RequestComposes` shows that the request does what `MoneyMath` and `PriceFeed` do and
no more; with `FeedSafety`, the age of a price is bounded from Binance to the trade.

*SeedLedger and ClientAuth.* `SeedInductive` proves `SeedInv`. `Restored` says what a
run alone has set so far, and `FirstSeed` that the first run has left each account
untouched or backed (a second run breaks that: section 8); that at most
one client exists needs that a run about to insert one has seen none
(`OneAtATime`). Hence `OneClientIsMade`, `FirstRunIsBacked` and the action property
`RerunRestores`. `AuthInductive` proves `AuthInv`: each candidate row that the key
opens was right when the rows were read, and unless one is left the refusal was
(`Candid`). Hence `AnswersWereRight`. The theorems of the script are about the script
and its service alone (`Spec`); `AuthSpec`, which the run checks, takes their steps
unchanged (the lemma `AuthBesideScript`, true by the form of `AuthNext`).

Assumptions: those named in the modules. The ones the code does not enforce are
that the spread is at most 10000 basis points (`InputAssumption`) and that a
quote's two currencies differ, which `SYMBOLS` guarantees.

*Model-checked only.* Liveness, which the prover cannot reach: `EveryRequestEnds`,
`WalkEnds`, `EveryRequestIsAnswered`, and the liveness half of `PricingIsFeed`.

## 8. Disagreements between the code and what is said of it

Each of these five has a run that ends in a counterexample.

1. `expiry_overwrites`: `getQuote` reads without a lock and `markExpired` updates
   by id alone. A trade that commits between the two leaves a quote that has a
   trade and reads EXPIRED.
2. `expired_not_marked`: `executeTrade` calls `markExpired` inside the
   transaction that the exception on the next line rolls back; the quote stays
   ACTIVE, contrary to the README.
3. `loser_not_replayed`: of two concurrent requests with one key and one quote
   the loser is told QUOTE_ALREADY_EXECUTED, not given the winner's trade, for it
   sees the status under the lock before it can meet the key's index.
4. `loser_gets_500`: of two concurrent requests with one key and two quotes the
   loser's INSERT meets the key's index. The README says that this is "caught and
   turned into 'return the winner's trade' rather than a 500"; as the program is
   built the error is not recognised (section 4), and the answer is a 500. The unit
   tests do not show it, for they mock `isUniqueViolation`.
5. `history_skips`: `created_at` has microseconds, the cursor milliseconds; a row
   behind the last row of a page, in its millisecond, is on no page.

Noticed while modelling, without a run of their own: the Redis client has no
`commandTimeout`, so a call waits as long as Redis accepts commands and does not
answer, although `redis.module.ts` means an outage to surface quickly, and its
comment names `lazyConnect`, which is not set; a second
complete run of the seed script sets the balances but adds the same ledger entries
again, so the ledger no longer adds up to the balances, although `seed.ts` calls it
the source of truth; `createQuote` accepts an amount below half a minor unit and
stores 0, although `create-quote.dto.ts` says the converted amount is validated as
strictly positive; a presented amount below 0.000001 comes out of `decimal.js` in
exponent notation, which the schema of `createQuote` refuses; a retry that spells
its quote's id in upper case is answered IDEMPOTENCY_CONFLICT, which the README's
table of errors keeps for "a different `quote_id`" (`RefusalIsTruthful` names the
case). Several mistakes of a client are answered 500, as `MistakesAre4xx` says: a
body too large or of an encoding or charset the parser refuses (`body-parser` gives
413 or 415, which the filter does not look at), a path or cursor id that is not a
UUID, a cursor date that Postgres cannot hold, and an amount that no bigint holds,
this one after the price was asked for. When the guard's read of the clients fails,
a caller without a valid key is answered 500 as well. A body that is not JSON is
answered with the code BAD_REQUEST, which the table does not list; after its retries the adapter always throws a retryable error, so a
4xx of Binance is answered 503 and not the 502 the README and the adapter's comment
mention; with deposits disabled a caller who has a key still sees a NOT_FOUND of its
own wording where a route that does not exist has Nest's.

## 9. What is not modelled

Requests that Express aborts or that time out at the socket; presenters (they format), validation of the environment at boot (nothing runs after
it fails), application wiring, tests, build and deployment. Within the modelled
parts: what a Zod schema accepts is one yes or no, because no property tells apart
why a body is refused; unknown routes; one clock for the service and the database;
`decimal.js` at 40 digits taken as exact; timers that fire on time, so the event loop
is not blocked; one process per Redis connection. Plain reads (`getTrade`, the
balance listing) are one step of `ApiRequests`, for they change nothing and decide
nothing. `ApiRequests` follows one request at a time: it has no state that another
request shares but the tables, which `TradeExecution` models.

## 10. Plan

Done, in this order: `FxTables`, `AtomicExchange`, `TradeExecution` with its runs
and proofs; `TradeHistory` with its proofs; `Pricing`; `SeedLedger` and `ClientAuth`;
`MoneyMath` with its proofs; `PriceFeed`, which `Pricing` implements, and `ApiRequests`,
which composes it with `MoneyMath`; the column limit in `TradeExecution`.

The inductive invariants of all components, with the theorems of section 7, came
after; every safety property of the runs is proved.

Left, in the order of its worth:

1. that the legs of a quote are what `MoneyMath` makes of it: `FxTables` takes the
   terms of a quote from a constant, and only `AmountsNeverNegative` ties the two;
2. the safety part of the liveness properties: the measure that each page, each
   attempt at Binance and each statement of a request decreases, as action properties;
3. that a request which cannot move waits for another that can, or is on a cycle that
   Postgres breaks: the argument behind `EveryRequestEnds`, stated on the guards.
