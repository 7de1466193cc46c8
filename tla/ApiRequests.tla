----------------------------- MODULE ApiRequests -----------------------------
(***************************************************************************)
(* One request to the API, from its arrival to its answer: the body parser,*)
(* the guards, the Zod pipe, the handler's own checks and the exception    *)
(* filter, for every route.  GET /v1/prices and POST /v1/quotes go on to   *)
(* the price (PriceFeed, which Pricing implements), and a quote to its     *)
(* amounts (MoneyMath), its row and the trade that uses it; what the other *)
(* handlers do is in TradeExecution and TradeHistory, and only how they    *)
(* may end matters here.                                                   *)
(*                                                                         *)
(* A request is known by its route and by the checks it does not pass:     *)
(* "body" (too large, or of an encoding or charset the parser refuses),    *)
(* "syntax" (not JSON, or a bad escape in the path), "header" (no bearer   *)
(* token), "read" (authenticate's read of the clients: it is Postgres that *)
(* fails, not the request), "key" (a key of no client), and the rest by    *)
(* what they look at.                                                      *)
(***************************************************************************)
EXTENDS MoneyMath, Sequences

CONSTANTS
    Caller,       \* the request, as a caller of PriceFeed
    MaxAge, MaxStaleAge, MinOutage, MaxLatency,  \* what PriceFeed promises
    DefaultTtl,   \* DEFAULT_QUOTE_TTL_SECONDS
    Ttls,         \* values of ttl_seconds; 0 stands for none
    StorageScale, \* the precision of quotes.price: 18 decimals
    MaxMinor,     \* the largest value of a bigint column
    LastStart,    \* bound: the request is handled no later
    MaxTime       \* bound: ticks of the clock

ASSUME TtlAssumption == Ttls \subseteq Nat /\ DefaultTtl \in Nat \ {0}
\* A mid price has 9 decimals at most and a spread 4: 18 store the firm price.
ASSUME StorageAssumption == StorageScale \in Nat \ {0} /\ StorageScale % FirmScale = 0
ASSUME ApiBoundAssumption ==
    MaxMinor \in Nat /\ MaxAge \in Nat /\ LastStart \in Nat /\ MaxTime \in Nat

VARIABLES
    now,      \* the clock
    ask,      \* the request's call of getIndicativePrice
    request,  \* what was sent
    stage,    \* "received", "pricing", "inserting", then "answered"
    answer,   \* status and code of the answer
    row       \* the row of quotes it makes

vars == <<priced, now, ask, request, stage, answer, row>>

Feed == INSTANCE PriceFeed WITH Callers <- {Caller}

-----------------------------------------------------------------------------
(* What each route checks, in order *)

\* The parser of the body and of the path's escapes comes before the guards, the
\* guards before the Zod pipe, and the pipe before the handler's own checks.
HealthChecks == <<"body", "syntax">>
PriceChecks == <<"body", "syntax", "schema", "symbol">>
CreateQuoteChecks == <<"body", "syntax", "header", "read", "key", "schema", "symbol">>
CreateTradeChecks == <<"body", "syntax", "header", "read", "key", "schema", "idempotencyKey">>

\* Postgres alone looks at the id of a path, and at the date and id of a cursor.
ReadByIdChecks == <<"body", "syntax", "header", "read", "key", "uuid">>
ListTradesChecks == <<"body", "syntax", "header", "read", "key", "schema", "cursor", "date", "uuid">>
ListBalancesChecks == <<"body", "syntax", "header", "read", "key">>

\* Mutant of DepositChecks: the guards are swapped.
DepositChecksSwapped == <<"body", "syntax", "flag", "header", "read", "key", "schema">>

DepositChecks == <<"body", "syntax", "header", "read", "key", "flag", "schema">>

Checks == [health |-> HealthChecks, getPrice |-> PriceChecks, createQuote |-> CreateQuoteChecks,
           getQuote |-> ReadByIdChecks, getTrade |-> ReadByIdChecks,
           createTrade |-> CreateTradeChecks, listTrades |-> ListTradesChecks,
           listBalances |-> ListBalancesChecks, createDeposit |-> DepositChecks]

Routes == DOMAIN Checks
ChecksOf(route) == {Checks[route][i] : i \in DOMAIN Checks[route]}

\* ENABLE_DEV_DEPOSITS as it is written in the environment, "" when it is not.
Flags == {"", "true", "True", "false", "1"}
BooleanFromEnv(value) == value \in {"true", "True"}

Request == [route : Routes, fails : SUBSET UNION {ChecksOf(r) : r \in Routes},
            flag : Flags, ttl : Ttls]

Requests == {r \in Request : /\ r.fails \subseteq ChecksOf(r.route)
                             /\ r.route = "createDeposit" =>
                                    ("flag" \in r.fails <=> ~ BooleanFromEnv(r.flag))
                             /\ r.route # "createDeposit" => r.flag = ""
                             /\ r.route # "createQuote" => r.ttl = 0}

-----------------------------------------------------------------------------
(* Exceptions and the answers the filter makes of them *)

DomainError(code) ==
    [class |-> "DomainError", code |-> code,
     status |-> CASE code = "VALIDATION_ERROR" -> 400
                  [] code = "UNAUTHORIZED" -> 401
                  [] code = "NOT_FOUND" -> 404
                  [] code \in {"QUOTE_ALREADY_EXECUTED", "IDEMPOTENCY_CONFLICT"} -> 409
                  [] code = "QUOTE_EXPIRED" -> 410
                  [] code = "INSUFFICIENT_FUNDS" -> 422]

PricingProviderError(retryable) ==
    [class |-> "DomainError", code |-> "PRICING_PROVIDER_ERROR",
     status |-> IF retryable THEN 503 ELSE 502]

\* What is thrown by the body parser, the guards, the pipe and the handlers
\* (a bad idempotency key, an unsupported symbol), and the database.  Nest turns
\* a SyntaxError or a URIError into its own exception, and leaves the parser's
\* other errors as they are.
BodyError == [class |-> "HttpError", code |-> "", status |-> 413]
BadRequestException == [class |-> "HttpException", code |-> "BAD_REQUEST", status |-> 400]
Unauthorized == DomainError("UNAUTHORIZED")
RouteNotFound == DomainError("NOT_FOUND")
Invalid == DomainError("VALIDATION_ERROR")
DatabaseError == [class |-> "Error", code |-> "", status |-> 0]

Exception(check) ==
    CASE check = "body" -> BodyError
      [] check = "syntax" -> BadRequestException
      [] check \in {"header", "key"} -> Unauthorized
      [] check = "flag" -> RouteNotFound
      [] check \in {"read", "date", "uuid"} -> DatabaseError
      [] OTHER -> Invalid

\* Mutant of ToErrorResponse: only the domain's own errors are known.
ToErrorResponseDomainOnly(e) ==
    IF e.class = "DomainError" THEN [status |-> e.status, code |-> e.code]
    ELSE [status |-> 500, code |-> "INTERNAL_SERVER_ERROR"]

\* A domain error and an exception of Nest keep their status; the code of the
\* latter is the name HttpStatus gives it.  Every other error is a 500, those of
\* the body parser that have a status of their own too.
ToErrorResponse(e) ==
    IF e.class \in {"DomainError", "HttpException"} THEN [status |-> e.status, code |-> e.code]
    ELSE [status |-> 500, code |-> "INTERNAL_SERVER_ERROR"]

\* How the handlers of the other routes may end (TradeExecution, TradeHistory),
\* when it is not with an error of the database.
Refusals(route) ==
    CASE route \in {"getQuote", "getTrade"} -> {"NOT_FOUND"}
      [] route = "createTrade" -> {"NOT_FOUND", "QUOTE_ALREADY_EXECUTED", "QUOTE_EXPIRED",
                                   "INSUFFICIENT_FUNDS", "IDEMPOTENCY_CONFLICT"}
      [] OTHER -> {}

OK == [status |-> 200, code |-> "OK"]
NoAnswer == [status |-> 0, code |-> "NONE"]
Respond(a) == stage' = "answered" /\ answer' = a
Throw(e) == Respond(ToErrorResponse(e))

-----------------------------------------------------------------------------
(* A row of quotes *)

Quoted == [priceAt : Nat, price : Nat, expiresAt : Nat,
           status : {"unsaved", "ACTIVE", "EXECUTED"}, tradedAt : Nat]

Ttl == IF request.ttl # 0 THEN request.ttl ELSE DefaultTtl

\* Mutant of StoredPrice: a price is stored like an amount of money.
StoredPriceAsMoney(firmPrice) == RoundHalfUp(firmPrice * PriceScale, FirmScale) * (StorageScale \div PriceScale)

\* firmPriceToStorageString
StoredPrice(firmPrice) == RoundHalfUp(firmPrice * StorageScale, FirmScale)

ApiInit ==
    /\ Init
    /\ Feed!Init
    /\ request \in Requests
    /\ stage = "received"
    /\ answer = NoAnswer
    /\ row = NoQuote

\* The first check that fails decides the answer.
Refuse ==
    /\ stage = "received"
    /\ \E i \in DOMAIN Checks[request.route] :
          /\ Checks[request.route][i] \in request.fails
          /\ \A j \in 1..(i - 1) : Checks[request.route][j] \notin request.fails
          /\ Throw(Exception(Checks[request.route][i]))
    /\ UNCHANGED <<priced, now, ask, request, row>>

\* A handler that needs no price runs to its end.  An error of the database is
\* Postgres's failure, or a deposit or trade that takes a balance beyond a bigint.
Handle ==
    /\ stage = "received"
    /\ request.fails = {} /\ request.route \notin {"getPrice", "createQuote"}
    /\ \/ Respond(OK)
       \/ \E code \in Refusals(request.route) : Throw(DomainError(code))
       \/ request.route # "health" /\ Throw(DatabaseError)
    /\ UNCHANGED <<priced, now, ask, request, row>>

AskPrice ==
    /\ stage = "received"
    /\ request.fails = {} /\ request.route \in {"getPrice", "createQuote"}
    /\ Feed!Start(Caller)
    /\ stage' = "pricing"
    /\ UNCHANGED <<priced, request, answer, row>>

\* getIndicativePrice throws, or returns the price that GET /v1/prices shows.
ShowPrice ==
    /\ Feed!Answered(Caller)
    /\ IF ask'[Caller].state = "failed" THEN Throw(PricingProviderError(TRUE))
       ELSE request.route = "getPrice" /\ Respond(OK)
    /\ UNCHANGED <<priced, request, row>>

\* Mutant of Refusable: a quote is made of any price.
RefusableNever(price) == FALSE

\* createQuote builds no firm quote on a stale price.
Refusable(price) == price.stale

\* createQuote, from the price to the INSERT: no await between them.
PriceQuote ==
    /\ request.route = "createQuote"
    /\ Feed!Answered(Caller)
    /\ ask'[Caller].state = "priced"
    /\ IF Refusable(ask'[Caller])
       THEN Throw(PricingProviderError(FALSE)) /\ UNCHANGED <<priced, row>>
       ELSE /\ Next
            /\ row' = [priceAt |-> ask'[Caller].priceAt,
                       price |-> StoredPrice(FirmPrice(priced'.mid, priced'.side, priced'.spread)),
                       expiresAt |-> now + Ttl, status |-> "unsaved", tradedAt |-> 0]
            /\ stage' = "inserting"
            /\ UNCHANGED answer
    /\ UNCHANGED request

Fits == priced.baseAmountMinor <= MaxMinor /\ priced.quoteAmountMinor <= MaxMinor

\* Mutant of Insert: an error of the database is not awaited.
InsertNotAwaited ==
    /\ stage = "inserting"
    /\ Fits
    /\ row' = [row EXCEPT !.status = "ACTIVE"]
    /\ Respond(OK)
    /\ UNCHANGED <<priced, now, ask, request>>

\* The INSERT succeeds, or fails: an amount no bigint holds always does.  A row
\* whose INSERT seems to fail is unknown to its client, saved or not.
Insert ==
    /\ stage = "inserting"
    /\ \/ Fits /\ row' = [row EXCEPT !.status = "ACTIVE"] /\ Respond(OK)
       \/ Throw(DatabaseError) /\ row' = NoQuote
    /\ UNCHANGED <<priced, now, ask, request>>

\* executeTrade finds the quote active and not expired.
Trade ==
    /\ row # NoQuote /\ row.status = "ACTIVE"
    /\ now < row.expiresAt
    /\ row' = [row EXCEPT !.status = "EXECUTED", !.tradedAt = now]
    /\ UNCHANGED <<priced, now, ask, request, stage, answer>>

Tick ==
    /\ Feed!Tick
    /\ stage = "received" => now < LastStart
    /\ UNCHANGED <<priced, request, stage, answer, row>>

Step == Refuse \/ Handle \/ AskPrice \/ ShowPrice \/ PriceQuote \/ Insert
ApiNext == Step \/ Trade \/ Tick

\* The event loop runs what is runnable, PriceFeed answers every call, and
\* Postgres ends every INSERT or fails it.
ApiSpec == ApiInit /\ [][ApiNext]_vars /\ WF_vars(Step)
-----------------------------------------------------------------------------
Codes == {"OK", "BAD_REQUEST", "VALIDATION_ERROR", "UNAUTHORIZED", "NOT_FOUND",
          "QUOTE_ALREADY_EXECUTED", "IDEMPOTENCY_CONFLICT", "QUOTE_EXPIRED", "INSUFFICIENT_FUNDS",
          "PRICING_PROVIDER_ERROR", "INTERNAL_SERVER_ERROR"}

\* Every variable has its type; a request has no answer before it is answered,
\* and then one with a status the README's table of errors lists, or 500.
ApiTypeOK ==
    /\ TypeOK
    /\ now \in 0..MaxTime
    /\ ask \in [{Caller} -> Feed!Ask]
    /\ request \in Requests
    /\ stage \in {"received", "pricing", "inserting", "answered"}
    /\ IF stage = "answered"
       THEN answer \in [status : {200, 400, 401, 404, 409, 410, 422, 500, 502, 503}, code : Codes]
       ELSE answer = NoAnswer
    /\ row = NoQuote \/ row \in Quoted

\* Whoever has no key is told so, on every route that asks for one, whether or not
\* deposits are enabled and whatever the schema says of the request
\* (DepositsController: "order matters"); or is told 500, when a header came and
\* the guard's read of the clients failed.  Only a body or path that cannot be
\* read is refused before that.
StrangerSeesOneAnswer ==
    stage = "answered" /\ request.fails \cap {"header", "key"} # {}
                       /\ request.fails \cap {"body", "syntax"} = {} =>
        answer = IF "read" \in request.fails /\ "header" \notin request.fails
                 THEN [status |-> 500, code |-> "INTERNAL_SERVER_ERROR"]
                 ELSE [status |-> 401, code |-> "UNAUTHORIZED"]

\* A mistake of the client is answered 4xx, and before the request has asked for
\* a price or made a row.  It is answered 500 if the guard's read fails first, and
\* these mistakes always are: a body the parser refuses for its size, encoding or
\* charset; an id or a cursor's date that Postgres alone notices, on a request
\* without another mistake; and an amount no bigint holds, noticed by the INSERT
\* alone, after the price was asked for, which leaves no row.
MistakesAre4xx ==
    /\ request.fails # {} =>
           /\ ask[Caller].state = "idle" /\ row = NoQuote
           /\ stage = "answered" =>
                  \/ answer.status \in 400..499
                  \/ request.fails \cap {"body", "read"} # {}
                  \/ request.fails \subseteq {"date", "uuid"}
    /\ stage = "answered" /\ priced # NoQuote /\ ~ Fits => answer.status = 500 /\ row = NoQuote

\* End to end, from Binance to the trade: no quote is found good for a trade at a
\* price that is older than the freshness promised to quotes and the quote's own
\* lifetime, however long its price and its row take.  The trade is timed at the
\* check of its quote's expiry, which its COMMIT may follow by as long as Postgres
\* makes it wait.
TradedPriceIsRecent ==
    row # NoQuote /\ row.status = "EXECUTED" =>
        row.tradedAt - row.priceAt < MaxAge + (IF request.ttl = 0 THEN DefaultTtl ELSE request.ttl)

\* The price stored with a quote gives its quote amount again, to the minor unit:
\* a client can check the one against the other.
StoredPriceExplainsAmount ==
    row # NoQuote =>
        ToMinorUnits(priced.baseAmountMinor * row.price, UnitsOf[Base[priced.symbol]] * StorageScale,
                     Quote[priced.symbol]) = priced.quoteAmountMinor

\* Every request is answered, whatever becomes of Binance, Redis and the INSERT.
EveryRequestIsAnswered == <>(stage = "answered")

-----------------------------------------------------------------------------
\* The inductive invariant: how far the request is, and what it has by then.
Progress ==
    /\ stage = "received" => ask[Caller].state = "idle" /\ row = NoQuote
    /\ stage = "pricing" <=> ask[Caller].state = "waiting"
    /\ stage = "pricing" => row = NoQuote
    /\ stage \in {"received", "pricing"} => priced = NoQuote
    /\ stage \in {"pricing", "inserting"} => request.fails = {}

\* The row is made from the price and the amounts, in time to be worth them; it
\* is traded before it expires.
RowFounded ==
    stage = "inserting" \/ row # NoQuote =>
        LET firmPrice == FirmPrice(priced.mid, priced.side, priced.spread)
        IN  /\ row \in Quoted /\ priced \in PricedQuote
            /\ row.price = StoredPrice(firmPrice)
            /\ priced.quoteAmountMinor = QuoteAmountMinor(priced.baseAmountMinor, priced.symbol, firmPrice)
            /\ row.expiresAt <= row.priceAt + MaxAge + Ttl
            /\ row.status = "EXECUTED" => row.tradedAt < row.expiresAt

ApiInv == ApiTypeOK /\ Progress /\ RowFounded /\ StrangerSeesOneAnswer /\ MistakesAre4xx
=============================================================================
