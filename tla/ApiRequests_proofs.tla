-------------------------- MODULE ApiRequests_proofs --------------------------
(***************************************************************************)
(* Theorems about a request from its arrival to its answer: who is told    *)
(* what, and what a quote's price is worth when it is traded, for every    *)
(* currency, precision, price, spread up to 100 % and duration.            *)
(***************************************************************************)
EXTENDS ApiRequests, MoneyMath_proofs, SequenceTheorems

-----------------------------------------------------------------------------
(* The checks of a route *)

AnyCheck == {"body", "syntax", "header", "read", "key", "flag", "schema", "symbol",
             "idempotencyKey", "cursor", "date", "uuid"}

\* The first check that fails is known by what else fails with it: a missing or
\* wrong key is noticed before all but the body, the path and the read of the
\* clients; what Postgres notices, after all.
LEMMA FirstFailure ==
  ASSUME NEW r \in Requests, NEW i \in DOMAIN Checks[r.route], NEW check,
         check = Checks[r.route][i], check \in r.fails,
         \A j \in 1..(i - 1) : Checks[r.route][j] \notin r.fails
  PROVE  /\ check \in AnyCheck
         /\ r.fails \cap {"header", "key"} # {} /\ r.fails \cap {"body", "syntax"} = {} =>
                IF "read" \in r.fails /\ "header" \notin r.fails THEN check = "read"
                ELSE check \in {"header", "key"}
         /\ check = "body" => "body" \in r.fails
         /\ check = "read" => "read" \in r.fails
         /\ check \in {"date", "uuid"} => r.fails \subseteq {"date", "uuid"}
<1>1. r.route \in Routes /\ r.fails \subseteq ChecksOf(r.route)
  BY DEF Requests, Request
<1>2. Routes = {"health", "getPrice", "createQuote", "getQuote", "getTrade", "createTrade",
                "listTrades", "listBalances", "createDeposit"}
  BY DEF Routes, Checks
<1>3. ASSUME NEW list, Checks[r.route] = list,
             \/ list = HealthChecks \/ list = PriceChecks \/ list = CreateQuoteChecks
             \/ list = CreateTradeChecks \/ list = ReadByIdChecks \/ list = ListTradesChecks
             \/ list = ListBalancesChecks \/ list = DepositChecks
      PROVE  /\ check \in AnyCheck
             /\ r.fails \cap {"header", "key"} # {} /\ r.fails \cap {"body", "syntax"} = {} =>
                    IF "read" \in r.fails /\ "header" \notin r.fails THEN check = "read"
                    ELSE check \in {"header", "key"}
             /\ check = "body" => "body" \in r.fails
             /\ check = "read" => "read" \in r.fails
             /\ check \in {"date", "uuid"} => r.fails \subseteq {"date", "uuid"}
  <2>1. r.fails \subseteq {list[j] : j \in DOMAIN list} /\ i \in DOMAIN list /\ check = list[i]
        /\ check \in r.fails /\ \A j \in 1..(i - 1) : list[j] \notin r.fails
    BY <1>1, <1>3 DEF ChecksOf
  <2>2. CASE list = HealthChecks
    BY <2>1, <2>2 DEF HealthChecks, AnyCheck
  <2>3. CASE list = PriceChecks
    BY <2>1, <2>3 DEF PriceChecks, AnyCheck
  <2>4. CASE list = CreateQuoteChecks
    BY <2>1, <2>4 DEF CreateQuoteChecks, AnyCheck
  <2>5. CASE list = CreateTradeChecks
    BY <2>1, <2>5 DEF CreateTradeChecks, AnyCheck
  <2>6. CASE list = ReadByIdChecks
    BY <2>1, <2>6 DEF ReadByIdChecks, AnyCheck
  <2>7. CASE list = ListTradesChecks
    BY <2>1, <2>7 DEF ListTradesChecks, AnyCheck
  <2>8. CASE list = ListBalancesChecks
    BY <2>1, <2>8 DEF ListBalancesChecks, AnyCheck
  <2>9. CASE list = DepositChecks
    BY <2>1, <2>9 DEF DepositChecks, AnyCheck
  <2> QED BY <1>3, <2>2, <2>3, <2>4, <2>5, <2>6, <2>7, <2>8, <2>9
<1>4. \/ Checks[r.route] = HealthChecks \/ Checks[r.route] = PriceChecks
      \/ Checks[r.route] = CreateQuoteChecks \/ Checks[r.route] = CreateTradeChecks
      \/ Checks[r.route] = ReadByIdChecks \/ Checks[r.route] = ListTradesChecks
      \/ Checks[r.route] = ListBalancesChecks \/ Checks[r.route] = DepositChecks
  BY <1>1, <1>2 DEF Checks
<1> QED BY <1>3, <1>4

\* The answers a request may be given.
Answers == [status : {200, 400, 401, 404, 409, 410, 422, 500, 502, 503}, code : Codes]

LEMMA AnswerTypes ==
  /\ OK \in Answers
  /\ ToErrorResponse(DatabaseError) \in Answers /\ ToErrorResponse(DatabaseError).status = 500
  /\ \A retryable \in BOOLEAN : ToErrorResponse(PricingProviderError(retryable)) \in Answers
<1>1. OK \in Answers
  BY DEF OK, Answers, Codes
<1>2. ToErrorResponse(DatabaseError) \in Answers /\ ToErrorResponse(DatabaseError).status = 500
  BY DEF ToErrorResponse, DatabaseError, Answers, Codes
<1>3. ASSUME NEW retryable \in BOOLEAN
      PROVE  ToErrorResponse(PricingProviderError(retryable)) \in Answers
  BY DEF ToErrorResponse, PricingProviderError, Answers, Codes
<1> QED BY <1>1, <1>2, <1>3

LEMMA RefusalTypes ==
  ASSUME NEW r \in Requests, NEW code \in Refusals(r.route)
  PROVE  ToErrorResponse(DomainError(code)) \in Answers
<1>1. code \in {"NOT_FOUND", "QUOTE_ALREADY_EXECUTED", "QUOTE_EXPIRED", "INSUFFICIENT_FUNDS",
                "IDEMPOTENCY_CONFLICT"}
  BY DEF Refusals
<1>2. DomainError(code).class = "DomainError" /\ DomainError(code).code = code
      /\ DomainError(code).status \in {404, 409, 410, 422}
  BY <1>1 DEF DomainError
<1>3. ToErrorResponse(DomainError(code)) = [status |-> DomainError(code).status, code |-> code]
  BY <1>2 DEF ToErrorResponse
<1>4. code \in Codes
  BY <1>1 DEF Codes
<1> QED BY <1>2, <1>3, <1>4 DEF Answers

\* What a failed check is answered.
LEMMA ExceptionAnswers ==
  ASSUME NEW check \in AnyCheck
  PROVE  /\ ToErrorResponse(Exception(check)) \in Answers
         /\ check \notin {"body", "read", "date", "uuid"} =>
                ToErrorResponse(Exception(check)).status \in 400..499
         /\ check = "read" =>
                ToErrorResponse(Exception(check)) = [status |-> 500, code |-> "INTERNAL_SERVER_ERROR"]
         /\ check \in {"header", "key"} =>
                ToErrorResponse(Exception(check)) = [status |-> 401, code |-> "UNAUTHORIZED"]
<1> DEFINE a == ToErrorResponse(Exception(check))
           unexpected == [status |-> 500, code |-> "INTERNAL_SERVER_ERROR"]
<1>1. a \in { [status |-> 400, code |-> "BAD_REQUEST"], [status |-> 401, code |-> "UNAUTHORIZED"],
              [status |-> 404, code |-> "NOT_FOUND"], unexpected,
              [status |-> 400, code |-> "VALIDATION_ERROR"] }
      /\ (check \notin {"body", "read", "date", "uuid"} => a # unexpected)
      /\ (check = "read" => a = unexpected)
      /\ (check \in {"header", "key"} => a = [status |-> 401, code |-> "UNAUTHORIZED"])
  <2>1. CASE check = "syntax"
    BY <2>1 DEF ToErrorResponse, Exception, BadRequestException
  <2>2. CASE check \in {"header", "key"}
    BY <2>2 DEF ToErrorResponse, Exception, Unauthorized, DomainError
  <2>3. CASE check = "flag"
    BY <2>3 DEF ToErrorResponse, Exception, RouteNotFound, DomainError
  <2>4. CASE check \in {"body", "read", "date", "uuid"}
    <3>1. Exception(check) \in {BodyError, DatabaseError}
      BY <2>4 DEF Exception
    <3>2. BodyError.class = "HttpError" /\ DatabaseError.class = "Error"
      BY DEF BodyError, DatabaseError
    <3>3. Exception(check).class \notin {"DomainError", "HttpException"}
      BY <3>1, <3>2
    <3>4. a = unexpected
      BY <3>3, Zenon DEF ToErrorResponse
    <3> QED BY <2>4, <3>4
  <2>5. CASE check \notin {"body", "syntax", "header", "read", "key", "flag", "date", "uuid"}
    BY <2>5 DEF ToErrorResponse, Exception, Invalid, DomainError
  <2> QED BY <2>1, <2>2, <2>3, <2>4, <2>5
<1> HIDE DEF a
<1>2. a \in Answers /\ (check \notin {"body", "read", "date", "uuid"} => a.status \in 400..499)
  BY <1>1 DEF Answers, Codes
<1> QED BY <1>1, <1>2 DEF a

-----------------------------------------------------------------------------
(* The price of a quote *)

\* A factor common to dividend and divisor does not change the quotient.
LEMMA QuotientOfMultiples ==
  ASSUME NEW a \in Nat, NEW b \in Nat \ {0}, NEW k \in Nat \ {0}
  PROVE  (k * a) \div (k * b) = a \div b
<1> DEFINE n == a \div b
           m == (k * a) \div (k * b)
<1>1. n \in Nat /\ b * n <= a /\ a < b * n + b
  BY Quotient
<1>2. k * a \in Nat /\ k * b \in Nat \ {0}
  BY ProductNat, ProductPositive
<1>3. m \in Nat /\ (k * b) * m <= k * a /\ k * a < (k * b) * m + k * b
  BY <1>2, Quotient
<1> HIDE DEF n, m
<1>4. b * m \in Nat /\ b * n \in Nat
  BY <1>1, <1>3, ProductNat
<1>5. (k * b) * m = k * (b * m) /\ k * (b * m + b) = k * (b * m) + k * b
  BY <1>3, <1>4
<1>6. b * m <= a
  <2> SUFFICES ASSUME a + 1 <= b * m PROVE FALSE
    BY <1>4
  <2>1. k * (a + 1) <= k * (b * m)
    BY <1>4, ProductMonotone
  <2>2. k * (a + 1) = k * a + k
    OBVIOUS
  <2> QED BY <1>2, <1>3, <1>4, <1>5, <2>1, <2>2
<1>7. a < b * m + b
  <2> SUFFICES ASSUME b * m + b <= a PROVE FALSE
    BY <1>4
  <2>1. k * (b * m + b) <= k * a
    BY <1>4, ProductMonotone
  <2> QED BY <1>2, <1>3, <1>4, <1>5, <2>1
<1>8. ASSUME NEW x \in Nat, NEW y \in Nat, b * x <= a, a < b * y + b, x > y PROVE FALSE
  <2>1. b * (y + 1) <= b * x
    BY <1>8, ProductMonotone
  <2>2. b * (y + 1) = b * y + b
    BY <1>8
  <2> QED BY <1>8, <2>1, <2>2, ProductNat
<1>9. m = n
  BY <1>1, <1>3, <1>6, <1>7, <1>8
<1> QED BY <1>9 DEF m, n

LEMMA RoundingOfMultiples ==
  ASSUME NEW num \in Nat, NEW den \in Nat \ {0}, NEW k \in Nat \ {0}
  PROVE  RoundHalfUp(k * num, k * den) = RoundHalfUp(num, den)
<1>1. 2 * (k * num) + k * den = k * (2 * num + den) /\ 2 * (k * den) = k * (2 * den)
  OBVIOUS
<1>2. 2 * num + den \in Nat /\ 2 * den \in Nat \ {0}
  OBVIOUS
<1>3. (k * (2 * num + den)) \div (k * (2 * den)) = (2 * num + den) \div (2 * den)
  BY <1>2, QuotientOfMultiples
<1> QED BY <1>1, <1>3 DEF RoundHalfUp

LEMMA RoundingExact ==
  ASSUME NEW n \in Nat, NEW den \in Nat \ {0}
  PROVE  RoundHalfUp(n * den, den) = n
<1>1. n * den \in Nat /\ 1 \in Nat \ {0}
  BY ProductNat
<1>2. RoundHalfUp(den * n, den * 1) = RoundHalfUp(n, 1)
  BY RoundingOfMultiples
<1>3. den * n = n * den /\ den * 1 = den
  OBVIOUS
<1>4. RoundHalfUp(n, 1) = n
  BY DEF RoundHalfUp
<1> QED BY <1>2, <1>3, <1>4

\* The stored price is the firm price exactly, and gives the quote amount again.
LEMMA StoredPriceExact ==
  ASSUME NEW symbol \in Symbols, NEW baseMinor \in Nat, NEW price \in Nat
  PROVE  /\ StoredPrice(price) \in Nat
         /\ ToMinorUnits(baseMinor * StoredPrice(price), UnitsOf[Base[symbol]] * StorageScale, Quote[symbol])
              = QuoteAmountMinor(baseMinor, symbol, price)
<1> DEFINE k == StorageScale \div FirmScale
           u == UnitsOf[Quote[symbol]]
           b == UnitsOf[Base[symbol]]
<1>1. FirmScale \in Nat \ {0} /\ u \in Nat \ {0} /\ b \in Nat \ {0} /\ b * FirmScale \in Nat \ {0}
  BY ScalesPositive
<1>2. k \in Nat \ {0} /\ StorageScale = k * FirmScale
  <2>1. StorageScale \in Nat \ {0} /\ StorageScale % FirmScale = 0
    BY StorageAssumption
  <2>2. k \in Nat /\ StorageScale = FirmScale * k + (StorageScale % FirmScale)
    BY <1>1, <2>1
  <2> HIDE DEF k
  <2>3. k # 0
    BY <1>1, <2>1, <2>2
  <2> QED BY <1>1, <2>1, <2>2, <2>3
<1> HIDE DEF k, u, b
<1>3. StoredPrice(price) = price * k /\ price * k \in Nat
  <2>1. price * k \in Nat /\ price * StorageScale = (price * k) * FirmScale
    BY <1>1, <1>2, ProductNat
  <2> QED BY <1>1, <2>1, RoundingExact DEF StoredPrice
<1>4. (baseMinor * price) * u \in Nat
  BY <1>1, ProductNat
<1>5. (baseMinor * (price * k)) * u = k * ((baseMinor * price) * u)
  <2>1. baseMinor * (price * k) = k * (baseMinor * price)
    BY <1>2
  <2>2. baseMinor * price \in Nat
    BY ProductNat
  <2> QED BY <1>1, <1>2, <2>1, <2>2
<1>6. b * (k * FirmScale) = k * (b * FirmScale)
  BY <1>1, <1>2
<1>7. RoundHalfUp((baseMinor * (price * k)) * u, b * StorageScale)
        = RoundHalfUp((baseMinor * price) * u, b * FirmScale)
  BY <1>1, <1>2, <1>4, <1>5, <1>6, RoundingOfMultiples
<1> QED BY <1>3, <1>7 DEF ToMinorUnits, QuoteAmountMinor, u, b

-----------------------------------------------------------------------------
(* The steps of a request *)

\* What a call of getIndicativePrice comes to.
LEMMA AskStarts ==
  ASSUME ApiTypeOK, Feed!Start(Caller)
  PROVE  /\ ask' \in [{Caller} -> Feed!Ask] /\ ask[Caller].state = "idle" /\ ask'[Caller].state = "waiting"
         /\ now' = now
<1>1. ask \in [{Caller} -> Feed!Ask] /\ ask[Caller].state = "idle" /\ now' = now /\ now \in Nat
      /\ ask' = [ask EXCEPT ![Caller].state = "waiting", ![Caller].since = now]
  BY ApiBoundAssumption DEF ApiTypeOK, Feed!Start
<1> QED BY <1>1 DEF Feed!Ask

LEMMA AskEnds ==
  ASSUME ApiTypeOK, Feed!Answered(Caller)
  PROVE  /\ ask' \in [{Caller} -> Feed!Ask] /\ ask[Caller].state = "waiting"
         /\ ask'[Caller].state \in {"priced", "failed"}
         /\ ask'[Caller].state = "priced" /\ ~ ask'[Caller].stale => now - ask'[Caller].priceAt <= MaxAge
         /\ now' = now
<1>0. ask \in [{Caller} -> Feed!Ask] /\ now \in Nat
  BY ApiBoundAssumption DEF ApiTypeOK
<1>1. ASSUME NEW state \in {"priced", "failed"}, NEW p \in Nat, NEW stale \in BOOLEAN,
             Feed!Answer(Caller, state, p, stale)
      PROVE  /\ ask' \in [{Caller} -> Feed!Ask] /\ ask[Caller].state = "waiting" /\ now' = now
             /\ ask'[Caller].state = state /\ ask'[Caller].priceAt = p /\ ask'[Caller].stale = stale
  <2>1. ask[Caller].state = "waiting" /\ now' = now
        /\ ask' = [ask EXCEPT ![Caller].state = state, ![Caller].priceAt = p, ![Caller].stale = stale]
    BY <1>1 DEF Feed!Answer
  <2> QED BY <1>0, <2>1 DEF Feed!Ask
<1>2. CASE Feed!AnswerFresh(Caller)
  <2>1. PICK p \in 0..now : now - p <= MaxAge /\ Feed!Answer(Caller, "priced", p, FALSE)
    BY <1>2 DEF Feed!AnswerFresh
  <2>2. p \in Nat /\ FALSE \in BOOLEAN /\ "priced" \in {"priced", "failed"}
    BY <1>0
  <2>3. /\ ask' \in [{Caller} -> Feed!Ask] /\ ask[Caller].state = "waiting" /\ now' = now
        /\ ask'[Caller].state = "priced" /\ ask'[Caller].priceAt = p /\ ask'[Caller].stale = FALSE
    BY <1>1, <2>1, <2>2, Zenon
  <2> QED BY <2>1, <2>3
<1>3. CASE Feed!AnswerStale(Caller)
  <2>1. PICK p \in 0..now : Feed!Answer(Caller, "priced", p, TRUE)
    BY <1>3 DEF Feed!AnswerStale
  <2>2. p \in Nat /\ TRUE \in BOOLEAN /\ "priced" \in {"priced", "failed"}
    BY <1>0
  <2>3. /\ ask' \in [{Caller} -> Feed!Ask] /\ ask[Caller].state = "waiting" /\ now' = now
        /\ ask'[Caller].state = "priced" /\ ask'[Caller].priceAt = p /\ ask'[Caller].stale = TRUE
    BY <1>1, <2>1, <2>2, Zenon
  <2> QED BY <2>1, <2>3
<1>4. CASE Feed!AnswerUnavailable(Caller)
  <2>1. Feed!Answer(Caller, "failed", 0, FALSE)
    BY <1>4 DEF Feed!AnswerUnavailable
  <2> QED BY <1>1, <2>1
<1> QED BY <1>2, <1>3, <1>4 DEF Feed!Answered

LEMMA RefuseInv ==
  ASSUME ApiInv, Refuse
  PROVE  ApiInv'
<1>0. ApiTypeOK /\ request \in Requests
  BY DEF ApiInv, ApiTypeOK
<1>1. PICK i \in DOMAIN Checks[request.route] :
          /\ Checks[request.route][i] \in request.fails
          /\ \A j \in 1..(i - 1) : Checks[request.route][j] \notin request.fails
          /\ Throw(Exception(Checks[request.route][i]))
  BY DEF Refuse
<1>2. PICK check : check = Checks[request.route][i]
  OBVIOUS
<1>3. /\ stage = "received" /\ stage' = "answered" /\ answer' = ToErrorResponse(Exception(check))
      /\ UNCHANGED <<priced, now, ask, request, row>>
  BY <1>1, <1>2 DEF Refuse, Throw, Respond
<1>4. /\ check \in AnyCheck
      /\ request.fails \cap {"header", "key"} # {} /\ request.fails \cap {"body", "syntax"} = {} =>
             IF "read" \in request.fails /\ "header" \notin request.fails THEN check = "read"
             ELSE check \in {"header", "key"}
      /\ check = "body" => "body" \in request.fails
      /\ check = "read" => "read" \in request.fails
      /\ check \in {"date", "uuid"} => request.fails \subseteq {"date", "uuid"}
  BY <1>0, <1>1, <1>2, FirstFailure
<1>5. /\ answer' \in Answers
      /\ check \notin {"body", "read", "date", "uuid"} => answer'.status \in 400..499
      /\ check = "read" => answer' = [status |-> 500, code |-> "INTERNAL_SERVER_ERROR"]
      /\ check \in {"header", "key"} => answer' = [status |-> 401, code |-> "UNAUTHORIZED"]
  BY <1>3, <1>4, ExceptionAnswers
<1>6. ask[Caller].state = "idle" /\ row = NoQuote /\ priced = NoQuote
  BY <1>3 DEF ApiInv, Progress
<1>7. ApiTypeOK'
  BY <1>0, <1>3, <1>5 DEF ApiTypeOK, TypeOK, Answers
<1>8. Progress' /\ RowFounded'
  BY <1>3, <1>6 DEF Progress, RowFounded
<1>9. StrangerSeesOneAnswer' /\ MistakesAre4xx'
  BY <1>3, <1>4, <1>5, <1>6 DEF StrangerSeesOneAnswer, MistakesAre4xx
<1> QED BY <1>7, <1>8, <1>9 DEF ApiInv

LEMMA HandleInv ==
  ASSUME ApiInv, Handle
  PROVE  ApiInv'
<1>0. ApiTypeOK /\ request \in Requests
  BY DEF ApiInv, ApiTypeOK
<1>1. /\ stage = "received" /\ stage' = "answered" /\ request.fails = {}
      /\ UNCHANGED <<priced, now, ask, request, row>>
  BY DEF Handle, Throw, Respond
<1>2. answer' \in Answers
  BY <1>0, AnswerTypes, RefusalTypes DEF Handle, Throw, Respond
<1>3. ask[Caller].state = "idle" /\ row = NoQuote /\ priced = NoQuote
  BY <1>1 DEF ApiInv, Progress
<1>4. ApiTypeOK'
  BY <1>0, <1>1, <1>2 DEF ApiTypeOK, TypeOK, Answers
<1>5. Progress' /\ RowFounded' /\ StrangerSeesOneAnswer' /\ MistakesAre4xx'
  BY <1>1, <1>3 DEF Progress, RowFounded, StrangerSeesOneAnswer, MistakesAre4xx
<1> QED BY <1>4, <1>5 DEF ApiInv

LEMMA AskPriceInv ==
  ASSUME ApiInv, AskPrice
  PROVE  ApiInv'
<1>1. /\ stage = "received" /\ stage' = "pricing" /\ request.fails = {}
      /\ UNCHANGED <<priced, request, answer, row>>
  BY DEF AskPrice
<1>2. /\ ask' \in [{Caller} -> Feed!Ask] /\ ask'[Caller].state = "waiting" /\ now' = now
  BY AskStarts DEF ApiInv, AskPrice
<1>3. row = NoQuote /\ priced = NoQuote
  BY <1>1 DEF ApiInv, Progress
<1>4. ApiTypeOK'
  BY <1>1, <1>2 DEF ApiInv, ApiTypeOK, TypeOK
<1>5. Progress' /\ RowFounded' /\ StrangerSeesOneAnswer' /\ MistakesAre4xx'
  BY <1>1, <1>2, <1>3 DEF Progress, RowFounded, StrangerSeesOneAnswer, MistakesAre4xx
<1> QED BY <1>4, <1>5 DEF ApiInv

\* A request whose price has come is a sound one, and has no row yet.
LEMMA PriceHasCome ==
  ASSUME ApiInv, Feed!Answered(Caller)
  PROVE  /\ stage = "pricing" /\ row = NoQuote /\ priced = NoQuote /\ request.fails = {} /\ answer = NoAnswer
         /\ ask' \in [{Caller} -> Feed!Ask]
         /\ ask'[Caller].state \in {"priced", "failed"}
         /\ now' = now
<1>1. ApiTypeOK
  BY DEF ApiInv
<1>2. stage = "pricing" /\ ask' \in [{Caller} -> Feed!Ask] /\ ask'[Caller].state \in {"priced", "failed"}
      /\ now' = now
  BY <1>1, AskEnds DEF ApiInv, Progress
<1> QED BY <1>1, <1>2 DEF ApiInv, Progress, ApiTypeOK

\* An answer given when the price has come.
LEMMA AnswerInv ==
  ASSUME ApiInv, Feed!Answered(Caller), NEW a \in Answers, Respond(a),
         UNCHANGED <<priced, request, row>>
  PROVE  ApiInv'
<1>1. /\ row = NoQuote /\ priced = NoQuote /\ request.fails = {} /\ stage' = "answered" /\ answer' \in Answers
      /\ ask' \in [{Caller} -> Feed!Ask] /\ ask'[Caller].state \in {"priced", "failed"} /\ now' = now
      /\ UNCHANGED <<priced, request, row>>
  BY PriceHasCome DEF Respond
<1>2. ApiTypeOK'
  BY <1>1 DEF ApiInv, ApiTypeOK, TypeOK, Answers
<1>3. Progress' /\ RowFounded' /\ StrangerSeesOneAnswer' /\ MistakesAre4xx'
  BY <1>1 DEF Progress, RowFounded, StrangerSeesOneAnswer, MistakesAre4xx
<1> QED BY <1>2, <1>3 DEF ApiInv

LEMMA ShowPriceInv ==
  ASSUME ApiInv, ShowPrice
  PROVE  ApiInv'
<1>1. Feed!Answered(Caller) /\ UNCHANGED <<priced, request, row>>
  BY DEF ShowPrice
<1>2. \E a \in Answers : Respond(a)
  BY AnswerTypes DEF ShowPrice, Throw
<1> QED BY <1>1, <1>2, AnswerInv

LEMMA TtlNat ==
  ASSUME request \in Requests
  PROVE  Ttl \in Nat
<1>1. request.ttl \in Ttls
  BY DEF Requests, Request
<1> QED BY <1>1, TtlAssumption DEF Ttl

\* createQuote makes a row of a price that is not stale.
LEMMA PriceQuoteInv ==
  ASSUME ApiInv, PriceQuote
  PROVE  ApiInv'
<1>1. Feed!Answered(Caller) /\ ask'[Caller].state = "priced" /\ UNCHANGED request
  BY DEF PriceQuote
<1>2. CASE Refusable(ask'[Caller])
  <2>1. UNCHANGED <<priced, request, row>> /\ Respond(ToErrorResponse(PricingProviderError(FALSE)))
    BY <1>2 DEF PriceQuote, Throw
  <2> QED BY <1>1, <2>1, AnswerTypes, AnswerInv
<1>3. CASE ~ Refusable(ask'[Caller])
  <2>0. /\ ApiTypeOK /\ now \in Nat /\ request \in Requests /\ Ttl \in Nat /\ MaxAge \in Nat
    <3>1. ApiTypeOK /\ now \in Nat /\ request \in Requests /\ MaxAge \in Nat
      BY ApiBoundAssumption DEF ApiInv, ApiTypeOK
    <3> QED BY <3>1, TtlNat
  <2>1. /\ Next /\ stage' = "inserting" /\ answer' = answer
        /\ row' = [priceAt |-> ask'[Caller].priceAt,
                   price |-> StoredPrice(FirmPrice(priced'.mid, priced'.side, priced'.spread)),
                   expiresAt |-> now + Ttl, status |-> "unsaved", tradedAt |-> 0]
    BY <1>3 DEF PriceQuote
  <2>2. /\ request.fails = {} /\ answer = NoAnswer
        /\ ask' \in [{Caller} -> Feed!Ask] /\ now' = now
    BY <1>1, PriceHasCome
  <2>3. now - ask'[Caller].priceAt <= MaxAge /\ ask'[Caller].priceAt \in Nat
    BY <1>1, <1>3, <2>0, <2>2, AskEnds DEF Refusable, Feed!Ask
  <2>4. PICK symbol \in Symbols, side \in Sides, amount \in Amounts, mid \in Mids, bps \in Spreads :
            CreateQuote(symbol, side, amount, mid, bps)
    BY <2>1 DEF Next
  <2>5. TypeOK'
    BY <2>4, CreateQuoteInv DEF PricedInv
  <2>6. /\ priced'.symbol = symbol /\ priced'.side = side /\ priced'.mid = mid /\ priced'.spread = bps
        /\ priced'.quoteAmountMinor = QuoteAmountMinor(priced'.baseAmountMinor, symbol, FirmPrice(mid, side, bps))
        /\ priced' \in PricedQuote /\ priced'.baseAmountMinor \in Nat
    <3>1. BaseAmountMinor(amount, symbol) \in Nat
      <4>1. amount * UnitsOf[Base[symbol]] \in Nat
        BY InputAssumption, ScalesPositive, ProductNat
      <4> QED BY <4>1, ScaleAssumption, RoundsToNearest DEF BaseAmountMinor, ToMinorUnits
    <3>2. mid \in Nat /\ bps \in 0..OneInBps /\ amount \in Nat
      BY InputAssumption
    <3>3. FirmPrice(mid, side, bps) \in Nat
      BY <3>2, FirmPriceNat
    <3>4. QuoteAmountMinor(BaseAmountMinor(amount, symbol), symbol, FirmPrice(mid, side, bps)) \in Nat
      BY <3>1, <3>3, QuoteAmountNearest
    <3> QED BY <2>4, <3>1, <3>2, <3>4 DEF CreateQuote, PricedQuote
  <2>7. FirmPrice(mid, side, bps) \in Nat
    BY InputAssumption, FirmPriceNat
  <2>8. StoredPrice(FirmPrice(mid, side, bps)) \in Nat
    BY <2>6, <2>7, StoredPriceExact
  <2>9. row' \in Quoted
    BY <2>0, <2>1, <2>3, <2>6, <2>8 DEF Quoted
  <2>10. RowFounded'
    <3>1. row'.price = StoredPrice(FirmPrice(priced'.mid, priced'.side, priced'.spread))
          /\ row'.expiresAt = now + Ttl /\ row'.priceAt = ask'[Caller].priceAt /\ row'.status = "unsaved"
      BY <2>1
    <3>2. Ttl' = Ttl
      BY <1>1 DEF Ttl
    <3>3. row'.expiresAt <= row'.priceAt + MaxAge + Ttl'
      BY <2>0, <2>3, <3>1, <3>2
    <3> QED BY <2>6, <2>9, <3>1, <3>3 DEF RowFounded
  <2>11. ApiTypeOK'
    BY <1>1, <2>0, <2>1, <2>2, <2>5, <2>9 DEF ApiInv, ApiTypeOK
  <2>12. Progress' /\ StrangerSeesOneAnswer' /\ MistakesAre4xx'
    BY <1>1, <2>1, <2>2 DEF Progress, StrangerSeesOneAnswer, MistakesAre4xx
  <2> QED BY <2>10, <2>11, <2>12 DEF ApiInv
<1> QED BY <1>2, <1>3

LEMMA InsertInv ==
  ASSUME ApiInv, Insert
  PROVE  ApiInv'
<1>1. /\ stage = "inserting" /\ stage' = "answered" /\ UNCHANGED <<priced, now, ask, request>>
      /\ request.fails = {}
  BY DEF ApiInv, Progress, Insert, Throw, Respond
<1>2. answer' \in Answers
  BY AnswerTypes DEF Insert, Throw, Respond
<1>3. row \in Quoted /\ RowFounded
  BY <1>1 DEF ApiInv, RowFounded
<1>4. row' = NoQuote \/ row' = [row EXCEPT !.status = "ACTIVE"]
  BY DEF Insert
<1>5. row' = NoQuote \/ row' \in Quoted
  BY <1>3, <1>4 DEF Quoted
<1>6. ApiTypeOK'
  BY <1>1, <1>2, <1>5 DEF ApiInv, ApiTypeOK, TypeOK, Answers
<1>7. RowFounded'
  <2>1. CASE row' = NoQuote
    BY <1>1, <2>1 DEF RowFounded
  <2>2. CASE row' # NoQuote
    <3>1. row' \in Quoted /\ row'.price = row.price /\ row'.priceAt = row.priceAt
          /\ row'.expiresAt = row.expiresAt /\ row'.status = "ACTIVE"
      BY <1>3, <1>4, <2>2 DEF Quoted
    <3> QED BY <1>1, <1>3, <3>1 DEF RowFounded, Ttl
  <2> QED BY <2>1, <2>2
<1>8. Fits \/ (answer'.status = 500 /\ row' = NoQuote)
  BY AnswerTypes DEF Insert, Throw, Respond
<1>9. Fits' = Fits
  BY <1>1 DEF Fits
<1>10. Progress' /\ StrangerSeesOneAnswer' /\ MistakesAre4xx'
  BY <1>1, <1>8, <1>9 DEF ApiInv, Progress, StrangerSeesOneAnswer, MistakesAre4xx
<1> QED BY <1>6, <1>7, <1>10 DEF ApiInv

LEMMA TradeInv ==
  ASSUME ApiInv, Trade
  PROVE  ApiInv'
<1>1. /\ row # NoQuote /\ now < row.expiresAt /\ row' = [row EXCEPT !.status = "EXECUTED", !.tradedAt = now]
      /\ UNCHANGED <<priced, now, ask, request, stage, answer>>
  BY DEF Trade
<1>2. row \in Quoted /\ now \in Nat /\ RowFounded
  BY <1>1, ApiBoundAssumption DEF ApiInv, ApiTypeOK, RowFounded
<1>3. /\ row' \in Quoted /\ row'.price = row.price /\ row'.priceAt = row.priceAt
      /\ row'.expiresAt = row.expiresAt /\ row'.tradedAt = now
  BY <1>1, <1>2 DEF Quoted
<1>4. RowFounded'
  BY <1>1, <1>2, <1>3 DEF RowFounded, Ttl
<1>5. ApiTypeOK'
  BY <1>1, <1>3 DEF ApiInv, ApiTypeOK, TypeOK
<1>6. Progress' /\ StrangerSeesOneAnswer' /\ MistakesAre4xx'
  BY <1>1 DEF ApiInv, Progress, StrangerSeesOneAnswer, MistakesAre4xx, Fits
<1> QED BY <1>4, <1>5, <1>6 DEF ApiInv

LEMMA TickInv ==
  ASSUME ApiInv, Tick
  PROVE  ApiInv'
<1>1. now < MaxTime /\ now' = now + 1 /\ UNCHANGED <<ask, priced, request, stage, answer, row>>
  BY DEF Tick, Feed!Tick
<1>2. ApiTypeOK'
  BY <1>1, ApiBoundAssumption DEF ApiInv, ApiTypeOK, TypeOK
<1>3. RowFounded' /\ Progress' /\ StrangerSeesOneAnswer' /\ MistakesAre4xx'
  BY <1>1 DEF ApiInv, RowFounded, Ttl, Progress, StrangerSeesOneAnswer, MistakesAre4xx, Fits
<1> QED BY <1>2, <1>3 DEF ApiInv

LEMMA ApiInitInv == ApiInit => ApiInv
<1> SUFFICES ASSUME ApiInit PROVE ApiInv
  OBVIOUS
<1>1. ask = [c \in {Caller} |-> Feed!NotAsked] /\ now = 0 /\ priced = NoQuote
      /\ stage = "received" /\ answer = NoAnswer /\ row = NoQuote /\ request \in Requests
  BY DEF ApiInit, Feed!Init, Init
<1>2. Feed!NotAsked \in Feed!Ask /\ Feed!NotAsked.state = "idle"
  BY DEF Feed!NotAsked, Feed!Ask
<1>3. ApiTypeOK
  BY <1>1, <1>2, ApiBoundAssumption DEF ApiTypeOK, TypeOK
<1>4. Progress /\ RowFounded /\ StrangerSeesOneAnswer /\ MistakesAre4xx
  BY <1>1, <1>2 DEF Progress, RowFounded, StrangerSeesOneAnswer, MistakesAre4xx
<1> QED BY <1>3, <1>4 DEF ApiInv

LEMMA ApiNextInv == ApiInv /\ [ApiNext]_vars => ApiInv'
<1> SUFFICES ASSUME ApiInv, [ApiNext]_vars PROVE ApiInv'
  OBVIOUS
<1>1. CASE UNCHANGED vars
  BY <1>1 DEF vars, ApiInv, ApiTypeOK, TypeOK, Progress, RowFounded, Ttl, StrangerSeesOneAnswer,
              MistakesAre4xx, Fits
<1> QED
  BY <1>1, RefuseInv, HandleInv, AskPriceInv, ShowPriceInv, PriceQuoteInv, InsertInv, TradeInv, TickInv
  DEF ApiNext, Step

-----------------------------------------------------------------------------
\* How far every request is, and what it has by then.
THEOREM ApiInductive == ApiSpec => []ApiInv
BY ApiInitInv, ApiNextInv, PTL DEF ApiSpec

\* Every answer is one of the table of errors, or 500, and no request has one early.
THEOREM ApiTyped == ApiSpec => []ApiTypeOK
<1>1. ApiInv => ApiTypeOK
  BY DEF ApiInv
<1> QED BY <1>1, ApiInductive, PTL

\* Without a key a client learns nothing but that, on any route that asks for one,
\* not even whether deposits are enabled; only the guard's own failure to read the
\* clients is answered otherwise, and depends on nothing else in the request.
THEOREM StrangerLearnsNothing == ApiSpec => []StrangerSeesOneAnswer
<1>1. ApiInv => StrangerSeesOneAnswer
  BY DEF ApiInv
<1> QED BY <1>1, ApiInductive, PTL

\* A mistake of the client that a check finds costs neither a price nor a row, and
\* is answered 4xx unless the body's parser or Postgres is the one to find it, or
\* the guard's read fails before; an amount no bigint holds leaves no row and is
\* answered 500.
THEOREM MistakesAreFree == ApiSpec => []MistakesAre4xx
<1>1. ApiInv => MistakesAre4xx
  BY DEF ApiInv
<1> QED BY <1>1, ApiInductive, PTL

\* From Binance to the trade: no quote is found good for a trade at a price older
\* than the freshness promised and the quote's lifetime together.
THEOREM TradesAtRecentPrices == ApiSpec => []TradedPriceIsRecent
<1>1. ApiInv => TradedPriceIsRecent
  <2> SUFFICES ASSUME ApiInv, row # NoQuote, row.status = "EXECUTED"
               PROVE  row.tradedAt - row.priceAt < MaxAge + Ttl
    BY DEF TradedPriceIsRecent, Ttl
  <2>1. row \in Quoted /\ row.tradedAt < row.expiresAt /\ row.expiresAt <= row.priceAt + MaxAge + Ttl
    BY DEF ApiInv, RowFounded
  <2>2. Ttl \in Nat /\ MaxAge \in Nat
    BY ApiBoundAssumption, TtlNat DEF ApiInv, ApiTypeOK
  <2> QED BY <2>1, <2>2 DEF Quoted
<1> QED BY <1>1, ApiInductive, PTL

\* The stored price explains the stored amount: 18 decimals lose nothing of a firm
\* price, and the amount follows from it as it did from the price itself.
THEOREM PriceExplainsAmount == ApiSpec => []StoredPriceExplainsAmount
<1>1. ApiInv => StoredPriceExplainsAmount
  <2> SUFFICES ASSUME ApiInv, row # NoQuote
               PROVE  ToMinorUnits(priced.baseAmountMinor * row.price,
                                   UnitsOf[Base[priced.symbol]] * StorageScale,
                                   Quote[priced.symbol]) = priced.quoteAmountMinor
    BY DEF StoredPriceExplainsAmount
  <2> DEFINE price == FirmPrice(priced.mid, priced.side, priced.spread)
  <2>1. /\ priced \in PricedQuote /\ row.price = StoredPrice(price)
        /\ priced.quoteAmountMinor = QuoteAmountMinor(priced.baseAmountMinor, priced.symbol, price)
    BY DEF ApiInv, RowFounded
  <2>2. priced.symbol \in Symbols /\ priced.baseAmountMinor \in Nat /\ price \in Nat
    BY <2>1, FirmPriceNat DEF PricedQuote
  <2> QED BY <2>1, <2>2, StoredPriceExact
<1> QED BY <1>1, ApiInductive, PTL

\* The request prices its quote as MoneyMath does, and asks for the price as
\* PriceFeed allows: what is proved of either holds of the request.
THEOREM RequestComposes == ApiSpec => Spec /\ Feed!Safety
<1>1. ApiInit => Init /\ Feed!Init
  BY DEF ApiInit
<1>2. [ApiNext]_vars => [Next]_priced
  BY DEF ApiNext, Step, vars, Refuse, Handle, AskPrice, ShowPrice, PriceQuote, Insert, Trade, Tick
<1>3. [ApiNext]_vars => [Feed!Next]_(Feed!vars)
  BY DEF ApiNext, Step, vars, Refuse, Handle, AskPrice, ShowPrice, PriceQuote, Insert, Trade, Tick,
     Feed!Next, Feed!vars
<1> QED BY <1>1, <1>2, <1>3, PTL DEF ApiSpec, Spec, Feed!Safety
=============================================================================
