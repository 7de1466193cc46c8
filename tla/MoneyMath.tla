------------------------------ MODULE MoneyMath ------------------------------
(***************************************************************************)
(* domain/money.ts, and the amounts createQuote computes with it.          *)
(*                                                                         *)
(* decimal.js is exact here: the amounts of a request stay far below its   *)
(* 40 digits, and it divides by powers of ten only.  A decimal is an       *)
(* integer over a scale: an amount of the request is a number of           *)
(* 1/AmountScale, a mid price one of 1/PriceScale, a firm price, after the *)
(* spread, one of 1/(PriceScale * OneInBps), and minor units are 1/UnitsOf *)
(* the currency (10 ^ CURRENCY_DECIMALS).  A behaviour prices one request. *)
(***************************************************************************)
EXTENDS Integers

CONSTANTS
    Currencies,   \* currency codes
    Symbols,      \* trading symbols
    Base, Quote,  \* the two currencies of each symbol
    UnitsOf,      \* minor units in one unit of each currency
    AmountScale,  \* the precision of amounts in requests, finer than any currency's
    PriceScale,   \* the precision of mid prices
    OneInBps,     \* basis points in 100 %: 10000, or fewer in a small instance
    Amounts,      \* amounts that requests name
    Mids,         \* mid prices the provider may give
    Spreads,      \* values of QUOTE_SPREAD_BPS
    NoQuote       \* no request has been priced yet

Sides == {"BUY", "SELL"}

ASSUME SymbolAssumption ==
    /\ Base \in [Symbols -> Currencies] /\ Quote \in [Symbols -> Currencies]
    /\ UnitsOf \in [Currencies -> Nat \ {0}]
ASSUME ScaleAssumption ==
    AmountScale \in Nat \ {0} /\ PriceScale \in Nat \ {0} /\ OneInBps \in Nat \ {0}
\* The request's amount is greater than zero, a mid price is not negative, and
\* the spread is at most 100 %, which the configuration does not check.
ASSUME InputAssumption ==
    /\ Amounts \subseteq Nat \ {0}
    /\ Mids \subseteq Nat
    /\ Spreads \subseteq 0..OneInBps

VARIABLE priced   \* the last quote priced, with what it was priced from

PricedQuote == [symbol : Symbols, side : Sides, amount : Nat, mid : Nat, spread : 0..OneInBps,
                baseAmountMinor : Nat, quoteAmountMinor : Nat]

TypeOK == priced = NoQuote \/ priced \in PricedQuote

-----------------------------------------------------------------------------
\* num / den to the nearest integer, ties upwards (toDecimalPlaces, ROUND_HALF_UP).
RoundHalfUp(num, den) == (2 * num + den) \div (2 * den)

\* num / den units of a currency in its minor units.
ToMinorUnits(num, den, currency) == RoundHalfUp(num * UnitsOf[currency], den)

\* Mutants of SpreadFactor: the sides are swapped; the spread is read as percent.
SpreadFactorSwapped(side, bps) == IF side = "SELL" THEN OneInBps + bps ELSE OneInBps - bps
SpreadFactorPercent(side, bps) == IF side = "BUY" THEN OneInBps + 100 * bps ELSE OneInBps - 100 * bps

\* The factor on the mid price, in 1/OneInBps (applySpreadBps).
SpreadFactor(side, bps) == IF side = "BUY" THEN OneInBps + bps ELSE OneInBps - bps

FirmPrice(mid, side, bps) == mid * SpreadFactor(side, bps)
FirmScale == PriceScale * OneInBps

\* Mutant of QuoteAmountMinor: base minor units taken for units.
QuoteAmountOfMinor(baseMinor, symbol, price) ==
    ToMinorUnits(baseMinor * price, FirmScale, Quote[symbol])

\* fromMinorUnits(base) * price, in minor units of the quote currency.
QuoteAmountMinor(baseMinor, symbol, price) ==
    ToMinorUnits(baseMinor * price, UnitsOf[Base[symbol]] * FirmScale, Quote[symbol])

BaseAmountMinor(amount, symbol) == ToMinorUnits(amount, AmountScale, Base[symbol])

\* createQuote, from the price to the row it inserts.
CreateQuote(symbol, side, amount, mid, bps) ==
    LET baseMinor == BaseAmountMinor(amount, symbol)
    IN  /\ priced = NoQuote
        /\ priced' = [symbol |-> symbol, side |-> side, amount |-> amount, mid |-> mid, spread |-> bps,
                      baseAmountMinor |-> baseMinor,
                      quoteAmountMinor |-> QuoteAmountMinor(baseMinor, symbol, FirmPrice(mid, side, bps))]

Init == priced = NoQuote

Next == \E symbol \in Symbols, side \in Sides, amount \in Amounts, mid \in Mids, bps \in Spreads :
            CreateQuote(symbol, side, amount, mid, bps)

Spec == Init /\ [][Next]_priced

-----------------------------------------------------------------------------
\* n is num / den rounded to the nearest integer.
Nearest(n, num, den) == 2 * n * den <= 2 * num + den /\ 2 * num < 2 * n * den + den

\* The base amount stored is the amount asked for, to the nearest minor unit of
\* its own currency (toMinorUnits).
BaseIsNearest ==
    priced # NoQuote =>
        Nearest(priced.baseAmountMinor, priced.amount * UnitsOf[Base[priced.symbol]], AmountScale)

\* The quote amount stored is the stored base amount at the firm price, to the
\* nearest minor unit: rounded once, at the boundary (computeQuoteAmountMinor).
QuoteIsNearest ==
    priced # NoQuote =>
        Nearest(priced.quoteAmountMinor,
                priced.baseAmountMinor * priced.mid
                    * (IF priced.side = "BUY" THEN OneInBps + priced.spread ELSE OneInBps - priced.spread)
                    * UnitsOf[Quote[priced.symbol]],
                UnitsOf[Base[priced.symbol]] * PriceScale * OneInBps)

\* Amounts are rounded once each, at the boundary, whatever the decimals of the two
\* currencies: a request finer than a minor unit is what may lose most (createQuote).
AmountsAreNearest == BaseIsNearest /\ QuoteIsNearest

\* The spread favours the house after rounding too: a client pays no less, and
\* receives no more, than the mid price would give (applySpreadBps).
SpreadFavoursHouse ==
    priced # NoQuote =>
        LET atMid == QuoteAmountMinor(priced.baseAmountMinor, priced.symbol, OneInBps * priced.mid)
        IN  IF priced.side = "BUY" THEN priced.quoteAmountMinor >= atMid
                                   ELSE priced.quoteAmountMinor <= atMid
=============================================================================
