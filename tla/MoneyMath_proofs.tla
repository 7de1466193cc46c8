-------------------------- MODULE MoneyMath_proofs ---------------------------
(***************************************************************************)
(* The amounts of a quote are the nearest minor units, are never negative, *)
(* and favour the house, for every currency, precision, price and spread   *)
(* up to 100 %.                                                            *)
(***************************************************************************)
EXTENDS MoneyMath, TLAPS

\* The quotient of a division brackets the dividend.
LEMMA Quotient ==
  ASSUME NEW a \in Nat, NEW b \in Nat \ {0}
  PROVE  /\ a \div b \in Nat
         /\ b * (a \div b) <= a
         /\ a < b * (a \div b) + b
OBVIOUS

\* Products of natural numbers.
LEMMA ProductNat ==
  ASSUME NEW a \in Nat, NEW b \in Nat
  PROVE  a * b \in Nat
OBVIOUS

LEMMA ProductPositive ==
  ASSUME NEW a \in Nat \ {0}, NEW b \in Nat \ {0}
  PROVE  a * b \in Nat \ {0}
OBVIOUS

LEMMA ProductMonotone ==
  ASSUME NEW a \in Nat, NEW b \in Nat, NEW c \in Nat, b <= c
  PROVE  a * b <= a * c
OBVIOUS

\* RoundHalfUp is the nearest integer.
LEMMA RoundsToNearest ==
  ASSUME NEW num \in Nat, NEW den \in Nat \ {0}
  PROVE  RoundHalfUp(num, den) \in Nat /\ Nearest(RoundHalfUp(num, den), num, den)
<1> DEFINE n == (2 * num + den) \div (2 * den)
<1>1. 2 * num + den \in Nat /\ 2 * den \in Nat \ {0}
  OBVIOUS
<1>2. n \in Nat /\ (2 * den) * n <= 2 * num + den /\ 2 * num + den < (2 * den) * n + 2 * den
  BY <1>1, Quotient
<1> HIDE DEF n
<1>3. (2 * den) * n = 2 * n * den
  BY <1>2
<1>4. Nearest(n, num, den)
  BY <1>2, <1>3 DEF Nearest
<1> QED BY <1>2, <1>4 DEF n, RoundHalfUp

\* Rounding keeps the order.
LEMMA RoundingMonotone ==
  ASSUME NEW a \in Nat, NEW b \in Nat, NEW den \in Nat \ {0}, a <= b
  PROVE  RoundHalfUp(a, den) <= RoundHalfUp(b, den)
<1> DEFINE m == RoundHalfUp(a, den)
           n == RoundHalfUp(b, den)
<1>1. /\ m \in Nat /\ 2 * m * den <= 2 * a + den
      /\ n \in Nat /\ 2 * b < 2 * n * den + den
  BY RoundsToNearest DEF Nearest
<1> HIDE DEF m, n
<1>2. SUFFICES ASSUME n + 1 <= m PROVE FALSE
  <2>1. m <= n \/ n + 1 <= m
    BY <1>1
  <2> QED BY <1>2, <2>1 DEF m, n
<1>3. den * (n + 1) <= den * m
  BY <1>1, <1>2, ProductMonotone
<1>4. den * (n + 1) = n * den + den /\ den * m = m * den
  BY <1>1
<1>5. 2 * m * den = 2 * (m * den) /\ 2 * n * den = 2 * (n * den)
  BY <1>1
<1>6. m * den \in Nat /\ n * den \in Nat
  BY <1>1, ProductNat
<1> QED BY <1>1, <1>3, <1>4, <1>5, <1>6

-----------------------------------------------------------------------------
\* The scales and factors are positive, or at least not negative.
LEMMA ScalesPositive ==
  ASSUME NEW symbol \in Symbols
  PROVE  /\ UnitsOf[Base[symbol]] \in Nat \ {0} /\ UnitsOf[Quote[symbol]] \in Nat \ {0}
         /\ FirmScale \in Nat \ {0}
         /\ UnitsOf[Base[symbol]] * FirmScale \in Nat \ {0}
<1>1. UnitsOf[Base[symbol]] \in Nat \ {0} /\ UnitsOf[Quote[symbol]] \in Nat \ {0}
  BY SymbolAssumption
<1>2. FirmScale \in Nat \ {0}
  BY ScaleAssumption, ProductPositive DEF FirmScale
<1> QED BY <1>1, <1>2, ProductPositive

LEMMA FirmPriceNat ==
  ASSUME NEW mid \in Nat, NEW side \in Sides, NEW bps \in 0..OneInBps
  PROVE  /\ SpreadFactor(side, bps) \in Nat
         /\ FirmPrice(mid, side, bps) \in Nat
<1>1. SpreadFactor(side, bps) \in Nat
  BY ScaleAssumption DEF SpreadFactor, Sides
<1> QED BY <1>1, ProductNat DEF FirmPrice

\* What createQuote computes from a price that is not negative.
LEMMA QuoteAmountNearest ==
  ASSUME NEW symbol \in Symbols, NEW baseMinor \in Nat, NEW price \in Nat
  PROVE  LET num == (baseMinor * price) * UnitsOf[Quote[symbol]]
             den == UnitsOf[Base[symbol]] * FirmScale
         IN  /\ num \in Nat
             /\ QuoteAmountMinor(baseMinor, symbol, price) \in Nat
             /\ Nearest(QuoteAmountMinor(baseMinor, symbol, price), num, den)
<1>1. (baseMinor * price) * UnitsOf[Quote[symbol]] \in Nat
  BY ScalesPositive, ProductNat
<1> QED BY <1>1, ScalesPositive, RoundsToNearest DEF QuoteAmountMinor, ToMinorUnits

\* A higher price never makes a lower amount.
LEMMA QuoteAmountMonotone ==
  ASSUME NEW symbol \in Symbols, NEW baseMinor \in Nat, NEW p \in Nat, NEW r \in Nat, p <= r
  PROVE  QuoteAmountMinor(baseMinor, symbol, p) <= QuoteAmountMinor(baseMinor, symbol, r)
<1> DEFINE u == UnitsOf[Quote[symbol]]
<1>1. u \in Nat /\ UnitsOf[Base[symbol]] * FirmScale \in Nat \ {0}
  BY ScalesPositive
<1> HIDE DEF u
<1>2. baseMinor * p \in Nat /\ baseMinor * r \in Nat /\ baseMinor * p <= baseMinor * r
  BY ProductNat, ProductMonotone
<1>3. u * (baseMinor * p) <= u * (baseMinor * r)
  BY <1>1, <1>2, ProductMonotone
<1>4. /\ u * (baseMinor * p) = (baseMinor * p) * u
      /\ u * (baseMinor * r) = (baseMinor * r) * u
      /\ (baseMinor * p) * u \in Nat /\ (baseMinor * r) * u \in Nat
  BY <1>1, <1>2, ProductNat
<1> QED BY <1>1, <1>3, <1>4, RoundingMonotone DEF QuoteAmountMinor, ToMinorUnits, u

-----------------------------------------------------------------------------
\* What holds of the row every request inserts.
PricedInv == TypeOK /\ BaseIsNearest /\ QuoteIsNearest /\ SpreadFavoursHouse

LEMMA CreateQuoteInv ==
  ASSUME NEW symbol \in Symbols, NEW side \in Sides, NEW amount \in Amounts, NEW mid \in Mids,
         NEW bps \in Spreads, CreateQuote(symbol, side, amount, mid, bps)
  PROVE  PricedInv'
<1> DEFINE baseMinor == BaseAmountMinor(amount, symbol)
           price == FirmPrice(mid, side, bps)
           quoteMinor == QuoteAmountMinor(baseMinor, symbol, price)
<1>1. amount \in Nat /\ mid \in Nat /\ bps \in 0..OneInBps /\ bps \in Nat /\ OneInBps \in Nat
  BY InputAssumption, ScaleAssumption
<1>2. /\ priced'.symbol = symbol /\ priced'.side = side /\ priced'.amount = amount
      /\ priced'.mid = mid /\ priced'.spread = bps
      /\ priced'.baseAmountMinor = baseMinor /\ priced'.quoteAmountMinor = quoteMinor
      /\ priced' = [symbol |-> symbol, side |-> side, amount |-> amount, mid |-> mid, spread |-> bps,
                    baseAmountMinor |-> baseMinor, quoteAmountMinor |-> quoteMinor]
  BY DEF CreateQuote
<1>3. baseMinor \in Nat /\ Nearest(baseMinor, amount * UnitsOf[Base[symbol]], AmountScale)
  <2>1. amount * UnitsOf[Base[symbol]] \in Nat
    BY <1>1, ScalesPositive, ProductNat
  <2> QED BY <2>1, ScaleAssumption, RoundsToNearest DEF BaseAmountMinor, ToMinorUnits
<1>4. price \in Nat /\ price = mid * (IF side = "BUY" THEN OneInBps + bps ELSE OneInBps - bps)
  BY <1>1, FirmPriceNat DEF FirmPrice, SpreadFactor
<1> HIDE DEF baseMinor
<1>5. quoteMinor \in Nat /\ Nearest(quoteMinor, (baseMinor * price) * UnitsOf[Quote[symbol]],
                                    UnitsOf[Base[symbol]] * FirmScale)
  BY <1>3, <1>4, QuoteAmountNearest
<1> HIDE DEF price, quoteMinor
<1>6. TypeOK'
  BY <1>1, <1>2, <1>3, <1>5 DEF TypeOK, PricedQuote
<1>7. BaseIsNearest'
  BY <1>2, <1>3 DEF BaseIsNearest
<1>8. QuoteIsNearest'
  <2> DEFINE factor == IF side = "BUY" THEN OneInBps + bps ELSE OneInBps - bps
  <2>1. factor \in Int /\ UnitsOf[Quote[symbol]] \in Int /\ UnitsOf[Base[symbol]] \in Int
    BY <1>1, ScalesPositive
  <2>2. price = mid * factor
    BY <1>4
  <2> HIDE DEF factor
  <2>3. baseMinor * price = baseMinor * mid * factor
    BY <1>1, <1>3, <2>1, <2>2
  <2>4. UnitsOf[Base[symbol]] * FirmScale = UnitsOf[Base[symbol]] * PriceScale * OneInBps
    BY <2>1, ScaleAssumption DEF FirmScale
  <2>5. Nearest(quoteMinor, baseMinor * mid * factor * UnitsOf[Quote[symbol]],
                UnitsOf[Base[symbol]] * PriceScale * OneInBps)
    BY <1>5, <2>3, <2>4
  <2> QED BY <1>2, <2>5 DEF QuoteIsNearest, factor
<1>9. SpreadFavoursHouse'
  <2>1. OneInBps * mid \in Nat /\ OneInBps * mid = mid * OneInBps
    BY <1>1, ProductNat
  <2>2. CASE side = "BUY"
    <3>1. OneInBps * mid <= price
      BY <1>1, <1>4, <2>1, <2>2, ProductMonotone
    <3>2. QuoteAmountMinor(baseMinor, symbol, OneInBps * mid) <= quoteMinor
      BY <1>3, <1>4, <2>1, <3>1, QuoteAmountMonotone DEF quoteMinor
    <3> QED BY <1>2, <1>5, <2>2, <3>2 DEF SpreadFavoursHouse
  <2>3. CASE side = "SELL"
    <3>1. price <= OneInBps * mid
      BY <1>1, <1>4, <2>1, <2>3, ProductMonotone
    <3>2. quoteMinor <= QuoteAmountMinor(baseMinor, symbol, OneInBps * mid)
      BY <1>3, <1>4, <2>1, <3>1, QuoteAmountMonotone DEF quoteMinor
    <3> QED BY <1>2, <1>5, <2>3, <3>2 DEF SpreadFavoursHouse
  <2> QED BY <2>2, <2>3 DEF Sides
<1> QED BY <1>6, <1>7, <1>8, <1>9 DEF PricedInv

\* Every quote priced satisfies them.
LEMMA PricedInvariant == Spec => []PricedInv
<1>1. Init => PricedInv
  BY DEF Init, PricedInv, TypeOK, BaseIsNearest, QuoteIsNearest, SpreadFavoursHouse
<1>2. PricedInv /\ [Next]_priced => PricedInv'
  <2> SUFFICES ASSUME PricedInv, [Next]_priced PROVE PricedInv'
    OBVIOUS
  <2>1. CASE Next
    BY <2>1, CreateQuoteInv DEF Next
  <2>2. CASE UNCHANGED priced
    BY <2>2 DEF PricedInv, TypeOK, BaseIsNearest, QuoteIsNearest, SpreadFavoursHouse
  <2> QED BY <2>1, <2>2
<1> QED BY <1>1, <1>2, PTL DEF Spec

\* The amounts of a quote are natural numbers, which is what trading assumes of
\* them (createQuote): never negative, as long as the spread is at most 100 %.
THEOREM AmountsNeverNegative == Spec => []TypeOK
<1>1. PricedInv => TypeOK
  BY DEF PricedInv
<1> QED BY <1>1, PricedInvariant, PTL

\* The base amount is the nearest minor unit of the amount asked for (toMinorUnits),
\* and the quote amount that of the base amount at the firm price, although two
\* conversions lie between them (computeQuoteAmountMinor).
THEOREM RoundedOnce == Spec => []AmountsAreNearest
<1>1. PricedInv => AmountsAreNearest
  BY DEF PricedInv, AmountsAreNearest
<1> QED BY <1>1, PricedInvariant, PTL

\* The spread favours the house after rounding (applySpreadBps).
THEOREM HouseFavoured == Spec => []SpreadFavoursHouse
<1>1. PricedInv => SpreadFavoursHouse
  BY DEF PricedInv
<1> QED BY <1>1, PricedInvariant, PTL
=============================================================================
