----------------------------- MODULE TradeProofs -----------------------------
(***************************************************************************)
(* Proofs about Pricing and Trade: where the denominator fits the word the   *)
(* code never quotes more than the formula, a swap is monotone in each of    *)
(* its arguments, and no round trip gains. From these the properties of      *)
(* Trade follow for every word, all reserves, fees and settings.             *)
(***************************************************************************)
EXTENDS Trade, TLAPS

-----------------------------------------------------------------------------
(* Arithmetic *)

LEMMA MulOrder ==
    ASSUME NEW a \in Nat, NEW b \in Nat, NEW c \in Nat, a <= b
    PROVE  a * c <= b * c /\ a * c \in Nat /\ b * c \in Nat
BY SMT

LEMMA DivDef ==
    ASSUME NEW n \in Nat, NEW d \in Nat, d > 0
    PROVE  /\ n \div d \in Nat
           /\ (n \div d) * d <= n
           /\ n < (n \div d + 1) * d
BY SMT

LEMMA SmallMod ==
    ASSUME NEW n \in Nat, NEW d \in Nat, n < d
    PROVE  n % d = n
BY SMT

LEMMA ModType ==
    ASSUME NEW n \in Int, NEW d \in Nat, d > 0
    PROVE  n % d \in Nat /\ n % d < d
BY SMT

LEMMA ModBelow ==
    ASSUME NEW n \in Nat, NEW d \in Nat, d > 0
    PROVE  n % d <= n
<1>1. CASE n < d
  BY <1>1, SmallMod
<1>2. CASE n >= d
  BY <1>2, ModType
<1> QED BY <1>1, <1>2

\* Fractions compared by cross multiplication keep their order when rounded down.
LEMMA DivOrder ==
    ASSUME NEW n1 \in Nat, NEW d1 \in Nat, d1 > 0,
           NEW n2 \in Nat, NEW d2 \in Nat, d2 > 0,
           n1 * d2 <= n2 * d1
    PROVE  n1 \div d1 <= n2 \div d2
<1> DEFINE p == n1 \div d1
           q == n2 \div d2
<1>1. p \in Nat /\ p * d1 <= n1
  BY DivDef
<1>2. q \in Nat /\ n2 < (q + 1) * d2
  BY DivDef
<1> HIDE DEF p, q
<1>3. SUFFICES ASSUME q + 1 <= p PROVE FALSE
  BY <1>1, <1>2 DEF p, q
<1>4. (q + 1) * d1 <= n1
  <2>1. (q + 1) * d1 <= p * d1
    BY <1>1, <1>2, <1>3, MulOrder
  <2> QED BY <2>1, <1>1, <1>2
<1>5. ((q + 1) * d1) * d2 <= n1 * d2
  BY <1>2, <1>4, MulOrder
<1>6. n2 * d1 < ((q + 1) * d2) * d1
  BY <1>2
<1>7. ((q + 1) * d1) * d2 = ((q + 1) * d2) * d1
  BY <1>2
<1> QED BY <1>2, <1>5, <1>6, <1>7

-----------------------------------------------------------------------------
(* Swaps *)

LEMMA Fees == /\ RaydiumMul \in Nat /\ RaydiumMul > 0
              /\ RaydiumDen \in Nat /\ RaydiumDen > 0 /\ RaydiumMul <= RaydiumDen
              /\ Word \in Nat /\ Word > 0
BY FeesAssumption, WordAssumption

LEMMA SwapParts ==
    ASSUME NEW a \in Nat, NEW ri \in Nat, NEW ro \in Nat
    PROVE  /\ a * RaydiumMul \in Nat
           /\ a * RaydiumMul * ro \in Nat
           /\ ri * RaydiumDen + a * RaydiumMul \in Nat
           /\ ri > 0 \/ a > 0 => ri * RaydiumDen + a * RaydiumMul > 0
BY Fees, SMT

\* A swap never pays out more than the reserve it pays from.
LEMMA SwapBelowReserve ==
    ASSUME NEW a \in Nat, NEW ri \in Nat, NEW ro \in Nat, ri > 0 \/ a > 0
    PROVE  SwapOut(a, ri, ro) \in 0..ro
<1> DEFINE n == a * RaydiumMul * ro
           d == ri * RaydiumDen + a * RaydiumMul
           q == n \div d
<1>1. n \in Nat /\ d \in Nat /\ d > 0
  BY SwapParts
<1>2. q \in Nat /\ q * d <= n
  BY <1>1, DivDef
<1>3. n <= ro * d
  <2>1. a * RaydiumMul \in Nat /\ ri * RaydiumDen \in Nat
    BY Fees
  <2>2. (a * RaydiumMul) * ro <= d * ro
    BY <2>1, <1>1, MulOrder
  <2> QED BY <2>2, <1>1
<1> HIDE DEF n, d, q
<1>4. q <= ro
  <2> SUFFICES ASSUME ro + 1 <= q PROVE FALSE
    BY <1>2
  <2>1. (ro + 1) * d <= q * d
    BY <1>1, <1>2, MulOrder
  <2>2. (ro + 1) * d = ro * d + d
    BY <1>1
  <2> QED BY <2>1, <2>2, <1>1, <1>2, <1>3
<1> QED BY <1>2, <1>4 DEF SwapOut, n, d, q

\* More tokens in, less of them in the pool and more to pay out never pay less.
LEMMA SwapMonotone ==
    ASSUME NEW a1 \in Nat, NEW ri1 \in Nat, NEW ro1 \in Nat,
           NEW a2 \in Nat, NEW ri2 \in Nat, NEW ro2 \in Nat,
           a1 <= a2, ri2 <= ri1, ro1 <= ro2, ri2 > 0
    PROVE  SwapOut(a1, ri1, ro1) <= SwapOut(a2, ri2, ro2)
<1> DEFINE F == RaydiumMul
           D == RaydiumDen
           i1 == a1 * F
           i2 == a2 * F
           s1 == ri1 * D
           s2 == ri2 * D
<1>1. /\ F \in Nat /\ D \in Nat
      /\ i1 \in Nat /\ i2 \in Nat /\ i1 <= i2
      /\ s1 \in Nat /\ s2 \in Nat /\ s2 <= s1
  BY Fees, MulOrder
<1>2. s2 + i2 > 0 /\ s1 + i1 > 0
  BY SwapParts
<1>3. i1 * ro1 \in Nat /\ i2 * ro2 \in Nat
  BY <1>1
<1> HIDE DEF i1, i2, s1, s2
<1>4. i1 * ro1 <= i2 * ro2
  <2>1. i1 * ro1 <= i2 * ro1
    BY <1>1, MulOrder
  <2>2. ro1 * i2 <= ro2 * i2
    BY <1>1, MulOrder
  <2> QED BY <2>1, <2>2, <1>1
<1>5. (i1 * ro1) * s2 <= (i2 * ro2) * s1
  <2>1. (i1 * ro1) * s2 <= (i2 * ro2) * s2
    BY <1>1, <1>3, <1>4, MulOrder
  <2>2. s2 * (i2 * ro2) <= s1 * (i2 * ro2)
    BY <1>1, <1>3, MulOrder
  <2> QED BY <2>1, <2>2, <1>1, <1>3
<1>6. (i1 * ro1) * i2 <= (i2 * ro2) * i1
  <2>1. ro1 * (i1 * i2) <= ro2 * (i1 * i2)
    BY <1>1, MulOrder
  <2> QED BY <2>1, <1>1
<1>7. (i1 * ro1) * (s2 + i2) <= (i2 * ro2) * (s1 + i1)
  BY <1>1, <1>3, <1>5, <1>6
<1>8. (i1 * ro1) \div (s1 + i1) <= (i2 * ro2) \div (s2 + i2)
  BY <1>1, <1>2, <1>3, <1>7, DivOrder
<1> QED BY <1>8 DEF SwapOut, i1, i2, s1, s2

\* Where the denominator fits the word, the code quotes no more than the formula,
\* whatever becomes of the numerator.
LEMMA CodeBelowFormula ==
    ASSUME NEW a \in Nat, NEW ri \in Nat, NEW ro \in Nat, ri > 0, DenominatorFits(a, ri)
    PROVE  cpAmountOut(a, ri, ro) <= SwapOut(a, ri, ro)
<1> DEFINE i == a * RaydiumMul
           n == i * ro
           d == ri * RaydiumDen + i
<1>1. i \in Nat /\ n \in Nat /\ d \in Nat /\ d > 0 /\ i <= d /\ d < Word
  <2>1. ri * RaydiumDen \in Nat /\ i \in Nat
    BY Fees
  <2>2. n \in Nat /\ d \in Nat /\ d > 0
    BY SwapParts
  <2>3. d < Word
    BY DEF DenominatorFits
  <2> QED BY <2>1, <2>2, <2>3
<1>2. i % Word = i /\ d % Word = d
  <2> HIDE DEF i, d
  <2> QED BY <1>1, Fees, SmallMod
<1>3. n % Word \in Nat /\ n % Word <= n
  <2> HIDE DEF n
  <2> QED BY <1>1, Fees, ModType, ModBelow
<1>4. (n % Word) \div d <= n \div d /\ n \div d \in Nat
  <2> DEFINE m == n % Word
  <2>1. m \in Nat /\ m <= n
    BY <1>3
  <2> HIDE DEF m, n, d
  <2>2. m * d <= n * d
    BY <1>1, <2>1, MulOrder
  <2>3. m \div d <= n \div d
    BY <1>1, <2>1, <2>2, DivOrder
  <2>4. n \div d \in Nat
    BY <1>1, DivDef
  <2> QED BY <2>3, <2>4 DEF m
<1>5. SwapOut(a, ri, ro) = n \div d
  BY DEF SwapOut
<1>6. cpAmountOut(a, ri, ro) = IF ro = 0 THEN 0 ELSE (n % Word) \div d
  BY <1>1, <1>2 DEF cpAmountOut
<1> HIDE DEF n, d
<1> QED BY <1>4, <1>5, <1>6

LEMMA SwapType ==
    ASSUME NEW a \in Nat, NEW ri \in Nat, NEW ro \in Nat
    PROVE  cpAmountOut(a, ri, ro) \in Nat
<1> DEFINE i == (a * RaydiumMul) % Word
           n == (i * ro) % Word
           d == (ri * RaydiumDen + i) % Word
<1>1. i \in Nat
  BY Fees, SwapParts, ModType
<1>2. n \in Nat /\ d \in Nat
  <2>1. i * ro \in Int /\ ri * RaydiumDen + i \in Int
    BY <1>1, Fees
  <2> HIDE DEF i
  <2> QED BY <2>1, Fees, ModType
<1> HIDE DEF n, d
<1>3. d # 0 => n \div d \in Nat
  BY <1>2, DivDef
<1> QED BY <1>3, Zenon DEF cpAmountOut, i, n, d

\* Selling what a buy of a brings, or less, returns at most a: on the pool as it was
\* before the buy, and on the pool as the buy leaves it.
LEMMA RoundTripNeverGains ==
    ASSUME NEW a \in Nat, NEW B \in Nat, NEW Q \in Nat, NEW t \in Nat,
           B > 0, Q > 0, t <= SwapOut(a, Q, B)
    PROVE  /\ SwapOut(t, B, Q) <= a
           /\ t <= B /\ (B - t > 0 \/ t > 0) => SwapOut(t, B - t, Q + a) <= a
<1> DEFINE F == RaydiumMul
           D == RaydiumDen
           aF == a * F
           tF == t * F
           QD == Q * D
           BD == B * D
           tD == t * D
<1>1. /\ aF \in Nat /\ tF \in Nat /\ QD \in Nat /\ BD \in Nat /\ tD \in Nat
      /\ tF <= tD /\ QD > 0 /\ BD > 0
  BY Fees
<1>2. t * (QD + aF) <= aF * B
  <2> DEFINE out == (aF * B) \div (QD + aF)
  <2>1. aF * B \in Nat /\ QD + aF \in Nat /\ QD + aF > 0
    BY <1>1
  <2>2. out \in Nat /\ out * (QD + aF) <= aF * B
    BY <2>1, DivDef
  <2>3. t <= out
    BY DEF SwapOut
  <2> HIDE DEF out
  <2>4. t * (QD + aF) <= out * (QD + aF)
    BY <2>1, <2>2, <2>3, MulOrder
  <2> QED BY <2>1, <2>2, <2>4, <1>1
<1>3. aF * B <= a * BD
  BY Fees
<1>4. tF * Q <= t * QD
  BY Fees
<1>5. t * aF = a * tF
  BY Fees
<1>6. t * (QD + aF) = t * QD + t * aF
  BY <1>1
<1>7. SwapOut(t, B, Q) <= a
  <2> DEFINE n == tF * Q
             d == BD + tF
             q == n \div d
  <2>1. n \in Nat /\ d \in Nat /\ d > 0
    BY <1>1
  <2>2. q \in Nat /\ q * d <= n
    BY <2>1, DivDef
  <2>3. n <= a * BD
    <3> HIDE DEF aF, tF, QD, BD
    <3>1. t * QD \in Nat /\ t * aF \in Nat /\ aF * B \in Nat /\ a * BD \in Nat
      BY <1>1
    <3> QED BY <3>1, <1>1, <1>2, <1>3, <1>4, <1>6
  <2>4. a * BD <= a * d
    BY <1>1
  <2> HIDE DEF n, d
  <2>5. q <= a
    <3> SUFFICES ASSUME a + 1 <= q PROVE FALSE
      BY <2>2
    <3>1. (a + 1) * d <= q * d
      BY <2>1, <2>2, MulOrder
    <3>2. (a + 1) * d = a * d + d
      BY <2>1
    <3>3. a * BD \in Nat /\ a * d \in Nat /\ q * d \in Nat
      BY <2>1, <2>2, <1>1
    <3> QED BY <3>1, <3>2, <3>3, <2>1, <2>2, <2>3, <2>4
  <2> QED BY <2>5 DEF SwapOut, n, d
<1>8. ASSUME t <= B, B - t > 0 \/ t > 0
      PROVE  SwapOut(t, B - t, Q + a) <= a
  <2> DEFINE rest == (B - t) * D
             n == tF * (Q + a)
             d == rest + tF
             q == n \div d
  <2>1. B - t \in Nat /\ rest \in Nat /\ n \in Nat /\ d \in Nat /\ d > 0
    BY <1>1, <1>8, Fees, SwapParts
  <2>2. q \in Nat /\ q * d <= n
    BY <2>1, DivDef
  <2>3. n <= a * d
    <3>1. n = tF * Q + a * tF
      BY <1>1
    <3>2. n <= aF * B
      <4> HIDE DEF aF, tF, QD, n
      <4>1. t * QD \in Nat /\ t * aF \in Nat /\ tF * Q \in Nat /\ aF * B \in Nat
        BY <1>1
      <4> QED BY <4>1, <3>1, <1>1, <1>2, <1>4, <1>5, <1>6
    <3>3. aF * B = aF * (B - t) + aF * t
      BY <1>1
    <3>4. aF * (B - t) <= a * rest
      <4>1. (B - t) * F \in Nat /\ (B - t) * F <= rest
        BY <2>1, Fees
      <4>2. a * ((B - t) * F) <= a * rest
        BY <4>1, <2>1
      <4>3. aF * (B - t) = a * ((B - t) * F)
        BY <2>1, Fees
      <4> QED BY <4>2, <4>3
    <3>5. aF * t = a * tF
      BY Fees
    <3>6. a * d = a * rest + a * tF
      BY <1>1, <2>1
    <3> HIDE DEF aF, tF, n, d, rest
    <3>7. aF * B \in Nat /\ aF * (B - t) \in Nat /\ aF * t \in Nat /\ a * rest \in Nat
          /\ a * tF \in Nat
      BY <1>1, <2>1
    <3> QED BY <3>2, <3>3, <3>4, <3>5, <3>6, <3>7, <2>1
  <2> HIDE DEF n, d, rest
  <2>4. q <= a
    <3> SUFFICES ASSUME a + 1 <= q PROVE FALSE
      BY <2>2
    <3>1. (a + 1) * d <= q * d
      BY <2>1, <2>2, MulOrder
    <3>2. (a + 1) * d = a * d + d
      BY <2>1
    <3>3. a * d \in Nat /\ q * d \in Nat
      BY <2>1, <2>2
    <3> QED BY <3>1, <3>2, <3>3, <2>1, <2>2, <2>3
  <2> QED BY <2>4 DEF SwapOut, n, d, rest
<1> QED BY <1>7, <1>8

-----------------------------------------------------------------------------
(* Types *)

LEMMA Settings == /\ Spend \in Nat /\ Spend > 0
                  /\ SlippagePct \in 0..100
                  /\ Pools \subseteq Reserves
BY PoolsAssumption, SettingsAssumption DEF Reserves

LEMMA LossType ==
    ASSUME NEW B \in Nat, NEW Q \in Nat, NEW a \in Nat
    PROVE  simulateRoundTrip(B, Q, a) \in Int
<1> DEFINE t == cpAmountOut(a, Q, B)
           back == cpAmountOut(t, (B - t) % Word, (Q + a) % Word)
<1>1. t \in Nat
  BY SwapType
<1>2. back \in Nat
  <2> HIDE DEF t
  <2>1. (B - t) % Word \in Nat /\ (Q + a) % Word \in Nat
    BY <1>1, Fees, ModType
  <2> QED BY <1>1, <2>1, SwapType
<1>3. simulateRoundTrip(B, Q, a) = IF B = 0 \/ Q = 0 \/ t = 0 THEN a ELSE (a - back) % Word
  BY DEF simulateRoundTrip
<1> HIDE DEF t, back
<1>4. (a - back) % Word \in Nat
  BY <1>2, Fees, ModType
<1> QED BY <1>3, <1>4

LEMMA PumpTypes ==
    ASSUME NEW liq \in Nat, NEW n \in Nat
    PROVE  pumpTokensOut(liq, n) \in Nat /\ pumpFunSellQuote(liq, n) \in Nat
<1> DEFINE rq == VirtualSol + liq
           inFee == n * PumpMul
           k == VirtualSol * VirtualTokens
<1>1. rq \in Nat /\ rq > 0 /\ k \in Nat /\ k > 0 /\ inFee \in Nat
      /\ PumpDen \in Nat /\ PumpDen > 0
  BY CurveAssumption, FeesAssumption
<1>2. /\ inFee * VirtualSol * VirtualTokens \in Nat
      /\ inFee * rq * rq \in Nat
  BY <1>1, CurveAssumption
<1>3. /\ rq * (rq * PumpDen + inFee) \in Nat /\ rq * (rq * PumpDen + inFee) > 0
  <2> HIDE DEF rq, inFee
  <2>1. rq * PumpDen + inFee \in Nat /\ rq * PumpDen + inFee > 0
    BY <1>1
  <2> QED BY <1>1, <2>1
<1>4. /\ k * PumpDen + inFee * rq \in Nat /\ k * PumpDen + inFee * rq > 0
  <2> HIDE DEF rq, inFee, k
  <2>1. k * PumpDen \in Nat /\ k * PumpDen > 0 /\ inFee * rq \in Nat
    BY <1>1
  <2> QED BY <2>1
<1>5. pumpTokensOut(liq, n) = (inFee * VirtualSol * VirtualTokens) \div (rq * (rq * PumpDen + inFee))
  BY DEF pumpTokensOut
<1>6. pumpFunSellQuote(liq, n) = (inFee * rq * rq) \div (k * PumpDen + inFee * rq)
  BY DEF pumpFunSellQuote
<1> HIDE DEF rq, inFee, k
<1>7. (inFee * VirtualSol * VirtualTokens) \div (rq * (rq * PumpDen + inFee)) \in Nat
  BY <1>2, <1>3, DivDef
<1>8. (inFee * rq * rq) \div (k * PumpDen + inFee * rq) \in Nat
  BY <1>2, <1>4, DivDef
<1> QED BY <1>5, <1>6, <1>7, <1>8

LEMMA QuoteTypes ==
    ASSUME NEW p \in Reserves, NEW n \in Nat
    PROVE  EntryTokens(p) \in Nat /\ Worth(n, p) \in Nat
<1>1. p.base \in Nat /\ p.quote \in Nat
  BY DEF Reserves
<1> QED BY <1>1, Settings, PumpTypes, SwapType DEF EntryTokens, Worth, quoteEntry

LEMMA HaircutType ==
    ASSUME NEW n \in Nat
    PROVE  Haircut(n) \in 0..n
BY DEF Haircut

LEMMA SeenType == TypeOK => Seen \in Windows /\ Torn(Seen) \in Reserves
BY DEF TypeOK, Windows, Reserves, Seen, Torn

LEMMA InitTyped == Init => TypeOK
<1> SUFFICES ASSUME Init PROVE TypeOK
  OBVIOUS
<1>1. pool \in Reserves
  BY Settings DEF Init
<1>2. window \in Windows /\ entry \in Windows
  BY <1>1 DEF Init, Windows
<1>3. simulation \in BOOLEAN /\ late \in BOOLEAN
  BY Zenon DEF Init
<1> QED BY <1>1, <1>2, <1>3 DEF Init, TypeOK, Bought

LEMMA StepTyped == TypeOK /\ [Next]_vars => TypeOK'
<1> SUFFICES ASSUME TypeOK, [Next]_vars PROVE TypeOK'
  OBVIOUS
<1> USE DEF TypeOK, Bought
<1>1. CASE ReadBase
  BY <1>1 DEF ReadBase, constVars, walletVars, saleVars, Windows
<1>2. CASE ReadFails
  BY <1>2 DEF ReadFails, constVars, walletVars, saleVars
<1>3. CASE Assess
  <2>1. EntryTokens(Torn(Seen)) \in Nat
    BY SeenType, QuoteTypes
  <2>2. tokensOut' \in Nat /\ pc' \in {"rejected", "signal"}
    BY <1>3, <2>1 DEF Assess
  <2> QED BY <1>3, <2>2, SeenType DEF Assess, constVars, walletVars, saleVars
<1>4. CASE EnterSimulated
  BY <1>4, HaircutType DEF EnterSimulated, constVars, saleVars
<1>5. CASE SubmitBuy
  BY <1>5 DEF SubmitBuy, constVars, walletVars, saleVars
<1>6. CASE RaydiumFills
  <2>1. pool.base \in Nat /\ pool.quote \in Nat
    BY DEF Reserves
  <2>2. SwapOut(Spend, pool.quote, pool.base) \in 0..pool.base
    BY <2>1, Settings, SwapBelowReserve
  <2>3. pool' \in Reserves /\ held' \in Nat
    BY <1>6, <2>1, <2>2, Settings DEF RaydiumFills, Reserves
  <2> QED BY <1>6, <2>3 DEF RaydiumFills, constVars, saleVars
<1>7. CASE PumpFills
  <2>1. pool' \in Reserves
    BY <1>7, Settings DEF PumpFills, Reserves
  <2> QED BY <1>7, <2>1 DEF PumpFills, constVars, saleVars
<1>8. CASE BuyDies
  BY <1>8 DEF BuyDies, constVars, walletVars, saleVars
<1>9. CASE Check
  <2>1. Worth(tokensIn, Torn(Seen)) \in Nat
    BY SeenType, QuoteTypes
  <2>2. trigger' \in {"none", "take_profit", "stop_loss", "timeout"}
    BY <1>9 DEF Check, Exit
  <2> QED BY <1>9, <2>1, <2>2, SeenType DEF Check, constVars, walletVars
<1>10. CASE SellSimulated
  BY <1>10 DEF SellSimulated, constVars, walletVars
<1>11. CASE SellFills
  <2>1. pool.base \in Nat /\ pool.quote \in Nat /\ tokensIn \in Nat
    BY DEF Reserves
  <2>2. got' \in Nat
    <3>1. CASE source = "pump_fun"
      <4>1. pumpFunSellQuote(pool.quote, tokensIn) \in Nat
        BY <2>1, PumpTypes
      <4> QED BY <1>11, <3>1, <4>1 DEF SellFills
    <3>2. CASE source = "raydium"
      <4>1. SwapOut(tokensIn, pool.base, pool.quote) \in 0..pool.quote
        BY <1>11, <2>1, <3>2, SwapBelowReserve DEF SellFills, Drained
      <4> QED BY <1>11, <2>1, <3>2, <4>1 DEF SellFills
    <3> QED BY <3>1, <3>2 DEF Sources
  <2> QED BY <1>11, <2>2 DEF SellFills, constVars
<1>12. CASE SellDies
  BY <1>12 DEF SellDies, constVars, walletVars
<1>13. CASE PoolMoves
  BY <1>13, Settings DEF PoolMoves, constVars, walletVars, saleVars
<1>14. CASE Elapse
  BY <1>14 DEF Elapse, constVars, saleVars
<1>15. CASE UNCHANGED vars
  BY <1>15 DEF vars
<1> QED BY <1>1, <1>2, <1>3, <1>4, <1>5, <1>6, <1>7, <1>8, <1>9, <1>10, <1>11, <1>12,
           <1>13, <1>14, <1>15 DEF Next

\* Whatever the size of the word, amounts stay non-negative and a position never
\* carries more tokens than its signal offered (executeBuy, checkPosition).
THEOREM TradeTypes == Spec => []TypeOK
BY InitTyped, StepTyped, PTL DEF Spec

-----------------------------------------------------------------------------
(* The inductive invariant *)

Accepted == Bought \cup {"signal", "buying"}

\* What each place in the trade knows of the numbers (the order of reads, quotes and
\* decisions in process, executeBuy and checkPosition).
TradeInv ==
    /\ TypeOK
    /\ pc \in Accepted =>
         ~TooCostly(Torn(entry)) /\ tokensOut = EntryTokens(Torn(entry))
    /\ pc = "selling" =>
         /\ quoted = Worth(tokensIn, Torn(window))
         /\ trigger = "take_profit" => 100 * (quoted - Spend) >= TakeProfitPct * Spend

LEMMA InitInv == Init => TradeInv
BY InitTyped DEF Init, TradeInv, Accepted, Bought

LEMMA StepInv == TradeInv /\ [Next]_vars => TradeInv'
<1> SUFFICES ASSUME TradeInv, [Next]_vars PROVE TradeInv'
  OBVIOUS
<1> USE DEF Accepted, Bought
<1>0. TypeOK /\ TypeOK'
  BY StepTyped DEF TradeInv
<1>1. CASE Assess
  <2>1. /\ entry' = Seen /\ source' = source
        /\ IF TooCostly(Torn(Seen)) THEN pc' = "rejected"
           ELSE pc' = "signal" /\ tokensOut' = EntryTokens(Torn(Seen))
    BY <1>1 DEF Assess, constVars
  <2>2. pc' \in Accepted => ~TooCostly(Torn(entry))' /\ tokensOut' = EntryTokens(Torn(entry))'
    BY <2>1 DEF TooCostly, EntryTokens, Torn
  <2> QED BY <1>0, <2>1, <2>2 DEF TradeInv
<1>2. CASE Check
  <2>1. /\ window' = Seen /\ pc' \in {"open", "selling"} /\ pc \in {"open", "check"}
        /\ quoted' = Worth(tokensIn, Torn(Seen)) /\ trigger' = Exit(quoted')
        /\ UNCHANGED <<source, entry, tokensOut, tokensIn>>
    BY <1>2 DEF Check, constVars, walletVars
  <2>2. quoted' = Worth(tokensIn, Torn(window))'
    BY <2>1 DEF Worth, Torn
  <2>3. trigger' = "take_profit" => 100 * (quoted' - Spend) >= TakeProfitPct * Spend
    BY <2>1, Zenon DEF Exit
  <2> QED BY <1>0, <2>1, <2>2, <2>3 DEF TradeInv, Torn, TooCostly, EntryTokens
<1>3. CASE ReadBase \/ ReadFails \/ EnterSimulated \/ SubmitBuy \/ RaydiumFills \/ PumpFills \/ BuyDies
           \/ SellSimulated \/ SellFills \/ SellDies
  <2>1. /\ UNCHANGED <<source, entry, tokensOut>>
        /\ pc' \in Accepted => pc \in Accepted
        /\ pc' # "selling"
    BY <1>3 DEF ReadBase, ReadFails, EnterSimulated, SubmitBuy, RaydiumFills, PumpFills, BuyDies,
                SellSimulated, SellFills, SellDies, constVars, walletVars
  <2> QED BY <1>0, <2>1 DEF TradeInv, Torn, TooCostly, EntryTokens
<1>4. CASE PoolMoves \/ Elapse \/ UNCHANGED vars
  <2>1. UNCHANGED <<source, pc, window, entry, tokensOut, tokensIn, trigger, quoted>>
    BY <1>4 DEF PoolMoves, Elapse, vars, constVars, walletVars, saleVars
  <2> QED BY <1>0, <2>1 DEF TradeInv, Torn, TooCostly, EntryTokens, Worth
<1> QED BY <1>1, <1>2, <1>3, <1>4 DEF Next

\* At each place the trade carries the numbers it was given (process, executeBuy and
\* checkPosition), for every word, all fees and all reserves.
LEMMA TradeKeepsNumbers == Spec => []TradeInv
BY InitInv, StepInv, PTL DEF Spec

-----------------------------------------------------------------------------
(* Quotes from torn reads *)

\* Reserves read at two moments of a traded pool quote no more than one of the two.
LEMMA TornBelow ==
    ASSUME NEW a \in Nat,
           NEW ri1 \in Nat, NEW ro1 \in Nat, NEW ri2 \in Nat, NEW ro2 \in Nat,
           ri1 > 0, ri2 > 0,
           (ri1 <= ri2 /\ ro2 <= ro1) \/ (ri2 <= ri1 /\ ro1 <= ro2)
    PROVE  \/ SwapOut(a, ri1, ro2) <= SwapOut(a, ri1, ro1)
           \/ SwapOut(a, ri1, ro2) <= SwapOut(a, ri2, ro2)
<1>1. CASE ro2 <= ro1
  BY <1>1, SwapMonotone
<1>2. CASE ri2 <= ri1
  BY <1>2, SwapMonotone
<1> QED BY <1>1, <1>2

LEMMA OppositeMoves ==
    ASSUME NEW p \in Reserves, NEW q \in Reserves, AlongCurve(p, q)
    PROVE  \/ p.base <= q.base /\ q.quote <= p.quote
           \/ q.base <= p.base /\ p.quote <= q.quote
<1>1. p.base \in Nat /\ p.quote \in Nat /\ q.base \in Nat /\ q.quote \in Nat
  BY DEF Reserves
<1>2. (p.base < q.base <=> q.quote < p.quote) /\ (q.base < p.base <=> p.quote < q.quote)
  BY DEF AlongCurve
<1> QED BY <1>1, <1>2

\* The monitor never sees more than the better of its two moments was worth.
LEMMA WorthBelow ==
    ASSUME NEW n \in Nat, NEW w \in Windows, AlongCurve(w.atBase, w.atQuote),
           source # "pump_fun" => DenominatorFits(n, w.atBase.base)
    PROVE  \E x \in Moments(w) : Worth(n, Torn(w)) <= HonestWorth(n, x)
<1> DEFINE p == w.atBase
           q == w.atQuote
<1>1. /\ p \in Reserves /\ q \in Reserves /\ p \in Moments(w) /\ q \in Moments(w)
      /\ Torn(w) = [base |-> p.base, quote |-> q.quote]
      /\ p.base \in Nat /\ p.quote \in Nat /\ q.base \in Nat /\ q.quote \in Nat
  BY DEF Windows, Moments, Torn, Reserves
<1>2. AlongCurve(p, q) /\ (source # "pump_fun" => DenominatorFits(n, p.base))
  OBVIOUS
<1> HIDE DEF p, q
<1>3. CASE source = "pump_fun"
  <2>1. Worth(n, Torn(w)) = pumpFunSellQuote(q.quote, n) /\ HonestWorth(n, q) = pumpFunSellQuote(q.quote, n)
    BY <1>1, <1>3 DEF Worth, HonestWorth
  <2>2. pumpFunSellQuote(q.quote, n) \in Nat
    BY <1>1, PumpTypes
  <2> QED BY <1>1, <2>1, <2>2
<1>4. CASE source # "pump_fun"
  <2>1. Worth(n, Torn(w)) = cpAmountOut(n, p.base, q.quote)
    BY <1>1, <1>4 DEF Worth
  <2>2. CASE p.base = 0 \/ q.quote = 0
    <3>1. Drained(p)
      BY <1>2, <2>2 DEF AlongCurve, Drained
    <3>2. HonestWorth(n, p) = 0
      BY <1>4, <3>1 DEF HonestWorth
    <3>3. Worth(n, Torn(w)) = 0
      BY <2>1, <2>2, Zenon DEF cpAmountOut
    <3> QED BY <1>1, <3>2, <3>3
  <2>3. CASE p.base # 0 /\ q.quote # 0
    <3>1. ~Drained(p) /\ ~Drained(q) /\ p.base > 0 /\ q.base > 0
      BY <1>1, <1>2, <2>3 DEF AlongCurve, Drained
    <3>2. /\ HonestWorth(n, p) = SwapOut(n, p.base, p.quote)
          /\ HonestWorth(n, q) = SwapOut(n, q.base, q.quote)
      BY <1>4, <3>1 DEF HonestWorth
    <3>3. Worth(n, Torn(w)) <= SwapOut(n, p.base, q.quote)
      BY <1>1, <1>2, <1>4, <2>1, <3>1, CodeBelowFormula
    <3>4. \/ SwapOut(n, p.base, q.quote) <= SwapOut(n, p.base, p.quote)
          \/ SwapOut(n, p.base, q.quote) <= SwapOut(n, q.base, q.quote)
      BY <1>1, <1>2, <3>1, OppositeMoves, TornBelow
    <3>5. /\ Worth(n, Torn(w)) \in Nat /\ SwapOut(n, p.base, q.quote) \in Nat
          /\ SwapOut(n, p.base, p.quote) \in Nat /\ SwapOut(n, q.base, q.quote) \in Nat
      <4>c. cpAmountOut(n, p.base, q.quote) \in Nat
        BY <1>1, SwapType
      <4>1. Worth(n, Torn(w)) \in Nat
        BY <2>1, <4>c, Zenon
      <4>2. /\ SwapOut(n, p.base, q.quote) \in 0..q.quote
            /\ SwapOut(n, p.base, p.quote) \in 0..p.quote
            /\ SwapOut(n, q.base, q.quote) \in 0..q.quote
        BY <1>1, <3>1, SwapBelowReserve
      <4> QED BY <1>1, <4>1, <4>2
    <3>6. Worth(n, Torn(w)) <= HonestWorth(n, p) \/ Worth(n, Torn(w)) <= HonestWorth(n, q)
      BY <3>2, <3>3, <3>4, <3>5
    <3> QED BY <1>1, <3>6, Zenon
  <2> QED BY <2>2, <2>3
<1> QED BY <1>3, <1>4

\* Nor does the analyzer expect more tokens than one of its moments offered.
LEMMA TokensBelow ==
    ASSUME NEW w \in Windows, AlongCurve(w.atBase, w.atQuote),
           source # "pump_fun" => DenominatorFits(Spend, w.atQuote.quote)
    PROVE  \E e \in Moments(w) : EntryTokens(Torn(w)) <= HonestTokens(e)
<1> DEFINE p == w.atBase
           q == w.atQuote
<1>1. /\ p \in Reserves /\ q \in Reserves /\ p \in Moments(w) /\ q \in Moments(w)
      /\ Torn(w) = [base |-> p.base, quote |-> q.quote]
      /\ p.base \in Nat /\ p.quote \in Nat /\ q.base \in Nat /\ q.quote \in Nat
      /\ Spend \in Nat
  BY Settings DEF Windows, Moments, Torn, Reserves
<1>2. AlongCurve(p, q) /\ (source # "pump_fun" => DenominatorFits(Spend, q.quote))
  OBVIOUS
<1> HIDE DEF p, q
<1>3. CASE source = "pump_fun"
  <2>1. EntryTokens(Torn(w)) = pumpTokensOut(q.quote, Spend) /\ HonestTokens(q) = pumpTokensOut(q.quote, Spend)
    BY <1>1, <1>3 DEF EntryTokens, HonestTokens
  <2>2. pumpTokensOut(q.quote, Spend) \in Nat
    BY <1>1, PumpTypes
  <2> QED BY <1>1, <2>1, <2>2
<1>4. CASE source # "pump_fun"
  <2>1. EntryTokens(Torn(w)) = quoteEntry(p.base, q.quote, Spend)
    BY <1>1, <1>4 DEF EntryTokens
  <2>2. CASE p.base = 0 \/ q.quote = 0
    <3>1. Drained(p)
      BY <1>2, <2>2 DEF AlongCurve, Drained
    <3>2. HonestTokens(p) = 0
      BY <1>4, <3>1 DEF HonestTokens
    <3>3. EntryTokens(Torn(w)) = 0
      BY <2>1, <2>2 DEF quoteEntry
    <3> QED BY <1>1, <3>2, <3>3
  <2>3. CASE p.base # 0 /\ q.quote # 0
    <3>1. ~Drained(p) /\ ~Drained(q) /\ p.quote > 0 /\ q.quote > 0
      BY <1>1, <1>2, <2>3 DEF AlongCurve, Drained
    <3>2. /\ HonestTokens(p) = SwapOut(Spend, p.quote, p.base)
          /\ HonestTokens(q) = SwapOut(Spend, q.quote, q.base)
      BY <1>4, <3>1 DEF HonestTokens
    <3>3. EntryTokens(Torn(w)) = cpAmountOut(Spend, q.quote, p.base)
      BY <2>1, <2>3 DEF quoteEntry
    <3>4. EntryTokens(Torn(w)) <= SwapOut(Spend, q.quote, p.base)
      BY <1>1, <1>2, <1>4, <3>1, <3>3, CodeBelowFormula
    <3>5. \/ SwapOut(Spend, q.quote, p.base) <= SwapOut(Spend, p.quote, p.base)
          \/ SwapOut(Spend, q.quote, p.base) <= SwapOut(Spend, q.quote, q.base)
      BY <1>1, <1>2, <3>1, OppositeMoves, TornBelow
    <3>6. /\ EntryTokens(Torn(w)) \in Nat /\ SwapOut(Spend, q.quote, p.base) \in Nat
          /\ SwapOut(Spend, p.quote, p.base) \in Nat /\ SwapOut(Spend, q.quote, q.base) \in Nat
      <4>c. cpAmountOut(Spend, q.quote, p.base) \in Nat
        BY <1>1, SwapType
      <4>1. EntryTokens(Torn(w)) \in Nat
        BY <3>3, <4>c, Zenon
      <4>2. /\ SwapOut(Spend, q.quote, p.base) \in 0..p.base
            /\ SwapOut(Spend, p.quote, p.base) \in 0..p.base
            /\ SwapOut(Spend, q.quote, q.base) \in 0..q.base
        BY <1>1, <3>1, SwapBelowReserve
      <4> QED BY <1>1, <4>1, <4>2
    <3>7. EntryTokens(Torn(w)) <= HonestTokens(p) \/ EntryTokens(Torn(w)) <= HonestTokens(q)
      BY <3>2, <3>4, <3>5, <3>6
    <3> QED BY <1>1, <3>7, Zenon
  <2> QED BY <2>2, <2>3
<1> QED BY <1>3, <1>4

-----------------------------------------------------------------------------
(* The properties *)

LEMMA HonestTypes ==
    ASSUME TypeOK, NEW n \in Nat
    PROVE  /\ \A x \in Moments(window) : HonestWorth(n, x) \in Nat
           /\ \A e \in Moments(entry) : HonestTokens(e) \in Nat
<1>1. \A x \in Moments(window) \cup Moments(entry) : x.base \in Nat /\ x.quote \in Nat
  BY DEF TypeOK, Windows, Reserves, Moments
<1>2. ASSUME NEW x \in Moments(window) PROVE HonestWorth(n, x) \in Nat
  <2>1. CASE source = "pump_fun"
    BY <1>1, <2>1, PumpTypes DEF HonestWorth
  <2>2. CASE source # "pump_fun" /\ Drained(x)
    BY <2>2 DEF HonestWorth
  <2>3. CASE source # "pump_fun" /\ ~Drained(x)
    <3>1. SwapOut(n, x.base, x.quote) \in 0..x.quote
      <4>1. n \in Nat /\ x.base \in Nat /\ x.quote \in Nat /\ x.base > 0
        BY <1>1, <2>3 DEF Drained
      <4> QED BY <4>1, SwapBelowReserve
    <3>2. HonestWorth(n, x) = SwapOut(n, x.base, x.quote)
      BY <2>3, Zenon DEF HonestWorth
    <3>3. x.quote \in Nat
      BY <1>1
    <3> QED BY <3>1, <3>2, <3>3
  <2> QED BY <2>1, <2>2, <2>3
<1>3. ASSUME NEW e \in Moments(entry) PROVE HonestTokens(e) \in Nat
  <2>1. CASE source = "pump_fun"
    BY <1>1, <2>1, Settings, PumpTypes DEF HonestTokens
  <2>2. CASE source # "pump_fun" /\ Drained(e)
    BY <2>2 DEF HonestTokens
  <2>3. CASE source # "pump_fun" /\ ~Drained(e)
    <3>1. SwapOut(Spend, e.quote, e.base) \in 0..e.base
      BY <1>1, <2>3, Settings, SwapBelowReserve
    <3> QED BY <1>1, <2>3, <3>1 DEF HonestTokens
  <2> QED BY <2>1, <2>2, <2>3
<1> QED BY <1>2, <1>3

LEMMA InvTakesRealProfit == TradeInv => ProfitIsReal
<1> SUFFICES ASSUME TradeInv, pc = "selling", trigger = "take_profit",
                    AlongCurve(window.atBase, window.atQuote), CheckFits
             PROVE  \E p \in Moments(window) :
                        100 * (HonestWorth(tokensIn, p) - Spend) >= TakeProfitPct * Spend
  BY DEF ProfitIsReal
<1>1. /\ TypeOK /\ window \in Windows /\ tokensIn \in Nat /\ quoted \in Nat
      /\ quoted = Worth(tokensIn, Torn(window))
      /\ 100 * (quoted - Spend) >= TakeProfitPct * Spend
      /\ source # "pump_fun" => DenominatorFits(tokensIn, window.atBase.base)
  BY DEF TradeInv, TypeOK, Sources, CheckFits, Torn
<1>2. PICK x \in Moments(window) : quoted <= HonestWorth(tokensIn, x)
  BY <1>1, WorthBelow
<1>3. HonestWorth(tokensIn, x) \in Nat
  BY <1>1, HonestTypes
<1>4. Spend \in Nat /\ TakeProfitPct * Spend \in Nat
  BY SettingsAssumption
<1> QED BY <1>1, <1>2, <1>3, <1>4

\* What a purchase on the curve brought sells for no more than it cost, there or where
\* the curve holds less.
LEMMA CurveNeverGains ==
    ASSUME NEW liq \in Nat, NEW low \in Nat, low <= liq,
           NEW a \in Nat, NEW t \in Nat, t <= pumpTokensOut(liq, a)
    PROVE  pumpFunSellQuote(low, t) <= a
<1> DEFINE M == PumpMul
           D == PumpDen
           K == VirtualSol * VirtualTokens
           rq == VirtualSol + liq
           rl == VirtualSol + low
           n == (a * M) * VirtualSol * VirtualTokens
           d == rq * (rq * D + a * M)
           q == n \div d
<1>1. /\ M \in Nat /\ D \in Nat /\ D > 0 /\ M <= D
      /\ K \in Nat /\ K > 0 /\ VirtualSol \in Nat /\ VirtualTokens \in Nat
      /\ rq \in Nat /\ rl \in Nat /\ rl <= rq /\ rl > 0
  BY FeesAssumption, CurveAssumption
<1>2. a * M \in Nat /\ n = (a * M) * K /\ n \in Nat /\ d \in Nat /\ d > 0
  <2>1. a * M \in Nat
    BY <1>1
  <2>2. n = (a * M) * K /\ n \in Nat
    BY <1>1, <2>1
  <2>3. rq * D \in Nat /\ rq * D > 0
    BY <1>1
  <2>4. rq * D + a * M \in Nat /\ rq * D + a * M > 0
    BY <2>1, <2>3
  <2>5. d \in Nat /\ d > 0
    BY <1>1, <2>4
  <2> QED BY <2>1, <2>2, <2>5
<1>3. q \in Nat /\ q * d <= n /\ t <= q
  BY <1>2, DivDef DEF pumpTokensOut
<1> HIDE DEF q, n
<1>4. t * d <= (a * M) * K
  <2>1. t * d <= q * d
    BY <1>2, <1>3, MulOrder
  <2> QED BY <2>1, <1>2, <1>3
<1>5. (t * (rq * rq)) * D <= (a * M) * K
  <2>1. rq * rq \in Nat /\ (rq * rq) * D \in Nat /\ rq * (a * M) \in Nat
        /\ d = (rq * rq) * D + rq * (a * M)
    BY <1>1, <1>2
  <2>2. t * ((rq * rq) * D) <= t * d
    <3>1. (rq * rq) * D <= d
      BY <2>1
    <3>2. ((rq * rq) * D) * t <= d * t
      BY <1>2, <2>1, <3>1, MulOrder
    <3> QED BY <1>2, <2>1, <3>2
  <2> QED BY <1>4, <2>1, <2>2, <1>1, <1>2
<1> HIDE DEF d, rq, rl, K
<1>6. rl * rl <= rq * rq /\ rl * rl \in Nat /\ rq * rq \in Nat
  <2>1. rl * rl <= rq * rl
    BY <1>1, MulOrder
  <2>2. rl * rq <= rq * rq
    BY <1>1, MulOrder
  <2> QED BY <1>1, <2>1, <2>2
<1> DEFINE u == t * (rl * rl)
           v == t * (rq * rq)
<1>7. u \in Nat /\ v \in Nat /\ u <= v
  <2>1. (rl * rl) * t <= (rq * rq) * t
    BY <1>6, MulOrder
  <2> QED BY <1>6, <2>1
<1> HIDE DEF u, v
<1>8. u * D <= (a * K) * M
  <2>1. u * D <= v * D
    BY <1>1, <1>7, MulOrder
  <2>2. v * D <= (a * M) * K
    BY <1>5 DEF v
  <2>3. (a * M) * K = (a * K) * M
    BY <1>1
  <2> QED BY <1>1, <1>7, <2>1, <2>2, <2>3
<1>9. u <= a * K
  <2>1. a * K \in Nat /\ (a * K) * M <= (a * K) * D
    <3>1. a * K \in Nat
      BY <1>1
    <3>2. M * (a * K) <= D * (a * K)
      BY <1>1, <3>1, MulOrder
    <3> QED BY <1>1, <3>1, <3>2
  <2>2. u * D <= (a * K) * D
    BY <1>1, <1>7, <1>8, <2>1
  <2> SUFFICES ASSUME a * K + 1 <= u PROVE FALSE
    BY <1>7, <2>1
  <2>3. (a * K + 1) * D <= u * D
    BY <1>1, <1>7, <2>1, MulOrder
  <2>4. (a * K + 1) * D = (a * K) * D + D
    BY <1>1, <2>1
  <2> QED BY <1>1, <1>7, <2>1, <2>2, <2>3, <2>4
<1> DEFINE sn == (t * M) * rl * rl
           sd == VirtualSol * VirtualTokens * D + (t * M) * rl
           s == sn \div sd
<1>10. sn = u * M /\ sn \in Nat /\ sd = K * D + (t * M) * rl /\ (t * M) * rl \in Nat
       /\ K * D \in Nat /\ K * D > 0 /\ sd \in Nat /\ sd > 0
  <2>1. t * M \in Nat /\ (t * M) * rl \in Nat
    BY <1>1
  <2>2. sn = u * M
    BY <1>1 DEF u
  <2>3. u * M \in Nat
    BY <1>1, <1>7
  <2>4. K * D \in Nat /\ K * D > 0
    BY <1>1
  <2>5. VirtualSol * VirtualTokens * D = K * D
    BY DEF K
  <2> QED BY <2>1, <2>2, <2>3, <2>4, <2>5
<1>11. sn <= a * sd
  <2>1. u * M <= (a * K) * D
    <3>1. u * M <= (a * K) * M
      BY <1>1, <1>7, <1>9, MulOrder
    <3>2. a * K \in Nat /\ M * (a * K) <= D * (a * K)
      BY <1>1, MulOrder
    <3> QED BY <1>1, <1>7, <3>1, <3>2
  <2>2. a * (K * D) <= a * sd
    <3>1. K * D <= sd
      BY <1>10
    <3>2. (K * D) * a <= sd * a
      BY <1>10, <3>1, MulOrder
    <3> QED BY <1>10, <3>2
  <2>3. (a * K) * D = a * (K * D)
    BY <1>1
  <2> QED BY <1>1, <1>7, <1>10, <2>1, <2>2, <2>3
<1>12. pumpFunSellQuote(low, t) = s
  BY DEF pumpFunSellQuote, rl
<1>13. s \in Nat /\ s * sd <= sn
  BY <1>10, DivDef
<1> HIDE DEF s, sn, sd
<1>14. s <= a
  <2> SUFFICES ASSUME a + 1 <= s PROVE FALSE
    BY <1>13
  <2>1. (a + 1) * sd <= s * sd
    BY <1>10, <1>13, MulOrder
  <2>2. (a + 1) * sd = a * sd + sd /\ a * sd \in Nat
    BY <1>10
  <2> QED BY <1>10, <1>11, <1>13, <2>1, <2>2
<1> QED BY <1>12, <1>14

\* What the analyzer could buy with Spend at e, or less, sells for no more at a moment x
\* that has no more SOL in the pool.
LEMMA NoGainWithoutInflow ==
    ASSUME NEW e \in Reserves, NEW x \in Reserves, AlongCurve(e, x), x.quote <= e.quote,
           NEW t \in Nat, t <= HonestTokens(e)
    PROVE  HonestWorth(t, x) <= Spend
<1>1. /\ e.base \in Nat /\ e.quote \in Nat /\ x.base \in Nat /\ x.quote \in Nat
      /\ Spend \in Nat /\ Spend > 0
  BY Settings DEF Reserves
<1>2. CASE source = "pump_fun"
  <2>1. HonestTokens(e) = pumpTokensOut(e.quote, Spend)
        /\ HonestWorth(t, x) = pumpFunSellQuote(x.quote, t)
    BY <1>2 DEF HonestTokens, HonestWorth
  <2> QED BY <1>1, <2>1, CurveNeverGains
<1>3. CASE source # "pump_fun" /\ Drained(x)
  <2>1. HonestWorth(t, x) = 0
    BY <1>3 DEF HonestWorth
  <2> QED BY <1>1, <2>1
<1>4. CASE source # "pump_fun" /\ ~Drained(x)
  <2>1. ~Drained(e) /\ e.base > 0 /\ e.quote > 0 /\ e.base <= x.base
    BY <1>1, <1>4 DEF AlongCurve, Drained
  <2>2. HonestTokens(e) = SwapOut(Spend, e.quote, e.base)
        /\ HonestWorth(t, x) = SwapOut(t, x.base, x.quote)
    BY <1>4, <2>1 DEF HonestTokens, HonestWorth
  <2>3. SwapOut(t, x.base, x.quote) <= SwapOut(t, e.base, e.quote)
    BY <1>1, <2>1, SwapMonotone
  <2>4. SwapOut(t, e.base, e.quote) <= Spend
    BY <1>1, <2>1, <2>2, RoundTripNeverGains
  <2>5. /\ SwapOut(t, x.base, x.quote) \in 0..x.quote
        /\ SwapOut(t, e.base, e.quote) \in 0..e.quote
    <3>1. x.base > 0
      BY <1>1, <2>1
    <3> QED BY <1>1, <2>1, <3>1, SwapBelowReserve
  <2> QED BY <1>1, <2>2, <2>3, <2>4, <2>5
<1> QED BY <1>2, <1>3, <1>4

LEMMA InvEarnsProfit == TradeInv => ProfitIsEarned
<1> SUFFICES ASSUME TradeInv, pc = "selling", trigger = "take_profit", TakeProfitPct > 0,
                    \A p, q \in Moments(entry) \cup Moments(window) : AlongCurve(p, q),
                    QuoteFits, CheckFits,
                    \A e \in Moments(entry), x \in Moments(window) : ~(e.quote < x.quote)
             PROVE  FALSE
  BY DEF ProfitIsEarned
<1>1. /\ TypeOK /\ entry \in Windows /\ window \in Windows
      /\ tokensOut = EntryTokens(Torn(entry)) /\ tokensOut \in Nat
      /\ tokensIn \in Nat /\ tokensIn <= tokensOut
      /\ quoted = Worth(tokensIn, Torn(window)) /\ quoted \in Nat
      /\ 100 * (quoted - Spend) >= TakeProfitPct * Spend
      /\ source # "pump_fun" => /\ DenominatorFits(Spend, entry.atQuote.quote)
                                /\ DenominatorFits(tokensIn, window.atBase.base)
  BY DEF TradeInv, TypeOK, Accepted, Bought, Sources, QuoteFits, CheckFits, Torn
<1>2. /\ Moments(entry) \subseteq Reserves /\ Moments(window) \subseteq Reserves
      /\ AlongCurve(entry.atBase, entry.atQuote) /\ AlongCurve(window.atBase, window.atQuote)
  BY <1>1 DEF Moments, Windows
<1>3. PICK e \in Moments(entry) : tokensOut <= HonestTokens(e)
  BY <1>1, <1>2, TokensBelow
<1>5. PICK x \in Moments(window) : quoted <= HonestWorth(tokensIn, x)
  BY <1>1, <1>2, WorthBelow
<1>6. e \in Reserves /\ x \in Reserves /\ AlongCurve(e, x) /\ x.quote <= e.quote
  <2>1. e \in Reserves /\ x \in Reserves /\ AlongCurve(e, x) /\ ~(e.quote < x.quote)
    BY <1>2
  <2> QED BY <2>1 DEF Reserves
<1>7. HonestTokens(e) \in Nat /\ HonestWorth(tokensIn, x) \in Nat
  BY <1>1, HonestTypes
<1>8. tokensIn <= HonestTokens(e)
  BY <1>1, <1>3, <1>7
<1>9. HonestWorth(tokensIn, x) <= Spend
  BY <1>1, <1>6, <1>8, NoGainWithoutInflow
<1>10. Spend \in Nat /\ Spend > 0 /\ TakeProfitPct \in Nat /\ TakeProfitPct > 0
  BY SettingsAssumption
<1>11. TakeProfitPct * Spend > 0
  BY <1>10
<1> QED BY <1>1, <1>5, <1>7, <1>9, <1>10, <1>11

\* Where there is something to pay from, a swap leaves some of it.
LEMMA SwapLeavesSome ==
    ASSUME NEW a \in Nat, NEW ri \in Nat, NEW ro \in Nat, ri > 0, ro > 0
    PROVE  SwapOut(a, ri, ro) < ro
<1> DEFINE aF == a * RaydiumMul
           n == a * RaydiumMul * ro
           d == ri * RaydiumDen + a * RaydiumMul
           q == n \div d
<1>1. aF \in Nat /\ n \in Nat /\ n = aF * ro /\ d \in Nat /\ d > 0
  BY SwapParts
<1>2. aF < d
  BY <1>1, Fees
<1>3. q \in Nat /\ q * d <= n
  BY <1>1, DivDef
<1>4. SwapOut(a, ri, ro) = q
  BY DEF SwapOut
<1> HIDE DEF q, n, d, aF
<1>5. q < ro
  <2> SUFFICES ASSUME ro <= q PROVE FALSE
    BY <1>3
  <2>1. ro * d <= q * d
    BY <1>1, <1>3, MulOrder
  <2>2. (aF + 1) * ro <= d * ro
    BY <1>1, <1>2, MulOrder
  <2>3. (aF + 1) * ro = aF * ro + ro
    BY <1>1
  <2> QED BY <1>1, <1>3, <2>1, <2>2, <2>3
<1> QED BY <1>4, <1>5

\* The analyzer never finds a round trip cheaper than the chain makes it.
LEMMA LossNotUnderstated ==
    ASSUME NEW p \in Reserves, ~Drained(p),
           DenominatorFits(Spend, p.quote), DenominatorFits(0, p.base)
    PROVE  HonestLoss(p) \in Int /\ HonestLoss(p) <= simulateRoundTrip(p.base, p.quote, Spend)
<1> DEFINE B == p.base
           Q == p.quote
           t == SwapOut(Spend, Q, B)
           back == SwapOut(t, B - t, Q + Spend)
           u == cpAmountOut(Spend, Q, B)
           sold == cpAmountOut(u, B - u, Q + Spend)
<1>1. /\ B \in Nat /\ Q \in Nat /\ B > 0 /\ Q > 0 /\ Spend \in Nat /\ Spend > 0
      /\ DenominatorFits(Spend, Q) /\ DenominatorFits(0, B)
  BY Settings DEF Reserves, Drained
<1>2. HonestLoss(p) = Spend - back
  BY DEF HonestLoss
<1> HIDE DEF B, Q
<1>3. B * RaydiumDen < Word /\ Q + Spend < Word
  <2>1. B * RaydiumDen \in Nat /\ 0 * RaydiumMul = 0
    BY <1>1, Fees
  <2>2. Q <= Q * RaydiumDen /\ Spend <= Spend * RaydiumMul
    BY <1>1, Fees
  <2>3. Q * RaydiumDen \in Nat /\ Spend * RaydiumMul \in Nat
    BY <1>1, Fees
  <2> QED BY <1>1, <2>1, <2>2, <2>3, Fees DEF DenominatorFits
<1>4. t \in Nat /\ t < B
  <2>1. t \in 0..B
    BY <1>1, SwapBelowReserve
  <2>2. t < B
    BY <1>1, SwapLeavesSome
  <2> QED BY <1>1, <2>1, <2>2
<1>5. u \in Nat /\ u <= t
  BY <1>1, SwapType, CodeBelowFormula
<1>6. back \in Nat /\ back <= Spend
  <2>1. back \in 0..(Q + Spend)
    <3>1. t \in Nat /\ B - t \in Nat /\ B - t > 0 /\ Q + Spend \in Nat
      BY <1>1, <1>4
    <3> HIDE DEF t
    <3> QED BY <3>1, SwapBelowReserve
  <2>2. back <= Spend
    <3>1. t <= SwapOut(Spend, Q, B) /\ t <= B /\ B - t > 0
      BY <1>1, <1>4
    <3> QED BY <1>1, <1>4, <3>1, RoundTripNeverGains
  <2> QED BY <1>1, <2>1, <2>2
<1> HIDE DEF t, u
<1>7. sold \in Nat /\ sold <= back
  <2>1. B - u \in Nat /\ B - u > 0 /\ B - t \in Nat /\ B - t > 0 /\ B - t <= B - u
        /\ Q + Spend \in Nat
    BY <1>1, <1>4, <1>5
  <2>2. DenominatorFits(u, B - u)
    <3>1. u * RaydiumMul <= u * RaydiumDen
      BY <1>5, Fees
    <3>2. (B - u) * RaydiumDen + u * RaydiumDen = B * RaydiumDen
      BY <1>1, <1>5, <2>1, Fees
    <3>3. /\ (B - u) * RaydiumDen \in Nat /\ u * RaydiumDen \in Nat /\ u * RaydiumMul \in Nat
          /\ B * RaydiumDen \in Nat
      BY <1>1, <1>5, <2>1, Fees
    <3> QED BY <1>3, <3>1, <3>2, <3>3, Fees DEF DenominatorFits
  <2>3. sold \in Nat /\ sold <= SwapOut(u, B - u, Q + Spend)
    BY <1>5, <2>1, <2>2, SwapType, CodeBelowFormula
  <2>4. SwapOut(u, B - u, Q + Spend) <= back
    BY <1>4, <1>5, <2>1, SwapMonotone
  <2>5. SwapOut(u, B - u, Q + Spend) \in Nat
    BY <1>5, <2>1, SwapBelowReserve
  <2> HIDE DEF sold, back
  <2> QED BY <1>6, <2>3, <2>4, <2>5
<1>8. (B - u) % Word = B - u /\ (Q + Spend) % Word = Q + Spend
  <2>1. B <= B * RaydiumDen /\ B * RaydiumDen \in Nat
    BY <1>1, Fees
  <2>2. /\ B - u \in Nat /\ B - u < Word /\ Q + Spend \in Nat
    BY <1>1, <1>3, <1>4, <1>5, <2>1, Fees
  <2> QED BY <1>3, <2>2, Fees, SmallMod
<1>9. simulateRoundTrip(B, Q, Spend) = IF u = 0 THEN Spend ELSE (Spend - sold) % Word
  BY <1>1, <1>8 DEF simulateRoundTrip, u
<1> HIDE DEF sold, back
<1>10. (Spend - sold) % Word = Spend - sold
  <2>1. Spend - sold \in Nat /\ Spend - sold < Word
    BY <1>1, <1>3, <1>6, <1>7, Fees
  <2> QED BY <2>1, Fees, SmallMod
<1>11. Spend - back <= simulateRoundTrip(B, Q, Spend)
  BY <1>1, <1>6, <1>7, <1>9, <1>10
<1> QED BY <1>1, <1>2, <1>6, <1>11 DEF B, Q

LEMMA InvBoundsFriction == TradeInv => FrictionIsBounded
<1> SUFFICES ASSUME TradeInv, source = "raydium", MaxFrictionPct \in 1..99,
                    pc \in Accepted, QuoteFits
             PROVE  ~Drained(Torn(entry)) /\ 100 * HonestLoss(Torn(entry)) <= MaxFrictionPct * Spend
  BY DEF FrictionIsBounded, Accepted
<1> DEFINE p == Torn(entry)
           loss == simulateRoundTrip(p.base, p.quote, Spend)
<1>1. /\ p \in Reserves /\ ~TooCostly(p)
      /\ DenominatorFits(Spend, p.quote) /\ DenominatorFits(0, p.base)
  BY DEF TradeInv, TypeOK, Windows, Torn, Reserves, QuoteFits
<1>2. TooCostly(p) <=> 100 * loss > MaxFrictionPct * Spend
  BY DEF TooCostly
<1> HIDE DEF p
<1>3. Spend \in Nat /\ Spend > 0 /\ MaxFrictionPct * Spend \in Nat
  BY SettingsAssumption
<1>4. ~Drained(p)
  <2> SUFFICES ASSUME Drained(p) PROVE TooCostly(p)
    BY <1>1
  <2>1. loss = Spend
    BY DEF simulateRoundTrip, Drained
  <2>2. MaxFrictionPct * Spend <= 99 * Spend
    BY <1>3, MulOrder
  <2> QED BY <1>2, <1>3, <2>1, <2>2
<1>5. HonestLoss(p) \in Int /\ HonestLoss(p) <= loss
  BY <1>1, <1>4, LossNotUnderstated
<1>6. loss \in Int
  <2>1. p.base \in Nat /\ p.quote \in Nat
    BY <1>1 DEF Reserves
  <2> QED BY <1>3, <2>1, LossType
<1> HIDE DEF loss
<1> QED BY <1>1, <1>2, <1>3, <1>4, <1>5, <1>6 DEF p

\* While the pool is only traded in, a profit is taken only where the reserves of a real
\* moment call for it, however often the numerators wrap (readVaultBalances,
\* checkPosition).
THEOREM ProfitsAreReal == Spec => []ProfitIsReal
BY InvTakesRealProfit, TradeKeepsNumbers, PTL

\* While the pool is only traded in, a simulated position takes profit only if somebody
\* paid SOL into the pool since the analyzer read it (executeBuy, checkPosition).
THEOREM ProfitsAreEarned == Spec => []ProfitIsEarned
BY InvEarnsProfit, TradeKeepsNumbers, PTL

\* No signal loses more than MaxFrictionPct of Spend on the chain (process,
\* simulateRoundTrip).
THEOREM FrictionStaysBounded == Spec => []FrictionIsBounded
BY InvBoundsFriction, TradeKeepsNumbers, PTL
=============================================================================
