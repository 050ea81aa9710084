------------------------------- MODULE Pricing -------------------------------
(***************************************************************************)
(* What the analyzer and the executor compute from the reserves of a pool:  *)
(* swaps, round trips and tips. Raydium is computed in uint64, which wraps  *)
(* at Word. The Pump.fun curve is computed in float64; here each formula is  *)
(* the exact rational it stands for, rounded down where the code converts   *)
(* it to an integer. Amounts are lamports and raw token units.              *)
(***************************************************************************)
EXTENDS Integers

CONSTANTS
    Word,                   \* the size of uint64, 2^64
    RaydiumMul, RaydiumDen, \* the fee of 0.25%: 9975 of 10000
    PumpMul, PumpDen,       \* the fee of 1%: 9900 of 10000
    VirtualSol,             \* 30 SOL
    VirtualTokens,          \* 1,073,000,000 tokens
    BaseTip,                \* 0.001 SOL
    TenSol                  \* the liquidity at which the tip begins to grow

ASSUME WordAssumption == Word \in Nat \ {0}
ASSUME FeesAssumption ==
    /\ RaydiumDen \in Nat /\ RaydiumMul \in 1..RaydiumDen
    /\ PumpDen \in Nat /\ PumpMul \in 1..PumpDen
ASSUME CurveAssumption ==
    /\ VirtualSol \in Nat \ {0} /\ VirtualTokens \in Nat \ {0}
    /\ BaseTip \in Nat /\ TenSol \in Nat \ {0}

-----------------------------------------------------------------------------
(* Raydium *)

\* The swap as the constant-product formula states it and the chain performs it.
SwapOut(amountIn, reserveIn, reserveOut) ==
    (amountIn * RaydiumMul * reserveOut) \div (reserveIn * RaydiumDen + amountIn * RaydiumMul)

\* The swap as the analyzer and the executor compute it.
cpAmountOut(amountIn, reserveIn, reserveOut) ==
    LET inWithFee   == (amountIn * RaydiumMul) % Word
        numerator   == (inWithFee * reserveOut) % Word
        denominator == (reserveIn * RaydiumDen + inWithFee) % Word
    IN IF reserveIn = 0 \/ reserveOut = 0 \/ denominator = 0
       THEN 0
       ELSE numerator \div denominator

\* The swap's denominator fits the word. Its numerator practically never does.
DenominatorFits(amountIn, reserveIn) == reserveIn * RaydiumDen + amountIn * RaydiumMul < Word

\* Fault: nothing to buy counts as nothing lost.
simulateRoundTripNone(reserveBase, reserveQuote, amountIn) ==
    LET tokens == cpAmountOut(amountIn, reserveQuote, reserveBase)
        back   == cpAmountOut(tokens, (reserveBase - tokens) % Word,
                                      (reserveQuote + amountIn) % Word)
    IN IF reserveBase = 0 \/ reserveQuote = 0 \/ tokens = 0
       THEN 0
       ELSE (amountIn - back) % Word

\* The lamports a buy followed by a sale loses; everything if there is nothing to
\* buy. The code divides by amountIn; its clamp at 0 is dead, the loss being a
\* difference of uint64.
simulateRoundTrip(reserveBase, reserveQuote, amountIn) ==
    LET tokens == cpAmountOut(amountIn, reserveQuote, reserveBase)
        back   == cpAmountOut(tokens, (reserveBase - tokens) % Word,
                                      (reserveQuote + amountIn) % Word)
    IN IF reserveBase = 0 \/ reserveQuote = 0 \/ tokens = 0
       THEN amountIn
       ELSE (amountIn - back) % Word

\* The tokens quoteEntry offers for amountIn.
quoteEntry(reserveBase, reserveQuote, amountIn) ==
    IF reserveBase = 0 \/ reserveQuote = 0
    THEN 0
    ELSE cpAmountOut(amountIn, reserveQuote, reserveBase)

-----------------------------------------------------------------------------
(* Pump.fun: with liq lamports in the curve its reserves are VirtualSol + liq *)
(* and VirtualSol * VirtualTokens / (VirtualSol + liq).                       *)

\* Tokens for amountIn lamports (pumpFunSimulate, forward swap).
pumpTokensOut(liq, amountIn) ==
    LET rq    == VirtualSol + liq
        inFee == amountIn * PumpMul
    IN (inFee * VirtualSol * VirtualTokens) \div (rq * (rq * PumpDen + inFee))

\* Fault: the fee's denominator is missing on one side.
pumpFunSellQuoteUnscaled(liq, tokens) ==
    LET rq    == VirtualSol + liq
        inFee == tokens * PumpMul
    IN (inFee * rq * rq) \div (VirtualSol * VirtualTokens + inFee * rq)

\* Lamports for tokens (pumpFunSellQuote).
pumpFunSellQuote(liq, tokens) ==
    LET rq    == VirtualSol + liq
        inFee == tokens * PumpMul
    IN (inFee * rq * rq) \div (VirtualSol * VirtualTokens * PumpDen + inFee * rq)

\* What pumpFunSimulate's reverse swap returns is the fraction Num / Den: the token
\* reserve cancels, and the tokens are not rounded between the two swaps.
pumpBackNum(liq, amountIn) == amountIn * PumpMul * PumpMul * (VirtualSol + liq + amountIn)
pumpBackDen(liq, amountIn) ==
    PumpDen * PumpDen * (VirtualSol + liq) + amountIn * PumpMul * PumpMul

\* The tip grows with the liquidity, up to five times the base.
calcTipLamports(liq) ==
    LET scaled == (BaseTip * liq) \div TenSol
    IN IF scaled < BaseTip THEN BaseTip
       ELSE IF scaled > 5 * BaseTip THEN 5 * BaseTip
       ELSE scaled
=============================================================================
