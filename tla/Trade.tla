-------------------------------- MODULE Trade --------------------------------
(***************************************************************************)
(* The numbers of one trade, from the analyzer's quote to the sale.          *)
(*                                                                         *)
(* A Raydium pool is read with one RPC call per vault (readVaultBalances,   *)
(* in analyzer.go and executor.go alike), a Pump.fun curve with one call.   *)
(* The pool moves between the calls, between the quote and the buy, and     *)
(* between the check that decides on an exit and the sale. Goroutines,      *)
(* Redis and records are the subject of Analyzer and Executor; here one      *)
(* check runs at a time, every bundle's fate becomes known, and the kill    *)
(* switch is off.                                                          *)
(***************************************************************************)
EXTENDS Pricing

CONSTANTS
    Pools,          \* the reserves other traders may bring the pool to
    Spend,          \* cfg.MaxBuyLamports()
    MaxFrictionPct, TakeProfitPct, StopLossPct, SlippagePct

ASSUME PoolsAssumption == Pools # {} /\ Pools \subseteq [base : Nat, quote : Nat]
ASSUME SettingsAssumption ==
    /\ Spend \in Nat \ {0}
    /\ MaxFrictionPct \in Nat /\ TakeProfitPct \in Nat /\ StopLossPct \in Nat
    /\ SlippagePct \in 0..100

VARIABLES
    source, simulation,     \* of the token; cfg.SimulationMode
    pool,                   \* the reserves on the chain
    pc,                     \* where the trade is
    window,                 \* the pool at the last read of the base and of the quote vault
    entry,                  \* the window the analyzer decided on
    tokensOut,              \* TradeSignal.TokensOut
    tokensIn,               \* Position.TokensIn
    held,                   \* tokens in the wallet
    trigger,                \* the exit a check decided on
    quoted, got,            \* its quote, and what the sale brought
    late                    \* the position is older than five minutes

vars == <<source, simulation, pool, pc, window, entry, tokensOut, tokensIn, held,
          trigger, quoted, got, late>>
constVars == <<source, simulation>>
walletVars == <<tokensIn, held, late>>
saleVars == <<trigger, quoted, got>>

-----------------------------------------------------------------------------
Sources == {"raydium", "pump_fun"}

\* All liquidity has been withdrawn, of one side or both.
Drained(p) == p.base = 0 \/ p.quote = 0

\* What two reads return, each of its own moment.
Torn(w) == [base |-> w.atBase.base, quote |-> w.atQuote.quote]

\* The tokens the analyzer expects for Spend.
EntryTokens(p) ==
    IF source = "pump_fun" THEN pumpTokensOut(p.quote, Spend)
    ELSE quoteEntry(p.base, p.quote, Spend)

\* Fault: the reserves change places.
WorthSwapped(tokens, p) ==
    IF source = "pump_fun" THEN pumpFunSellQuote(p.quote, tokens)
    ELSE cpAmountOut(tokens, p.quote, p.base)

\* The lamports checkPosition expects for the tokens.
Worth(tokens, p) ==
    IF source = "pump_fun" THEN pumpFunSellQuote(p.quote, tokens)
    ELSE cpAmountOut(tokens, p.base, p.quote)

\* The friction filter. On Pump.fun the tips of both bundles count as well.
TooCostly(p) ==
    /\ MaxFrictionPct > 0
    /\ IF source = "pump_fun"
       THEN LET num == pumpBackNum(p.quote, Spend)
                den == pumpBackDen(p.quote, Spend)
            IN 100 * ((Spend + 2 * calcTipLamports(p.quote)) * den - num)
                 > MaxFrictionPct * Spend * den
       ELSE 100 * simulateRoundTrip(p.base, p.quote, Spend) > MaxFrictionPct * Spend

\* The exit switch of checkPosition.
Exit(quote) ==
    IF 100 * (quote - Spend) >= TakeProfitPct * Spend THEN "take_profit"
    ELSE IF 100 * (quote - Spend) <= -(StopLossPct * Spend) THEN "stop_loss"
    ELSE IF late THEN "timeout"
    ELSE "none"

\* minOut of buildRaydiumSwap.
MinOut == (tokensOut * (100 - SlippagePct)) \div 100

Init ==
    /\ source \in Sources /\ simulation \in BOOLEAN
    /\ pool \in Pools
    /\ pc = "detected"
    /\ window = [atBase |-> pool, atQuote |-> pool]
    /\ entry = window
    /\ tokensOut = 0 /\ tokensIn = 0 /\ held = 0
    /\ trigger = "none" /\ quoted = 0 /\ got = 0
    /\ late = FALSE

-----------------------------------------------------------------------------
(* Reading *)

\* The first of two RPC calls: by the analyzer, then by each check of a position.
ReadBase ==
    /\ source = "raydium"
    /\ \/ pc = "detected" /\ pc' = "read"
       \/ pc = "open" /\ pc' = "check"
    /\ window' = [window EXCEPT !.atBase = pool]
    /\ UNCHANGED <<constVars, pool, entry, tokensOut, walletVars, saleVars>>

\* The second fails: the analyzer starts over, the check returns.
ReadFails ==
    /\ \/ pc = "read" /\ pc' = "detected"
       \/ pc = "check" /\ pc' = "open"
    /\ UNCHANGED <<constVars, pool, window, entry, tokensOut, walletVars, saleVars>>

\* The window once the last read is done: a curve is read in one call.
Seen ==
    IF source = "pump_fun"
    THEN [atBase |-> pool, atQuote |-> pool]
    ELSE [window EXCEPT !.atQuote = pool]

\* The analyzer has its reserves: friction filter, then the signal. On Pump.fun the
\* liquidity comes with the event.
Assess ==
    /\ pc = IF source = "pump_fun" THEN "detected" ELSE "read"
    /\ window' = Seen /\ entry' = Seen
    /\ IF TooCostly(Torn(Seen))
       THEN pc' = "rejected" /\ UNCHANGED tokensOut
       ELSE pc' = "signal" /\ tokensOut' = EntryTokens(Torn(Seen))
    /\ UNCHANGED <<constVars, pool, walletVars, saleVars>>

-----------------------------------------------------------------------------
(* Buying *)

\* Fault: divided instead of multiplied.
HaircutReversed(tokens) == (tokens * 10) \div 9

\* The haircut of 10% on the analyzer's quote.
Haircut(tokens) == (tokens * 9) \div 10

\* A simulated position opens without a bundle.
EnterSimulated ==
    /\ pc = "signal" /\ simulation
    /\ tokensIn' = Haircut(tokensOut)
    /\ held' = tokensIn'
    /\ pc' = "open"
    /\ UNCHANGED <<constVars, pool, window, entry, tokensOut, saleVars, late>>

SubmitBuy ==
    /\ pc = "signal" /\ ~simulation
    /\ pc' = "buying"
    /\ UNCHANGED <<constVars, pool, window, entry, tokensOut, walletVars, saleVars>>

\* The Raydium program fills at the pool's price, above MinOut. The position carries
\* the quote, not the fill.
RaydiumFills ==
    /\ pc = "buying" /\ source = "raydium"
    /\ ~Drained(pool)
    /\ LET out == SwapOut(Spend, pool.quote, pool.base) IN
         /\ out >= MinOut
         /\ held' = out
         /\ pool' = [base |-> pool.base - out, quote |-> pool.quote + Spend]
    /\ tokensIn' = tokensOut
    /\ pc' = "open"
    /\ UNCHANGED <<constVars, window, entry, tokensOut, saleVars, late>>

\* The Pump.fun program delivers the tokens asked for, if they cost at most Spend.
PumpFills ==
    /\ pc = "buying" /\ source = "pump_fun"
    /\ \E cost \in 0..Spend :
         /\ pumpTokensOut(pool.quote, cost) >= tokensOut
         /\ \A less \in 0..cost - 1 : pumpTokensOut(pool.quote, less) < tokensOut
         /\ pool' = [pool EXCEPT !.quote = @ + cost]
    /\ held' = tokensOut /\ tokensIn' = tokensOut
    /\ pc' = "open"
    /\ UNCHANGED <<constVars, window, entry, tokensOut, saleVars, late>>

BuyDies ==
    /\ pc = "buying"
    /\ pc' = "missed"
    /\ UNCHANGED <<constVars, pool, window, entry, tokensOut, walletVars, saleVars>>

-----------------------------------------------------------------------------
(* Monitoring and selling *)

\* A check has its reserves and decides.
Check ==
    /\ pc = IF source = "pump_fun" THEN "open" ELSE "check"
    /\ window' = Seen
    /\ quoted' = Worth(tokensIn, Torn(Seen))
    /\ trigger' = Exit(quoted')
    /\ pc' = IF trigger' = "none" THEN "open" ELSE "selling"
    /\ UNCHANGED <<constVars, pool, entry, tokensOut, walletVars, got>>

\* In simulation the position closes at the last quote.
SellSimulated ==
    /\ pc = "selling" /\ simulation
    /\ got' = quoted
    /\ pc' = "sold"
    /\ UNCHANGED <<constVars, pool, window, entry, tokensOut, walletVars, trigger, quoted>>

\* The chain sells tokensIn if the wallet holds as many, for whatever they bring:
\* minAmountOut and minSolOutput are 0.
SellFills ==
    /\ pc = "selling" /\ ~simulation
    /\ held >= tokensIn
    /\ source = "raydium" => ~Drained(pool)
    /\ got' = IF source = "pump_fun" THEN pumpFunSellQuote(pool.quote, tokensIn)
              ELSE SwapOut(tokensIn, pool.base, pool.quote)
    /\ held' = held - tokensIn
    /\ pc' = "sold"
    /\ UNCHANGED <<constVars, pool, window, entry, tokensOut, tokensIn, late, trigger, quoted>>

\* Status goes back to "open" for the next tick.
SellDies ==
    /\ pc = "selling" /\ ~simulation
    /\ pc' = "open" /\ trigger' = "none"
    /\ UNCHANGED <<constVars, pool, window, entry, tokensOut, walletVars, quoted, got>>

-----------------------------------------------------------------------------
(* Environment *)

\* Other traders, and whoever adds or removes liquidity.
PoolMoves ==
    /\ pc \notin {"rejected", "missed", "sold"}
    /\ pool' \in Pools
    /\ UNCHANGED <<constVars, pc, window, entry, tokensOut, walletVars, saleVars>>

Elapse ==
    /\ pc \in {"open", "check", "selling"} /\ ~late
    /\ late' = TRUE
    /\ UNCHANGED <<constVars, pool, pc, window, entry, tokensOut, tokensIn, held, saleVars>>

Next ==
    \/ ReadBase \/ ReadFails \/ Assess
    \/ EnterSimulated \/ SubmitBuy \/ RaydiumFills \/ PumpFills \/ BuyDies
    \/ Check \/ SellSimulated \/ SellFills \/ SellDies
    \/ PoolMoves \/ Elapse

Spec == Init /\ [][Next]_vars

\* Ticks come, time passes, reads succeed and bundles settle; a sale the chain would
\* accept again and again lands.
Fairness ==
    /\ WF_vars(ReadBase) /\ WF_vars(Assess) /\ WF_vars(EnterSimulated) /\ WF_vars(Elapse)
    /\ WF_vars(SellSimulated) /\ WF_vars(SellFills \/ SellDies)
    /\ SF_vars(Check) /\ SF_vars(SellFills)

FairSpec == Spec /\ Fairness

-----------------------------------------------------------------------------
(* Properties *)

Reserves == [base : Nat, quote : Nat]
Windows == [atBase : Reserves, atQuote : Reserves]
Bought == {"open", "check", "selling"}

\* Every variable has its type, and a position carries no more than was quoted.
TypeOK ==
    /\ source \in Sources /\ simulation \in BOOLEAN
    /\ pool \in Reserves
    /\ pc \in Bought \cup {"detected", "read", "signal", "buying", "rejected", "missed", "sold"}
    /\ window \in Windows /\ entry \in Windows
    /\ tokensOut \in Nat /\ tokensIn \in Nat /\ held \in Nat
    /\ pc \in Bought => tokensIn <= tokensOut
    /\ trigger \in {"none", "take_profit", "stop_loss", "timeout"}
    /\ quoted \in Nat /\ got \in Nat
    /\ late \in BOOLEAN

\* Between p and q the pool was only traded in: what one reserve gained the other
\* lost, and neither was emptied.
AlongCurve(p, q) ==
    /\ p.base = 0 <=> q.base = 0
    /\ p.quote = 0 <=> q.quote = 0
    /\ p.base < q.base <=> q.quote < p.quote
    /\ q.base < p.base <=> p.quote < q.quote

Moments(w) == {w.atBase, w.atQuote}

\* The denominators the analyzer and a check divide by fit the word: the first always
\* does in the code, the second up to about 1.8 * 10^15 raw units of the token in the
\* pool and the position.
QuoteFits ==
    source = "raydium" =>
        /\ DenominatorFits(Spend, Torn(entry).quote)
        /\ DenominatorFits(0, Torn(entry).base)
CheckFits == source = "raydium" => DenominatorFits(tokensIn, Torn(window).base)

\* What the formulas promise, in exact arithmetic, of reserves the pool really had.
HonestWorth(tokens, p) ==
    IF source = "pump_fun" THEN pumpFunSellQuote(p.quote, tokens)
    ELSE IF Drained(p) THEN 0
    ELSE SwapOut(tokens, p.base, p.quote)
HonestTokens(p) ==
    IF source = "pump_fun" THEN pumpTokensOut(p.quote, Spend)
    ELSE IF Drained(p) THEN 0
    ELSE SwapOut(Spend, p.quote, p.base)

\* A profit is taken at a price the pool had. A check that reads the two vaults of a
\* traded pool at different moments takes a profit only if the reserves of one of the
\* two moments call for it: neither the torn read nor a wrapped numerator makes one
\* (readVaultBalances and the exit switch of checkPosition).
ProfitIsReal ==
    /\ pc = "selling" /\ trigger = "take_profit"
    /\ AlongCurve(window.atBase, window.atQuote) /\ CheckFits
    => \E p \in Moments(window) :
          100 * (HonestWorth(tokensIn, p) - Spend) >= TakeProfitPct * Spend

\* A simulated profit is earned by the market. While the pool is only traded in, a
\* simulated position takes profit only if somebody has since paid SOL into it: no
\* mix of torn reads, wrapped numerators, rounding and fees makes one (the haircut of
\* executeBuy with the quotes of analyzer and monitor).
ProfitIsEarned ==
    /\ simulation /\ pc = "selling" /\ trigger = "take_profit" /\ TakeProfitPct > 0
    /\ \A p, q \in Moments(entry) \cup Moments(window) : AlongCurve(p, q)
    /\ QuoteFits /\ CheckFits
    => \E e \in Moments(entry), x \in Moments(window) : e.quote < x.quote

\* What a buy of Spend and a sale of all it bought lose on a pool nobody else trades in.
HonestLoss(p) ==
    LET tokens == SwapOut(Spend, p.quote, p.base)
    IN Spend - SwapOut(tokens, p.base - tokens, p.quote + Spend)

\* The friction filter filters by friction. A signal's round trip, played on the
\* reserves the analyzer read, loses at most MaxFrictionPct, and one that is rejected
\* would have lost more (simulateRoundTrip against the swaps of the chain).
FrictionIsExact ==
    source = "raydium" /\ MaxFrictionPct \in 1..99 =>
        LET p == Torn(entry) IN
        /\ pc \in Bought \cup {"signal", "buying"} =>
             ~Drained(p) /\ 100 * HonestLoss(p) <= MaxFrictionPct * Spend
        /\ pc = "rejected" =>
             Drained(p) \/ 100 * HonestLoss(p) > MaxFrictionPct * Spend

\* The friction filter lets nothing dearer through. A signal's round trip, played on
\* the reserves the analyzer read, loses at most MaxFrictionPct: a wrapped numerator
\* makes the filter reject more, never less (simulateRoundTrip against the swaps of
\* the chain).
FrictionIsBounded ==
    /\ source = "raydium" /\ MaxFrictionPct \in 1..99
    /\ pc \in Bought \cup {"signal", "buying"} /\ QuoteFits
    => ~Drained(Torn(entry)) /\ 100 * HonestLoss(Torn(entry)) <= MaxFrictionPct * Spend

\* A position does not stay open: five minutes after its opening at the latest a check
\* sells it, and what the chain refuses is tried again.
EventuallySold == pc = "open" ~> pc = "sold"
=============================================================================
