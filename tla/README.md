# sol-sniper: a verification project

TLA+ models of the trading bot in `src/`, model-checked with TLC and, for the
properties that matter most, proved with TLAPS. The bot watches a Solana node
for new tokens, filters them, buys those that pass, and sells them again by
price or by age. Line numbers below refer to `src/`.

## 1. The system

```
 node (WebSocket)      node (RPC)           Jito block engine
       |                   |                     |
   listener --eventCh--> analyzer --tradeCh--> executor <--- HTTP API (kill switch)
                           |                     |
                           +--- Redis, metrics, dataset file ---+
```

| Component | State it keeps | Operations | What makes it correct |
|---|---|---|---|
| listener (`internal/listener`) | one session: connection, two subscriptions, a reader and a 64-slot channel for each | connect, subscribe, receive, handle, reconnect | a lost subscription ends the session and comes back; each notification yields at most one event, and what does not fit is counted |
| analyzer (`internal/analyzer`) | one goroutine per event; seen keys and counters in Redis | deduplicate, filter, retry, record, signal | one verdict per token and seen key; nothing unvetted is signalled; a record before every signal; goroutines return |
| executor (`internal/executor`) | the map of positions, the Position objects, tip counters | buy, monitor, sell, close, kill switch | a position is sold once, booked once, with a reason its P&L agrees with; nothing is booked that was not sold; none is given up; map, Redis, gauges and wallet agree |
| Redis client (`internal/cache`) | kill switch, open positions, trajectories, P&L, leaderboard, blacklist, seen keys | one command each, two for the leaderboard | the leaderboard keeps both ends; an error costs one entry of one book |
| HTTP API (`internal/api`) | none | kill switch; read-only views | the context of a request dies with its handler |
| metrics (`internal/metrics`) | gauges and counters | set, add, delete labels | gauges agree with what they measure |
| dataset (`internal/dataset`) | one append-only file, a mutex | append a record and a newline | records of two goroutines never share a line; a crash damages two at most |
| pricing (`analyzer.go` 532-633, `executor.go` 1017-1088) | none | swaps, round trips, quotes, tips in `uint64` and `float64` | no token that costs more than the limit passes; a profit is taken where the pool has one to give |
| config (`internal/config`) | constants | | |

What is hard in it:

- ticks overlap: the monitor starts a `checkPosition` per position at every
  tick, whether or not the last one has returned; each reads the position, then
  the chain for as long as it takes, then the position again;
- an exit is decided in one critical section, sold in another goroutine, and
  booked in a third section up to a minute later; a failed sell is undone by
  setting the status back, and the next tick retries;
- memory, Redis and gauges are updated one after the other without a common
  lock; errors of Redis are dropped; a restart keeps Redis, the wallet and the
  bundles in flight and loses the rest;
- the kill switch runs in an HTTP handler, beside all of this;
- a Raydium pool is read with one RPC call per vault, and traded in between: a
  price may be made of reserves of two moments, and what a buy brings is not
  what was quoted;
- a bundle may land after `submitBundle` has given it up, and a Redis command
  whose answer is lost is sent again;
- amounts are multiplied in 64 bits, and the products wrap on nearly every
  Raydium pool.

`PROJECT.json` lists every component and, under `hazards`, every place of this
kind with the properties that cover it.

## 2. The modules

| Module | Models |
|---|---|
| `PositionLedger` | the abstract specification: what the executor promises of one position |
| `Executor`, `MCExecutor` | `executor.go` 59-785, the kill-switch handler of `server.go`, the Redis keys and gauges they touch |
| `ExecutorTypes`, `ExecutorProofs`, `HoldingProofs` | its proofs: types; safety of sells, the ledger and the order of milestones; map against gauge, wallet and Redis |
| `Analyzer`, `MCAnalyzer`, `AnalyzerProofs` | `analyzer.go` 95-530: `Run` and `process` with its reads |
| `Pipeline`, `MCPipeline`, `PipelineProofs` | analyzer and executor composed over `tradeCh` and Redis |
| `Listener`, `MCListener`, `ListenerProofs` | `listener.go` 54-352: `Run`, `subscribe`, readers and handlers |
| `Pricing` | the formulas over reserves, of both files |
| `Trade`, `MCTrade`, `TradeProofs` | the numbers of one trade on a pool that moves |
| `Books`, `MCBooks`, `BooksProofs` | `pnl:sol` and `leaderboard:trades` of `cache.go`, `writer.go`, `handleLeaderboard` |

`Pipeline` extends `Executor` and instantiates `Analyzer`; `Executor`
instantiates `PositionLedger`; `Trade` extends `Pricing`. The other modules stand
alone.

### Executor

A buy signal, the `executeBuy` that serves it and the `Position` it creates are
one identifier in `Buys`: code never makes two positions of one signal.
`Checks`, `Sells` and `Kills` are the goroutines of each kind that may be alive
at once. Goroutines are records with a program counter; an action is what one
goroutine does between two points where another one can get in, that is one
critical section, one Redis command, or one RPC answer.

| Code | Actions |
|---|---|
| `executeBuy` 197-318 | `BuyGate` (kill switch), `BuyLookup` (dedup and cap), `BuyBuildFails` / `BuyBuilt`, `BuyReport` (counters under `e.mu`), `BuyShowRatio` |
| `savePosition` 320-369 | `BuyInsert`, `BuyPersist`, `BuyPublish` |
| `checkAllPositions` 565-584 | `TickStart`, `TickSnapshot`, `TickSpawn` / `TickSkip` |
| `checkPosition` 598-699 | `CheckClosing` / `CheckOpen` (first lock), `CheckReadFails`, `CheckStale` / `CheckHold` / `CheckClaim` (second lock: quote, milestones, exit), `CheckGauge` |
| `executeSell` 373-494 | `SellClaim`, `SellBuildFails` / `SellPanics` / `SellBuilt`, `SellLanded` / `SellMissed` |
| `closePosition` 496-561 | `CloseSold`, `CloseUnmap`, `CloseUnsave`, `CloseBook`, `CloseRecord` (with the blacklisting of 487-493) |
| `KillSwitch` 168-188 in `handleKillSwitch` | `KillArm` / `KillArmFails`, `KillSnapshot`, `KillDump` / `KillSkip`, `KillReturn`; `Disarm` |
| environment | `BundleSettles` (the chain), `Elapse` (time), `Restart` |

Abstractions:

- a quote is what the exit switch tells apart: `gain`, `flat`, `loss`, or `zero`
  (exactly 0 SOL, which `closePosition` treats differently);
- times are ages in ticks; `Milestones` and `CloseAfter` are in that unit;
- a bundle is `pending` until the chain lands or kills it. `submitBundle` reports
  a landing only if there was one (`Reports`); that there was none it may report
  at any time, because it does so when the block engine answers with an error
  (741-749) or after a minute of polling (760-784), and the bundle may have
  landed or land later;
- a landed buy puts one lot of the token into the wallet, a landed sell takes
  one out: amounts are not modelled;
- with `IOFaults` a Redis command may have no effect, and one that is not
  idempotent (`IncrByFloat`, `RPUSH`) may have it up to `RedisTries` times:
  go-redis sends a command again when its answer is lost. `pnl` counts the
  effects; `marks` and `again` of a batch are the milestones in the list and
  those that stand in it more than once. A failing read of the kill switch reads
  as disarmed, as `KillSwitchActive`'s callers do, and the write of a dataset
  record may fail unseen;
- a signal is taken up when no other buy of the token is under way (`Alone`). The
  code has no such condition; the analyzer's seen key provides it, and
  `NoBuyWaits` proves that behind the analyzer it never holds a signal back;
- a panic in `checkPosition` has the effect of `CheckReadFails`, one in
  `executeBuy` that of `BuyBuildFails`. One in `executeSell` (`SellPanics`, with
  `MayPanic`) is not like a failure: `recover` leaves the status at `selling`, and
  no tick sells the position again. A panic where nothing recovers it ends the
  process: `Restart`;
- P&L, leaderboard and the gauges of a close are one step, `CloseBook`: nothing
  in the models reads one of them between two of them;
- a position is not read while it is unlocked except by `KillSwitch`
  (`Dumpable`), whose unsynchronised read of a string is taken to return the old
  or the new status, as it is one or the other in every interleaving.

### PositionLedger

`Open`, `Sell`, `Book` for each position, at most once each, in this order; the
entry booked has a reason and a P&L sign, and they agree: a take-profit is
booked a gain, a timeout flat, a stop loss a loss (or nothing, if the price was
exactly zero: see the divergences below). `Executor` implements it through the
mapping `Ledger`: `open` and `selling` are one stage, failed sells and retries
are stutters.

### Analyzer

Every event has a goroutine. `token` holds what the chain says of each mint (two
authorities, and whether two holders own it) and is chosen at the start.
`MarkSeen` / `MarkFails` are the Redis SETNX; `ReadMint` reads the mint account
and applies the filters of lines 178-215 in their order; `ReadHolders` and
`ReadSymbol` answer in either order, `JudgeHolders` continues when both have;
`ReadVaults` / `ReadVaultsFails` / `Backoff` are the retry loop; `Assess` is
friction, its limit, and the record; `Send` the non-blocking send. `Deadline`
passes six seconds: from then every call under the context fails. With `Faults`
each call may fail before that too, an `Incr` may count several times, a record
may be lost without anybody being told (`Written`; the label `lost_pass` or
`lost_rejection` stands for it), and `process` may panic over what it reads
(`Panics`): its `recover` ends the goroutine without a record. `Forget` expires a seen key; `Restart` loses
goroutines and channel. The SETNX and the `scanned` counter are one step, as are
the `filtered` counter and the record in `Reject`: nobody reads them in between
except for statistics.

### Listener

`run` is where the `Run` goroutine is; `alive` the subscriptions the node still
serves, `reader` and `ch` each subscription's reader and channel, `closed` the
channels a reader closed. `SubscribeFails` is any error `subscribe` returns,
`ServeClosed` the `return nil` on a closed channel, `EndSession` the deferred
calls. `handler` follows a notification from its channel through the three
stages of a handler to the non-blocking `HandlerSends`. The two handlers differ
only in the calls they make, so they share their actions. Readers that are
blocked when a session ends are forgotten: they hold memory for ever and change
nothing else.

### Pipeline

An event, its `process` goroutine, its signal and the `executeBuy` that serves
it are one identifier. `Analyze` is any step of the analyzer, `Execute` any step
of the executor, the kill switch included, where a buy takes its first step only
when its signal has been received (`Deliver`, the receive in `Executor.Run`).
The executor's variable for a buy's token and the analyzer's for an event's
token agree by the guard of `Analyze`. `Expire` is the 48 h of a seen key: long
after an analysis (six seconds) and a buy (a minute or two) are over, but not
after a position is closed. `RestartBoth` is one process: goroutines and channel
of both are lost, and the buy of every signal that had left the channel or still
waited in it with them.

### Pricing

`cpAmountOut`, `simulateRoundTrip` and `quoteEntry` are computed modulo `Word`
wherever Go computes in `uint64`: after each product, sum and difference.
`SwapOut` is the same swap without a word, which is what the program on the chain
(128 bits) pays. A swap has a numerator and a denominator. In 64 bits the first
wraps on nearly every pool; the second fits up to 1.8 * 10^15 raw units of the
reserve the swap pays into, which for SOL is 1.8 million, and for a token of six
decimals 1.8 billion: `DenominatorFits`. `pumpFunSimulate` and `pumpFunSellQuote` use `float64`; the
module has the exact rational that each formula stands for, rounded down where
the code converts to an integer, so the rounding of doubles is not modelled. The
round trip's loss is in lamports where the code divides by the amount; limits in
percent are compared by cross-multiplication.

### Trade

One trade from the analyzer's read to the sale, as a machine over numbers.
`ReadBase` is the first call of `readVaultBalances`, and `Assess` or `Check` the
second with what follows from it; `PoolMoves` may put any pool of `Pools` in
between and at any other time. `Assess` is the friction filter and the quote;
`EnterSimulated` the haircut of 10%; `SubmitBuy`, `RaydiumFills`, `PumpFills`,
`BuyDies` the bundle with the slippage floor `MinOut`; `Check` the quote and the
exit switch; `SellSimulated`, `SellFills`, `SellDies` the sale. Concurrency,
Redis and records are left to `Executor` and `Analyzer`: here one check runs at
a time.

### Books

`closePosition` as the sequence of its three bookings for any number of trades
at once (`CountPnL`, `AddToBoard`, `TrimBoard`, `Lock`, `WriteData`,
`WriteNewline`), and the reject closure of the analyzer as the last three of
them. Trades are integers in the order of their scores. A failed increment may
have reached Redis twice (go-redis sends a command again when the answer is
lost), a failed write may leave a part of its record, a crash loses the
goroutines and may cut off the record being written. `ReadGainers` and
`ReadLosers` are the two commands of `Leaderboard`. Removing the position from
Redis (`positions:open`) and the rest of a close are in `Executor`.

## 3. What TLC checks

Passing runs (each property has a mutant of the code that violates it, see
`mutants` in `PROJECT.json`):

| Run | Question | Distinct states |
|---|---|---|
| `Executor_live` | live, one position, 2 overlapping checks with stale ages, 2 sells, missed landings, panics, 2 milestones: `TypeOK`, `OpenIsSaved`, `SingleSeller`, `SoldIsFinal` and `TrajectoryOrdered` with their inductive forms, `ImplementsLedger` | 607 k |
| `Executor_kill` | the kill switch against a check and its sell, Redis errors and re-sent commands, lost records, missed landings, a restart: `BookedOnce`, `GaugeExact`, `BookedIsSold` | 713 k |
| `Executor_closes_live` | failing quotes, failed and unnoticed sells, Redis errors: `KeepsTrying` | 40 k |
| `Analyzer_signals` | 3 events of one token, 2 expiries, a channel of 1: `Accounted`, `OneVerdictPerKey`, `NoTwins` | 37 k |
| `Analyzer_faults` | 2 events of one token, failing calls and writes, re-sent commands, panics, deadlines, a restart: `TypeOK`, `SignalsAreRecorded`, `TakenIsVetted`, `AnalyzerInv`, `ProcessReturns` | 691 k |
| `Pipeline_rebuy` | 2 events of one token, an expiry, a restart, analyzer and executor joined: `SignalsComeAlone`, `BoughtIsVetted`, `BuysPerKey`, `GaugeExact` | 627 k |
| `Listener_sessions` | 3 notifications, channels of 1, 2 breaks, shutdown: `NoDeafSession`, `EventsAccounted`, `Resubscribes`, `Served` | 68 k |
| `Trade_numbers` | both programs, simulated and live, a pool at 4 points of a curve, after a deposit and after withdrawals, in a word that numerators leave: `TypeOK`, `ProfitIsReal`, `ProfitIsEarned`, `FrictionIsBounded` | 926 k |
| `Books_crashes` | 3 trades and a reject, each end of the board keeping one, a fault and a crash: `EndsKept`, `NoTradeAtBothEnds`, `DamageBounded`, `BooksAgree` | 1.7 M |

Runs that find the code at odds with what its documents or comments say. Each
checks one property; `findings` in `PROJECT.json` has the quotes.

| Run | What it shows |
|---|---|
| `Executor_v_killsells` | the sells the kill switch spawns die with the request's context, and the armed switch stops the monitor that would retry |
| `Trade_v_overflow` | the round trip of the friction filter wraps its product of three `uint64`, and rejects pools that cost next to nothing |
| `Trade_v_unsellable` | a live position carries the quote, not the fill: after a fill below the quote no sell can land, and the retries never end |

The overflow is not a corner case. `amountIn * 9975 * reserveOut` leaves 64 bits,
at a buy of 0.1 SOL, for a token reserve above 1.85 * 10^7 raw units, which with
six or nine decimals is a pool of 18 tokens or less. The computed loss is then
close to 100%, so on Raydium the filter `high_friction` is in effect a filter on
the source. The run has a word of 20 bits and reserves of three digits: what
matters is the ratio. A wrapped numerator makes a quote smaller, never larger, and
that is what the passing run `Trade_numbers` and the theorems about numbers rest
on: what wraps may reject a token, take a loss that is none or ask for too
little, but it invents no profit and lets no dear token through.

### Other divergences the models contain

The modules keep every step these need; no run checks them. Each formula is
written over the module's variables and is false of it.

| Says | Formula | Code |
|---|---|---|
| "prevents rate-limit storms when many tokens pass analysis simultaneously" (`config.go:47`) | `Cardinality(Mapped) <= MaxActivePositions` | the count of `executor.go:214` is read under a lock that is released long before `savePosition` inserts: two buys pass together |
| "prevents duplicate sells from ... kill-switch races" (`executor.go:380`) | `SingleSeller` with `Kills # {}` | `executor.go:385` takes the status `selling` for its own claim. In simulation, where a sell cannot fail on the chain, both sells may then book the position (`BookedOnce`) |
| "the concentration filter must run before any capital commitment" (`docs/RUN_001_FINDINGS.md:95`) | a taken token is not `concentrated` | `analyzer.go:249` passes over an error of the holder check, 464 over an empty answer |
| "halt buying" (`docs/PRD.md:26`) | no `pos[b].status` goes from absent to open while `killswitch` and a request is done | a buy past line 207 of `executor.go` is not stopped |
| "Label set is deleted when the position closes" (`metrics.go:117`) | with no goroutine at work, `labels \subseteq Mapped` | `executor.go:697` sets them after the sell was spawned |
| "AllPositions returns all open positions" (`cache.go:97`) | with no goroutine at work, `saved[m] # None => positions[m] = saved[m]` | `executor.go:364` writes after the map entry is visible; the HDEL of line 521 may fail unseen, and may delete the entry of a later position of the token. `run007/redis-state.txt` lists such entries |
| "Updated by the executor on each bundle result" (`metrics.go:80`) | with no buy at `ratio`, `shown = tips` | `executor.go:298` is outside the lock |
| "panic in executeSell" (`executor.go:376`), logged, as if that were all | `KeepsTrying` with `MayPanic` | the status stays `selling`: neither a tick nor the kill switch sells the position again; a restart forgets it |
| "adds a signed SOL delta to the running total" (`cache.go:118`) | `pnl[b] <= 1` with `IOFaults` | a re-sent `IncrByFloat` counts a result twice |
| "sell when down 30%" (`config.go:31`) | the counterpart of `ProfitIsReal` for `stop_loss` | the numerator of `cpAmountOut` wraps: the quote is far below what the pool pays, and the position is sold at a loss it has not made |
| "buy/sell slippage tolerance" (`config.go:32`) | a live fill on Raydium is at least the tolerated part of what the formula promised at one of the reads | the quote is wrapped, and so is the floor |
| "Monitor never produced a valid price quote" (`executor.go:507`) | a `stop_loss` record has delta `loss` | 0 SOL is a legal quote and a stop loss |
| "tracked in memory and Redis" (`executor.go:3`) | with no goroutine at work, a saved position with tokens in the wallet is mapped | `New` reads nothing back after a restart |
| "allow retry on next monitor tick" (`executor.go:473`) | `OpenIsHeld` with `LostConfirm` | a sell may land unnoticed |
| "seconds since entry" (`writer.go:49`) | `records[b][i].owners \subseteq {b}` | the trajectory list outlives the position and the seen key |
| "Every token seen ... produces a JSONL record" (`docs/PRD.md:30`) | with no event at work, every seen mint has a record | SETNX comes first; a lost answer or a crash leaves only the key |
| "Reconnect with 5-second backoff on WebSocket error" (`docs/PRD.md:39`) | `run` leaves `serve` for `wait` or `stopped` only | `listener.go:130,135` return nil, and `Run` waits only on an error |

Met while reading, outside the modules:

- `config.go:32` calls `SLIPPAGE_PCT` the tolerance of buys and sells; sells
  have a floor of 0, and buys on Pump.fun ask for the exact quote;
- the friction of a Pump.fun token counts the tips of both bundles, that of a
  Raydium pool none;
- a deposit of liquidity between the two vault reads looks like a profit:
  `ProfitIsReal` and `ProfitIsEarned` are about pools that are only traded in;
- the analyzer reads a Raydium pool account at other offsets (`resolveVaults`)
  than the executor (`fetchRaydiumPoolAccounts`);
- `docs/DESIGN.md:73` and `capture-run.sh` name Redis keys the code does not
  use;
- `capture-run.sh:87-96` copies the dataset and truncates it: records written in
  between are lost, although the script calls itself safe beside a live bot;
- with few trades the leaderboard shows gainers among the losers;
- `mustFloat` (`config.go:131`) reads a malformed setting as 0, and a
  `MONITOR_INTERVAL` of 0 would panic in `time.NewTicker`;
- `blacklist` holds pools, `IsDeployerBlacklisted` has no caller;
- `GET /api/positions` and `SavePosition` marshal live positions without their
  lock.

### Bounds

- Two checks and two sells: every race in the executor is between two goroutines
  of one position (a check and a newer check, a check and a sell, two sells),
  the map, Redis and the gauges being keyed by position. A sell slot is free
  again when its bundle has settled, so retries are not bounded by it. The
  kill-switch run has one check, because an armed switch stops the monitor and
  the race is between the check's sell and the switch's.
- One position, except in `Pipeline_rebuy`, where one token is bought twice. The
  run has one check and one sell and no kill switch, as the property is about
  the two buys.
- `Quotes` has all four values but in the kill-switch run, where a quote that holds
  and one that sells are enough: the properties do not read them.
- `Milestones = {1, 2}`, `MaxAge = 3`, `CloseAfter = 1`: a tick may see no, one
  or both milestones due, before and after the timeout. Other runs need no ages.
- Channels of one slot: with three notifications or events each of them is
  empty, full, and overfull.
- Two or three events of one token: tokens share nothing but counters.
- `Trade`: amounts of one to four digits (TLC's integers have 32 bits), a buy of
  4, reserves up to 2700, fees of 1/400 and 1/100, which are Raydium's 25/10000
  and Pump.fun's 100/10000, and a word of 20 bits. `Moving` has four pools on
  one curve, so a window between any two of them is torn; at the first the
  numerators of a buy leave the word, at the others they do not. One pool has
  more of both reserves, one is emptied, and one has a token reserve whose
  denominator leaves the word too: of it nothing is claimed. The thresholds are
  chosen so that each exit, each refusal and each fill happens. Without
  `CheckFits`, or without `AlongCurve`, TLC finds `ProfitIsReal` violated: both
  conditions are met and needed. The theorems have no such bounds.
- `RedisTries = 2`: a command has its effect not at all, once, or once too often.
- `Books`: each end of the board keeps one of three trades, so there is always
  one in the middle to trim, and adds between another's add and trim; one failed
  command or write and one crash, in any order.
- One restart, one or two breaks or expiries: each further one starts from a
  state that the first can also produce. In `Analyzer_faults` keys do not
  expire: `Analyzer_signals` has the expiries, and the theorems both together.

Deadlock is checked in the executor's runs, where the monitor never ends. In the
analyzer's, the pipeline's, the books' and the listener's the events and
notifications run out, and waiting for the next one is where they stop; a trade
ends when it is sold or refused. Checks, sells, events are interchangeable and
declared symmetric, except in runs with liveness, where that is not sound.

### Fairness

- Executor: every goroutine is scheduled (weak fairness of each `Buy`, `Tick`,
  `Check`, `Sell` and `Kill` step), time passes, bundles settle. Beyond that,
  strong fairness only of a quote that is read: the node does not refuse for
  ever. That a sell is built, or lands, or is seen to land, is not assumed, which
  is why `KeepsTrying` promises tries and not a sale. `KillArm`, `Disarm`,
  `Restart` and faults are never forced.
- Analyzer: deadlines pass, and a goroutine past its deadline takes its steps;
  nothing is assumed of the calls before it.
- Trade (for `EventuallySold`, which fails in spite of it): ticks come and reads
  return again and again, bundles settle, and a sale the chain would accept
  lands sooner or later.
- Listener: goroutines are scheduled; Go's `select` picks at random among its
  ready cases, so each one is taken if ready again and again (strong fairness of
  `Serve` and `ServeClosed`). Connections fail finitely often (`MaxBreaks`).

## 4. What is proved

For every value of the constants that satisfies the named assumptions, with no
bound on goroutines, positions, tokens or steps.

| Theorem | Says |
|---|---|
| `TypeCorrect` (`ExecutorTypes`) | `Spec => []TypeOK` |
| `SalesAreSafe` (`ExecutorProofs`) | without kill-switch requests, `Spec => []SaleInv` |
| `NoDuplicateSells`, `NoDoubleBooking`, `SoldStaysSold` | its consequences `SingleSeller`, `BookedOnce`, `SoldIsFinal` |
| `ExecutorKeepsLedger` | without kill-switch requests and restarts, `Spec => ImplementsLedger`: the executor implements `PositionLedger` |
| `TrajectoriesOrdered`, `MilestonesOnce` | `[]TrajectoryInv`, `[]TrajectoryOrdered`, the kill switch included; a milestone comes from one append, which a client without an answer may repeat |
| `GaugeNeverDrifts` (`HoldingProofs`) | without kill-switch requests, `[]GaugeExact` |
| `BookedWasSold` | `[]BookedIsSold`, with no assumption: kill switch, missed landings, re-sent commands, panics and restarts included |
| `MappedIsSaved` | if no token is bought twice and Redis answers, `[]OpenIsSaved`, the kill switch included |
| `KillsBookOnce`, `KillsKeepGauge` | live and if no token is bought twice, `[]BookedOnce` and `[]GaugeExact` with any number of kill-switch requests, restarts, missed landings, panics and faults; an increment re-sent by the client may count more than once |
| `AnalyzerTypes`, `AnalyzerIsSafe` (`AnalyzerProofs`) | `[]TypeOK`, `[]AnalyzerInv` |
| `NoTwinGoroutines`, `RecordBeforeSignal`, `ExecutorGetsVetted` | its consequences `NoTwins`, `SignalsAreRecorded`, `TakenIsVetted` |
| `OneVerdict` | for finitely many events, `[]OneVerdictPerKey` |
| `TokensAreAccounted` | for finitely many events and no faults, `[]Accounted` |
| `PipelineAnalyzes`, `PipelineExecutes` (`PipelineProofs`) | the pipeline implements `Analyzer` and `Executor`: their theorems hold of it |
| `BuysAreVetted`, `SignalsAreAlone`, `NoBuyWaits`, `OneBuyPerKey` | `BoughtIsVetted`, `SignalsComeAlone`, that `Alone` never holds a signal back, and, for finitely many events, `BuysPerKey`, the kill switch included |
| `PipelineBooksOnce`, `PipelineKeepsGauge`, `PipelineSavesOpen` | behind the analyzer, as long as no seen key expires: `BookedOnce` and `GaugeExact` if live, `OpenIsSaved` if Redis answers, the kill switch included |
| `ListenerTypes`, `SessionsHear`, `EventsAreAccounted` (`ListenerProofs`) | `[]TypeOK`, `[]NoDeafSession`, `[]EventsAccounted` |
| `TradeTypes`, `ProfitsAreReal`, `ProfitsAreEarned`, `FrictionStaysBounded` (`TradeProofs`) | `[]TypeOK`, `[]ProfitIsReal`, `[]ProfitIsEarned`, `[]FrictionIsBounded`, for any word, pools and thresholds; numerators may wrap |
| `BooksTypes`, `EndsAreKept`, `ListsAreDisjoint`, `BooksStayInStep`, `DamageIsBounded` (`BooksProofs`) | `[]TypeOK`, `[]EndsKept`, `[]NoTradeAtBothEnds`, `[]BooksAgree`, `[]DamageBounded`, for any sizes of the board, faults and crashes |

`SaleInv`. That no two sells of a position overlap is not inductive: a check may
claim a position that is `open` and still have a seller. `StatusTellsSeller`
excludes it: a sell that has its claim holds the position in `selling`, from
`CloseSold` on in `sold`, and before the position is inserted it is `absent`. So
a check that finds `open` under the second lock knows there is no seller, and
the only steps that return a position to `open` are those of its one seller. For
booking, `NotYetBooked` says that nothing is booked before the seller gets
there. The theorem assumes `Kills = {}`, and the assumption is needed: with one
request two sells of one position run at once.

The ledger. A seller carries the reason its check found, and the close books the
quote the position has by then. `ReasonInv` says that the two agree until the
close has read the quote, and why: only `Observe` writes a quote, only into a
position that is `open`, and a position with a seller is not (`SaleInv`). Every
step then opens, sells or books one position of the ledger, or is a stutter.

`TrajectoryInv`. Two checks measure their ages in one order and may enter the
critical section in the other. `PointsAreFlagged` is why it does no harm:
whoever appends milestones at age `a` has flagged every milestone up to `a`, so
a later check with a smaller age finds nothing due, and one with a larger age
only milestones beyond `a`. `SellersHaveOpened` gives what is needed about
sellers that put the status back to `open`; it holds with duplicate sellers too,
so this theorem needs no assumption on `Kills`.

`MapInv` and `CountInv`. The map and the gauge are moved at different times, by
goroutines that know nothing of each other. For the gauge not to drift, every
insertion must add an entry and every close remove one: a buy past its dedup
finds the token free, a position that is open or being sold is the one the map
has, and a seller unmaps its own. `MapInv` says so, and `CountInv` keeps the
equation, one set gaining or losing one member at a time.

`WalletInv`. Every landed buy is one lot, and every lot is in the wallet, or with
a sale that landed and is on its way to the books, or booked; or a sale of it
was missed, and then it is in none of the three. So `Balanced` says that the
three together are at most the landed buys. A landing moves a lot from the wallet
to a seller, if its seller still waits for it; `CloseRecord` moves it from the
seller to the books; a missed landing, a restart, and a record that is lost only
take away. `BundleInv` makes sure the bundle that settles is about the seller's
token. Nothing here depends on how many sellers a position has, so the kill
switch needs no exception, and no constant an assumption.

`SavedInv`. A close deletes the Redis entry after its map entry, so the only
entry it can hurt is that of another position of the token.

`LotInv`. With the kill switch several sellers may work on one position, and one
may put back to `open` what another is selling: `SaleInv` does not hold. What
keeps the books right is the chain, where a token that was bought once is there
once: `LotOf` ties the lot to the bundle of the buy and, while it is in the
wallet, the position to its place in the map; `Untouched` says that until it
leaves nobody has closed or booked the position, and two sellers with proceeds
(`HasProceeds`) have different positions. So a second sale cannot land, and the
one close finds the position in the map, which is what the gauge needs. Neither
assumption can go: in simulation every sale succeeds, and a token bought a
second time after a restart (the first lot still in the wallet) is two lots that
two sellers of one position may sell; TLC finds `BookedOnce` and `GaugeExact`
violated in both.

`OneBuy`. These theorems need less than `BoughtOnce`: of the signals about a
token, one gets as far as a bundle or a position. The lemmas behind them
(`KillsKeep`, `SavedKeeps`) take it as something that holds throughout, and
`PipelineBuysOne` shows that it does, by `OneBuyPerKey`, while no seen key
expires (`MaxForgets = 0`, that is within 48 hours of a token's first event).
Events about one token may come as often as they like.

`AnalyzerInv`. The seen key outlives the goroutine that set it (a key lasts 48 h
and a goroutine six seconds; `Forget` says so), so a goroutine that wins SETNX
finds no other at work on the mint (`NoTwins`). `PcTellsRecord` and
`PcTellsVetted` carry what has been written and checked from each program point
to the next, through failures and restarts, up to the executor's end of the
channel.

`OneVerdict` counts: the events with a verdict on a mint are at most as many as
the lives of its key. `KeysCover` is inductive: the claims of a mint (goroutines
that won SETNX, or their records) number at most the expiries, plus one while
the key lives.

`TokensAreAccounted` counts too. With no call failing, each step of a goroutine
moves one event from one of the counted sets to another (`Counts`): into work,
out of it with a record, into `send` with one, out of it into the channel or
among the dropped. `ChannelInv` makes the length of the channel a count: a
signal is in it once, and nowhere else.

The pipeline. A step of the pipeline is a step of one component and a stutter of
the other, or both restart, so it implements each of them, and the theorems of
`ExecutorTypes` and `AnalyzerProofs` are used here as facts about it.
`CameAsSignals` says that everything the executor works on came through the
channel: then `TakenIsVetted` and `SignalsAreRecorded`, which are about what is
taken, become `BoughtIsVetted`, about what is bought. `OwnTheirMints` is why two
signals of one token never meet: while a signal of a mint is on its way the seen
key lives, and no goroutine of another event owns the mint.

The listener. `EventsAccounted` needs to know that a notification is in one place
only: `OnePlace` says that what a reader holds or a channel carries is still
queued and is there once. `DoneWith` ties each event in the channel, received or
dropped to a handler that has ended, and then every step that counts one moves
one notification.

`TradeInv` says at each point which numbers come from which read: `tokensOut`
from the `entry` window, the quote of an exit from the last one, the position
from the quote and not from the fill. The three theorems above it are about
arithmetic. A numerator that wraps is smaller than the product it should be, so
where the denominator fits, a quote of the code is at most that of the formula
(`CodeBelowFormula`). Between two points of one curve a torn read has the base of
one and the quote of the other; the swap is monotone in both reserves, so the
result of a torn read is at most the honest result of one of the two moments
(`TornBelow`, and with the wrap `WorthBelow` and `TokensBelow`). A profit the
code sees is therefore one that a moment has to give. What Spend buys at one
moment sells for no more than Spend at any moment of the curve with no more SOL
in it (`NoGainWithoutInflow`), and less with fewer tokens. For the filter both
swaps of the round trip count: with fewer tokens bought, and less brought back
for them, the loss the code sees is at least the loss the chain charges
(`LossNotUnderstated`). Monotonicity is proved of the fractions, by
cross-multiplication, and carried through the rounding down.

The books. `EndsInv` says that the board holds both ends of all that was ever
added; that it then ranks them as they rank among all (`TopKept`, `BottomKept`)
is a fact about sets: of the trades the board does not hold, the greatest above
one of its top has only board members above it, too few, and would be held. An
add can only push trades out of the ends, a trim leaves the ends of the board,
so a lost trim or an add between the two commands does no harm. For the answer
of the API, `AnswerInv` keeps the set that was known at the first read: a trade
at the top of it and at the bottom of a later, larger one leaves room for fewer
than `2 * Shown` members (`EndsMeet`).

`AgreeInv` counts the trades with a wrong sum or no place on the board from the
end of the call on, not from the end of the close: a fault adds one trade to one
of the two sets and no later step adds any.

`DamageInv`. That a fault damages two records is not inductive, because the
second one is damaged later: what a lost newline or a crash leaves is a last line
that is not ended (`Open`), and its record is not damaged before another follows.
So the invariant counts the records of the last line as damaged already, plus
one that will follow, unless a goroutine is between its two writes.

Model-checked only: liveness (`KeepsTrying`, `ProcessReturns`,
`Resubscribes`, `Served`) and everything under fairness, which the prover does
not reach.

## 5. Not modelled

- The bytes of transactions, instructions and accounts: which account stands
  where in a create instruction, a pool or a swap. These are tables of offsets
  without state.
- The rounding of `float64` in `pumpFunSimulate` and `pumpFunSellQuote`, and the
  price impact, which is only reported.
- Counters and histograms that are only incremented; the read-only API.
- A client that disconnects in the middle of the kill-switch handler: it cancels
  the context earlier than `KillReturn` does, with the same effect on the sells.
- In simulation a duplicate sell cannot fail on the chain, and the kill switch
  may book a position twice; `Executor_kill` is live.
- `cmd/bot` (not in the repository), dashboards, deployment, captured runs.

## 6. State of the plan

Done: `Executor` with `PositionLedger`, `Analyzer`, `Listener`, `Pricing` and
`Trade`, `Books` and `Pipeline`, each with its proofs.

What could follow:

1. `OpenIsSaved` has its theorems only for tokens bought once, because it is false
   otherwise: a buy that passed the dedup before the old position closed may have
   its Redis entry deleted by that close.
2. The listener in front of `Pipeline`. It adds nothing to the properties above,
   which hold for any events, and its own do not depend on who receives.
3. Simulated double booking by the kill switch, and leaked readers of the
   listener, as runs.

A run costs minutes, so each answers a question of its own: a run may go when a
composition or a theorem covers it. The re-buying run of the executor alone went
this way into `Pipeline_rebuy`, the fault run into `Executor_live`,
`Executor_kill` and the theorems.
