------------------------------ MODULE Executor ------------------------------
(***************************************************************************)
(* The executor of the trading bot (src/internal/executor/executor.go).     *)
(*                                                                         *)
(* Four kinds of goroutine share a map of positions, the Position objects   *)
(* it points to, Redis, the Prometheus gauges and the chain:               *)
(*   - executeBuy, one per trade signal;                                    *)
(*   - the monitor ticker, which spawns one checkPosition per open position *)
(*     at every tick, whether or not the previous ones have returned;       *)
(*   - executeSell, spawned by a checkPosition or by the kill switch;       *)
(*   - KillSwitch, running inside an HTTP request whose context it hands to  *)
(*     the sells it spawns.                                                 *)
(* An action is what one goroutine does between two points where another    *)
(* one can get in: a critical section, one Redis command, one RPC answer.   *)
(*                                                                         *)
(* A buy signal, the executeBuy invocation that serves it and the Position  *)
(* it creates are one identifier, a member of Buys.                         *)
(***************************************************************************)
EXTENDS Integers, Sequences, FiniteSets

CONSTANTS
    Buys,               \* trade signals = executeBuy calls = Position objects
    Mints,              \* tokens, the keys of Executor.positions
    SigMint,            \* the mint each signal is about
    Checks,             \* checkPosition goroutines alive at once (bound)
    Sells,              \* executeSell goroutines alive at once (bound)
    Kills,              \* POST /api/killswitch {"active": true} requests (bound)
    None,               \* no position, no request, no token
    SimulationMode,     \* cfg.SimulationMode
    MaxActivePositions, \* cfg.MaxActivePositions, 0 = unlimited
    Milestones,         \* trajectory milestones, in ticks of position age
    CloseAfter,         \* the five-minute timeout, in the same unit
    MaxAge,             \* the ages told apart (bound)
    Quotes,             \* the quotes told apart, among PriceTells (bound)
    IOFaults,           \* whether Redis commands and file writes may fail
    RedisTries,         \* how often go-redis sends a command it gets no answer to (bound)
    MayPanic,           \* whether building a sell may panic
    MaxRestarts         \* process restarts considered (bound)

ASSUME SignalsAssumption == SigMint \in [Buys -> Mints]
ASSUME NoneAssumption == None \notin Buys /\ None \notin Mints /\ None \notin Kills
ASSUME ThreadsAssumption == Buys \cap Sells = {}
ASSUME ModesAssumption ==
    SimulationMode \in BOOLEAN /\ IOFaults \in BOOLEAN /\ MayPanic \in BOOLEAN
ASSUME BoundsAssumption ==
    /\ MaxActivePositions \in Nat
    /\ CloseAfter \in Nat
    /\ MaxAge \in Nat
    /\ MaxRestarts \in Nat
    /\ RedisTries \in Nat \ {0}
ASSUME MilestonesAssumption == Milestones \subseteq Nat

VARIABLES
    \* memory
    positions,  \* Executor.positions: mint -> Position
    pos,        \* the Position objects
    \* Redis
    killswitch, \* key "killswitch"
    saved,      \* hash "positions:open": mint -> Position
    traj,       \* lists "trajectory:{mint}"
    pnl,        \* how often the result of each position was added to "pnl:sol"
    blacklist,  \* set "blacklist:deployers"
    \* metrics and the dataset file
    active,     \* gauge ActivePositions
    labels,     \* mints with a PositionROIPct / PositionCurrentSOL label set
    tips,       \* tipAttempts, tipLanded
    shown,      \* the counters the JitoTipSuccessRatio gauge was last set from
    records,    \* dataset records written for each position
    \* goroutines
    buy, tick, check, sell, kill,
    \* the chain
    bundle,     \* the bundle each buy or sell submitted
    lots,       \* lots of each token in the wallet, one per landed buy
    restarts

memVars    == <<positions, pos>>
redisVars  == <<killswitch, saved, traj, pnl, blacklist>>
metricVars == <<active, labels, tips, shown>>
chainVars  == <<bundle, lots>>
threadVars == <<buy, tick, check, sell, kill>>
vars == <<memVars, redisVars, metricVars, records, threadVars, chainVars, restarts>>

-----------------------------------------------------------------------------
(* Values *)

\* What a monitor quote says of the price: roiPct >= TakeProfitPct, in between,
\* roiPct <= -StopLossPct, or exactly 0 SOL (an emptied pool, also a stop loss).
PriceTells == {"gain", "flat", "loss", "zero"}
ASSUME QuotesAssumption == Quotes \subseteq PriceTells

\* pos.lastQuotedSOL: "none" until the first quote; a quote of 0 is the same number.
LastQuotes == Quotes \cup {"none"}

Triggers == {"take_profit", "stop_loss", "timeout", "kill_switch"}

\* deltaSOL: closePosition books 0 whenever lastQuotedSOL is 0.
Deltas == {"gain", "flat", "loss", "nil"}
Delta(q) == IF q \in {"none", "zero"} THEN "nil" ELSE q

ASSUME NoTriggerAssumption == None \notin Triggers

NewPosition == [status |-> "open", quoted |-> "none", age |-> 0, snaps |-> {}]
Absent == [status |-> "absent", quoted |-> "none", age |-> 0, snaps |-> {}]

NoTips == [attempts |-> 0, landed |-> 0]
NewBuy == [pc |-> "idle", landed |-> FALSE, seen |-> NoTips]
NewCheck == [pc |-> "idle", pos |-> None, elapsed |-> 0]
NewSell == [pc |-> "idle", pos |-> None, trigger |-> "timeout", req |-> None, delta |-> "nil"]
NoBundle == [state |-> "none", mint |-> None]

Mint(b) == SigMint[b]
Mapped == {m \in Mints : positions[m] # None}

\* The request context of a kill-switch sell dies when the handler returns;
\* every other goroutine runs under the process context.
CtxLive(s) == sell[s].req # None => kill[sell[s].req].pc # "done"

\* Whether a command that can be repeated without harm, or a file write, has its effect;
\* callers drop the error.
Outcomes == IF IOFaults THEN BOOLEAN ELSE {TRUE}
SellOutcomes(s) == IF CtxLive(s) THEN Outcomes ELSE {FALSE}

\* How often one IncrByFloat takes effect: a command whose answer is lost is sent again.
MaxIncrement == IF IOFaults THEN RedisTries ELSE 1
Increments == IF IOFaults THEN 0..MaxIncrement ELSE {MaxIncrement}
SellIncrements(s) == IF CtxLive(s) THEN Increments ELSE {0}

\* KillSwitchActive's error is dropped by its callers, which then see FALSE.
ReadsKillSwitch(v) == v = killswitch \/ (IOFaults /\ v = FALSE)

FreeSell(s) == sell[s].pc = "idle" /\ bundle[s].state # "pending"
Spawned(p, trigger, req) ==
    [pc |-> "claim", pos |-> p, trigger |-> trigger, req |-> req, delta |-> "nil"]

Init ==
    /\ positions = [m \in Mints |-> None]
    /\ pos = [b \in Buys |-> Absent]
    /\ killswitch = FALSE
    /\ saved = [m \in Mints |-> None]
    /\ traj = [m \in Mints |-> <<>>]
    /\ pnl = [b \in Buys |-> 0]
    /\ blacklist = {}
    /\ active = 0
    /\ labels = {}
    /\ tips = NoTips
    /\ shown = NoTips
    /\ records = [b \in Buys |-> <<>>]
    /\ buy = [b \in Buys |-> NewBuy]
    /\ tick = [pc |-> "idle", todo |-> {}]
    /\ check = [c \in Checks |-> NewCheck]
    /\ sell = [s \in Sells |-> NewSell]
    /\ kill = [h \in Kills |-> [pc |-> "idle", todo |-> {}]]
    /\ bundle = [t \in Buys \cup Sells |-> NoBundle]
    /\ lots = [m \in Mints |-> 0]
    /\ restarts = 0

-----------------------------------------------------------------------------
(* executeBuy and savePosition *)

BuyGoes(b, pc) == buy' = [buy EXCEPT ![b].pc = pc]

\* What the executor takes for granted of its signals: no other buy of the token is under
\* way. The analyzer's "seen" key sees to it; Pipeline shows that it does.
Alone(b) == \A a \in Buys \ {b} : Mint(a) = Mint(b) => buy[a].pc \in {"idle", "done"}

BuyGate(b) ==
    /\ buy[b].pc = "idle"
    /\ Alone(b)
    /\ \/ ReadsKillSwitch(TRUE) /\ BuyGoes(b, "done")
       \/ ReadsKillSwitch(FALSE) /\ BuyGoes(b, "lookup")
    /\ UNCHANGED <<memVars, redisVars, metricVars, records, tick, check, sell, kill,
                   chainVars, restarts>>

AtCap == MaxActivePositions > 0 /\ Cardinality(Mapped) >= MaxActivePositions

\* Fault: the position dedup is dropped.
SkipsAtCapOnly(b) == AtCap

Skips(b) == positions[Mint(b)] # None \/ AtCap

BuyLookup(b) ==
    /\ buy[b].pc = "lookup"
    /\ IF Skips(b)
       THEN BuyGoes(b, "done")
       ELSE BuyGoes(b, "build")
    /\ UNCHANGED <<memVars, redisVars, metricVars, records, tick, check, sell, kill,
                   chainVars, restarts>>

\* Any of the instruction, blockhash, transaction or signing steps fails.
BuyBuildFails(b) ==
    /\ buy[b].pc = "build"
    /\ BuyGoes(b, "done")
    /\ UNCHANGED <<memVars, redisVars, metricVars, records, tick, check, sell, kill,
                   chainVars, restarts>>

BuyBuilt(b) ==
    /\ buy[b].pc = "build"
    /\ IF SimulationMode
       THEN BuyGoes(b, "insert") /\ UNCHANGED bundle
       ELSE /\ BuyGoes(b, "await")
            /\ bundle' = [bundle EXCEPT ![b] = [state |-> "pending", mint |-> Mint(b)]]
    /\ UNCHANGED <<memVars, redisVars, metricVars, records, tick, check, sell, kill,
                   lots, restarts>>

\* Fault: a bundle the block engine accepted counts as landed.
ReportsAccepted(t, landed) == landed

\* What submitBundle may report of a bundle. It reports a landing it has seen; when the
\* block engine answers with an error, or polling gives up after a minute, it reports
\* none, and the bundle may have landed or still land.
Reports(t, landed) == landed => bundle[t].state = "landed"

\* The tip counters, under e.mu; the ratio is computed here and shown later.
BuyReport(b) ==
    /\ buy[b].pc = "await"
    /\ \E landed \in BOOLEAN :
         /\ Reports(b, landed)
         /\ tips' = [attempts |-> tips.attempts + 1,
                     landed |-> tips.landed + (IF landed THEN 1 ELSE 0)]
         /\ buy' = [buy EXCEPT ![b] = [pc |-> "ratio", landed |-> landed, seen |-> tips']]
    /\ UNCHANGED <<memVars, redisVars, active, labels, shown, records, tick, check,
                   sell, kill, chainVars, restarts>>

BuyShowRatio(b) ==
    /\ buy[b].pc = "ratio"
    /\ shown' = buy[b].seen
    /\ buy' = [buy EXCEPT ![b] = [pc |-> IF buy[b].landed THEN "insert" ELSE "done",
                                  landed |-> buy[b].landed, seen |-> NoTips]]
    /\ UNCHANGED <<memVars, redisVars, active, labels, tips, records, tick, check,
                   sell, kill, chainVars, restarts>>

BuyInsert(b) ==
    /\ buy[b].pc = "insert"
    /\ pos' = [pos EXCEPT ![b] = NewPosition]
    /\ positions' = [positions EXCEPT ![Mint(b)] = b]
    /\ BuyGoes(b, "persist")
    /\ UNCHANGED <<redisVars, metricVars, records, tick, check, sell, kill, chainVars,
                   restarts>>

BuyPersist(b) ==
    /\ buy[b].pc = "persist"
    /\ \E ok \in Outcomes : saved' = IF ok THEN [saved EXCEPT ![Mint(b)] = b] ELSE saved
    /\ BuyGoes(b, "publish")
    /\ UNCHANGED <<memVars, killswitch, traj, pnl, blacklist, metricVars, records, tick,
                   check, sell, kill, chainVars, restarts>>

BuyPublish(b) ==
    /\ buy[b].pc = "publish"
    /\ active' = active + 1
    /\ labels' = labels \cup {Mint(b)}
    /\ BuyGoes(b, "done")
    /\ UNCHANGED <<memVars, redisVars, tips, shown, records, tick, check, sell, kill,
                   chainVars, restarts>>

-----------------------------------------------------------------------------
(* checkAllPositions: the monitor ticker *)

\* With the kill switch armed the tick returns at once.
TickStart ==
    /\ tick.pc = "idle"
    /\ ReadsKillSwitch(FALSE)
    /\ tick' = [pc |-> "snapshot", todo |-> {}]
    /\ UNCHANGED <<memVars, redisVars, metricVars, records, buy, check, sell, kill,
                   chainVars, restarts>>

Todo(keys) == [pc |-> IF keys = {} THEN "idle" ELSE "loop", todo |-> keys]

TickSnapshot ==
    /\ tick.pc = "snapshot"
    /\ tick' = Todo(Mapped)
    /\ UNCHANGED <<memVars, redisVars, metricVars, records, buy, check, sell, kill,
                   chainVars, restarts>>

\* Fault: an entry deleted since the snapshot is not skipped.
TickSpawnUnchecked(m, c) ==
    /\ tick.pc = "loop" /\ m \in tick.todo
    /\ check[c].pc = "idle"
    /\ check' = [check EXCEPT ![c] = [pc |-> "first", pos |-> positions[m], elapsed |-> 0]]
    /\ tick' = Todo(tick.todo \ {m})
    /\ UNCHANGED <<memVars, redisVars, metricVars, records, buy, sell, kill, chainVars,
                   restarts>>

TickSpawn(m, c) ==
    /\ tick.pc = "loop" /\ m \in tick.todo
    /\ positions[m] # None
    /\ check[c].pc = "idle"
    /\ check' = [check EXCEPT ![c] = [pc |-> "first", pos |-> positions[m], elapsed |-> 0]]
    /\ tick' = Todo(tick.todo \ {m})
    /\ UNCHANGED <<memVars, redisVars, metricVars, records, buy, sell, kill, chainVars,
                   restarts>>

TickSkip(m) ==
    /\ tick.pc = "loop" /\ m \in tick.todo
    /\ positions[m] = None
    /\ tick' = Todo(tick.todo \ {m})
    /\ UNCHANGED <<memVars, redisVars, metricVars, records, buy, check, sell, kill,
                   chainVars, restarts>>

-----------------------------------------------------------------------------
(* checkPosition *)

CheckReturns(c) ==
    /\ check' = [check EXCEPT ![c] = NewCheck]
    /\ UNCHANGED <<memVars, redisVars, metricVars, records, buy, tick, sell, kill,
                   chainVars, restarts>>

CheckClosing(c) ==
    /\ check[c].pc = "first"
    /\ pos[check[c].pos].status # "open"
    /\ CheckReturns(c)

\* elapsed is measured here, before the RPC reads.
CheckOpen(c) ==
    /\ check[c].pc = "first"
    /\ LET p == check[c].pos IN
         /\ pos[p].status = "open"
         /\ check' = [check EXCEPT ![c].pc = "read", ![c].elapsed = pos[p].age]
    /\ UNCHANGED <<memVars, redisVars, metricVars, records, buy, tick, sell, kill,
                   chainVars, restarts>>

CheckReadFails(c) ==
    /\ check[c].pc = "read"
    /\ CheckReturns(c)

\* Fault: the status is not read again under the second lock.
StillOpenUnchecked(c) == TRUE

\* The second status check, for a seller that claimed the position meanwhile.
StillOpen(c) == pos[check[c].pos].status = "open"

CheckStale(c) ==
    /\ check[c].pc = "read"
    /\ ~StillOpen(c)
    /\ CheckReturns(c)

\* Fault: the timeout case is missing.
ExitWithoutTimeout(q, elapsed) ==
    CASE q = "gain" -> "take_profit"
      [] q \in {"loss", "zero"} -> "stop_loss"
      [] OTHER -> None

\* The exit switch, in its order; None when the position is held.
Exit(q, elapsed) ==
    CASE q = "gain" -> "take_profit"
      [] q \in {"loss", "zero"} -> "stop_loss"
      [] q = "flat" /\ elapsed > CloseAfter -> "timeout"
      [] OTHER -> None

\* Fault: the snaps flags are not consulted.
DueAgain(p, elapsed) == {k \in Milestones : k <= elapsed}

Due(p, elapsed) == {k \in Milestones : k <= elapsed} \ pos[p].snaps

Written(due) == IF IOFaults THEN SUBSET due ELSE {due}
Rewritten(kept) == IF IOFaults THEN SUBSET kept ELSE {{}}

\* One critical section: the quote, the milestones due, the next status.
\* Milestones are appended in ascending order, as one batch of the list: the milestones
\* that got written, and those among them written more than once (the RPush of a
\* milestone is sent again when its answer is lost).
Observe(c, q, status) ==
    LET p == check[c].pos
        due == Due(p, check[c].elapsed)
    IN  /\ check[c].pc = "read"
        /\ StillOpen(c)
        /\ pos' = [pos EXCEPT ![p].quoted = q, ![p].snaps = @ \cup due, ![p].status = status]
        /\ \E kept \in Written(due) : \E again \in Rewritten(kept) :
             traj' = IF kept = {} THEN traj
                     ELSE [traj EXCEPT ![Mint(p)] =
                             Append(@, [pos |-> p, marks |-> kept, again |-> again,
                                        elapsed |-> check[c].elapsed])]
        /\ check' = [check EXCEPT ![c].pc = "gauge", ![c].elapsed = 0]
        /\ UNCHANGED <<positions, killswitch, saved, pnl, blacklist, metricVars, records,
                       buy, tick, kill, lots, restarts>>

CheckHold(c) ==
    \E q \in Quotes :
      /\ Exit(q, check[c].elapsed) = None
      /\ Observe(c, q, "open")
      /\ UNCHANGED <<sell, bundle>>

CheckClaim(c, s) ==
    \E q \in Quotes :
      /\ Exit(q, check[c].elapsed) # None
      /\ Observe(c, q, "selling")
      /\ FreeSell(s)
      /\ sell' = [sell EXCEPT ![s] =
                    Spawned(check[c].pos, Exit(q, check[c].elapsed), None)]
      /\ bundle' = [bundle EXCEPT ![s] = NoBundle]

\* The gauges are set after the lock is released.
CheckGauge(c) ==
    /\ check[c].pc = "gauge"
    /\ labels' = labels \cup {Mint(check[c].pos)}
    /\ check' = [check EXCEPT ![c] = NewCheck]
    /\ UNCHANGED <<memVars, redisVars, active, tips, shown, records, buy, tick, sell,
                   kill, chainVars, restarts>>

-----------------------------------------------------------------------------
(* executeSell and closePosition *)

SellGoes(s, pc) == sell' = [sell EXCEPT ![s].pc = pc]

SellReturns(s) == sell' = [sell EXCEPT ![s] = NewSell]

SellClaim(s) ==
    LET p == sell[s].pos IN
    /\ sell[s].pc = "claim"
    /\ \/ pos[p].status = "sold" /\ SellReturns(s) /\ UNCHANGED pos
       \/ /\ pos[p].status # "sold"
          /\ pos' = [pos EXCEPT ![p].status = "selling"]
          /\ SellGoes(s, "build")
    /\ UNCHANGED <<positions, redisVars, metricVars, records, buy, tick, check, kill,
                   chainVars, restarts>>

\* Status goes back to "open" for the next tick, whatever it is by now.
Reverts(s) ==
    /\ pos' = [pos EXCEPT ![sell[s].pos].status = "open"]
    /\ SellReturns(s)
    /\ UNCHANGED <<positions, redisVars, metricVars, records, buy, tick, check, kill,
                   chainVars, restarts>>

SellBuildFails(s) ==
    /\ sell[s].pc = "build"
    /\ Reverts(s)

\* The recover of executeSell logs the panic; the status stays "selling".
SellPanics(s) ==
    /\ MayPanic
    /\ sell[s].pc = "build"
    /\ SellReturns(s)
    /\ UNCHANGED <<memVars, redisVars, metricVars, records, buy, tick, check, kill,
                   chainVars, restarts>>

\* The blockhash read needs a live context, in simulation too.
SellBuilt(s) ==
    /\ sell[s].pc = "build"
    /\ CtxLive(s)
    /\ IF SimulationMode
       THEN SellGoes(s, "close") /\ UNCHANGED bundle
       ELSE /\ SellGoes(s, "await")
            /\ bundle' = [bundle EXCEPT ![s] = [state |-> "pending",
                                                mint |-> Mint(sell[s].pos)]]
    /\ UNCHANGED <<memVars, redisVars, metricVars, records, buy, tick, check, kill, lots,
                   restarts>>

SellLanded(s) ==
    /\ sell[s].pc = "await"
    /\ CtxLive(s)
    /\ Reports(s, TRUE)
    /\ SellGoes(s, "close")
    /\ UNCHANGED <<memVars, redisVars, metricVars, records, buy, tick, check, kill,
                   chainVars, restarts>>

\* Not landed, not seen to land, or the context is gone.
SellMissed(s) ==
    /\ sell[s].pc = "await"
    /\ Reports(s, FALSE)
    /\ Reverts(s)

CloseSold(s) ==
    LET p == sell[s].pos IN
    /\ sell[s].pc = "close"
    /\ pos' = [pos EXCEPT ![p].status = "sold"]
    /\ sell' = [sell EXCEPT ![s].pc = "unmap", ![s].delta = Delta(pos[p].quoted)]
    /\ UNCHANGED <<positions, redisVars, metricVars, records, buy, tick, check, kill,
                   chainVars, restarts>>

\* Fault: the Redis entry goes before the map entry.
CloseUnmapSwapped(s) ==
    /\ sell[s].pc = "unmap"
    /\ saved' = [saved EXCEPT ![Mint(sell[s].pos)] = None]
    /\ SellGoes(s, "unsave")
    /\ UNCHANGED <<memVars, killswitch, traj, pnl, blacklist, metricVars, records, buy,
                   tick, check, kill, chainVars, restarts>>

\* The map entry is deleted by key.
CloseUnmap(s) ==
    /\ sell[s].pc = "unmap"
    /\ positions' = [positions EXCEPT ![Mint(sell[s].pos)] = None]
    /\ SellGoes(s, "unsave")
    /\ UNCHANGED <<pos, redisVars, metricVars, records, buy, tick, check, kill, chainVars,
                   restarts>>

CloseUnsave(s) ==
    /\ sell[s].pc = "unsave"
    /\ \E ok \in SellOutcomes(s) :
         saved' = IF ok THEN [saved EXCEPT ![Mint(sell[s].pos)] = None] ELSE saved
    /\ SellGoes(s, "book")
    /\ UNCHANGED <<memVars, killswitch, traj, pnl, blacklist, metricVars, records, buy,
                   tick, check, kill, chainVars, restarts>>

CloseBook(s) ==
    LET p == sell[s].pos IN
    /\ sell[s].pc = "book"
    /\ \E n \in SellIncrements(s) : pnl' = [pnl EXCEPT ![p] = @ + n]
    /\ active' = active - 1
    /\ labels' = labels \ {Mint(p)}
    /\ SellGoes(s, "record")
    /\ UNCHANGED <<memVars, killswitch, saved, traj, blacklist, tips, shown, records, buy,
                   tick, check, kill, chainVars, restarts>>

\* The positions whose points a read of trajectory:{m} returns.
Owners(m) == {traj[m][i].pos : i \in 1..Len(traj[m])}

\* The trajectory is read and the record written, each of which may fail. A live stop
\* loss also adds the pool, one per mint, to the blacklist.
CloseRecord(s) ==
    LET p == sell[s].pos IN
    /\ sell[s].pc = "record"
    /\ \E read \in SellOutcomes(s), ok \in Outcomes :
         records' = IF ok
                    THEN [records EXCEPT ![p] =
                            Append(@, [trigger |-> sell[s].trigger, delta |-> sell[s].delta,
                                       owners |-> IF read THEN Owners(Mint(p)) ELSE {}])]
                    ELSE records
    /\ IF ~SimulationMode /\ sell[s].trigger = "stop_loss"
       THEN \E ok \in SellOutcomes(s) :
              blacklist' = IF ok THEN blacklist \cup {Mint(p)} ELSE blacklist
       ELSE UNCHANGED blacklist
    /\ SellReturns(s)
    /\ UNCHANGED <<memVars, killswitch, saved, traj, pnl, metricVars, buy, tick, check,
                   kill, chainVars, restarts>>

-----------------------------------------------------------------------------
(* KillSwitch and DisarmKillSwitch, called from the HTTP handler *)

KillArm(h) ==
    /\ kill[h].pc = "idle"
    /\ killswitch' = TRUE
    /\ kill' = [kill EXCEPT ![h].pc = "snapshot"]
    /\ UNCHANGED <<memVars, saved, traj, pnl, blacklist, metricVars, records, buy, tick,
                   check, sell, chainVars, restarts>>

\* SetKillSwitch returns an error, sent to Redis or not: the handler answers 500.
KillArmFails(h) ==
    /\ kill[h].pc = "idle"
    /\ IOFaults
    /\ killswitch' \in {killswitch, TRUE}
    /\ kill' = [kill EXCEPT ![h].pc = "done"]
    /\ UNCHANGED <<memVars, saved, traj, pnl, blacklist, metricVars, records, buy, tick,
                   check, sell, chainVars, restarts>>

KillSnapshot(h) ==
    /\ kill[h].pc = "snapshot"
    /\ kill' = [kill EXCEPT ![h] = [pc |-> "loop", todo |-> Mapped]]
    /\ UNCHANGED <<memVars, redisVars, metricVars, records, buy, tick, check, sell,
                   chainVars, restarts>>

\* pos.Status is read without pos.mu.
Dumpable(m) == positions[m] # None /\ pos[positions[m]].status = "open"

KillDump(h, m, s) ==
    /\ kill[h].pc = "loop" /\ m \in kill[h].todo
    /\ Dumpable(m)
    /\ FreeSell(s)
    /\ sell' = [sell EXCEPT ![s] = Spawned(positions[m], "kill_switch", h)]
    /\ bundle' = [bundle EXCEPT ![s] = NoBundle]
    /\ kill' = [kill EXCEPT ![h].todo = @ \ {m}]
    /\ UNCHANGED <<memVars, redisVars, metricVars, records, buy, tick, check, lots,
                   restarts>>

KillSkip(h, m) ==
    /\ kill[h].pc = "loop" /\ m \in kill[h].todo
    /\ ~Dumpable(m)
    /\ kill' = [kill EXCEPT ![h].todo = @ \ {m}]
    /\ UNCHANGED <<memVars, redisVars, metricVars, records, buy, tick, check, sell,
                   chainVars, restarts>>

\* The handler answers; net/http cancels the request context.
KillReturn(h) ==
    /\ kill[h].pc = "loop" /\ kill[h].todo = {}
    /\ kill' = [kill EXCEPT ![h].pc = "done"]
    /\ UNCHANGED <<memVars, redisVars, metricVars, records, buy, tick, check, sell,
                   chainVars, restarts>>

Disarm ==
    /\ killswitch
    /\ Kills # {}
    /\ killswitch' = FALSE
    /\ UNCHANGED <<memVars, saved, traj, pnl, blacklist, metricVars, records, threadVars,
                   chainVars, restarts>>

-----------------------------------------------------------------------------
(* The environment *)

\* A submitted bundle lands or dies. A sell of a token no longer held fails.
BundleSettles(t) ==
    LET m == bundle[t].mint IN
    /\ bundle[t].state = "pending"
    /\ \/ /\ t \in Buys
          /\ lots' = [lots EXCEPT ![m] = @ + 1]
          /\ bundle' = [bundle EXCEPT ![t].state = "landed"]
       \/ /\ t \in Sells /\ lots[m] > 0
          /\ lots' = [lots EXCEPT ![m] = @ - 1]
          /\ bundle' = [bundle EXCEPT ![t].state = "landed"]
       \/ /\ bundle' = [bundle EXCEPT ![t].state = "dead"]
          /\ UNCHANGED lots
    /\ UNCHANGED <<memVars, redisVars, metricVars, records, threadVars, restarts>>

Elapse(b) ==
    /\ pos[b].status \in {"open", "selling"}
    /\ pos[b].age < MaxAge
    /\ pos' = [pos EXCEPT ![b].age = @ + 1]
    /\ UNCHANGED <<positions, redisVars, metricVars, records, threadVars, chainVars,
                   restarts>>

\* A crash or a deploy: memory, goroutines and metrics are gone; Redis, the
\* dataset file, the chain and the bundles in flight stay. New reads nothing back. A
\* signal on its way is gone as well; the waiting ones have not been sent yet.
Restart ==
    /\ restarts < MaxRestarts
    /\ restarts' = restarts + 1
    /\ positions' = [m \in Mints |-> None]
    /\ pos' = [b \in Buys |-> Absent]
    /\ active' = 0 /\ labels' = {} /\ tips' = NoTips /\ shown' = NoTips
    /\ \E waiting \in SUBSET {b \in Buys : buy[b].pc = "idle"} :
         buy' = [b \in Buys |-> IF b \in waiting THEN NewBuy ELSE [NewBuy EXCEPT !.pc = "done"]]
    /\ tick' = [pc |-> "idle", todo |-> {}]
    /\ check' = [c \in Checks |-> NewCheck]
    /\ sell' = [s \in Sells |-> NewSell]
    /\ kill' = [h \in Kills |-> [pc |-> IF kill[h].pc = "idle" THEN "idle" ELSE "done",
                                 todo |-> {}]]
    /\ UNCHANGED <<redisVars, records, chainVars>>

-----------------------------------------------------------------------------
BuyStep(b) ==
    \/ BuyGate(b) \/ BuyLookup(b) \/ BuyBuildFails(b) \/ BuyBuilt(b) \/ BuyReport(b)
    \/ BuyShowRatio(b) \/ BuyInsert(b) \/ BuyPersist(b) \/ BuyPublish(b)

TickStep ==
    \/ TickStart \/ TickSnapshot
    \/ \E m \in Mints : TickSkip(m) \/ \E c \in Checks : TickSpawn(m, c)

CheckStep(c) ==
    \/ CheckClosing(c) \/ CheckOpen(c) \/ CheckReadFails(c) \/ CheckStale(c)
    \/ CheckHold(c) \/ CheckGauge(c)
    \/ \E s \in Sells : CheckClaim(c, s)

SellStep(s) ==
    \/ SellClaim(s) \/ SellBuildFails(s) \/ SellPanics(s) \/ SellBuilt(s)
    \/ SellLanded(s) \/ SellMissed(s) \/ CloseSold(s) \/ CloseUnmap(s)
    \/ CloseUnsave(s) \/ CloseBook(s) \/ CloseRecord(s)

KillStep(h) ==
    \/ KillArm(h) \/ KillArmFails(h) \/ KillSnapshot(h) \/ KillReturn(h)
    \/ \E m \in Mints : KillSkip(h, m) \/ \E s \in Sells : KillDump(h, m, s)

Next ==
    \/ \E b \in Buys : BuyStep(b) \/ Elapse(b)
    \/ TickStep
    \/ \E c \in Checks : CheckStep(c)
    \/ \E s \in Sells : SellStep(s)
    \/ \E h \in Kills : KillStep(h)
    \/ Disarm
    \/ \E t \in Buys \cup Sells : BundleSettles(t)
    \/ Restart

Spec == Init /\ [][Next]_vars
-----------------------------------------------------------------------------
(* Properties *)

Positions == [status : {"absent", "open", "selling", "sold"}, quoted : LastQuotes,
              age : 0..MaxAge, snaps : SUBSET Milestones]
Tips == [attempts : Nat, landed : Nat]
Batches == [pos : Buys, marks : SUBSET Milestones, again : SUBSET Milestones,
            elapsed : 0..MaxAge]
Records == [trigger : Triggers, delta : Deltas, owners : SUBSET Buys]
Buyers == [pc : {"idle", "lookup", "build", "await", "ratio", "insert", "persist",
                 "publish", "done"}, landed : BOOLEAN, seen : Tips]
Checkers == [pc : {"first", "read", "gauge"}, pos : Buys, elapsed : 0..MaxAge]
Sellers == [pc : {"claim", "build", "await", "close", "unmap", "unsave", "book", "record"},
            pos : Buys, trigger : Triggers, req : Kills \cup {None}, delta : Deltas]
Bundles == [state : {"pending", "landed", "dead"}, mint : Mints]

MemoryOK ==
    /\ positions \in [Mints -> Buys \cup {None}]
    /\ pos \in [Buys -> Positions]
RedisOK ==
    /\ killswitch \in BOOLEAN
    /\ saved \in [Mints -> Buys \cup {None}]
    /\ traj \in [Mints -> Seq(Batches)]
    /\ pnl \in [Buys -> Nat]
    /\ blacklist \subseteq Mints
MetricsOK ==
    /\ active \in Int
    /\ labels \subseteq Mints
    /\ tips \in Tips
    /\ shown \in Tips
ThreadsOK ==
    /\ buy \in [Buys -> Buyers]
    /\ tick \in [pc : {"idle", "snapshot", "loop"}, todo : SUBSET Mints]
    /\ check \in [Checks -> Checkers \cup {NewCheck}]
    /\ sell \in [Sells -> Sellers \cup {NewSell}]
    /\ kill \in [Kills -> [pc : {"idle", "snapshot", "loop", "done"}, todo : SUBSET Mints]]
ChainOK ==
    /\ bundle \in [Buys \cup Sells -> Bundles \cup {NoBundle}]
    /\ lots \in [Mints -> Nat]

\* Every variable, and with it every goroutine's local state, has its type: a
\* goroutine that runs has a position, and a position's milestones and age are in range.
TypeOK ==
    /\ MemoryOK
    /\ RedisOK
    /\ MetricsOK
    /\ records \in [Buys -> Seq(Records)]
    /\ ThreadsOK
    /\ ChainOK
    /\ restarts \in 0..MaxRestarts

\* The comment at the claim in executeSell says it "prevents duplicate sells from
\* concurrent monitor ticks or kill-switch races": no two sells of one position run
\* at the same time. It holds of the monitor alone, not with the kill switch.
SingleSeller ==
    \A s, t \in Sells :
      s # t /\ sell[s].pos # None /\ sell[t].pos # None => sell[s].pos # sell[t].pos

\* One close at most is booked for a position, however many ticks, retries and sellers
\* work on it: one dataset record, and what one IncrByFloat adds to the P&L. That is one
\* result, unless Redis fails: then the client may send the command several times, and
\* the result counts as often as it arrives.
BookedOnce == \A b \in Buys : Len(records[b]) <= 1 /\ pnl[b] <= MaxIncrement

\* Before savePosition, on the way to a close, and after CloseSold.
Unopened == {"idle", "lookup", "build", "await", "ratio", "insert"}
Selling == {"claim", "build", "await", "close"}
Closing == {"unmap", "unsave", "book", "record"}

\* The status says how far the one seller of a position is.
StatusTellsSeller ==
    /\ \A b \in Buys : buy[b].pc \in Unopened => pos[b].status = "absent"
    /\ \A s \in Sells :
         /\ sell[s].pc \in Selling => pos[sell[s].pos].status = "selling"
         /\ sell[s].pc \in Closing => pos[sell[s].pos].status = "sold"

\* Nothing is booked for a position before its seller gets there.
NotYetBooked ==
    /\ \A b \in Buys :
         buy[b].pc \in Unopened \/ pos[b].status \in {"open", "selling"} =>
           records[b] = <<>> /\ pnl[b] = 0
    /\ \A s \in Sells :
         /\ sell[s].pc \in Closing => records[sell[s].pos] = <<>>
         /\ sell[s].pc \in Closing \ {"record"} => pnl[sell[s].pos] = 0

\* What the monitor, the retries and the closes preserve together: SingleSeller and
\* BookedOnce, with what makes them inductive. It needs Kills = {}.
SaleInv == SingleSeller /\ StatusTellsSeller /\ NotYetBooked /\ BookedOnce

\* Overlapping checkPosition goroutines that measured elapsed in one order and got the
\* lock in another still write the milestones of a position in ascending order and with
\* ascending ages, each by one append only: a milestone stands twice in the list only
\* where the Redis client sent that append again.
TrajectoryOrdered ==
    \A m \in Mints : \A i, j \in 1..Len(traj[m]) :
      i < j /\ traj[m][i].pos = traj[m][j].pos =>
        /\ traj[m][i].elapsed < traj[m][j].elapsed
        /\ \A k \in traj[m][i].marks, l \in traj[m][j].marks : k < l

\* A point was appended after its position was opened and recorded a milestone its age
\* had reached; every milestone up to that age is flagged in the position.
PointsAreFlagged ==
    \A m \in Mints : \A i \in 1..Len(traj[m]) :
      LET x == traj[m][i] IN
        /\ buy[x.pos].pc \notin Unopened
        /\ \A k \in x.marks : k <= x.elapsed
        /\ pos[x.pos].status # "absent" =>
             \A k \in Milestones : k <= x.elapsed => k \in pos[x.pos].snaps

\* Only opened positions have sellers.
SellersHaveOpened ==
    /\ \A b \in Buys : buy[b].pc \in Unopened => pos[b].status = "absent"
    /\ \A s \in Sells : sell[s].pos # None => pos[sell[s].pos].status # "absent"

\* TrajectoryOrdered and what makes it inductive, the kill switch included.
TrajectoryInv == TrajectoryOrdered /\ PointsAreFlagged /\ SellersHaveOpened

\* The ActivePositions gauge, once the Incs and Decs still to come are counted, is the
\* number of positions in the map: savePosition and closePosition move the map and the
\* gauge at different times, in an order no test fixes.
GaugeExact ==
    active + Cardinality({b \in Buys : buy[b].pc \in {"persist", "publish"}})
      = Cardinality(Mapped) + Cardinality({s \in Sells : sell[s].pc \in {"unsave", "book"}})

\* Every position in the map is in the Redis hash positions:open once savePosition has
\* written it; no close of another position of the token takes it out.
OpenIsSaved ==
    \A m \in Mints :
      positions[m] # None /\ buy[positions[m]].pc # "persist" => saved[m] = positions[m]

\* The closes booked for a token, and the sellers whose sale of it has landed.
Entries(m) == UNION {{b} \X DOMAIN records[b] : b \in {a \in Buys : Mint(a) = m}}
HasProceeds(s) ==
    \/ sell[s].pc = "await" /\ bundle[s].state = "landed"
    \/ sell[s].pc = "close"
    \/ sell[s].pc \in Closing
Proceeds(m) == {s \in Sells : HasProceeds(s) /\ Mint(sell[s].pos) = m}
Landed(m) == {b \in Buys : Mint(b) = m /\ bundle[b].state = "landed"}

\* No close is booked that no sale paid for: what is booked for a token, or about to be,
\* together with the lots still in the wallet, never exceeds what was bought of it. Sells
\* of one position by the monitor and the kill switch, retries after a landing that was
\* missed, and restarts with bundles in flight can only lose a sale, never invent one.
BookedIsSold ==
    ~SimulationMode =>
      \A m \in Mints :
        lots[m] + Cardinality(Entries(m)) + Cardinality(Proceeds(m))
          <= Cardinality(Landed(m))

\* A position that reached "sold" never changes status again.
SoldIsFinal ==
    [][\A b \in Buys : pos[b].status = "sold" => pos'[b].status \in {"sold", "absent"}]_vars

-----------------------------------------------------------------------------
(* Refinement *)

\* A position that is open or being sold is "open" in the ledger: failed sells and
\* retries are stutters.
Ledger == INSTANCE PositionLedger WITH
    stage <- [b \in Buys |->
                CASE pos[b].status = "absent" -> "none"
                  [] pos[b].status \in {"open", "selling"} -> "open"
                  [] OTHER -> "sold"],
    entry <- [b \in Buys |->
                [i \in 1..Len(records[b]) |->
                   [trigger |-> records[b][i].trigger, delta |-> records[b][i].delta]]]

\* Without the kill switch and restarts, the goroutines together behave as the ledger:
\* each position is opened, sold and booked once, and the reason in its dataset record
\* agrees with the P&L booked for it, although the quote that decided the exit and the
\* one the close reads are taken in different critical sections.
ImplementsLedger == Ledger!Spec

-----------------------------------------------------------------------------
(* Liveness *)

\* Goroutines are scheduled, time passes and submitted bundles land or die, though the
\* bot may never learn of a landing. A quote that is possible again and again happens:
\* the price reads do not fail for ever.
Fairness ==
    /\ \A b \in Buys : WF_vars(BuyStep(b)) /\ WF_vars(Elapse(b))
    /\ WF_vars(TickStep)
    /\ \A c \in Checks :
         /\ WF_vars(CheckStep(c))
         /\ SF_vars(CheckHold(c) \/ \E s \in Sells : CheckClaim(c, s))
    /\ \A s \in Sells : WF_vars(SellStep(s)) /\ WF_vars(BundleSettles(s))
    /\ \A h \in Kills : WF_vars(KillSnapshot(h)) /\ WF_vars(KillReturn(h))
    /\ \A h \in Kills, m \in Mints :
         WF_vars(KillSkip(h, m) \/ \E s \in Sells : KillDump(h, m, s))

FairSpec == Spec /\ Fairness

\* The monitor never gives a position up: an open one is claimed for a sale, by price or
\* by age, a claimed one is sold or open again for the next try, and a sold one leaves
\* the map, through any number of failed quotes, of sells that failed or whose landing was
\* missed, and of Redis errors. That a try succeeds is not promised: a lot sold unnoticed
\* leaves nothing to sell.
KeepsTrying ==
    \A b \in Buys :
      /\ pos[b].status = "open" ~> pos[b].status = "selling"
      /\ pos[b].status = "selling" ~> pos[b].status \in {"open", "sold"}
      /\ pos[b].status = "sold" ~> positions[Mint(b)] = None

\* The PRD says the kill switch will "dump all open positions immediately": a position
\* KillSwitch found in the map is closed, or the operator disarms the switch first.
KillSells ==
    \A b \in Buys :
      (/\ pos[b].status = "open"
       /\ \E h \in Kills : Mint(b) \in kill[h].todo)
        ~> (~killswitch \/ Len(records[b]) > 0)
=============================================================================
