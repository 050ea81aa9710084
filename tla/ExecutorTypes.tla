--------------------------- MODULE ExecutorTypes ---------------------------
(***************************************************************************)
(* Type correctness of Executor, for every value of its constants.  One    *)
(* lemma per goroutine; each action changes one or two of the groups of    *)
(* variables TypeOK is made of, and the frame lemmas carry the others.      *)
(***************************************************************************)
EXTENDS Executor, TLAPS

LEMMA InitType == Init => TypeOK
<1> SUFFICES ASSUME Init PROVE TypeOK OBVIOUS
<1> USE DEF Init
<1>1. MemoryOK BY BoundsAssumption DEF MemoryOK, Absent, Positions, LastQuotes
<1>2. RedisOK
  <2>1. pnl \in [Buys -> Nat] OBVIOUS
  <2>2. traj \in [Mints -> Seq(Batches)] OBVIOUS
  <2> QED BY <2>1, <2>2 DEF RedisOK
<1>3. MetricsOK BY DEF MetricsOK, NoTips, Tips
<1>4. records \in [Buys -> Seq(Records)] OBVIOUS
<1>5. ThreadsOK BY DEF ThreadsOK, NewBuy, Buyers, NoTips, Tips
<1>6. ChainOK BY DEF ChainOK
<1> QED BY <1>1, <1>2, <1>3, <1>4, <1>5, <1>6, BoundsAssumption DEF TypeOK

LEMMA MemoryFrame == MemoryOK /\ UNCHANGED memVars => MemoryOK'
BY DEF MemoryOK, memVars
LEMMA RedisFrame == RedisOK /\ UNCHANGED redisVars => RedisOK'
BY DEF RedisOK, redisVars
LEMMA MetricsFrame == MetricsOK /\ UNCHANGED metricVars => MetricsOK'
BY DEF MetricsOK, metricVars
LEMMA ChainFrame == ChainOK /\ UNCHANGED chainVars => ChainOK'
BY DEF ChainOK, chainVars

LEMMA BuyPc ==
    ASSUME ThreadsOK, NEW b \in Buys, 
      NEW pc \in {"idle", "lookup", "build", "await", "ratio", "insert", "persist", "publish", "done"}, BuyGoes(b, pc),
      UNCHANGED <<tick, check, sell, kill>>
    PROVE ThreadsOK'
BY DEF ThreadsOK, BuyGoes, Buyers

LEMMA BuyType ==
    ASSUME TypeOK, NEW b \in Buys, BuyStep(b)
    PROVE  TypeOK'
<1> USE MemoryFrame, RedisFrame, MetricsFrame, ChainFrame DEF TypeOK
<1>1. CASE BuyGate(b)
  BY <1>1, BuyPc DEF BuyGate
<1>2. CASE BuyLookup(b)
  BY <1>2, BuyPc DEF BuyLookup
<1>3. CASE BuyBuildFails(b)
  BY <1>3, BuyPc DEF BuyBuildFails
<1>4. CASE BuyBuilt(b)
  <2>1. ThreadsOK' BY <1>4, BuyPc DEF BuyBuilt
  <2>2. [state |-> "pending", mint |-> Mint(b)] \in Bundles
    BY SignalsAssumption DEF Bundles, Mint
  <2>3. bundle' \in [Buys \cup Sells -> Bundles \cup {NoBundle}]
    BY <1>4, <2>2 DEF BuyBuilt, ChainOK
  <2>4. ChainOK' BY <1>4, <2>3 DEF BuyBuilt, ChainOK
  <2> QED BY <1>4, <2>1, <2>4 DEF BuyBuilt
<1>5. CASE BuyReport(b)
  <2>1. tips' \in Tips BY <1>5 DEF BuyReport, MetricsOK, Tips
  <2>2. ThreadsOK' BY <1>5, <2>1 DEF BuyReport, ThreadsOK, Buyers
  <2> QED BY <1>5, <2>1, <2>2 DEF BuyReport, MetricsOK
<1>6. CASE BuyShowRatio(b)
  <2>1. buy[b] \in Buyers BY DEF ThreadsOK
  <2>2. shown' \in Tips BY <1>6, <2>1 DEF BuyShowRatio, Buyers
  <2>3. ThreadsOK' BY <1>6, <2>1 DEF BuyShowRatio, ThreadsOK, Buyers, NoTips, Tips
  <2> QED BY <1>6, <2>2, <2>3 DEF BuyShowRatio, MetricsOK
<1>7. CASE BuyInsert(b)
  <2>1. ThreadsOK' BY <1>7, BuyPc DEF BuyInsert
  <2>2. NewPosition \in Positions BY BoundsAssumption DEF NewPosition, Positions, LastQuotes
  <2>3. MemoryOK' BY <1>7, <2>2, SignalsAssumption DEF BuyInsert, MemoryOK, Mint
  <2> QED BY <1>7, <2>1, <2>3 DEF BuyInsert
<1>8. CASE BuyPersist(b)
  <2>1. ThreadsOK' BY <1>8, BuyPc DEF BuyPersist
  <2>2. RedisOK' BY <1>8, SignalsAssumption DEF BuyPersist, RedisOK, Mint
  <2> QED BY <1>8, <2>1, <2>2 DEF BuyPersist
<1>9. CASE BuyPublish(b)
  <2>1. ThreadsOK' BY <1>9, BuyPc DEF BuyPublish
  <2>2. MetricsOK' BY <1>9, SignalsAssumption DEF BuyPublish, MetricsOK, Mint
  <2> QED BY <1>9, <2>1, <2>2 DEF BuyPublish
<1> QED
  BY <1>1, <1>2, <1>3, <1>4, <1>5, <1>6, <1>7, <1>8, <1>9 DEF BuyStep

LEMMA CheckPos ==
    ASSUME ThreadsOK, NEW c \in Checks, check[c].pc # "idle"
    PROVE  check[c] \in Checkers /\ check[c].pos \in Buys /\ check[c].elapsed \in 0..MaxAge
BY DEF ThreadsOK, NewCheck, Checkers

LEMMA SellPos ==
    ASSUME ThreadsOK, NEW s \in Sells, sell[s].pc # "idle"
    PROVE  /\ sell[s] \in Sellers
           /\ sell[s].pos \in Buys
           /\ sell[s].trigger \in Triggers
           /\ sell[s].delta \in Deltas
BY DEF ThreadsOK, NewSell, Sellers

TickTodo(t) == t \in [pc : {"idle", "snapshot", "loop"}, todo : SUBSET Mints]

LEMMA TickType ==
    ASSUME TypeOK, TickStep
    PROVE  TypeOK'
<1> USE MemoryFrame, RedisFrame, MetricsFrame, ChainFrame DEF TypeOK
<1>0. /\ \A keys \in SUBSET Mints : TickTodo(Todo(keys))
      /\ TickTodo(tick)
  BY DEF Todo, TickTodo, ThreadsOK
<1>1. CASE TickStart
  <2>1. ThreadsOK' BY <1>1 DEF TickStart, ThreadsOK
  <2> QED BY <1>1, <2>1 DEF TickStart
<1>2. CASE TickSnapshot
  <2>1. Mapped \in SUBSET Mints BY DEF Mapped
  <2>2. ThreadsOK' BY <1>0, <1>2, <2>1 DEF TickSnapshot, ThreadsOK, TickTodo
  <2> QED BY <1>2, <2>2 DEF TickSnapshot
<1>3. ASSUME NEW m \in Mints, TickSkip(m) PROVE TypeOK'
  <2>1. tick.todo \ {m} \in SUBSET Mints BY <1>0 DEF TickTodo
  <2>2. ThreadsOK' BY <1>0, <1>3, <2>1 DEF TickSkip, ThreadsOK, TickTodo
  <2> QED BY <1>3, <2>2 DEF TickSkip
<1>4. ASSUME NEW m \in Mints, NEW c \in Checks, TickSpawn(m, c) PROVE TypeOK'
  <2>1. tick.todo \ {m} \in SUBSET Mints BY <1>0 DEF TickTodo
  <2>2. positions[m] \in Buys BY <1>4 DEF TickSpawn, MemoryOK
  <2>3. [pc |-> "first", pos |-> positions[m], elapsed |-> 0] \in Checkers
    BY <2>2, BoundsAssumption DEF Checkers
  <2>4. check' \in [Checks -> Checkers \cup {NewCheck}]
    BY <1>4, <2>3 DEF TickSpawn, ThreadsOK
  <2>5. ThreadsOK' BY <1>0, <1>4, <2>1, <2>4 DEF TickSpawn, ThreadsOK, TickTodo
  <2> QED BY <1>4, <2>5 DEF TickSpawn
<1> QED
  BY <1>1, <1>2, <1>3, <1>4 DEF TickStep

LEMMA ExitType ==
    ASSUME NEW q \in Quotes, NEW e \in 0..MaxAge
    PROVE  Exit(q, e) \in Triggers \cup {None}
BY BoundsAssumption, QuotesAssumption DEF Exit, PriceTells, Triggers

LEMMA SpawnType ==
    ASSUME ThreadsOK, NEW s \in Sells, NEW p \in Buys, NEW t \in Triggers,
           NEW r \in Kills \cup {None}, sell' = [sell EXCEPT ![s] = Spawned(p, t, r)]
    PROVE  sell' \in [Sells -> Sellers \cup {NewSell}]
<1>1. Spawned(p, t, r) \in Sellers
  BY DEF Spawned, Sellers, Deltas
<1> QED
  BY <1>1 DEF ThreadsOK

LEMMA CheckFree ==
    ASSUME ThreadsOK, NEW c \in Checks, check' = [check EXCEPT ![c] = NewCheck],
           UNCHANGED <<buy, tick, sell, kill>>
    PROVE  ThreadsOK'
BY DEF ThreadsOK

LEMMA ObserveType ==
    ASSUME TypeOK, NEW c \in Checks, NEW q \in Quotes, NEW st \in {"open", "selling"},
           Observe(c, q, st)
    PROVE  /\ MemoryOK' /\ RedisOK' /\ MetricsOK'
           /\ records' \in [Buys -> Seq(Records)]
           /\ check' \in [Checks -> Checkers \cup {NewCheck}]
           /\ lots' \in [Mints -> Nat] /\ restarts' \in 0..MaxRestarts
           /\ UNCHANGED <<buy, tick, kill>>
<1> USE DEF TypeOK
<1> DEFINE p == check[c].pos
           due == Due(p, check[c].elapsed)
<1>1. p \in Buys /\ check[c] \in Checkers /\ check[c].elapsed \in 0..MaxAge
  BY CheckPos DEF Observe
<1>2. due \in SUBSET Milestones
  BY DEF Due
<1>3. pos[p] \in Positions
  BY <1>1 DEF MemoryOK
<1>4. MemoryOK'
  <2>1. pos' = [pos EXCEPT ![p].quoted = q, ![p].snaps = @ \cup due, ![p].status = st]
    BY DEF Observe
  <2>2. pos' \in [Buys -> Positions]
    BY <1>1, <1>2, <1>3, <2>1 DEF MemoryOK, Positions, LastQuotes
  <2> QED
    BY <2>2 DEF Observe, MemoryOK
<1>5. RedisOK'
  <2>0. PICK kept \in Written(due) : \E again \in Rewritten(kept) :
          traj' = IF kept = {} THEN traj
                  ELSE [traj EXCEPT ![Mint(p)] =
                          Append(@, [pos |-> p, marks |-> kept, again |-> again,
                                     elapsed |-> check[c].elapsed])]
    BY DEF Observe
  <2>1. PICK again \in Rewritten(kept) :
          traj' = IF kept = {} THEN traj
                  ELSE [traj EXCEPT ![Mint(p)] =
                          Append(@, [pos |-> p, marks |-> kept, again |-> again,
                                     elapsed |-> check[c].elapsed])]
    BY <2>0
  <2>2. [pos |-> p, marks |-> kept, again |-> again, elapsed |-> check[c].elapsed] \in Batches
    BY <1>1, <1>2, <2>0, <2>1 DEF Batches, Written, Rewritten
  <2>3. traj' \in [Mints -> Seq(Batches)]
    BY <1>1, <2>1, <2>2, SignalsAssumption DEF RedisOK, Mint
  <2> QED
    BY <2>3 DEF Observe, RedisOK
<1>6. MetricsOK'
  BY MetricsFrame DEF Observe
<1>7. check' \in [Checks -> Checkers \cup {NewCheck}]
  <2>0. 0 \in 0..MaxAge
    BY BoundsAssumption
  <2>1. [check[c] EXCEPT !.pc = "gauge", !.elapsed = 0] \in Checkers
    BY <1>1, <2>0 DEF Checkers
  <2>2. check' = [check EXCEPT ![c] = [check[c] EXCEPT !.pc = "gauge", !.elapsed = 0]]
    BY DEF Observe, ThreadsOK
  <2> QED
    BY <2>1, <2>2 DEF ThreadsOK
<1> QED
  BY <1>4, <1>5, <1>6, <1>7 DEF Observe, ChainOK

LEMMA CheckType ==
    ASSUME TypeOK, NEW c \in Checks, CheckStep(c)
    PROVE  TypeOK'
<1> USE MemoryFrame, RedisFrame, MetricsFrame, ChainFrame DEF TypeOK
<1>1. CASE CheckReturns(c)
  BY <1>1, CheckFree DEF CheckReturns
<1>2. CASE CheckOpen(c)
  <2>1. check[c] \in Checkers /\ check[c].pos \in Buys
    BY <1>2, CheckPos DEF CheckOpen
  <2>2. pos[check[c].pos].age \in 0..MaxAge
    BY <2>1 DEF MemoryOK, Positions
  <2>3. ThreadsOK'
    BY <1>2, <2>1, <2>2 DEF CheckOpen, ThreadsOK, Checkers
  <2> QED
    BY <1>2, <2>3 DEF CheckOpen
<1>3. CASE CheckHold(c)
  <2>1. PICK q \in Quotes : Observe(c, q, "open") /\ UNCHANGED <<sell, bundle>>
    BY <1>3 DEF CheckHold
  <2> QED
    BY <2>1, ObserveType DEF ThreadsOK, ChainOK
<1>4. ASSUME NEW s \in Sells, CheckClaim(c, s) PROVE TypeOK'
  <2>1. PICK q \in Quotes :
          /\ Exit(q, check[c].elapsed) # None
          /\ Observe(c, q, "selling")
          /\ sell' = [sell EXCEPT ![s] =
                        Spawned(check[c].pos, Exit(q, check[c].elapsed), None)]
          /\ bundle' = [bundle EXCEPT ![s] = NoBundle]
    BY <1>4 DEF CheckClaim
  <2>2. check[c].pos \in Buys /\ check[c].elapsed \in 0..MaxAge
    BY <2>1, CheckPos DEF Observe
  <2>3. Exit(q, check[c].elapsed) \in Triggers
    BY <2>1, <2>2, ExitType
  <2>4. sell' \in [Sells -> Sellers \cup {NewSell}]
    BY <2>1, <2>2, <2>3, SpawnType
  <2>5. bundle' \in [Buys \cup Sells -> Bundles \cup {NoBundle}]
    BY <2>1 DEF ChainOK
  <2> QED
    BY <2>1, <2>4, <2>5, ObserveType DEF ThreadsOK, ChainOK
<1>5. CASE CheckGauge(c)
  <2>1. ThreadsOK'
    BY <1>5, CheckFree DEF CheckGauge
  <2>2. MetricsOK'
    BY <1>5, CheckPos, SignalsAssumption DEF CheckGauge, MetricsOK, Mint
  <2> QED
    BY <1>5, <2>1, <2>2 DEF CheckGauge
<1> QED
  BY <1>1, <1>2, <1>3, <1>4, <1>5
     DEF CheckStep, CheckClosing, CheckReadFails, CheckStale

LEMMA SellPc ==
    ASSUME ThreadsOK, NEW s \in Sells, sell[s].pc # "idle",
           NEW pc \in {"claim", "build", "await", "close", "unmap", "unsave", "book", "record"},
           SellGoes(s, pc), UNCHANGED <<buy, tick, check, kill>>
    PROVE  ThreadsOK'
<1>1. sell[s] \in Sellers
  BY SellPos
<1>2. [sell[s] EXCEPT !.pc = pc] \in Sellers
  BY <1>1 DEF Sellers
<1>3. sell' = [sell EXCEPT ![s] = [sell[s] EXCEPT !.pc = pc]]
  BY DEF SellGoes
<1> QED
  BY <1>2, <1>3 DEF ThreadsOK

LEMMA SellFree ==
    ASSUME ThreadsOK, NEW s \in Sells, SellReturns(s), UNCHANGED <<buy, tick, check, kill>>
    PROVE  ThreadsOK'
BY DEF ThreadsOK, SellReturns

LEMMA StatusType ==
    ASSUME MemoryOK, NEW p \in Buys, NEW st \in {"absent", "open", "selling", "sold"},
           pos' = [pos EXCEPT ![p].status = st]
    PROVE  pos' \in [Buys -> Positions]
<1>1. pos[p] \in Positions /\ [pos[p] EXCEPT !.status = st] \in Positions
  BY DEF MemoryOK, Positions
<1> QED
  BY <1>1 DEF MemoryOK

LEMMA SellType ==
    ASSUME TypeOK, NEW s \in Sells, SellStep(s)
    PROVE  TypeOK'
<1> USE MemoryFrame, RedisFrame, MetricsFrame, ChainFrame DEF TypeOK
<1> DEFINE p == sell[s].pos
<1>0. /\ sell[s].pc # "idle"
      /\ p \in Buys /\ Mint(p) \in Mints
      /\ sell[s] \in Sellers
  <2>1. sell[s].pc # "idle"
    BY DEF SellStep, SellClaim, SellBuildFails, SellPanics, SellBuilt, SellLanded, SellMissed,
           CloseSold, CloseUnmap, CloseUnsave, CloseBook, CloseRecord
  <2> QED
    BY <2>1, SellPos, SignalsAssumption DEF Mint
<1>1. CASE SellClaim(s)
  <2>1. ThreadsOK'
    BY <1>0, <1>1, SellPc, SellFree DEF SellClaim
  <2>2. pos' \in [Buys -> Positions]
    BY <1>0, <1>1, StatusType DEF SellClaim, MemoryOK
  <2> QED
    BY <1>1, <2>1, <2>2 DEF SellClaim, MemoryOK
<1>2. CASE Reverts(s)
  <2>1. ThreadsOK'
    BY <1>2, SellFree DEF Reverts
  <2>2. pos' \in [Buys -> Positions]
    BY <1>0, <1>2, StatusType DEF Reverts
  <2> QED
    BY <1>2, <2>1, <2>2 DEF Reverts, MemoryOK
<1>3. CASE SellBuilt(s)
  <2>1. ThreadsOK'
    BY <1>0, <1>3, SellPc DEF SellBuilt
  <2>2. [state |-> "pending", mint |-> Mint(p)] \in Bundles
    BY <1>0 DEF Bundles
  <2>3. bundle' \in [Buys \cup Sells -> Bundles \cup {NoBundle}]
    BY <1>3, <2>2 DEF SellBuilt, ChainOK
  <2> QED
    BY <1>3, <2>1, <2>3 DEF SellBuilt, ChainOK
<1>4. CASE SellLanded(s)
  BY <1>0, <1>4, SellPc DEF SellLanded
<1>5. CASE CloseSold(s)
  <2>1. pos' \in [Buys -> Positions]
    BY <1>0, <1>5, StatusType DEF CloseSold
  <2>2. Delta(pos[p].quoted) \in Deltas
    BY <1>0, QuotesAssumption DEF MemoryOK, Positions, LastQuotes, PriceTells, Delta, Deltas
  <2>3. [sell[s] EXCEPT !.pc = "unmap", !.delta = Delta(pos[p].quoted)] \in Sellers
    BY <1>0, <2>2 DEF Sellers
  <2>4. sell' = [sell EXCEPT ![s] = [sell[s] EXCEPT !.pc = "unmap",
                                                    !.delta = Delta(pos[p].quoted)]]
    BY <1>5 DEF CloseSold, ThreadsOK
  <2>5. ThreadsOK'
    BY <1>5, <2>3, <2>4 DEF CloseSold, ThreadsOK
  <2> QED
    BY <1>5, <2>1, <2>5 DEF CloseSold, MemoryOK
<1>6. CASE CloseUnmap(s)
  <2>1. ThreadsOK'
    BY <1>0, <1>6, SellPc DEF CloseUnmap
  <2>2. MemoryOK'
    BY <1>6 DEF CloseUnmap, MemoryOK
  <2> QED
    BY <1>6, <2>1, <2>2 DEF CloseUnmap
<1>7. CASE CloseUnsave(s)
  <2>1. ThreadsOK'
    BY <1>0, <1>7, SellPc DEF CloseUnsave
  <2>2. RedisOK'
    BY <1>7 DEF CloseUnsave, RedisOK
  <2> QED
    BY <1>7, <2>1, <2>2 DEF CloseUnsave
<1>8. CASE CloseBook(s)
  <2>1. ThreadsOK'
    BY <1>0, <1>8, SellPc DEF CloseBook
  <2>2. pnl' \in [Buys -> Nat]
    <3>1. SellIncrements(s) \subseteq Nat
      BY BoundsAssumption DEF SellIncrements, Increments, MaxIncrement
    <3>2. PICK n \in Nat : pnl' = [pnl EXCEPT ![p] = @ + n]
      BY <1>8, <3>1 DEF CloseBook
    <3> QED
      BY <1>0, <3>2 DEF RedisOK
  <2>3. RedisOK'
    BY <1>8, <2>2 DEF CloseBook, RedisOK
  <2>4. MetricsOK'
    BY <1>8 DEF CloseBook, MetricsOK
  <2> QED
    BY <1>8, <2>1, <2>3, <2>4 DEF CloseBook
<1>10. CASE SellPanics(s)
  <2>1. ThreadsOK'
    BY <1>10, SellFree DEF SellPanics
  <2> QED
    BY <1>10, <2>1 DEF SellPanics
<1>9. CASE CloseRecord(s)
  <2>1. ThreadsOK'
    BY <1>9, SellFree DEF CloseRecord
  <2>2. Owners(Mint(p)) \in SUBSET Buys
    <3>1. traj[Mint(p)] \in Seq(Batches)
      BY <1>0 DEF RedisOK
    <3>2. \A i \in 1..Len(traj[Mint(p)]) : traj[Mint(p)][i] \in Batches
      BY <3>1
    <3> QED
      BY <3>2 DEF Owners, Batches
  <2>3. PICK read \in BOOLEAN :
          \/ records' = records
          \/ records' = [records EXCEPT ![p] =
                           Append(@, [trigger |-> sell[s].trigger, delta |-> sell[s].delta,
                                      owners |-> IF read THEN Owners(Mint(p)) ELSE {}])]
    BY <1>9, ModesAssumption DEF CloseRecord, SellOutcomes, Outcomes
  <2>4. [trigger |-> sell[s].trigger, delta |-> sell[s].delta,
         owners |-> IF read THEN Owners(Mint(p)) ELSE {}] \in Records
    BY <1>0, <2>2 DEF Records, Sellers
  <2>5. records' \in [Buys -> Seq(Records)]
    <3>1. Append(records[p], [trigger |-> sell[s].trigger, delta |-> sell[s].delta,
                              owners |-> IF read THEN Owners(Mint(p)) ELSE {}])
            \in Seq(Records)
      BY <1>0, <2>4
    <3> QED
      BY <1>0, <2>3, <3>1
  <2>6. RedisOK'
    BY <1>0, <1>9 DEF CloseRecord, RedisOK
  <2> QED
    BY <1>9, <2>1, <2>5, <2>6 DEF CloseRecord
<1> QED
  BY <1>1, <1>2, <1>3, <1>4, <1>5, <1>6, <1>7, <1>8, <1>9, <1>10
     DEF SellStep, SellBuildFails, SellMissed

LEMMA KillType ==
    ASSUME TypeOK, NEW h \in Kills, KillStep(h)
    PROVE  TypeOK'
<1> USE MemoryFrame, RedisFrame, MetricsFrame, ChainFrame DEF TypeOK
<1>1. CASE KillArm(h)
  <2>1. ThreadsOK'
    BY <1>1 DEF KillArm, ThreadsOK
  <2>2. RedisOK'
    BY <1>1 DEF KillArm, RedisOK
  <2> QED
    BY <1>1, <2>1, <2>2 DEF KillArm
<1>2. CASE KillArmFails(h)
  <2>1. ThreadsOK'
    BY <1>2 DEF KillArmFails, ThreadsOK
  <2>2. RedisOK'
    BY <1>2 DEF KillArmFails, RedisOK
  <2> QED
    BY <1>2, <2>1, <2>2 DEF KillArmFails
<1>3. CASE KillSnapshot(h)
  <2>1. Mapped \in SUBSET Mints
    BY DEF Mapped
  <2>2. ThreadsOK'
    BY <1>3, <2>1 DEF KillSnapshot, ThreadsOK
  <2> QED
    BY <1>3, <2>2 DEF KillSnapshot
<1>4. CASE KillReturn(h)
  <2>1. ThreadsOK'
    BY <1>4 DEF KillReturn, ThreadsOK
  <2> QED
    BY <1>4, <2>1 DEF KillReturn
<1>5. ASSUME NEW m \in Mints, KillSkip(h, m) PROVE TypeOK'
  <2>1. ThreadsOK'
    BY <1>5 DEF KillSkip, ThreadsOK
  <2> QED
    BY <1>5, <2>1 DEF KillSkip
<1>6. ASSUME NEW m \in Mints, NEW s \in Sells, KillDump(h, m, s) PROVE TypeOK'
  <2>1. positions[m] \in Buys
    BY <1>6 DEF KillDump, Dumpable, MemoryOK
  <2>2. "kill_switch" \in Triggers
    BY DEF Triggers
  <2>3. sell' \in [Sells -> Sellers \cup {NewSell}]
    BY <1>6, <2>1, <2>2, SpawnType DEF KillDump
  <2>4. ThreadsOK'
    BY <1>6, <2>3 DEF KillDump, ThreadsOK
  <2>5. ChainOK'
    BY <1>6 DEF KillDump, ChainOK
  <2> QED
    BY <1>6, <2>4, <2>5 DEF KillDump
<1> QED
  BY <1>1, <1>2, <1>3, <1>4, <1>5, <1>6 DEF KillStep

LEMMA EnvironmentType ==
    ASSUME TypeOK,
           \/ \E b \in Buys : Elapse(b)
           \/ Disarm
           \/ \E t \in Buys \cup Sells : BundleSettles(t)
           \/ Restart
    PROVE  TypeOK'
<1> USE MemoryFrame, RedisFrame, MetricsFrame, ChainFrame DEF TypeOK
<1>t. UNCHANGED threadVars => ThreadsOK'
  BY DEF ThreadsOK, threadVars
<1>1. ASSUME NEW b \in Buys, Elapse(b) PROVE TypeOK'
  <2>1. pos[b] \in Positions
    BY DEF MemoryOK
  <2>2. pos[b].age + 1 \in 0..MaxAge
    BY <1>1, <2>1, BoundsAssumption DEF Elapse, Positions
  <2>3. [pos[b] EXCEPT !.age = pos[b].age + 1] \in Positions
    BY <2>1, <2>2 DEF Positions
  <2>4. pos' = [pos EXCEPT ![b] = [pos[b] EXCEPT !.age = pos[b].age + 1]]
    BY <1>1 DEF Elapse, MemoryOK
  <2>5. MemoryOK'
    BY <1>1, <2>3, <2>4 DEF Elapse, MemoryOK
  <2> QED
    BY <1>1, <1>t, <2>5 DEF Elapse
<1>2. CASE Disarm
  <2>1. RedisOK'
    BY <1>2 DEF Disarm, RedisOK
  <2> QED
    BY <1>2, <1>t, <2>1 DEF Disarm
<1>3. ASSUME NEW t \in Buys \cup Sells, BundleSettles(t) PROVE TypeOK'
  <2>1. bundle[t] \in Bundles
    BY <1>3 DEF BundleSettles, ChainOK, NoBundle
  <2>2. /\ [bundle[t] EXCEPT !.state = "landed"] \in Bundles
        /\ [bundle[t] EXCEPT !.state = "dead"] \in Bundles
        /\ bundle[t].mint \in Mints
    BY <2>1 DEF Bundles
  <2>3. bundle' \in [Buys \cup Sells -> Bundles \cup {NoBundle}]
    BY <1>3, <2>2 DEF BundleSettles, ChainOK
  <2>4. lots' \in [Mints -> Nat]
    BY <1>3, <2>2 DEF BundleSettles, ChainOK
  <2> QED
    BY <1>3, <1>t, <2>3, <2>4 DEF BundleSettles, ChainOK
<1>4. CASE Restart
  <2>1. MemoryOK'
    BY <1>4, BoundsAssumption DEF Restart, MemoryOK, Absent, Positions, LastQuotes
  <2>2. MetricsOK'
    BY <1>4 DEF Restart, MetricsOK, NoTips, Tips
  <2>3. [NewBuy EXCEPT !.pc = "done"] \in Buyers /\ NewBuy \in Buyers
    BY DEF NewBuy, Buyers, NoTips, Tips
  <2>4. ThreadsOK'
    BY <1>4, <2>3 DEF Restart, ThreadsOK
  <2> QED
    BY <1>4, <2>1, <2>2, <2>4, BoundsAssumption DEF Restart
<1> QED
  BY <1>1, <1>2, <1>3, <1>4

LEMMA StutterType == TypeOK /\ UNCHANGED vars => TypeOK'
<1> SUFFICES ASSUME TypeOK, UNCHANGED vars PROVE TypeOK'
  OBVIOUS
<1>1. ThreadsOK'
  BY DEF vars, threadVars, TypeOK, ThreadsOK
<1> QED
  BY <1>1, MemoryFrame, RedisFrame, MetricsFrame, ChainFrame DEF vars, TypeOK

\* Every variable of the executor keeps its type, whatever the interleaving, the faults,
\* the kill switches and the restarts.
THEOREM TypeCorrect == Spec => []TypeOK
<1>1. Init => TypeOK
  BY InitType
<1>2. TypeOK /\ [Next]_vars => TypeOK'
  BY BuyType, TickType, CheckType, SellType, KillType, EnvironmentType, StutterType
     DEF Next
<1> QED
  BY <1>1, <1>2, PTL DEF Spec
=============================================================================
