---------------------------- MODULE HoldingProofs ----------------------------
(***************************************************************************)
(* What Executor keeps of a position in several places without a common    *)
(* lock: the gauge of active positions against the map, the closes booked  *)
(* against the tokens bought and sold, and the saved entries in Redis      *)
(* against the map.  Each theorem names the constants it restricts.        *)
(***************************************************************************)
EXTENDS ExecutorProofs, FiniteSetTheorems

Ahead == {"build", "await", "ratio", "insert"}
Publishing == {b \in Buys : buy[b].pc \in {"persist", "publish"}}
Unbooked == {s \in Sells : sell[s].pc \in {"unsave", "book"}}

\* A position that is open or being sold is the one the map has for its token, a seller
\* unmaps its own position, and a buy past its dedup finds the token free.
MapInv ==
    /\ \A b \in Buys : buy[b].pc \in Ahead => positions[Mint(b)] = None
    /\ \A a, b \in Buys :
         a # b /\ Mint(a) = Mint(b) =>
           buy[a].pc \in {"idle", "done"} \/ buy[b].pc \in {"idle", "done"}
    /\ \A b \in Buys : pos[b].status \in {"open", "selling"} => positions[Mint(b)] = b
    /\ \A s \in Sells : sell[s].pc = "unmap" => positions[Mint(sell[s].pos)] = sell[s].pos
    /\ \A m \in Mints : positions[m] # None => Mint(positions[m]) = m

CountInv ==
    /\ IsFiniteSet(Mapped) /\ IsFiniteSet(Publishing) /\ IsFiniteSet(Unbooked)
    /\ GaugeExact

-----------------------------------------------------------------------------
(* The gauge *)

LEMMA MapFrame ==
    ASSUME MapInv, UNCHANGED positions,
           \A b \in Buys : buy'[b].pc \in Ahead => buy[b].pc \in Ahead,
           \A b \in Buys :
             buy'[b].pc \notin {"idle", "done"} => buy[b].pc \notin {"idle", "done"},
           \A b \in Buys :
             pos'[b].status \in {"open", "selling"} =>
               pos[b].status \in {"open", "selling"},
           \A s \in Sells :
             sell'[s].pc = "unmap" => sell[s].pc = "unmap" /\ sell'[s].pos = sell[s].pos
    PROVE  MapInv'
BY DEF MapInv

LEMMA CountFrame ==
    ASSUME CountInv, UNCHANGED <<positions, active>>, Publishing' = Publishing,
           Unbooked' = Unbooked
    PROVE  CountInv'
<1>1. Mapped' = Mapped
  BY DEF Mapped
<1> QED
  BY <1>1 DEF CountInv, GaugeExact, Publishing, Unbooked

LEMMA InitCounts == Init => MapInv /\ CountInv
<1> SUFFICES ASSUME Init PROVE MapInv /\ CountInv
  OBVIOUS
<1>1. MapInv
  BY SignalsAssumption DEF Init, MapInv, NewBuy, NewSell, Absent, Ahead, Mint
<1>2. Mapped = {} /\ Publishing = {} /\ Unbooked = {} /\ active = 0
  BY DEF Init, Mapped, Publishing, Unbooked, NewBuy, NewSell
<1> QED
  BY <1>1, <1>2, FS_EmptySet DEF CountInv, GaugeExact, Publishing, Unbooked

\* A goroutine enters a set with AddElement, leaves it with RemoveElement.
LEMMA Counts ==
    ASSUME CountInv
    PROVE  /\ Cardinality(Mapped) \in Nat /\ Cardinality(Publishing) \in Nat
           /\ Cardinality(Unbooked) \in Nat
           /\ active + Cardinality(Publishing) = Cardinality(Mapped) + Cardinality(Unbooked)
BY FS_CardinalityType DEF CountInv, GaugeExact, Publishing, Unbooked

LEMMA CountsBalance ==
    ASSUME IsFiniteSet(Mapped'), IsFiniteSet(Publishing'), IsFiniteSet(Unbooked'),
           active' + Cardinality(Publishing') =
             Cardinality(Mapped') + Cardinality(Unbooked')
    PROVE  CountInv'
BY DEF CountInv, GaugeExact, Publishing, Unbooked

LEMMA BuyCounts ==
    ASSUME TypeOK, CountInv, NEW b \in Buys, BuyStep(b),
           BuyInsert(b) => positions[Mint(b)] = None
    PROVE  CountInv'
<1> USE DEF TypeOK, ThreadsOK, MemoryOK
<1>t. /\ buy[b] \in Buyers /\ active \in Int /\ Mint(b) \in Mints
      /\ \A a \in Buys \ {b} : buy'[a] = buy[a]
      /\ UNCHANGED sell
  <2>1. \A a \in Buys \ {b} : buy'[a] = buy[a]
    BY DEF BuyStep, BuyGate, BuyLookup, BuyBuildFails, BuyBuilt, BuyReport, BuyShowRatio,
           BuyInsert, BuyPersist, BuyPublish, BuyGoes
  <2>2. UNCHANGED sell
    BY DEF BuyStep, BuyGate, BuyLookup, BuyBuildFails, BuyBuilt, BuyReport, BuyShowRatio,
           BuyInsert, BuyPersist, BuyPublish
  <2> QED
    BY <2>1, <2>2, SignalsAssumption DEF Mint, MetricsOK
<1>u. Unbooked' = Unbooked
  BY <1>t DEF Unbooked
<1>1. CASE ~BuyInsert(b) /\ ~BuyPublish(b)
  <2>1. UNCHANGED <<positions, active>>
    BY <1>1 DEF BuyStep, BuyGate, BuyLookup, BuyBuildFails, BuyBuilt, BuyReport,
                BuyShowRatio, BuyPersist, memVars, metricVars
  <2>2. buy'[b].pc \in {"persist", "publish"} <=> buy[b].pc \in {"persist", "publish"}
    <3>1. CASE BuyReport(b) \/ BuyShowRatio(b)
      BY <1>t, <3>1 DEF BuyReport, BuyShowRatio, Buyers
    <3>2. CASE ~BuyReport(b) /\ ~BuyShowRatio(b)
      <4>1. \/ /\ buy[b].pc \in {"idle", "lookup", "build"}
               /\ \E pc \in {"lookup", "build", "await", "insert", "done"} : BuyGoes(b, pc)
            \/ buy[b].pc = "persist" /\ BuyGoes(b, "publish")
        BY <1>1, <3>2 DEF BuyStep, BuyGate, BuyLookup, BuyBuildFails, BuyBuilt, BuyPersist
      <4> QED
        BY <1>t, <4>1 DEF BuyGoes, Buyers
    <3> QED
      BY <3>1, <3>2
  <2>3. Publishing' = Publishing
    BY <1>t, <2>2 DEF Publishing
  <2> QED
    BY <1>u, <2>1, <2>3, CountFrame
<1>2. CASE BuyInsert(b)
  <2>1. /\ buy[b].pc = "insert" /\ buy'[b].pc = "persist"
        /\ positions' = [positions EXCEPT ![Mint(b)] = b]
        /\ positions[Mint(b)] = None /\ UNCHANGED active
    BY <1>2, <1>t DEF BuyInsert, BuyGoes, Buyers, metricVars
  <2>2. Mapped' = Mapped \cup {Mint(b)} /\ Mint(b) \notin Mapped
    BY <1>t, <2>1, NoneAssumption DEF Mapped
  <2>3. Publishing' = Publishing \cup {b} /\ b \notin Publishing
    BY <1>t, <2>1 DEF Publishing
  <2>4. /\ IsFiniteSet(Mapped') /\ Cardinality(Mapped') = Cardinality(Mapped) + 1
        /\ IsFiniteSet(Publishing')
        /\ Cardinality(Publishing') = Cardinality(Publishing) + 1
    BY <2>2, <2>3, FS_AddElement DEF CountInv
  <2>5. IsFiniteSet(Unbooked')
    BY <1>u DEF CountInv
  <2>6. active' + Cardinality(Publishing') = Cardinality(Mapped') + Cardinality(Unbooked')
    BY <1>t, <1>u, <2>1, <2>4, Counts
  <2> QED
    BY <2>4, <2>5, <2>6, CountsBalance
<1>3. CASE BuyPublish(b)
  <2>1. /\ buy[b].pc = "publish" /\ buy'[b].pc = "done"
        /\ active' = active + 1 /\ UNCHANGED positions
    BY <1>3, <1>t DEF BuyPublish, BuyGoes, Buyers, memVars
  <2>2. Publishing' = Publishing \ {b} /\ b \in Publishing
    BY <1>t, <2>1 DEF Publishing
  <2>3. Mapped' = Mapped
    BY <2>1 DEF Mapped
  <2>4. /\ IsFiniteSet(Publishing')
        /\ Cardinality(Publishing') = Cardinality(Publishing) - 1
    BY <2>2, FS_RemoveElement DEF CountInv
  <2>5. IsFiniteSet(Mapped') /\ IsFiniteSet(Unbooked')
    BY <1>u, <2>3 DEF CountInv
  <2>6. active' + Cardinality(Publishing') = Cardinality(Mapped') + Cardinality(Unbooked')
    BY <1>t, <1>u, <2>1, <2>3, <2>4, Counts
  <2> QED
    BY <2>4, <2>5, <2>6, CountsBalance
<1> QED
  BY <1>1, <1>2, <1>3

LEMMA SellCounts ==
    ASSUME TypeOK, CountInv, NEW s \in Sells, SellStep(s),
           CloseUnmap(s) => positions[Mint(sell[s].pos)] = sell[s].pos
    PROVE  CountInv'
<1> USE DEF TypeOK, ThreadsOK, MemoryOK
<1> DEFINE p == sell[s].pos
<1>t. /\ sell[s] \in Sellers /\ p # None /\ Mint(p) \in Mints /\ active \in Int
  <2>1. sell[s].pc # "idle"
    BY DEF SellStep, SellClaim, SellBuildFails, SellPanics, SellBuilt, SellLanded, SellMissed,
           CloseSold, CloseUnmap, CloseUnsave, CloseBook, CloseRecord
  <2> QED
    BY <2>1, SellPos, NoneAssumption, SignalsAssumption DEF Mint, MetricsOK
<1>f. /\ \A t \in Sells \ {s} : sell'[t] = sell[t]
      /\ UNCHANGED buy
  BY DEF SellStep, SellClaim, SellBuildFails, SellPanics, SellBuilt, SellLanded, SellMissed, CloseSold,
         CloseUnmap, CloseUnsave, CloseBook, CloseRecord, SellGoes, SellReturns, Reverts
<1>u. Publishing' = Publishing
  BY <1>f DEF Publishing
<1>1. CASE ~CloseUnmap(s) /\ ~CloseBook(s)
  <2>1. UNCHANGED <<positions, active>>
    BY <1>1 DEF SellStep, SellClaim, SellBuildFails, SellPanics, SellBuilt, SellLanded, SellMissed,
                CloseSold, CloseUnsave, CloseRecord, Reverts, memVars, metricVars
  <2>2. sell'[s].pc \in {"unsave", "book"} <=> sell[s].pc \in {"unsave", "book"}
    <3>1. CASE CloseSold(s)
      BY <1>t, <3>1 DEF CloseSold, Sellers
    <3>2. CASE ~CloseSold(s)
      <4>1. \/ /\ sell[s].pc \in {"claim", "build", "await", "record"}
               /\ \/ SellReturns(s)
                  \/ \E pc \in {"build", "await", "close"} : SellGoes(s, pc)
            \/ sell[s].pc = "unsave" /\ SellGoes(s, "book")
        BY <1>1, <3>2 DEF SellStep, SellClaim, SellBuildFails, SellPanics, SellBuilt, SellLanded,
                          SellMissed, CloseUnsave, CloseRecord, Reverts
      <4> QED
        BY <1>t, <4>1 DEF SellGoes, SellReturns, NewSell, Sellers
    <3> QED
      BY <3>1, <3>2
  <2>3. Unbooked' = Unbooked
    BY <1>f, <2>2 DEF Unbooked
  <2> QED
    BY <1>u, <2>1, <2>3, CountFrame
<1>2. CASE CloseUnmap(s)
  <2>1. /\ sell[s].pc = "unmap" /\ sell'[s].pc = "unsave"
        /\ positions' = [positions EXCEPT ![Mint(p)] = None]
        /\ positions[Mint(p)] = p /\ UNCHANGED active
    BY <1>t, <1>2 DEF CloseUnmap, SellGoes, Sellers, metricVars
  <2>2. Mapped' = Mapped \ {Mint(p)} /\ Mint(p) \in Mapped
    BY <1>t, <2>1 DEF Mapped
  <2>3. Unbooked' = Unbooked \cup {s} /\ s \notin Unbooked
    BY <1>f, <2>1 DEF Unbooked
  <2>4. /\ IsFiniteSet(Mapped') /\ Cardinality(Mapped') = Cardinality(Mapped) - 1
        /\ IsFiniteSet(Unbooked') /\ Cardinality(Unbooked') = Cardinality(Unbooked) + 1
    BY <2>2, <2>3, FS_AddElement, FS_RemoveElement DEF CountInv
  <2>5. IsFiniteSet(Publishing')
    BY <1>u DEF CountInv
  <2>6. active' + Cardinality(Publishing') = Cardinality(Mapped') + Cardinality(Unbooked')
    BY <1>t, <1>u, <2>1, <2>4, Counts
  <2> QED
    BY <2>4, <2>5, <2>6, CountsBalance
<1>3. CASE CloseBook(s)
  <2>1. /\ sell[s].pc = "book" /\ sell'[s].pc = "record"
        /\ active' = active - 1 /\ UNCHANGED positions
    BY <1>t, <1>3 DEF CloseBook, SellGoes, Sellers, memVars
  <2>2. Unbooked' = Unbooked \ {s} /\ s \in Unbooked
    BY <1>f, <2>1 DEF Unbooked
  <2>3. Mapped' = Mapped
    BY <2>1 DEF Mapped
  <2>4. IsFiniteSet(Unbooked') /\ Cardinality(Unbooked') = Cardinality(Unbooked) - 1
    BY <2>2, FS_RemoveElement DEF CountInv
  <2>5. IsFiniteSet(Mapped') /\ IsFiniteSet(Publishing')
    BY <1>u, <2>3 DEF CountInv
  <2>6. /\ Cardinality(Mapped') = Cardinality(Mapped)
        /\ Cardinality(Publishing') = Cardinality(Publishing)
    BY <1>u, <2>3
  <2>7. active' + Cardinality(Publishing') = Cardinality(Mapped') + Cardinality(Unbooked')
    BY <1>t, <2>1, <2>4, <2>6, Counts
  <2> QED
    BY <2>4, <2>5, <2>7, CountsBalance
<1> QED
  BY <1>1, <1>2, <1>3

\* The gauge is exact if an insertion finds the token unmapped and a close finds its own
\* position there, whoever else runs.
LEMMA GaugeStep ==
    ASSUME TypeOK, CountInv, [Next]_vars,
           \A b \in Buys : BuyInsert(b) => positions[Mint(b)] = None,
           \A s \in Sells : CloseUnmap(s) => positions[Mint(sell[s].pos)] = sell[s].pos
    PROVE  CountInv'
<1>1. CASE Restart
  <2>1. /\ \A b \in Buys : buy'[b].pc \in {"idle", "done"}
        /\ \A s \in Sells : sell'[s].pc = "idle"
        /\ positions' = [m \in Mints |-> None] /\ active' = 0
    BY <1>1 DEF Restart, NewBuy, NewSell
  <2>2. Mapped' = {} /\ Publishing' = {} /\ Unbooked' = {}
    BY <2>1 DEF Mapped, Publishing, Unbooked
  <2>3. /\ IsFiniteSet(Mapped') /\ IsFiniteSet(Publishing') /\ IsFiniteSet(Unbooked')
        /\ Cardinality(Mapped') = 0 /\ Cardinality(Publishing') = 0
        /\ Cardinality(Unbooked') = 0
    BY <2>2, FS_EmptySet
  <2> QED
    BY <2>1, <2>3, CountsBalance
\* A spawned seller takes a free goroutine.
<1>2. ASSUME UNCHANGED <<positions, active, buy>>,
             \A s \in Sells :
               sell'[s] = sell[s] \/ (sell[s].pc = "idle" /\ sell'[s].pc = "claim")
      PROVE  CountInv'
  <2>1. Publishing' = Publishing /\ Unbooked' = Unbooked
    BY <1>2 DEF Publishing, Unbooked
  <2> QED
    BY <1>2, <2>1, CountFrame
<1>3. ASSUME UNCHANGED <<positions, active, buy>>, NEW s \in Sells, FreeSell(s),
             NEW x, x.pc = "claim", sell' = [sell EXCEPT ![s] = x]
      PROVE  CountInv'
  <2>1. /\ sell[s].pc = "idle" /\ sell'[s].pc = "claim"
        /\ \A t \in Sells \ {s} : sell'[t] = sell[t]
    BY <1>3 DEF FreeSell, TypeOK, ThreadsOK
  <2>2. ASSUME NEW t \in Sells
        PROVE  sell'[t] = sell[t] \/ (sell[t].pc = "idle" /\ sell'[t].pc = "claim")
    BY <2>1
  <2> QED
    BY <1>2, <1>3, <2>2
<1>4. ASSUME UNCHANGED <<positions, active, buy, sell>> PROVE CountInv'
  <2>1. ASSUME NEW s \in Sells
        PROVE  sell'[s] = sell[s] \/ (sell[s].pc = "idle" /\ sell'[s].pc = "claim")
    BY <1>4
  <2>2. UNCHANGED <<positions, active, buy>>
    BY <1>4
  <2> QED
    BY <1>2, <2>1, <2>2
<1>5. ASSUME NEW c \in Checks, CheckStep(c) PROVE CountInv'
  <2>1. CASE \E s \in Sells : CheckClaim(c, s)
    <3>1. PICK s \in Sells : CheckClaim(c, s)
      BY <2>1
    <3>2. /\ FreeSell(s) /\ UNCHANGED <<positions, active, buy>>
          /\ \E x : x.pc = "claim" /\ sell' = [sell EXCEPT ![s] = x]
      BY <3>1 DEF CheckClaim, Observe, Spawned, metricVars
    <3> QED
      BY <1>3, <3>2
  <2>2. CASE ~\E s \in Sells : CheckClaim(c, s)
    <3>1. UNCHANGED <<positions, active, buy, sell>>
      BY <1>5, <2>2 DEF CheckStep, CheckClosing, CheckOpen, CheckReadFails, CheckStale,
                        CheckHold, Observe, CheckGauge, CheckReturns, memVars, metricVars
    <3> QED
      BY <1>4, <3>1
  <2> QED
    BY <2>1, <2>2
<1>6. ASSUME NEW h \in Kills, KillStep(h) PROVE CountInv'
  <2>1. CASE \E m \in Mints, s \in Sells : KillDump(h, m, s)
    <3>1. PICK m \in Mints, s \in Sells : KillDump(h, m, s)
      BY <2>1
    <3>2. /\ FreeSell(s) /\ UNCHANGED <<positions, active, buy>>
          /\ \E x : x.pc = "claim" /\ sell' = [sell EXCEPT ![s] = x]
      BY <3>1 DEF KillDump, Spawned, memVars, metricVars
    <3> QED
      BY <1>3, <3>2
  <2>2. CASE ~\E m \in Mints, s \in Sells : KillDump(h, m, s)
    <3>1. UNCHANGED <<positions, active, buy, sell>>
      BY <1>6, <2>2 DEF KillStep, KillArm, KillArmFails, KillSnapshot, KillReturn, KillSkip,
                        memVars, metricVars
    <3> QED
      BY <1>4, <3>1
  <2> QED
    BY <2>1, <2>2
<1>7. ASSUME \/ \E b \in Buys : Elapse(b)
             \/ \E t \in Buys \cup Sells : BundleSettles(t)
             \/ TickStep \/ Disarm \/ UNCHANGED vars
      PROVE  CountInv'
  <2>1. UNCHANGED <<positions, active, buy, sell>>
    BY <1>7 DEF Elapse, BundleSettles, TickStep, TickStart, TickSnapshot, TickSkip,
                TickSpawn, Disarm, memVars, metricVars, threadVars, vars
  <2> QED
    BY <1>4, <2>1
<1>8. ASSUME NEW b \in Buys, BuyStep(b) PROVE CountInv'
  BY <1>8, BuyCounts
<1>9. ASSUME NEW s \in Sells, SellStep(s) PROVE CountInv'
  BY <1>9, SellCounts
<1> QED
  BY <1>1, <1>5, <1>6, <1>7, <1>8, <1>9 DEF Next

LEMMA BuyMaps ==
    ASSUME TypeOK, MapInv, NEW b \in Buys, BuyStep(b)
    PROVE  MapInv'
<1> USE DEF TypeOK, ThreadsOK, MemoryOK
<1>t. buy[b] \in Buyers /\ Mint(b) \in Mints
  BY SignalsAssumption DEF Mint
<1>1. CASE BuyGate(b)
  <2>1. /\ buy[b].pc = "idle" /\ buy'[b].pc \in {"lookup", "done"}
        /\ \A a \in Buys \ {b} : buy'[a] = buy[a]
        /\ UNCHANGED <<positions, pos, sell>>
    <3>1. BuyGoes(b, "lookup") \/ BuyGoes(b, "done")
      BY <1>1 DEF BuyGate
    <3> QED
      BY <1>1, <1>t, <3>1 DEF BuyGate, BuyGoes, Buyers, memVars
  <2>2. Alone(b)
    BY <1>1 DEF BuyGate
  <2> HIDE DEF TypeOK, ThreadsOK, MemoryOK
  <2>3. \A a \in Buys : buy'[a].pc \in Ahead => positions[Mint(a)] = None
    BY <2>1, <2>2 DEF MapInv, Ahead, Alone
  <2>4. \A a \in Buys : a # b /\ Mint(a) = Mint(b) => buy[a].pc \in {"idle", "done"}
    BY <2>2 DEF Alone
  <2>5. \A a, c \in Buys :
          a # c /\ Mint(a) = Mint(c) =>
            buy'[a].pc \in {"idle", "done"} \/ buy'[c].pc \in {"idle", "done"}
    BY <2>1, <2>4 DEF MapInv
  <2> QED
    BY <2>1, <2>3, <2>5 DEF MapInv
<1>2. CASE BuyLookup(b)
  <2>1. /\ buy[b].pc = "lookup" /\ buy'[b].pc \in {"build", "done"}
        /\ buy'[b].pc = "build" => positions[Mint(b)] = None
        /\ \A a \in Buys \ {b} : buy'[a] = buy[a]
        /\ UNCHANGED <<positions, pos, sell>>
    BY <1>2, <1>t DEF BuyLookup, Skips, BuyGoes, Buyers, memVars
  <2> QED
    BY <2>1, <1>t DEF MapInv, Ahead
<1>3. CASE \/ BuyBuildFails(b) \/ BuyBuilt(b) \/ BuyReport(b) \/ BuyShowRatio(b)
           \/ BuyPersist(b) \/ BuyPublish(b)
  <2>1. /\ \A a \in Buys \ {b} : buy'[a] = buy[a]
        /\ UNCHANGED <<positions, pos, sell>>
    BY <1>3 DEF BuyBuildFails, BuyBuilt, BuyReport, BuyShowRatio, BuyPersist, BuyPublish,
                BuyGoes, memVars
  <2>2. /\ buy[b].pc \notin {"idle", "done"}
        /\ buy'[b].pc \in Ahead => buy[b].pc \in Ahead
    BY <1>3, <1>t DEF BuyBuildFails, BuyBuilt, BuyReport, BuyShowRatio, BuyPersist,
                      BuyPublish, BuyGoes, Buyers, Ahead
  <2> QED
    BY <2>1, <2>2, MapFrame
<1>4. CASE BuyInsert(b)
  <2>1. /\ buy[b].pc = "insert" /\ buy'[b].pc = "persist"
        /\ \A a \in Buys \ {b} : buy'[a] = buy[a] /\ pos'[a] = pos[a]
        /\ positions' = [positions EXCEPT ![Mint(b)] = b]
        /\ UNCHANGED sell
    BY <1>4, <1>t DEF BuyInsert, BuyGoes, Buyers
  <2>2. positions[Mint(b)] = None
    BY <2>1 DEF MapInv, Ahead
  <2>3. \A a \in Buys \ {b} : Mint(a) = Mint(b) => buy[a].pc \in {"idle", "done"}
    BY <2>1 DEF MapInv
  <2>4. ASSUME NEW a \in Buys, buy'[a].pc \in Ahead PROVE positions'[Mint(a)] = None
    <3>1. a # b /\ buy[a].pc \in Ahead
      BY <2>1, <2>4 DEF Ahead
    <3>2. Mint(a) # Mint(b)
      BY <2>3, <3>1 DEF Ahead
    <3> QED
      BY <2>1, <3>1, <3>2 DEF MapInv
  <2>5. ASSUME NEW a \in Buys, pos'[a].status \in {"open", "selling"}
        PROVE  positions'[Mint(a)] = a
    <3>1. CASE a = b
      BY <1>t, <2>1, <3>1
    <3>2. CASE a # b
      <4>1. positions[Mint(a)] = a /\ a # None
        BY <2>1, <2>5, <3>2, NoneAssumption DEF MapInv
      <4> QED
        BY <2>1, <2>2, <4>1
    <3> QED
      BY <3>1, <3>2
  <2>6. ASSUME NEW s \in Sells, sell'[s].pc = "unmap"
        PROVE  positions'[Mint(sell'[s].pos)] = sell'[s].pos
    <3>1. sell'[s] = sell[s] /\ sell[s].pos \in Buys
      BY <2>1, <2>6, SellPos
    <3>2. positions[Mint(sell[s].pos)] = sell[s].pos
      BY <2>6, <3>1 DEF MapInv
    <3> QED
      BY <2>1, <2>2, <3>1, <3>2, NoneAssumption
  <2>7. \A a, c \in Buys :
          a # c /\ Mint(a) = Mint(c) =>
            buy'[a].pc \in {"idle", "done"} \/ buy'[c].pc \in {"idle", "done"}
    BY <2>1 DEF MapInv
  <2>8. \A m \in Mints : positions'[m] # None => Mint(positions'[m]) = m
    BY <2>1 DEF MapInv
  <2> QED
    BY <2>4, <2>5, <2>6, <2>7, <2>8 DEF MapInv
<1> QED
  BY <1>1, <1>2, <1>3, <1>4 DEF BuyStep

\* No check moves the map; a position is claimed from "open".
LEMMA CheckMaps ==
    ASSUME TypeOK, MapInv, NEW c \in Checks, CheckStep(c)
    PROVE  MapInv'
<1> USE DEF TypeOK, ThreadsOK, MemoryOK
<1>1. /\ UNCHANGED <<positions, buy>>
      /\ \A s \in Sells : sell'[s] = sell[s] \/ sell'[s].pc = "claim"
  <2>1. CASE \E s \in Sells : CheckClaim(c, s)
    BY <2>1 DEF CheckClaim, Observe, Spawned
  <2>2. CASE ~\E s \in Sells : CheckClaim(c, s)
    BY <2>2 DEF CheckStep, CheckClosing, CheckOpen, CheckReadFails, CheckStale, CheckHold,
                Observe, CheckGauge, CheckReturns, memVars
  <2> QED
    BY <2>1, <2>2
<1>2. \A b \in Buys :
        pos'[b].status \in {"open", "selling"} => pos[b].status \in {"open", "selling"}
  <2>1. CASE \E q \in Quotes, st \in {"open", "selling"} : Observe(c, q, st)
    BY <2>1 DEF Observe, StillOpen
  <2>2. CASE ~\E q \in Quotes, st \in {"open", "selling"} : Observe(c, q, st)
    BY <2>2 DEF CheckStep, CheckClosing, CheckOpen, CheckReadFails, CheckStale, CheckHold,
                CheckClaim, CheckGauge, CheckReturns, memVars
  <2> QED
    BY <2>1, <2>2
<1> QED
  BY <1>1, <1>2, MapFrame

LEMMA SellMaps ==
    ASSUME TypeOK, SaleInv, MapInv, NEW s \in Sells, SellStep(s)
    PROVE  MapInv'
<1> USE DEF TypeOK, ThreadsOK, MemoryOK
<1> DEFINE p == sell[s].pos
<1>t. /\ sell[s] \in Sellers /\ p \in Buys /\ p # None /\ Mint(p) \in Mints
      /\ pos[p] \in Positions
  <2>1. sell[s].pc # "idle"
    BY DEF SellStep, SellClaim, SellBuildFails, SellPanics, SellBuilt, SellLanded, SellMissed,
           CloseSold, CloseUnmap, CloseUnsave, CloseBook, CloseRecord
  <2> QED
    BY <2>1, SellPos, NoneAssumption, SignalsAssumption DEF Mint
<1>f. /\ \A t \in Sells \ {s} : sell'[t] = sell[t]
      /\ UNCHANGED buy
  BY DEF SellStep, SellClaim, SellBuildFails, SellPanics, SellBuilt, SellLanded, SellMissed, CloseSold,
         CloseUnmap, CloseUnsave, CloseBook, CloseRecord, SellGoes, SellReturns, Reverts
\* Before it unmaps, a seller only moves the status between the two mapped ones.
<1>1. CASE \/ SellClaim(s) \/ SellBuildFails(s) \/ SellBuilt(s) \/ SellLanded(s)
           \/ SellMissed(s)
  <2>1. pos[p].status = "selling"
    BY <1>1 DEF SellClaim, SellBuildFails, SellPanics, SellBuilt, SellLanded, SellMissed, Selling,
                SaleInv, StatusTellsSeller
  <2>2. UNCHANGED positions /\ \A b \in Buys \ {p} : pos'[b] = pos[b]
    BY <1>1 DEF SellClaim, SellBuildFails, SellPanics, SellBuilt, SellLanded, SellMissed, Reverts,
                memVars
  <2>3. sell'[s].pc # "unmap"
    <3>1. SellReturns(s) \/ \E pc \in {"build", "await", "close"} : SellGoes(s, pc)
      BY <1>1 DEF SellClaim, SellBuildFails, SellPanics, SellBuilt, SellLanded, SellMissed, Reverts
    <3> QED
      BY <1>t, <3>1 DEF SellGoes, SellReturns, NewSell, Sellers
  <2> QED
    BY <1>f, <2>1, <2>2, <2>3, MapFrame
<1>2. CASE CloseSold(s)
  <2>1. /\ sell[s].pc = "close" /\ pos[p].status = "selling" /\ pos'[p].status = "sold"
        /\ sell'[s].pc = "unmap" /\ sell'[s].pos = p
        /\ UNCHANGED positions
        /\ \A b \in Buys \ {p} : pos'[b] = pos[b]
    BY <1>t, <1>2 DEF CloseSold, Sellers, Positions, SaleInv, StatusTellsSeller, Selling
  <2>2. positions[Mint(p)] = p
    BY <1>t, <2>1 DEF MapInv
  <2> HIDE DEF TypeOK, ThreadsOK, MemoryOK
  <2>3. \A b \in Buys :
          pos'[b].status \in {"open", "selling"} => pos[b].status \in {"open", "selling"}
    BY <2>1
  <2>4. \A x \in Sells :
          sell'[x].pc = "unmap" => positions[Mint(sell'[x].pos)] = sell'[x].pos
    BY <1>f, <2>1, <2>2 DEF MapInv
  <2> QED
    BY <1>f, <2>1, <2>3, <2>4 DEF MapInv
<1>3. CASE CloseUnmap(s)
  <2>1. /\ sell[s].pc = "unmap" /\ sell'[s].pc = "unsave"
        /\ positions' = [positions EXCEPT ![Mint(p)] = None]
        /\ UNCHANGED pos
    BY <1>t, <1>3 DEF CloseUnmap, SellGoes, Sellers
  <2>2. positions[Mint(p)] = p /\ pos[p].status = "sold"
    BY <1>t, <2>1 DEF MapInv, SaleInv, StatusTellsSeller, Closing
  <2>3. ASSUME NEW b \in Buys, pos'[b].status \in {"open", "selling"}
        PROVE  positions'[Mint(b)] = b
    <3>1. positions[Mint(b)] = b /\ b # p
      BY <2>1, <2>2, <2>3 DEF MapInv
    <3> QED
      BY <2>1, <2>2, <3>1
  <2>4. ASSUME NEW t \in Sells, sell'[t].pc = "unmap"
        PROVE  positions'[Mint(sell'[t].pos)] = sell'[t].pos
    <3>1. t # s /\ sell'[t] = sell[t]
      BY <1>f, <2>1, <2>4
    <3>2. positions[Mint(sell[t].pos)] = sell[t].pos /\ sell[t].pos \in Buys
      BY <2>4, <3>1, SellPos DEF MapInv
    <3>3. sell[t].pos # p
      BY <1>t, <3>1, <3>2, NoneAssumption DEF SaleInv, SingleSeller
    <3> QED
      BY <2>1, <2>2, <3>1, <3>2, <3>3
  <2>5. \A b \in Buys : buy'[b].pc \in Ahead => positions'[Mint(b)] = None
    BY <1>f, <2>1 DEF MapInv
  <2>6. \A m \in Mints : positions'[m] # None => Mint(positions'[m]) = m
    BY <2>1 DEF MapInv
  <2> QED
    BY <1>f, <2>3, <2>4, <2>5, <2>6 DEF MapInv
<1>4. CASE SellPanics(s) \/ CloseUnsave(s) \/ CloseBook(s) \/ CloseRecord(s)
  <2>1. sell'[s].pc # "unmap" /\ UNCHANGED <<positions, pos>>
    BY <1>t, <1>4 DEF SellPanics, CloseUnsave, CloseBook, CloseRecord, SellGoes, SellReturns,
                      NewSell, Sellers, memVars
  <2> QED
    BY <1>f, <2>1, MapFrame
<1> QED
  BY <1>1, <1>2, <1>3, <1>4 DEF SellStep

LEMMA EnvironmentMaps ==
    ASSUME TypeOK, MapInv,
           \/ \E b \in Buys : Elapse(b)
           \/ \E t \in Buys \cup Sells : BundleSettles(t)
           \/ TickStep
           \/ Restart
           \/ UNCHANGED vars
    PROVE  MapInv'
<1> USE DEF TypeOK, ThreadsOK, MemoryOK
<1>1. CASE Restart
  <2>1. /\ \A b \in Buys : buy'[b].pc \in {"idle", "done"} /\ pos'[b].status = "absent"
        /\ \A s \in Sells : sell'[s].pc = "idle"
        /\ positions' = [m \in Mints |-> None]
    BY <1>1 DEF Restart, NewBuy, NewSell, Absent
  <2> QED
    BY <2>1, SignalsAssumption DEF MapInv, Ahead, Mint
<1>2. CASE ~Restart
  <2>1. UNCHANGED <<positions, buy, sell>>
    BY <1>2 DEF Elapse, BundleSettles, TickStep, TickStart, TickSnapshot, TickSkip,
                TickSpawn, memVars, threadVars, vars
  <2>2. \A b \in Buys : pos'[b].status = pos[b].status
    <3>1. CASE \E b \in Buys : Elapse(b)
      BY <3>1 DEF Elapse, Positions
    <3>2. CASE ~\E b \in Buys : Elapse(b)
      BY <1>2, <3>2 DEF BundleSettles, TickStep, TickStart, TickSnapshot, TickSkip,
                        TickSpawn, memVars, vars
    <3> QED
      BY <3>1, <3>2
  <2> QED
    BY <2>1, <2>2, MapFrame
<1> QED
  BY <1>1, <1>2

LEMMA MapStep ==
    ASSUME Kills = {}, TypeOK, SaleInv, MapInv, [Next]_vars
    PROVE  MapInv'
<1>1. ~Disarm /\ ~\E h \in Kills : KillStep(h)
  BY DEF Disarm
<1> QED
  BY <1>1, BuyMaps, CheckMaps, SellMaps, EnvironmentMaps DEF Next

LEMMA CountsStep ==
    ASSUME Kills = {}, TypeOK, SaleInv, MapInv, CountInv, [Next]_vars
    PROVE  MapInv' /\ CountInv'
<1>1. \A b \in Buys : BuyInsert(b) => positions[Mint(b)] = None
  BY DEF BuyInsert, MapInv, Ahead
<1>2. \A s \in Sells : CloseUnmap(s) => positions[Mint(sell[s].pos)] = sell[s].pos
  BY DEF CloseUnmap, MapInv
<1> QED
  BY <1>1, <1>2, GaugeStep, MapStep

LEMMA MapAndCounts == ASSUME Kills = {} PROVE Spec => [](MapInv /\ CountInv)
<1>1. Init => MapInv /\ CountInv
  BY InitCounts
<1>2. TypeOK /\ SaleInv /\ MapInv /\ CountInv /\ [Next]_vars => MapInv' /\ CountInv'
  BY CountsStep
<1> QED
  BY <1>1, <1>2, TypeCorrect, SalesAreSafe, PTL DEF Spec

\* The gauge of active positions is never off by more than the Incs and Decs that are
\* under way, for any number of positions, ticks, retries and restarts (savePosition,
\* closePosition): it does not drift.
THEOREM GaugeNeverDrifts == ASSUME Kills = {} PROVE Spec => []GaugeExact
<1>1. CountInv => GaugeExact
  BY DEF CountInv
<1> QED
  BY <1>1, MapAndCounts, PTL

-----------------------------------------------------------------------------
(* The wallet *)

\* A token's books balance against the wallet, and the sets they count are finite.
Balanced(m) ==
    /\ IsFiniteSet(Entries(m)) /\ IsFiniteSet(Proceeds(m)) /\ IsFiniteSet(Landed(m))
    /\ lots[m] + Cardinality(Entries(m)) + Cardinality(Proceeds(m)) <= Cardinality(Landed(m))

\* A bundle is about the token of its buy or of its seller's position, and a buy submits one.
BundleInv ==
    /\ \A b \in Buys : buy[b].pc \in {"idle", "lookup", "build"} => bundle[b].state = "none"
    /\ \A b \in Buys : bundle[b].state # "none" => bundle[b].mint = Mint(b)
    /\ \A s \in Sells : sell[s].pc = "await" => bundle[s].mint = Mint(sell[s].pos)

WalletInv == BundleInv /\ \A m \in Mints : Balanced(m)

LEMMA InitWallet == Init => WalletInv
<1> SUFFICES ASSUME Init PROVE WalletInv
  OBVIOUS
<1>1. BundleInv
  BY DEF Init, BundleInv, NewBuy, NewSell, NoBundle
<1>2. ASSUME NEW m \in Mints PROVE Balanced(m)
  <2>1. Proceeds(m) = {} /\ Landed(m) = {} /\ lots[m] = 0
    BY ThreadsAssumption DEF Init, Proceeds, HasProceeds, Closing, NewSell, Landed, NoBundle
  <2>2. Entries(m) = {}
    <3>1. \A b \in Buys : DOMAIN records[b] = {}
      BY DEF Init
    <3> QED
      BY <3>1 DEF Entries
  <2> QED
    BY <2>1, <2>2, FS_EmptySet DEF Balanced
<1> QED
  BY <1>1, <1>2 DEF WalletInv

\* One more element at most.
LEMMA OneMore ==
    ASSUME NEW S, IsFiniteSet(S), NEW x, NEW T, T \subseteq S \cup {x}
    PROVE  /\ IsFiniteSet(T) /\ Cardinality(T) \in Nat /\ Cardinality(S) \in Nat
           /\ Cardinality(T) <= Cardinality(S) + 1
<1> DEFINE D == S \cup {x}
<1>1. Cardinality(S) \in Nat
  BY FS_CardinalityType
<1>2. IsFiniteSet(D) /\ Cardinality(D) \in {Cardinality(S), Cardinality(S) + 1}
  BY FS_AddElement
<1>3. T \subseteq D
  OBVIOUS
<1> HIDE DEF D
<1>4. IsFiniteSet(T) /\ Cardinality(T) <= Cardinality(D) /\ Cardinality(T) \in Nat
  BY <1>2, <1>3, FS_Subset, FS_CardinalityType
<1> QED
  BY <1>1, <1>2, <1>4

LEMMA NoMore ==
    ASSUME NEW S, IsFiniteSet(S), NEW T, T \subseteq S
    PROVE  /\ IsFiniteSet(T) /\ Cardinality(T) \in Nat /\ Cardinality(S) \in Nat
           /\ Cardinality(T) <= Cardinality(S)
  BY FS_Subset, FS_CardinalityType

\* Sales can be lost.
LEMMA SaleLost ==
    ASSUME TypeOK, NEW m \in Mints, Balanced(m), lots'[m] = lots[m],
           Entries(m)' = Entries(m), Proceeds(m)' \subseteq Proceeds(m),
           Landed(m)' = Landed(m)
    PROVE  Balanced(m)'
<1>1. lots[m] \in Nat /\ Cardinality(Entries(m)) \in Nat /\ Cardinality(Landed(m)) \in Nat
  BY FS_CardinalityType DEF TypeOK, ChainOK, Balanced
<1>2. /\ IsFiniteSet(Proceeds(m)') /\ Cardinality(Proceeds(m)') \in Nat
      /\ Cardinality(Proceeds(m)) \in Nat
      /\ Cardinality(Proceeds(m)') <= Cardinality(Proceeds(m))
  BY NoMore DEF Balanced
<1> QED
  BY <1>1, <1>2 DEF Balanced

\* A lot bought is in the wallet.
LEMMA LotBought ==
    ASSUME TypeOK, NEW m \in Mints, Balanced(m), lots'[m] = lots[m] + 1,
           Entries(m)' = Entries(m), Proceeds(m)' \subseteq Proceeds(m),
           NEW t, t \notin Landed(m), Landed(m)' = Landed(m) \cup {t}
    PROVE  Balanced(m)'
<1>1. lots[m] \in Nat /\ Cardinality(Entries(m)) \in Nat
  BY FS_CardinalityType DEF TypeOK, ChainOK, Balanced
<1>2. /\ IsFiniteSet(Proceeds(m)') /\ Cardinality(Proceeds(m)') \in Nat
      /\ Cardinality(Proceeds(m)) \in Nat
      /\ Cardinality(Proceeds(m)') <= Cardinality(Proceeds(m))
  BY NoMore DEF Balanced
<1>3. /\ IsFiniteSet(Landed(m)') /\ Cardinality(Landed(m)) \in Nat
      /\ Cardinality(Landed(m)') = Cardinality(Landed(m)) + 1
  BY FS_AddElement, FS_CardinalityType DEF Balanced
<1> QED
  BY <1>1, <1>2, <1>3 DEF Balanced

\* A lot sold leaves the wallet, seen or not.
LEMMA LotSold ==
    ASSUME TypeOK, NEW m \in Mints, Balanced(m), lots'[m] = lots[m] - 1,
           Entries(m)' = Entries(m), NEW t, Proceeds(m)' \subseteq Proceeds(m) \cup {t},
           Landed(m)' = Landed(m)
    PROVE  Balanced(m)'
<1>1. lots[m] \in Nat /\ Cardinality(Entries(m)) \in Nat /\ Cardinality(Landed(m)) \in Nat
  BY FS_CardinalityType DEF TypeOK, ChainOK, Balanced
<1>2. /\ IsFiniteSet(Proceeds(m)') /\ Cardinality(Proceeds(m)') \in Nat
      /\ Cardinality(Proceeds(m)) \in Nat
      /\ Cardinality(Proceeds(m)') <= Cardinality(Proceeds(m)) + 1
  BY OneMore DEF Balanced
<1> QED
  BY <1>1, <1>2 DEF Balanced

\* A close turns a sale into an entry.
LEMMA SaleBooked ==
    ASSUME TypeOK, NEW m \in Mints, Balanced(m), lots'[m] = lots[m],
           NEW e, Entries(m)' \subseteq Entries(m) \cup {e},
           NEW s \in Proceeds(m), Proceeds(m)' \subseteq Proceeds(m) \ {s},
           Landed(m)' = Landed(m)
    PROVE  Balanced(m)'
<1> DEFINE R == Proceeds(m) \ {s}
<1>1. lots[m] \in Nat /\ Cardinality(Landed(m)) \in Nat
  BY FS_CardinalityType DEF TypeOK, ChainOK, Balanced
<1>2. /\ IsFiniteSet(R) /\ Cardinality(R) = Cardinality(Proceeds(m)) - 1
      /\ Cardinality(Proceeds(m)) \in Nat
  BY FS_RemoveElement, FS_CardinalityType DEF Balanced
<1>3. Proceeds(m)' \subseteq R
  OBVIOUS
<1> HIDE DEF R
<1>4. /\ IsFiniteSet(Proceeds(m)') /\ Cardinality(Proceeds(m)') \in Nat
      /\ Cardinality(Proceeds(m)') <= Cardinality(R) /\ Cardinality(R) \in Nat
  BY <1>2, <1>3, NoMore
<1>5. /\ IsFiniteSet(Entries(m)') /\ Cardinality(Entries(m)') \in Nat
      /\ Cardinality(Entries(m)) \in Nat
      /\ Cardinality(Entries(m)') <= Cardinality(Entries(m)) + 1
  BY OneMore DEF Balanced
<1> QED
  BY <1>1, <1>2, <1>4, <1>5 DEF Balanced

\* What a step leaves alone.
LEMMA WalletFrame ==
    ASSUME TypeOK, WalletInv, UNCHANGED <<lots, records>>,
           \A b \in Buys : bundle'[b].state = "landed" <=> bundle[b].state = "landed",
           \A s \in Sells : HasProceeds(s)' => HasProceeds(s) /\ sell'[s].pos = sell[s].pos
    PROVE  \A m \in Mints : Balanced(m)'
<1> TAKE m \in Mints
<1>1. Entries(m)' = Entries(m) /\ Landed(m)' = Landed(m)
  BY DEF Entries, Landed
<1>2. Proceeds(m)' \subseteq Proceeds(m)
  BY DEF Proceeds
<1> QED
  BY <1>1, <1>2, SaleLost DEF WalletInv

LEMMA BuyWallet ==
    ASSUME TypeOK, WalletInv, NEW b \in Buys, BuyStep(b)
    PROVE  WalletInv'
<1> USE DEF TypeOK, ThreadsOK, ChainOK
<1>t. buy[b] \in Buyers /\ b \notin Sells
  BY ThreadsAssumption
<1>1. /\ UNCHANGED <<sell, lots, records>>
      /\ \A a \in Buys \ {b} : buy'[a] = buy[a] /\ bundle'[a] = bundle[a]
      /\ \A s \in Sells : bundle'[s] = bundle[s]
  <2>1. UNCHANGED <<sell, lots, records>>
    BY DEF BuyStep, BuyGate, BuyLookup, BuyBuildFails, BuyBuilt, BuyReport, BuyShowRatio,
           BuyInsert, BuyPersist, BuyPublish, chainVars
  <2>2. \A a \in Buys \ {b} : buy'[a] = buy[a]
    BY DEF BuyStep, BuyGate, BuyLookup, BuyBuildFails, BuyBuilt, BuyReport, BuyShowRatio,
           BuyInsert, BuyPersist, BuyPublish, BuyGoes
  <2>3. \A t \in (Buys \cup Sells) \ {b} : bundle'[t] = bundle[t]
    BY DEF BuyStep, BuyGate, BuyLookup, BuyBuildFails, BuyBuilt, BuyReport, BuyShowRatio,
           BuyInsert, BuyPersist, BuyPublish, chainVars
  <2> QED
    BY <1>t, <2>1, <2>2, <2>3
<1>2. /\ bundle'[b].state = "landed" <=> bundle[b].state = "landed"
      /\ buy'[b].pc \in {"idle", "lookup", "build"} => bundle'[b].state = "none"
      /\ bundle'[b].state # "none" => bundle'[b].mint = Mint(b)
  <2>1. CASE BuyGate(b) \/ BuyLookup(b)
    <3>1. buy[b].pc \in {"idle", "lookup"} /\ bundle' = bundle
      BY <2>1 DEF BuyGate, BuyLookup, chainVars
    <3> QED
      BY <3>1 DEF WalletInv, BundleInv
  <2>2. CASE BuyBuilt(b)
    <3>1. buy[b].pc = "build" /\ bundle[b].state = "none"
      BY <2>2 DEF BuyBuilt, WalletInv, BundleInv
    <3>2. \/ buy'[b].pc = "insert" /\ bundle' = bundle
          \/ /\ buy'[b].pc = "await"
             /\ bundle'[b].state = "pending" /\ bundle'[b].mint = Mint(b)
      BY <1>t, <2>2 DEF BuyBuilt, BuyGoes, Buyers
    <3> QED
      BY <3>1, <3>2
  <2>3. CASE ~BuyGate(b) /\ ~BuyLookup(b) /\ ~BuyBuilt(b)
    <3>1. bundle' = bundle /\ buy'[b].pc \notin {"idle", "lookup", "build"}
      BY <1>t, <2>3 DEF BuyStep, BuyBuildFails, BuyReport, BuyShowRatio, BuyInsert, BuyPersist,
             BuyPublish, BuyGoes, chainVars, Buyers
    <3> QED
      BY <3>1 DEF WalletInv, BundleInv
  <2> QED
    BY <2>1, <2>2, <2>3
<1>3. \A s \in Sells : HasProceeds(s)' = HasProceeds(s)
  BY <1>1 DEF HasProceeds
<1>4. \A m \in Mints : Balanced(m)'
  <2> HIDE DEF TypeOK, ThreadsOK, ChainOK
  <2>1. \A a \in Buys : bundle'[a].state = "landed" <=> bundle[a].state = "landed"
    BY <1>1, <1>2
  <2>2. \A s \in Sells : HasProceeds(s)' => HasProceeds(s) /\ sell'[s].pos = sell[s].pos
    BY <1>1, <1>3
  <2> QED
    BY <1>1, <2>1, <2>2, WalletFrame
<1>5. BundleInv'
  <2> HIDE DEF TypeOK, ThreadsOK, ChainOK
  <2>1. \A a \in Buys :
          /\ buy'[a].pc \in {"idle", "lookup", "build"} => bundle'[a].state = "none"
          /\ bundle'[a].state # "none" => bundle'[a].mint = Mint(a)
    BY <1>1, <1>2 DEF WalletInv, BundleInv
  <2>2. \A s \in Sells : sell'[s].pc = "await" => bundle'[s].mint = Mint(sell'[s].pos)
    BY <1>1 DEF WalletInv, BundleInv
  <2> QED
    BY <2>1, <2>2 DEF BundleInv
<1> QED
  BY <1>4, <1>5 DEF WalletInv

\* A spawned seller has sold nothing yet, and the bundle of its goroutine is settled.
LEMMA SpawnWallet ==
    ASSUME TypeOK, WalletInv,
           \/ \E c \in Checks : CheckStep(c)
           \/ \E h \in Kills : KillStep(h)
    PROVE  WalletInv'
<1> USE DEF TypeOK, ThreadsOK, ChainOK
<1>1. /\ UNCHANGED <<lots, buy, records>>
      /\ \A b \in Buys : bundle'[b] = bundle[b]
      /\ \A s \in Sells :
           \/ sell'[s] = sell[s] /\ bundle'[s] = bundle[s]
           \/ sell'[s].pc = "claim"
  <2>1. CASE \E c \in Checks, s \in Sells : CheckClaim(c, s)
    <3> HIDE DEF TypeOK, ThreadsOK, ChainOK
    <3>c. PICK c \in Checks, s \in Sells : CheckClaim(c, s)
      BY <2>1
    <3>0. PICK q \in Quotes :
            /\ UNCHANGED <<lots, buy, records>>
            /\ sell' = [sell EXCEPT ![s] =
                          Spawned(check[c].pos, Exit(q, check[c].elapsed), None)]
            /\ bundle' = [bundle EXCEPT ![s] = NoBundle]
      BY <3>c DEF CheckClaim, Observe
    <3> USE DEF TypeOK, ThreadsOK, ChainOK
    <3>1. \E x : x.pc = "claim" /\ sell' = [sell EXCEPT ![s] = x]
      BY <3>0 DEF Spawned
    <3> QED
      BY <3>0, <3>1, ThreadsAssumption
  <2>2. CASE \E h \in Kills, m \in Mints, s \in Sells : KillDump(h, m, s)
    <3> HIDE DEF TypeOK, ThreadsOK, ChainOK
    <3>k. PICK h \in Kills, m \in Mints, s \in Sells : KillDump(h, m, s)
      BY <2>2
    <3>0. /\ UNCHANGED <<lots, buy, records>>
          /\ sell' = [sell EXCEPT ![s] = Spawned(positions[m], "kill_switch", h)]
          /\ bundle' = [bundle EXCEPT ![s] = NoBundle]
      BY <3>k DEF KillDump
    <3> USE DEF TypeOK, ThreadsOK, ChainOK
    <3>1. \E x : x.pc = "claim" /\ sell' = [sell EXCEPT ![s] = x]
      BY <3>0 DEF Spawned
    <3> QED
      BY <3>0, <3>1, ThreadsAssumption
  <2>3. CASE \E c \in Checks : CheckHold(c)
    BY <2>3 DEF CheckHold, Observe
  <2>4. CASE \/ \E h \in Kills : /\ KillStep(h)
                                 /\ ~\E m \in Mints, s \in Sells : KillDump(h, m, s)
             \/ \E c \in Checks : /\ CheckStep(c) /\ ~CheckHold(c)
                                  /\ ~\E s \in Sells : CheckClaim(c, s)
    BY <2>4 DEF CheckStep, CheckClosing, CheckOpen, CheckReadFails, CheckStale, CheckGauge,
                CheckReturns, KillStep, KillArm, KillArmFails, KillSnapshot, KillReturn,
                KillSkip, chainVars
  <2> QED
    BY <2>1, <2>2, <2>3, <2>4
<1> HIDE DEF TypeOK, ThreadsOK, ChainOK
<1>2. \A s \in Sells : HasProceeds(s)' => HasProceeds(s) /\ sell'[s].pos = sell[s].pos
  BY <1>1 DEF HasProceeds, Closing
<1>3. \A m \in Mints : Balanced(m)'
  BY <1>1, <1>2, WalletFrame
<1>4. BundleInv'
  BY <1>1 DEF WalletInv, BundleInv
<1> QED
  BY <1>3, <1>4 DEF WalletInv

LEMMA SellWallet ==
    ASSUME ~SimulationMode, TypeOK, WalletInv, NEW s \in Sells, SellStep(s)
    PROVE  WalletInv'
<1> USE DEF TypeOK, ThreadsOK, ChainOK
<1>s. sell[s] \in Sellers /\ sell[s].pos \in Buys
  <2>1. sell[s].pc # "idle"
    BY DEF SellStep, SellClaim, SellBuildFails, SellPanics, SellBuilt, SellLanded, SellMissed,
           CloseSold, CloseUnmap, CloseUnsave, CloseBook, CloseRecord
  <2> QED
    BY <2>1, SellPos
<1>p. PICK p \in Buys : sell[s].pos = p
  BY <1>s
<1>1. /\ \A t \in Sells \ {s} : sell'[t] = sell[t] /\ bundle'[t] = bundle[t]
      /\ \A b \in Buys : bundle'[b] = bundle[b]
      /\ UNCHANGED <<buy, lots>>
  <2>1. \A t \in Sells \ {s} : sell'[t] = sell[t]
    BY DEF SellStep, SellClaim, SellBuildFails, SellPanics, SellBuilt, SellLanded, SellMissed,
           CloseSold, CloseUnmap, CloseUnsave, CloseBook, CloseRecord, SellGoes,
           SellReturns, Reverts
  <2>2. \A t \in (Buys \cup Sells) \ {s} : bundle'[t] = bundle[t]
    BY DEF SellStep, SellClaim, SellBuildFails, SellPanics, SellBuilt, SellLanded, SellMissed,
           CloseSold, CloseUnmap, CloseUnsave, CloseBook, CloseRecord, Reverts, chainVars
  <2>3. UNCHANGED <<buy, lots>>
    BY DEF SellStep, SellClaim, SellBuildFails, SellPanics, SellBuilt, SellLanded, SellMissed,
           CloseSold, CloseUnmap, CloseUnsave, CloseBook, CloseRecord, Reverts, chainVars
  <2> QED
    BY <2>1, <2>2, <2>3, ThreadsAssumption
<1>b. ASSUME sell'[s].pc = "await" => bundle'[s].mint = Mint(sell'[s].pos) PROVE BundleInv'
  <2> HIDE DEF TypeOK, ThreadsOK, ChainOK
  <2>1. \A b \in Buys :
          /\ buy'[b].pc \in {"idle", "lookup", "build"} => bundle'[b].state = "none"
          /\ bundle'[b].state # "none" => bundle'[b].mint = Mint(b)
    BY <1>1 DEF WalletInv, BundleInv
  <2>2. \A t \in Sells : sell'[t].pc = "await" => bundle'[t].mint = Mint(sell'[t].pos)
    BY <1>1, <1>b DEF WalletInv, BundleInv
  <2> QED
    BY <2>1, <2>2 DEF BundleInv
<1>2. ASSUME records' = records,
             HasProceeds(s)' => HasProceeds(s) /\ sell'[s].pos = sell[s].pos
      PROVE  \A m \in Mints : Balanced(m)'
  <2> HIDE DEF TypeOK, ThreadsOK, ChainOK
  <2>1. \A t \in Sells : HasProceeds(t)' => HasProceeds(t) /\ sell'[t].pos = sell[t].pos
    BY <1>1, <1>2 DEF HasProceeds
  <2> QED
    BY <1>1, <1>2, <2>1, WalletFrame
<1>3. CASE SellClaim(s) \/ SellBuildFails(s) \/ SellPanics(s) \/ SellMissed(s)
  <2>1. SellGoes(s, "build") \/ SellReturns(s)
    BY <1>3 DEF SellClaim, SellBuildFails, SellPanics, SellMissed, Reverts
  <2>2. sell'[s].pc \in {"idle", "build"}
    BY <1>s, <2>1 DEF SellGoes, SellReturns, NewSell, Sellers
  <2>3. records' = records
    BY <1>3 DEF SellClaim, SellBuildFails, SellPanics, SellMissed, Reverts
  <2> QED
    BY <1>b, <1>2, <2>2, <2>3 DEF HasProceeds, Closing, WalletInv
<1>4. CASE SellBuilt(s)
  <2>1. /\ records' = records /\ sell'[s].pc = "await" /\ sell'[s].pos = p
        /\ bundle'[s].state = "pending" /\ bundle'[s].mint = Mint(p)
    BY <1>s, <1>p, <1>4, ThreadsAssumption DEF SellBuilt, SellGoes, Sellers
  <2> QED
    BY <1>b, <1>2, <2>1 DEF HasProceeds, Closing, WalletInv
<1>5. CASE SellLanded(s)
  <2>1. /\ records' = records /\ sell'[s].pc = "close" /\ sell'[s].pos = sell[s].pos
        /\ sell[s].pc = "await" /\ bundle[s].state = "landed"
    BY <1>s, <1>5 DEF SellLanded, SellGoes, Reports, Sellers
  <2> QED
    BY <1>b, <1>2, <2>1 DEF HasProceeds, WalletInv
<1>6. CASE CloseSold(s) \/ CloseUnmap(s) \/ CloseUnsave(s) \/ CloseBook(s)
  <2>1. /\ records' = records /\ HasProceeds(s)
        /\ sell'[s].pc \in Closing /\ sell'[s].pos = sell[s].pos
    <3>1. records' = records /\ HasProceeds(s)
      BY <1>6 DEF CloseSold, CloseUnmap, CloseUnsave, CloseBook, HasProceeds, Closing
    <3>2. \/ \E pc \in {"unsave", "book", "record"} : SellGoes(s, pc)
          \/ CloseSold(s)
      BY <1>6 DEF CloseUnmap, CloseUnsave, CloseBook
    <3> QED
      BY <1>s, <3>1, <3>2 DEF SellGoes, CloseSold, Sellers, Closing
  <2> QED
    BY <1>b, <1>2, <2>1 DEF Closing, WalletInv
<1>7. CASE CloseRecord(s)
  <2>1. sell[s].pc = "record" /\ sell'[s].pc = "idle"
    BY <1>7 DEF CloseRecord, SellReturns, NewSell
  <2>2. PICK r : records' = records \/ records' = [records EXCEPT ![p] = Append(@, r)]
    BY <1>p, <1>7 DEF CloseRecord
  <2>3. HasProceeds(s) /\ ~HasProceeds(s)'
    BY <2>1 DEF HasProceeds, Closing
  <2>4. CASE records' = records
    BY <1>b, <1>2, <2>1, <2>3, <2>4 DEF WalletInv
  <2>5. CASE records' = [records EXCEPT ![p] = Append(@, r)]
    <3> DEFINE e == <<p, Len(records[p]) + 1>>
    <3>1. /\ DOMAIN records'[p] = DOMAIN records[p] \cup {Len(records[p]) + 1}
          /\ \A b \in Buys \ {p} : records'[b] = records[b]
      BY <2>5
    <3>2. ASSUME NEW m \in Mints PROVE Balanced(m)'
      <4> HIDE DEF TypeOK, ThreadsOK, ChainOK
      <4>1. Landed(m)' = Landed(m)
        BY <1>1 DEF Landed
      <4>2. \A t \in Sells \ {s} : HasProceeds(t)' = HasProceeds(t)
        BY <1>1 DEF HasProceeds
      <4>3. Proceeds(m)' \subseteq Proceeds(m) \ {s}
        BY <1>1, <2>3, <4>2 DEF Proceeds
      <4>4. CASE m = Mint(p)
        <5>1. Entries(m)' \subseteq Entries(m) \cup {e}
          BY <3>1 DEF Entries
        <5>2. s \in Proceeds(m)
          BY <1>p, <2>3, <4>4 DEF Proceeds
        <5> QED
          BY <1>1, <4>1, <4>3, <5>1, <5>2, SaleBooked DEF WalletInv
      <4>5. CASE m # Mint(p)
        <5>1. Entries(m)' = Entries(m)
          BY <3>1, <4>5 DEF Entries
        <5> QED
          BY <1>1, <4>1, <4>3, <5>1, SaleLost DEF WalletInv
      <4> QED
        BY <4>4, <4>5
    <3> QED
      BY <1>b, <2>1, <3>2 DEF WalletInv
  <2> QED
    BY <2>2, <2>4, <2>5
<1> QED
  BY <1>3, <1>4, <1>5, <1>6, <1>7 DEF SellStep

LEMMA EnvironmentWallet ==
    ASSUME TypeOK, WalletInv,
           \/ \E b \in Buys : Elapse(b)
           \/ TickStep \/ Disarm \/ Restart
           \/ UNCHANGED vars
    PROVE  WalletInv'
<1> USE DEF TypeOK, ThreadsOK, ChainOK
<1>1. UNCHANGED <<bundle, lots, records>>
  BY DEF Elapse, TickStep, TickStart, TickSnapshot, TickSkip, TickSpawn, Disarm, Restart, vars,
         chainVars
<1>2. CASE Restart
  <2>1. \A s \in Sells : sell'[s].pc = "idle"
    BY <1>2 DEF Restart, NewSell
  <2>2. \A b \in Buys : buy'[b].pc = "done" \/ buy[b].pc = "idle"
    BY <1>2 DEF Restart, NewBuy
  <2>3. \A m \in Mints : Balanced(m)'
    BY <1>1, <2>1, WalletFrame DEF HasProceeds, Closing
  <2>4. BundleInv'
    BY <1>1, <2>1, <2>2 DEF WalletInv, BundleInv
  <2> QED
    BY <2>3, <2>4 DEF WalletInv
<1>3. CASE ~Restart
  <2>1. UNCHANGED <<buy, sell>>
    BY <1>3 DEF Elapse, TickStep, TickStart, TickSnapshot, TickSkip, TickSpawn, Disarm,
                threadVars, vars
  <2>2. \A m \in Mints : Balanced(m)'
    BY <1>1, <2>1, WalletFrame DEF HasProceeds
  <2>3. BundleInv'
    BY <1>1, <2>1 DEF WalletInv, BundleInv
  <2> QED
    BY <2>2, <2>3 DEF WalletInv
<1> QED
  BY <1>2, <1>3

LEMMA BundleWallet ==
    ASSUME TypeOK, WalletInv, NEW t \in Buys \cup Sells, BundleSettles(t)
    PROVE  WalletInv'
<1> USE DEF TypeOK, ThreadsOK, ChainOK
<1> DEFINE m0 == bundle[t].mint
<1>1. /\ bundle[t] \in Bundles /\ bundle[t].state = "pending" /\ m0 \in Mints
      /\ UNCHANGED <<buy, sell, records>>
      /\ \A u \in (Buys \cup Sells) \ {t} : bundle'[u] = bundle[u]
      /\ bundle'[t].mint = m0 /\ bundle'[t].state \in {"landed", "dead"}
  <2>1. bundle[t].state = "pending" /\ UNCHANGED <<buy, sell, records>>
    BY DEF BundleSettles, threadVars
  <2>2. bundle[t] \in Bundles
    BY <2>1 DEF NoBundle
  <2>3. \E x \in {"landed", "dead"} : bundle' = [bundle EXCEPT ![t].state = x]
    BY DEF BundleSettles
  <2> QED
    BY <2>1, <2>2, <2>3 DEF Bundles
<1>d. bundle'[t].state = "dead" => lots' = lots
  <2>1. bundle' = [bundle EXCEPT ![t].state = "landed"] \/ lots' = lots
    BY DEF BundleSettles
  <2>2. bundle' = [bundle EXCEPT ![t].state = "landed"] => bundle'[t].state = "landed"
    BY <1>1 DEF Bundles
  <2> QED
    BY <2>1, <2>2
<1>2. \A u \in Buys \cup Sells : bundle'[u].mint = bundle[u].mint
  BY <1>1
<1>3. BundleInv'
  <2> HIDE DEF TypeOK, ThreadsOK, ChainOK
  <2>1. ASSUME NEW b \in Buys
        PROVE  /\ buy'[b].pc \in {"idle", "lookup", "build"} => bundle'[b].state = "none"
               /\ bundle'[b].state # "none" => bundle'[b].mint = Mint(b)
    <3>1. CASE b = t
      BY <1>1, <3>1 DEF WalletInv, BundleInv
    <3>2. CASE b # t
      BY <1>1, <3>2 DEF WalletInv, BundleInv
    <3> QED
      BY <3>1, <3>2
  <2>2. \A s \in Sells : sell'[s].pc = "await" => bundle'[s].mint = Mint(sell'[s].pos)
    BY <1>1, <1>2 DEF WalletInv, BundleInv
  <2> QED
    BY <2>1, <2>2 DEF BundleInv
<1>4. \A s \in Sells \ {t} : HasProceeds(s)' = HasProceeds(s)
  BY <1>1 DEF HasProceeds
<1>5. \A m \in Mints : Entries(m)' = Entries(m)
  BY <1>1 DEF Entries
<1>6. CASE t \in Buys
  <2>1. t \notin Sells
    BY <1>6, ThreadsAssumption
  <2>2. \A m \in Mints : Proceeds(m)' \subseteq Proceeds(m)
    BY <1>1, <1>4, <2>1 DEF Proceeds
  <2>3. Mint(t) = m0
    BY <1>1, <1>6 DEF WalletInv, BundleInv
  <2>4. CASE bundle'[t].state = "dead"
    <3>1. lots' = lots
      BY <1>d, <2>4
    <3>2. \A b \in Buys : bundle'[b].state = "landed" <=> bundle[b].state = "landed"
      BY <1>1, <2>4
    <3>4. \A m \in Mints : Landed(m)' = Landed(m)
      BY <3>2 DEF Landed
    <3>3. \A m \in Mints : Balanced(m)'
      BY <1>5, <2>2, <3>1, <3>4, SaleLost DEF WalletInv
    <3> QED
      BY <1>3, <3>3 DEF WalletInv
  <2>5. CASE bundle'[t].state = "landed"
    <3>1. lots' = [lots EXCEPT ![m0] = @ + 1]
      BY <1>1, <2>1, <2>5 DEF BundleSettles, Bundles
    <3>2. ASSUME NEW m \in Mints PROVE Balanced(m)'
      <4>1. CASE m = m0
        <5>1. t \notin Landed(m) /\ Landed(m)' = Landed(m) \cup {t}
          <6>1. \A b \in Buys \ {t} : bundle'[b] = bundle[b]
            BY <1>1
          <6> HIDE DEF TypeOK, ThreadsOK, ChainOK
          <6> QED
            BY <1>1, <1>6, <2>3, <2>5, <4>1, <6>1 DEF Landed
        <5>2. lots'[m] = lots[m] + 1
          BY <3>1, <4>1
        <5> QED
          BY <1>5, <2>2, <5>1, <5>2, LotBought DEF WalletInv
      <4>2. CASE m # m0
        <5>1. \A b \in Buys :
                Mint(b) = m => (bundle'[b].state = "landed" <=> bundle[b].state = "landed")
          BY <1>1, <2>3, <4>2
        <5>2. Landed(m)' = Landed(m)
          BY <5>1 DEF Landed
        <5>3. lots'[m] = lots[m]
          BY <3>1, <4>2
        <5> QED
          BY <1>5, <2>2, <5>2, <5>3, SaleLost DEF WalletInv
      <4> QED
        BY <4>1, <4>2
    <3> QED
      BY <1>3, <3>2 DEF WalletInv
  <2> QED
    BY <1>1, <2>4, <2>5
<1>7. CASE t \in Sells
  <2>1. t \notin Buys
    BY <1>7, ThreadsAssumption
  <2>2. \A m \in Mints : Landed(m)' = Landed(m)
    <3>1. \A b \in Buys : bundle'[b] = bundle[b]
      BY <1>1, <2>1
    <3> QED
      BY <3>1 DEF Landed
  <2>3. CASE bundle'[t].state = "dead"
    <3>1. lots' = lots
      BY <1>d, <2>3
    <3>2. HasProceeds(t)' => HasProceeds(t)
      BY <1>1, <2>3 DEF HasProceeds
    <3>3. \A m \in Mints : Proceeds(m)' \subseteq Proceeds(m)
      BY <1>1, <1>4, <3>2 DEF Proceeds
    <3>4. \A m \in Mints : Balanced(m)'
      BY <1>5, <2>2, <3>1, <3>3, SaleLost DEF WalletInv
    <3> QED
      BY <1>3, <3>4 DEF WalletInv
  <2>4. CASE bundle'[t].state = "landed"
    <3>1. lots' = [lots EXCEPT ![m0] = @ - 1]
      BY <1>1, <2>1, <2>4 DEF BundleSettles, Bundles
    <3>2. HasProceeds(t)' => HasProceeds(t) \/ sell[t].pc = "await"
      BY <1>1 DEF HasProceeds
    <3>3. ASSUME NEW m \in Mints PROVE Balanced(m)'
      <4>1. CASE m = m0
        <5>1. Proceeds(m)' \subseteq Proceeds(m) \cup {t}
          BY <1>1, <1>4 DEF Proceeds
        <5>2. lots'[m] = lots[m] - 1
          BY <3>1, <4>1
        <5> QED
          BY <1>5, <2>2, <5>1, <5>2, LotSold DEF WalletInv
      <4>2. CASE m # m0
        <5>1. sell[t].pc = "await" => Mint(sell[t].pos) # m
          BY <1>7, <4>2 DEF WalletInv, BundleInv
        <5>2. Proceeds(m)' \subseteq Proceeds(m)
          BY <1>1, <1>4, <3>2, <5>1 DEF Proceeds
        <5>3. lots'[m] = lots[m]
          BY <3>1, <4>2
        <5> QED
          BY <1>5, <2>2, <5>2, <5>3, SaleLost DEF WalletInv
      <4> QED
        BY <4>1, <4>2
    <3> QED
      BY <1>3, <3>3 DEF WalletInv
  <2> QED
    BY <1>1, <2>3, <2>4
<1> QED
  BY <1>6, <1>7

LEMMA WalletStep ==
    ASSUME ~SimulationMode, TypeOK, WalletInv, [Next]_vars
    PROVE  WalletInv'
  BY BuyWallet, SpawnWallet, SellWallet, BundleWallet, EnvironmentWallet DEF Next

\* The books never claim a sale the chain did not make: for any number of positions of a
\* token, of monitor and kill-switch sellers of one position, of missed landings, faults,
\* panics and restarts, the dataset records of a token and the sales about to be recorded
\* are covered by lots that were bought and have left the wallet (executeBuy, executeSell,
\* submitBundle, closePosition).
THEOREM BookedWasSold == Spec => []BookedIsSold
<1>1. CASE SimulationMode
  <2>1. BookedIsSold
    BY <1>1 DEF BookedIsSold
  <2> QED
    BY <2>1, PTL
<1>2. CASE ~SimulationMode
  <2>1. TypeOK /\ WalletInv /\ [Next]_vars => WalletInv'
    BY <1>2, WalletStep
  <2>2. WalletInv => BookedIsSold
    BY DEF WalletInv, Balanced, BookedIsSold
  <2> QED
    BY <2>1, <2>2, InitWallet, TypeCorrect, PTL DEF Spec
<1> QED
  BY <1>1, <1>2

-----------------------------------------------------------------------------
(* The buys of a token *)

\* The seen key of the analyzer never expires: no token is bought twice.
BoughtOnce == \A a, b \in Buys : Mint(a) = Mint(b) => a = b

\* Less than that will do: of the signals about a token, one gets as far as a bundle, or
\* a position. This is what the analyzer sees to (OneBuyPerKey of PipelineProofs).
Bought(b) == bundle[b].state # "none" \/ pos[b].status # "absent"
OneBuy == \A a, b \in Buys : Mint(a) = Mint(b) /\ Bought(a) /\ Bought(b) => a = b

\* A position in the map is under its own token, and was opened.
MappedInv ==
    /\ \A m \in Mints :
         positions[m] # None =>
           Mint(positions[m]) = m /\ pos[positions[m]].status # "absent"
    /\ \A b \in Buys : buy[b].pc = "persist" => pos[b].status # "absent"

LEMMA InitMapped == Init => MappedInv
BY DEF Init, MappedInv, NewBuy

LEMMA MappedFrame ==
    ASSUME TypeOK, MappedInv,
           \A m \in Mints : positions'[m] = positions[m] \/ positions'[m] = None,
           \A b \in Buys :
             /\ pos'[b].status = "absent" => pos[b].status = "absent"
             /\ buy'[b].pc = "persist" => buy[b].pc = "persist"
    PROVE  MappedInv'
<1>1. ASSUME NEW m \in Mints, positions'[m] # None
      PROVE  Mint(positions'[m]) = m /\ pos'[positions'[m]].status # "absent"
  <2>1. positions'[m] = positions[m] /\ positions[m] \in Buys
    BY <1>1 DEF TypeOK, MemoryOK
  <2> QED
    BY <1>1, <2>1 DEF MappedInv
<1>2. ASSUME NEW b \in Buys, buy'[b].pc = "persist" PROVE pos'[b].status # "absent"
  BY <1>2 DEF MappedInv
<1> QED
  BY <1>1, <1>2 DEF MappedInv, Mint

LEMMA MappedStep ==
    ASSUME TypeOK, MappedInv, [Next]_vars
    PROVE  MappedInv'
<1>1. ASSUME NEW b \in Buys, BuyStep(b) PROVE MappedInv'
  <2>b. \A a \in Buys \ {b} : buy'[a] = buy[a]
    BY <1>1 DEF BuyStep, BuyGate, BuyLookup, BuyBuildFails, BuyBuilt, BuyReport, BuyShowRatio,
                BuyInsert, BuyPersist, BuyPublish, BuyGoes, TypeOK, ThreadsOK
  <2>t. Mint(b) \in Mints /\ positions \in [Mints -> Buys \cup {None}]
        /\ pos \in [Buys -> Positions]
    BY SignalsAssumption DEF TypeOK, MemoryOK, Mint
  <2>1. CASE BuyInsert(b)
    <3>1. /\ pos' = [pos EXCEPT ![b] = NewPosition]
          /\ positions' = [positions EXCEPT ![Mint(b)] = b]
      BY <2>1 DEF BuyInsert
    <3>2. /\ pos'[b].status = "open"
          /\ \A a \in Buys \ {b} : pos'[a] = pos[a]
      BY <2>t, <3>1 DEF NewPosition
    <3>3. ASSUME NEW m \in Mints, positions'[m] # None
          PROVE  Mint(positions'[m]) = m /\ pos'[positions'[m]].status # "absent"
      <4>1. CASE m = Mint(b)
        BY <2>t, <3>1, <3>2, <4>1
      <4>2. CASE m # Mint(b)
        <5>1. positions'[m] = positions[m] /\ positions[m] \in Buys
          BY <2>t, <3>1, <3>3, <4>2
        <5>2. Mint(positions[m]) = m /\ pos[positions[m]].status # "absent"
          BY <3>3, <5>1 DEF MappedInv
        <5> QED
          BY <3>2, <4>2, <5>1, <5>2
      <4> QED
        BY <4>1, <4>2
    <3>4. ASSUME NEW a \in Buys, buy'[a].pc = "persist" PROVE pos'[a].status # "absent"
      BY <2>b, <3>2, <3>4 DEF MappedInv
    <3> QED
      BY <3>3, <3>4 DEF MappedInv, Mint
  <2>2. CASE ~BuyInsert(b)
    <3>1. positions' = positions /\ pos' = pos
      BY <1>1, <2>2 DEF BuyStep, BuyGate, BuyLookup, BuyBuildFails, BuyBuilt, BuyReport,
                        BuyShowRatio, BuyPersist, BuyPublish, memVars
    <3>2. buy'[b].pc # "persist"
      <4>b. buy[b] \in Buyers /\ buy \in [Buys -> Buyers]
        BY DEF TypeOK, ThreadsOK
      <4>1. ASSUME NEW pc \in {"lookup", "build", "await", "insert", "publish", "done"},
                   BuyGoes(b, pc)
            PROVE  buy'[b].pc # "persist"
        BY <4>b, <4>1 DEF BuyGoes, Buyers
      <4>2. CASE BuyReport(b) \/ BuyShowRatio(b)
        BY <4>b, <4>2 DEF BuyReport, BuyShowRatio
      <4> QED
        BY <1>1, <2>2, <4>1, <4>2 DEF BuyStep, BuyGate, BuyLookup, BuyBuildFails, BuyBuilt,
                                      BuyPersist, BuyPublish
    <3> QED
      BY <2>b, <3>1, <3>2, MappedFrame
  <2> QED
    BY <2>1, <2>2
<1>2. ASSUME NEW s \in Sells, SellStep(s) PROVE MappedInv'
  <2>1. \/ pos' = pos
        \/ \E st \in {"open", "selling", "sold"} :
             pos' = [pos EXCEPT ![sell[s].pos].status = st]
    BY <1>2 DEF SellStep, SellClaim, SellBuildFails, SellPanics, SellBuilt, SellLanded, SellMissed,
                CloseSold, CloseUnmap, CloseUnsave, CloseBook, CloseRecord, Reverts, memVars
  <2>2. positions' = positions \/ positions' = [positions EXCEPT ![Mint(sell[s].pos)] = None]
    BY <1>2 DEF SellStep, SellClaim, SellBuildFails, SellPanics, SellBuilt, SellLanded, SellMissed,
                CloseSold, CloseUnmap, CloseUnsave, CloseBook, CloseRecord, Reverts, memVars
  <2>3. \A m \in Mints : positions'[m] = positions[m] \/ positions'[m] = None
    BY <2>2 DEF TypeOK, MemoryOK
  <2>4. \A b \in Buys : pos'[b].status = "absent" => pos[b].status = "absent"
    BY <2>1 DEF TypeOK, MemoryOK, Positions
  <2>5. UNCHANGED buy
    BY <1>2 DEF SellStep, SellClaim, SellBuildFails, SellPanics, SellBuilt, SellLanded, SellMissed,
                CloseSold, CloseUnmap, CloseUnsave, CloseBook, CloseRecord, Reverts
  <2> QED
    BY <2>3, <2>4, <2>5, MappedFrame
<1>3. CASE Restart
  <2>1. /\ \A m \in Mints : positions'[m] = None
        /\ \A b \in Buys : buy'[b].pc # "persist"
    BY <1>3 DEF Restart, NewBuy
  <2> QED
    BY <2>1 DEF MappedInv
<1>4. ASSUME NEW c \in Checks, CheckStep(c) PROVE MappedInv'
  <2>1. CASE \E q \in Quotes, st \in {"open", "selling"} : Observe(c, q, st)
    <3>1. PICK q \in Quotes, st \in {"open", "selling"} : Observe(c, q, st)
      BY <2>1
    <3>2. /\ positions' = positions /\ buy' = buy
          /\ pos' = [pos EXCEPT ![check[c].pos].quoted = q,
                               ![check[c].pos].snaps = @ \cup Due(check[c].pos, check[c].elapsed),
                               ![check[c].pos].status = st]
      BY <3>1 DEF Observe
    <3>3. \A b \in Buys : pos'[b].status = "absent" => pos[b].status = "absent"
      BY <3>2 DEF TypeOK, MemoryOK, Positions
    <3> QED
      BY <3>2, <3>3, MappedFrame
  <2>2. CASE ~\E q \in Quotes, st \in {"open", "selling"} : Observe(c, q, st)
    <3>1. UNCHANGED <<memVars, buy>>
      BY <1>4, <2>2 DEF CheckStep, CheckClosing, CheckOpen, CheckReadFails, CheckStale,
                        CheckHold, CheckClaim, CheckGauge, CheckReturns
    <3> QED
      BY <3>1, MappedFrame DEF memVars
  <2> QED
    BY <2>1, <2>2
<1>5. ASSUME NEW h \in Kills, KillStep(h) PROVE MappedInv'
  <2>1. UNCHANGED <<memVars, buy>>
    BY <1>5 DEF KillStep, KillArm, KillArmFails, KillSnapshot, KillReturn, KillSkip, KillDump
  <2> QED
    BY <2>1, MappedFrame DEF memVars
<1>6. ASSUME NEW b \in Buys, Elapse(b) PROVE MappedInv'
  <2>1. /\ positions' = positions /\ buy' = buy
        /\ \A a \in Buys : pos'[a].status = pos[a].status
    BY <1>6 DEF Elapse, threadVars, TypeOK, MemoryOK, Positions
  <2> QED
    BY <2>1, MappedFrame
<1>7. CASE \/ \E t \in Buys \cup Sells : BundleSettles(t)
           \/ TickStep \/ Disarm \/ UNCHANGED vars
  <2>1. UNCHANGED <<positions, pos, buy>>
    BY <1>7 DEF threadVars, BundleSettles, TickStep, TickStart, TickSnapshot, TickSkip, TickSpawn,
                Disarm, vars, memVars
  <2> QED
    BY <2>1, MappedFrame
<1> QED
  BY <1>1, <1>2, <1>3, <1>4, <1>5, <1>6, <1>7 DEF Next

-----------------------------------------------------------------------------
(* The Redis entries *)

\* A close deletes the Redis entry when the map entry is gone.
SavedInv ==
    /\ OpenIsSaved
    /\ \A m \in Mints : positions[m] # None => Mint(positions[m]) = m
    /\ \A s \in Sells : sell[s].pc = "unsave" => positions[Mint(sell[s].pos)] = None

LEMMA SavedFrame ==
    ASSUME SavedInv, UNCHANGED <<positions, saved>>,
           \A b \in Buys : buy[b].pc = "persist" => buy'[b].pc = "persist",
           \A s \in Sells :
             sell'[s].pc = "unsave" => sell[s].pc = "unsave" /\ sell'[s].pos = sell[s].pos,
           MemoryOK
    PROVE  SavedInv'
BY DEF SavedInv, OpenIsSaved, MemoryOK

LEMMA BuySaved ==
    ASSUME OneBuy, OneBuy', MappedInv, ~IOFaults, TypeOK, SellersHaveOpened, SavedInv,
           NEW b \in Buys, BuyStep(b)
    PROVE  SavedInv'
<1> USE DEF TypeOK, ThreadsOK, MemoryOK
<1>m. Mint(b) \in Mints /\ buy[b] \in Buyers
  BY SignalsAssumption DEF Mint
<1>1. \A a \in Buys \ {b} : buy'[a] = buy[a]
  BY DEF BuyStep, BuyGate, BuyLookup, BuyBuildFails, BuyBuilt, BuyReport, BuyShowRatio,
         BuyInsert, BuyPersist, BuyPublish, BuyGoes
<1>2. UNCHANGED sell
  BY DEF BuyStep, BuyGate, BuyLookup, BuyBuildFails, BuyBuilt, BuyReport, BuyShowRatio,
         BuyInsert, BuyPersist, BuyPublish
<1>3. CASE BuyInsert(b)
  <2>1. /\ buy[b].pc = "insert" /\ buy'[b].pc = "persist"
        /\ positions' = [positions EXCEPT ![Mint(b)] = b] /\ saved' = saved
    BY <1>m, <1>3 DEF BuyInsert, BuyGoes, Buyers, redisVars
  <2>2. ASSUME NEW s \in Sells, sell[s].pc = "unsave" PROVE Mint(sell[s].pos) # Mint(b)
    <3>1. sell[s].pos \in Buys /\ sell[s].pos # None
      BY <2>2, SellPos, NoneAssumption
    <3>2. sell[s].pos # b /\ pos[sell[s].pos].status # "absent"
      BY <2>1, <3>1 DEF SellersHaveOpened, Unopened
    <3>3. pos'[sell[s].pos] = pos[sell[s].pos] /\ pos'[b].status = "open"
      BY <1>3, <3>1, <3>2 DEF BuyInsert, NewPosition
    <3> QED
      BY <3>1, <3>2, <3>3 DEF OneBuy, Bought, Mint
  <2>3. \A s \in Sells : sell'[s].pc = "unsave" => positions'[Mint(sell'[s].pos)] = None
    BY <1>2, <2>1, <2>2 DEF SavedInv
  <2>4. \A m \in Mints : positions'[m] # None => Mint(positions'[m]) = m
    BY <2>1 DEF SavedInv
  <2>5. OpenIsSaved'
    <3>1. SUFFICES ASSUME NEW m \in Mints, positions'[m] # None,
                          buy'[positions'[m]].pc # "persist"
                   PROVE  saved'[m] = positions'[m]
      BY DEF OpenIsSaved
    <3>2. m # Mint(b)
      BY <1>m, <2>1, <3>1
    <3>3. positions'[m] = positions[m] /\ positions[m] \in Buys \ {b}
      BY <2>1, <3>1, <3>2 DEF SavedInv
    <3> QED
      BY <1>1, <2>1, <3>1, <3>3 DEF SavedInv, OpenIsSaved
  <2> QED
    BY <2>3, <2>4, <2>5 DEF SavedInv
<1>4. CASE BuyPersist(b)
  <2>1. /\ saved' = [saved EXCEPT ![Mint(b)] = b] /\ positions' = positions
        /\ saved \in [Mints -> Buys \cup {None}]
    BY <1>4 DEF BuyPersist, Outcomes, memVars, RedisOK
  <2>2. OpenIsSaved'
    <3>1. SUFFICES ASSUME NEW m \in Mints, positions[m] # None,
                          buy'[positions[m]].pc # "persist"
                   PROVE  saved'[m] = positions[m]
      BY <2>1 DEF OpenIsSaved
    <3>2. CASE m = Mint(b)
      <4>1. positions[m] = b
        BY <1>4, <1>m, <3>1, <3>2 DEF MappedInv, OneBuy, Bought, BuyPersist
      <4> QED
        BY <1>m, <2>1, <3>2, <4>1
    <3>3. CASE m # Mint(b)
      <4>1. positions[m] \in Buys \ {b}
        BY <3>1, <3>3 DEF SavedInv
      <4> QED
        BY <1>1, <2>1, <3>1, <3>3, <4>1 DEF SavedInv, OpenIsSaved
    <3> QED
      BY <3>2, <3>3
  <2> QED
    BY <1>2, <2>1, <2>2 DEF SavedInv
<1>5. CASE ~BuyInsert(b) /\ ~BuyPersist(b)
  <2>1. UNCHANGED <<positions, saved>>
    BY <1>5 DEF BuyStep, BuyGate, BuyLookup, BuyBuildFails, BuyBuilt, BuyReport,
                BuyShowRatio, BuyPublish, memVars, redisVars
  <2>2. buy[b].pc # "persist"
    BY <1>5 DEF BuyStep, BuyGate, BuyLookup, BuyBuildFails, BuyBuilt, BuyReport,
                BuyShowRatio, BuyPublish
  <2> QED
    BY <1>1, <1>2, <2>1, <2>2, SavedFrame
<1> QED
  BY <1>3, <1>4, <1>5

LEMMA SellSaved ==
    ASSUME TypeOK, SavedInv, NEW s \in Sells, SellStep(s)
    PROVE  SavedInv'
<1> USE DEF TypeOK, ThreadsOK, MemoryOK
<1>s. sell[s] \in Sellers /\ sell[s].pos \in Buys /\ Mint(sell[s].pos) \in Mints
  <2>1. sell[s].pc # "idle"
    BY DEF SellStep, SellClaim, SellBuildFails, SellPanics, SellBuilt, SellLanded, SellMissed,
           CloseSold, CloseUnmap, CloseUnsave, CloseBook, CloseRecord
  <2> QED
    BY <2>1, SellPos, SignalsAssumption DEF Mint
<1>1. /\ \A t \in Sells \ {s} : sell'[t] = sell[t]
      /\ UNCHANGED buy
  BY DEF SellStep, SellClaim, SellBuildFails, SellPanics, SellBuilt, SellLanded, SellMissed, CloseSold,
         CloseUnmap, CloseUnsave, CloseBook, CloseRecord, SellGoes, SellReturns, Reverts
<1>2. CASE CloseUnmap(s)
  <2>1. /\ positions' = [positions EXCEPT ![Mint(sell[s].pos)] = None] /\ saved' = saved
        /\ sell'[s].pos = sell[s].pos
    BY <1>s, <1>2 DEF CloseUnmap, SellGoes, Sellers, redisVars
  <2>2. \A m \in Mints : positions'[m] \in {positions[m], None}
    BY <2>1
  <2>3. positions'[Mint(sell'[s].pos)] = None
    BY <1>s, <2>1
  <2>4. ASSUME NEW t \in Sells \ {s}, sell'[t].pc = "unsave"
        PROVE  positions'[Mint(sell'[t].pos)] = None
    <3>1. sell'[t] = sell[t] /\ Mint(sell[t].pos) \in Mints
      BY <1>1, <2>4, SellPos, SignalsAssumption DEF Mint
    <3> QED
      BY <2>2, <2>4, <3>1 DEF SavedInv
  <2>5. OpenIsSaved' /\ \A m \in Mints : positions'[m] # None => Mint(positions'[m]) = m
    BY <1>1, <2>1, <2>2 DEF SavedInv, OpenIsSaved
  <2> QED
    BY <2>3, <2>4, <2>5 DEF SavedInv
<1>3. CASE CloseUnsave(s)
  <2>1. /\ sell[s].pc = "unsave" /\ sell'[s].pc = "book"
        /\ positions' = positions
        /\ \A m \in Mints : m # Mint(sell[s].pos) => saved'[m] = saved[m]
    BY <1>s, <1>3 DEF CloseUnsave, SellGoes, Sellers, memVars, RedisOK
  <2>2. positions[Mint(sell[s].pos)] = None
    BY <2>1 DEF SavedInv
  <2>3. OpenIsSaved'
    BY <1>1, <2>1, <2>2 DEF SavedInv, OpenIsSaved
  <2> QED
    BY <1>1, <2>1, <2>3 DEF SavedInv
<1>4. CASE ~CloseUnmap(s) /\ ~CloseUnsave(s)
  <2>1. UNCHANGED <<positions, saved>>
    BY <1>4 DEF SellStep, SellClaim, SellBuildFails, SellPanics, SellBuilt, SellLanded, SellMissed,
                CloseSold, CloseBook, CloseRecord, Reverts, memVars, redisVars
  <2>2. \/ SellReturns(s) \/ CloseSold(s)
        \/ \E pc \in {"build", "await", "close", "record"} : SellGoes(s, pc)
    BY <1>4 DEF SellStep, SellClaim, SellBuildFails, SellPanics, SellBuilt, SellLanded, SellMissed,
                CloseBook, CloseRecord, Reverts
  <2>3. sell'[s].pc # "unsave"
    BY <1>s, <2>2 DEF SellReturns, NewSell, CloseSold, SellGoes, Sellers
  <2> QED
    BY <1>1, <2>1, <2>3, SavedFrame
<1> QED
  BY <1>2, <1>3, <1>4

LEMMA OthersSaved ==
    ASSUME TypeOK, SavedInv,
           \/ \E c \in Checks : CheckStep(c)
           \/ \E h \in Kills : KillStep(h)
           \/ \E b \in Buys : Elapse(b)
           \/ \E t \in Buys \cup Sells : BundleSettles(t)
           \/ TickStep \/ Disarm \/ Restart \/ UNCHANGED vars
    PROVE  SavedInv'
<1> USE DEF TypeOK, ThreadsOK, MemoryOK
<1>1. CASE \E c \in Checks : CheckStep(c)
  <2>1. PICK c \in Checks : CheckStep(c)
    BY <1>1
  <2>2. UNCHANGED <<positions, saved, buy>>
    BY <2>1 DEF CheckStep, CheckClosing, CheckOpen, CheckReadFails, CheckStale, CheckHold,
                CheckClaim, Observe, CheckGauge, CheckReturns, memVars, redisVars
  <2>3. \A s \in Sells : sell'[s] = sell[s] \/ sell'[s].pc = "claim"
    <3>1. CASE \E t \in Sells : CheckClaim(c, t)
      <4>1. PICK t \in Sells, q \in Quotes :
              sell' = [sell EXCEPT ![t] =
                         Spawned(check[c].pos, Exit(q, check[c].elapsed), None)]
        BY <3>1 DEF CheckClaim
      <4> QED
        BY <4>1 DEF Spawned
    <3>2. CASE ~\E t \in Sells : CheckClaim(c, t)
      BY <2>1, <3>2 DEF CheckStep, CheckClosing, CheckOpen, CheckReadFails, CheckStale,
                        CheckHold, CheckGauge, CheckReturns
    <3> QED
      BY <3>1, <3>2
  <2> QED
    BY <2>2, <2>3, SavedFrame
<1>2. CASE \E h \in Kills : KillStep(h)
  <2>1. PICK h \in Kills : KillStep(h)
    BY <1>2
  <2>2. UNCHANGED <<positions, saved, buy>>
    BY <2>1 DEF KillStep, KillArm, KillArmFails, KillSnapshot, KillReturn, KillSkip,
                KillDump, memVars, redisVars
  <2>3. \A s \in Sells : sell'[s] = sell[s] \/ sell'[s].pc = "claim"
    <3>1. CASE \E m \in Mints, t \in Sells : KillDump(h, m, t)
      <4>1. PICK m \in Mints, t \in Sells :
              sell' = [sell EXCEPT ![t] = Spawned(positions[m], "kill_switch", h)]
        BY <3>1 DEF KillDump
      <4> QED
        BY <4>1 DEF Spawned
    <3>2. CASE ~\E m \in Mints, t \in Sells : KillDump(h, m, t)
      BY <2>1, <3>2 DEF KillStep, KillArm, KillArmFails, KillSnapshot, KillReturn, KillSkip
    <3> QED
      BY <3>1, <3>2
  <2> QED
    BY <2>2, <2>3, SavedFrame
<1>3. CASE Restart
  <2>1. /\ \A m \in Mints : positions'[m] = None
        /\ \A s \in Sells : sell'[s].pc = "idle"
    BY <1>3 DEF Restart, NewSell
  <2> QED
    BY <2>1 DEF SavedInv, OpenIsSaved
<1>4. CASE \/ \E b \in Buys : Elapse(b)
           \/ \E t \in Buys \cup Sells : BundleSettles(t)
           \/ TickStep \/ Disarm \/ UNCHANGED vars
  <2>1. UNCHANGED <<positions, saved, buy, sell>>
    BY <1>4 DEF Elapse, BundleSettles, TickStep, TickStart, TickSnapshot, TickSkip,
                TickSpawn, Disarm, memVars, redisVars, threadVars, vars
  <2> QED
    BY <2>1, SavedFrame
<1> QED
  BY <1>1, <1>2, <1>3, <1>4

LEMMA SavedKeeps == ASSUME ~IOFaults PROVE Spec /\ []OneBuy => []OpenIsSaved
<1>1. Init => SavedInv /\ MappedInv
  BY InitMapped DEF Init, SavedInv, OpenIsSaved, NewSell
<1>2. TypeOK /\ TrajectoryInv /\ OneBuy /\ OneBuy' /\ MappedInv /\ SavedInv /\ [Next]_vars
        => SavedInv'
  BY BuySaved, SellSaved, OthersSaved DEF Next, TrajectoryInv
<1>3. TypeOK /\ MappedInv /\ [Next]_vars => MappedInv'
  BY MappedStep
<1>4. SavedInv => OpenIsSaved
  BY DEF SavedInv
<1> QED
  BY <1>1, <1>2, <1>3, <1>4, TypeCorrect, TrajectoriesOrdered, PTL DEF Spec

\* As long as Redis answers and no token is bought twice, every position in the map is in
\* the hash positions:open once savePosition has written it, for any number of positions,
\* kill switches and restarts (savePosition, closePosition).
THEOREM MappedIsSaved ==
    ASSUME BoughtOnce, ~IOFaults PROVE Spec => []OpenIsSaved
<1>1. OneBuy
  BY DEF OneBuy, BoughtOnce
<1> QED
  BY <1>1, SavedKeeps, PTL

-----------------------------------------------------------------------------
(* The kill switch *)

\* Nothing is booked for b, and nobody is about to.
Untouched(b) ==
    /\ records[b] = <<>> /\ pnl[b] = 0
    /\ \A s \in Sells : HasProceeds(s) => sell[s].pos # b

LotOf(b) ==
    /\ buy[b].pc \in {"idle", "lookup", "build"} => bundle[b].state = "none"
    /\ buy[b].pc = "insert" => buy[b].landed
    /\ buy[b].landed => bundle[b].state = "landed"
    /\ pos[b].status # "absent" => bundle[b].state = "landed"
    /\ bundle[b].state # "none" => bundle[b].mint = Mint(b)
    /\ bundle[b].state \in {"pending", "dead"} => lots[Mint(b)] = 0
    /\ lots[Mint(b)] <= 1
    /\ lots[Mint(b)] = 1 /\ pos[b].status # "absent" => positions[Mint(b)] = b

SaleOf(s) ==
    /\ sell[s].pc = "await" => bundle[s].mint = Mint(sell[s].pos)
    /\ HasProceeds(s) =>
         /\ records[sell[s].pos] = <<>>
         /\ sell[s].pc # "record" => pnl[sell[s].pos] = 0
         /\ sell[s].pc \in {"await", "close", "unmap"} =>
              positions[Mint(sell[s].pos)] = sell[s].pos

\* Several sellers may work on a position, and revert each other's claims; its one lot
\* goes to one of them. As long as the lot is there nobody has closed the position.
LotInv ==
    /\ \A b \in Buys : LotOf(b)
    /\ \A b \in Buys :
         lots[Mint(b)] = 1 => \E a \in Buys : Mint(a) = Mint(b) /\ bundle[a].state = "landed"
    /\ \A b \in Buys :
         bundle[b].state # "landed" \/ lots[Mint(b)] = 1 => Untouched(b)
    /\ \A s \in Sells : SaleOf(s)
    /\ \A s, t \in Sells :
         HasProceeds(s) /\ HasProceeds(t) /\ sell[s].pos = sell[t].pos => s = t
    /\ BookedOnce

LEMMA InitLots == Init => LotInv
<1> SUFFICES ASSUME Init PROVE LotInv
  OBVIOUS
<1>1. /\ \A b \in Buys : /\ buy[b].pc = "idle" /\ ~buy[b].landed
                         /\ pos[b].status = "absent" /\ bundle[b].state = "none"
                         /\ records[b] = <<>> /\ pnl[b] = 0 /\ lots[Mint(b)] = 0
      /\ \A s \in Sells : sell[s].pc = "idle"
  BY SignalsAssumption DEF Init, NewBuy, NewSell, Absent, NoBundle, Mint
<1>2. \A s \in Sells : ~HasProceeds(s) /\ SaleOf(s)
  BY <1>1 DEF HasProceeds, SaleOf, Closing
<1>3. \A b \in Buys : LotOf(b) /\ Untouched(b)
  BY <1>1, <1>2 DEF LotOf, Untouched
<1>4. BookedOnce
  BY <1>1, BoundsAssumption DEF BookedOnce, MaxIncrement
<1> QED
  BY <1>1, <1>2, <1>3, <1>4 DEF LotInv

\* No lot moves and nothing is booked; proceeds only go.
LEMMA LotFrame ==
    ASSUME LotInv, UNCHANGED <<records, pnl, lots>>,
           \A b \in Buys :
             /\ bundle'[b] = bundle[b]
             /\ buy'[b].pc \in {"idle", "lookup", "build"} =>
                  buy[b].pc \in {"idle", "lookup", "build"}
             /\ buy'[b].pc = "insert" => buy'[b].landed
             /\ buy'[b].landed => bundle[b].state = "landed"
             /\ pos'[b].status # "absent" => bundle[b].state = "landed"
             /\ lots[Mint(b)] = 1 /\ pos'[b].status # "absent" => positions'[Mint(b)] = b,
           \A s \in Sells :
             /\ sell'[s].pc = "await" => bundle'[s].mint = Mint(sell'[s].pos)
             /\ HasProceeds(s)' =>
                  /\ HasProceeds(s) /\ sell'[s].pos = sell[s].pos
                  /\ sell'[s].pc # "record" => sell[s].pc # "record"
                  /\ sell'[s].pc \in {"await", "close", "unmap"} =>
                       positions'[Mint(sell[s].pos)] = sell[s].pos
    PROVE  LotInv'
<1>1. \A b \in Buys : LotOf(b)'
  BY DEF LotInv, LotOf, Mint
<1>2. \A b \in Buys : Untouched(b) => Untouched(b)'
  BY DEF Untouched
<1>3. \A s \in Sells : SaleOf(s)'
  BY DEF LotInv, SaleOf, Mint
<1>4. BookedOnce'
  BY DEF LotInv, BookedOnce
<1>5. \A b \in Buys :
        bundle'[b].state # "landed" \/ lots'[Mint(b)] = 1 => Untouched(b)'
  BY <1>2 DEF LotInv
<1>6. \A s, t \in Sells :
        HasProceeds(s)' /\ HasProceeds(t)' /\ sell'[s].pos = sell'[t].pos => s = t
  BY DEF LotInv
<1>7. \A b \in Buys :
        lots'[Mint(b)] = 1 => \E a \in Buys : Mint(a) = Mint(b) /\ bundle'[a].state = "landed"
  BY DEF LotInv
<1> QED
  BY <1>1, <1>3, <1>4, <1>5, <1>6, <1>7 DEF LotInv, Mint

\* The goroutines that buy nothing and sell nothing.
LEMMA QuietFrame ==
    ASSUME LotInv, UNCHANGED <<records, pnl, lots, buy, positions>>,
           \A b \in Buys :
             /\ bundle'[b] = bundle[b]
             /\ pos'[b].status # "absent" => pos[b].status # "absent",
           \A s \in Sells :
             \/ sell'[s] = sell[s] /\ bundle'[s] = bundle[s]
             \/ sell'[s].pc \in {"idle", "claim", "build"}
    PROVE  LotInv'
<1>1. \A b \in Buys : LotOf(b)
  BY DEF LotInv
<1>2. \A s \in Sells : SaleOf(s)
  BY DEF LotInv
<1>3. ASSUME NEW s \in Sells
      PROVE  /\ sell'[s].pc = "await" => bundle'[s].mint = Mint(sell'[s].pos)
             /\ HasProceeds(s)' =>
                  /\ HasProceeds(s) /\ sell'[s].pos = sell[s].pos
                  /\ sell'[s].pc # "record" => sell[s].pc # "record"
                  /\ sell'[s].pc \in {"await", "close", "unmap"} =>
                       positions'[Mint(sell[s].pos)] = sell[s].pos
  <2>1. CASE sell'[s] = sell[s] /\ bundle'[s] = bundle[s]
    BY <1>2, <2>1 DEF SaleOf, HasProceeds
  <2>2. CASE sell'[s].pc \in {"idle", "claim", "build"}
    BY <2>2 DEF HasProceeds, Closing
  <2> QED
    BY <2>1, <2>2
<1>4. \A b \in Buys :
        /\ bundle'[b] = bundle[b]
        /\ buy'[b].pc \in {"idle", "lookup", "build"} =>
             buy[b].pc \in {"idle", "lookup", "build"}
        /\ buy'[b].pc = "insert" => buy'[b].landed
        /\ buy'[b].landed => bundle[b].state = "landed"
        /\ pos'[b].status # "absent" => bundle[b].state = "landed"
        /\ lots[Mint(b)] = 1 /\ pos'[b].status # "absent" => positions'[Mint(b)] = b
  BY <1>1 DEF LotOf
<1> QED
  BY <1>3, <1>4, LotFrame

\* Whoever has proceeds has them from a position that was opened.
LEMMA SellerOpened ==
    ASSUME TypeOK, SellersHaveOpened, NEW s \in Sells, HasProceeds(s)
    PROVE  sell[s].pos \in Buys /\ pos[sell[s].pos].status # "absent"
<1>1. sell[s].pos \in Buys
  BY SellPos DEF HasProceeds, Closing, TypeOK
<1> QED
  BY <1>1, NoneAssumption DEF SellersHaveOpened

\* A signal has one buy, which submits one bundle.
LEMMA BuyLots ==
    ASSUME ~SimulationMode, TypeOK, SellersHaveOpened, LotInv, OneBuy, OneBuy',
           NEW b \in Buys, BuyStep(b)
    PROVE  LotInv'
<1> USE DEF TypeOK, ThreadsOK, MemoryOK, ChainOK
<1>t. buy[b] \in Buyers /\ b \notin Sells /\ Mint(b) \in Mints
  BY ThreadsAssumption, SignalsAssumption DEF Mint
<1>1. /\ UNCHANGED <<sell, records, pnl, lots>>
      /\ \A a \in Buys \ {b} :
           buy'[a] = buy[a] /\ pos'[a] = pos[a] /\ bundle'[a] = bundle[a]
      /\ \A s \in Sells : bundle'[s] = bundle[s]
  <2>1. UNCHANGED <<sell, records, pnl, lots>>
    BY DEF BuyStep, BuyGate, BuyLookup, BuyBuildFails, BuyBuilt, BuyReport, BuyShowRatio,
           BuyInsert, BuyPersist, BuyPublish, chainVars, redisVars
  <2>2. \A a \in Buys \ {b} : buy'[a] = buy[a]
    BY DEF BuyStep, BuyGate, BuyLookup, BuyBuildFails, BuyBuilt, BuyReport, BuyShowRatio,
           BuyInsert, BuyPersist, BuyPublish, BuyGoes
  <2>3. \A a \in Buys \ {b} : pos'[a] = pos[a]
    BY DEF BuyStep, BuyGate, BuyLookup, BuyBuildFails, BuyBuilt, BuyReport, BuyShowRatio,
           BuyInsert, BuyPersist, BuyPublish, memVars
  <2>4. \A t \in (Buys \cup Sells) \ {b} : bundle'[t] = bundle[t]
    BY DEF BuyStep, BuyGate, BuyLookup, BuyBuildFails, BuyBuilt, BuyReport, BuyShowRatio,
           BuyInsert, BuyPersist, BuyPublish, chainVars
  <2> QED
    BY <1>t, <2>1, <2>2, <2>3, <2>4
<1>2. \A s \in Sells : SaleOf(s) /\ HasProceeds(s)' = HasProceeds(s)
  BY <1>1 DEF HasProceeds, LotInv
<1>3. \A a \in Buys : LotOf(a)
  BY DEF LotInv
<1>4. CASE BuyBuilt(b)
  <2>1. /\ buy[b].pc = "build" /\ buy'[b].pc = "await" /\ buy'[b].landed = buy[b].landed
        /\ bundle'[b].state = "pending" /\ bundle'[b].mint = Mint(b)
        /\ UNCHANGED <<pos, positions>>
    BY <1>t, <1>4 DEF BuyBuilt, BuyGoes, Buyers, memVars
  <2> HIDE DEF TypeOK, ThreadsOK, MemoryOK, ChainOK
  <2>2. bundle[b].state = "none"
    BY <1>3, <2>1 DEF LotOf
  <2>a. \A a \in Buys : Mint(a) = Mint(b) => bundle[a].state # "landed"
    <3>1. \A a \in Buys \ {b} : Mint(a) = Mint(b) => bundle'[a].state = "none"
      BY <2>1 DEF OneBuy, Bought, Mint
    <3> QED
      BY <1>1, <2>2, <3>1
  <2>b. lots[Mint(b)] # 1 /\ lots[Mint(b)] <= 1
    BY <1>3, <2>a DEF LotInv, LotOf
  <2>c. lots[Mint(b)] = 0
    BY <1>t, <2>b DEF TypeOK, ChainOK
  <2>3. LotOf(b)'
    BY <1>1, <1>3, <2>1, <2>2, <2>c DEF LotOf, Mint
  <2>4. \A a \in Buys \ {b} : LotOf(a)'
    BY <1>1, <1>3, <2>1 DEF LotOf, Mint
  <2>5. \A a \in Buys : Untouched(a)' = Untouched(a)
    BY <1>1, <1>2 DEF Untouched
  <2>6. \A a \in Buys :
          bundle'[a].state # "landed" \/ lots'[Mint(a)] = 1 => Untouched(a)'
    BY <1>1, <2>2, <2>5 DEF LotInv
  <2>7. \A s \in Sells : SaleOf(s)'
    BY <1>1, <1>2, <2>1 DEF SaleOf, Mint
  <2>8. \A s, t \in Sells :
          HasProceeds(s)' /\ HasProceeds(t)' /\ sell'[s].pos = sell'[t].pos => s = t
    BY <1>1, <1>2 DEF LotInv
  <2>9. BookedOnce'
    BY <1>1 DEF LotInv, BookedOnce
  <2>10. \A c \in Buys :
           lots'[Mint(c)] = 1 => \E a \in Buys : Mint(a) = Mint(c) /\ bundle'[a].state = "landed"
    BY <1>1, <2>2 DEF LotInv
  <2> QED
    BY <2>3, <2>4, <2>6, <2>7, <2>8, <2>9, <2>10 DEF LotInv, Mint
<1>5. CASE ~BuyBuilt(b)
  <2>1. bundle' = bundle
    BY <1>5 DEF BuyStep, BuyGate, BuyLookup, BuyBuildFails, BuyReport, BuyShowRatio,
                BuyInsert, BuyPersist, BuyPublish, chainVars
  <2>2. /\ buy'[b].pc \in {"idle", "lookup", "build"} =>
             buy[b].pc \in {"idle", "lookup", "build"}
        /\ buy'[b].pc = "insert" => buy'[b].landed
        /\ buy'[b].landed => bundle[b].state = "landed"
    <3>1. CASE BuyReport(b)
      BY <1>t, <3>1 DEF BuyReport, Reports, Buyers
    <3>2. CASE BuyShowRatio(b)
      BY <1>t, <1>3, <3>2 DEF BuyShowRatio, Buyers, LotOf
    <3>3. CASE ~BuyReport(b) /\ ~BuyShowRatio(b)
      <4>1. \/ /\ buy[b].pc \in {"idle", "lookup", "build"}
               /\ \E pc \in {"lookup", "build", "done"} : BuyGoes(b, pc)
            \/ \E pc \in {"persist", "publish", "done"} : BuyGoes(b, pc)
        BY <1>5, <3>3 DEF BuyStep, BuyGate, BuyLookup, BuyBuildFails, BuyInsert, BuyPersist,
                          BuyPublish
      <4>2. /\ buy'[b].pc \in {"idle", "lookup", "build"} =>
                 buy[b].pc \in {"idle", "lookup", "build"}
            /\ buy'[b].pc # "insert" /\ buy'[b].landed = buy[b].landed
        BY <1>t, <4>1 DEF BuyGoes, Buyers
      <4> QED
        BY <1>3, <4>2 DEF LotOf
    <3> QED
      BY <3>1, <3>2, <3>3
  <2>3. \/ pos' = pos /\ positions' = positions
        \/ /\ buy[b].pc = "insert"
           /\ positions' = [positions EXCEPT ![Mint(b)] = b]
    BY <1>5 DEF BuyStep, BuyGate, BuyLookup, BuyBuildFails, BuyReport, BuyShowRatio,
                BuyInsert, BuyPersist, BuyPublish, memVars
  <2>4. /\ pos'[b].status # "absent" => bundle[b].state = "landed"
        /\ lots[Mint(b)] = 1 /\ pos'[b].status # "absent" => positions'[Mint(b)] = b
    BY <1>t, <1>3, <2>3 DEF LotOf
  <2>a. positions' # positions => bundle[b].state = "landed"
    BY <1>3, <2>3 DEF LotOf
  <2>5. ASSUME NEW a \in Buys, positions[Mint(a)] = a, bundle[a].state = "landed"
        PROVE  positions'[Mint(a)] = a
    <3>1. positions' # positions /\ Mint(a) = Mint(b) => a = b
      BY <2>5, <2>a DEF OneBuy, Bought
    <3>2. Mint(a) \in Mints
      BY SignalsAssumption DEF Mint
    <3> HIDE DEF TypeOK, ThreadsOK, ChainOK
    <3>3. CASE positions' = positions
      BY <2>5, <3>3
    <3>4. CASE positions' = [positions EXCEPT ![Mint(b)] = b]
      BY <1>t, <2>5, <3>1, <3>2, <3>4
    <3> QED
      BY <2>3, <3>3, <3>4
  <2> HIDE DEF TypeOK, ThreadsOK, MemoryOK, ChainOK
  <2>6. ASSUME NEW a \in Buys
        PROVE  /\ bundle'[a] = bundle[a]
               /\ buy'[a].pc \in {"idle", "lookup", "build"} =>
                    buy[a].pc \in {"idle", "lookup", "build"}
               /\ buy'[a].pc = "insert" => buy'[a].landed
               /\ buy'[a].landed => bundle[a].state = "landed"
               /\ pos'[a].status # "absent" => bundle[a].state = "landed"
               /\ lots[Mint(a)] = 1 /\ pos'[a].status # "absent" => positions'[Mint(a)] = a
    <3>1. CASE a = b
      BY <2>1, <2>2, <2>4, <3>1
    <3>2. CASE a # b
      <4>1. buy'[a] = buy[a] /\ pos'[a] = pos[a]
        BY <1>1, <3>2
      <4> QED
        BY <1>3, <2>1, <2>5, <4>1 DEF LotOf
    <3> QED
      BY <3>1, <3>2
  <2>7. ASSUME NEW s \in Sells
        PROVE  /\ sell'[s].pc = "await" => bundle'[s].mint = Mint(sell'[s].pos)
               /\ HasProceeds(s)' =>
                    /\ HasProceeds(s) /\ sell'[s].pos = sell[s].pos
                    /\ sell'[s].pc # "record" => sell[s].pc # "record"
                    /\ sell'[s].pc \in {"await", "close", "unmap"} =>
                         positions'[Mint(sell[s].pos)] = sell[s].pos
    <3>1. HasProceeds(s) => sell[s].pos \in Buys /\ bundle[sell[s].pos].state = "landed"
      BY <1>3, SellerOpened DEF LotOf
    <3> QED
      BY <1>1, <1>2, <2>5, <3>1 DEF SaleOf
  <2> QED
    BY <1>1, <2>6, <2>7, LotFrame
<1> QED
  BY <1>4, <1>5

LEMMA CheckLots ==
    ASSUME TypeOK, LotInv, NEW c \in Checks, CheckStep(c)
    PROVE  LotInv'
<1>1. UNCHANGED <<records, pnl, lots, buy, positions>>
  BY DEF CheckStep, CheckClosing, CheckOpen, CheckReadFails, CheckStale, CheckHold,
         CheckClaim, Observe, CheckGauge, CheckReturns, memVars, redisVars, chainVars
<1>2. \A b \in Buys : pos'[b].status # "absent" => pos[b].status # "absent"
  <2>1. CASE \E q \in Quotes, st \in {"open", "selling"} : Observe(c, q, st)
    BY <2>1 DEF Observe, StillOpen, TypeOK, MemoryOK
  <2>2. CASE ~\E q \in Quotes, st \in {"open", "selling"} : Observe(c, q, st)
    BY <2>2 DEF CheckStep, CheckClosing, CheckOpen, CheckReadFails, CheckStale, CheckHold,
                CheckClaim, CheckGauge, CheckReturns, memVars
  <2> QED
    BY <2>1, <2>2
<1>3. CASE \E s \in Sells : CheckClaim(c, s)
  <2>1. PICK s \in Sells : CheckClaim(c, s)
    BY <1>3
  <2>2. /\ \E x : x.pc = "claim" /\ sell' = [sell EXCEPT ![s] = x]
        /\ bundle' = [bundle EXCEPT ![s] = NoBundle]
    BY <2>1 DEF CheckClaim, Spawned
  <2>3. /\ sell'[s].pc = "claim"
        /\ \A t \in Sells \ {s} : sell'[t] = sell[t] /\ bundle'[t] = bundle[t]
        /\ \A b \in Buys : bundle'[b] = bundle[b]
    BY <2>2, ThreadsAssumption DEF TypeOK, ThreadsOK, ChainOK
  <2> QED
    BY <1>1, <1>2, <2>3, QuietFrame
<1>4. CASE ~\E s \in Sells : CheckClaim(c, s)
  <2>1. UNCHANGED <<sell, bundle>>
    BY <1>4 DEF CheckStep, CheckClosing, CheckOpen, CheckReadFails, CheckStale, CheckHold,
                CheckGauge, CheckReturns, chainVars
  <2> QED
    BY <1>1, <1>2, <2>1, QuietFrame
<1> QED
  BY <1>3, <1>4

LEMMA KillLots ==
    ASSUME TypeOK, LotInv, NEW h \in Kills, KillStep(h)
    PROVE  LotInv'
<1>1. UNCHANGED <<records, pnl, lots, buy, positions, pos>>
  BY DEF KillStep, KillArm, KillArmFails, KillSnapshot, KillReturn, KillSkip, KillDump,
         memVars, redisVars, chainVars
<1>2. CASE \E m \in Mints, s \in Sells : KillDump(h, m, s)
  <2>1. PICK m \in Mints, s \in Sells : KillDump(h, m, s)
    BY <1>2
  <2>2. /\ \E x : x.pc = "claim" /\ sell' = [sell EXCEPT ![s] = x]
        /\ bundle' = [bundle EXCEPT ![s] = NoBundle]
    BY <2>1 DEF KillDump, Spawned
  <2>3. /\ sell'[s].pc = "claim"
        /\ \A t \in Sells \ {s} : sell'[t] = sell[t] /\ bundle'[t] = bundle[t]
        /\ \A b \in Buys : bundle'[b] = bundle[b]
    BY <2>2, ThreadsAssumption DEF TypeOK, ThreadsOK, ChainOK
  <2> QED
    BY <1>1, <2>3, QuietFrame
<1>3. CASE ~\E m \in Mints, s \in Sells : KillDump(h, m, s)
  <2>1. UNCHANGED <<sell, bundle>>
    BY <1>3 DEF KillStep, KillArm, KillArmFails, KillSnapshot, KillReturn, KillSkip,
                chainVars
  <2> QED
    BY <1>1, <2>1, QuietFrame
<1> QED
  BY <1>2, <1>3

\* Memory is lost and the lots stay: nobody has proceeds any more.
LEMMA OtherLots ==
    ASSUME TypeOK, LotInv,
           \/ \E b \in Buys : Elapse(b)
           \/ TickStep \/ Disarm \/ Restart \/ UNCHANGED vars
    PROVE  LotInv'
<1>1. UNCHANGED <<records, pnl, lots, bundle>>
  BY DEF Elapse, TickStep, TickStart, TickSnapshot, TickSkip, TickSpawn, Disarm, Restart,
         vars, redisVars, chainVars
<1>2. CASE Restart
  <2>1. PICK waiting \in SUBSET {b \in Buys : buy[b].pc = "idle"} :
          buy' = [b \in Buys |-> IF b \in waiting THEN NewBuy ELSE [NewBuy EXCEPT !.pc = "done"]]
    BY <1>2 DEF Restart
  <2>2. \A b \in Buys :
          /\ buy'[b].pc \in {"idle", "lookup", "build"} => buy[b].pc = "idle"
          /\ buy'[b].pc # "insert" /\ ~buy'[b].landed
          /\ pos'[b].status = "absent"
    BY <1>2, <2>1 DEF Restart, NewBuy, Absent
  <2>3. \A s \in Sells : sell'[s].pc = "idle"
    BY <1>2 DEF Restart, NewSell
  <2>4. \A s \in Sells : sell'[s].pc # "await" /\ ~HasProceeds(s)'
    BY <2>3 DEF HasProceeds, Closing
  <2> QED
    BY <1>1, <2>2, <2>4, LotFrame
<1>3. CASE ~Restart
  <2>1. UNCHANGED <<buy, sell, positions>>
    BY <1>3 DEF Elapse, TickStep, TickStart, TickSnapshot, TickSkip, TickSpawn, Disarm,
                vars, memVars, threadVars
  <2>2. \A b \in Buys : pos'[b].status = pos[b].status
    <3>1. CASE \E b \in Buys : Elapse(b)
      BY <3>1 DEF Elapse, Positions, TypeOK, MemoryOK
    <3>2. CASE ~\E b \in Buys : Elapse(b)
      BY <1>3, <3>2 DEF TickStep, TickStart, TickSnapshot, TickSkip, TickSpawn, Disarm,
                        memVars, vars
    <3> QED
      BY <3>1, <3>2
  <2> QED
    BY <1>1, <2>1, <2>2, QuietFrame
<1> QED
  BY <1>2, <1>3

\* A sale is reported before its seller closes, and a close takes the map entry of its own
\* position only.
LEMMA SellLots ==
    ASSUME ~SimulationMode, TypeOK, SellersHaveOpened, LotInv, OneBuy,
           NEW s \in Sells, SellStep(s)
    PROVE  LotInv'
<1> USE DEF TypeOK, ThreadsOK, MemoryOK, ChainOK
<1> DEFINE p == sell[s].pos
<1>t. /\ sell[s] \in Sellers /\ p \in Buys /\ p # None /\ Mint(p) \in Mints
      /\ pos[p] \in Positions /\ s \notin Buys
  <2>1. sell[s].pc # "idle"
    BY DEF SellStep, SellClaim, SellBuildFails, SellPanics, SellBuilt, SellLanded, SellMissed,
           CloseSold, CloseUnmap, CloseUnsave, CloseBook, CloseRecord
  <2> QED
    BY <2>1, SellPos, NoneAssumption, SignalsAssumption, ThreadsAssumption DEF Mint
<1>1. /\ \A t \in Sells \ {s} : sell'[t] = sell[t] /\ bundle'[t] = bundle[t]
      /\ \A b \in Buys : bundle'[b] = bundle[b]
      /\ UNCHANGED <<buy, lots>>
  <2>1. \A t \in Sells \ {s} : sell'[t] = sell[t]
    BY DEF SellStep, SellClaim, SellBuildFails, SellPanics, SellBuilt, SellLanded, SellMissed, CloseSold,
           CloseUnmap, CloseUnsave, CloseBook, CloseRecord, SellGoes, SellReturns, Reverts
  <2>2. \A t \in (Buys \cup Sells) \ {s} : bundle'[t] = bundle[t]
    BY DEF SellStep, SellClaim, SellBuildFails, SellPanics, SellBuilt, SellLanded, SellMissed, CloseSold,
           CloseUnmap, CloseUnsave, CloseBook, CloseRecord, Reverts, chainVars
  <2>3. UNCHANGED <<buy, lots>>
    BY DEF SellStep, SellClaim, SellBuildFails, SellPanics, SellBuilt, SellLanded, SellMissed, CloseSold,
           CloseUnmap, CloseUnsave, CloseBook, CloseRecord, Reverts, chainVars
  <2> QED
    BY <1>t, <2>1, <2>2, <2>3
<1>2. \A t \in Sells \ {s} : HasProceeds(t)' = HasProceeds(t)
  BY <1>1 DEF HasProceeds
<1>3. /\ \A b \in Buys : LotOf(b)
      /\ \A t \in Sells : SaleOf(t)
  BY DEF LotInv
<1>4. pos[p].status # "absent"
  BY <1>t DEF SellersHaveOpened
\* It has proceeds already, or gets none.
<1>5. CASE ~CloseUnmap(s) /\ ~CloseBook(s) /\ ~CloseRecord(s)
  <2>1. UNCHANGED <<records, pnl, positions>>
    BY <1>5 DEF SellStep, SellClaim, SellBuildFails, SellPanics, SellBuilt, SellLanded, SellMissed,
                CloseSold, CloseUnsave, Reverts, memVars, redisVars
  <2>2. \A b \in Buys \ {p} : pos'[b] = pos[b]
    BY <1>5 DEF SellStep, SellClaim, SellBuildFails, SellPanics, SellBuilt, SellLanded, SellMissed,
                CloseSold, CloseUnsave, Reverts, memVars
  <2>3. /\ sell'[s].pc = "await" => bundle'[s].mint = Mint(sell'[s].pos)
        /\ HasProceeds(s)' =>
             /\ HasProceeds(s) /\ sell'[s].pos = p
             /\ sell'[s].pc # "record" /\ sell[s].pc # "record"
             /\ sell'[s].pc \in {"await", "close", "unmap"} =>
                  sell[s].pc \in {"await", "close"}
    <3>1. CASE SellClaim(s) \/ SellBuildFails(s) \/ SellPanics(s) \/ SellMissed(s)
      <4>1. SellReturns(s) \/ SellGoes(s, "build")
        BY <3>1 DEF SellClaim, SellBuildFails, SellPanics, SellMissed, Reverts
      <4>2. sell'[s].pc \in {"idle", "build"}
        BY <1>t, <4>1 DEF SellReturns, SellGoes, NewSell, Sellers
      <4> QED
        BY <4>2 DEF HasProceeds, Closing
    <3>2. CASE SellBuilt(s)
      <4>1. /\ sell'[s].pc = "await" /\ sell'[s].pos = p
            /\ bundle'[s].mint = Mint(p) /\ bundle'[s].state = "pending"
        BY <1>t, <3>2 DEF SellBuilt, SellGoes, Sellers
      <4> QED
        BY <4>1 DEF HasProceeds, Closing
    <3>3. CASE SellLanded(s)
      <4>1. /\ sell[s].pc = "await" /\ bundle[s].state = "landed"
            /\ sell'[s].pc = "close" /\ sell'[s].pos = p
        BY <1>t, <3>3 DEF SellLanded, Reports, SellGoes, Sellers
      <4> QED
        BY <4>1 DEF HasProceeds
    <3>4. CASE CloseSold(s)
      <4>1. sell[s].pc = "close" /\ sell'[s].pc = "unmap" /\ sell'[s].pos = p
        BY <1>t, <3>4 DEF CloseSold, Sellers
      <4> QED
        BY <4>1 DEF HasProceeds
    <3>5. CASE CloseUnsave(s)
      <4>1. sell[s].pc = "unsave" /\ sell'[s].pc = "book" /\ sell'[s].pos = p
        BY <1>t, <3>5 DEF CloseUnsave, SellGoes, Sellers
      <4> QED
        BY <4>1 DEF HasProceeds, Closing
    <3> QED
      BY <1>5, <3>1, <3>2, <3>3, <3>4, <3>5 DEF SellStep
  <2> HIDE DEF TypeOK, ThreadsOK, MemoryOK, ChainOK
  <2>4. ASSUME NEW b \in Buys
        PROVE  /\ bundle'[b] = bundle[b]
               /\ buy'[b].pc \in {"idle", "lookup", "build"} =>
                    buy[b].pc \in {"idle", "lookup", "build"}
               /\ buy'[b].pc = "insert" => buy'[b].landed
               /\ buy'[b].landed => bundle[b].state = "landed"
               /\ pos'[b].status # "absent" => bundle[b].state = "landed"
               /\ lots[Mint(b)] = 1 /\ pos'[b].status # "absent" => positions'[Mint(b)] = b
    <3>1. pos'[b].status # "absent" => pos[b].status # "absent"
      BY <1>4, <2>2
    <3> QED
      BY <1>1, <1>3, <2>1, <3>1 DEF LotOf
  <2>5. ASSUME NEW t \in Sells
        PROVE  /\ sell'[t].pc = "await" => bundle'[t].mint = Mint(sell'[t].pos)
               /\ HasProceeds(t)' =>
                    /\ HasProceeds(t) /\ sell'[t].pos = sell[t].pos
                    /\ sell'[t].pc # "record" => sell[t].pc # "record"
                    /\ sell'[t].pc \in {"await", "close", "unmap"} =>
                         positions'[Mint(sell[t].pos)] = sell[t].pos
    <3>1. CASE t = s
      BY <1>3, <2>1, <2>3, <3>1 DEF SaleOf
    <3>2. CASE t # s
      BY <1>1, <1>2, <1>3, <2>1, <3>2 DEF SaleOf
    <3> QED
      BY <3>1, <3>2
  <2> QED
    BY <1>1, <2>1, <2>4, <2>5, LotFrame
\* The closer is the only one with the proceeds, and the lot is gone.
<1>6. ASSUME sell[s].pc \in Closing
      PROVE  /\ lots[Mint(p)] # 1 /\ bundle[p].state = "landed"
             /\ \A t \in Sells : HasProceeds(t) /\ sell[t].pos = p => t = s
             /\ records[p] = <<>>
             /\ sell[s].pc # "record" => pnl[p] = 0
  <2>1. HasProceeds(s)
    BY <1>6 DEF HasProceeds
  <2>2. ~Untouched(p)
    BY <2>1 DEF Untouched
  <2> QED
    BY <1>t, <1>3, <2>1, <2>2 DEF LotInv, SaleOf
<1>7. CASE CloseUnmap(s)
  <2>1. /\ sell[s].pc = "unmap" /\ sell'[s].pc = "unsave" /\ sell'[s].pos = p
        /\ positions' = [positions EXCEPT ![Mint(p)] = None]
        /\ UNCHANGED <<pos, records, pnl>>
    BY <1>t, <1>7 DEF CloseUnmap, SellGoes, Sellers, redisVars
  <2>2. /\ lots[Mint(p)] # 1
        /\ \A t \in Sells : HasProceeds(t) /\ sell[t].pos = p => t = s
    BY <1>6, <2>1 DEF Closing
  <2>3. ASSUME NEW b \in Buys, positions[Mint(b)] = b, b # p, pos[b].status # "absent"
        PROVE  positions'[Mint(b)] = b
    <3>1. Mint(b) # Mint(p)
      BY <1>t, <1>3, <1>4, <2>3 DEF OneBuy, Bought, LotOf
    <3> QED
      BY <2>1, <2>3, <3>1
  <2> HIDE DEF TypeOK, ThreadsOK, MemoryOK, ChainOK
  <2>4. ASSUME NEW b \in Buys
        PROVE  /\ bundle'[b] = bundle[b]
               /\ buy'[b].pc \in {"idle", "lookup", "build"} =>
                    buy[b].pc \in {"idle", "lookup", "build"}
               /\ buy'[b].pc = "insert" => buy'[b].landed
               /\ buy'[b].landed => bundle[b].state = "landed"
               /\ pos'[b].status # "absent" => bundle[b].state = "landed"
               /\ lots[Mint(b)] = 1 /\ pos'[b].status # "absent" => positions'[Mint(b)] = b
    BY <1>1, <1>3, <2>1, <2>2, <2>3 DEF LotOf
  <2>5. ASSUME NEW t \in Sells
        PROVE  /\ sell'[t].pc = "await" => bundle'[t].mint = Mint(sell'[t].pos)
               /\ HasProceeds(t)' =>
                    /\ HasProceeds(t) /\ sell'[t].pos = sell[t].pos
                    /\ sell'[t].pc # "record" => sell[t].pc # "record"
                    /\ sell'[t].pc \in {"await", "close", "unmap"} =>
                         positions'[Mint(sell[t].pos)] = sell[t].pos
    <3>1. CASE t = s
      BY <2>1, <3>1 DEF HasProceeds, Closing
    <3>2. CASE t # s
      <4>1. /\ sell'[t] = sell[t] /\ bundle'[t] = bundle[t]
            /\ HasProceeds(t)' = HasProceeds(t) /\ SaleOf(t)
        BY <1>1, <1>2, <1>3, <3>2
      <4>2. HasProceeds(t) =>
              /\ sell[t].pos \in Buys /\ sell[t].pos # p
              /\ pos[sell[t].pos].status # "absent"
        BY <2>2, <3>2, SellerOpened
      <4> QED
        BY <2>3, <4>1, <4>2 DEF SaleOf
    <3> QED
      BY <3>1, <3>2
  <2> QED
    BY <1>1, <2>1, <2>4, <2>5, LotFrame
\* What is booked is booked for p, once.
<1>8. CASE CloseBook(s) \/ CloseRecord(s)
  <2>1. /\ UNCHANGED <<pos, positions, bundle>>
        /\ sell[s].pc \in Closing
        /\ \A b \in Buys \ {p} : records'[b] = records[b] /\ pnl'[b] = pnl[b]
    BY <1>8 DEF CloseBook, CloseRecord, memVars, redisVars, chainVars, Closing, RedisOK
  <2>2. /\ \/ HasProceeds(s)' /\ sell'[s].pc = "record" /\ sell'[s].pos = p
              /\ records'[p] = records[p]
           \/ ~HasProceeds(s)' /\ sell'[s].pc = "idle"
        /\ Len(records'[p]) <= 1 /\ pnl'[p] <= MaxIncrement
    <3>1. CASE CloseBook(s)
      <4>1. /\ sell[s].pc = "book" /\ sell'[s].pc = "record" /\ sell'[s].pos = p
            /\ records' = records
        BY <1>t, <3>1 DEF CloseBook, SellGoes, Sellers
      <4>2. records[p] = <<>> /\ pnl[p] = 0
        BY <1>6, <4>1 DEF Closing
      <4>3. pnl'[p] <= MaxIncrement
        BY <1>t, <3>1, <4>2, OneClose
      <4> QED
        BY <4>1, <4>2, <4>3 DEF HasProceeds, Closing
    <3>2. CASE CloseRecord(s)
      <4>1. /\ sell[s].pc = "record" /\ sell'[s].pc = "idle" /\ pnl' = pnl
            /\ \E x : records' \in {records, [records EXCEPT ![p] = Append(@, x)]}
        BY <1>t, <3>2 DEF CloseRecord, SellReturns, NewSell
      <4>2. records[p] = <<>> /\ pnl[p] <= MaxIncrement
        BY <1>t, <1>6, <4>1 DEF Closing, LotInv, BookedOnce
      <4>3. Len(records'[p]) <= 1
        <5>1. PICK x : records' \in {records, [records EXCEPT ![p] = Append(@, x)]}
          BY <4>1
        <5>2. CASE records' = records
          BY <4>2, <5>2
        <5>3. CASE records' = [records EXCEPT ![p] = Append(@, x)]
          <6>1. records'[p] = <<x>>
            BY <1>t, <4>2, <5>3
          <6> QED
            BY <6>1
        <5> QED
          BY <5>1, <5>2, <5>3
      <4> QED
        BY <4>1, <4>2, <4>3 DEF HasProceeds, Closing
    <3> QED
      BY <1>8, <3>1, <3>2
  <2>3. /\ lots[Mint(p)] # 1 /\ bundle[p].state = "landed" /\ HasProceeds(s)
        /\ \A t \in Sells : HasProceeds(t) /\ sell[t].pos = p => t = s
        /\ records[p] = <<>>
    BY <1>6, <2>1 DEF HasProceeds
  <2> HIDE DEF TypeOK, ThreadsOK, MemoryOK, ChainOK
  <2>4. \A b \in Buys : LotOf(b)'
    BY <1>1, <1>3, <2>1 DEF LotOf, Mint
  <2>5. \A b \in Buys :
          bundle'[b].state # "landed" \/ lots'[Mint(b)] = 1 => Untouched(b)'
    <3>1. \A b \in Buys \ {p} : Untouched(b) => Untouched(b)'
      BY <1>1, <1>2, <2>1, <2>2 DEF Untouched
    <3> QED
      BY <1>1, <2>1, <2>3, <3>1 DEF LotInv
  <2>6. ASSUME NEW t \in Sells PROVE SaleOf(t)'
    <3>1. CASE t = s
      BY <2>2, <2>3, <3>1 DEF SaleOf
    <3>2. CASE t # s
      <4>1. /\ sell'[t] = sell[t] /\ bundle'[t] = bundle[t]
            /\ HasProceeds(t)' = HasProceeds(t) /\ SaleOf(t)
        BY <1>1, <1>2, <1>3, <3>2
      <4>2. HasProceeds(t) => sell[t].pos \in Buys /\ sell[t].pos # p
        BY <2>3, <3>2, SellerOpened
      <4> QED
        BY <2>1, <4>1, <4>2 DEF SaleOf, Mint
    <3> QED
      BY <3>1, <3>2
  <2>7. \A t, u \in Sells :
          HasProceeds(t)' /\ HasProceeds(u)' /\ sell'[t].pos = sell'[u].pos => t = u
    BY <1>1, <1>2, <2>2, <2>3 DEF LotInv
  <2>8. BookedOnce'
    BY <2>1, <2>2 DEF LotInv, BookedOnce
  <2>9. \A b \in Buys :
          lots'[Mint(b)] = 1 => \E a \in Buys : Mint(a) = Mint(b) /\ bundle'[a].state = "landed"
    BY <1>1 DEF LotInv
  <2> QED
    BY <2>4, <2>5, <2>6, <2>7, <2>8, <2>9 DEF LotInv, Mint
<1> QED
  BY <1>5, <1>7, <1>8

\* A buy that lands brings the first lot of its token.
LEMMA BuyLands ==
    ASSUME TypeOK, LotInv, OneBuy, NEW t \in Buys, BundleSettles(t)
    PROVE  LotInv'
<1> USE DEF TypeOK, ThreadsOK, ChainOK
<1>1. /\ bundle[t] \in Bundles /\ bundle[t].state = "pending" /\ t \notin Sells
      /\ UNCHANGED <<buy, sell, pos, positions, records, pnl>>
      /\ \A u \in (Buys \cup Sells) \ {t} : bundle'[u] = bundle[u]
      /\ bundle'[t].mint = bundle[t].mint /\ bundle'[t].state \in {"landed", "dead"}
  <2>1. /\ bundle[t].state = "pending"
        /\ UNCHANGED <<buy, sell, pos, positions, records, pnl>>
    BY DEF BundleSettles, memVars, redisVars, threadVars
  <2>2. bundle[t] \in Bundles
    BY <2>1 DEF NoBundle
  <2>3. \E x \in {"landed", "dead"} : bundle' = [bundle EXCEPT ![t].state = x]
    BY DEF BundleSettles
  <2> QED
    BY <2>1, <2>2, <2>3, ThreadsAssumption DEF Bundles
<1>2. /\ \A b \in Buys : LotOf(b)
      /\ \A s \in Sells : SaleOf(s)
  BY DEF LotInv
<1>3. /\ bundle[t].mint = Mint(t) /\ lots[Mint(t)] = 0 /\ Untouched(t)
      /\ pos[t].status = "absent" /\ ~buy[t].landed
      /\ buy[t].pc \notin {"idle", "lookup", "build"}
  BY <1>1, <1>2 DEF LotOf, LotInv
<1>4. Mint(t) \in Mints
  BY SignalsAssumption DEF Mint
<1>5. /\ lots'[Mint(t)] = IF bundle'[t].state = "landed" THEN 1 ELSE 0
      /\ \A b \in Buys : Mint(b) # Mint(t) => lots'[Mint(b)] = lots[Mint(b)]
  <2>1. CASE /\ bundle' = [bundle EXCEPT ![t].state = "landed"]
             /\ lots' = [lots EXCEPT ![Mint(t)] = @ + 1]
    <3>1. bundle'[t].state = "landed" /\ lots'[Mint(t)] = 1
      BY <1>1, <1>3, <1>4, <2>1 DEF Bundles
    <3>2. ASSUME NEW b \in Buys, Mint(b) # Mint(t) PROVE lots'[Mint(b)] = lots[Mint(b)]
      <4>1. Mint(b) \in Mints
        BY SignalsAssumption DEF Mint
      <4> QED
        BY <2>1, <3>2, <4>1
    <3> QED
      BY <3>1, <3>2
  <2>2. CASE /\ bundle' = [bundle EXCEPT ![t].state = "dead"]
             /\ lots' = lots
    BY <1>1, <1>3, <2>2 DEF Bundles
  <2> QED
    BY <1>1, <1>3, <2>1, <2>2 DEF BundleSettles
<1> HIDE DEF TypeOK, ThreadsOK, ChainOK
<1>6. \A s \in Sells : HasProceeds(s)' = HasProceeds(s) /\ SaleOf(s)'
  BY <1>1, <1>2 DEF HasProceeds, SaleOf, Mint
<1>7. \A b \in Buys : Untouched(b)' = Untouched(b)
  BY <1>1, <1>6 DEF Untouched
<1>8. ASSUME NEW b \in Buys, b # t, Mint(b) = Mint(t)
      PROVE  /\ bundle[b].state = "none" /\ bundle'[b] = bundle[b]
             /\ pos[b].status = "absent" /\ ~buy[b].landed
  <2>1. bundle[b].state = "none"
    BY <1>1, <1>8 DEF OneBuy, Bought
  <2> QED
    BY <1>1, <1>2, <1>8, <2>1 DEF LotOf
<1>9. ASSUME NEW b \in Buys PROVE LotOf(b)'
  <2>1. CASE b = t
    <3>1. /\ bundle'[t].mint = Mint(t)
          /\ bundle'[t].state # "none" /\ lots'[Mint(t)] <= 1
          /\ bundle'[t].state # "landed" => lots'[Mint(t)] = 0
      BY <1>1, <1>3, <1>5
    <3>2. /\ buy'[t].pc \notin {"idle", "lookup", "build", "insert"} /\ ~buy'[t].landed
          /\ pos'[t].status = "absent"
      BY <1>1, <1>2, <1>3 DEF LotOf
    <3>3. LotOf(t)'
      BY <3>1, <3>2 DEF LotOf, Mint
    <3> QED
      BY <2>1, <3>3
  <2>2. CASE b # t /\ Mint(b) = Mint(t)
    <3>1. bundle'[b].state = "none" /\ pos'[b].status = "absent" /\ ~buy'[b].landed
      BY <1>1, <1>8, <2>2
    <3>2. buy'[b].pc # "insert" /\ lots'[Mint(b)] <= 1
      BY <1>1, <1>2, <1>5, <1>8, <2>2 DEF LotOf
    <3> QED
      BY <3>1, <3>2 DEF LotOf, Mint
  <2>3. CASE Mint(b) # Mint(t)
    <3>1. lots'[Mint(b)] = lots[Mint(b)] /\ bundle'[b] = bundle[b]
      BY <1>1, <1>5, <2>3
    <3> QED
      BY <1>1, <1>2, <3>1 DEF LotOf, Mint
  <2> QED
    BY <2>1, <2>2, <2>3
<1>10. ASSUME NEW b \in Buys, bundle'[b].state # "landed" \/ lots'[Mint(b)] = 1
       PROVE  Untouched(b)'
  <2>1. CASE b = t
    BY <1>3, <1>7, <2>1
  <2>2. CASE b # t /\ Mint(b) = Mint(t)
    BY <1>7, <1>8, <2>2 DEF LotInv
  <2>3. CASE Mint(b) # Mint(t)
    <3>1. lots'[Mint(b)] = lots[Mint(b)] /\ bundle'[b] = bundle[b]
      BY <1>1, <1>5, <2>3
    <3> QED
      BY <1>7, <1>10, <3>1 DEF LotInv
  <2> QED
    BY <2>1, <2>2, <2>3
<1>11. ASSUME NEW b \in Buys, lots'[Mint(b)] = 1
       PROVE  \E a \in Buys : Mint(a) = Mint(b) /\ bundle'[a].state = "landed"
  <2>1. CASE Mint(b) = Mint(t)
    BY <1>1, <1>5, <1>11, <2>1
  <2>2. CASE Mint(b) # Mint(t)
    <3>1. PICK a \in Buys : Mint(a) = Mint(b) /\ bundle[a].state = "landed"
      BY <1>5, <1>11, <2>2 DEF LotInv
    <3> QED
      BY <1>1, <2>2, <3>1
  <2> QED
    BY <2>1, <2>2
<1>12. /\ BookedOnce'
       /\ \A s, u \in Sells :
            HasProceeds(s)' /\ HasProceeds(u)' /\ sell'[s].pos = sell'[u].pos => s = u
  BY <1>1, <1>6 DEF LotInv, BookedOnce
<1> QED
  BY <1>6, <1>9, <1>10, <1>11, <1>12 DEF LotInv, Mint

\* A sale that lands takes the lot of its token, so no other sale of it lands after it.
LEMMA SaleLands ==
    ASSUME TypeOK, SellersHaveOpened, LotInv, NEW t \in Sells, BundleSettles(t)
    PROVE  LotInv'
<1> USE DEF TypeOK, ThreadsOK, ChainOK
<1> DEFINE m == bundle[t].mint
<1>1. /\ bundle[t] \in Bundles /\ bundle[t].state = "pending" /\ t \notin Buys /\ m \in Mints
      /\ UNCHANGED <<buy, sell, pos, positions, records, pnl>>
      /\ \A u \in (Buys \cup Sells) \ {t} : bundle'[u] = bundle[u]
      /\ bundle'[t].mint = m /\ bundle'[t].state \in {"landed", "dead"}
  <2>1. /\ bundle[t].state = "pending"
        /\ UNCHANGED <<buy, sell, pos, positions, records, pnl>>
    BY DEF BundleSettles, memVars, redisVars, threadVars
  <2>2. bundle[t] \in Bundles
    BY <2>1 DEF NoBundle
  <2>3. \E x \in {"landed", "dead"} : bundle' = [bundle EXCEPT ![t].state = x]
    BY DEF BundleSettles
  <2> QED
    BY <2>1, <2>2, <2>3, ThreadsAssumption DEF Bundles
<1>2. /\ \A b \in Buys : LotOf(b) /\ lots[Mint(b)] \in Nat
      /\ \A s \in Sells : SaleOf(s)
  BY SignalsAssumption DEF LotInv, Mint
<1>3. \/ bundle'[t].state = "dead" /\ lots' = lots
      \/ /\ bundle'[t].state = "landed" /\ lots[m] > 0
         /\ lots' = [lots EXCEPT ![m] = @ - 1]
  <2>1. \/ bundle' = [bundle EXCEPT ![t].state = "dead"] /\ lots' = lots
        \/ /\ bundle' = [bundle EXCEPT ![t].state = "landed"] /\ lots[m] > 0
           /\ lots' = [lots EXCEPT ![m] = @ - 1]
    BY <1>1 DEF BundleSettles
  <2> QED
    BY <1>1, <2>1 DEF Bundles
<1>4. ASSUME NEW b \in Buys
      PROVE  lots'[Mint(b)] = lots[Mint(b)] \/ lots'[Mint(b)] = 0
  <2>1. Mint(b) \in Mints /\ lots[Mint(b)] \in {0, 1}
    BY <1>2, SignalsAssumption DEF LotOf, Mint
  <2>2. CASE lots' = lots
    BY <2>2
  <2>3. CASE lots[m] > 0 /\ lots' = [lots EXCEPT ![m] = @ - 1]
    <3>1. CASE Mint(b) = m
      <4>1. lots[m] = 1 /\ lots'[m] = lots[m] - 1
        BY <1>1, <2>1, <2>3, <3>1
      <4> QED
        BY <3>1, <4>1
    <3>2. CASE Mint(b) # m
      BY <2>1, <2>3, <3>2
    <3> QED
      BY <3>1, <3>2
  <2> QED
    BY <1>3, <2>2, <2>3
<1> HIDE DEF TypeOK, ThreadsOK, ChainOK
<1>5. \A b \in Buys : bundle'[b] = bundle[b]
  BY <1>1
<1>6. \A s \in Sells \ {t} :
        bundle'[s] = bundle[s] /\ HasProceeds(s)' = HasProceeds(s) /\ SaleOf(s)'
  BY <1>1, <1>2 DEF HasProceeds, SaleOf, Mint
<1>7. ASSUME NEW b \in Buys PROVE LotOf(b)'
  <2>1. CASE lots'[Mint(b)] = lots[Mint(b)]
    BY <1>1, <1>2, <1>5, <2>1 DEF LotOf, Mint
  <2>2. CASE lots'[Mint(b)] = 0
    BY <1>1, <1>2, <1>5, <2>2 DEF LotOf, Mint
  <2> QED
    BY <1>4, <2>1, <2>2
<1>8. BookedOnce'
  BY <1>1 DEF LotInv, BookedOnce
<1>a. ASSUME NEW b \in Buys, lots'[Mint(b)] = 1
      PROVE  \E a \in Buys : Mint(a) = Mint(b) /\ bundle'[a].state = "landed"
  <2>1. PICK a \in Buys : Mint(a) = Mint(b) /\ bundle[a].state = "landed"
    BY <1>4, <1>a DEF LotInv
  <2> QED
    BY <1>5, <2>1
\* Nobody learns of the sale: its seller is gone, or it is dead.
<1>9. CASE HasProceeds(t)' = HasProceeds(t)
  <2>1. \A s \in Sells : HasProceeds(s)' = HasProceeds(s)
    BY <1>6, <1>9
  <2>2. SaleOf(t)'
    BY <1>1, <1>2, <1>9 DEF SaleOf, Mint
  <2>3. \A b \in Buys : Untouched(b)' = Untouched(b)
    BY <1>1, <2>1 DEF Untouched
  <2>4. \A b \in Buys :
          bundle'[b].state # "landed" \/ lots'[Mint(b)] = 1 => Untouched(b)'
    BY <1>4, <1>5, <2>3 DEF LotInv
  <2>5. \A s, u \in Sells :
          HasProceeds(s)' /\ HasProceeds(u)' /\ sell'[s].pos = sell'[u].pos => s = u
    BY <1>1, <2>1 DEF LotInv
  <2> QED
    BY <1>6, <1>7, <1>8, <1>a, <2>2, <2>4, <2>5 DEF LotInv, Mint
<1>10. CASE HasProceeds(t)' # HasProceeds(t)
  <2>1. /\ sell[t].pc = "await" /\ bundle'[t].state = "landed"
        /\ ~HasProceeds(t) /\ HasProceeds(t)'
    BY <1>1, <1>10 DEF HasProceeds, Closing
  <2>2. sell[t].pos \in Buys
    BY <2>1, SellPos DEF TypeOK
  <2>3. PICK p \in Buys : sell[t].pos = p
    BY <2>2
  <2>4. m = Mint(p) /\ p # None
    BY <1>2, <2>1, <2>3, NoneAssumption DEF SaleOf
  <2>5. pos[p].status # "absent" /\ bundle[p].state = "landed"
    BY <1>2, <2>3, <2>4 DEF LotOf, SellersHaveOpened
  <2>6. lots[Mint(p)] = 1 /\ lots'[Mint(p)] = 0
    <3>1. lots[Mint(p)] > 0 /\ lots'[Mint(p)] = lots[Mint(p)] - 1
      BY <1>1, <1>3, <2>1, <2>4 DEF TypeOK, ChainOK
    <3> QED
      BY <1>2, <3>1 DEF LotOf
  <2>a. /\ Untouched(p) /\ positions[Mint(p)] = p
    BY <1>2, <2>5, <2>6 DEF LotInv, LotOf
  <2>7. SaleOf(t)'
    BY <1>1, <2>1, <2>3, <2>4, <2>a DEF SaleOf, Untouched, Mint
  <2>8. \A b \in Buys \ {p} : Untouched(b)' = Untouched(b)
    BY <1>1, <1>6, <2>1, <2>3 DEF Untouched
  <2>9. \A b \in Buys :
          bundle'[b].state # "landed" \/ lots'[Mint(b)] = 1 => Untouched(b)'
    BY <1>4, <1>5, <2>5, <2>6, <2>8 DEF LotInv
  <2>10. \A s, u \in Sells :
           HasProceeds(s)' /\ HasProceeds(u)' /\ sell'[s].pos = sell'[u].pos => s = u
    BY <1>1, <1>6, <2>3, <2>a DEF LotInv, Untouched
  <2> QED
    BY <1>6, <1>7, <1>8, <1>a, <2>7, <2>9, <2>10 DEF LotInv, Mint
<1> QED
  BY <1>9, <1>10

LEMMA LotsStep ==
    ASSUME ~SimulationMode, TypeOK, TrajectoryInv, LotInv, OneBuy, OneBuy', [Next]_vars
    PROVE  LotInv'
<1>1. SellersHaveOpened
  BY DEF TrajectoryInv
<1> QED
  BY <1>1, BuyLots, CheckLots, SellLots, KillLots, OtherLots, BuyLands, SaleLands DEF Next

LEMMA GaugeKeeps ==
    ASSUME OneBuy, TypeOK, TrajectoryInv, LotInv, MappedInv, CountInv, [Next]_vars
    PROVE  CountInv'
\* The position in the way of an insertion would be a second buy of the token.
<1>1. ASSUME NEW b \in Buys, BuyInsert(b), positions[Mint(b)] # None PROVE FALSE
  <2>1. Mint(b) \in Mints /\ buy[b].pc = "insert" /\ pos[b].status = "absent"
    BY <1>1, SignalsAssumption DEF BuyInsert, Mint, TrajectoryInv, SellersHaveOpened, Unopened
  <2>2. PICK a \in Buys : a = positions[Mint(b)]
    BY <1>1, <2>1 DEF TypeOK, MemoryOK
  <2>3. Mint(a) = Mint(b) /\ pos[a].status # "absent"
    BY <1>1, <2>1, <2>2 DEF MappedInv
  <2>4. bundle[a].state = "landed" /\ bundle[b].state = "landed"
    BY <2>1, <2>3 DEF LotInv, LotOf
  <2> QED
    BY <2>1, <2>3, <2>4 DEF OneBuy, Bought
<1>2. \A s \in Sells : CloseUnmap(s) => positions[Mint(sell[s].pos)] = sell[s].pos
  BY DEF CloseUnmap, LotInv, SaleOf, HasProceeds, Closing
<1> QED
  BY <1>1, <1>2, GaugeStep

\* In live mode, a token that is bought once at most is booked once at most, and leaves
\* the map and the gauge with its one close.
LEMMA KillsKeep ==
    ASSUME ~SimulationMode PROVE Spec /\ []OneBuy => [](BookedOnce /\ GaugeExact)
<1>1. Init => LotInv /\ MappedInv /\ CountInv
  BY InitLots, InitMapped, InitCounts
<1>2. TypeOK /\ TrajectoryInv /\ LotInv /\ OneBuy /\ OneBuy' /\ [Next]_vars => LotInv'
  BY LotsStep
<1>3. TypeOK /\ MappedInv /\ [Next]_vars => MappedInv'
  BY MappedStep
<1>4. OneBuy /\ TypeOK /\ TrajectoryInv /\ LotInv /\ MappedInv /\ CountInv /\ [Next]_vars
        => CountInv'
  BY GaugeKeeps
<1>5. LotInv /\ CountInv => BookedOnce /\ GaugeExact
  BY DEF LotInv, CountInv
<1> QED
  BY <1>1, <1>2, <1>3, <1>4, <1>5, TypeCorrect, TrajectoriesOrdered, PTL DEF Spec

\* One close of a position at most is booked, by one record and one IncrByFloat, whatever
\* the kill switch and the monitor do to each other's sells, with Redis errors, sales
\* reported as missed, panics and restarts: the second sale of its one lot does not land
\* (KillSwitch, executeSell, closePosition). When Redis fails, that one IncrByFloat may
\* arrive as often as the client sends it. Live mode only, and with one buy per token:
\* both are needed.
THEOREM KillsBookOnce ==
    ASSUME ~SimulationMode, BoughtOnce PROVE Spec => []BookedOnce
<1>1. OneBuy
  BY DEF OneBuy, BoughtOnce
<1> QED
  BY <1>1, KillsKeep, PTL

\* Nor does the gauge of active positions drift when the kill switch sells next to the
\* monitor: each position leaves the map, and the gauge, with its one close.
THEOREM KillsKeepGauge ==
    ASSUME ~SimulationMode, BoughtOnce PROVE Spec => []GaugeExact
<1>1. OneBuy
  BY DEF OneBuy, BoughtOnce
<1> QED
  BY <1>1, KillsKeep, PTL
=============================================================================
