--------------------------- MODULE ExecutorProofs ---------------------------
(***************************************************************************)
(* Safety of Executor for every value of its constants. The sells: without *)
(* the kill switch, which is what breaks them, and without restarts they   *)
(* implement PositionLedger. The trajectory lists: they are ordered with   *)
(* any number of overlapping checks, kill switches and restarts.           *)
(***************************************************************************)
EXTENDS ExecutorTypes

(* Sells *)

\* Nothing the invariant speaks of moves, and no buy goes back.
LEMMA SaleFrame ==
    ASSUME SaleInv, UNCHANGED <<pos, sell, records, pnl>>,
           \A b \in Buys : buy'[b].pc \in Unopened => buy[b].pc \in Unopened
    PROVE  SaleInv'
BY DEF SaleInv, SingleSeller, StatusTellsSeller, NotYetBooked, BookedOnce

\* A seller on p means p is being sold or is sold.
LEMMA SellerSeen ==
    ASSUME TypeOK, SaleInv, NEW s \in Sells, sell[s].pos # None
    PROVE  /\ sell[s].pc \in Selling \cup Closing
           /\ pos[sell[s].pos].status \in {"selling", "sold"}
<1>1. sell[s] \in Sellers
  BY DEF TypeOK, ThreadsOK, NewSell
<1>2. sell[s].pc \in Selling \cup Closing
  BY <1>1 DEF Sellers, Selling, Closing
<1> QED
  BY <1>2 DEF SaleInv, StatusTellsSeller

LEMMA SaleInit == Init => SaleInv
BY BoundsAssumption DEF MaxIncrement, Init, SaleInv, SingleSeller, StatusTellsSeller, NotYetBooked, BookedOnce, NewBuy,
       NewSell, Absent, Selling, Closing

LEMMA BuySale ==
    ASSUME TypeOK, SaleInv, NEW b \in Buys, BuyStep(b)
    PROVE  SaleInv'
<1> USE DEF TypeOK, ThreadsOK
<1>1. CASE BuyInsert(b)
  <2>1. /\ buy[b].pc = "insert"
        /\ pos' = [pos EXCEPT ![b] = NewPosition]
        /\ buy' = [buy EXCEPT ![b].pc = "persist"]
        /\ UNCHANGED <<sell, records, pnl>>
    BY <1>1 DEF BuyInsert, BuyGoes, redisVars
  <2>2. pos[b].status = "absent" /\ records[b] = <<>> /\ pnl[b] = 0
    BY <2>1 DEF SaleInv, StatusTellsSeller, NotYetBooked, Unopened
  <2>3. \A s \in Sells : sell[s].pos # b
    BY <2>2, SellerSeen, NoneAssumption
  <2>4. \A s \in Sells : sell[s].pc \in Selling \cup Closing => sell[s].pos \in Buys
    BY SellPos DEF Selling, Closing
  <2>5. /\ pos'[b].status = "open"
        /\ \A a \in Buys \ {b} : pos'[a] = pos[a] /\ buy'[a] = buy[a]
        /\ buy'[b].pc = "persist"
    BY <2>1 DEF MemoryOK, NewPosition
  <2>6. StatusTellsSeller'
    BY <2>1, <2>3, <2>4, <2>5 DEF SaleInv, StatusTellsSeller, Unopened
  <2>7. NotYetBooked'
    BY <2>1, <2>2, <2>5 DEF SaleInv, NotYetBooked, Unopened
  <2> QED
    BY <2>1, <2>6, <2>7 DEF SaleInv, SingleSeller, BookedOnce
<1>2. CASE ~BuyInsert(b)
  <2>1. UNCHANGED <<pos, sell, records, pnl>>
    BY <1>2 DEF BuyStep, BuyGate, BuyLookup, BuyBuildFails, BuyBuilt, BuyReport,
                BuyShowRatio, BuyPersist, BuyPublish, memVars, redisVars
  <2>2. ASSUME NEW a \in Buys, buy'[a].pc \in Unopened PROVE buy[a].pc \in Unopened
    <3>1. CASE a # b
      <4>1. buy'[a] = buy[a]
        BY <1>2, <3>1 DEF BuyStep, BuyGate, BuyLookup, BuyBuildFails, BuyBuilt,
                          BuyReport, BuyShowRatio, BuyPersist, BuyPublish, BuyGoes
      <4> QED
        BY <2>2, <4>1
    <3>2. CASE a = b /\ (BuyPersist(b) \/ BuyPublish(b))
      BY <2>2, <3>2 DEF BuyPersist, BuyPublish, BuyGoes, Unopened, Buyers
    <3> QED
      BY <1>2, <3>1, <3>2 DEF BuyStep, BuyGate, BuyLookup, BuyBuildFails, BuyBuilt,
                              BuyReport, BuyShowRatio, Unopened
  <2> QED
    BY <2>1, <2>2, SaleFrame
<1> QED
  BY <1>1, <1>2

\* One seller, of a position no other seller has, moves on with its position.
LEMMA SellerMoves ==
    ASSUME SaleInv, NEW s \in Sells, NEW p \in Buys,
           \A t \in Sells \ {s} : sell[t].pc \in Selling \cup Closing => sell[t].pos # p,
           \A t \in Sells : sell[t].pc \in Selling \cup Closing => sell[t].pos \in Buys,
           \A t \in Sells \ {s} : sell'[t] = sell[t],
           \A b \in Buys \ {p} :
             /\ pos'[b].status = pos[b].status
             /\ records'[b] = records[b] /\ pnl'[b] = pnl[b],
           \A b \in Buys : buy'[b] = buy[b],
           buy[p].pc \notin Unopened,
           pos'[p].status \in {"open", "selling"} => records'[p] = <<>> /\ pnl'[p] = 0,
           sell'[s].pc \in Selling => sell'[s].pos = p /\ pos'[p].status = "selling",
           sell'[s].pc \in Closing =>
             sell'[s].pos = p /\ pos'[p].status = "sold" /\ records'[p] = <<>>,
           sell'[s].pc \in Closing \ {"record"} => pnl'[p] = 0
    PROVE  StatusTellsSeller' /\ NotYetBooked'
<1>1. ASSUME NEW b \in Buys, buy'[b].pc \in Unopened PROVE pos'[b].status = "absent"
  <2>1. b # p /\ buy[b].pc \in Unopened
    BY <1>1
  <2> QED
    BY <2>1 DEF SaleInv, StatusTellsSeller
<1>2. ASSUME NEW b \in Buys,
             buy'[b].pc \in Unopened \/ pos'[b].status \in {"open", "selling"}
      PROVE  records'[b] = <<>> /\ pnl'[b] = 0
  <2>1. CASE b = p
    BY <1>2, <2>1
  <2>2. CASE b # p
    BY <1>2, <2>2 DEF SaleInv, NotYetBooked
  <2> QED
    BY <2>1, <2>2
<1>3. ASSUME NEW t \in Sells
      PROVE  /\ sell'[t].pc \in Selling => pos'[sell'[t].pos].status = "selling"
             /\ sell'[t].pc \in Closing => pos'[sell'[t].pos].status = "sold"
             /\ sell'[t].pc \in Closing => records'[sell'[t].pos] = <<>>
             /\ sell'[t].pc \in Closing \ {"record"} => pnl'[sell'[t].pos] = 0
  <2>1. CASE t = s
    BY <2>1
  <2>2. CASE t # s /\ sell[t].pc \in Selling \cup Closing
    <3>1. sell'[t] = sell[t] /\ sell[t].pos \in Buys \ {p}
      BY <2>2
    <3> QED
      BY <3>1 DEF SaleInv, StatusTellsSeller, NotYetBooked
  <2> QED
    BY <2>1, <2>2
<1> QED
  BY <1>1, <1>2, <1>3 DEF StatusTellsSeller, NotYetBooked

LEMMA CheckSale ==
    ASSUME TypeOK, SaleInv, NEW c \in Checks, CheckStep(c)
    PROVE  SaleInv'
<1> USE DEF TypeOK, ThreadsOK
<1> DEFINE p == check[c].pos
\* Observe changes only a position that is open, which has no seller.
<1>o. ASSUME NEW q \in Quotes, NEW st \in {"open", "selling"}, Observe(c, q, st)
      PROVE  /\ p \in Buys
             /\ pos[p].status = "open" /\ pos'[p].status = st
             /\ \A b \in Buys \ {p} : pos'[b] = pos[b]
             /\ \A s \in Sells : sell[s].pos # p
             /\ buy[p].pc \notin Unopened
             /\ UNCHANGED <<buy, records, pnl>>
  <2>1. p \in Buys
    BY <1>o, CheckPos DEF Observe
  <2>2. pos[p].status = "open"
    BY <1>o DEF Observe, StillOpen
  <2>3. pos' = [pos EXCEPT ![p].quoted = q, ![p].snaps = @ \cup Due(p, check[c].elapsed),
                           ![p].status = st]
    BY <1>o DEF Observe
  <2>4. pos[p] \in Positions
    BY <2>1 DEF MemoryOK
  <2>5. pos'[p].status = st /\ \A b \in Buys \ {p} : pos'[b] = pos[b]
    BY <2>1, <2>3, <2>4 DEF MemoryOK, Positions
  <2>6. \A s \in Sells : sell[s].pos # p
    BY <2>1, <2>2, SellerSeen, NoneAssumption
  <2>7. buy[p].pc \notin Unopened
    BY <2>1, <2>2 DEF SaleInv, StatusTellsSeller
  <2> QED
    BY <1>o, <2>1, <2>2, <2>5, <2>6, <2>7 DEF Observe
<1>s. \A s \in Sells : sell[s].pc \in Selling \cup Closing => sell[s].pos \in Buys
  BY SellPos DEF Selling, Closing
<1>1. CASE CheckHold(c)
  <2>1. PICK q \in Quotes : Observe(c, q, "open") /\ UNCHANGED sell
    BY <1>1 DEF CheckHold
  <2>2. UNCHANGED <<buy, sell, records, pnl>>
    BY <2>1, <1>o
  <2>3. \A b \in Buys : pos'[b].status = pos[b].status
    BY <2>1, <1>o
  <2>4. StatusTellsSeller'
    BY <2>2, <2>3, <1>s DEF SaleInv, StatusTellsSeller, Selling, Closing
  <2>5. NotYetBooked'
    BY <2>2, <2>3 DEF SaleInv, NotYetBooked
  <2> QED
    BY <2>2, <2>4, <2>5 DEF SaleInv, SingleSeller, BookedOnce
<1>2. ASSUME NEW s \in Sells, CheckClaim(c, s) PROVE SaleInv'
  <2>1. PICK q \in Quotes :
          /\ Observe(c, q, "selling")
          /\ FreeSell(s)
          /\ sell' = [sell EXCEPT ![s] = Spawned(p, Exit(q, check[c].elapsed), None)]
    BY <1>2 DEF CheckClaim
  <2>o. /\ p \in Buys
        /\ pos[p].status = "open" /\ pos'[p].status = "selling"
        /\ \A b \in Buys \ {p} : pos'[b] = pos[b]
        /\ \A t \in Sells : sell[t].pos # p
        /\ buy[p].pc \notin Unopened
        /\ UNCHANGED <<buy, records, pnl>>
    BY <2>1, <1>o
  <2>2. /\ sell'[s].pos = p /\ sell'[s].pc = "claim"
        /\ \A t \in Sells \ {s} : sell'[t] = sell[t]
    BY <2>1 DEF Spawned
  <2>3. SingleSeller'
    <3> SUFFICES ASSUME NEW t \in Sells, NEW u \in Sells, t # u,
                        sell'[t].pos # None, sell'[u].pos # None
                 PROVE  sell'[t].pos # sell'[u].pos
      BY DEF SingleSeller
    <3>1. CASE t = s
      BY <2>o, <2>2, <3>1
    <3>2. CASE u = s
      BY <2>o, <2>2, <3>2
    <3>3. CASE t # s /\ u # s
      BY <2>2, <3>3 DEF SaleInv, SingleSeller
    <3> QED BY <3>1, <3>2, <3>3
  <2>4. records[p] = <<>> /\ pnl[p] = 0
    BY <2>o DEF SaleInv, NotYetBooked
  <2>5. StatusTellsSeller' /\ NotYetBooked'
    <3> HIDE DEF TypeOK, ThreadsOK
    <3>1. PICK r \in Buys : r = p
      BY <2>o
    <3>2. sell'[s].pc \in Selling /\ sell'[s].pc \notin Closing
      BY <2>2 DEF Selling, Closing
    <3>3. \A b \in Buys : buy'[b] = buy[b]
      BY <2>o
    <3> QED
      BY <2>o, <2>2, <2>4, <1>s, <3>1, <3>2, <3>3, SellerMoves
  <2> QED
    BY <2>o, <2>3, <2>5 DEF SaleInv, BookedOnce
<1>3. CASE CheckReturns(c) \/ CheckOpen(c) \/ CheckGauge(c)
  BY <1>3, SaleFrame DEF CheckReturns, CheckOpen, CheckGauge, memVars, redisVars
<1> QED
  BY <1>1, <1>2, <1>3 DEF CheckStep, CheckClosing, CheckReadFails, CheckStale

\* What CloseBook adds for a position that had nothing yet.
LEMMA OneClose ==
    ASSUME TypeOK, NEW s \in Sells, NEW p \in Buys, sell[s].pos = p, CloseBook(s), pnl[p] = 0
    PROVE  /\ pnl'[p] <= MaxIncrement
           /\ \A b \in Buys \ {p} : pnl'[b] = pnl[b]
<1>1. PICK n \in SellIncrements(s) : pnl' = [pnl EXCEPT ![p] = @ + n]
  BY DEF CloseBook
<1>2. n \in Nat /\ n <= MaxIncrement
  BY <1>1, BoundsAssumption DEF SellIncrements, Increments, MaxIncrement
<1>3. pnl \in [Buys -> Nat]
  BY DEF TypeOK, RedisOK
<1>4. pnl'[p] = n /\ \A b \in Buys \ {p} : pnl'[b] = pnl[b]
  BY <1>1, <1>2, <1>3
<1> QED
  BY <1>2, <1>4

LEMMA SellSale ==
    ASSUME TypeOK, SaleInv, NEW s \in Sells, SellStep(s)
    PROVE  SaleInv'
<1> USE DEF TypeOK, ThreadsOK
<1> DEFINE p == sell[s].pos
<1>0. /\ sell[s].pc # "idle"
      /\ p \in Buys /\ p # None
      /\ sell[s] \in Sellers
      /\ pos[p] \in Positions
  <2>1. sell[s].pc # "idle"
    BY DEF SellStep, SellClaim, SellBuildFails, SellPanics, SellBuilt, SellLanded, SellMissed,
           CloseSold, CloseUnmap, CloseUnsave, CloseBook, CloseRecord
  <2> QED
    BY <2>1, SellPos, NoneAssumption DEF MemoryOK
\* The other sellers work on other positions.
<1>1. \A t \in Sells \ {s} :
        sell[t].pc \in Selling \cup Closing => sell[t].pos \in Buys \ {p}
  <2> SUFFICES ASSUME NEW t \in Sells \ {s}, sell[t].pc \in Selling \cup Closing
               PROVE  sell[t].pos \in Buys /\ sell[t].pos # p
    OBVIOUS
  <2>1. sell[t].pos \in Buys
    BY SellPos DEF Selling, Closing
  <2> QED
    BY <2>1, <1>0, NoneAssumption DEF SaleInv, SingleSeller
\* A seller moves on without leaving its position's phase.
<1>3. ASSUME NEW pc \in Selling \cup Closing, SellGoes(s, pc)
      PROVE  /\ sell'[s].pc = pc /\ sell'[s].pos = p
             /\ \A t \in Sells \ {s} : sell'[t] = sell[t]
             /\ SingleSeller'
  <2>1. sell'[s].pc = pc /\ sell'[s].pos = p
    BY <1>0, <1>3 DEF SellGoes, Sellers
  <2>2. \A t \in Sells \ {s} : sell'[t] = sell[t]
    BY <1>3 DEF SellGoes
  <2> QED
    BY <2>1, <2>2 DEF SaleInv, SingleSeller
<1>4. ASSUME SellReturns(s)
      PROVE  /\ sell'[s].pc = "idle" /\ sell'[s].pos = None
             /\ \A t \in Sells \ {s} : sell'[t] = sell[t]
             /\ SingleSeller'
  <2>1. sell'[s].pc = "idle" /\ sell'[s].pos = None
    BY <1>4 DEF SellReturns, NewSell
  <2>2. \A t \in Sells \ {s} : sell'[t] = sell[t]
    BY <1>4 DEF SellReturns
  <2> QED
    BY <2>1, <2>2 DEF SaleInv, SingleSeller
<1>5. buy[p].pc \notin Unopened
  <2>1. sell[s].pc \in Selling \cup Closing
    BY <1>0 DEF Sellers, Selling, Closing
  <2> QED
    BY <1>0, <2>1 DEF SaleInv, StatusTellsSeller
<1>6. \A t \in Sells : sell[t].pc \in Selling \cup Closing => sell[t].pos \in Buys
  BY <1>0, <1>1
<1>m. ASSUME \A t \in Sells \ {s} : sell'[t] = sell[t],
             \A b \in Buys \ {p} :
               /\ pos'[b].status = pos[b].status
               /\ records'[b] = records[b] /\ pnl'[b] = pnl[b],
             buy' = buy,
             pos'[p].status \in {"open", "selling"} => records'[p] = <<>> /\ pnl'[p] = 0,
             sell'[s].pc \in Selling => sell'[s].pos = p /\ pos'[p].status = "selling",
             sell'[s].pc \in Closing =>
               sell'[s].pos = p /\ pos'[p].status = "sold" /\ records'[p] = <<>>,
             sell'[s].pc \in Closing \ {"record"} => pnl'[p] = 0
      PROVE  StatusTellsSeller' /\ NotYetBooked'
  <2> HIDE DEF TypeOK, ThreadsOK
  <2>1. PICK r \in Buys : r = p
    BY <1>0
  <2>2. /\ \A t \in Sells \ {s} : sell[t].pc \in Selling \cup Closing => sell[t].pos # r
        /\ \A b \in Buys : buy'[b] = buy[b]
        /\ buy[r].pc \notin Unopened
    BY <1>1, <1>5, <1>m, <2>1
  <2> QED
    BY <1>6, <1>m, <2>1, <2>2, SellerMoves
<1>7. CASE SellClaim(s)
  <2>1. pos[p].status = "selling" /\ sell[s].pc = "claim"
    BY <1>7 DEF SellClaim, SaleInv, StatusTellsSeller, Selling
  <2>2. SellGoes(s, "build") /\ UNCHANGED <<buy, records, pnl>>
    BY <1>7, <2>1 DEF SellClaim, redisVars
  <2>3. pos'[p].status = "selling" /\ \A b \in Buys \ {p} : pos'[b] = pos[b]
    BY <1>0, <1>7, <2>1 DEF SellClaim, MemoryOK, Positions
  <2>4. records[p] = <<>> /\ pnl[p] = 0
    BY <1>0, <2>1 DEF SaleInv, NotYetBooked
  <2>5. /\ sell'[s].pc = "build" /\ sell'[s].pos = p
        /\ \A t \in Sells \ {s} : sell'[t] = sell[t]
        /\ SingleSeller'
    BY <1>3, <2>2 DEF Selling
  <2>6. StatusTellsSeller' /\ NotYetBooked'
    BY <1>m, <2>2, <2>3, <2>4, <2>5 DEF Closing
  <2> QED
    BY <2>2, <2>5, <2>6 DEF SaleInv, BookedOnce
<1>8. CASE Reverts(s) /\ sell[s].pc \in Selling
  <2>1. records[p] = <<>> /\ pnl[p] = 0
    BY <1>0, <1>8 DEF SaleInv, StatusTellsSeller, NotYetBooked
  <2>2. /\ pos'[p].status = "open"
        /\ \A b \in Buys \ {p} : pos'[b] = pos[b]
        /\ UNCHANGED <<buy, records, pnl>>
    BY <1>0, <1>8 DEF Reverts, redisVars, MemoryOK, Positions
  <2>3. /\ sell'[s].pc = "idle"
        /\ \A t \in Sells \ {s} : sell'[t] = sell[t]
        /\ SingleSeller'
    BY <1>4, <1>8 DEF Reverts
  <2>4. StatusTellsSeller' /\ NotYetBooked'
    BY <1>m, <2>1, <2>2, <2>3 DEF Selling, Closing
  <2> QED
    BY <2>2, <2>3, <2>4 DEF SaleInv, BookedOnce
<1>9. CASE SellBuilt(s) \/ SellLanded(s)
  <2>1. PICK pc \in {"await", "close"} : SellGoes(s, pc)
    BY <1>9 DEF SellBuilt, SellLanded
  <2>2. sell[s].pc \in Selling /\ UNCHANGED <<pos, buy, records, pnl>>
    BY <1>9 DEF SellBuilt, SellLanded, Selling, memVars, redisVars
  <2>3. /\ sell'[s].pc = pc /\ sell'[s].pos = p
        /\ \A t \in Sells \ {s} : sell'[t] = sell[t]
        /\ SingleSeller'
    BY <1>3, <2>1 DEF Selling
  <2>4. pos[p].status = "selling" /\ records[p] = <<>> /\ pnl[p] = 0
    BY <1>0, <2>2 DEF SaleInv, StatusTellsSeller, NotYetBooked
  <2>5. StatusTellsSeller' /\ NotYetBooked'
    BY <1>m, <2>2, <2>3, <2>4 DEF Closing
  <2> QED
    BY <2>2, <2>3, <2>5 DEF SaleInv, BookedOnce
<1>10. CASE CloseSold(s)
  <2>1. /\ sell[s].pc = "close"
        /\ pos'[p].status = "sold"
        /\ \A b \in Buys \ {p} : pos'[b] = pos[b]
        /\ UNCHANGED <<buy, records, pnl>>
    BY <1>0, <1>10 DEF CloseSold, redisVars, MemoryOK, Positions
  <2>2. /\ sell'[s].pc = "unmap" /\ sell'[s].pos = p
        /\ \A t \in Sells \ {s} : sell'[t] = sell[t]
    BY <1>0, <1>10 DEF CloseSold, Sellers
  <2>3. records[p] = <<>> /\ pnl[p] = 0
    BY <1>0, <2>1 DEF SaleInv, StatusTellsSeller, NotYetBooked, Selling
  <2>4. SingleSeller'
    BY <2>2 DEF SaleInv, SingleSeller
  <2>5. StatusTellsSeller' /\ NotYetBooked'
    BY <1>m, <2>1, <2>2, <2>3 DEF Selling
  <2> QED
    BY <2>1, <2>4, <2>5 DEF SaleInv, BookedOnce
<1>11. CASE CloseUnmap(s) \/ CloseUnsave(s)
  <2>1. PICK pc \in {"unsave", "book"} : SellGoes(s, pc)
    BY <1>11 DEF CloseUnmap, CloseUnsave
  <2>2. sell[s].pc \in Closing \ {"record"} /\ UNCHANGED <<pos, buy, records, pnl>>
    BY <1>11 DEF CloseUnmap, CloseUnsave, Closing, memVars, redisVars
  <2>3. /\ sell'[s].pc = pc /\ sell'[s].pos = p
        /\ \A t \in Sells \ {s} : sell'[t] = sell[t]
        /\ SingleSeller'
    BY <1>3, <2>1 DEF Closing
  <2>4. pos[p].status = "sold" /\ records[p] = <<>> /\ pnl[p] = 0
    BY <2>2 DEF SaleInv, StatusTellsSeller, NotYetBooked
  <2>5. StatusTellsSeller' /\ NotYetBooked'
    BY <1>m, <2>2, <2>3, <2>4 DEF Selling
  <2> QED
    BY <2>2, <2>3, <2>5 DEF SaleInv, BookedOnce
<1>12. CASE CloseBook(s)
  <2>1. /\ sell[s].pc = "book" /\ SellGoes(s, "record")
        /\ UNCHANGED <<pos, buy, records>>
    BY <1>12 DEF CloseBook, memVars
  <2>2. pnl[p] = 0 /\ records[p] = <<>> /\ pos[p].status = "sold"
    BY <2>1 DEF SaleInv, NotYetBooked, StatusTellsSeller, Closing
  <2>3. /\ pnl'[p] <= MaxIncrement
        /\ \A b \in Buys \ {p} : pnl'[b] = pnl[b]
    BY <1>0, <1>12, <2>2, OneClose
  <2>4. /\ sell'[s].pc = "record" /\ sell'[s].pos = p
        /\ \A t \in Sells \ {s} : sell'[t] = sell[t]
        /\ SingleSeller'
    BY <1>3, <2>1 DEF Closing
  <2>5. StatusTellsSeller' /\ NotYetBooked'
    BY <1>m, <2>1, <2>2, <2>3, <2>4 DEF Selling
  <2>6. BookedOnce'
    BY <2>1, <2>3 DEF SaleInv, BookedOnce
  <2> QED
    BY <2>4, <2>5, <2>6 DEF SaleInv
<1>13. CASE CloseRecord(s)
  <2>1. /\ sell[s].pc = "record" /\ SellReturns(s)
        /\ UNCHANGED <<pos, buy, pnl>>
    BY <1>13 DEF CloseRecord, memVars
  <2>3. records[p] = <<>> /\ pos[p].status = "sold"
    BY <2>1 DEF SaleInv, NotYetBooked, StatusTellsSeller, Closing
  <2>2. PICK r : records' = records \/ records' = [records EXCEPT ![p] = Append(@, r)]
    BY <1>13 DEF CloseRecord
  <2>4. records'[p] \in {<<>>, <<r>>} /\ \A b \in Buys \ {p} : records'[b] = records[b]
    <3>1. CASE records' = records
      BY <2>3, <3>1
    <3>2. CASE records' = [records EXCEPT ![p] = Append(@, r)]
      <4>1. records'[p] = Append(records[p], r) /\ \A b \in Buys \ {p} : records'[b] = records[b]
        BY <1>0, <3>2
      <4> QED
        BY <2>3, <4>1
    <3> QED
      BY <2>2, <3>1, <3>2
  <2>5. /\ sell'[s].pc = "idle"
        /\ \A t \in Sells \ {s} : sell'[t] = sell[t]
        /\ SingleSeller'
    BY <1>4, <2>1
  <2>6. StatusTellsSeller' /\ NotYetBooked'
    BY <1>m, <2>1, <2>3, <2>4, <2>5 DEF Selling, Closing
  <2>7. ASSUME NEW b \in Buys PROVE Len(records'[b]) <= 1
    <3>1. CASE b = p
      <4>1. Len(<<r>>) = 1 /\ Len(<<>>) = 0
        OBVIOUS
      <4>2. CASE records'[p] = <<>>
        BY <3>1, <4>1, <4>2
      <4>3. CASE records'[p] = <<r>>
        BY <3>1, <4>1, <4>3
      <4> QED
        BY <2>4, <4>2, <4>3
    <3>2. CASE b # p
      BY <2>4, <3>2 DEF SaleInv, BookedOnce
    <3> QED
      BY <3>1, <3>2
  <2>8. BookedOnce'
    BY <2>1, <2>7 DEF SaleInv, BookedOnce
  <2> QED
    BY <2>5, <2>6, <2>8 DEF SaleInv
<1>14. CASE SellPanics(s)
  <2>1. SellReturns(s) /\ UNCHANGED <<pos, buy, records, pnl>>
    BY <1>14 DEF SellPanics, memVars, redisVars
  <2>2. /\ sell'[s].pc = "idle"
        /\ \A t \in Sells \ {s} : sell'[t] = sell[t]
        /\ SingleSeller'
    BY <1>4, <2>1
  <2>3. pos[p].status = "selling" /\ records[p] = <<>> /\ pnl[p] = 0
    BY <1>0, <1>14 DEF SellPanics, Selling, SaleInv, StatusTellsSeller, NotYetBooked
  <2>4. StatusTellsSeller' /\ NotYetBooked'
    BY <1>m, <2>1, <2>2, <2>3 DEF Selling, Closing
  <2> QED
    BY <2>1, <2>2, <2>4 DEF SaleInv, BookedOnce
<1> QED
  BY <1>7, <1>8, <1>9, <1>10, <1>11, <1>12, <1>13, <1>14
     DEF SellStep, SellBuildFails, SellMissed, Selling

LEMMA EnvironmentSale ==
    ASSUME TypeOK, SaleInv,
           \/ \E b \in Buys : Elapse(b)
           \/ \E t \in Buys \cup Sells : BundleSettles(t)
           \/ Restart
    PROVE  SaleInv'
<1> USE DEF TypeOK, ThreadsOK
<1>s. \A s \in Sells : sell[s].pc \in Selling \cup Closing => sell[s].pos \in Buys
  BY SellPos DEF Selling, Closing
<1>1. ASSUME NEW b \in Buys, Elapse(b) PROVE SaleInv'
  <2>1. UNCHANGED <<buy, sell, records, pnl>>
    BY <1>1 DEF Elapse, redisVars, threadVars
  <2>2. \A a \in Buys : pos'[a].status = pos[a].status
    BY <1>1 DEF Elapse, MemoryOK, Positions
  <2>3. StatusTellsSeller'
    BY <1>s, <2>1, <2>2 DEF SaleInv, StatusTellsSeller, Selling, Closing
  <2>4. NotYetBooked'
    BY <2>1, <2>2 DEF SaleInv, NotYetBooked
  <2> QED
    BY <2>1, <2>3, <2>4 DEF SaleInv, SingleSeller, BookedOnce
<1>2. ASSUME NEW t \in Buys \cup Sells, BundleSettles(t) PROVE SaleInv'
  BY <1>2, SaleFrame DEF BundleSettles, memVars, redisVars, threadVars
<1>3. CASE Restart
  <2>1. /\ \A s \in Sells : sell'[s] = NewSell
        /\ \A b \in Buys : pos'[b] = Absent
        /\ UNCHANGED <<records, pnl>>
    BY <1>3 DEF Restart, redisVars
  <2>2. \A b \in Buys : buy'[b].pc \in Unopened => buy[b].pc \in Unopened
    BY <1>3 DEF Restart, NewBuy, Unopened
  <2> QED
    BY <2>1, <2>2 DEF SaleInv, SingleSeller, StatusTellsSeller, NotYetBooked, BookedOnce,
                      NewSell, Absent, Selling, Closing
<1> QED
  BY <1>1, <1>2, <1>3

\* SaleInv is inductive when no kill switch request ever comes.
LEMMA SaleStep ==
    ASSUME Kills = {}, TypeOK, SaleInv, [Next]_vars
    PROVE  SaleInv'
<1>1. CASE TickStep
  BY <1>1, SaleFrame DEF TickStep, TickStart, TickSnapshot, TickSkip, TickSpawn,
                         memVars, redisVars
<1>2. CASE UNCHANGED vars
  BY <1>2, SaleFrame DEF vars, memVars, redisVars, threadVars
<1>3. ~Disarm /\ ~\E h \in Kills : KillStep(h)
  BY DEF Disarm
<1> QED
  BY <1>1, <1>2, <1>3, BuySale, CheckSale, SellSale, EnvironmentSale DEF Next

\* The invariant of the monitor, its retries and its closes.
THEOREM SalesAreSafe == ASSUME Kills = {} PROVE Spec => []SaleInv
<1>1. Init => SaleInv
  BY SaleInit
<1>2. TypeOK /\ SaleInv /\ [Next]_vars => SaleInv'
  BY SaleStep
<1> QED
  BY <1>1, <1>2, TypeCorrect, PTL DEF Spec

\* With the monitor as the only source of sells, whatever Redis, the RPC node, the
\* chain and restarts do, no two sells of one position run at the same time.
THEOREM NoDuplicateSells == ASSUME Kills = {} PROVE Spec => []SingleSeller
<1>1. SaleInv => SingleSeller
  BY DEF SaleInv
<1> QED
  BY <1>1, SalesAreSafe, PTL

\* Under the same assumption a position is booked at most once.
THEOREM NoDoubleBooking == ASSUME Kills = {} PROVE Spec => []BookedOnce
<1>1. SaleInv => BookedOnce
  BY DEF SaleInv
<1> QED
  BY <1>1, SalesAreSafe, PTL

\* What writes a status: nothing that runs finds the position "sold".
LEMMA SoldStep ==
    ASSUME Kills = {}, TypeOK, SaleInv, Next, NEW b \in Buys, pos[b].status = "sold"
    PROVE  pos'[b].status \in {"sold", "absent"}
<1> USE DEF TypeOK, ThreadsOK, MemoryOK, Positions
<1>1. CASE pos' = pos
  BY <1>1
<1>2. CASE \E a \in Buys : BuyInsert(a)
  <2>1. PICK a \in Buys : buy[a].pc = "insert" /\ pos' = [pos EXCEPT ![a] = NewPosition]
    BY <1>2 DEF BuyInsert
  <2>2. a # b
    BY <2>1 DEF SaleInv, StatusTellsSeller, Unopened
  <2> QED
    BY <2>1, <2>2
<1>3. CASE \E a \in Buys : Elapse(a)
  BY <1>3 DEF Elapse
<1>4. CASE \E c \in Checks, q \in Quotes, st \in {"open", "selling"} : Observe(c, q, st)
  <2>1. PICK c \in Checks, q \in Quotes, st \in {"open", "selling"} : Observe(c, q, st)
    BY <1>4
  <2>2. check[c].pos # b
    BY <2>1 DEF Observe, StillOpen
  <2> QED
    BY <2>1, <2>2 DEF Observe
<1>5. CASE \E s \in Sells : SellClaim(s) \/ SellBuildFails(s) \/ SellMissed(s) \/ CloseSold(s)
  <2>1. PICK s \in Sells :
          SellClaim(s) \/ SellBuildFails(s) \/ SellMissed(s) \/ CloseSold(s)
    BY <1>5
  <2>2. sell[s].pc \in Selling
    BY <2>1 DEF SellClaim, SellBuildFails, SellMissed, CloseSold, Selling
  <2>3. sell[s].pos # b
    BY <2>2 DEF SaleInv, StatusTellsSeller
  <2> QED
    BY <2>1, <2>3 DEF SellClaim, SellBuildFails, SellMissed, CloseSold, Reverts
<1>6. CASE Restart
  BY <1>6 DEF Restart, Absent
<1>7. ASSUME NEW a \in Buys, BuyStep(a), ~BuyInsert(a) PROVE pos' = pos
  BY <1>7 DEF BuyStep, BuyGate, BuyLookup, BuyBuildFails, BuyBuilt, BuyReport,
              BuyShowRatio, BuyPersist, BuyPublish, memVars
<1>8. CASE TickStep
  BY <1>8, <1>1 DEF TickStep, TickStart, TickSnapshot, TickSkip, TickSpawn, memVars
<1>9. ASSUME NEW c \in Checks, CheckStep(c),
             ~\E q \in Quotes, st \in {"open", "selling"} : Observe(c, q, st)
      PROVE  pos' = pos
  BY <1>9 DEF CheckStep, CheckClosing, CheckOpen, CheckReadFails, CheckStale, CheckHold,
              CheckClaim, CheckGauge, CheckReturns, memVars
<1>10. ASSUME NEW s \in Sells, SellStep(s),
              ~(SellClaim(s) \/ SellBuildFails(s) \/ SellMissed(s) \/ CloseSold(s))
       PROVE  pos' = pos
  BY <1>10 DEF SellStep, SellPanics, SellBuilt, SellLanded, CloseUnmap, CloseUnsave,
               CloseBook, CloseRecord, memVars
<1>11. ASSUME NEW t \in Buys \cup Sells, BundleSettles(t) PROVE pos' = pos
  BY <1>11 DEF BundleSettles, memVars
<1>12. ~Disarm /\ ~\E h \in Kills : KillStep(h)
  BY DEF Disarm
<1> HIDE DEF TypeOK, ThreadsOK, MemoryOK, Positions
<1> QED
  BY <1>1, <1>2, <1>3, <1>4, <1>5, <1>6, <1>7, <1>8, <1>9, <1>10, <1>11, <1>12 DEF Next

\* No failed sell reopens a position that was sold: the revert to "open" on an error
\* path, which does not look at the status, only ever meets "selling".
THEOREM SoldStaysSold == ASSUME Kills = {} PROVE Spec => SoldIsFinal
<1>1. TypeOK /\ SaleInv /\ [Next]_vars =>
        [\A b \in Buys : pos[b].status = "sold" => pos'[b].status \in {"sold", "absent"}]_vars
  BY SoldStep
<1> QED
  BY <1>1, TypeCorrect, SalesAreSafe, PTL DEF Spec, SoldIsFinal

-----------------------------------------------------------------------------
(* The ledger *)

\* The reason a sale was started for is the one its quote gives, until the close books
\* that quote: a check that could change it finds the position closing.
ReasonHolds(trigger, delta) == Ledger!Agrees([trigger |-> trigger, delta |-> delta])

ReasonInv ==
    \A s \in Sells :
      /\ sell[s].pc \in Selling =>
           ReasonHolds(sell[s].trigger, Delta(pos[sell[s].pos].quoted))
      /\ sell[s].pc \in Closing => ReasonHolds(sell[s].trigger, sell[s].delta)

LEMMA InitReason == Init => ReasonInv
BY DEF Init, ReasonInv, NewSell, Selling, Closing

\* Sellers stay, and the quotes of their positions with them.
LEMMA ReasonFrame ==
    ASSUME ReasonInv, UNCHANGED sell,
           \A s \in Sells :
             sell[s].pc \in Selling => pos'[sell[s].pos].quoted = pos[sell[s].pos].quoted
    PROVE  ReasonInv'
BY DEF ReasonInv

LEMMA BuyReason ==
    ASSUME TypeOK, SaleInv, ReasonInv, NEW b \in Buys, BuyStep(b)
    PROVE  ReasonInv'
<1>1. UNCHANGED sell
  BY DEF BuyStep, BuyGate, BuyLookup, BuyBuildFails, BuyBuilt, BuyReport, BuyShowRatio,
         BuyInsert, BuyPersist, BuyPublish
<1>2. CASE BuyInsert(b)
  <2>1. buy[b].pc = "insert" /\ pos' = [pos EXCEPT ![b] = NewPosition]
    BY <1>2 DEF BuyInsert
  <2>2. pos[b].status = "absent"
    BY <2>1 DEF SaleInv, StatusTellsSeller, Unopened
  <2>3. \A s \in Sells : sell[s].pc \in Selling => sell[s].pos # b
    BY <2>2 DEF SaleInv, StatusTellsSeller
  <2> QED
    BY <1>1, <2>1, <2>3, ReasonFrame
<1>3. CASE ~BuyInsert(b)
  <2>1. pos' = pos
    BY <1>3 DEF BuyStep, BuyGate, BuyLookup, BuyBuildFails, BuyBuilt, BuyReport,
                BuyShowRatio, BuyPersist, BuyPublish, memVars
  <2> QED
    BY <1>1, <2>1, ReasonFrame
<1> QED
  BY <1>2, <1>3

LEMMA ExitHasReason ==
    ASSUME NEW q \in Quotes, NEW n, Exit(q, n) # None
    PROVE  ReasonHolds(Exit(q, n), Delta(q))
BY QuotesAssumption DEF Exit, PriceTells, ReasonHolds, Ledger!Agrees, Delta

LEMMA CheckReason ==
    ASSUME TypeOK, SaleInv, ReasonInv, NEW c \in Checks, CheckStep(c)
    PROVE  ReasonInv'
<1> USE DEF TypeOK, ThreadsOK, MemoryOK
\* Observe changes the quote of a position that has no seller.
<1>1. ASSUME NEW q \in Quotes, NEW st \in {"open", "selling"}, Observe(c, q, st)
      PROVE  /\ check[c].pos \in Buys /\ pos'[check[c].pos].quoted = q
             /\ \A s \in Sells :
                  sell[s].pc \in Selling =>
                    /\ sell[s].pos # check[c].pos
                    /\ pos'[sell[s].pos].quoted = pos[sell[s].pos].quoted
  <2>1. check[c].pos \in Buys
    BY <1>1, CheckPos DEF Observe
  <2>2. pos[check[c].pos].status = "open" /\ pos[check[c].pos] \in Positions
    BY <1>1, <2>1 DEF Observe, StillOpen
  <2>3. \A s \in Sells : sell[s].pc \in Selling => sell[s].pos # check[c].pos
    BY <2>2 DEF SaleInv, StatusTellsSeller
  <2>4. /\ pos'[check[c].pos].quoted = q
        /\ \A b \in Buys \ {check[c].pos} : pos'[b] = pos[b]
    BY <1>1, <2>1, <2>2 DEF Observe, Positions
  <2>5. \A s \in Sells : sell[s].pc \in Selling => sell[s].pos \in Buys
    BY SellPos DEF Selling
  <2> QED
    BY <2>1, <2>3, <2>4, <2>5
<1>2. CASE CheckHold(c)
  BY <1>1, <1>2, ReasonFrame DEF CheckHold
<1>3. ASSUME NEW s \in Sells, CheckClaim(c, s) PROVE ReasonInv'
  <2>1. PICK q \in Quotes :
          /\ Exit(q, check[c].elapsed) # None
          /\ Observe(c, q, "selling")
          /\ sell' = [sell EXCEPT ![s] =
                        Spawned(check[c].pos, Exit(q, check[c].elapsed), None)]
    BY <1>3 DEF CheckClaim
  <2>2. /\ sell'[s].pc = "claim" /\ sell'[s].pos = check[c].pos
        /\ sell'[s].trigger = Exit(q, check[c].elapsed)
    BY <2>1 DEF Spawned
  <2>3. \A t \in Sells \ {s} : sell'[t] = sell[t]
    BY <2>1
  <2>4. ReasonHolds(sell'[s].trigger, Delta(pos'[sell'[s].pos].quoted))
    BY <1>1, <2>1, <2>2, ExitHasReason
  <2> QED
    BY <1>1, <2>1, <2>2, <2>3, <2>4 DEF ReasonInv, Closing
<1>4. CASE ~CheckHold(c) /\ ~\E s \in Sells : CheckClaim(c, s)
  BY <1>4, ReasonFrame DEF CheckStep, CheckClosing, CheckOpen, CheckReadFails, CheckStale,
                           CheckGauge, CheckReturns, memVars
<1> QED
  BY <1>2, <1>3, <1>4

LEMMA SellReason ==
    ASSUME TypeOK, SaleInv, ReasonInv, NEW s \in Sells, SellStep(s)
    PROVE  ReasonInv'
<1> USE DEF TypeOK, ThreadsOK, MemoryOK
<1>s. sell[s] \in Sellers /\ sell[s].pos \in Buys
  <2>1. sell[s].pc # "idle"
    BY DEF SellStep, SellClaim, SellBuildFails, SellPanics, SellBuilt, SellLanded, SellMissed,
           CloseSold, CloseUnmap, CloseUnsave, CloseBook, CloseRecord
  <2> QED
    BY <2>1, SellPos
<1>1. \A t \in Sells \ {s} : sell'[t] = sell[t]
  BY DEF SellStep, SellClaim, SellBuildFails, SellPanics, SellBuilt, SellLanded, SellMissed, CloseSold,
         CloseUnmap, CloseUnsave, CloseBook, CloseRecord, SellGoes, SellReturns, Reverts
<1>2. \A b \in Buys : pos'[b].quoted = pos[b].quoted
  <2>1. \/ pos' = pos
        \/ \E st \in {"open", "selling", "sold"} :
             pos' = [pos EXCEPT ![sell[s].pos].status = st]
    BY DEF SellStep, SellClaim, SellBuildFails, SellPanics, SellBuilt, SellLanded, SellMissed,
           CloseSold, CloseUnmap, CloseUnsave, CloseBook, CloseRecord, Reverts, memVars
  <2>2. ASSUME NEW st, pos' = [pos EXCEPT ![sell[s].pos].status = st]
        PROVE  \A b \in Buys : pos'[b].quoted = pos[b].quoted
    BY <1>s, <2>2 DEF Positions
  <2> QED
    BY <2>1, <2>2
<1>3. \A t \in Sells : sell[t].pc \in Selling => sell[t].pos \in Buys
  BY SellPos DEF Selling
<1>4. \/ SellReturns(s)
      \/ CloseSold(s)
      \/ sell[s].pc \in Selling /\ \E pc \in Selling : SellGoes(s, pc)
      \/ sell[s].pc \in Closing /\ \E pc \in Closing : SellGoes(s, pc)
  BY DEF SellStep, SellClaim, SellBuildFails, SellPanics, SellBuilt, SellLanded, SellMissed, CloseSold,
         CloseUnmap, CloseUnsave, CloseBook, CloseRecord, Reverts, Selling, Closing
<1>5. /\ sell'[s].pc \in Selling =>
           ReasonHolds(sell'[s].trigger, Delta(pos'[sell'[s].pos].quoted))
      /\ sell'[s].pc \in Closing => ReasonHolds(sell'[s].trigger, sell'[s].delta)
  <2>1. CASE SellReturns(s)
    BY <2>1 DEF SellReturns, NewSell, Selling, Closing
  <2>2. CASE CloseSold(s)
    <3>1. /\ sell[s].pc = "close" /\ sell'[s].pc = "unmap"
          /\ sell'[s].trigger = sell[s].trigger
          /\ sell'[s].delta = Delta(pos[sell[s].pos].quoted)
      BY <1>s, <2>2 DEF CloseSold, Sellers
    <3> QED
      BY <3>1 DEF ReasonInv, Selling, Closing
  <2>3. ASSUME NEW pc, SellGoes(s, pc)
        PROVE  /\ sell'[s].pc = pc /\ sell'[s].pos = sell[s].pos
               /\ sell'[s].trigger = sell[s].trigger /\ sell'[s].delta = sell[s].delta
    BY <1>s, <2>3 DEF SellGoes, Sellers
  <2>4. CASE sell[s].pc \in Selling /\ \E pc \in Selling : SellGoes(s, pc)
    BY <1>s, <1>2, <2>3, <2>4 DEF ReasonInv, Selling, Closing
  <2>5. CASE sell[s].pc \in Closing /\ \E pc \in Closing : SellGoes(s, pc)
    BY <2>3, <2>5 DEF ReasonInv, Selling, Closing
  <2> QED
    BY <1>4, <2>1, <2>2, <2>4, <2>5
<1>6. ASSUME NEW t \in Sells \ {s}
      PROVE  /\ sell'[t].pc \in Selling =>
                  ReasonHolds(sell'[t].trigger, Delta(pos'[sell'[t].pos].quoted))
             /\ sell'[t].pc \in Closing => ReasonHolds(sell'[t].trigger, sell'[t].delta)
  BY <1>1, <1>2, <1>3 DEF ReasonInv
<1> QED
  BY <1>5, <1>6 DEF ReasonInv

LEMMA EnvironmentReason ==
    ASSUME MaxRestarts = 0, TypeOK, ReasonInv,
           \/ \E b \in Buys : Elapse(b)
           \/ \E t \in Buys \cup Sells : BundleSettles(t)
           \/ TickStep
           \/ Restart
           \/ UNCHANGED vars
    PROVE  ReasonInv' /\ ~Restart
<1> USE DEF TypeOK, ThreadsOK, MemoryOK
<1>1. ~Restart
  BY DEF Restart
<1>2. UNCHANGED sell
  BY <1>1 DEF Elapse, BundleSettles, TickStep, TickStart, TickSnapshot, TickSkip, TickSpawn,
              threadVars, vars
<1>3. \A b \in Buys : pos'[b].quoted = pos[b].quoted
  <2>1. CASE \E b \in Buys : Elapse(b)
    BY <2>1 DEF Elapse, Positions
  <2>2. CASE ~\E b \in Buys : Elapse(b)
    BY <1>1, <2>2 DEF BundleSettles, TickStep, TickStart, TickSnapshot, TickSkip, TickSpawn,
                      memVars, vars
  <2> QED
    BY <2>1, <2>2
<1>4. \A t \in Sells : sell[t].pc \in Selling => sell[t].pos \in Buys
  BY SellPos DEF Selling
<1> QED
  BY <1>1, <1>2, <1>3, <1>4, ReasonFrame

LEMMA ReasonStep ==
    ASSUME Kills = {}, MaxRestarts = 0, TypeOK, SaleInv, ReasonInv, [Next]_vars
    PROVE  ReasonInv'
<1>1. ~Disarm /\ ~\E h \in Kills : KillStep(h)
  BY DEF Disarm
<1> QED
  BY <1>1, BuyReason, CheckReason, SellReason, EnvironmentReason DEF Next

\* What the ledger sees of a status.
Stage(b) ==
    CASE pos[b].status = "absent" -> "none"
      [] pos[b].status \in {"open", "selling"} -> "open"
      [] OTHER -> "sold"

LEMMA LedgerStutter ==
    ASSUME \A b \in Buys : Stage(b)' = Stage(b), UNCHANGED records
    PROVE  UNCHANGED Ledger!vars
BY DEF Stage, Ledger!vars

LEMMA LedgerMoves ==
    ASSUME NEW p \in Buys, \A b \in Buys \ {p} : Stage(b)' = Stage(b), UNCHANGED records,
           \/ Stage(p) = "none" /\ Stage(p)' = "open"
           \/ Stage(p) = "open" /\ Stage(p)' = "sold"
    PROVE  Ledger!Open(p) \/ Ledger!Sell(p)
BY DEF Stage, Ledger!Open, Ledger!Sell

LEMMA LedgerBooks ==
    ASSUME NEW p \in Buys, \A b \in Buys : Stage(b)' = Stage(b), Stage(p) = "sold",
           records[p] = <<>>, NEW r \in Records, records' = [records EXCEPT ![p] = <<r>>],
           records \in [Buys -> Seq(Records)], ReasonHolds(r.trigger, r.delta)
    PROVE  Ledger!Book(p)
<1> DEFINE entry(R, b) == [i \in 1..Len(R[b]) |->
                            [trigger |-> R[b][i].trigger, delta |-> R[b][i].delta]]
           e == [trigger |-> r.trigger, delta |-> r.delta]
<1>1. entry(records', p) = <<e>>
  <2>1. records'[p] = <<r>>
    OBVIOUS
  <2> QED
    BY <2>1
<1>2. \A b \in Buys \ {p} : entry(records', b) = entry(records, b)
  OBVIOUS
<1>3. entry(records, p) = <<>>
  OBVIOUS
<1>4. e \in Ledger!Entries /\ Ledger!Agrees(e)
  BY DEF ReasonHolds, Ledger!Agrees, Ledger!Entries, Records, Triggers, Deltas
<1> HIDE DEF e
<1>5. [b \in Buys |-> entry(records', b)]
        = [[b \in Buys |-> entry(records, b)] EXCEPT ![p] = <<e>>]
  <2> HIDE DEF entry
  <2> QED
    BY <1>1, <1>2
<1> QED
  BY <1>3, <1>4, <1>5 DEF Stage, Ledger!Book, Ledger!Gone

\* Every step opens, sells or books one position, or is one the ledger does not see.
LEMMA LedgerStep ==
    ASSUME Kills = {}, MaxRestarts = 0, TypeOK, SaleInv, ReasonInv, [Next]_vars
    PROVE  [Ledger!Next]_(Ledger!vars)
<1> USE DEF TypeOK, ThreadsOK, MemoryOK
<1>1. ASSUME NEW b \in Buys, BuyStep(b) PROVE Ledger!Open(b) \/ UNCHANGED Ledger!vars
  <2>1. UNCHANGED records
    BY <1>1 DEF BuyStep, BuyGate, BuyLookup, BuyBuildFails, BuyBuilt, BuyReport,
                BuyShowRatio, BuyInsert, BuyPersist, BuyPublish
  <2>2. CASE BuyInsert(b)
    <3>1. buy[b].pc = "insert" /\ pos' = [pos EXCEPT ![b] = NewPosition]
      BY <2>2 DEF BuyInsert
    <3>2. pos[b].status = "absent"
      BY <3>1 DEF SaleInv, StatusTellsSeller, Unopened
    <3>3. Stage(b) = "none" /\ Stage(b)' = "open"
      BY <3>1, <3>2 DEF Stage, NewPosition
    <3>4. \A a \in Buys \ {b} : Stage(a)' = Stage(a)
      BY <3>1 DEF Stage
    <3> QED
      BY <2>1, <3>3, <3>4, LedgerMoves DEF Ledger!Sell, Stage
  <2>3. CASE ~BuyInsert(b)
    <3>1. pos' = pos
      BY <1>1, <2>3 DEF BuyStep, BuyGate, BuyLookup, BuyBuildFails, BuyBuilt, BuyReport,
                        BuyShowRatio, BuyPersist, BuyPublish, memVars
    <3> QED
      BY <2>1, <3>1, LedgerStutter DEF Stage
  <2> QED
    BY <2>2, <2>3
<1>2. ASSUME NEW c \in Checks, CheckStep(c) PROVE UNCHANGED Ledger!vars
  <2>1. UNCHANGED records
    BY <1>2 DEF CheckStep, CheckClosing, CheckOpen, CheckReadFails, CheckStale, CheckHold,
                CheckClaim, Observe, CheckGauge, CheckReturns
  <2>2. ASSUME NEW q \in Quotes, NEW st \in {"open", "selling"}, Observe(c, q, st)
        PROVE  \A b \in Buys : Stage(b)' = Stage(b)
    <3> DEFINE p == check[c].pos
    <3>1. pos[p].status = "open"
      BY <2>2 DEF Observe, StillOpen
    <3>2. /\ \A b \in Buys \ {p} : pos'[b] = pos[b]
          /\ p \in Buys => pos'[p].status = st
      BY <2>2 DEF Observe, Positions
    <3> HIDE DEF TypeOK, ThreadsOK, MemoryOK, p
    <3> QED
      BY <3>1, <3>2 DEF Stage
  <2>3. CASE \E q \in Quotes, st \in {"open", "selling"} : Observe(c, q, st)
    BY <2>1, <2>2, <2>3, LedgerStutter
  <2>4. CASE ~\E q \in Quotes, st \in {"open", "selling"} : Observe(c, q, st)
    <3>1. pos' = pos
      BY <1>2, <2>4 DEF CheckStep, CheckClosing, CheckOpen, CheckReadFails, CheckStale,
                        CheckHold, CheckClaim, CheckGauge, CheckReturns, memVars
    <3> QED
      BY <2>1, <3>1, LedgerStutter DEF Stage
  <2> QED
    BY <2>3, <2>4
<1>3. ASSUME NEW s \in Sells, SellStep(s)
      PROVE  (\E p \in Buys : Ledger!Sell(p) \/ Ledger!Book(p)) \/ UNCHANGED Ledger!vars
  <2>s. sell[s] \in Sellers /\ sell[s].pos \in Buys
    <3>1. sell[s].pc # "idle"
      BY <1>3 DEF SellStep, SellClaim, SellBuildFails, SellPanics, SellBuilt, SellLanded, SellMissed,
                  CloseSold, CloseUnmap, CloseUnsave, CloseBook, CloseRecord
    <3> QED
      BY <3>1, SellPos
  <2>p. PICK p \in Buys : sell[s].pos = p
    BY <2>s
  <2>1. CASE CloseSold(s)
    <3>1. pos[p].status = "selling" /\ UNCHANGED records
      BY <2>p, <2>1 DEF CloseSold, SaleInv, StatusTellsSeller, Selling
    <3>2. pos'[p].status = "sold" /\ \A b \in Buys \ {p} : pos'[b] = pos[b]
      BY <2>p, <2>1 DEF CloseSold, Positions
    <3>3. Stage(p) = "open" /\ Stage(p)' = "sold"
      BY <3>1, <3>2 DEF Stage
    <3>4. \A b \in Buys \ {p} : Stage(b)' = Stage(b)
      BY <3>2 DEF Stage
    <3> QED
      BY <3>1, <3>3, <3>4, LedgerMoves DEF Ledger!Open, Stage
  <2>2. CASE CloseRecord(s)
    <3>1. sell[s].pc = "record" /\ pos' = pos
      BY <2>2 DEF CloseRecord, memVars
    <3>2. pos[p].status = "sold" /\ records[p] = <<>>
      BY <2>p, <3>1 DEF SaleInv, StatusTellsSeller, NotYetBooked, Closing
    <3>3. ReasonHolds(sell[s].trigger, sell[s].delta)
      BY <3>1 DEF ReasonInv, Closing
    <3>4. PICK ow \in {Owners(Mint(p)), {}} :
            records' # records =>
              records' = [records EXCEPT ![p] =
                            Append(@, [trigger |-> sell[s].trigger, delta |-> sell[s].delta,
                                       owners |-> ow])]
      BY <2>p, <2>2 DEF CloseRecord
    <3> DEFINE r == [trigger |-> sell[s].trigger, delta |-> sell[s].delta, owners |-> ow]
    <3>5. Owners(Mint(p)) \subseteq Buys
      <4>1. traj[Mint(p)] \in Seq(Batches)
        BY SignalsAssumption DEF RedisOK, Mint
      <4>2. \A i \in 1..Len(traj[Mint(p)]) : traj[Mint(p)][i] \in Batches
        BY <4>1
      <4> QED
        BY <4>2 DEF Owners, Batches
    <3>6. r \in Records
      BY <2>s, <3>4, <3>5 DEF Records, Sellers
    <3>8. Stage(p) = "sold" /\ \A b \in Buys : Stage(b)' = Stage(b)
      BY <3>1, <3>2 DEF Stage
    <3>9. ReasonHolds(r.trigger, r.delta)
      BY <3>3
    <3>7. CASE records' # records
      <4>1. records' = [records EXCEPT ![p] = Append(@, r)]
        BY <3>4, <3>7
      <4> HIDE DEF r
      <4>2. records' = [records EXCEPT ![p] = <<r>>]
        BY <3>2, <4>1
      <4> QED
        BY <3>2, <3>6, <3>8, <3>9, <4>2, LedgerBooks
    <3>10. CASE records' = records
      BY <3>8, <3>10, LedgerStutter
    <3> QED
      BY <3>7, <3>10
  <2>3. CASE ~CloseSold(s) /\ ~CloseRecord(s)
    <3>1. UNCHANGED records
      BY <1>3, <2>3 DEF SellStep, SellClaim, SellBuildFails, SellPanics, SellBuilt, SellLanded,
                        SellMissed, Reverts, CloseUnmap, CloseUnsave, CloseBook
    <3>2. \/ pos' = pos
          \/ /\ sell[s].pc \in Selling
             /\ \E st \in {"open", "selling"} : pos' = [pos EXCEPT ![p].status = st]
      BY <1>3, <2>p, <2>3 DEF SellStep, SellClaim, SellBuildFails, SellPanics, SellBuilt, SellLanded,
                              SellMissed, Reverts, CloseUnmap, CloseUnsave, CloseBook,
                              memVars, Selling
    <3>3. sell[s].pc \in Selling => pos[p].status = "selling"
      BY <2>p DEF SaleInv, StatusTellsSeller
    <3>4. \A b \in Buys : Stage(b)' = Stage(b)
      <4>1. CASE pos' = pos
        BY <4>1 DEF Stage
      <4>2. ASSUME sell[s].pc \in Selling, NEW st \in {"open", "selling"},
                   pos' = [pos EXCEPT ![p].status = st]
            PROVE  \A b \in Buys : Stage(b)' = Stage(b)
        <5>1. pos'[p].status = st /\ \A b \in Buys \ {p} : pos'[b] = pos[b]
          BY <4>2 DEF Positions
        <5> QED
          BY <3>3, <4>2, <5>1 DEF Stage
      <4> QED
        BY <3>2, <4>1, <4>2
    <3> QED
      BY <3>1, <3>4, LedgerStutter
  <2> QED
    BY <2>1, <2>2, <2>3
<1>4. ASSUME ~Restart,
             \/ \E b \in Buys : Elapse(b)
             \/ \E t \in Buys \cup Sells : BundleSettles(t)
             \/ TickStep
             \/ UNCHANGED vars
      PROVE  UNCHANGED Ledger!vars
  <2>1. UNCHANGED records
    BY <1>4 DEF Elapse, BundleSettles, TickStep, TickStart, TickSnapshot, TickSkip,
                TickSpawn, vars
  <2>2. \A b \in Buys : pos'[b].status = pos[b].status
    <3>1. CASE \E b \in Buys : Elapse(b)
      BY <3>1 DEF Elapse, Positions
    <3>2. CASE ~\E b \in Buys : Elapse(b)
      BY <1>4, <3>2 DEF BundleSettles, TickStep, TickStart, TickSnapshot, TickSkip,
                        TickSpawn, memVars, vars
    <3> QED
      BY <3>1, <3>2
  <2> QED
    BY <2>1, <2>2, LedgerStutter DEF Stage
<1>5. ~Disarm /\ (~\E h \in Kills : KillStep(h)) /\ ~Restart
  BY DEF Disarm, Restart
<1>6. ASSUME Ledger!Next \/ UNCHANGED Ledger!vars PROVE [Ledger!Next]_(Ledger!vars)
  BY <1>6
<1> HIDE DEF TypeOK, ThreadsOK, MemoryOK
<1>7. CASE \E b \in Buys : BuyStep(b)
  BY <1>1, <1>6, <1>7 DEF Ledger!Next
<1>8. CASE \E c \in Checks : CheckStep(c)
  BY <1>2, <1>6, <1>8
<1>9. CASE \E s \in Sells : SellStep(s)
  BY <1>3, <1>6, <1>9 DEF Ledger!Next
<1> QED
  BY <1>4, <1>5, <1>6, <1>7, <1>8, <1>9 DEF Next

\* Without the kill switch and restarts, for any number of positions and goroutines and
\* whatever fails, each position is opened, sold and booked once, and the reason of its
\* record agrees with the P&L booked for it (savePosition, checkPosition, closePosition).
THEOREM ExecutorKeepsLedger ==
    ASSUME Kills = {}, MaxRestarts = 0 PROVE Spec => ImplementsLedger
<1>1. Init => Ledger!Init
  BY DEF Init, Ledger!Init, Absent
<1>2. Init => ReasonInv
  BY InitReason
<1>3. TypeOK /\ SaleInv /\ ReasonInv /\ [Next]_vars => ReasonInv'
  BY ReasonStep
<1>4. TypeOK /\ SaleInv /\ ReasonInv /\ [Next]_vars => [Ledger!Next]_(Ledger!vars)
  BY LedgerStep
<1> QED
  BY <1>1, <1>2, <1>3, <1>4, TypeCorrect, SalesAreSafe, PTL
     DEF Spec, ImplementsLedger, Ledger!Spec

-----------------------------------------------------------------------------
(* Trajectories *)

LEMMA TrajectoryInit == Init => TrajectoryInv
BY DEF Init, TrajectoryInv, TrajectoryOrdered, PointsAreFlagged, SellersHaveOpened, NewBuy,
       NewSell, Absent

\* A list's points have a position.
LEMMA PointsType ==
    ASSUME RedisOK
    PROVE  \A m \in Mints : /\ traj[m] \in Seq(Batches)
                            /\ \A i \in 1..Len(traj[m]) : traj[m][i] \in Batches
BY DEF RedisOK

\* The lists do not move, no buy goes back, and a position keeps its flags unless it
\* is gone.
LEMMA ListsFrame ==
    ASSUME RedisOK, TrajectoryOrdered, PointsAreFlagged, UNCHANGED traj,
           \A b \in Buys : buy'[b].pc \in Unopened => buy[b].pc \in Unopened,
           \A b \in Buys :
             buy[b].pc \notin Unopened =>
               \/ pos'[b].status = "absent"
               \/ pos[b].status # "absent" /\ pos'[b].snaps = pos[b].snaps
    PROVE  TrajectoryOrdered' /\ PointsAreFlagged'
<1>1. TrajectoryOrdered'
  BY DEF TrajectoryOrdered
<1>2. ASSUME NEW m \in Mints, NEW i \in 1..Len(traj[m])
      PROVE  LET x == traj[m][i] IN
               /\ buy'[x.pos].pc \notin Unopened
               /\ \A k \in x.marks : k <= x.elapsed
               /\ pos'[x.pos].status # "absent" =>
                    \A k \in Milestones : k <= x.elapsed => k \in pos'[x.pos].snaps
  <2> DEFINE x == traj[m][i]
  <2>1. x.pos \in Buys
    BY PointsType DEF Batches
  <2>2. /\ buy[x.pos].pc \notin Unopened
        /\ \A k \in x.marks : k <= x.elapsed
        /\ pos[x.pos].status # "absent" =>
             \A k \in Milestones : k <= x.elapsed => k \in pos[x.pos].snaps
    BY DEF PointsAreFlagged
  <2> QED
    BY <2>1, <2>2
<1> QED
  BY <1>1, <1>2 DEF PointsAreFlagged

\* As ListsFrame, when the sellers do not change either.
LEMMA TrajectoryFrame ==
    ASSUME TypeOK, TrajectoryInv, UNCHANGED <<traj, sell, pos>>,
           \A b \in Buys : buy'[b].pc \in Unopened => buy[b].pc \in Unopened
    PROVE  TrajectoryInv'
<1>1. \A b \in Buys : buy[b].pc \notin Unopened =>
        \/ pos'[b].status = "absent"
        \/ pos[b].status # "absent" /\ pos'[b].snaps = pos[b].snaps
  OBVIOUS
<1>2. TrajectoryOrdered' /\ PointsAreFlagged'
  BY <1>1, ListsFrame DEF TypeOK, TrajectoryInv
<1>3. SellersHaveOpened'
  BY DEF TrajectoryInv, SellersHaveOpened
<1> QED
  BY <1>2, <1>3 DEF TrajectoryInv

\* A goroutine of executeSell that has a position has one of Buys.
LEMMA SellerHasPosition ==
    ASSUME TypeOK, NEW s \in Sells, sell[s].pos # None
    PROVE  sell[s].pos \in Buys
<1>1. sell[s] \in Sellers
  BY DEF TypeOK, ThreadsOK, NewSell
<1> QED
  BY <1>1 DEF Sellers

LEMMA BuyTrajectory ==
    ASSUME TypeOK, TrajectoryInv, NEW b \in Buys, BuyStep(b)
    PROVE  TrajectoryInv'
<1> USE DEF TypeOK, ThreadsOK
<1>1. CASE BuyInsert(b)
  <2>1. /\ buy[b].pc = "insert"
        /\ pos' = [pos EXCEPT ![b] = NewPosition]
        /\ buy' = [buy EXCEPT ![b].pc = "persist"]
        /\ UNCHANGED <<sell, traj>>
    BY <1>1 DEF BuyInsert, BuyGoes, redisVars
  <2>2. /\ pos'[b].status = "open"
        /\ \A a \in Buys \ {b} : pos'[a] = pos[a] /\ buy'[a] = buy[a]
        /\ buy'[b].pc = "persist"
    BY <2>1 DEF MemoryOK, NewPosition, Buyers
  <2>3. \A a \in Buys : buy'[a].pc \in Unopened => buy[a].pc \in Unopened
    BY <2>1, <2>2 DEF Unopened
  <2>4. \A a \in Buys : buy[a].pc \notin Unopened => pos'[a] = pos[a]
    BY <2>1, <2>2 DEF Unopened
  <2>5. TrajectoryOrdered' /\ PointsAreFlagged'
    BY <2>1, <2>3, <2>4, ListsFrame DEF TrajectoryInv
  <2>6. SellersHaveOpened'
    <3>1. \A a \in Buys : buy'[a].pc \in Unopened => pos'[a].status = "absent"
      BY <2>2 DEF TrajectoryInv, SellersHaveOpened, Unopened
    <3>2. ASSUME NEW s \in Sells, sell[s].pos # None PROVE pos'[sell[s].pos].status # "absent"
      <4>1. sell[s].pos \in Buys
        BY <3>2, SellerHasPosition
      <4> QED
        BY <2>2, <3>2, <4>1, SMTT(30) DEF TrajectoryInv, SellersHaveOpened
    <3> QED
      BY <2>1, <3>1, <3>2 DEF SellersHaveOpened
  <2> QED
    BY <2>5, <2>6 DEF TrajectoryInv
<1>2. CASE ~BuyInsert(b)
  <2>1. UNCHANGED <<pos, sell, traj>>
    BY <1>2 DEF BuyStep, BuyGate, BuyLookup, BuyBuildFails, BuyBuilt, BuyReport,
                BuyShowRatio, BuyPersist, BuyPublish, memVars, redisVars
  <2>2. ASSUME NEW a \in Buys, buy'[a].pc \in Unopened PROVE buy[a].pc \in Unopened
    <3>1. CASE a # b
      <4>1. buy'[a] = buy[a]
        BY <1>2, <3>1 DEF BuyStep, BuyGate, BuyLookup, BuyBuildFails, BuyBuilt,
                          BuyReport, BuyShowRatio, BuyPersist, BuyPublish, BuyGoes
      <4> QED
        BY <2>2, <4>1
    <3>2. CASE a = b /\ (BuyPersist(b) \/ BuyPublish(b))
      BY <2>2, <3>2 DEF BuyPersist, BuyPublish, BuyGoes, Unopened, Buyers
    <3> QED
      BY <1>2, <3>1, <3>2 DEF BuyStep, BuyGate, BuyLookup, BuyBuildFails, BuyBuilt,
                              BuyReport, BuyShowRatio, Unopened
  <2> QED
    BY <2>1, <2>2, TrajectoryFrame
<1> QED
  BY <1>1, <1>2

\* The checks that observe a price: the new batch comes after every older batch of its
\* position, because what they recorded is flagged.
LEMMA ObserveTrajectory ==
    ASSUME TypeOK, TrajectoryInv, NEW c \in Checks, NEW q \in Quotes,
           NEW status \in {"open", "selling"}, Observe(c, q, status)
    PROVE  /\ TrajectoryOrdered' /\ PointsAreFlagged'
           /\ pos[check[c].pos].status = "open"
           /\ check[c].pos \in Buys
           /\ \A b \in Buys \ {check[c].pos} : pos'[b] = pos[b]
           /\ pos'[check[c].pos].status = status
<1> DEFINE p == check[c].pos
           e == check[c].elapsed
           due == Due(p, e)
<1>1. /\ check[c].pc = "read"
      /\ pos[p].status = "open"
      /\ pos' = [pos EXCEPT ![p].quoted = q, ![p].snaps = @ \cup due, ![p].status = status]
      /\ \E kept \in Written(due) : \E again \in Rewritten(kept) :
           traj' = IF kept = {} THEN traj
                   ELSE [traj EXCEPT ![Mint(p)] =
                           Append(@, [pos |-> p, marks |-> kept, again |-> again,
                                      elapsed |-> e])]
      /\ UNCHANGED buy
  BY DEF Observe, StillOpen
<1>2. check[c] \in Checkers
  BY <1>1 DEF TypeOK, ThreadsOK, NewCheck
<1>3. p \in Buys /\ e \in 0..MaxAge /\ Mint(p) \in Mints
  BY <1>2, SignalsAssumption DEF Checkers, Mint
<1>4. pos[p] \in Positions /\ \A b \in Buys : pos[b] \in Positions
  BY <1>3 DEF TypeOK, MemoryOK
<1>5. /\ \A b \in Buys \ {p} : pos'[b] = pos[b]
      /\ pos'[p].status = status
      /\ pos'[p].snaps = pos[p].snaps \cup due
  BY <1>1, <1>3, <1>4 DEF TypeOK, MemoryOK, Positions
<1>6. buy[p].pc \notin Unopened
  BY <1>1, <1>3 DEF TrajectoryInv, SellersHaveOpened
<1>7. due \subseteq Milestones /\ Milestones \subseteq Nat
      /\ \A k \in Milestones : k \in due <=> k <= e /\ k \notin pos[p].snaps
  BY MilestonesAssumption DEF Due
<1>8. \* The flags of every batch, with the new ones set.
      \A m \in Mints : \A i \in 1..Len(traj[m]) :
        LET x == traj[m][i] IN
          /\ x \in Batches
          /\ buy'[x.pos].pc \notin Unopened
          /\ \A k \in x.marks : k <= x.elapsed
          /\ pos'[x.pos].status # "absent" =>
               \A k \in Milestones : k <= x.elapsed => k \in pos'[x.pos].snaps
  <2> SUFFICES ASSUME NEW m \in Mints, NEW i \in 1..Len(traj[m])
               PROVE  LET x == traj[m][i] IN
                        /\ x \in Batches
                        /\ buy'[x.pos].pc \notin Unopened
                        /\ \A k \in x.marks : k <= x.elapsed
                        /\ pos'[x.pos].status # "absent" =>
                             \A k \in Milestones : k <= x.elapsed => k \in pos'[x.pos].snaps
    OBVIOUS
  <2> DEFINE x == traj[m][i]
  <2>1. x \in Batches /\ x.pos \in Buys
    BY PointsType DEF TypeOK, Batches
  <2>2. /\ buy[x.pos].pc \notin Unopened
        /\ \A k \in x.marks : k <= x.elapsed
        /\ pos[x.pos].status # "absent" =>
             \A k \in Milestones : k <= x.elapsed => k \in pos[x.pos].snaps
    BY DEF TrajectoryInv, PointsAreFlagged
  <2>3. CASE x.pos = p
    BY <1>1, <1>5, <2>1, <2>2, <2>3
  <2>4. CASE x.pos # p
    BY <1>1, <1>5, <2>1, <2>2, <2>4
  <2> QED
    BY <2>3, <2>4
<1>9. CASE traj' = traj
  <2>1. TrajectoryOrdered'
    BY <1>9 DEF TrajectoryInv, TrajectoryOrdered
  <2>2. PointsAreFlagged'
    BY <1>8, <1>9 DEF PointsAreFlagged
  <2> QED
    BY <1>1, <1>3, <1>5, <2>1, <2>2
<1>10. CASE traj' # traj
  <2>k. PICK kept \in Written(due) : kept # {} /\ \E again \in Rewritten(kept) :
          traj' = [traj EXCEPT ![Mint(p)] =
                     Append(@, [pos |-> p, marks |-> kept, again |-> again, elapsed |-> e])]
    BY <1>1, <1>10
  <2>0. PICK again \in Rewritten(kept) :
          traj' = [traj EXCEPT ![Mint(p)] =
                     Append(@, [pos |-> p, marks |-> kept, again |-> again, elapsed |-> e])]
    BY <2>k
  <2>1. kept \subseteq due /\ again \subseteq kept /\ kept # {}
    BY <2>k, <2>0 DEF Written, Rewritten
  <2> DEFINE n == Len(traj[Mint(p)]) + 1
             y == [pos |-> p, marks |-> kept, again |-> again, elapsed |-> e]
  <2>2. traj \in [Mints -> Seq(Batches)] /\ traj[Mint(p)] \in Seq(Batches)
    BY <1>3 DEF TypeOK, RedisOK
  <2>3. /\ \A m \in Mints \ {Mint(p)} : traj'[m] = traj[m]
        /\ traj'[Mint(p)] = Append(traj[Mint(p)], y)
    BY <1>3, <2>0, <2>2
  <2>4. /\ n \in Nat
        /\ Len(traj'[Mint(p)]) = n
        /\ traj'[Mint(p)][n] = y
        /\ \A i \in 1..n : i # n => /\ i \in 1..Len(traj[Mint(p)])
                                    /\ traj'[Mint(p)][i] = traj[Mint(p)][i]
    BY <2>2, <2>3
  <2>5. /\ \A k \in kept : k <= e
        /\ \A k \in Milestones : k <= e => k \in pos'[p].snaps
    BY <1>5, <1>7, <2>1
  <2>6. PointsAreFlagged'
    <3> SUFFICES ASSUME NEW m \in Mints, NEW i \in 1..Len(traj'[m])
                 PROVE  LET x == traj'[m][i] IN
                          /\ buy'[x.pos].pc \notin Unopened
                          /\ \A k \in x.marks : k <= x.elapsed
                          /\ pos'[x.pos].status # "absent" =>
                               \A k \in Milestones : k <= x.elapsed => k \in pos'[x.pos].snaps
      BY DEF PointsAreFlagged
    <3>1. CASE m # Mint(p)
      BY <1>8, <2>3, <3>1
    <3>2. CASE m = Mint(p) /\ i # n
      BY <1>8, <2>4, <3>2
    <3>3. CASE m = Mint(p) /\ i = n
      <4>1. traj'[m][i] = y
        BY <2>4, <3>3
      <4>2. y.pos = p /\ y.marks = kept /\ y.elapsed = e
        OBVIOUS
      <4>3. buy'[p].pc \notin Unopened
        BY <1>1, <1>6
      <4> QED
        BY <2>5, <4>1, <4>2, <4>3
    <3> QED
      BY <3>1, <3>2, <3>3
  <2>7. ASSUME NEW i \in 1..Len(traj[Mint(p)]), traj[Mint(p)][i].pos = p
        PROVE  /\ traj[Mint(p)][i].elapsed < e
               /\ \A k \in traj[Mint(p)][i].marks, l \in kept : k < l
    <3> DEFINE x == traj[Mint(p)][i]
    <3>1. x.elapsed \in Nat /\ x.marks \subseteq Nat /\ e \in Nat
      <4>1. x \in Batches
        BY <1>3, <1>8
      <4>2. x.elapsed \in 0..MaxAge /\ x.marks \subseteq Milestones
        BY <4>1 DEF Batches
      <4>3. \A k \in 0..MaxAge : k \in Nat
        BY BoundsAssumption
      <4> HIDE DEF x, e
      <4> QED
        BY <1>3, <1>7, <4>2, <4>3
    <3>2. /\ \A k \in x.marks : k <= x.elapsed
          /\ \A k \in Milestones : k <= x.elapsed => k \in pos[p].snaps
      BY <1>1, <1>3, <2>7 DEF TrajectoryInv, PointsAreFlagged
    <3>3. ASSUME NEW l \in kept PROVE l \in Nat /\ x.elapsed < l /\ l <= e
      <4>1. l \in Milestones /\ l \in Nat /\ l <= e /\ l \notin pos[p].snaps
        BY <1>7, <2>1, <3>3
      <4>2. ~(l <= x.elapsed)
        BY <3>2, <4>1
      <4> QED
        BY <3>1, <4>1, <4>2
    <3> QED
      BY <2>1, <3>1, <3>2, <3>3
  <2>8. TrajectoryOrdered'
    <3> SUFFICES ASSUME NEW m \in Mints, NEW i \in 1..Len(traj'[m]),
                        NEW j \in 1..Len(traj'[m]),
                        i < j, traj'[m][i].pos = traj'[m][j].pos
                 PROVE  /\ traj'[m][i].elapsed < traj'[m][j].elapsed
                        /\ \A k \in traj'[m][i].marks, l \in traj'[m][j].marks : k < l
      BY DEF TrajectoryOrdered
    <3>1. CASE m # Mint(p)
      BY <2>3, <3>1 DEF TrajectoryInv, TrajectoryOrdered
    <3>2. CASE m = Mint(p) /\ j # n
      <4>1. i # n
        BY <2>4, <3>2
      <4> QED
        BY <2>4, <3>2, <4>1 DEF TrajectoryInv, TrajectoryOrdered
    <3>3. CASE m = Mint(p) /\ j = n
      <4>1. i # n
        BY <3>3
      <4>2. i \in 1..Len(traj[Mint(p)]) /\ traj'[m][i] = traj[Mint(p)][i]
        BY <2>4, <3>3, <4>1
      <4>3. traj'[m][j] = y /\ y.pos = p /\ y.marks = kept /\ y.elapsed = e
        BY <2>4, <3>3
      <4> QED
        BY <2>7, <4>2, <4>3
    <3> QED
      BY <3>1, <3>2, <3>3
  <2> QED
    BY <1>1, <1>3, <1>5, <2>6, <2>8
<1> QED
  BY <1>9, <1>10

LEMMA CheckTrajectory ==
    ASSUME TypeOK, TrajectoryInv, NEW c \in Checks, CheckStep(c)
    PROVE  TrajectoryInv'
<1>1. CASE CheckHold(c)
  <2>1. PICK q \in Quotes : Observe(c, q, "open") /\ UNCHANGED sell
    BY <1>1 DEF CheckHold
  <2>2. /\ TrajectoryOrdered' /\ PointsAreFlagged'
        /\ pos[check[c].pos].status = "open" /\ check[c].pos \in Buys
        /\ \A b \in Buys \ {check[c].pos} : pos'[b] = pos[b]
        /\ pos'[check[c].pos].status = "open"
    BY <2>1, ObserveTrajectory
  <2>3. UNCHANGED buy
    BY <2>1 DEF Observe
  <2>4. SellersHaveOpened'
    <3>1. ASSUME NEW b \in Buys, buy'[b].pc \in Unopened PROVE pos'[b].status = "absent"
      BY <2>2, <2>3, <3>1 DEF TrajectoryInv, SellersHaveOpened
    <3>2. ASSUME NEW s \in Sells, sell'[s].pos # None
          PROVE  pos'[sell'[s].pos].status # "absent"
      BY <2>1, <2>2, <3>2, SellerHasPosition DEF TrajectoryInv, SellersHaveOpened
    <3> QED
      BY <3>1, <3>2 DEF SellersHaveOpened
  <2> QED
    BY <2>2, <2>4 DEF TrajectoryInv
<1>2. ASSUME NEW s \in Sells, CheckClaim(c, s) PROVE TrajectoryInv'
  <2>1. PICK q \in Quotes :
          /\ Observe(c, q, "selling")
          /\ sell' = [sell EXCEPT ![s] = Spawned(check[c].pos, Exit(q, check[c].elapsed), None)]
    BY <1>2 DEF CheckClaim
  <2>2. /\ TrajectoryOrdered' /\ PointsAreFlagged'
        /\ pos[check[c].pos].status = "open" /\ check[c].pos \in Buys
        /\ \A b \in Buys \ {check[c].pos} : pos'[b] = pos[b]
        /\ pos'[check[c].pos].status = "selling"
    BY <2>1, ObserveTrajectory
  <2>3. UNCHANGED buy
    BY <2>1 DEF Observe
  <2>4. SellersHaveOpened'
    <3>1. ASSUME NEW b \in Buys, buy'[b].pc \in Unopened PROVE pos'[b].status = "absent"
      BY <2>2, <2>3, <3>1 DEF TrajectoryInv, SellersHaveOpened
    <3>2. ASSUME NEW t \in Sells, sell'[t].pos # None
          PROVE  pos'[sell'[t].pos].status # "absent"
      <4>1. CASE t = s
        <5>1. sell'[s].pos = check[c].pos
          BY <2>1 DEF TypeOK, ThreadsOK, Spawned
        <5> QED
          BY <2>2, <4>1, <5>1
      <4>2. CASE t # s
        <5>1. sell'[t] = sell[t]
          BY <2>1, <4>2 DEF TypeOK, ThreadsOK
        <5>2. sell[t].pos \in Buys /\ pos[sell[t].pos].status # "absent"
          BY <3>2, <5>1, SellerHasPosition DEF TrajectoryInv, SellersHaveOpened
        <5> QED
          BY <2>2, <5>1, <5>2
      <4> QED
        BY <4>1, <4>2
    <3> QED
      BY <3>1, <3>2 DEF SellersHaveOpened
  <2> QED
    BY <2>2, <2>4 DEF TrajectoryInv
<1>3. CASE CheckClosing(c) \/ CheckOpen(c) \/ CheckReadFails(c) \/ CheckStale(c) \/ CheckGauge(c)
  <2>1. UNCHANGED <<pos, sell, traj, buy>>
    BY <1>3 DEF CheckClosing, CheckOpen, CheckReadFails, CheckStale, CheckGauge,
                CheckReturns, memVars, redisVars
  <2> QED
    BY <2>1, TrajectoryFrame
<1> QED
  BY <1>1, <1>2, <1>3 DEF CheckStep

\* A seller returns or moves on, and the status of its position is never "absent" again.
LEMMA SellTrajectory ==
    ASSUME TypeOK, TrajectoryInv, NEW s \in Sells, SellStep(s)
    PROVE  TrajectoryInv'
<1> DEFINE p == sell[s].pos
<1>1. p \in Buys /\ p # None /\ sell[s] \in Sellers
  <2>1. sell[s].pc # "idle"
    BY DEF SellStep, SellClaim, SellBuildFails, SellPanics, SellBuilt, SellLanded, SellMissed,
           CloseSold, CloseUnmap, CloseUnsave, CloseBook, CloseRecord
  <2>2. sell[s] \in Sellers
    BY <2>1 DEF TypeOK, ThreadsOK, NewSell
  <2> QED
    BY <2>2, NoneAssumption DEF Sellers
<1>2. UNCHANGED <<traj, buy>>
  BY DEF SellStep, SellClaim, SellBuildFails, SellPanics, SellBuilt, SellLanded, SellMissed,
         CloseSold, CloseUnmap, CloseUnsave, CloseBook, CloseRecord, Reverts, redisVars
<1>3. \/ pos' = pos
      \/ \E status \in {"open", "selling", "sold"} :
           pos' = [pos EXCEPT ![p].status = status]
  BY DEF SellStep, SellClaim, SellBuildFails, SellPanics, SellBuilt, SellLanded, SellMissed,
         CloseSold, CloseUnmap, CloseUnsave, CloseBook, CloseRecord, Reverts, memVars
<1>4. /\ \A t \in Sells \ {s} : sell'[t] = sell[t]
      /\ sell'[s].pos \in {p, None}
  <2>1. sell \in [Sells -> Sellers \cup {NewSell}]
    BY DEF TypeOK, ThreadsOK
  <2>2. \/ \E pc \in {"build", "await", "close", "unsave", "book", "record"} :
             sell' = [sell EXCEPT ![s].pc = pc]
        \/ sell' = [sell EXCEPT ![s] = NewSell]
        \/ sell' = [sell EXCEPT ![s].pc = "unmap", ![s].delta = Delta(pos[p].quoted)]
    BY DEF SellStep, SellClaim, SellBuildFails, SellPanics, SellBuilt, SellLanded, SellMissed,
           CloseSold, CloseUnmap, CloseUnsave, CloseBook, CloseRecord, Reverts,
           SellGoes, SellReturns
  <2> QED
    BY <1>1, <2>1, <2>2 DEF NewSell, Sellers
<1>5. pos[p].status # "absent"
  BY <1>1 DEF TrajectoryInv, SellersHaveOpened
<1>6. /\ pos \in [Buys -> Positions]
      /\ \A b \in Buys \ {p} : pos'[b] = pos[b]
      /\ pos'[p].snaps = pos[p].snaps
      /\ pos'[p].status # "absent"
  <2>1. pos \in [Buys -> Positions]
    BY DEF TypeOK, MemoryOK
  <2> QED
    BY <1>1, <1>3, <1>5, <2>1 DEF Positions
<1>7. \A b \in Buys : buy[b].pc \notin Unopened =>
        \/ pos'[b].status = "absent"
        \/ pos[b].status # "absent" /\ pos'[b].snaps = pos[b].snaps
  BY <1>5, <1>6
<1>8. TrajectoryOrdered' /\ PointsAreFlagged'
  BY <1>2, <1>7, ListsFrame DEF TypeOK, TrajectoryInv
<1>9. SellersHaveOpened'
  <2>1. ASSUME NEW b \in Buys, buy'[b].pc \in Unopened PROVE pos'[b].status = "absent"
    BY <1>2, <1>5, <1>6, <2>1 DEF TrajectoryInv, SellersHaveOpened
  <2>2. ASSUME NEW t \in Sells, sell'[t].pos # None PROVE pos'[sell'[t].pos].status # "absent"
    BY <1>4, <1>6, <2>2, SellerHasPosition DEF TrajectoryInv, SellersHaveOpened
  <2> QED
    BY <2>1, <2>2 DEF SellersHaveOpened
<1> QED
  BY <1>8, <1>9 DEF TrajectoryInv

\* The kill switch dumps open positions only, and the rest of the environment opens none.
LEMMA KillTrajectory ==
    ASSUME TypeOK, TrajectoryInv, NEW h \in Kills, KillStep(h)
    PROVE  TrajectoryInv'
<1>1. ASSUME NEW m \in Mints, NEW s \in Sells, KillDump(h, m, s) PROVE TrajectoryInv'
  <2>1. /\ positions[m] # None /\ pos[positions[m]].status = "open"
        /\ sell' = [sell EXCEPT ![s] = Spawned(positions[m], "kill_switch", h)]
        /\ UNCHANGED <<pos, traj, buy>>
    BY <1>1 DEF KillDump, Dumpable, memVars, redisVars
  <2>2. \A b \in Buys : buy[b].pc \notin Unopened =>
          \/ pos'[b].status = "absent"
          \/ pos[b].status # "absent" /\ pos'[b].snaps = pos[b].snaps
    BY <2>1
  <2>3. TrajectoryOrdered' /\ PointsAreFlagged'
    BY <2>1, <2>2, ListsFrame DEF TypeOK, TrajectoryInv
  <2>4. ASSUME NEW t \in Sells, sell'[t].pos # None PROVE pos'[sell'[t].pos].status # "absent"
    <3>1. CASE t = s
      <4>1. sell'[s].pos = positions[m]
        BY <2>1 DEF TypeOK, ThreadsOK, Spawned
      <4> QED
        BY <2>1, <3>1, <4>1
    <3>2. CASE t # s
      <4>1. sell'[t] = sell[t]
        BY <2>1, <3>2 DEF TypeOK, ThreadsOK
      <4> QED
        BY <2>1, <2>4, <4>1 DEF TrajectoryInv, SellersHaveOpened
    <3> QED
      BY <3>1, <3>2
  <2>5. SellersHaveOpened'
    BY <2>1, <2>4 DEF TrajectoryInv, SellersHaveOpened
  <2> QED
    BY <2>3, <2>5 DEF TrajectoryInv
<1>2. CASE \/ KillArm(h) \/ KillArmFails(h) \/ KillSnapshot(h) \/ KillReturn(h)
            \/ \E m \in Mints : KillSkip(h, m)
  <2>1. UNCHANGED <<pos, sell, traj, buy>>
    BY <1>2 DEF KillArm, KillArmFails, KillSnapshot, KillReturn, KillSkip, memVars, redisVars
  <2> QED
    BY <2>1, TrajectoryFrame
<1> QED
  BY <1>1, <1>2 DEF KillStep

LEMMA ElapseTrajectory ==
    ASSUME TypeOK, TrajectoryInv, NEW b \in Buys, Elapse(b)
    PROVE  TrajectoryInv'
<1>1. /\ pos[b].status \in {"open", "selling"}
      /\ pos' = [pos EXCEPT ![b].age = @ + 1]
      /\ UNCHANGED <<traj, buy, sell>>
  BY DEF Elapse, redisVars, threadVars
<1>2. \A a \in Buys : pos'[a].status = pos[a].status /\ pos'[a].snaps = pos[a].snaps
  BY <1>1 DEF TypeOK, MemoryOK, Positions
<1>3. \A a \in Buys : buy[a].pc \notin Unopened =>
        \/ pos'[a].status = "absent"
        \/ pos[a].status # "absent" /\ pos'[a].snaps = pos[a].snaps
  BY <1>2
<1>4. TrajectoryOrdered' /\ PointsAreFlagged'
  BY <1>1, <1>3, ListsFrame DEF TypeOK, TrajectoryInv
<1>5. SellersHaveOpened'
  BY <1>1, <1>2, SellerHasPosition DEF TrajectoryInv, SellersHaveOpened
<1> QED
  BY <1>4, <1>5 DEF TrajectoryInv

\* After a restart there is no position and no seller, and the lists stay.
LEMMA RestartTrajectory ==
    ASSUME TypeOK, TrajectoryInv, Restart
    PROVE  TrajectoryInv'
<1>1. /\ pos' = [b \in Buys |-> Absent]
      /\ sell' = [s \in Sells |-> NewSell]
      /\ UNCHANGED traj
  BY DEF Restart, redisVars
<1>2. \A b \in Buys : pos'[b].status = "absent"
  BY <1>1 DEF Absent
<1>3. \A b \in Buys : buy'[b].pc \in Unopened => buy[b].pc \in Unopened
  <2>1. PICK waiting \in SUBSET {b \in Buys : buy[b].pc = "idle"} :
          buy' = [b \in Buys |-> IF b \in waiting THEN NewBuy ELSE [NewBuy EXCEPT !.pc = "done"]]
    BY DEF Restart
  <2> QED
    BY <2>1 DEF NewBuy, Unopened
<1>4. TrajectoryOrdered' /\ PointsAreFlagged'
  BY <1>1, <1>2, <1>3, ListsFrame DEF TypeOK, TrajectoryInv
<1>5. SellersHaveOpened'
  BY <1>1, <1>2 DEF SellersHaveOpened, NewSell
<1> QED
  BY <1>4, <1>5 DEF TrajectoryInv

LEMMA TrajectoryStep ==
    ASSUME TypeOK, TrajectoryInv, [Next]_vars
    PROVE  TrajectoryInv'
<1>1. ASSUME NEW b \in Buys, BuyStep(b) PROVE TrajectoryInv'
  BY <1>1, BuyTrajectory
<1>2. ASSUME NEW b \in Buys, Elapse(b) PROVE TrajectoryInv'
  BY <1>2, ElapseTrajectory
<1>3. ASSUME NEW c \in Checks, CheckStep(c) PROVE TrajectoryInv'
  BY <1>3, CheckTrajectory
<1>4. ASSUME NEW s \in Sells, SellStep(s) PROVE TrajectoryInv'
  BY <1>4, SellTrajectory
<1>5. ASSUME NEW h \in Kills, KillStep(h) PROVE TrajectoryInv'
  BY <1>5, KillTrajectory
<1>6. CASE \/ TickStep \/ Disarm \/ UNCHANGED vars
           \/ \E t \in Buys \cup Sells : BundleSettles(t)
  <2>1. UNCHANGED <<pos, sell, traj, buy>>
    BY <1>6 DEF TickStep, TickStart, TickSnapshot, TickSkip, TickSpawn, Disarm, vars,
                BundleSettles, memVars, redisVars, threadVars
  <2> QED
    BY <2>1, TrajectoryFrame
<1>7. CASE Restart
  BY <1>7, RestartTrajectory
<1> QED
  BY <1>1, <1>2, <1>3, <1>4, <1>5, <1>6, <1>7 DEF Next

\* However many checkPosition goroutines overlap, with the kill switch, Redis faults and
\* restarts, a position's milestones are in its trajectory list once, in ascending order
\* and with ascending ages (checkPosition, the snaps flags under pos.mu).
THEOREM TrajectoriesOrdered == Spec => []TrajectoryInv
<1>1. TypeOK /\ TrajectoryInv /\ [Next]_vars => TrajectoryInv'
  BY TrajectoryStep
<1> QED
  BY TrajectoryInit, TypeCorrect, <1>1, PTL DEF Spec

\* In particular a point that was written is not written again by a slower check.
THEOREM MilestonesOnce == Spec => []TrajectoryOrdered
<1>1. TrajectoryInv => TrajectoryOrdered
  BY DEF TrajectoryInv
<1> QED
  BY <1>1, TrajectoriesOrdered, PTL
=============================================================================
