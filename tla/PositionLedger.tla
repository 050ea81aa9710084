--------------------------- MODULE PositionLedger ---------------------------
(***************************************************************************)
(* What the executor promises about a position, without goroutines, Redis   *)
(* or the chain: it opens at most once, closes at most once, and the entry  *)
(* written when it closes carries a reason that its P&L agrees with.        *)
(***************************************************************************)
EXTENDS Sequences

CONSTANT Buys

VARIABLES
    stage,  \* where each position is in its life
    entry   \* the entries written for it

vars == <<stage, entry>>

Gone(b) == entry[b] # <<>>

\* The P&L sign each closing reason admits. A price of exactly zero is booked "nil".
Agrees(e) ==
    \/ e.trigger = "take_profit" /\ e.delta = "gain"
    \/ e.trigger = "stop_loss" /\ e.delta \in {"loss", "nil"}
    \/ e.trigger = "timeout" /\ e.delta = "flat"

Entries == [trigger : {"take_profit", "stop_loss", "timeout"},
            delta : {"gain", "flat", "loss", "nil"}]

Init ==
    /\ stage = [b \in Buys |-> "none"]
    /\ entry = [b \in Buys |-> <<>>]

Open(b) ==
    /\ stage[b] = "none"
    /\ stage' = [stage EXCEPT ![b] = "open"]
    /\ UNCHANGED entry

\* The position is sold; what it is booked at is fixed from here on.
Sell(b) ==
    /\ stage[b] = "open"
    /\ stage' = [stage EXCEPT ![b] = "sold"]
    /\ UNCHANGED entry

Book(b) ==
    /\ stage[b] = "sold" /\ ~Gone(b)
    /\ \E e \in Entries : Agrees(e) /\ entry' = [entry EXCEPT ![b] = <<e>>]
    /\ UNCHANGED stage

Next == \E b \in Buys : Open(b) \/ Sell(b) \/ Book(b)

Spec == Init /\ [][Next]_vars
=============================================================================
