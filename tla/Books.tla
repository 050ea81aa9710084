-------------------------------- MODULE Books --------------------------------
(***************************************************************************)
(* What the bot keeps of the tokens it is done with: the sum pnl:sol and the *)
(* sorted set leaderboard:trades in Redis, and the dataset file with one     *)
(* JSON object per line. closePosition enters a closed trade in all three,   *)
(* the reject closure of the analyzer a rejected token in the file. Any      *)
(* number of goroutines do so at once; the process may crash, a Redis call   *)
(* or a write may fail, and every error is dropped. GET /api/leaderboard     *)
(* reads the set with two commands.                                          *)
(***************************************************************************)
EXTENDS Integers, Sequences, FiniteSets

CONSTANTS
    Trades,         \* closed trades, each the integer of its place in the set's order
    Rejects,        \* rejected tokens
    Keep,           \* how many gainers and losers AddToLeaderboard keeps, 50
    Shown,          \* how many handleLeaderboard asks for, 5
    None,           \* nobody
    MaxFaults, MaxCrashes   \* bounds

ASSUME BooksAssumption ==
    /\ Trades \subseteq Int
    /\ Keep \in Nat \ {0} /\ Shown \in 1..Keep
    /\ None \notin Trades \cup Rejects
    /\ MaxFaults \in Nat /\ MaxCrashes \in Nat

VARIABLES
    pnl,            \* how often each trade was added to pnl:sol
    board,          \* leaderboard:trades
    file,           \* the dataset file: records, whole or cut off, and newlines
    pc,             \* the goroutine of each trade and reject
    mu,             \* the holder of Writer.mu
    answer,         \* of GET /api/leaderboard
    added,          \* history: the trades ever added to the board
    faults, crashes

vars == <<pnl, board, file, pc, mu, answer, added, faults, crashes>>

Entries == Trades \cup Rejects

Newline == [of |-> None, whole |-> TRUE]
Record(e, whole) == [of |-> e, whole |-> whole]

\* The members of a sorted set with fewer than n members above, or below, them.
Top(S, n) == {x \in S : Cardinality({y \in S : y > x}) < n}
Bottom(S, n) == {x \in S : Cardinality({y \in S : y < x}) < n}

NoAnswer == [pc |-> "idle", gainers |-> {}, losers |-> {}, known |-> 0]

Init ==
    /\ pnl = [p \in Trades |-> 0]
    /\ board = {} /\ added = {}
    /\ file = <<>>
    /\ pc = [e \in Entries |-> "idle"]
    /\ mu = None
    /\ answer = NoAnswer
    /\ faults = 0 /\ crashes = 0

Goes(e, where) == pc' = [pc EXCEPT ![e] = where]
Correctly == UNCHANGED faults
Faultily == faults < MaxFaults /\ faults' = faults + 1

-----------------------------------------------------------------------------
(* closePosition and the reject closure *)

Begin(e) ==
    /\ pc[e] = "idle"
    /\ Goes(e, IF e \in Trades THEN "pnl" ELSE "lock")
    /\ UNCHANGED <<pnl, board, file, mu, answer, added, faults, crashes>>

\* Fault: an error ends the bookings of Redis.
CountPnLOrSkip(p) ==
    /\ pc[p] = "pnl"
    /\ \/ Correctly /\ pnl' = [pnl EXCEPT ![p] = @ + 1] /\ Goes(p, "add")
       \/ Faultily /\ UNCHANGED pnl /\ Goes(p, "lock")
    /\ UNCHANGED <<board, file, mu, answer, added, crashes>>

\* IncrPnL. A failed call did not reach Redis, or its answer was lost and the client
\* sent it again.
CountPnL(p) ==
    /\ pc[p] = "pnl"
    /\ \/ Correctly /\ pnl' = [pnl EXCEPT ![p] = @ + 1]
       \/ Faultily /\ \E n \in {0, 2} : pnl' = [pnl EXCEPT ![p] = @ + n]
    /\ Goes(p, "add")
    /\ UNCHANGED <<board, file, mu, answer, added, crashes>>

\* AddToLeaderboard, the first command of its pipeline. Other connections get between
\* the two.
AddToBoard(p) ==
    /\ pc[p] = "add"
    /\ \/ /\ Correctly
          /\ board' = board \cup {p} /\ added' = added \cup {p}
          /\ Goes(p, "trim")
       \/ /\ Faultily
          /\ UNCHANGED <<board, added>>
          /\ Goes(p, "lock")
    /\ UNCHANGED <<pnl, file, mu, answer, crashes>>

\* Fault: the range ends one rank too high.
MiddleTooFar == board \ (Bottom(board, Keep) \cup Top(board, Keep - 1))

\* The ranks Keep to -(Keep + 1).
Middle == board \ (Bottom(board, Keep) \cup Top(board, Keep))

\* The second command.
TrimBoard(p) ==
    /\ pc[p] = "trim"
    /\ \/ Correctly /\ board' = board \ Middle
       \/ Faultily /\ UNCHANGED board
    /\ Goes(p, "lock")
    /\ UNCHANGED <<pnl, file, mu, answer, added, crashes>>

\* Fault: Write does not take the mutex.
MayWriteAnyway == TRUE

MayWrite == mu = None

Lock(e) ==
    /\ pc[e] = "lock"
    /\ MayWrite
    /\ mu' = e
    /\ Goes(e, "data")
    /\ UNCHANGED <<pnl, board, file, answer, added, faults, crashes>>

\* The record. A full disk takes a part of it or nothing.
WriteData(e) ==
    /\ pc[e] = "data"
    /\ \/ Correctly /\ file' = Append(file, Record(e, TRUE))
       \/ Faultily /\ file' \in {file, Append(file, Record(e, FALSE))}
    /\ Goes(e, "newline")
    /\ UNCHANGED <<pnl, board, mu, answer, added, crashes>>

\* The newline, and the mutex is released.
WriteNewline(e) ==
    /\ pc[e] = "newline"
    /\ \/ Correctly /\ file' = Append(file, Newline)
       \/ Faultily /\ UNCHANGED file
    /\ mu' = None
    /\ Goes(e, "done")
    /\ UNCHANGED <<pnl, board, answer, added, crashes>>

-----------------------------------------------------------------------------
(* Readers *)

\* Leaderboard: ZREVRANGE, then ZRANGE.
ReadGainers ==
    /\ answer.pc = "idle"
    /\ answer' = [pc |-> "half", gainers |-> Top(board, Shown), losers |-> {},
                  known |-> Cardinality(added)]
    /\ UNCHANGED <<pnl, board, file, pc, mu, added, faults, crashes>>

ReadLosers ==
    /\ answer.pc = "half"
    /\ answer' = [answer EXCEPT !.pc = "whole", !.losers = Bottom(board, Shown)]
    /\ UNCHANGED <<pnl, board, file, pc, mu, added, faults, crashes>>

\* The response is out. The next request starts afresh.
Respond ==
    /\ answer.pc = "whole"
    /\ answer' = NoAnswer
    /\ UNCHANGED <<pnl, board, file, pc, mu, added, faults, crashes>>

\* The process dies, with a record written in part if it was writing one. The next one
\* opens the same file for appending and knows nothing of what was under way.
Crash ==
    /\ crashes < MaxCrashes
    /\ crashes' = crashes + 1
    /\ file' \in {file} \cup {Append(file, Record(e, FALSE)) : e \in {f \in Entries : pc[f] = "data"}}
    /\ pc' = [e \in Entries |-> IF pc[e] \in {"idle", "done"} THEN pc[e] ELSE "lost"]
    /\ mu' = None
    /\ answer' = NoAnswer
    /\ UNCHANGED <<pnl, board, added, faults>>

Step(e) ==
    \/ Begin(e) \/ CountPnL(e) \/ AddToBoard(e) \/ TrimBoard(e)
    \/ Lock(e) \/ WriteData(e) \/ WriteNewline(e)

Next ==
    \/ \E e \in Entries : Step(e)
    \/ ReadGainers \/ ReadLosers \/ Respond
    \/ Crash

Spec == Init /\ [][Next]_vars

-----------------------------------------------------------------------------
(* Properties *)

Logs == Seq([of : Entries \cup {None}, whole : BOOLEAN])
Running == {"pnl", "add", "trim", "lock", "data", "newline"}

\* Every variable has its type, and one goroutine at a time is between the two writes.
TypeOK ==
    /\ pnl \in [Trades -> 0..2]
    /\ board \subseteq added /\ added \subseteq Trades
    /\ file \in Logs
    /\ pc \in [Entries -> Running \cup {"idle", "done", "lost"}]
    /\ {e \in Entries : pc[e] \in {"data", "newline"}} = {mu} \ {None}
    /\ answer \in [pc : {"idle", "half", "whole"}, gainers : SUBSET Trades,
                   losers : SUBSET Trades, known : Nat]
    /\ faults \in 0..MaxFaults /\ crashes \in 0..MaxCrashes

\* "Keeps top 50 gainers and bottom 50 losers": of all trades ever added, whatever was
\* added between the add and the trim of another, and whichever trim was lost.
EndsKept ==
    Top(board, Keep) = Top(added, Keep) /\ Bottom(board, Keep) = Bottom(added, Keep)

\* No trade is shown as a gainer and as a loser, although the two lists are of
\* different moments, unless too few trades were known to fill both.
NoTradeAtBothEnds ==
    answer.pc = "whole" /\ answer.gainers \cap answer.losers # {} => answer.known < 2 * Shown

\* A record that has its line of the file to itself, and is whole.
SameLine(i, j) == \A k \in (i..j) \cup (j..i) : file[k] # Newline
Clean(i) == file[i].whole /\ \A j \in (DOMAIN file) \ {i} : ~SameLine(i, j)
Damaged == {i \in DOMAIN file : file[i] # Newline /\ ~Clean(i)}

\* A failed write or a crash between the two writes of a line damages two records at
\* most, the one it cuts off and the one that then follows on the same line, however
\* many goroutines write (Writer.Write, and New opening the file for appending).
DamageBounded == Cardinality(Damaged) <= 2 * (faults + crashes)

\* An error that is dropped costs one entry in one of the two books of Redis, never
\* more: the bookings of a close do not depend on one another.
BooksAgree ==
    LET Done == {p \in Trades : pc[p] = "done"} IN
    Cardinality({p \in Done : pnl[p] # 1}) + Cardinality(Done \ added) <= faults
=============================================================================
