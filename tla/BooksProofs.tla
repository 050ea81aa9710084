----------------------------- MODULE BooksProofs -----------------------------
(***************************************************************************)
(* Proofs about Books, for any trades, sizes of the leaderboard, faults    *)
(* and crashes: its types, the ends of the leaderboard, the two books of   *)
(* Redis, and what a fault does to the dataset file.                       *)
(***************************************************************************)
EXTENDS Books, FiniteSetTheorems, TLAPS

(* Types *)

\* A trade is counted once its goroutine leaves "pnl", and only trades get there.
TypeInv ==
    /\ TypeOK
    /\ \A p \in Trades : pc[p] \in {"idle", "pnl"} => pnl[p] = 0
    /\ \A e \in Entries : pc[e] \in {"pnl", "add", "trim"} => e \in Trades
    /\ IsFiniteSet(added)

LEMMA NobodyIsNone == None \notin Entries
BY BooksAssumption DEF Entries

Lines == [of : Entries \cup {None}, whole : BOOLEAN]

LEMMA LogGrows ==
    ASSUME file \in Logs, NEW x \in Lines
    PROVE  Append(file, x) \in Logs
<1>1. ASSUME NEW S, NEW s \in Seq(S), NEW y \in S PROVE Append(s, y) \in Seq(S)
  OBVIOUS
<1> QED
  BY <1>1 DEF Logs, Lines

LEMMA LineTypes ==
    /\ Newline \in Lines
    /\ \A e \in Entries : Record(e, TRUE) \in Lines /\ Record(e, FALSE) \in Lines
BY DEF Newline, Record, Lines

LEMMA FaultsType ==
    ASSUME TypeInv, Correctly \/ Faultily
    PROVE  faults' \in 0..MaxFaults
BY BooksAssumption DEF TypeInv, TypeOK, Correctly, Faultily

LEMMA TypeInit == Init => TypeInv
<1> SUFFICES ASSUME Init PROVE TypeInv
  OBVIOUS
<1>1. answer \in [pc : {"idle", "half", "whole"}, gainers : SUBSET Trades,
                  losers : SUBSET Trades, known : Nat]
  BY DEF Init, NoAnswer
<1>2. pnl \in [Trades -> 0..2] /\ \A p \in Trades : pnl[p] = 0
  BY DEF Init
<1>3. {e \in Entries : pc[e] \in {"data", "newline"}} = {mu} \ {None}
  BY DEF Init
<1>4. file \in Logs
  BY DEF Init, Logs
<1> QED
  BY <1>1, <1>2, <1>3, <1>4, FS_EmptySet, BooksAssumption
     DEF Init, TypeInv, TypeOK, Entries

\* A goroutine that neither enters nor leaves the critical section.
LEMMA OutsideKeepsTypes ==
    ASSUME TypeInv, NEW e \in Entries,
           NEW from \in {"idle", "pnl", "add", "trim"},
           NEW to \in {"pnl", "add", "trim", "lock"},
           pc[e] = from, Goes(e, to),
           to \in {"pnl", "add", "trim"} => e \in Trades,
           pnl' \in [Trades -> 0..2],
           \A p \in Trades : pc'[p] \in {"idle", "pnl"} => pnl'[p] = 0,
           board' \subseteq added', added' \subseteq Trades, IsFiniteSet(added'),
           faults' \in 0..MaxFaults,
           UNCHANGED <<file, mu, answer, crashes>>
    PROVE  TypeInv'
<1>1. pc' \in [Entries -> Running \cup {"idle", "done", "lost"}]
  BY DEF TypeInv, TypeOK, Goes, Running
<1>2. \A f \in Entries : pc'[f] = IF f = e THEN to ELSE pc[f]
  BY DEF TypeInv, TypeOK, Goes
<1>3. {f \in Entries : pc'[f] \in {"data", "newline"}} = {mu'} \ {None}
  BY <1>2 DEF TypeInv, TypeOK
<1>4. \A f \in Entries : pc'[f] \in {"pnl", "add", "trim"} => f \in Trades
  BY <1>2 DEF TypeInv
<1> QED
  BY <1>1, <1>3, <1>4 DEF TypeInv, TypeOK

LEMMA BookingKeepsTypes ==
    ASSUME TypeInv, NEW e \in Entries,
           Begin(e) \/ CountPnL(e) \/ AddToBoard(e) \/ TrimBoard(e)
    PROVE  TypeInv'
<1>1. \A f \in Entries : \A to : Goes(f, to) =>
        \A g \in Entries : pc'[g] = IF g = f THEN to ELSE pc[g]
  BY DEF TypeInv, TypeOK, Goes
<1>2. Faultily \/ Correctly => faults' \in 0..MaxFaults
  BY FaultsType
<1>3. CASE Begin(e)
  <2> DEFINE to == IF e \in Trades THEN "pnl" ELSE "lock"
  <2>1. /\ pc[e] = "idle" /\ Goes(e, to)
        /\ UNCHANGED <<pnl, board, file, mu, answer, added, faults, crashes>>
    BY <1>3 DEF Begin
  <2>2. \A p \in Trades : pc'[p] \in {"idle", "pnl"} => pnl'[p] = 0
    BY <1>1, <2>1 DEF TypeInv, Entries
  <2> QED
    BY <2>1, <2>2, OutsideKeepsTypes DEF TypeInv, TypeOK
<1>4. CASE CountPnL(e)
  <2>1. /\ pc[e] = "pnl" /\ Goes(e, "add") /\ faults' \in 0..MaxFaults
        /\ \E n \in 0..2 : pnl' = [pnl EXCEPT ![e] = @ + n]
        /\ UNCHANGED <<board, file, mu, answer, added, crashes>>
    BY <1>2, <1>4 DEF CountPnL
  <2>2. e \in Trades /\ pnl[e] = 0
    BY <2>1 DEF TypeInv
  <2>3. pnl' \in [Trades -> 0..2]
    BY <2>1, <2>2 DEF TypeInv, TypeOK
  <2>4. \A p \in Trades : pc'[p] \in {"idle", "pnl"} => pnl'[p] = 0
    BY <1>1, <2>1, <2>2 DEF TypeInv, TypeOK, Entries
  <2> QED
    BY <2>1, <2>2, <2>3, <2>4, OutsideKeepsTypes DEF TypeInv, TypeOK
<1>5. CASE AddToBoard(e)
  <2>1. /\ pc[e] = "add" /\ faults' \in 0..MaxFaults
        /\ UNCHANGED <<pnl, file, mu, answer, crashes>>
        /\ \/ board' = board \cup {e} /\ added' = added \cup {e} /\ Goes(e, "trim")
           \/ UNCHANGED <<board, added>> /\ Goes(e, "lock")
    BY <1>2, <1>5 DEF AddToBoard
  <2>2. e \in Trades
    BY <2>1 DEF TypeInv
  <2>3. board' \subseteq added' /\ added' \subseteq Trades /\ IsFiniteSet(added')
    BY <2>1, <2>2, FS_AddElement DEF TypeInv, TypeOK
  <2>4. \A p \in Trades : pc'[p] \in {"idle", "pnl"} => pnl'[p] = 0
    BY <1>1, <2>1 DEF TypeInv, Entries
  <2>5. pnl' \in [Trades -> 0..2]
    BY <2>1 DEF TypeInv, TypeOK
  <2>6. CASE Goes(e, "trim")
    BY <2>1, <2>2, <2>3, <2>4, <2>5, <2>6, OutsideKeepsTypes
  <2>7. CASE Goes(e, "lock")
    BY <2>1, <2>2, <2>3, <2>4, <2>5, <2>7, OutsideKeepsTypes
  <2> QED
    BY <2>1, <2>6, <2>7
<1>6. CASE TrimBoard(e)
  <2>1. /\ pc[e] = "trim" /\ Goes(e, "lock") /\ faults' \in 0..MaxFaults
        /\ board' \subseteq board
        /\ UNCHANGED <<pnl, file, mu, answer, added, crashes>>
    BY <1>2, <1>6 DEF TrimBoard
  <2>2. \A p \in Trades : pc'[p] \in {"idle", "pnl"} => pnl'[p] = 0
    BY <1>1, <2>1 DEF TypeInv, Entries
  <2> QED
    BY <2>1, <2>2, OutsideKeepsTypes DEF TypeInv, TypeOK
<1> QED
  BY <1>3, <1>4, <1>5, <1>6

\* The three steps under the mutex.
LEMMA WritingKeepsTypes ==
    ASSUME TypeInv, NEW e \in Entries, Lock(e) \/ WriteData(e) \/ WriteNewline(e)
    PROVE  TypeInv'
<1>1. PICK to \in {"data", "newline", "done"} :
        /\ pc[e] = (CASE to = "data" -> "lock" [] to = "newline" -> "data"
                      [] to = "done" -> "newline")
        /\ mu' = (CASE to = "data" -> e [] to = "newline" -> mu [] to = "done" -> None)
        /\ to = "data" => mu = None
        /\ Goes(e, to)
  BY DEF Lock, MayWrite, WriteData, WriteNewline
<1>2. UNCHANGED <<pnl, board, answer, added, crashes>>
  BY DEF Lock, WriteData, WriteNewline
<1>3. file' \in Logs
  <2>1. \/ file' = file \/ file' = Append(file, Newline)
        \/ file' = Append(file, Record(e, TRUE)) \/ file' = Append(file, Record(e, FALSE))
    BY DEF Lock, WriteData, WriteNewline
  <2>2. file \in Logs
    BY DEF TypeInv, TypeOK
  <2> QED
    BY <2>1, <2>2, LineTypes, LogGrows
<1>4. faults' \in 0..MaxFaults
  <2>1. Correctly \/ Faultily
    BY DEF Lock, WriteData, WriteNewline, Correctly
  <2> QED
    BY <2>1, FaultsType
<1>5. \A f \in Entries : pc'[f] = IF f = e THEN to ELSE pc[f]
  BY <1>1 DEF TypeInv, TypeOK, Goes
<1>6. pc' \in [Entries -> Running \cup {"idle", "done", "lost"}]
  BY <1>1 DEF TypeInv, TypeOK, Goes, Running
<1>7. {f \in Entries : pc[f] \in {"data", "newline"}} = {mu} \ {None}
  BY DEF TypeInv, TypeOK
<1>8. {f \in Entries : pc'[f] \in {"data", "newline"}} = {mu'} \ {None}
  <2>1. CASE to = "data"
    <3>1. mu = None /\ mu' = e
      BY <1>1, <2>1
    <3> QED
      BY <1>5, <1>7, <2>1, <3>1, NobodyIsNone
  <2>2. CASE to = "newline"
    <3>1. pc[e] = "data" /\ mu' = mu
      BY <1>1, <2>2
    <3> QED
      BY <1>5, <1>7, <2>2, <3>1
  <2>3. CASE to = "done"
    <3>1. pc[e] = "newline" /\ mu' = None
      BY <1>1, <2>3
    <3> QED
      BY <1>5, <1>7, <2>3, <3>1
  <2> QED
    BY <2>1, <2>2, <2>3
<1>9. /\ \A p \in Trades : pc'[p] \in {"idle", "pnl"} => pnl'[p] = 0
      /\ \A f \in Entries : pc'[f] \in {"pnl", "add", "trim"} => f \in Trades
  BY <1>2, <1>5 DEF TypeInv, Entries
<1> QED
  BY <1>2, <1>3, <1>4, <1>6, <1>8, <1>9 DEF TypeInv, TypeOK

LEMMA ReadingKeepsTypes ==
    ASSUME TypeInv, ReadGainers \/ ReadLosers \/ Respond
    PROVE  TypeInv'
<1>1. UNCHANGED <<pnl, board, file, pc, mu, added, faults, crashes>>
  BY DEF ReadGainers, ReadLosers, Respond
<1>2. Cardinality(added) \in Nat
  BY FS_CardinalityType DEF TypeInv
<1>3. Top(board, Shown) \subseteq Trades /\ Bottom(board, Shown) \subseteq Trades
  BY DEF Top, Bottom, TypeInv, TypeOK
<1>4. answer' \in [pc : {"idle", "half", "whole"}, gainers : SUBSET Trades,
                   losers : SUBSET Trades, known : Nat]
  <2>1. CASE ReadGainers
    BY <1>2, <1>3, <2>1 DEF ReadGainers
  <2>2. CASE ReadLosers
    BY <1>3, <2>2 DEF ReadLosers, TypeInv, TypeOK
  <2>3. CASE Respond
    BY <2>3 DEF Respond, NoAnswer
  <2> QED
    BY <2>1, <2>2, <2>3
<1> QED
  BY <1>1, <1>4 DEF TypeInv, TypeOK

LEMMA CrashKeepsTypes ==
    ASSUME TypeInv, Crash
    PROVE  TypeInv'
<1>1. UNCHANGED <<pnl, board, added, faults>> /\ mu' = None /\ answer' = NoAnswer
  BY DEF Crash
<1>2. \A e \in Entries : pc'[e] \in {"idle", "done", "lost"}
                         /\ (pc'[e] = "idle" => pc[e] = "idle")
  BY DEF Crash
<1>3. pc' \in [Entries -> Running \cup {"idle", "done", "lost"}]
  BY DEF Crash, TypeInv, TypeOK
<1>4. {e \in Entries : pc'[e] \in {"data", "newline"}} = {mu'} \ {None}
  BY <1>1, <1>2
<1>5. file' \in Logs
  <2>1. file' = file \/ \E e \in Entries : file' = Append(file, Record(e, FALSE))
    BY DEF Crash
  <2>2. file \in Logs
    BY DEF TypeInv, TypeOK
  <2> QED
    BY <2>1, <2>2, LineTypes, LogGrows
<1>6. answer' \in [pc : {"idle", "half", "whole"}, gainers : SUBSET Trades,
                   losers : SUBSET Trades, known : Nat]
  BY <1>1 DEF NoAnswer
<1>7. crashes' \in 0..MaxCrashes
  BY BooksAssumption DEF Crash, TypeInv, TypeOK
<1>8. \A p \in Trades : pc'[p] \in {"idle", "pnl"} => pnl'[p] = 0
  BY <1>1, <1>2 DEF TypeInv, Entries
<1>9. \A e \in Entries : pc'[e] \in {"pnl", "add", "trim"} => e \in Trades
  BY <1>2
<1> QED
  BY <1>1, <1>3, <1>4, <1>5, <1>6, <1>7, <1>8, <1>9 DEF TypeInv, TypeOK

LEMMA TypeStep == TypeInv /\ [Next]_vars => TypeInv'
<1> SUFFICES ASSUME TypeInv, [Next]_vars PROVE TypeInv'
  OBVIOUS
<1>1. CASE UNCHANGED vars
  BY <1>1 DEF vars, TypeInv, TypeOK
<1>2. ASSUME NEW e \in Entries, Step(e) PROVE TypeInv'
  BY <1>2, BookingKeepsTypes, WritingKeepsTypes DEF Step
<1>3. CASE ReadGainers \/ ReadLosers \/ Respond
  BY <1>3, ReadingKeepsTypes
<1>4. CASE Crash
  BY <1>4, CrashKeepsTypes
<1> QED
  BY <1>1, <1>2, <1>3, <1>4 DEF Next

LEMMA TypesHold == Spec => []TypeInv
BY TypeInit, TypeStep, PTL DEF Spec

\* Every variable keeps its type and Writer.mu lets one goroutine at a time write.
THEOREM BooksTypes == Spec => []TypeOK
<1>1. TypeInv => TypeOK
  BY DEF TypeInv
<1> QED
  BY <1>1, TypesHold, PTL

-----------------------------------------------------------------------------
(* The leaderboard *)

\* A well-founded order has minima: the elements above the last one, the set that
\* includes no other of its kind, are none.
LEMMA FiniteSetHasEnds ==
    ASSUME NEW S, IsFiniteSet(S), S \subseteq Int, S # {}
    PROVE  /\ \E m \in S : \A y \in S : y <= m
           /\ \E m \in S : \A y \in S : y >= m
<1> DEFINE R == StrictSubsetOrdering(S)
           Above(x) == {y \in S : y > x}
           Below(x) == {y \in S : y < x}
<1>1. IsWellFoundedOn(R, SUBSET S)
  BY FS_StrictSubsetOrderingWellFounded, FS_FiniteSubsetsOfFinite
<1>2. ASSUME NEW T \in SUBSET (SUBSET S), T # {}
      PROVE  \E U \in T : \A V \in T : ~(V \subseteq U /\ V # U)
  <2>1. \E U \in T : \A V \in T : <<V, U>> \notin R
    <3> HIDE DEF R
    <3> QED
      BY <1>1, <1>2, WFMin
  <2> QED
    BY <1>2, <2>1 DEF StrictSubsetOrdering
<1>3. \E m \in S : \A y \in S : y <= m
  <2> DEFINE T == {Above(x) : x \in S}
  <2>1. T \in SUBSET (SUBSET S) /\ T # {}
    OBVIOUS
  <2>2. PICK U \in T : \A V \in T : ~(V \subseteq U /\ V # U)
    <3> HIDE DEF T
    <3> QED BY <1>2, <2>1
  <2>3. PICK m \in S : U = Above(m)
    BY <2>2
  <2>4. ASSUME NEW y \in S, y > m PROVE FALSE
    <3>1. m \in Int /\ y \in Int /\ \A z \in S : z \in Int
      BY <2>3, <2>4
    <3>2. \A z \in S : z > y => z > m
      BY <2>4, <3>1
    <3>3. Above(y) \subseteq U /\ y \in U /\ y \notin Above(y)
      <4>1. \A z : z \in Above(y) <=> z \in S /\ z > y
        OBVIOUS
      <4>2. \A z : z \in U <=> z \in S /\ z > m
        BY <2>3
      <4>3. ~(y > y)
        BY <3>1
      <4> HIDE DEF Above
      <4> QED
        BY <2>4, <3>2, <4>1, <4>2, <4>3
    <3>4. Above(y) \in T
      OBVIOUS
    <3> HIDE DEF T, Above
    <3> QED
      BY <2>2, <3>3, <3>4
  <2> QED
    BY <2>4
<1>4. \E m \in S : \A y \in S : y >= m
  <2> DEFINE T == {Below(x) : x \in S}
  <2>1. T \in SUBSET (SUBSET S) /\ T # {}
    OBVIOUS
  <2>2. PICK U \in T : \A V \in T : ~(V \subseteq U /\ V # U)
    <3> HIDE DEF T
    <3> QED BY <1>2, <2>1
  <2>3. PICK m \in S : U = Below(m)
    BY <2>2
  <2>4. ASSUME NEW y \in S, y < m PROVE FALSE
    <3>1. m \in Int /\ y \in Int /\ \A z \in S : z \in Int
      BY <2>3, <2>4
    <3>2. \A z \in S : z < y => z < m
      BY <2>4, <3>1
    <3>3. Below(y) \subseteq U /\ y \in U /\ y \notin Below(y)
      <4>1. \A z : z \in Below(y) <=> z \in S /\ z < y
        OBVIOUS
      <4>2. \A z : z \in U <=> z \in S /\ z < m
        BY <2>3
      <4>3. ~(y < y)
        BY <3>1
      <4> HIDE DEF Below
      <4> QED
        BY <2>4, <3>2, <4>1, <4>2, <4>3
    <3>4. Below(y) \in T
      OBVIOUS
    <3> HIDE DEF T, Below
    <3> QED
      BY <2>2, <3>3, <3>4
  <2> QED
    BY <2>4
<1> QED
  BY <1>3, <1>4

\* A smaller bound, or a larger set, leaves fewer at the ends.
LEMMA EndsShrink ==
    ASSUME NEW S, IsFiniteSet(S), NEW T \in SUBSET S,
           NEW k \in Nat, NEW n \in Nat, k <= n
    PROVE  /\ Top(S, k) \subseteq Top(S, n) /\ Bottom(S, k) \subseteq Bottom(S, n)
           /\ Top(S, n) \cap T \subseteq Top(T, n)
           /\ Bottom(S, n) \cap T \subseteq Bottom(T, n)
<1>1. ASSUME NEW x, NEW U \in SUBSET S, IsFiniteSet(U)
      PROVE  /\ Cardinality({y \in U : y > x}) \in Nat
             /\ Cardinality({y \in U : y < x}) \in Nat
  <2>1. IsFiniteSet({y \in U : y > x}) /\ IsFiniteSet({y \in U : y < x})
    BY <1>1, FS_Subset
  <2> QED
    BY <2>1, FS_CardinalityType
<1>2. ASSUME NEW x
      PROVE  /\ Cardinality({y \in T : y > x}) <= Cardinality({y \in S : y > x})
             /\ Cardinality({y \in T : y < x}) <= Cardinality({y \in S : y < x})
  <2>1. IsFiniteSet({y \in S : y > x}) /\ IsFiniteSet({y \in S : y < x})
    BY FS_Subset
  <2>2. /\ {y \in T : y > x} \in SUBSET {y \in S : y > x}
        /\ {y \in T : y < x} \in SUBSET {y \in S : y < x}
    OBVIOUS
  <2> QED
    BY <2>1, <2>2, FS_Subset
<1>3. IsFiniteSet(T)
  BY FS_Subset
<1>4. ASSUME NEW x \in S
      PROVE  /\ x \in Top(S, k) => x \in Top(S, n)
             /\ x \in Bottom(S, k) => x \in Bottom(S, n)
  <2>1. /\ Cardinality({y \in S : y > x}) \in Nat
        /\ Cardinality({y \in S : y < x}) \in Nat
    BY <1>1
  <2> QED
    BY <2>1 DEF Top, Bottom
<1>5. ASSUME NEW x \in T
      PROVE  /\ x \in Top(S, n) => x \in Top(T, n)
             /\ x \in Bottom(S, n) => x \in Bottom(T, n)
  <2>1. /\ Cardinality({y \in S : y > x}) \in Nat
        /\ Cardinality({y \in S : y < x}) \in Nat
        /\ Cardinality({y \in T : y > x}) \in Nat
        /\ Cardinality({y \in T : y < x}) \in Nat
    BY <1>1, <1>3
  <2>2. /\ Cardinality({y \in T : y > x}) <= Cardinality({y \in S : y > x})
        /\ Cardinality({y \in T : y < x}) <= Cardinality({y \in S : y < x})
    BY <1>2
  <2>3. x \in Top(S, n) => Cardinality({y \in S : y > x}) < n
    BY DEF Top
  <2>4. x \in Bottom(S, n) => Cardinality({y \in S : y < x}) < n
    BY DEF Bottom
  <2>5. Cardinality({y \in T : y > x}) < n => x \in Top(T, n)
    BY DEF Top
  <2>6. Cardinality({y \in T : y < x}) < n => x \in Bottom(T, n)
    BY DEF Bottom
  <2>7. x \in Top(S, n) => x \in Top(T, n)
    BY <2>1, <2>2, <2>3, <2>5
  <2>8. x \in Bottom(S, n) => x \in Bottom(T, n)
    BY <2>1, <2>2, <2>4, <2>6
  <2> QED
    BY <2>7, <2>8
<1> QED
  BY <1>4, <1>5 DEF Top, Bottom

\* A board that holds the n greatest of all that was added ranks its n greatest as
\* they rank among all: of the trades above one of them that the board does not hold,
\* the greatest has only board members above it, fewer than n, and would be held.
LEMMA TopKept ==
    ASSUME NEW A, IsFiniteSet(A), A \subseteq Int, NEW B \in SUBSET A, NEW n \in Nat,
           Top(A, n) \subseteq B
    PROVE  Top(B, n) = Top(A, n)
<1>1. ASSUME NEW x \in B, Cardinality({y \in B : y > x}) < n
      PROVE  x \in Top(A, n)
  <2> DEFINE D == {y \in A : y > x} \ B
  <2>1. CASE D = {}
    <3>1. {y \in A : y > x} = {y \in B : y > x}
      BY <2>1
    <3> QED
      BY <1>1, <3>1 DEF Top
  <2>2. CASE D # {}
    <3>1. IsFiniteSet(D) /\ D \subseteq Int
      BY FS_Subset
    <3>2. PICK m \in D : \A y \in D : y <= m
      <4> HIDE DEF D
      <4> QED BY <2>2, <3>1, FiniteSetHasEnds
    <3>3. {y \in A : y > m} \in SUBSET {y \in B : y > x}
      <4>1. m \in Int /\ x \in Int /\ m > x
        BY <3>1, <3>2
      <4>2. ASSUME NEW y \in A, y > m PROVE y \in B /\ y > x
        <5>1. y \in Int
          OBVIOUS
        <5>2. y > x
          BY <4>1, <4>2, <5>1
        <5>3. y \notin D
          BY <3>2, <4>1, <4>2, <5>1
        <5> QED
          BY <5>2, <5>3
      <4> QED
        BY <4>2
    <3>4. IsFiniteSet({y \in B : y > x})
      BY FS_Subset
    <3>5. /\ Cardinality({y \in A : y > m}) <= Cardinality({y \in B : y > x})
          /\ Cardinality({y \in A : y > m}) \in Nat
          /\ Cardinality({y \in B : y > x}) \in Nat
      BY <3>3, <3>4, FS_Subset, FS_CardinalityType
    <3>6. m \in Top(A, n)
      BY <1>1, <3>2, <3>5 DEF Top
    <3> QED
      BY <3>6
  <2> QED
    BY <2>1, <2>2
<1>2. Top(B, n) \subseteq Top(A, n)
  BY <1>1 DEF Top
<1>3. Top(A, n) \cap B \subseteq Top(B, n)
  <2>1. n <= n
    OBVIOUS
  <2> QED
    BY <2>1, EndsShrink
<1> QED
  BY <1>2, <1>3

LEMMA BottomKept ==
    ASSUME NEW A, IsFiniteSet(A), A \subseteq Int, NEW B \in SUBSET A, NEW n \in Nat,
           Bottom(A, n) \subseteq B
    PROVE  Bottom(B, n) = Bottom(A, n)
<1>1. ASSUME NEW x \in B, Cardinality({y \in B : y < x}) < n
      PROVE  x \in Bottom(A, n)
  <2> DEFINE D == {y \in A : y < x} \ B
  <2>1. CASE D = {}
    <3>1. {y \in A : y < x} = {y \in B : y < x}
      BY <2>1
    <3> QED
      BY <1>1, <3>1 DEF Bottom
  <2>2. CASE D # {}
    <3>1. IsFiniteSet(D) /\ D \subseteq Int
      BY FS_Subset
    <3>2. PICK m \in D : \A y \in D : y >= m
      <4> HIDE DEF D
      <4> QED BY <2>2, <3>1, FiniteSetHasEnds
    <3>3. {y \in A : y < m} \in SUBSET {y \in B : y < x}
      <4>1. m \in Int /\ x \in Int /\ m < x
        BY <3>1, <3>2
      <4>2. ASSUME NEW y \in A, y < m PROVE y \in B /\ y < x
        <5>1. y \in Int
          OBVIOUS
        <5>2. y < x
          BY <4>1, <4>2, <5>1
        <5>3. y \notin D
          BY <3>2, <4>1, <4>2, <5>1
        <5> QED
          BY <5>2, <5>3
      <4> QED
        BY <4>2
    <3>4. IsFiniteSet({y \in B : y < x})
      BY FS_Subset
    <3>5. /\ Cardinality({y \in A : y < m}) <= Cardinality({y \in B : y < x})
          /\ Cardinality({y \in A : y < m}) \in Nat
          /\ Cardinality({y \in B : y < x}) \in Nat
      BY <3>3, <3>4, FS_Subset, FS_CardinalityType
    <3>6. m \in Bottom(A, n)
      BY <1>1, <3>2, <3>5 DEF Bottom
    <3> QED
      BY <3>6
  <2> QED
    BY <2>1, <2>2
<1>2. Bottom(B, n) \subseteq Bottom(A, n)
  BY <1>1 DEF Bottom
<1>3. Bottom(A, n) \cap B \subseteq Bottom(B, n)
  <2>1. n <= n
    OBVIOUS
  <2> QED
    BY <2>1, EndsShrink
<1> QED
  BY <1>2, <1>3

\* The board holds both ends of what was ever added.
EndsInv == Top(added, Keep) \subseteq board /\ Bottom(added, Keep) \subseteq board

LEMMA AddKeepsEnds ==
    ASSUME TypeInv, EndsInv, NEW p \in Trades,
           board' = board \cup {p}, added' = added \cup {p}
    PROVE  EndsInv'
<1>1. IsFiniteSet(added')
  BY FS_AddElement DEF TypeInv
<1>2. added \in SUBSET added' /\ Keep \in Nat /\ Keep <= Keep
  BY BooksAssumption
<1>3. /\ Top(added', Keep) \cap added \subseteq Top(added, Keep)
      /\ Bottom(added', Keep) \cap added \subseteq Bottom(added, Keep)
  BY <1>1, <1>2, EndsShrink
<1>4. Top(added', Keep) \subseteq added' /\ Bottom(added', Keep) \subseteq added'
  BY DEF Top, Bottom
<1> QED
  BY <1>3, <1>4 DEF EndsInv

LEMMA RanksAgree ==
    ASSUME TypeInv, EndsInv, NEW n \in 1..Keep
    PROVE  Top(board, n) = Top(added, n) /\ Bottom(board, n) = Bottom(added, n)
<1>1. /\ IsFiniteSet(added) /\ added \subseteq Int /\ board \in SUBSET added
      /\ n \in Nat /\ Keep \in Nat /\ n <= Keep
  BY BooksAssumption DEF TypeInv, TypeOK
<1>2. Top(added, n) \subseteq board /\ Bottom(added, n) \subseteq board
  BY <1>1, EndsShrink DEF EndsInv
<1> QED
  BY <1>1, <1>2, TopKept, BottomKept

LEMMA TrimKeepsEnds ==
    ASSUME TypeInv, EndsInv, board' = board \ Middle, UNCHANGED added
    PROVE  EndsInv'
<1>1. Keep \in 1..Keep
  BY BooksAssumption
<1>2. Top(board, Keep) = Top(added, Keep) /\ Bottom(board, Keep) = Bottom(added, Keep)
  BY <1>1, RanksAgree
<1> QED
  BY <1>2 DEF EndsInv, Middle

LEMMA EndsStep == TypeInv /\ EndsInv /\ [Next]_vars => EndsInv'
<1> SUFFICES ASSUME TypeInv, EndsInv, [Next]_vars PROVE EndsInv'
  OBVIOUS
<1>1. CASE UNCHANGED <<board, added>>
  BY <1>1 DEF EndsInv
<1>2. ASSUME NEW e \in Entries, AddToBoard(e) PROVE EndsInv'
  <2>1. e \in Trades
    BY <1>2 DEF AddToBoard, TypeInv
  <2>2. \/ board' = board \cup {e} /\ added' = added \cup {e}
        \/ UNCHANGED <<board, added>>
    BY <1>2 DEF AddToBoard
  <2> QED
    BY <1>1, <2>1, <2>2, AddKeepsEnds
<1>3. ASSUME NEW e \in Entries, TrimBoard(e) PROVE EndsInv'
  <2>1. UNCHANGED added /\ (board' = board \ Middle \/ UNCHANGED board)
    BY <1>3 DEF TrimBoard
  <2> QED
    BY <1>1, <2>1, TrimKeepsEnds
<1>4. \/ UNCHANGED <<board, added>>
      \/ \E e \in Entries : AddToBoard(e) \/ TrimBoard(e)
  BY DEF vars, Next, Step, Begin, CountPnL, Lock, WriteData, WriteNewline, ReadGainers,
         ReadLosers, Respond, Crash
<1> QED
  BY <1>1, <1>2, <1>3, <1>4

\* The ends of the leaderboard are those of all trades ever added to it, however the
\* adds and trims of concurrent closes interleave and whichever trims are lost.
THEOREM EndsAreKept == Spec => []EndsKept
<1>1. Init => EndsInv
  BY DEF Init, EndsInv, Top, Bottom
<1>2. TypeInv /\ EndsInv => EndsKept
  <2>1. Keep \in 1..Keep
    BY BooksAssumption
  <2> QED
    BY <2>1, RanksAgree DEF EndsKept
<1> QED
  BY <1>1, <1>2, EndsStep, TypesHold, PTL DEF Spec

\* The gainers of half an answer are the top of the trades that were known then.
AnswerInv ==
    /\ answer.pc = "half" =>
         \E S \in SUBSET added : answer.known = Cardinality(S)
                                 /\ answer.gainers = Top(S, Shown)
    /\ NoTradeAtBothEnds

\* A set with a member among its n greatest that is also among the n least of a larger
\* set has fewer than 2n members: that one and at most n - 1 on either side of it.
LEMMA EndsMeet ==
    ASSUME NEW A, IsFiniteSet(A), A \subseteq Int, NEW S \in SUBSET A,
           NEW n \in Nat, NEW x \in Top(S, n) \cap Bottom(A, n)
    PROVE  Cardinality(S) < 2 * n
<1> DEFINE Above == {y \in S : y > x}
           Below == {y \in S : y < x}
           BelowA == {y \in A : y < x}
<1>1. /\ IsFiniteSet(S) /\ IsFiniteSet(Above) /\ IsFiniteSet(Below)
      /\ IsFiniteSet(BelowA)
  BY FS_Subset
<1>2. Cardinality(Above) < n /\ Cardinality(BelowA) < n
  BY DEF Top, Bottom
<1>3. Below \in SUBSET BelowA
  OBVIOUS
<1>4. x \in S /\ x \in Int /\ \A y \in S : y \in Int
  BY DEF Top
<1>5. S = (Above \cup Below) \cup {x} /\ Above \cap Below = {}
  <2>1. \A y \in S : (y > x \/ y < x \/ y = x) /\ ~(y > x /\ y < x)
    BY <1>4
  <2> QED
    BY <1>4, <2>1
<1> HIDE DEF Above, Below, BelowA
<1>6. Cardinality(Below) <= Cardinality(BelowA)
  BY <1>1, <1>3, FS_Subset
<1>7. /\ Cardinality(Above) \in Nat /\ Cardinality(Below) \in Nat
      /\ Cardinality(BelowA) \in Nat
  BY <1>1, FS_CardinalityType
<1>8. /\ IsFiniteSet(Above \cup Below)
      /\ Cardinality(Above \cup Below) = Cardinality(Above) + Cardinality(Below)
  <2>1. Cardinality(Above \cup Below)
          = Cardinality(Above) + Cardinality(Below) - Cardinality(Above \cap Below)
    BY <1>1, FS_Union
  <2>2. Cardinality(Above \cap Below) = 0
    BY <1>5, FS_EmptySet
  <2>3. IsFiniteSet(Above \cup Below)
    BY <1>1, FS_Union
  <2> QED
    BY <1>7, <2>1, <2>2, <2>3
<1>9. Cardinality(S) <= Cardinality(Above) + Cardinality(Below) + 1
  <2> DEFINE Sides == Above \cup Below
  <2>1. S = Sides \cup {x} /\ IsFiniteSet(Sides)
    BY <1>5, <1>8
  <2>2. Cardinality(Sides) = Cardinality(Above) + Cardinality(Below)
    BY <1>8
  <2> HIDE DEF Sides
  <2>3. Cardinality(S) = Cardinality(Sides) \/ Cardinality(S) = Cardinality(Sides) + 1
    BY <2>1, FS_AddElement
  <2> QED
    BY <1>7, <2>2, <2>3
<1>10. Cardinality(S) \in Nat
  BY <1>1, FS_CardinalityType
<1> QED
  BY <1>2, <1>6, <1>7, <1>9, <1>10

LEMMA AnswerStep == TypeInv /\ EndsInv /\ AnswerInv /\ [Next]_vars => AnswerInv'
<1> SUFFICES ASSUME TypeInv, EndsInv, AnswerInv, [Next]_vars PROVE AnswerInv'
  OBVIOUS
<1>1. Shown \in 1..Keep /\ Shown \in Nat
  BY BooksAssumption
<1>2. CASE answer' = answer /\ added \subseteq added'
  BY <1>2 DEF AnswerInv, NoTradeAtBothEnds
<1>3. CASE answer' = NoAnswer
  BY <1>3 DEF AnswerInv, NoTradeAtBothEnds, NoAnswer
<1>4. CASE ReadGainers
  <2>1. /\ answer'.pc = "half" /\ answer'.gainers = Top(added, Shown)
        /\ answer'.known = Cardinality(added) /\ added' = added
    BY <1>1, <1>4, RanksAgree DEF ReadGainers
  <2> QED
    BY <2>1 DEF AnswerInv, NoTradeAtBothEnds
<1>5. CASE ReadLosers
  <2>1. /\ answer.pc = "half" /\ answer'.pc = "whole"
        /\ answer'.gainers = answer.gainers /\ answer'.known = answer.known
        /\ answer'.losers = Bottom(added, Shown)
    BY <1>1, <1>5, RanksAgree DEF ReadLosers, TypeInv, TypeOK
  <2>2. PICK S \in SUBSET added :
          answer.known = Cardinality(S) /\ answer.gainers = Top(S, Shown)
    BY <2>1 DEF AnswerInv
  <2>3. IsFiniteSet(added) /\ added \subseteq Int
    BY BooksAssumption DEF TypeInv, TypeOK
  <2>4. ASSUME NEW x \in Top(S, Shown) \cap Bottom(added, Shown)
        PROVE  Cardinality(S) < 2 * Shown
    BY <1>1, <2>3, <2>4, EndsMeet
  <2>5. NoTradeAtBothEnds'
    BY <2>1, <2>2, <2>4 DEF NoTradeAtBothEnds
  <2> QED
    BY <2>1, <2>5 DEF AnswerInv
<1>6. \/ answer' = answer /\ added \subseteq added'
      \/ answer' = NoAnswer \/ ReadGainers \/ ReadLosers
  BY DEF vars, Next, Step, Begin, CountPnL, AddToBoard, TrimBoard, Lock, WriteData,
         WriteNewline, Respond, Crash
<1> QED
  BY <1>2, <1>3, <1>4, <1>5, <1>6

\* An answer of GET /api/leaderboard shows no trade in both lists once 2 * Shown trades
\* are known, although any number of closes may come between its two reads.
THEOREM ListsAreDisjoint == Spec => []NoTradeAtBothEnds
<1>1. Init => EndsInv /\ AnswerInv
  BY DEF Init, EndsInv, Top, Bottom, AnswerInv, NoTradeAtBothEnds, NoAnswer
<1>2. AnswerInv => NoTradeAtBothEnds
  BY DEF AnswerInv
<1> QED
  BY <1>1, <1>2, EndsStep, AnswerStep, TypesHold, PTL DEF Spec

-----------------------------------------------------------------------------
(* The two books of Redis *)

\* The trades whose sum is wrong and those that are not on the board, from the moment
\* the call is over. A crash only takes trades out.
Summed == {"add", "trim", "lock", "data", "newline", "done"}
Boarded == Summed \ {"add"}
WrongSum == {p \in Trades : pc[p] \in Summed /\ pnl[p] # 1}
OffBoard == {p \in Trades : pc[p] \in Boarded /\ p \notin added}

AgreeInv ==
    /\ IsFiniteSet(WrongSum) /\ IsFiniteSet(OffBoard)
    /\ Cardinality(WrongSum) + Cardinality(OffBoard) <= faults

\* One fault puts one trade into one of the two sets.
LEMMA OneEntryPerFault ==
    ASSUME NEW W, IsFiniteSet(W), NEW M, IsFiniteSet(M), NEW n \in Nat,
           Cardinality(W) + Cardinality(M) <= n,
           NEW V, NEW N, NEW p,
           \/ V \subseteq W \cup {p} /\ N \subseteq M
           \/ V \subseteq W /\ N \subseteq M \cup {p}
    PROVE  /\ IsFiniteSet(V) /\ IsFiniteSet(N)
           /\ Cardinality(V) + Cardinality(N) <= n + 1
<1> DEFINE WP == W \cup {p}
           MP == M \cup {p}
<1>1. /\ IsFiniteSet(WP) /\ Cardinality(WP) <= Cardinality(W) + 1
      /\ IsFiniteSet(MP) /\ Cardinality(MP) <= Cardinality(M) + 1
  <2>1. Cardinality(W) \in Nat /\ Cardinality(M) \in Nat
    BY FS_CardinalityType
  <2>2. /\ IsFiniteSet(WP)
        /\ Cardinality(WP) = IF p \in W THEN Cardinality(W) ELSE Cardinality(W) + 1
    BY FS_AddElement
  <2>3. /\ IsFiniteSet(MP)
        /\ Cardinality(MP) = IF p \in M THEN Cardinality(M) ELSE Cardinality(M) + 1
    BY FS_AddElement
  <2> HIDE DEF WP, MP
  <2> QED
    BY <2>1, <2>2, <2>3
<1>2. V \in SUBSET WP /\ N \in SUBSET MP
  OBVIOUS
<1>3. V \in SUBSET W \/ N \in SUBSET M
  OBVIOUS
<1> HIDE DEF WP, MP
<1>4. /\ IsFiniteSet(V) /\ IsFiniteSet(N)
      /\ Cardinality(V) <= Cardinality(WP) /\ Cardinality(N) <= Cardinality(MP)
      /\ Cardinality(V) <= Cardinality(W) \/ Cardinality(N) <= Cardinality(M)
  BY <1>1, <1>2, <1>3, FS_Subset
<1>5. /\ Cardinality(W) \in Nat /\ Cardinality(M) \in Nat
      /\ Cardinality(V) \in Nat /\ Cardinality(N) \in Nat
      /\ Cardinality(WP) \in Nat /\ Cardinality(MP) \in Nat
  BY <1>1, <1>4, FS_CardinalityType
<1> QED
  BY <1>1, <1>4, <1>5

LEMMA NoNewEntry ==
    ASSUME NEW W, IsFiniteSet(W), NEW M, IsFiniteSet(M), NEW n \in Nat,
           Cardinality(W) + Cardinality(M) <= n,
           NEW V \in SUBSET W, NEW N \in SUBSET M
    PROVE  /\ IsFiniteSet(V) /\ IsFiniteSet(N)
           /\ Cardinality(V) + Cardinality(N) <= n
<1>1. /\ IsFiniteSet(V) /\ IsFiniteSet(N)
      /\ Cardinality(V) <= Cardinality(W) /\ Cardinality(N) <= Cardinality(M)
  BY FS_Subset
<1>2. /\ Cardinality(W) \in Nat /\ Cardinality(M) \in Nat
      /\ Cardinality(V) \in Nat /\ Cardinality(N) \in Nat
  BY <1>1, FS_CardinalityType
<1> QED
  BY <1>1, <1>2

LEMMA FaultsCounted ==
    ASSUME TypeInv, AgreeInv,
           \/ /\ WrongSum' \subseteq WrongSum /\ OffBoard' \subseteq OffBoard
              /\ faults' \in {faults, faults + 1}
           \/ /\ faults' = faults + 1
              /\ \E p : \/ /\ WrongSum' \subseteq WrongSum \cup {p}
                           /\ OffBoard' \subseteq OffBoard
                        \/ /\ WrongSum' \subseteq WrongSum
                           /\ OffBoard' \subseteq OffBoard \cup {p}
    PROVE  AgreeInv'
<1>1. faults \in Nat
  BY BooksAssumption DEF TypeInv, TypeOK
<1>2. /\ IsFiniteSet(WrongSum) /\ IsFiniteSet(OffBoard)
      /\ Cardinality(WrongSum) + Cardinality(OffBoard) <= faults
  BY DEF AgreeInv
<1>3. CASE /\ WrongSum' \subseteq WrongSum /\ OffBoard' \subseteq OffBoard
           /\ faults' \in {faults, faults + 1}
  <2>1. /\ IsFiniteSet(WrongSum') /\ IsFiniteSet(OffBoard')
        /\ Cardinality(WrongSum') + Cardinality(OffBoard') <= faults
    BY <1>1, <1>2, <1>3, NoNewEntry
  <2>2. Cardinality(WrongSum') \in Nat /\ Cardinality(OffBoard') \in Nat
    BY <2>1, FS_CardinalityType
  <2> QED
    BY <1>1, <1>3, <2>1, <2>2 DEF AgreeInv
<1>4. CASE /\ faults' = faults + 1
           /\ \E p : \/ /\ WrongSum' \subseteq WrongSum \cup {p}
                        /\ OffBoard' \subseteq OffBoard
                     \/ /\ WrongSum' \subseteq WrongSum
                        /\ OffBoard' \subseteq OffBoard \cup {p}
  BY <1>1, <1>2, <1>4, OneEntryPerFault DEF AgreeInv
<1> QED
  BY <1>3, <1>4

LEMMA AgreeStep == TypeInv /\ AgreeInv /\ [Next]_vars => AgreeInv'
<1> SUFFICES ASSUME TypeInv, AgreeInv, [Next]_vars PROVE AgreeInv'
  OBVIOUS
<1>1. \A e \in Entries : \A to : Goes(e, to) =>
        \A f \in Entries : pc'[f] = IF f = e THEN to ELSE pc[f]
  BY DEF TypeInv, TypeOK, Goes
<1>2. \A p \in Trades : p \in Entries
  BY DEF Entries
<1>3. Correctly \/ Faultily => faults' \in {faults, faults + 1}
  BY DEF Correctly, Faultily
<1>4. ASSUME NEW e \in Entries, NEW to, Goes(e, to), UNCHANGED <<pnl, added>>,
             faults' \in {faults, faults + 1},
             to \in Summed => pc[e] \in Summed, to \in Boarded => pc[e] \in Boarded
      PROVE  AgreeInv'
  <2>1. WrongSum' \subseteq WrongSum /\ OffBoard' \subseteq OffBoard
    BY <1>1, <1>2, <1>4 DEF WrongSum, OffBoard
  <2> QED
    BY <1>4, <2>1, FaultsCounted
<1>5. ASSUME NEW e \in Entries, Begin(e) PROVE AgreeInv'
  <2>1. CASE e \in Trades
    BY <1>4, <1>5, <2>1 DEF Begin, Summed, Boarded
  <2>2. CASE e \notin Trades
    <3>1. WrongSum' \subseteq WrongSum /\ OffBoard' \subseteq OffBoard
      BY <1>1, <1>2, <1>5, <2>2 DEF Begin, WrongSum, OffBoard
    <3> QED
      BY <1>5, <3>1, FaultsCounted DEF Begin
  <2> QED
    BY <2>1, <2>2
<1>6. ASSUME NEW e \in Entries, CountPnL(e) PROVE AgreeInv'
  <2>1. pc[e] = "pnl" /\ Goes(e, "add") /\ UNCHANGED added
    BY <1>6 DEF CountPnL
  <2>2. e \in Trades /\ pnl[e] = 0
    BY <2>1 DEF TypeInv
  <2>3. OffBoard' \subseteq OffBoard
    BY <1>1, <1>2, <2>1 DEF OffBoard, Boarded, Summed
  <2>4. \A p \in Trades \ {e} : pnl'[p] = pnl[p] /\ pc'[p] = pc[p]
    BY <1>1, <1>2, <1>6, <2>1 DEF CountPnL, TypeInv, TypeOK
  <2>5. WrongSum' \subseteq WrongSum \cup {e}
    BY <2>4 DEF WrongSum
  <2>6. CASE Faultily
    BY <2>3, <2>5, <2>6, FaultsCounted DEF Faultily
  <2>7. CASE Correctly /\ pnl' = [pnl EXCEPT ![e] = @ + 1]
    <3>1. pnl'[e] = 1
      BY <2>2, <2>7 DEF TypeInv, TypeOK
    <3>2. WrongSum' \subseteq WrongSum
      BY <2>5, <3>1 DEF WrongSum
    <3> QED
      BY <2>3, <2>7, <3>2, FaultsCounted DEF Correctly
  <2> QED
    BY <1>6, <2>6, <2>7 DEF CountPnL
<1>7. ASSUME NEW e \in Entries, AddToBoard(e) PROVE AgreeInv'
  <2>1. pc[e] = "add" /\ UNCHANGED pnl
    BY <1>7 DEF AddToBoard
  <2>2. CASE Faultily /\ UNCHANGED added /\ Goes(e, "lock")
    <3>1. \A f \in Entries \ {e} : pc'[f] = pc[f]
      BY <1>1, <2>2
    <3>2. WrongSum' \subseteq WrongSum /\ OffBoard' \subseteq OffBoard \cup {e}
      BY <1>2, <2>1, <2>2, <3>1 DEF WrongSum, OffBoard, Summed
    <3> QED
      BY <2>2, <3>2, FaultsCounted DEF Faultily
  <2>3. CASE Correctly /\ added' = added \cup {e} /\ Goes(e, "trim")
    <3>1. \A f \in Entries \ {e} : pc'[f] = pc[f]
      BY <1>1, <2>3
    <3>2. WrongSum' \subseteq WrongSum /\ OffBoard' \subseteq OffBoard
      BY <1>2, <2>1, <2>3, <3>1 DEF WrongSum, OffBoard, Summed
    <3> QED
      BY <2>3, <3>2, FaultsCounted DEF Correctly
  <2> QED
    BY <1>7, <2>2, <2>3 DEF AddToBoard
<1>8. ASSUME NEW e \in Entries, TrimBoard(e) PROVE AgreeInv'
  BY <1>3, <1>4, <1>8 DEF TrimBoard, Summed, Boarded
<1>9. ASSUME NEW e \in Entries, Lock(e) \/ WriteData(e) \/ WriteNewline(e)
      PROVE  AgreeInv'
  <2>1. \/ pc[e] = "lock" /\ Goes(e, "data")
        \/ pc[e] = "data" /\ Goes(e, "newline")
        \/ pc[e] = "newline" /\ Goes(e, "done")
    BY <1>9 DEF Lock, WriteData, WriteNewline
  <2>2. UNCHANGED <<pnl, added>> /\ faults' \in {faults, faults + 1}
    BY <1>3, <1>9 DEF Lock, WriteData, WriteNewline
  <2> QED
    BY <1>4, <2>1, <2>2 DEF Summed, Boarded
<1>10. CASE Crash
  <2>1. /\ UNCHANGED <<pnl, added, faults>>
        /\ \A e \in Entries : pc'[e] = pc[e] \/ pc'[e] = "lost"
    BY <1>10 DEF Crash
  <2>2. WrongSum' \subseteq WrongSum /\ OffBoard' \subseteq OffBoard
    BY <1>2, <2>1 DEF WrongSum, OffBoard, Summed, Boarded
  <2> QED
    BY <2>1, <2>2, FaultsCounted
<1>11. CASE UNCHANGED <<pnl, added, pc, faults>>
  BY <1>11 DEF AgreeInv, WrongSum, OffBoard
<1> QED
  BY <1>5, <1>6, <1>7, <1>8, <1>9, <1>10, <1>11
     DEF Next, Step, vars, ReadGainers, ReadLosers, Respond

\* Of the closes that are done, each dropped error costs one entry in one of the two
\* books of Redis, never more.
THEOREM BooksStayInStep == Spec => []BooksAgree
<1>1. Init => AgreeInv
  <2> SUFFICES ASSUME Init PROVE AgreeInv
    OBVIOUS
  <2>1. WrongSum = {} /\ OffBoard = {}
    BY DEF Init, WrongSum, OffBoard, Summed, Boarded, Entries
  <2> QED
    BY <2>1, FS_EmptySet DEF Init, AgreeInv
<1>2. TypeInv /\ AgreeInv => BooksAgree
  <2> SUFFICES ASSUME TypeInv, AgreeInv PROVE BooksAgree
    OBVIOUS
  <2> DEFINE Done == {p \in Trades : pc[p] = "done"}
             W == {p \in Done : pnl[p] # 1}
             M == Done \ added
  <2>1. W \in SUBSET WrongSum /\ M \in SUBSET OffBoard
    BY DEF WrongSum, OffBoard, Summed, Boarded
  <2>2. faults \in Nat
    BY BooksAssumption DEF TypeInv, TypeOK
  <2>3. Cardinality(W) + Cardinality(M) <= faults
    <3> HIDE DEF W, M
    <3> QED
      BY <2>1, <2>2, NoNewEntry DEF AgreeInv
  <2> QED
    BY <2>3 DEF BooksAgree
<1> QED
  BY <1>1, <1>2, AgreeStep, TypesHold, PTL DEF Spec

-----------------------------------------------------------------------------
(* The dataset file *)

\* The records of the last line, which has no newline yet.
Open == {i \in DOMAIN file : \A k \in i..Len(file) : file[k] # Newline}
Between == {e \in Entries : pc[e] = "newline"}

\* A fault damages two records, but not at once: what it leaves is a last line that is
\* not ended, and the second record is damaged when it is written there.
DamageInv ==
    /\ IsFiniteSet(Damaged) /\ IsFiniteSet(Open)
    /\ Cardinality(Damaged) <= 2 * (faults + crashes)
    /\ Between = {} =>
         Cardinality(Damaged \cup Open) + (IF Open = {} THEN 0 ELSE 1)
           <= 2 * (faults + crashes)

LEMMA IndicesFinite ==
    ASSUME TypeInv
    PROVE  /\ DOMAIN file = 1..Len(file) /\ Len(file) \in Nat
           /\ IsFiniteSet(Damaged) /\ IsFiniteSet(Open) /\ IsFiniteSet(Damaged \cup Open)
<1>1. DOMAIN file = 1..Len(file) /\ Len(file) \in Nat
  BY DEF TypeInv, TypeOK, Logs
<1>2. IsFiniteSet(1..Len(file))
  BY <1>1, FS_Interval
<1>3. Damaged \in SUBSET (1..Len(file)) /\ Open \in SUBSET (1..Len(file))
  BY <1>1 DEF Damaged, Open
<1>4. Damaged \cup Open \in SUBSET (1..Len(file))
  BY <1>3
<1> QED
  BY <1>1, <1>2, <1>3, <1>4, FS_Subset

\* Two records of the last line damage one another.
LEMMA OpenIsDamaged ==
    ASSUME TypeInv, NEW i \in Open, NEW j \in Open, i # j
    PROVE  i \in Damaged /\ j \in Damaged
<1>1. /\ i \in 1..Len(file) /\ j \in 1..Len(file) /\ Len(file) \in Nat
      /\ DOMAIN file = 1..Len(file)
      /\ \A k \in i..Len(file) : file[k] # Newline
      /\ \A k \in j..Len(file) : file[k] # Newline
  BY IndicesFinite DEF Open
<1>2. SameLine(i, j) /\ SameLine(j, i)
  BY <1>1 DEF SameLine
<1>3. file[i] # Newline /\ file[j] # Newline
  BY <1>1
<1> QED
  BY <1>1, <1>2, <1>3 DEF Damaged, Clean

LEMMA OneIsOpen ==
    ASSUME TypeInv
    PROVE  Cardinality(Damaged \cup Open) <= Cardinality(Damaged) + 1
<1>1. /\ IsFiniteSet(Damaged) /\ Cardinality(Damaged) \in Nat
      /\ IsFiniteSet(Damaged \cup Open)
  BY IndicesFinite, FS_CardinalityType
<1>2. CASE Open \subseteq Damaged
  <2>1. Damaged \cup Open = Damaged
    BY <1>2
  <2>2. Cardinality(Damaged \cup Open) = Cardinality(Damaged)
    BY <2>1
  <2>3. Cardinality(Damaged) <= Cardinality(Damaged) + 1
    BY <1>1
  <2> QED
    BY <2>2, <2>3
<1>3. CASE ~(Open \subseteq Damaged)
  <2>1. PICK i \in Open : i \notin Damaged
    BY <1>3
  <2>2. \A j \in Open : j = i
    BY <2>1, OpenIsDamaged
  <2>3. Damaged \cup Open = Damaged \cup {i}
    BY <2>1, <2>2
  <2>4. Cardinality(Damaged \cup {i}) = Cardinality(Damaged) + 1
    BY <1>1, <2>1, FS_AddElement
  <2> QED
    BY <1>1, <2>3, <2>4
<1> QED
  BY <1>2, <1>3

\* A record added to the file damages itself and those of the last line, at most, and
\* does no harm if it is whole and the line was empty.
LEMMA AppendRecord ==
    ASSUME TypeInv, NEW x \in Lines, x # Newline, file' = Append(file, x)
    PROVE  /\ Damaged' \subseteq (Damaged \cup Open) \cup {Len(file) + 1}
           /\ Damaged' \cup Open' \subseteq (Damaged \cup Open) \cup {Len(file) + 1}
           /\ Open = {} /\ x.whole => Damaged' \subseteq Damaged
           /\ DOMAIN file' = 1..(Len(file) + 1)
<1>1. PICK n \in Nat :
        /\ n = Len(file) + 1
        /\ DOMAIN file = 1..Len(file) /\ Len(file) \in Nat
        /\ DOMAIN file' = 1..n /\ Len(file') = n
        /\ \A i \in 1..Len(file) : file'[i] = file[i]
        /\ file'[n] = x
  BY IndicesFinite DEF TypeInv, TypeOK, Logs
<1>2. \A i, j \in 1..Len(file) : SameLine(i, j)' <=> SameLine(i, j)
  BY <1>1 DEF SameLine
<1>3. \A i \in 1..Len(file) : SameLine(i, n)' <=> i \in Open
  <2> SUFFICES ASSUME NEW i \in 1..Len(file) PROVE SameLine(i, n)' <=> i \in Open
    OBVIOUS
  <2>1. (i..n) \cup (n..i) = (i..Len(file)) \cup {n}
    BY <1>1
  <2>2. SameLine(i, n)' <=> \A k \in (i..Len(file)) \cup {n} : file'[k] # Newline
    BY <2>1 DEF SameLine, Newline
  <2>3. \A k \in i..Len(file) : file'[k] = file[k]
    BY <1>1
  <2> QED
    BY <1>1, <2>2, <2>3 DEF Open
<1>4. \A i \in 1..Len(file) : i \in Damaged' => i \in Damaged \cup Open
  <2> SUFFICES ASSUME NEW i \in 1..Len(file), i \in Damaged', i \notin Open
               PROVE  i \in Damaged
    OBVIOUS
  <2>1. file'[i] = file[i] /\ file[i] # Newline
    BY <1>1 DEF Damaged, Newline
  <2>2. ~Clean(i)'
    BY DEF Damaged
  <2>3. CASE ~file[i].whole
    BY <1>1, <2>1, <2>3 DEF Damaged, Clean
  <2>4. CASE file[i].whole
    <3>1. PICK j \in (1..n) \ {i} : SameLine(i, j)'
      BY <1>1, <2>1, <2>2, <2>4 DEF Clean
    <3>2. j # n
      BY <1>3, <3>1
    <3>3. j \in 1..Len(file) /\ SameLine(i, j)
      BY <1>1, <1>2, <3>1, <3>2
    <3> QED
      BY <1>1, <2>1, <3>1, <3>3 DEF Damaged, Clean
  <2> QED
    BY <2>3, <2>4
<1>5. \A i \in 1..Len(file) : i \in Open' => i \in Open
  <2> SUFFICES ASSUME NEW i \in 1..Len(file), i \in Open' PROVE i \in Open
    OBVIOUS
  <2>1. \A k \in i..Len(file) : k \in i..n /\ k \in 1..Len(file)
    BY <1>1
  <2>2. \A k \in i..Len(file) : file'[k] # Newline
    BY <1>1, <2>1 DEF Open, Newline
  <2> QED
    BY <1>1, <2>1, <2>2 DEF Open
<1>6. Damaged' \subseteq 1..n /\ Open' \subseteq 1..n
  BY <1>1 DEF Damaged, Open
<1>7. 1..n = (1..Len(file)) \cup {n}
  BY <1>1
<1>8. ASSUME Open = {}, x.whole PROVE n \notin Damaged'
  <2>1. \A j \in (1..n) \ {n} : ~SameLine(n, j)'
    <3> SUFFICES ASSUME NEW j \in (1..n) \ {n} PROVE ~SameLine(n, j)'
      OBVIOUS
    <3>1. j \in 1..Len(file)
      BY <1>7
    <3>2. ~SameLine(j, n)'
      BY <1>3, <1>8, <3>1
    <3> QED
      BY <3>2 DEF SameLine
  <2>2. file'[n].whole
    BY <1>1, <1>8
  <2>3. Clean(n)'
    BY <1>1, <2>1, <2>2 DEF Clean
  <2> QED
    BY <2>3 DEF Damaged
<1> QED
  BY <1>1, <1>4, <1>5, <1>6, <1>7, <1>8

\* A newline ends the last line and damages nothing.
LEMMA AppendNewline ==
    ASSUME TypeInv, file' = Append(file, Newline)
    PROVE  Damaged' \subseteq Damaged /\ Open' = {}
<1>1. PICK n \in Nat :
        /\ n = Len(file) + 1
        /\ DOMAIN file = 1..Len(file) /\ Len(file) \in Nat
        /\ DOMAIN file' = 1..n /\ Len(file') = n
        /\ \A i \in 1..Len(file) : file'[i] = file[i]
        /\ file'[n] = Newline
  BY IndicesFinite DEF TypeInv, TypeOK, Logs
<1>2. ASSUME NEW i \in 1..n, i \in Open' PROVE FALSE
  <2>1. n \in i..n
    BY <1>1
  <2> QED
    BY <1>1, <1>2, <2>1 DEF Open, Newline
<1>3. ASSUME NEW i \in Damaged' PROVE i \in Damaged
  <2>1. i \in 1..n /\ file'[i] # Newline /\ ~Clean(i)'
    BY <1>1 DEF Damaged, Newline
  <2>2. i \in 1..Len(file) /\ file'[i] = file[i]
    BY <1>1, <2>1
  <2>3. CASE ~file[i].whole
    BY <1>1, <2>1, <2>2, <2>3 DEF Damaged, Clean
  <2>4. CASE file[i].whole
    <3>1. PICK j \in (1..n) \ {i} : SameLine(i, j)'
      BY <1>1, <2>1, <2>2, <2>4 DEF Clean
    <3>2. j # n
      <4>1. n \in (i..n) \cup (n..i)
        BY <1>1, <2>2
      <4> QED
        BY <1>1, <3>1, <4>1 DEF SameLine, Newline
    <3>3. j \in 1..Len(file)
      BY <1>1, <3>1, <3>2
    <3>4. \A k \in (i..j) \cup (j..i) : k \in 1..Len(file)
      BY <1>1, <2>2, <3>3
    <3>5. SameLine(i, j)
      BY <1>1, <3>1, <3>4 DEF SameLine, Newline
    <3> QED
      BY <1>1, <2>1, <2>2, <3>1, <3>3, <3>5 DEF Damaged, Clean
  <2> QED
    BY <2>3, <2>4
<1>4. Open' \subseteq 1..n
  BY <1>1 DEF Open
<1> QED
  BY <1>2, <1>3, <1>4

LEMMA Subsets ==
    ASSUME NEW S, IsFiniteSet(S), NEW x, NEW T \in SUBSET (S \cup {x})
    PROVE  /\ IsFiniteSet(T) /\ Cardinality(T) \in Nat /\ Cardinality(S) \in Nat
           /\ Cardinality(T) <= Cardinality(S) + 1
           /\ T \in SUBSET S => Cardinality(T) <= Cardinality(S)
<1> DEFINE Sx == S \cup {x}
<1>1. /\ IsFiniteSet(Sx)
      /\ Cardinality(Sx) = IF x \in S THEN Cardinality(S) ELSE Cardinality(S) + 1
  BY FS_AddElement
<1>2. T \in SUBSET Sx
  OBVIOUS
<1> HIDE DEF Sx
<1>3. IsFiniteSet(T) /\ Cardinality(T) <= Cardinality(Sx)
  BY <1>1, <1>2, FS_Subset
<1>4. Cardinality(T) \in Nat /\ Cardinality(S) \in Nat
  BY <1>3, FS_CardinalityType
<1>5. T \in SUBSET S => Cardinality(T) <= Cardinality(S)
  BY FS_Subset
<1> QED
  BY <1>1, <1>3, <1>4, <1>5

\* The number of faults and crashes, and the three counts the bound is about.
LEMMA DamageCounts ==
    ASSUME TypeInv, [Next]_vars
    PROVE  /\ faults \in Nat /\ crashes \in Nat /\ faults' \in Nat /\ crashes' \in Nat
           /\ Cardinality(Damaged) \in Nat /\ Cardinality(Damaged \cup Open) \in Nat
           /\ IsFiniteSet(Damaged') /\ IsFiniteSet(Open')
           /\ Cardinality(Damaged') \in Nat /\ Cardinality((Damaged \cup Open)') \in Nat
<1>1. TypeInv'
  BY TypeStep
<1>2. /\ faults \in Nat /\ crashes \in Nat /\ faults' \in Nat /\ crashes' \in Nat
  BY <1>1, BooksAssumption DEF TypeInv, TypeOK
<1>3. /\ IsFiniteSet(Damaged) /\ IsFiniteSet(Damaged \cup Open)
  BY IndicesFinite
<1>4. (IsFiniteSet(Damaged) /\ IsFiniteSet(Open) /\ IsFiniteSet(Damaged \cup Open))'
  <2>1. DOMAIN file' = 1..Len(file') /\ Len(file') \in Nat
    BY <1>1 DEF TypeInv, TypeOK, Logs
  <2>2. IsFiniteSet(1..Len(file'))
    BY <2>1, FS_Interval
  <2>3. /\ Damaged' \in SUBSET (1..Len(file')) /\ Open' \in SUBSET (1..Len(file'))
        /\ (Damaged \cup Open)' \in SUBSET (1..Len(file'))
    BY <2>1 DEF Damaged, Open
  <2> QED
    BY <2>2, <2>3, FS_Subset
<1> QED
  BY <1>2, <1>3, <1>4, FS_CardinalityType

\* Nothing is written.
LEMMA FileFrame ==
    ASSUME TypeInv, DamageInv, [Next]_vars, UNCHANGED file,
           faults <= faults', crashes <= crashes', Between' = {} => Between = {}
    PROVE  DamageInv'
<1>1. Damaged' = Damaged /\ Open' = Open
  BY DEF Damaged, Open, Clean, SameLine, Newline
<1>2. (Damaged \cup Open)' = Damaged \cup Open
  BY <1>1
<1>3. Cardinality((Damaged \cup Open)') = Cardinality(Damaged \cup Open)
  BY <1>2
<1> QED
  BY <1>1, <1>3, DamageCounts DEF DamageInv

\* The goroutine that holds Writer.mu is the only one between its two writes.
LEMMA OneWrites ==
    ASSUME TypeInv, NEW e \in Entries
    PROVE  /\ pc[e] = "data" => Between = {}
           /\ pc[e] = "newline" => Between = {e}
BY DEF TypeInv, TypeOK, Between

LEMMA DataStep ==
    ASSUME TypeInv, DamageInv, [Next]_vars, NEW e \in Entries, WriteData(e)
    PROVE  DamageInv'
<1>1. /\ Cardinality(Damaged \cup Open) + (IF Open = {} THEN 0 ELSE 1)
           <= 2 * (faults + crashes)
      /\ Cardinality(Damaged) <= 2 * (faults + crashes)
  BY OneWrites DEF WriteData, DamageInv
<1>2. Between' # {}
  <2>1. pc'[e] = "newline"
    BY DEF WriteData, Goes, TypeInv, TypeOK
  <2> QED
    BY <2>1 DEF Between
<1>3. UNCHANGED crashes
  BY DEF WriteData
<1>4. CASE UNCHANGED file
  <2>1. Damaged' = Damaged
    BY <1>4 DEF Damaged, Clean, SameLine, Newline
  <2>2. faults <= faults'
    <3>1. faults' = faults \/ faults' = faults + 1
      BY DEF WriteData, Correctly, Faultily
    <3> QED
      BY <3>1, DamageCounts
  <2> QED
    BY <1>1, <1>2, <1>3, <2>1, <2>2, DamageCounts DEF DamageInv
<1>5. CASE Faultily /\ file' = Append(file, Record(e, FALSE))
  <2>1. Record(e, FALSE) \in Lines /\ Record(e, FALSE) # Newline
    BY LineTypes DEF Record, Newline
  <2>2. Damaged' \in SUBSET ((Damaged \cup Open) \cup {Len(file) + 1})
    BY <1>5, <2>1, AppendRecord
  <2>3. Cardinality(Damaged') <= Cardinality(Damaged \cup Open) + 1
    BY <2>2, IndicesFinite, Subsets
  <2>4. faults' = faults + 1
    BY <1>5 DEF Faultily
  <2>5. Cardinality(Damaged') <= 2 * (faults' + crashes')
    <3> HIDE DEF Damaged, Open
    <3> QED
      BY <1>1, <1>3, <2>3, <2>4, DamageCounts
  <2> QED
    BY <1>2, <2>5, DamageCounts DEF DamageInv
<1>6. CASE Correctly /\ file' = Append(file, Record(e, TRUE))
  <2>1. /\ Record(e, TRUE) \in Lines /\ Record(e, TRUE) # Newline
        /\ Record(e, TRUE).whole
    BY LineTypes, NobodyIsNone DEF Record, Newline
  <2>2. faults' = faults
    BY <1>6 DEF Correctly
  <2>3. Cardinality(Damaged')
          <= Cardinality(Damaged \cup Open) + (IF Open = {} THEN 0 ELSE 1)
    <3>1. CASE Open = {}
      <4>1. Damaged' \in SUBSET Damaged /\ Damaged = Damaged \cup Open
        BY <1>6, <2>1, <3>1, AppendRecord
      <4>2. Cardinality(Damaged') <= Cardinality(Damaged)
        BY <4>1, IndicesFinite, FS_Subset
      <4>3. Cardinality(Damaged) = Cardinality(Damaged \cup Open)
        BY <4>1
      <4> QED
        BY <3>1, <4>2, <4>3, DamageCounts
    <3>2. CASE Open # {}
      <4>1. Damaged' \in SUBSET ((Damaged \cup Open) \cup {Len(file) + 1})
        BY <1>6, <2>1, AppendRecord
      <4> QED
        BY <3>2, <4>1, IndicesFinite, Subsets
    <3> QED
      BY <3>1, <3>2
  <2>4. Cardinality(Damaged') <= 2 * (faults' + crashes')
    BY <1>1, <1>3, <2>2, <2>3, DamageCounts
  <2> QED
    BY <1>2, <2>4, DamageCounts DEF DamageInv
<1> QED
  BY <1>4, <1>5, <1>6 DEF WriteData

\* The next record is written on the line a lost newline leaves open, but only the one
\* record that is alone on it is not damaged yet.
LEMMA NewlineStep ==
    ASSUME TypeInv, DamageInv, [Next]_vars, NEW e \in Entries, WriteNewline(e)
    PROVE  DamageInv'
<1>1. Cardinality(Damaged) <= 2 * (faults + crashes) /\ UNCHANGED crashes
  BY DEF DamageInv, WriteNewline
<1>2. CASE Correctly /\ file' = Append(file, Newline)
  <2>1. Damaged' \in SUBSET Damaged /\ Open' = {} /\ faults' = faults
    BY <1>2, AppendNewline DEF Correctly
  <2>2. Cardinality(Damaged') <= Cardinality(Damaged)
    BY <2>1, IndicesFinite, FS_Subset
  <2>3. (Damaged \cup Open)' = Damaged'
    BY <2>1
  <2>4. Cardinality((Damaged \cup Open)') = Cardinality(Damaged')
    BY <2>3
  <2>5. Cardinality(Damaged') <= 2 * (faults' + crashes')
    BY <1>1, <2>1, <2>2, DamageCounts
  <2> QED
    BY <2>1, <2>4, <2>5, DamageCounts DEF DamageInv
<1>3. CASE Faultily /\ UNCHANGED file
  <2>1. Damaged' = Damaged /\ Open' = Open /\ faults' = faults + 1
    BY <1>3 DEF Damaged, Open, Clean, SameLine, Newline, Faultily
  <2>2. (Damaged \cup Open)' = Damaged \cup Open
    BY <2>1
  <2>3. Cardinality((Damaged \cup Open)') <= Cardinality(Damaged) + 1
    BY <2>2, OneIsOpen
  <2>4. Cardinality(Damaged') = Cardinality(Damaged)
    BY <2>1
  <2>5. /\ Cardinality(Damaged') <= 2 * (faults' + crashes')
        /\ Cardinality((Damaged \cup Open)') + 1 <= 2 * (faults' + crashes')
    BY <1>1, <2>1, <2>3, <2>4, DamageCounts
  <2> QED
    BY <2>5, DamageCounts DEF DamageInv
<1> QED
  BY <1>2, <1>3 DEF WriteNewline

LEMMA CrashStep ==
    ASSUME TypeInv, DamageInv, [Next]_vars, Crash
    PROVE  DamageInv'
<1>1. crashes' = crashes + 1 /\ faults' = faults
  BY DEF Crash
<1>2. CASE \E e \in Entries : pc[e] = "data" /\ file' = Append(file, Record(e, FALSE))
  <2>1. PICK e \in Entries : pc[e] = "data" /\ file' = Append(file, Record(e, FALSE))
    BY <1>2
  <2>2. Cardinality(Damaged \cup Open) <= 2 * (faults + crashes)
    BY <2>1, OneWrites, DamageCounts DEF DamageInv
  <2>3. Record(e, FALSE) \in Lines /\ Record(e, FALSE) # Newline
    BY LineTypes DEF Record, Newline
  <2>4. /\ (Damaged \cup Open)' \in SUBSET ((Damaged \cup Open) \cup {Len(file) + 1})
        /\ Damaged' \in SUBSET ((Damaged \cup Open) \cup {Len(file) + 1})
    BY <2>1, <2>3, AppendRecord
  <2>5. /\ Cardinality((Damaged \cup Open)') <= Cardinality(Damaged \cup Open) + 1
        /\ Cardinality(Damaged') <= Cardinality(Damaged \cup Open) + 1
    BY <2>4, IndicesFinite, Subsets
  <2>6. /\ Cardinality(Damaged') <= 2 * (faults' + crashes')
        /\ Cardinality((Damaged \cup Open)') + 1 <= 2 * (faults' + crashes')
    BY <1>1, <2>2, <2>5, DamageCounts
  <2> QED
    BY <2>6, DamageCounts DEF DamageInv
<1>3. CASE UNCHANGED file
  <2>1. Damaged' = Damaged /\ Open' = Open
    BY <1>3 DEF Damaged, Open, Clean, SameLine, Newline
  <2>2. (Damaged \cup Open)' = Damaged \cup Open
    BY <2>1
  <2>3. Cardinality((Damaged \cup Open)') <= Cardinality(Damaged) + 1
    BY <2>2, OneIsOpen
  <2>4. Cardinality(Damaged') = Cardinality(Damaged)
    BY <2>1
  <2>5. /\ Cardinality(Damaged') <= 2 * (faults' + crashes')
        /\ Cardinality((Damaged \cup Open)') + 1 <= 2 * (faults' + crashes')
    BY <1>1, <2>3, <2>4, DamageCounts DEF DamageInv
  <2> QED
    BY <2>5, DamageCounts DEF DamageInv
<1> QED
  BY <1>2, <1>3 DEF Crash

LEMMA DamageStep == TypeInv /\ DamageInv /\ [Next]_vars => DamageInv'
<1> SUFFICES ASSUME TypeInv, DamageInv, [Next]_vars PROVE DamageInv'
  OBVIOUS
<1>1. \A e \in Entries : \A to : Goes(e, to) =>
        \A f \in Entries : pc'[f] = IF f = e THEN to ELSE pc[f]
  BY DEF TypeInv, TypeOK, Goes
<1>2. ASSUME NEW e \in Entries, NEW to \in {"pnl", "add", "trim", "lock", "data"},
             Goes(e, to), pc[e] # "newline", UNCHANGED <<file, crashes>>,
             Correctly \/ Faultily
      PROVE  DamageInv'
  <2>1. Between' = {} => Between = {}
    BY <1>1, <1>2 DEF Between
  <2>2. faults <= faults' /\ crashes <= crashes'
    BY <1>2, DamageCounts DEF Correctly, Faultily
  <2> QED
    BY <1>2, <2>1, <2>2, FileFrame
<1>3. ASSUME NEW e \in Entries,
             Begin(e) \/ CountPnL(e) \/ AddToBoard(e) \/ TrimBoard(e) \/ Lock(e)
      PROVE  DamageInv'
  <2>1. \E to \in {"pnl", "add", "trim", "lock", "data"} : Goes(e, to)
    BY <1>3 DEF Begin, CountPnL, AddToBoard, TrimBoard, Lock
  <2>2. pc[e] # "newline" /\ UNCHANGED <<file, crashes>> /\ (Correctly \/ Faultily)
    BY <1>3 DEF Begin, CountPnL, AddToBoard, TrimBoard, Lock, Correctly
  <2> QED
    BY <1>2, <2>1, <2>2
<1>4. CASE UNCHANGED <<file, pc, faults, crashes>>
  <2>1. Between' = Between
    BY <1>4 DEF Between
  <2>2. faults <= faults' /\ crashes <= crashes'
    BY <1>4, DamageCounts
  <2> QED
    BY <1>4, <2>1, <2>2, FileFrame
<1>5. ASSUME NEW e \in Entries, WriteData(e) PROVE DamageInv'
  BY <1>5, DataStep
<1>6. ASSUME NEW e \in Entries, WriteNewline(e) PROVE DamageInv'
  BY <1>6, NewlineStep
<1>7. CASE Crash
  BY <1>7, CrashStep
<1> QED
  BY <1>3, <1>4, <1>5, <1>6, <1>7
     DEF Next, Step, vars, ReadGainers, ReadLosers, Respond

\* A fault or a crash between the two writes of a line damages two records at most, the
\* one it cuts off and the one that follows on the same line.
THEOREM DamageIsBounded == Spec => []DamageBounded
<1>1. Init => DamageInv
  <2> SUFFICES ASSUME Init PROVE DamageInv
    OBVIOUS
  <2>1. Damaged = {} /\ Open = {} /\ Damaged \cup Open = {}
    BY DEF Init, Damaged, Open
  <2> QED
    BY <2>1, FS_EmptySet DEF Init, DamageInv
<1>2. DamageInv => DamageBounded
  BY DEF DamageInv, DamageBounded
<1> QED
  BY <1>1, <1>2, DamageStep, TypesHold, PTL DEF Spec
=============================================================================
