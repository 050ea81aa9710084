----------------------------- MODULE MCPipeline -----------------------------
(***************************************************************************)
(* Instances of Pipeline for TLC.                                          *)
(***************************************************************************)
EXTENDS Pipeline, TLC

\* Every signal is about the same token.
SameMint == [b \in Buys |-> CHOOSE m \in Mints : TRUE]

\* In range; within and above MaxFrictionPct = 1.
Enough == {1}
Scores == {1, 2}

\* The events are interchangeable.
EventSymmetry == Permutations(Buys)
=============================================================================
