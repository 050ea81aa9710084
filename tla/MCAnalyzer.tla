----------------------------- MODULE MCAnalyzer -----------------------------
(***************************************************************************)
(* Instances of Analyzer for TLC.                                          *)
(***************************************************************************)
EXTENDS Analyzer, TLC

\* Below MinLiqSOL = 1, in range, and at GraduationGuard = 3.
Levels == {0, 1, 3}

\* Within and above MaxFrictionPct = 1.
Scores == {1, 2}

\* The events are interchangeable.
EventSymmetry == Permutations(Events)
=============================================================================
