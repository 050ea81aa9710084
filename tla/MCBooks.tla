------------------------------- MODULE MCBooks -------------------------------
(***************************************************************************)
(* Instances of Books for TLC.                                             *)
(***************************************************************************)
EXTENDS Books

\* More trades than the two ends of the board hold when each keeps one.
ThreeTrades == {1, 2, 3}
=============================================================================
