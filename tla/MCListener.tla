----------------------------- MODULE MCListener -----------------------------
(***************************************************************************)
(* Instances of Listener for TLC.                                          *)
(***************************************************************************)
EXTENDS Listener

\* With three notifications a channel of one slot is empty, full, and overfull; the
\* code has 64.
OneSlot == 1
=============================================================================
