----------------------------- MODULE MCExecutor -----------------------------
(***************************************************************************)
(* Instances of Executor for TLC.                                          *)
(***************************************************************************)
EXTENDS Executor, TLC

\* A token is bought once: the 48 h "seen" key has not expired.
DistinctMints ==
    CHOOSE f \in [Buys -> Mints] : \A a, b \in Buys : a # b => f[a] # f[b]

\* The goroutines of one kind are interchangeable.
Threads == Permutations(Checks) \cup Permutations(Sells)
=============================================================================
