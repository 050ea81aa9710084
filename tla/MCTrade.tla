------------------------------- MODULE MCTrade -------------------------------
(***************************************************************************)
(* Instances of Trade for TLC: amounts of two or three digits, TLC's own     *)
(* integers having 32 bits.                                                *)
(***************************************************************************)
EXTENDS Trade

R(b, q) == [base |-> b, quote |-> q]

\* Four points of one curve, the first with products that leave a word of 2^20; the
\* pool after a deposit of liquidity, and after a withdrawal of all of it; and a pool
\* whose sales have a denominator that leaves the word as well.
Moving == {R(740, 20), R(490, 30), R(370, 40), R(296, 50), R(620, 60), R(0, 0),
           R(2700, 5)}

\* A traded pool.
Traded == {R(1200, 20), R(800, 30), R(600, 40)}
=============================================================================
