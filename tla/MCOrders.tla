-------------------------------- MODULE MCOrders -------------------------------
(* Instances of Orders for TLC: two items of 25 and 30 cents, the first with *)
(* a discount of 5.                                                           *)
EXTENDS Orders, FiniteSetsExt, TLC

CONSTANTS o1, o2, i1, i2, w1, w2

MCGross(S) == SumSet({IF i = i1 THEN 25 ELSE 30 : i \in S})
MCDiscounts(S) == IF i1 \in S THEN 5 ELSE 0

\* Of the balances that occur, those with float(b) < b.
MCRoundsDown == {15, 30, 35, 60, 70}

MCSymmetry == Permutations({o1, o2}) \cup Permutations({w1, w2})
=============================================================================
