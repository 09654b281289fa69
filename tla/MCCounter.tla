------------------------------- MODULE MCCounter -------------------------------
(* Instances of Counter for TLC. *)
EXTENDS Counter, TLC

CONSTANTS l1, c1, s1, s2, w1, w2

MCPrice == l1 :> 6

CounterSymmetry == Permutations({w1, w2}) \cup Permutations({s1, s2})
=============================================================================
