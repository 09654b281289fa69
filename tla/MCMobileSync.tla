----------------------------- MODULE MCMobileSync ------------------------------
(* Instances of MobileSync for TLC. *)
EXTENDS MobileSyncInv, TLC

CONSTANTS x1, x2, r1, r2

RunSymmetry == Permutations({r1, r2})
FullSymmetry == Permutations({r1, r2}) \cup Permutations({x1, x2})
=============================================================================
