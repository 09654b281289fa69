-------------------------------- MODULE MCStock --------------------------------
(* Instances of Stock for TLC: two products; nothing that the job uses or      *)
(* makes has an inventory item, or else it could not be completed.             *)
EXTENDS Stock, TLC

CONSTANTS p1, p2, w1, w2, po, take, job, bulk

MCOpening == p1 :> 1 @@ p2 :> 2
MCAdjustments == p1 :> {-1} @@ p2 :> {}
MCSales == p1 :> {1} @@ p2 :> {}
MCEntries == p1 :> {1} @@ p2 :> {}
MCShifts == {-1}
MCBatches == {{p1}}
MCOmissions == {{}, {p1, p2}}
MCLines == po :> (p1 :> 1 @@ p2 :> 2)

WorkerSymmetry == Permutations({w1, w2})
=============================================================================
