------------------------------ MODULE Production -------------------------------
(***************************************************************************)
(* Production orders (backend/app/services/production_service.py): started,*)
(* then completed, which is to take the ingredients out of stock and put   *)
(* the product in.  The row of the log for either names a transaction type *)
(* that models/inventory.py does not define, so the code raises there and  *)
(* the request is rolled back: a production order is only ever completed   *)
(* if nothing that it uses or makes has an inventory item.                 *)
(***************************************************************************)
EXTENDS StockTables

CONSTANT Stocked   \* the jobs that use or make something with an inventory item

ASSUME ProductionAssumption == Stocked \subseteq Jobs

StartProduction(w, j) ==
  /\ status[j] = "draft"
  /\ Begin(w, Opened("start_job", j, "in_progress"))

\* Raises for a stocked job; of the others only the status is written.
CompleteProduction(w, j) ==
  /\ status[j] = "in_progress" /\ j \notin Stocked
  /\ Begin(w, Opened("complete_job", j, "completed"))

ProductionNext ==
  \E w \in Workers, j \in Jobs : StartProduction(w, j) \/ CompleteProduction(w, j)
=============================================================================
