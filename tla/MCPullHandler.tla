----------------------------- MODULE MCPullHandler -----------------------------
(* Instances of PullHandler for TLC: three products, of which a pull asks for  *)
(* two at the most, a customer and an order.                                   *)
EXTENDS PullHandler, TLC

CONSTANTS products, customers, orders, a, b, c, d, e, s1, s2, s3

MCEntities == <<products, customers, orders>>
MCEntityOf == a :> products @@ b :> products @@ c :> products @@ d :> customers @@ e :> orders
MCStrategy == products :> "last-write-wins" @@ customers :> "client-wins" @@ orders :> "server-wins"

PullSymmetry == Permutations({a, b, c}) \cup Permutations({s1, s2, s3})
=============================================================================
