---------------------------- MODULE OrderManagement ----------------------------
(***************************************************************************)
(* backend/app/services/order_management_service.py behind                 *)
(* backend/app/api/order_management.py: the restaurant's second way to the *)
(* same tables.  The tables people sit at and the status history are left  *)
(* out.                                                                    *)
(***************************************************************************)
EXTENDS OrderTables

CONSTANTS
  Fees,     \* delivery fees a request may set
  Wanted    \* statuses a request may ask for

ASSUME ManagementAssumption ==
  /\ Fees \subseteq Int
  /\ Wanted \subseteq OrderStatus

VALID_TRANSITIONS ==
  [s \in OrderStatus |->
     CASE s = "draft"      -> {"pending", "confirmed", "cancelled"}
       [] s = "pending"    -> {"confirmed", "processing", "cancelled"}
       [] s = "confirmed"  -> {"processing", "cancelled"}
       [] s = "processing" -> {"shipped", "delivered", "cancelled"}
       [] s = "shipped"    -> {"delivered", "cancelled"}
       [] s = "delivered"  -> {"received", "refunded"}
       [] s = "received"   -> {"refunded"}
       [] OTHER            -> {}]

ManageStatus(w, o, s) ==
  /\ s \in VALID_TRANSITIONS[orders[o].status]
  /\ Begin(w, o, Loaded(o, [orders[o] EXCEPT !.status = s], "none"))

OpenTab(o) ==
  /\ Request
  /\ FreshOrder(o)
  /\ orders' = [orders EXCEPT ![o] = [Blank EXCEPT !.state = "live", !.tab = TRUE]]
  /\ UNCHANGED <<itemOrder, itemLive, txn, ghostVars>>

CloseTab(w, o) ==
  /\ orders[o].tab
  /\ Begin(w, o, Loaded(o, [orders[o] EXCEPT !.tab = FALSE, !.status = "confirmed"], "none"))

\* Items added here carry no discount.
AddItemToOrder(w, o, i) ==
  /\ orders[o].status \notin {"cancelled", "refunded"}
  /\ FreshItem(i) /\ Discounts({i}) = 0
  /\ Begin(w, o, [Loaded(o, orders[o], "management") EXCEPT !.added = {i}, !.dest = o])

RemoveItemFromOrder(w, o, i) ==
  Begin(w, o, [Loaded(o, orders[o], "management") EXCEPT !.gone = {i}])

\* Into o; the other orders are cancelled, unless they were loaded so.
MergeOrders(w, o, S) ==
  /\ S # {} /\ o \notin S
  /\ \A s \in S : orders[s].state = "live"
  /\ Begin(w, o, [Loaded(o, orders[o], "management") EXCEPT
                    !.dest = o, !.sources = S,
                    !.cancels = {s \in S : orders[s].status # "cancelled"}])

\* The items named in the request, out of o into a new order.
SplitOrder(w, o, new, S) ==
  /\ FreshOrder(new) /\ S # {}
  /\ Begin(w, o, [Loaded(o, orders[o], "management") EXCEPT !.dest = new, !.moved = S])

SetDeliveryInfo(w, o, fee) ==
  Begin(w, o, Loaded(o, [orders[o] EXCEPT !.fee = fee], "management"))

\* order.items as loaded with the order, without what this request has marked
\* deleted.  Inserted and moved items do not enter or leave the collection.
ActiveItems(t) == LiveItems(t.order) \ t.gone

\* Of a split the live items of the order move, of a merge all items of the
\* other orders.
Moves(t) == IF t.sources = {} THEN t.moved \cap LiveItems(t.order)
            ELSE {i \in Items : itemOrder[i] \in t.sources}

\* An item to be removed must be a live one of the order, and a split must
\* find one to move; otherwise the answer is 404 or 400.
RecalculateOrderTotals(w) ==
  LET t == txn[w]
      S == ActiveItems(t) IN
  /\ t.phase = "read" /\ t.calc = "management"
  /\ t.gone \subseteq LiveItems(t.order)
  /\ t.moved # {} => Moves(t) # {}
  /\ txn' = [txn EXCEPT ![w] = [t EXCEPT !.phase = "write",
                                         !.moved = Moves(t),
                                         !.new.discount = Discounts(S),
                                         !.new.total = Net(S) + t.new.fee]]
  /\ UNCHANGED <<tableVars, requests, ghostVars>>

ManagementNext ==
  \/ \E o \in Orders : OpenTab(o)
  \/ \E w \in Workers, o \in Orders :
       \/ \E s \in Wanted : ManageStatus(w, o, s)
       \/ CloseTab(w, o)
       \/ \E i \in Items : AddItemToOrder(w, o, i) \/ RemoveItemFromOrder(w, o, i)
       \/ \E S \in SUBSET Orders : MergeOrders(w, o, S)
       \/ \E new \in Orders, S \in SUBSET Items : SplitOrder(w, o, new, S)
       \/ \E fee \in Fees : SetDeliveryInfo(w, o, fee)
  \/ \E w \in Workers : RecalculateOrderTotals(w)
=============================================================================
