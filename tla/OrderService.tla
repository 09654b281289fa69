------------------------------ MODULE OrderService -----------------------------
(***************************************************************************)
(* backend/app/services/order_service.py behind backend/app/api/orders.py: *)
(* orders, their items, totals and payments.  An answer of 4xx changes     *)
(* nothing and is no action.  Shipping is added to the total by every      *)
(* calculation alike and left out.                                         *)
(***************************************************************************)
EXTENDS OrderTables

CONSTANTS
  Payments,        \* amounts a payment may have
  OrderDiscounts,  \* order discounts an update may set
  Targets,         \* statuses a request may ask for
  StaffPayStatus,  \* payment statuses a request may set by itself
  RoundsDown       \* balances whose float is below the decimal amount

ASSUME ServiceAssumption ==
  /\ Payments \subseteq Nat \ {0}
  /\ OrderDiscounts \subseteq Int
  /\ Targets \subseteq OrderStatus
  /\ StaffPayStatus \subseteq PaymentStatus

\* _calculate_order_totals, for the items its query returns.
ServiceTotal(row, S) == Net(S) - row.discount

\* Items, totals and the row itself are committed together.  Two creates that
\* count the same number of orders violate order_number's unique constraint:
\* one is answered with 500 and leaves nothing.
CreateOrder(o, S, s, p) ==
  /\ Request
  /\ FreshOrder(o)
  /\ \A i \in S : FreshItem(i)
  /\ LET row == [Blank EXCEPT !.state = "live", !.status = s, !.pstat = p,
                              !.total = ServiceTotal(Blank, S)] IN
     /\ orders' = [orders EXCEPT ![o] = row]
     /\ peak' = [peak EXCEPT ![o] = Greater(@, row.total)]
  /\ itemOrder' = [i \in Items |-> IF i \in S THEN o ELSE itemOrder[i]]
  /\ itemLive' = [i \in Items |-> i \in S \/ itemLive[i]]
  /\ UNCHANGED <<txn, received, payRaced, billRaced, managed>>

\* A PUT sets any of the fields; one that is not sent keeps its loaded value.
UpdateOrder(w, o, d, s, p) ==
  Begin(w, o, Loaded(o, [orders[o] EXCEPT !.discount = d, !.status = s, !.pstat = p],
                     "service"))

\* No transition is refused here.
UpdateOrderStatus(w, o, s) ==
  Begin(w, o, Loaded(o, [orders[o] EXCEPT !.status = s], "none"))

\* Broken variant of Accepted: the endpoint does not look at the balance.
AcceptedAny(amount, balance) == TRUE

\* data.amount > order.balance_due compares a Decimal with a float, exactly: a
\* payment of the whole balance is refused where the float is the smaller one.
Accepted(amount, balance) ==
  amount < balance \/ (amount = balance /\ balance \notin RoundsDown)

\* Broken variant of PaidRow: the payment status is written to the status.
PaidRowMixed(row, amount) ==
  [row EXCEPT !.paid = row.paid + amount,
              !.status = IF row.paid + amount >= row.total THEN "paid" ELSE "partial"]

\* Broken variant of PaidRow: what was paid is the whole of the total.
PaidInFull(row, amount) == [row EXCEPT !.paid = row.total, !.pstat = "paid"]

PaidRow(row, amount) ==
  [row EXCEPT !.paid = row.paid + amount,
              !.pstat = IF row.paid + amount >= row.total THEN "paid" ELSE "partial"]

RecordPayment(w, o, amount) ==
  /\ Accepted(amount, orders[o].total - orders[o].paid)
  /\ Begin(w, o, [Loaded(o, PaidRow(orders[o], amount), "none") EXCEPT !.amount = amount])

DeleteOrder(w, o) ==
  Begin(w, o, Loaded(o, [orders[o] EXCEPT !.state = "deleted"], "none"))

\* The new item is flushed before the totals are computed.
AddOrderItem(w, o, i) ==
  /\ FreshItem(i)
  /\ Begin(w, o, [Loaded(o, orders[o], "service") EXCEPT !.added = {i}, !.dest = o])

\* The item is looked up whether it is deleted or not; an item that is not
\* found ends the request.
RemoveOrderItem(w, o, i) ==
  /\ itemOrder[i] = o
  /\ Begin(w, o, [Loaded(o, orders[o], "service") EXCEPT !.gone = {i}])

\* Broken variant of Counted: the item to be inserted is not flushed yet.
CountedUnflushed(t) == LiveItems(t.order)

\* The query sees the flushed insert, and it still sees the item that is only
\* marked deleted in memory.
Counted(t) == LiveItems(t.order) \cup t.added

CalculateOrderTotals(w) ==
  LET t == txn[w] IN
  /\ t.phase = "read" /\ t.calc = "service"
  /\ txn' = [txn EXCEPT ![w] = [t EXCEPT !.phase = "write",
                                         !.new.total = ServiceTotal(t.new, Counted(t))]]
  /\ UNCHANGED <<tableVars, requests, ghostVars>>

ServiceNext ==
  \/ \E o \in Orders, S \in SUBSET Items, s \in Targets, p \in StaffPayStatus \cup {"pending"} :
       CreateOrder(o, S, s, p)
  \/ \E w \in Workers, o \in Orders :
       \/ \E d \in OrderDiscounts \cup {orders[o].discount},
             s \in Targets \cup {orders[o].status},
             p \in StaffPayStatus \cup {orders[o].pstat} : UpdateOrder(w, o, d, s, p)
       \/ \E s \in Targets : UpdateOrderStatus(w, o, s)
       \/ \E amount \in Payments : RecordPayment(w, o, amount)
       \/ DeleteOrder(w, o)
       \/ \E i \in Items : AddOrderItem(w, o, i) \/ RemoveOrderItem(w, o, i)
  \/ \E w \in Workers : CalculateOrderTotals(w)
=============================================================================
