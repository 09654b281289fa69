-------------------------------- MODULE Orders ---------------------------------
(***************************************************************************)
(* Orders as the server processes work on them: the two services over the  *)
(* same two tables, any number of requests at once, each of which may fail *)
(* before its commit.  The properties say what is left of the bill and of  *)
(* the money when nothing is locked.                                       *)
(***************************************************************************)
EXTENDS OrderService, OrderManagement

Init == TablesInit

Next ==
  \/ ServiceNext
  \/ ManagementNext
  \/ \E w \in Workers : Commit(w) \/ Abandon(w)

Spec == Init /\ [][Next]_vars

\* Types of the tables, the requests under way and the history.
TypeOK ==
  /\ orders \in [Orders -> Row]
  /\ itemOrder \in [Items -> Orders \cup {NoOrder}]
  /\ itemLive \in [Items -> BOOLEAN]
  /\ txn \in [Workers -> Txn]
  /\ requests \in Nat
  /\ peak \in [Orders -> Int]
  /\ received \in [Orders -> Int]
  /\ payRaced \subseteq Orders
  /\ billRaced \subseteq Orders
  /\ managed \subseteq Orders

-----------------------------------------------------------------------------
\* However payments, changes of the bill and deaths interleave, the amount an
\* order records as paid never exceeds the greatest total it has had.
RecordedWithinPeak == \A o \in Orders : orders[o].paid <= peak[o]

\* No money is recorded that was not taken.
RecordedWasReceived == \A o \in Orders : orders[o].paid <= received[o]

\* Money that was taken goes unrecorded only where two payments of one order
\* overlap; no other request, however stale its copy of the row, undoes one.
LossNeedsOverlap ==
  \A o \in Orders : orders[o].paid = received[o] \/ o \in payRaced

\* What order_service alone does to a bill, without two changes of it at once,
\* never makes it less than the items on it cost.
BillNotTooLow ==
  \A o \in Orders \ (billRaced \cup managed) :
    orders[o].total >= Net(LiveItems(o)) - orders[o].discount

-----------------------------------------------------------------------------
(* The parts of the inductive invariant. *)

Paying(t) == t.phase # "idle" /\ t.amount # 0
Billing(t) == t.phase # "idle" /\ t.calc = "service"

\* What a request under way looks like.
WellFormed(t) ==
  \/ t = Idle
  \/ /\ t.phase # "idle" /\ t.order \in Orders
     /\ t.row.state = "live" /\ t.new.state # "none"
     /\ t.new.paid = t.row.paid + t.amount
     /\ t.amount >= 0 /\ (t.amount # 0 => t.calc = "none")
     /\ t.cancels \subseteq t.sources
     /\ t.calc # "management" => t.sources = {} /\ t.moved = {} /\ t.dest \in {NoOrder, t.order}
     /\ t.sources # {} => t.dest = t.order
     /\ t.added \cup t.moved # {} => t.dest \in Orders
     /\ t.calc = "none" => /\ t.phase = "write"
                           /\ t.new.total = t.row.total /\ t.new.discount = t.row.discount
                           /\ t.added = {} /\ t.gone = {}

\* Only existing orders have items or requests under way.
KnownInv ==
  /\ \A o \in Orders : orders[o].state = "none" => orders[o] = Blank
  /\ \A i \in Items : itemOrder[i] \in Orders => orders[itemOrder[i]].state # "none"
  /\ \A i \in Items : itemLive[i] => itemOrder[i] \in Orders
  /\ \A w \in Workers : txn[w].phase # "idle" => orders[txn[w].order].state # "none"
  /\ \A w \in Workers : \A s \in txn[w].cancels : orders[s].state # "none"

OpenInv == \A w \in Workers : WellFormed(txn[w])

\* A payment was checked against a total the order once had and adds to money
\* that was once recorded.
PaymentInv ==
  \A w \in Workers : LET t == txn[w] IN
    Paying(t) => /\ t.new.paid <= peak[t.order]
                 /\ t.row.paid <= received[t.order]
                 /\ t.row.paid = orders[t.order].paid \/ t.order \in payRaced

\* The total of a live order is a total it has had.
PeakInv == \A o \in Orders : orders[o].total <= peak[o]

\* Without a race the row and the items a change of the bill works on are the
\* committed ones.
BillInv ==
  \A w \in Workers : LET t == txn[w] IN
    Billing(t) /\ t.order \notin billRaced \cup managed =>
      /\ t.row.total = orders[t.order].total
      /\ t.row.discount = orders[t.order].discount
      /\ t.phase = "write" =>
           t.new.total >= Net(LiveItems(t.order) \cup t.added) - t.new.discount

\* Inductive, and stronger than the four properties.
IInv ==
  /\ TypeOK
  /\ OpenInv
  /\ KnownInv
  /\ PeakInv
  /\ PaymentInv
  /\ BillInv
  /\ RecordedWithinPeak
  /\ RecordedWasReceived
  /\ LossNeedsOverlap
  /\ BillNotTooLow

-----------------------------------------------------------------------------
(* What the code says of itself and does not keep. *)

\* test_properties_orders.py, Property 2: an order's total is the sum of its
\* items.  Stated where only order_service worked, one request after another.
TotalIsSum ==
  \A o \in Orders \ (billRaced \cup managed) :
    orders[o].total = Net(LiveItems(o)) - orders[o].discount

\* "Recalculate order totals from items": after a request of the management
\* service, alone on the order, the total is what the order's items cost.
ManagedTotalIsSum ==
  [][\A w \in Workers :
       Commit(w) /\ txn[w].calc = "management" /\ (\A v \in Workers \ {w} : txn[v] = Idle) =>
         LET o == txn[w].order IN
         orders'[o].total = Net(LiveItems(o)') + orders'[o].fee]_vars
=============================================================================
