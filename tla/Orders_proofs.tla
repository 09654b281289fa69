----------------------------- MODULE Orders_proofs -----------------------------
(***************************************************************************)
(* Proofs about Orders, for every set of orders, items and workers and any *)
(* pricing.  Every request begins with a well-formed transaction, so the   *)
(* steps come down to six: a row is created, a request begins, its totals  *)
(* are computed in one of two ways, it is committed, or it is abandoned.   *)
(***************************************************************************)
EXTENDS Orders, TLAPS

-----------------------------------------------------------------------------
(* Rows and requests. *)

\* The column defaults are a row, and idle workers have a well-formed request.
LEMMA Defaults == Blank \in Row /\ Idle \in Txn /\ WellFormed(Idle)
BY DEF Blank, Row, Idle, Txn, WellFormed, OrderStatus, PaymentStatus

\* What a set of items costs is an amount, and more items cost no less.
LEMMA NetType ==
  ASSUME NEW S \in SUBSET Items
  PROVE  Net(S) \in Int /\ Gross(S) \in Int /\ Discounts(S) \in Int
BY OrderAssumption DEF Net

LEMMA NetMonotone ==
  ASSUME NEW S \in SUBSET Items, NEW T \in SUBSET Items, S \subseteq T
  PROVE  Net(S) <= Net(T)
BY OrderAssumption

\* Writing the changed columns of a row leaves a row.
LEMMA SavedType ==
  ASSUME NEW cur \in Row, NEW old \in Row, NEW new \in Row
  PROVE  Saved(cur, old, new) \in Row
BY DEF Saved, Column, Row

\* A column is left alone unless the request changed it.
LEMMA SavedColumns ==
  ASSUME NEW cur \in Row, NEW old \in Row, NEW new \in Row
  PROVE  LET s == Saved(cur, old, new) IN
         /\ new.total = old.total => s.total = cur.total
         /\ new.discount = old.discount => s.discount = cur.discount
         /\ new.paid = old.paid => s.paid = cur.paid
         /\ cur.total = old.total => s.total = new.total
         /\ cur.discount = old.discount => s.discount = new.discount
         /\ cur.paid = old.paid => s.paid = new.paid
         /\ s.total \in {cur.total, new.total}
         /\ s.paid \in {cur.paid, new.paid}
         /\ s.state \in {cur.state, new.state}
         /\ new.paid # old.paid => s.paid = new.paid
BY DEF Saved, Column, Row

-----------------------------------------------------------------------------
(* How requests begin. *)

\* What every request that begins on order o looks like.
Fresh(o, t) ==
  /\ t \in Txn /\ WellFormed(t) /\ t # Idle
  /\ t.order = o /\ t.row = orders[o]
  /\ t.calc # "none" => t.phase = "read"
  /\ t.amount # 0 => t.new.paid <= orders[o].total
  /\ \A s \in t.cancels : orders[s].state # "none"

\* A row as the request found it, or with some columns changed, begins well.
LEMMA LoadedFresh ==
  ASSUME TypeOK, NEW o \in Orders, orders[o].state = "live",
         NEW new \in Row, new.state # "none", new.paid = orders[o].paid,
         NEW calc \in {"none", "service", "management"},
         calc = "none" => new.total = orders[o].total /\ new.discount = orders[o].discount
  PROVE  /\ Fresh(o, Loaded(o, new, calc))
         /\ Loaded(o, new, calc) =
              [phase |-> IF calc = "none" THEN "write" ELSE "read", calc |-> calc,
               order |-> o, dest |-> NoOrder, row |-> orders[o], new |-> new,
               amount |-> 0, added |-> {}, gone |-> {}, moved |-> {},
               sources |-> {}, cancels |-> {}]
<1>1. Loaded(o, new, calc) =
        [phase |-> IF calc = "none" THEN "write" ELSE "read", calc |-> calc,
         order |-> o, dest |-> NoOrder, row |-> orders[o], new |-> new,
         amount |-> 0, added |-> {}, gone |-> {}, moved |-> {},
         sources |-> {}, cancels |-> {}]
  BY DEF Loaded, Idle
<1>2. orders[o] \in Row
  BY DEF TypeOK
<1>3. orders[o].paid \in Int
  BY <1>2 DEF Row
<1>4. Loaded(o, new, calc) \in Txn
  BY <1>1, <1>2 DEF Txn
<1>5. Loaded(o, new, calc) # Idle
  BY <1>1 DEF Idle
<1>6. WellFormed(Loaded(o, new, calc))
  BY <1>1, <1>3 DEF WellFormed
<1> QED BY <1>1, <1>4, <1>5, <1>6 DEF Fresh

\* The steps with which a request of a worker begins.
Begins(w, o) ==
  \/ \E d \in OrderDiscounts \cup {orders[o].discount},
        s \in Targets \cup {orders[o].status},
        p \in StaffPayStatus \cup {orders[o].pstat} : UpdateOrder(w, o, d, s, p)
  \/ \E s \in Targets : UpdateOrderStatus(w, o, s)
  \/ \E amount \in Payments : RecordPayment(w, o, amount)
  \/ DeleteOrder(w, o)
  \/ \E i \in Items : AddOrderItem(w, o, i) \/ RemoveOrderItem(w, o, i)
  \/ \E s \in Wanted : ManageStatus(w, o, s)
  \/ CloseTab(w, o)
  \/ \E i \in Items : AddItemToOrder(w, o, i) \/ RemoveItemFromOrder(w, o, i)
  \/ \E S \in SUBSET Orders : MergeOrders(w, o, S)
  \/ \E new \in Orders, S \in SUBSET Items : SplitOrder(w, o, new, S)
  \/ \E fee \in Fees : SetDeliveryInfo(w, o, fee)

\* Whatever the request, it begins with a fresh transaction.
LEMMA BeginsFresh ==
  ASSUME TypeOK, NEW w \in Workers, NEW o \in Orders, Begins(w, o)
  PROVE  \E t : Fresh(o, t) /\ Begin(w, o, t)
<1> DEFINE r == orders[o]
<1>0. r \in Row
  BY DEF TypeOK
<1>1. CASE \E d \in OrderDiscounts \cup {orders[o].discount},
              s \in Targets \cup {orders[o].status},
              p \in StaffPayStatus \cup {orders[o].pstat} : UpdateOrder(w, o, d, s, p)
  <2>1. PICK d \in OrderDiscounts \cup {orders[o].discount},
             s \in Targets \cup {orders[o].status},
             p \in StaffPayStatus \cup {orders[o].pstat} : UpdateOrder(w, o, d, s, p)
    BY <1>1
  <2> DEFINE new == [r EXCEPT !.discount = d, !.status = s, !.pstat = p]
  <2>2. d \in Int /\ s \in OrderStatus /\ p \in PaymentStatus
    BY <1>0, ServiceAssumption DEF Row
  <2>3. new \in Row /\ new.state = r.state /\ new.paid = r.paid
    BY <1>0, <2>2 DEF Row
  <2>4. Begin(w, o, Loaded(o, new, "service")) /\ r.state = "live"
    BY <2>1 DEF UpdateOrder, Begin
  <2> QED BY <2>3, <2>4, LoadedFresh
<1>2. CASE \/ \E s \in Targets : UpdateOrderStatus(w, o, s)
           \/ \E s \in Wanted : ManageStatus(w, o, s)
  <2>1. PICK s \in Targets \cup Wanted : UpdateOrderStatus(w, o, s) \/ ManageStatus(w, o, s)
    BY <1>2
  <2> DEFINE new == [r EXCEPT !.status = s]
  <2>2. s \in OrderStatus
    BY ServiceAssumption, ManagementAssumption
  <2>3. /\ new \in Row /\ new.state = r.state /\ new.paid = r.paid
        /\ new.total = r.total /\ new.discount = r.discount
    BY <1>0, <2>2 DEF Row
  <2>4. Begin(w, o, Loaded(o, new, "none")) /\ r.state = "live"
    BY <2>1 DEF UpdateOrderStatus, ManageStatus, Begin
  <2> QED BY <2>3, <2>4, LoadedFresh
<1>3. CASE DeleteOrder(w, o)
  <2> DEFINE new == [r EXCEPT !.state = "deleted"]
  <2>1. /\ new \in Row /\ new.state = "deleted" /\ new.paid = r.paid
        /\ new.total = r.total /\ new.discount = r.discount
    BY <1>0 DEF Row
  <2>2. Begin(w, o, Loaded(o, new, "none")) /\ r.state = "live"
    BY <1>3 DEF DeleteOrder, Begin
  <2> QED BY <2>1, <2>2, LoadedFresh
<1>4. CASE CloseTab(w, o)
  <2> DEFINE new == [r EXCEPT !.tab = FALSE, !.status = "confirmed"]
  <2>1. /\ new \in Row /\ new.state = r.state /\ new.paid = r.paid
        /\ new.total = r.total /\ new.discount = r.discount
    BY <1>0 DEF Row, OrderStatus
  <2>2. Begin(w, o, Loaded(o, new, "none")) /\ r.state = "live"
    BY <1>4 DEF CloseTab, Begin
  <2> QED BY <2>1, <2>2, LoadedFresh
<1>5. CASE \E fee \in Fees : SetDeliveryInfo(w, o, fee)
  <2>1. PICK fee \in Fees : SetDeliveryInfo(w, o, fee)
    BY <1>5
  <2> DEFINE new == [r EXCEPT !.fee = fee]
  <2>2. fee \in Int
    BY ManagementAssumption
  <2>3. new \in Row /\ new.state = r.state /\ new.paid = r.paid
    BY <1>0, <2>2 DEF Row
  <2>4. Begin(w, o, Loaded(o, new, "management")) /\ r.state = "live"
    BY <2>1 DEF SetDeliveryInfo, Begin
  <2> QED BY <2>3, <2>4, LoadedFresh
<1>6. CASE \E amount \in Payments : RecordPayment(w, o, amount)
  <2>1. PICK amount \in Payments : RecordPayment(w, o, amount)
    BY <1>6
  <2> DEFINE new == PaidRow(r, amount)
             l == Loaded(o, new, "none")
             t == [l EXCEPT !.amount = amount]
  <2>2. amount \in Int /\ amount > 0
    BY ServiceAssumption
  <2>3. r.state = "live" /\ Begin(w, o, t)
    BY <2>1 DEF RecordPayment, Begin
  <2>4. r.paid \in Int /\ r.total \in Int
    BY <1>0 DEF Row
  <2>5. r.paid + amount <= r.total
    BY <2>1, <2>2, <2>4 DEF RecordPayment, Accepted
  <2> DEFINE pstat == IF r.paid + amount >= r.total THEN "paid" ELSE "partial"
  <2>6. /\ new \in Row /\ new.state = r.state /\ new.paid = r.paid + amount
        /\ new.total = r.total /\ new.discount = r.discount
    <3>1. new = [r EXCEPT !.paid = r.paid + amount, !.pstat = pstat]
      BY DEF PaidRow
    <3>2. pstat \in PaymentStatus /\ r.paid + amount \in Int
      BY <2>2, <2>4 DEF PaymentStatus
    <3> HIDE DEF pstat, new
    <3> QED BY <1>0, <3>1, <3>2 DEF Row
  <2>7. /\ l.phase = "write" /\ l.calc = "none" /\ l.order = o /\ l.dest = NoOrder
        /\ l.row = r /\ l.new = new /\ l.added = {} /\ l.gone = {} /\ l.moved = {}
        /\ l.sources = {} /\ l.cancels = {}
    BY DEF Loaded
  <2>8. l \in Txn
    BY <1>0, <2>6 DEF Loaded, Txn
  <2> HIDE DEF new, l
  <2>9. /\ t \in Txn /\ t.phase = "write" /\ t.calc = "none" /\ t.order = o
        /\ t.dest = NoOrder /\ t.row = r /\ t.new = new /\ t.amount = amount
        /\ t.added = {} /\ t.gone = {} /\ t.moved = {} /\ t.sources = {} /\ t.cancels = {}
    BY <2>2, <2>7, <2>8 DEF Txn
  <2> HIDE DEF t
  <2>10. t # Idle
    BY <2>9 DEF Idle
  <2>11. WellFormed(t)
    BY <2>2, <2>3, <2>6, <2>9 DEF WellFormed
  <2>12. Fresh(o, t)
    BY <2>5, <2>6, <2>9, <2>10, <2>11 DEF Fresh
  <2> QED BY <2>3, <2>12 DEF t
<1>7. CASE \E i \in Items : AddOrderItem(w, o, i) \/ RemoveOrderItem(w, o, i)
                           \/ AddItemToOrder(w, o, i) \/ RemoveItemFromOrder(w, o, i)
  <2>1. PICK i \in Items : AddOrderItem(w, o, i) \/ RemoveOrderItem(w, o, i)
                           \/ AddItemToOrder(w, o, i) \/ RemoveItemFromOrder(w, o, i)
    BY <1>7
  <2>2. PICK calc \in {"service", "management"} :
          \/ Begin(w, o, [Loaded(o, r, calc) EXCEPT !.added = {i}, !.dest = o])
          \/ Begin(w, o, [Loaded(o, r, calc) EXCEPT !.gone = {i}])
    BY <2>1 DEF AddOrderItem, RemoveOrderItem, AddItemToOrder, RemoveItemFromOrder
  <2>3. r.state = "live"
    BY <2>2 DEF Begin
  <2>4. r.paid \in Int
    BY <1>0 DEF Row
  <2> DEFINE l == Loaded(o, r, calc)
  <2>5. /\ l \in Txn /\ l.phase = "read" /\ l.calc = calc /\ l.order = o
        /\ l.dest = NoOrder /\ l.row = r /\ l.new = r /\ l.amount = 0
        /\ l.added = {} /\ l.gone = {} /\ l.moved = {} /\ l.sources = {} /\ l.cancels = {}
    BY <1>0 DEF Loaded, Txn
  <2> HIDE DEF l
  <2>6. PICK t \in Txn :
          /\ Begin(w, o, t)
          /\ t.phase = "read" /\ t.calc = calc /\ t.order = o
          /\ t.row = r /\ t.new = r /\ t.amount = 0
          /\ t.moved = {} /\ t.sources = {} /\ t.cancels = {}
          /\ t.dest \in {NoOrder, o} /\ (t.added # {} => t.dest = o)
    <3>1. CASE Begin(w, o, [l EXCEPT !.added = {i}, !.dest = o])
      <4> DEFINE t == [l EXCEPT !.added = {i}, !.dest = o]
      <4>1. /\ t \in Txn /\ t.phase = "read" /\ t.calc = calc /\ t.order = o
            /\ t.row = r /\ t.new = r /\ t.amount = 0
            /\ t.moved = {} /\ t.sources = {} /\ t.cancels = {} /\ t.dest = o
        BY <2>5 DEF Txn
      <4> HIDE DEF t
      <4> QED BY <3>1, <4>1 DEF t
    <3>2. CASE Begin(w, o, [l EXCEPT !.gone = {i}])
      <4> DEFINE t == [l EXCEPT !.gone = {i}]
      <4>1. /\ t \in Txn /\ t.phase = "read" /\ t.calc = calc /\ t.order = o
            /\ t.row = r /\ t.new = r /\ t.amount = 0 /\ t.added = {}
            /\ t.moved = {} /\ t.sources = {} /\ t.cancels = {} /\ t.dest = NoOrder
        BY <2>5 DEF Txn
      <4> HIDE DEF t
      <4> QED BY <3>2, <4>1 DEF t
    <3> QED BY <2>2, <3>1, <3>2 DEF l
  <2>7. t # Idle
    BY <2>6 DEF Idle
  <2>8. WellFormed(t)
    BY <2>3, <2>4, <2>6 DEF WellFormed
  <2> QED BY <2>6, <2>7, <2>8 DEF Fresh
<1>8. CASE \/ \E S \in SUBSET Orders : MergeOrders(w, o, S)
           \/ \E new \in Orders, S \in SUBSET Items : SplitOrder(w, o, new, S)
  <2>1. r.paid \in Int /\ r.state = "live"
    BY <1>0, <1>8 DEF Row, MergeOrders, SplitOrder, Begin
  <2> DEFINE l == Loaded(o, r, "management")
  <2>2. /\ l \in Txn /\ l.phase = "read" /\ l.calc = "management" /\ l.order = o
        /\ l.dest = NoOrder /\ l.row = r /\ l.new = r /\ l.amount = 0
        /\ l.added = {} /\ l.gone = {} /\ l.moved = {} /\ l.sources = {} /\ l.cancels = {}
    BY <1>0 DEF Loaded, Txn
  <2> HIDE DEF l
  <2>3. PICK t \in Txn :
          /\ Begin(w, o, t)
          /\ t.phase = "read" /\ t.calc = "management" /\ t.order = o
          /\ t.row = r /\ t.new = r /\ t.amount = 0 /\ t.dest \in Orders
          /\ t.cancels \subseteq t.sources /\ (t.sources # {} => t.dest = o)
          /\ \A s \in t.cancels : orders[s].state # "none"
    <3>1. CASE \E S \in SUBSET Orders : MergeOrders(w, o, S)
      <4>1. PICK S \in SUBSET Orders : MergeOrders(w, o, S)
        BY <3>1
      <4> DEFINE C == {s \in S : orders[s].status # "cancelled"}
      <4>2. Begin(w, o, [l EXCEPT !.dest = o, !.sources = S, !.cancels = C])
        BY <4>1 DEF MergeOrders, l
      <4>3. C \in SUBSET Orders /\ C \subseteq S /\ \A s \in C : orders[s].state # "none"
        BY <4>1 DEF MergeOrders
      <4> HIDE DEF C
      <4> DEFINE t == [l EXCEPT !.dest = o, !.sources = S, !.cancels = C]
      <4>4. /\ t \in Txn /\ t.phase = "read" /\ t.calc = "management" /\ t.order = o
            /\ t.row = r /\ t.new = r /\ t.amount = 0 /\ t.dest = o
            /\ t.cancels = C /\ t.sources = S
        BY <2>2, <4>3 DEF Txn
      <4> HIDE DEF t
      <4> QED BY <4>2, <4>3, <4>4 DEF t
    <3>2. CASE \E new \in Orders, S \in SUBSET Items : SplitOrder(w, o, new, S)
      <4>1. PICK new \in Orders, S \in SUBSET Items : SplitOrder(w, o, new, S)
        BY <3>2
      <4> DEFINE t == [l EXCEPT !.dest = new, !.moved = S]
      <4>2. /\ t \in Txn /\ t.phase = "read" /\ t.calc = "management" /\ t.order = o
            /\ t.row = r /\ t.new = r /\ t.amount = 0 /\ t.dest = new
            /\ t.cancels = {} /\ t.sources = {}
        BY <2>2 DEF Txn
      <4>3. Begin(w, o, t)
        BY <4>1 DEF SplitOrder, l
      <4> HIDE DEF t
      <4> QED BY <4>2, <4>3
    <3> QED BY <1>8, <3>1, <3>2
  <2>4. t # Idle
    BY <2>3 DEF Idle
  <2>5. WellFormed(t)
    BY <2>1, <2>3 DEF WellFormed
  <2> QED BY <2>3, <2>4, <2>5 DEF Fresh
<1> QED BY <1>1, <1>2, <1>3, <1>4, <1>5, <1>6, <1>7, <1>8 DEF Begins

-----------------------------------------------------------------------------
(* Steps that begin, compute or abandon a request. *)

\* A step that leaves the tables and the history alone, and gives one worker a
\* request that fits them, keeps the invariant.
LEMMA RequestStep ==
  ASSUME IInv, NEW w \in Workers, NEW t \in Txn, WellFormed(t),
         txn' = [txn EXCEPT ![w] = t], UNCHANGED <<tableVars, ghostVars>>, requests' \in Nat,
         t.phase # "idle" => orders[t.order].state # "none",
         \A s \in t.cancels : orders[s].state # "none",
         Paying(t) => /\ t.new.paid <= peak[t.order]
                      /\ t.row.paid <= received[t.order]
                      /\ t.row.paid = orders[t.order].paid \/ t.order \in payRaced,
         Billing(t) /\ t.order \notin billRaced \cup managed =>
           /\ t.row.total = orders[t.order].total
           /\ t.row.discount = orders[t.order].discount
           /\ t.phase = "write" =>
                t.new.total >= Net(LiveItems(t.order) \cup t.added) - t.new.discount
  PROVE  IInv'
<1>0. \A v \in Workers : txn'[v] = IF v = w THEN t ELSE txn[v]
  BY DEF IInv, TypeOK
<1>1. \A o \in Orders : LiveItems(o)' = LiveItems(o)
  BY DEF LiveItems, tableVars
<1>2. TypeOK'
  BY DEF IInv, TypeOK, tableVars, ghostVars
<1>3. OpenInv'
  BY <1>0 DEF IInv, OpenInv
<1>4. KnownInv'
  <2>1. \A v \in Workers : txn'[v].phase # "idle" => orders[txn'[v].order].state # "none"
    BY <1>0 DEF IInv, KnownInv
  <2>2. \A v \in Workers : \A s \in txn'[v].cancels : orders[s].state # "none"
    BY <1>0 DEF IInv, KnownInv
  <2> QED BY <2>1, <2>2 DEF IInv, KnownInv, tableVars
<1>5. PaymentInv'
  BY <1>0 DEF IInv, PaymentInv, tableVars, ghostVars
<1>6. BillInv'
  <2> SUFFICES ASSUME NEW v \in Workers, Billing(txn'[v]),
                      txn'[v].order \notin billRaced \cup managed
               PROVE  /\ txn'[v].row.total = orders[txn'[v].order].total
                      /\ txn'[v].row.discount = orders[txn'[v].order].discount
                      /\ txn'[v].phase = "write" =>
                           txn'[v].new.total >=
                             Net(LiveItems(txn'[v].order) \cup txn'[v].added)
                               - txn'[v].new.discount
    BY DEF BillInv, Billing, LiveItems, tableVars, ghostVars
  <2>1. CASE v = w
    BY <1>0, <2>1
  <2>2. CASE v # w
    BY <1>0, <2>2 DEF IInv, BillInv
  <2> QED BY <2>1, <2>2
<1>7. PeakInv' /\ RecordedWithinPeak' /\ RecordedWasReceived' /\ LossNeedsOverlap'
  BY DEF IInv, PeakInv, RecordedWithinPeak, RecordedWasReceived, LossNeedsOverlap,
         tableVars, ghostVars
<1>8. BillNotTooLow'
  BY <1>1 DEF IInv, BillNotTooLow, tableVars, ghostVars
<1> QED BY <1>2, <1>3, <1>4, <1>5, <1>6, <1>7, <1>8 DEF IInv

\* A request that begins works on the committed row.
LEMMA BeginInv ==
  ASSUME IInv, NEW w \in Workers, NEW o \in Orders, Begins(w, o)
  PROVE  IInv'
<1>1. PICK t : Fresh(o, t) /\ Begin(w, o, t)
  BY BeginsFresh DEF IInv
<1>2. /\ t \in Txn /\ WellFormed(t) /\ t.order = o /\ t.row = orders[o]
      /\ t.calc # "none" => t.phase = "read"
      /\ t.amount # 0 => t.new.paid <= orders[o].total
      /\ \A s \in t.cancels : orders[s].state # "none"
  BY <1>1 DEF Fresh
<1>3. /\ txn' = [txn EXCEPT ![w] = t] /\ UNCHANGED <<tableVars, ghostVars>>
      /\ orders[o].state = "live" /\ requests' \in Nat
  BY <1>1 DEF Begin, Request, IInv, TypeOK
<1>4. orders[o] \in Row /\ t.new \in Row /\ peak[o] \in Int
  BY <1>2 DEF IInv, TypeOK, Txn
<1>5. Paying(t) => /\ t.new.paid <= peak[o]
                   /\ t.row.paid <= received[o]
                   /\ t.row.paid = orders[o].paid
  <2>1. orders[o].total <= peak[o] /\ orders[o].paid <= received[o]
    BY DEF IInv, PeakInv, RecordedWasReceived
  <2>2. t.new.paid \in Int /\ orders[o].total \in Int
    BY <1>4 DEF Row
  <2> QED BY <1>2, <1>4, <2>1, <2>2 DEF Paying
<1>6. Billing(t) => t.phase = "read"
  BY <1>2 DEF Billing
<1> QED BY <1>2, <1>3, <1>5, <1>6, RequestStep

\* The totals of order_service count every live item, and any item about to
\* be inserted.
LEMMA CalculateInv ==
  ASSUME IInv, NEW w \in Workers, CalculateOrderTotals(w)
  PROVE  IInv'
<1> DEFINE t == txn[w]
           total == ServiceTotal(t.new, Counted(t))
           new == [t.new EXCEPT !.total = total]
           u == [t EXCEPT !.phase = "write", !.new.total = total]
<1>1. t \in Txn /\ WellFormed(t) /\ t.phase = "read" /\ t.calc = "service" /\ t # Idle
  BY DEF CalculateOrderTotals, IInv, TypeOK, OpenInv, Idle
<1>2. t.order \in Orders /\ t.new \in Row /\ t.added \in SUBSET Items /\ t.amount = 0
  BY <1>1 DEF WellFormed, Txn
<1>3. LiveItems(t.order) \cup t.added \in SUBSET Items
  BY <1>2 DEF LiveItems
<1>4. total = Net(LiveItems(t.order) \cup t.added) - t.new.discount /\ total \in Int
  BY <1>2, <1>3, NetType DEF ServiceTotal, Counted, Row
<1>5. new \in Row /\ new.total = total /\ new.discount = t.new.discount
      /\ new.paid = t.new.paid /\ new.state = t.new.state
  BY <1>2, <1>4 DEF Row
<1>6. /\ u \in Txn /\ u.phase = "write" /\ u.calc = t.calc /\ u.order = t.order
      /\ u.dest = t.dest /\ u.row = t.row /\ u.new = new /\ u.amount = t.amount
      /\ u.added = t.added /\ u.gone = t.gone /\ u.moved = t.moved
      /\ u.sources = t.sources /\ u.cancels = t.cancels
  <2> HIDE DEF total
  <2>1. u = [t EXCEPT !.phase = "write", !.new = new]
    BY <1>1 DEF Txn
  <2> HIDE DEF u, new
  <2> QED BY <1>1, <1>5, <2>1 DEF Txn
<1>7. txn' = [txn EXCEPT ![w] = u] /\ UNCHANGED <<tableVars, requests, ghostVars>>
  BY DEF CalculateOrderTotals
<1> HIDE DEF t, u, new, total
<1>8. WellFormed(u)
  BY <1>1, <1>5, <1>6 DEF WellFormed, Idle
<1>9. orders[u.order].state # "none" /\ \A s \in u.cancels : orders[s].state # "none"
  BY <1>1, <1>6 DEF IInv, KnownInv, t
<1>10. ~Paying(u)
  BY <1>2, <1>6 DEF Paying
<1>11. u.order \notin billRaced \cup managed =>
         /\ u.row.total = orders[u.order].total
         /\ u.row.discount = orders[u.order].discount
  BY <1>1, <1>6 DEF IInv, BillInv, Billing, t
<1>12. u.new.total >= Net(LiveItems(u.order) \cup u.added) - u.new.discount
  BY <1>4, <1>5, <1>6
<1>13. requests' \in Nat
  BY <1>7 DEF IInv, TypeOK
<1> QED BY <1>6, <1>7, <1>8, <1>9, <1>10, <1>11, <1>12, <1>13, RequestStep

\* The totals of the management service concern only orders it has on its list.
LEMMA RecalculateInv ==
  ASSUME IInv, NEW w \in Workers, RecalculateOrderTotals(w)
  PROVE  IInv'
<1> DEFINE t == txn[w]
           S == ActiveItems(t)
           d == Discounts(S)
           total == Net(S) + t.new.fee
           moved == Moves(t)
           new == [t.new EXCEPT !.discount = d, !.total = total]
           u == [t EXCEPT !.phase = "write", !.moved = moved, !.new.discount = d,
                          !.new.total = total]
<1>1. t \in Txn /\ WellFormed(t) /\ t.phase = "read" /\ t.calc = "management" /\ t # Idle
  BY DEF RecalculateOrderTotals, IInv, TypeOK, OpenInv, Idle
<1>2. t.order \in Orders /\ t.new \in Row /\ t.amount = 0
  BY <1>1 DEF WellFormed, Txn
<1>3. S \in SUBSET Items /\ moved \in SUBSET Items
  BY DEF ActiveItems, Moves, LiveItems
<1>4. total \in Int /\ d \in Int
  BY <1>2, <1>3, NetType DEF Row
<1>5. moved # {} => t.dest \in Orders
  BY <1>1, <1>2 DEF WellFormed, Moves
<1>6. txn' = [txn EXCEPT ![w] = u] /\ UNCHANGED <<tableVars, requests, ghostVars>>
  BY DEF RecalculateOrderTotals
<1> HIDE DEF S, d, total, moved
<1>7. new \in Row /\ new.paid = t.new.paid /\ new.state = t.new.state
  BY <1>2, <1>4 DEF Row
<1>8. /\ u \in Txn /\ u.phase = "write" /\ u.calc = t.calc /\ u.order = t.order
      /\ u.dest = t.dest /\ u.row = t.row /\ u.new = new /\ u.amount = t.amount
      /\ u.added = t.added /\ u.gone = t.gone /\ u.moved = moved
      /\ u.sources = t.sources /\ u.cancels = t.cancels
  <2>1. u = [t EXCEPT !.phase = "write", !.moved = moved, !.new = new]
    BY <1>1 DEF Txn
  <2> HIDE DEF u, new
  <2> QED BY <1>1, <1>3, <1>7, <2>1 DEF Txn
<1> HIDE DEF t, u, new
<1>9. WellFormed(u)
  BY <1>1, <1>2, <1>5, <1>7, <1>8 DEF WellFormed, Idle
<1>10. orders[u.order].state # "none" /\ \A s \in u.cancels : orders[s].state # "none"
  BY <1>1, <1>8 DEF IInv, KnownInv, t
<1>11. ~Paying(u) /\ ~Billing(u)
  BY <1>1, <1>2, <1>8 DEF Paying, Billing
<1>12. requests' \in Nat
  BY <1>6 DEF IInv, TypeOK
<1> QED BY <1>6, <1>8, <1>9, <1>10, <1>11, <1>12, RequestStep

\* An abandoned request leaves its worker idle.
LEMMA AbandonInv ==
  ASSUME IInv, NEW w \in Workers, Abandon(w)
  PROVE  IInv'
<1>1. Idle.phase = "idle" /\ Idle.cancels = {} /\ ~Paying(Idle) /\ ~Billing(Idle)
  BY DEF Idle, Paying, Billing
<1>2. requests' \in Nat /\ txn' = [txn EXCEPT ![w] = Idle]
      /\ UNCHANGED <<tableVars, ghostVars>>
  BY DEF Abandon, IInv, TypeOK
<1> QED BY <1>1, <1>2, Defaults, RequestStep

-----------------------------------------------------------------------------
(* Steps that create an order. *)

\* A new order with items that did not exist before, and their price as total.
LEMMA InsertInv ==
  ASSUME IInv, NEW o \in Orders, NEW S \in SUBSET Items, NEW row \in Row,
         FreshOrder(o), \A i \in S : FreshItem(i),
         row.state = "live", row.paid = 0, row.discount = 0, row.total = Net(S),
         orders' = [orders EXCEPT ![o] = row],
         peak' = [peak EXCEPT ![o] = Greater(peak[o], row.total)],
         itemOrder' = [i \in Items |-> IF i \in S THEN o ELSE itemOrder[i]],
         itemLive' = [i \in Items |-> i \in S \/ itemLive[i]],
         requests' \in Nat, UNCHANGED <<txn, received, payRaced, billRaced, managed>>
  PROVE  IInv'
<1>1. TypeOK /\ OpenInv /\ KnownInv /\ PeakInv /\ PaymentInv /\ BillInv
  BY DEF IInv
<1>2. orders[o] = Blank
  BY <1>1 DEF FreshOrder, KnownInv
<1>3. row.total \in Int /\ peak[o] \in Int
  BY <1>1 DEF Row, TypeOK
<1>4. /\ \A p \in Orders : orders'[p] = IF p = o THEN row ELSE orders[p]
      /\ \A p \in Orders : peak'[p] \in Int /\ peak[p] <= peak'[p]
      /\ row.total <= peak'[o]
  BY <1>1, <1>3 DEF TypeOK, Greater
<1>5. TypeOK'
  <2>1. peak' \in [Orders -> Int]
    BY <1>1, <1>3 DEF TypeOK, Greater
  <2>2. itemLive' \in [Items -> BOOLEAN]
    BY <1>1 DEF TypeOK
  <2> QED BY <1>1, <2>1, <2>2 DEF TypeOK
<1>6. OpenInv'
  BY <1>1 DEF OpenInv
<1>7. \A v \in Workers : txn[v].phase # "idle" => txn[v].order # o /\ txn[v].order \in Orders
  <2> TAKE v \in Workers
  <2>1. WellFormed(txn[v])
    BY <1>1 DEF OpenInv
  <2> QED BY <1>1, <2>1 DEF KnownInv, FreshOrder, WellFormed, Idle
<1>8. KnownInv'
  <2>1. \A p \in Orders : orders'[p].state = "none" => orders'[p] = Blank
    BY <1>1, <1>4 DEF KnownInv
  <2>2. \A i \in Items : itemOrder'[i] \in Orders => orders'[itemOrder'[i]].state # "none"
    BY <1>1, <1>4 DEF KnownInv
  <2>3. \A i \in Items : itemLive'[i] => itemOrder'[i] \in Orders
    BY <1>1 DEF KnownInv
  <2>4. \A v \in Workers : txn'[v].phase # "idle" => orders'[txn'[v].order].state # "none"
    BY <1>1, <1>4, <1>7 DEF KnownInv
  <2>5. \A v \in Workers : \A s \in txn[v].cancels : s \in Orders
    BY <1>1 DEF TypeOK, Txn
  <2>6. \A v \in Workers : \A s \in txn'[v].cancels : orders'[s].state # "none"
    BY <1>1, <1>4, <2>5 DEF KnownInv
  <2> QED BY <2>1, <2>2, <2>3, <2>4, <2>6 DEF KnownInv
<1>9. \A p \in Orders \ {o} : LiveItems(p)' = LiveItems(p)
  BY <1>1, OrderAssumption DEF LiveItems, FreshItem, TypeOK
<1>10. LiveItems(o)' = S
  BY <1>1, OrderAssumption DEF LiveItems, KnownInv, FreshOrder
<1>11. PaymentInv'
  <2> SUFFICES ASSUME NEW v \in Workers, Paying(txn[v])
               PROVE  /\ txn[v].new.paid <= peak'[txn[v].order]
                      /\ txn[v].row.paid <= received[txn[v].order]
                      /\ \/ txn[v].row.paid = orders'[txn[v].order].paid
                         \/ txn[v].order \in payRaced
    BY DEF PaymentInv, Paying
  <2>1. txn[v].order # o /\ txn[v].order \in Orders
    BY <1>7 DEF Paying
  <2>2. txn[v].new.paid \in Int
    BY <1>1 DEF TypeOK, Txn, Row
  <2> QED BY <1>1, <1>4, <2>1, <2>2 DEF PaymentInv, TypeOK
<1>12. BillInv'
  <2> SUFFICES ASSUME NEW v \in Workers, Billing(txn[v]),
                      txn[v].order \notin billRaced \cup managed
               PROVE  /\ txn[v].row.total = orders'[txn[v].order].total
                      /\ txn[v].row.discount = orders'[txn[v].order].discount
                      /\ txn[v].phase = "write" =>
                           txn[v].new.total >=
                             Net(LiveItems(txn[v].order)' \cup txn[v].added)
                               - txn[v].new.discount
    BY DEF BillInv, Billing, LiveItems
  <2>1. txn[v].order # o /\ txn[v].order \in Orders
    BY <1>7 DEF Billing
  <2> QED BY <1>1, <1>4, <1>9, <2>1 DEF BillInv
<1>13. PeakInv'
  <2>1. \A p \in Orders : orders[p].total \in Int /\ peak[p] \in Int
    BY <1>1 DEF TypeOK, Row
  <2> QED BY <1>1, <1>4, <2>1 DEF PeakInv, TypeOK
<1>14. \A p \in Orders : orders'[p].paid = orders[p].paid
  BY <1>2, <1>4 DEF Blank
<1>15. RecordedWithinPeak' /\ RecordedWasReceived' /\ LossNeedsOverlap'
  <2>1. \A p \in Orders : orders[p].paid \in Int /\ peak[p] \in Int
    BY <1>1 DEF TypeOK, Row
  <2> QED BY <1>4, <1>14, <2>1 DEF IInv, RecordedWithinPeak, RecordedWasReceived, LossNeedsOverlap
<1>16. BillNotTooLow'
  <2> SUFFICES ASSUME NEW p \in Orders \ (billRaced \cup managed)
               PROVE  orders'[p].total >= Net(LiveItems(p)') - orders'[p].discount
    BY DEF BillNotTooLow
  <2>1. CASE p = o
    BY <1>3, <1>4, <1>10, <2>1
  <2>2. CASE p # o
    BY <1>4, <1>9, <2>2 DEF IInv, BillNotTooLow
  <2> QED BY <2>1, <2>2
<1> QED BY <1>5, <1>6, <1>8, <1>11, <1>12, <1>13, <1>15, <1>16 DEF IInv

\* A new order comes with its items and their price.
LEMMA CreateInv ==
  ASSUME IInv, NEW o \in Orders, NEW S \in SUBSET Items,
         NEW s \in Targets, NEW p \in StaffPayStatus \cup {"pending"},
         CreateOrder(o, S, s, p)
  PROVE  IInv'
<1> DEFINE total == ServiceTotal(Blank, S)
           row == [Blank EXCEPT !.state = "live", !.status = s, !.pstat = p, !.total = total]
<1>1. total = Net(S) /\ total \in Int
  BY NetType DEF ServiceTotal, Blank
<1>2. s \in OrderStatus /\ p \in PaymentStatus
  BY ServiceAssumption DEF PaymentStatus
<1>3. /\ row \in Row /\ row.state = "live" /\ row.paid = 0
      /\ row.discount = 0 /\ row.total = total
  <2> HIDE DEF total
  <2>1. Blank.paid = 0 /\ Blank.discount = 0
    BY DEF Blank
  <2> QED BY <1>1, <1>2, <2>1, Defaults DEF Row
<1>4. /\ orders' = [orders EXCEPT ![o] = row]
      /\ peak' = [peak EXCEPT ![o] = Greater(peak[o], row.total)]
      /\ itemOrder' = [i \in Items |-> IF i \in S THEN o ELSE itemOrder[i]]
      /\ itemLive' = [i \in Items |-> i \in S \/ itemLive[i]]
      /\ FreshOrder(o) /\ (\A i \in S : FreshItem(i))
      /\ UNCHANGED <<txn, received, payRaced, billRaced, managed>>
  BY DEF CreateOrder
<1>5. requests' \in Nat
  BY DEF CreateOrder, Request, IInv, TypeOK
<1> HIDE DEF row, total
<1> QED BY <1>1, <1>3, <1>4, <1>5, InsertInv

\* A new tab is an order without items.
LEMMA OpenTabInv ==
  ASSUME IInv, NEW o \in Orders, OpenTab(o)
  PROVE  IInv'
<1> DEFINE row == [Blank EXCEPT !.state = "live", !.tab = TRUE]
<1>1. row \in Row /\ row.state = "live" /\ row.paid = 0 /\ row.discount = 0 /\ row.total = 0
  <2>1. Blank.paid = 0 /\ Blank.discount = 0 /\ Blank.total = 0
    BY DEF Blank
  <2> QED BY <2>1, Defaults DEF Row
<1>2. /\ orders' = [orders EXCEPT ![o] = row] /\ FreshOrder(o)
      /\ UNCHANGED <<itemOrder, itemLive, txn, ghostVars>>
  BY DEF OpenTab
<1>3. requests' \in Nat
  BY DEF OpenTab, Request, IInv, TypeOK
<1> HIDE DEF row
<1>4. peak' = [peak EXCEPT ![o] = Greater(peak[o], row.total)]
  <2>1. orders[o] = Blank
    BY <1>2 DEF IInv, KnownInv, FreshOrder
  <2>2. 0 <= peak[o] /\ peak[o] \in Int
    BY <2>1 DEF IInv, PeakInv, TypeOK, Blank
  <2>3. Greater(peak[o], row.total) = peak[o]
    BY <1>1, <2>2 DEF Greater
  <2> QED BY <1>2, <2>3 DEF IInv, TypeOK, ghostVars
<1>5. /\ itemOrder' = [i \in Items |-> IF i \in {} THEN o ELSE itemOrder[i]]
      /\ itemLive' = [i \in Items |-> i \in {} \/ itemLive[i]]
  BY <1>2 DEF IInv, TypeOK
<1>6. {} \in SUBSET Items /\ row.total = Net({}) /\ \A i \in {} : FreshItem(i)
  BY <1>1, OrderAssumption
<1>7. UNCHANGED <<txn, received, payRaced, billRaced, managed>>
  BY <1>2 DEF ghostVars
<1> QED BY <1>1, <1>2, <1>3, <1>4, <1>5, <1>6, <1>7, InsertInv

-----------------------------------------------------------------------------
(* The commit. *)

\* What a commit does to the rows: its own row gets the changed columns, the
\* orders it merges are cancelled, a split's new order appears.
LEMMA CommitRows ==
  ASSUME IInv, NEW w \in Workers, Commit(w)
  PROVE  LET t == txn[w] IN
         /\ t \in Txn /\ WellFormed(t) /\ t # Idle /\ t.order \in Orders
         /\ orders' \in [Orders -> Row]
         /\ orders'[t.order] = Saved(orders[t.order], t.row, t.new)
         /\ \A o \in Orders \ {t.order} :
              /\ orders'[o].paid = orders[o].paid
              /\ orders'[o].total = orders[o].total
              /\ orders'[o].discount = orders[o].discount
         /\ \A o \in Orders : orders[o].state # "none" => orders'[o].state # "none"
         /\ t.dest \in Orders => orders'[t.dest].state # "none"
         /\ \A o \in Orders : orders'[o].state = "none" => orders'[o] = Blank
<1> DEFINE t == txn[w]
<1>1. t \in Txn /\ WellFormed(t) /\ t # Idle
  BY DEF Commit, IInv, TypeOK, OpenInv, Idle
<1>2. /\ t.order \in Orders /\ t.row \in Row /\ t.new \in Row
      /\ t.row.state = "live" /\ t.new.state # "none"
      /\ orders[t.order].state # "none"
  BY <1>1 DEF WellFormed, Txn, IInv, KnownInv, Idle
<1>3. orders \in [Orders -> Row] /\ \A o \in Orders : orders[o].state = "none" => orders[o] = Blank
  BY DEF IInv, TypeOK, KnownInv
<1> DEFINE saved == Saved(orders[t.order], t.row, t.new)
           opened == [Blank EXCEPT !.state = "live", !.status = t.row.status]
<1>4. saved \in Row /\ saved.state # "none"
  <2>1. orders[t.order] \in Row
    BY <1>2, <1>3
  <2>2. saved \in Row
    BY <1>2, <2>1, SavedType
  <2>3. saved.state \in {orders[t.order].state, t.new.state}
    BY <1>2, <2>1, SavedColumns
  <2> HIDE DEF saved
  <2> QED BY <1>2, <2>2, <2>3
<1>5. /\ opened \in Row /\ opened.state = "live" /\ opened.paid = Blank.paid
      /\ opened.total = Blank.total /\ opened.discount = Blank.discount
  BY <1>2, Defaults DEF Row
<1>6. \A o \in Orders : LET c == [orders[o] EXCEPT !.status = "cancelled"] IN
        /\ c \in Row /\ c.paid = orders[o].paid /\ c.total = orders[o].total
        /\ c.discount = orders[o].discount /\ c.state = orders[o].state
  BY <1>3 DEF Row, OrderStatus
<1>7. \A o \in t.cancels : o \in Orders => t.dest = t.order
  BY <1>1 DEF WellFormed
<1>8. \A s \in Orders : t.sources # {} => t.dest = t.order
  BY <1>1 DEF WellFormed
<1> HIDE DEF saved, opened
<1>9. orders'[t.order] = saved
  BY <1>2 DEF Commit, AfterCommit, saved
<1>10. ASSUME NEW o \in Orders, o # t.order
       PROVE  \/ o \in t.cancels /\ orders'[o] = [orders[o] EXCEPT !.status = "cancelled"]
              \/ o \notin t.cancels /\ o = t.dest /\ orders[o].state = "none" /\ orders'[o] = opened
              \/ o \notin t.cancels /\ ~(o = t.dest /\ orders[o].state = "none")
                 /\ orders'[o] = orders[o]
  <2>1. orders'[o] =
          CASE o = t.order -> Saved(orders[o], t.row, t.new)
            [] o \in t.cancels \ {t.order} -> [orders[o] EXCEPT !.status = "cancelled"]
            [] o = t.dest /\ orders[o].state = "none" -> opened
            [] OTHER -> orders[o]
    BY DEF Commit, AfterCommit, opened
  <2>2. o \in t.cancels => o # t.dest
    BY <1>7, <1>10
  <2>3. CASE o \in t.cancels
    BY <1>10, <2>1, <2>2, <2>3
  <2>4. CASE o \notin t.cancels /\ o = t.dest /\ orders[o].state = "none"
    BY <1>10, <2>1, <2>4
  <2>5. CASE o \notin t.cancels /\ ~(o = t.dest /\ orders[o].state = "none")
    BY <1>10, <2>1, <2>5
  <2> QED BY <2>3, <2>4, <2>5
<1>11. orders' \in [Orders -> Row]
  <2>1. \A o \in Orders : orders'[o] \in Row
    BY <1>3, <1>4, <1>5, <1>6, <1>9, <1>10
  <2>2. orders' = [o \in Orders |-> orders'[o]]
    BY DEF Commit, AfterCommit
  <2> QED BY <2>1, <2>2
<1>12. \A o \in Orders \ {t.order} :
         /\ orders'[o].paid = orders[o].paid
         /\ orders'[o].total = orders[o].total
         /\ orders'[o].discount = orders[o].discount
  BY <1>3, <1>5, <1>6, <1>10
<1>13. \A o \in Orders : orders[o].state # "none" => orders'[o].state # "none"
  BY <1>4, <1>6, <1>9, <1>10
<1>14. t.dest \in Orders => orders'[t.dest].state # "none"
  <2>1. CASE t.dest = t.order
    BY <1>4, <1>9, <2>1
  <2>2. CASE t.dest \in Orders /\ t.dest # t.order
    BY <1>5, <1>7, <1>10, <2>2
  <2> QED BY <2>1, <2>2
<1>15. \A o \in Orders : orders'[o].state = "none" => orders'[o] = Blank
  <2> SUFFICES ASSUME NEW o \in Orders, orders'[o].state = "none"
               PROVE  orders'[o] = Blank
    OBVIOUS
  <2>1. o # t.order
    BY <1>4, <1>9
  <2>2. CASE o \in t.cancels
    BY <1>13, <2>2 DEF IInv, KnownInv
  <2>3. CASE o \notin t.cancels
    BY <1>3, <1>5, <1>10, <2>1, <2>3
  <2> QED BY <2>2, <2>3
<1> QED BY <1>1, <1>2, <1>9, <1>11, <1>12, <1>13, <1>14, <1>15 DEF saved

\* What a commit does to the items, the requests and the history.
LEMMA CommitFacts ==
  ASSUME IInv, NEW w \in Workers, Commit(w)
  PROVE  LET t == txn[w] IN
         /\ \A i \in Items :
              /\ itemOrder'[i] = IF i \in t.added \cup t.moved THEN t.dest ELSE itemOrder[i]
              /\ itemLive'[i] <=> i \in t.added \/ (itemLive[i] /\ i \notin t.gone)
         /\ \A v \in Workers : txn'[v] = IF v = w THEN Idle ELSE txn[v]
         /\ \A o \in Orders : /\ peak'[o] \in Int
                              /\ peak[o] <= peak'[o] /\ orders'[o].total <= peak'[o]
         /\ \A o \in Orders : received'[o] = IF o = t.order THEN received[o] + t.amount
                                             ELSE received[o]
         /\ received' \in [Orders -> Int] /\ peak' \in [Orders -> Int]
         /\ itemOrder' \in [Items -> Orders \cup {NoOrder}] /\ itemLive' \in [Items -> BOOLEAN]
         /\ txn' \in [Workers -> Txn]
<1> DEFINE t == txn[w]
<1>1. t \in Txn /\ t.order \in Orders /\ t.amount \in Int /\ t.dest \in Orders \cup {NoOrder}
  BY CommitRows DEF Txn
<1>2. \A o \in Orders : orders'[o].total \in Int
  BY CommitRows DEF Row
<1>3. TypeOK
  BY DEF IInv
<1>4. peak' = [o \in Orders |-> Greater(peak[o], orders'[o].total)]
  BY DEF Commit
<1>5. \A o \in Orders : /\ peak'[o] \in Int
                        /\ peak[o] <= peak'[o] /\ orders'[o].total <= peak'[o]
  BY <1>2, <1>3, <1>4 DEF TypeOK, Greater
<1>6. peak' \in [Orders -> Int]
  BY <1>4, <1>5
<1>7. received' = [received EXCEPT ![t.order] = @ + t.amount]
  BY DEF Commit
<1>8. /\ itemOrder' = [i \in Items |-> IF i \in t.added \cup t.moved THEN t.dest ELSE itemOrder[i]]
      /\ itemLive' = [i \in Items |-> i \in t.added \/ (itemLive[i] /\ i \notin t.gone)]
      /\ txn' = [txn EXCEPT ![w] = Idle]
  BY DEF Commit
<1> HIDE DEF t
<1>9. received' \in [Orders -> Int]
      /\ \A o \in Orders : received'[o] = IF o = t.order THEN received[o] + t.amount
                                          ELSE received[o]
  BY <1>1, <1>3, <1>7 DEF TypeOK
<1>10. itemOrder' \in [Items -> Orders \cup {NoOrder}] /\ itemLive' \in [Items -> BOOLEAN]
  BY <1>1, <1>3, <1>8 DEF TypeOK
<1>11. txn' \in [Workers -> Txn] /\ \A v \in Workers : txn'[v] = IF v = w THEN Idle ELSE txn[v]
  BY <1>3, <1>8, Defaults DEF TypeOK
<1>12. \A i \in Items :
         /\ itemOrder'[i] = IF i \in t.added \cup t.moved THEN t.dest ELSE itemOrder[i]
         /\ itemLive'[i] <=> i \in t.added \/ (itemLive[i] /\ i \notin t.gone)
  BY <1>8
<1> QED BY <1>5, <1>6, <1>9, <1>10, <1>11, <1>12 DEF t

\* Who has been served by the management service is on its list; an order that
\* is not has kept its bill, or order_service has just changed it.
LEMMA CommitBill ==
  ASSUME IInv, NEW w \in Workers, Commit(w), NEW o \in Orders, o \notin managed'
  PROVE  LET t == txn[w] IN
         \/ /\ orders'[o].total = orders[o].total /\ orders'[o].discount = orders[o].discount
            /\ LiveItems(o)' \subseteq LiveItems(o)
         \/ /\ o = t.order /\ t.calc = "service"
            /\ LiveItems(o)' \subseteq LiveItems(o) \cup t.added
<1> DEFINE t == txn[w]
<1>1. t \in Txn /\ WellFormed(t) /\ t # Idle /\ t.order \in Orders
  BY CommitRows
<1>2. \A i \in Items :
        /\ itemOrder'[i] = IF i \in t.added \cup t.moved THEN t.dest ELSE itemOrder[i]
        /\ itemLive'[i] <=> i \in t.added \/ (itemLive[i] /\ i \notin t.gone)
  BY CommitFacts
<1>3. LiveItems(o)' = {i \in Items : itemLive'[i] /\ itemOrder'[i] = o}
  BY DEF LiveItems
<1>4. o # t.dest => LiveItems(o)' \subseteq LiveItems(o)
  BY <1>2, <1>3 DEF LiveItems
<1>5. o # t.order => /\ orders'[o].total = orders[o].total
                     /\ orders'[o].discount = orders[o].discount
  BY CommitRows
<1>6. CASE t.calc = "management"
  <2>1. o # t.order /\ o # t.dest
    BY <1>6 DEF Commit
  <2> QED BY <1>4, <1>5, <2>1
<1>7. CASE t.calc = "service"
  <2>1. t.moved = {} /\ t.dest \in {NoOrder, t.order}
    BY <1>1, <1>7 DEF WellFormed
  <2>2. CASE o = t.order
    <3>1. LiveItems(o)' \subseteq LiveItems(o) \cup t.added
      BY <1>2, <1>3, <2>1 DEF LiveItems
    <3> QED BY <1>7, <2>2, <3>1
  <2>3. CASE o # t.order
    BY <1>4, <1>5, <2>1, <2>3, OrderAssumption
  <2> QED BY <2>2, <2>3
<1>8. CASE t.calc = "none"
  <2>1. t.moved = {} /\ t.added = {}
        /\ t.new.total = t.row.total /\ t.new.discount = t.row.discount
    BY <1>1, <1>8 DEF WellFormed
  <2>2. LiveItems(o)' \subseteq LiveItems(o)
    BY <1>2, <1>3, <2>1 DEF LiveItems
  <2>3. orders'[t.order].total = orders[t.order].total
        /\ orders'[t.order].discount = orders[t.order].discount
    <3>1. t.row \in Row /\ t.new \in Row /\ orders[t.order] \in Row
      BY <1>1 DEF Txn, IInv, TypeOK
    <3>2. orders'[t.order] = Saved(orders[t.order], t.row, t.new)
      BY CommitRows
    <3> QED BY <2>1, <3>1, <3>2, SavedColumns
  <2> QED BY <1>5, <2>2, <2>3
<1>9. t.calc \in {"none", "service", "management"}
  BY <1>1 DEF Txn
<1> QED BY <1>6, <1>7, <1>8, <1>9

\* What a commit does to the money recorded: nothing, or what a payment
\* reckoned when it loaded the row.
LEMMA CommitPaid ==
  ASSUME IInv, NEW w \in Workers, Commit(w), NEW o \in Orders
  PROVE  LET t == txn[w] IN
         /\ o # t.order \/ t.amount = 0 => orders'[o].paid = orders[o].paid
         /\ o = t.order /\ t.amount # 0 =>
              /\ Paying(t)
              /\ orders'[o].paid = t.new.paid /\ t.new.paid = t.row.paid + t.amount
              /\ t.new.paid <= peak[o] /\ t.row.paid <= received[o]
              /\ t.row.paid = orders[o].paid \/ o \in payRaced
<1> DEFINE t == txn[w]
<1>1. t \in Txn /\ WellFormed(t) /\ t # Idle /\ t.order \in Orders
  BY CommitRows
<1>2. /\ t.row \in Row /\ t.new \in Row /\ orders[t.order] \in Row
      /\ t.row.paid \in Int /\ t.amount \in Int
  BY <1>1 DEF Txn, IInv, TypeOK, Row
<1>3. t.new.paid = t.row.paid + t.amount
  BY <1>1 DEF WellFormed
<1>4. orders'[t.order] = Saved(orders[t.order], t.row, t.new)
  BY CommitRows
<1>5. o # t.order => orders'[o].paid = orders[o].paid
  BY CommitRows
<1>6. CASE o = t.order /\ t.amount = 0
  <2>1. t.new.paid = t.row.paid
    BY <1>2, <1>3, <1>6
  <2> QED BY <1>2, <1>4, <1>6, <2>1, SavedColumns
<1>7. CASE o = t.order /\ t.amount # 0
  <2>1. t.new.paid # t.row.paid
    BY <1>2, <1>3, <1>7
  <2>2. orders'[o].paid = t.new.paid
    BY <1>2, <1>4, <1>7, <2>1, SavedColumns
  <2>3. Paying(t)
    BY <1>7 DEF Paying, Commit
  <2> QED BY <1>3, <1>7, <2>2, <2>3 DEF IInv, PaymentInv
<1> QED BY <1>5, <1>6, <1>7

\* Only existing orders have items or requests under way after a commit.
LEMMA CommitKnown ==
  ASSUME IInv, NEW w \in Workers, Commit(w)
  PROVE  KnownInv'
<1> DEFINE t == txn[w]
<1>1. t \in Txn /\ WellFormed(t) /\ t # Idle
  BY CommitRows
<1>2. \A o \in Orders : orders[o].state # "none" => orders'[o].state # "none"
  BY CommitRows
<1>3. KnownInv /\ OpenInv /\ TypeOK
  BY DEF IInv
<1>4. \A o \in Orders : orders'[o].state = "none" => orders'[o] = Blank
  BY CommitRows
<1>5. \A i \in Items : itemOrder'[i] \in Orders => orders'[itemOrder'[i]].state # "none"
  <2> SUFFICES ASSUME NEW i \in Items, itemOrder'[i] \in Orders
               PROVE  orders'[itemOrder'[i]].state # "none"
    OBVIOUS
  <2>1. CASE i \in t.added \cup t.moved
    <3>1. itemOrder'[i] = t.dest
      BY <2>1, CommitFacts
    <3> QED BY <3>1, CommitRows
  <2>2. CASE i \notin t.added \cup t.moved
    <3>1. itemOrder'[i] = itemOrder[i]
      BY <2>2, CommitFacts
    <3> QED BY <1>2, <1>3, <3>1 DEF KnownInv
  <2> QED BY <2>1, <2>2
<1>6. \A i \in Items : itemLive'[i] => itemOrder'[i] \in Orders
  <2> SUFFICES ASSUME NEW i \in Items, itemLive'[i]
               PROVE  itemOrder'[i] \in Orders
    OBVIOUS
  <2>1. CASE i \in t.added \cup t.moved
    <3>1. itemOrder'[i] = t.dest
      BY <2>1, CommitFacts
    <3> QED BY <1>1, <2>1, <3>1 DEF WellFormed
  <2>2. CASE i \notin t.added \cup t.moved
    <3>1. itemOrder'[i] = itemOrder[i] /\ itemLive[i]
      BY <2>2, CommitFacts
    <3> QED BY <1>3, <3>1 DEF KnownInv
  <2> QED BY <2>1, <2>2
<1>7. \A v \in Workers : txn'[v] = IF v = w THEN Idle ELSE txn[v]
  BY CommitFacts
<1>8. \A v \in Workers : txn'[v].phase # "idle" => orders'[txn'[v].order].state # "none"
  <2> SUFFICES ASSUME NEW v \in Workers, txn'[v].phase # "idle"
               PROVE  orders'[txn'[v].order].state # "none"
    OBVIOUS
  <2>1. txn'[v] = txn[v] /\ v # w
    BY <1>7 DEF Idle
  <2>2. txn[v].order \in Orders
    BY <1>3, <2>1 DEF OpenInv, WellFormed, Idle
  <2> QED BY <1>2, <1>3, <2>1, <2>2 DEF KnownInv
<1>9. \A v \in Workers : \A s \in txn'[v].cancels : orders'[s].state # "none"
  <2> SUFFICES ASSUME NEW v \in Workers, NEW s \in txn'[v].cancels
               PROVE  orders'[s].state # "none"
    OBVIOUS
  <2>1. txn'[v] = txn[v]
    BY <1>7 DEF Idle
  <2>2. s \in Orders
    BY <1>3, <2>1 DEF TypeOK, Txn
  <2> QED BY <1>2, <1>3, <2>1, <2>2 DEF KnownInv
<1> QED BY <1>4, <1>5, <1>6, <1>8, <1>9 DEF KnownInv

\* A commit keeps what payments under way were checked against, and what is
\* recorded, within what the order once cost and what was taken.
LEMMA CommitMoney ==
  ASSUME IInv, NEW w \in Workers, Commit(w)
  PROVE  PaymentInv' /\ RecordedWithinPeak' /\ RecordedWasReceived' /\ LossNeedsOverlap'
<1> DEFINE t == txn[w]
<1>1. t \in Txn /\ WellFormed(t) /\ t # Idle /\ t.order \in Orders
  BY CommitRows
<1>2. t.amount \in Int /\ t.amount >= 0 /\ t.row.paid \in Int /\ t.new.paid \in Int
  BY <1>1 DEF Txn, Row, WellFormed
<1>3. \A o \in Orders : /\ orders[o].paid \in Int /\ received[o] \in Int /\ peak[o] \in Int
                        /\ peak'[o] \in Int
                        /\ orders[o].paid <= peak[o] /\ orders[o].paid <= received[o]
                        /\ orders[o].paid = received[o] \/ o \in payRaced
  BY CommitFacts DEF IInv, TypeOK, Row, RecordedWithinPeak, RecordedWasReceived, LossNeedsOverlap
<1>4. \A o \in Orders : /\ peak[o] <= peak'[o]
                        /\ received'[o] = IF o = t.order THEN received[o] + t.amount
                                          ELSE received[o]
  BY CommitFacts
<1>5. payRaced \subseteq payRaced'
  BY DEF Commit
<1>6. \A o \in Orders :
         /\ o # t.order \/ t.amount = 0 => orders'[o].paid = orders[o].paid
         /\ o = t.order /\ t.amount # 0 =>
              /\ orders'[o].paid = t.new.paid /\ t.new.paid = t.row.paid + t.amount
              /\ t.new.paid <= peak[o] /\ t.row.paid <= received[o]
              /\ t.row.paid = orders[o].paid \/ o \in payRaced
  BY CommitPaid
<1>7. PaymentInv'
  <2> SUFFICES ASSUME NEW v \in Workers, Paying(txn'[v])
               PROVE  /\ txn'[v].new.paid <= peak'[txn'[v].order]
                      /\ txn'[v].row.paid <= received'[txn'[v].order]
                      /\ \/ txn'[v].row.paid = orders'[txn'[v].order].paid
                         \/ txn'[v].order \in payRaced'
    BY DEF PaymentInv, Paying
  <2> DEFINE u == txn[v]
             p == u.order
  <2>1. v # w /\ txn'[v] = u
    BY CommitFacts DEF Paying, Idle
  <2>2. Paying(u) /\ u.amount # 0 /\ u \in Txn
    BY <2>1 DEF Paying, IInv, TypeOK
  <2>3. p \in Orders
    BY <2>2 DEF IInv, OpenInv, WellFormed, Paying, Idle
  <2>4. u.new.paid \in Int /\ u.row.paid \in Int
    BY <2>2 DEF Txn, Row
  <2>5. /\ u.new.paid <= peak[p] /\ u.row.paid <= received[p]
        /\ u.row.paid = orders[p].paid \/ p \in payRaced
    BY <2>2 DEF IInv, PaymentInv
  <2>6. p = t.order /\ t.amount # 0 => p \in payRaced'
    BY <2>1, <2>2 DEF Commit, OthersPaying
  <2> HIDE DEF u, p, t
  <2> QED BY <1>2, <1>3, <1>4, <1>5, <1>6, <2>1, <2>3, <2>4, <2>5, <2>6 DEF p
<1> HIDE DEF t
<1>8. RecordedWithinPeak'
  BY <1>2, <1>3, <1>4, <1>6 DEF RecordedWithinPeak
<1>9. RecordedWasReceived'
  BY <1>2, <1>3, <1>4, <1>6 DEF RecordedWasReceived
<1>10. LossNeedsOverlap'
  BY <1>2, <1>3, <1>4, <1>5, <1>6 DEF LossNeedsOverlap
<1> QED BY <1>7, <1>8, <1>9, <1>10

\* A commit that races no change of the bill leaves the bill as high as its
\* items cost, and the others with copies that are still good.
LEMMA CommitBills ==
  ASSUME IInv, NEW w \in Workers, Commit(w)
  PROVE  BillInv' /\ BillNotTooLow'
<1> DEFINE t == txn[w]
<1>1. t \in Txn /\ WellFormed(t) /\ t # Idle /\ t.order \in Orders
  BY CommitRows
<1>2. billRaced \subseteq billRaced' /\ managed \subseteq managed'
  BY DEF Commit
<1>3. \A o \in Orders : o \notin managed' =>
         \/ /\ orders'[o].total = orders[o].total /\ orders'[o].discount = orders[o].discount
            /\ LiveItems(o)' \subseteq LiveItems(o)
         \/ /\ o = t.order /\ t.calc = "service"
            /\ LiveItems(o)' \subseteq LiveItems(o) \cup t.added
  BY CommitBill
<1>4. \A o \in Orders : /\ LiveItems(o) \in SUBSET Items /\ LiveItems(o)' \in SUBSET Items
                        /\ Net(LiveItems(o)) \in Int /\ Net(LiveItems(o)') \in Int
  <2>1. \A o \in Orders : LiveItems(o) \in SUBSET Items /\ LiveItems(o)' \in SUBSET Items
    BY DEF LiveItems
  <2> QED BY <2>1, NetType
<1>5. BillNotTooLow'
  <2> SUFFICES ASSUME NEW o \in Orders, o \notin billRaced', o \notin managed'
               PROVE  orders'[o].total >= Net(LiveItems(o)') - orders'[o].discount
    BY DEF BillNotTooLow
  <2>1. orders[o].total >= Net(LiveItems(o)) - orders[o].discount
    BY <1>2 DEF IInv, BillNotTooLow
  <2>2. orders[o] \in Row /\ orders[o].total \in Int /\ orders[o].discount \in Int
    BY DEF IInv, TypeOK, Row
  <2>3. CASE /\ orders'[o].total = orders[o].total /\ orders'[o].discount = orders[o].discount
             /\ LiveItems(o)' \subseteq LiveItems(o)
    <3>1. Net(LiveItems(o)') <= Net(LiveItems(o))
      BY <1>4, <2>3, NetMonotone
    <3> QED BY <1>4, <2>1, <2>2, <2>3, <3>1
  <2>4. CASE /\ o = t.order /\ t.calc = "service"
             /\ LiveItems(o)' \subseteq LiveItems(o) \cup t.added
    <3>1. Billing(t) /\ t.phase = "write" /\ o \notin billRaced \cup managed
      BY <1>2, <2>4 DEF Billing, Commit
    <3>2. /\ t.row.total = orders[o].total /\ t.row.discount = orders[o].discount
          /\ t.new.total >= Net(LiveItems(o) \cup t.added) - t.new.discount
      BY <2>4, <3>1 DEF IInv, BillInv
    <3>3. /\ t.row \in Row /\ t.new \in Row /\ t.added \in SUBSET Items
          /\ t.new.total \in Int /\ t.new.discount \in Int
      BY <1>1 DEF Txn, Row
    <3>4. orders'[o] = Saved(orders[o], t.row, t.new)
      BY <2>4, CommitRows
    <3>5. orders'[o].total = t.new.total /\ orders'[o].discount = t.new.discount
      BY <2>2, <3>2, <3>3, <3>4, SavedColumns
    <3>6. /\ Net(LiveItems(o)') <= Net(LiveItems(o) \cup t.added)
          /\ Net(LiveItems(o) \cup t.added) \in Int
      <4>1. LiveItems(o) \cup t.added \in SUBSET Items
        BY <1>4, <3>3
      <4> QED BY <1>4, <2>4, <4>1, NetMonotone, NetType
    <3> QED BY <1>4, <3>2, <3>3, <3>5, <3>6
  <2> QED BY <1>3, <2>3, <2>4
<1>6. BillInv'
  <2> SUFFICES ASSUME NEW v \in Workers, Billing(txn'[v]),
                      txn'[v].order \notin billRaced', txn'[v].order \notin managed'
               PROVE  /\ txn'[v].row.total = orders'[txn'[v].order].total
                      /\ txn'[v].row.discount = orders'[txn'[v].order].discount
                      /\ txn'[v].phase = "write" =>
                           txn'[v].new.total >=
                             Net(LiveItems(txn[v].order)' \cup txn'[v].added)
                               - txn'[v].new.discount
    BY DEF BillInv, Billing, LiveItems
  <2> DEFINE u == txn[v]
  <2>1. v # w /\ txn'[v] = u
    BY CommitFacts DEF Billing, Idle
  <2>2. Billing(u) /\ u.calc = "service" /\ u \in Txn
    BY <2>1 DEF Billing, IInv, TypeOK
  <2>3. PICK p \in Orders : p = u.order
    BY <2>2 DEF IInv, OpenInv, WellFormed, Billing, Idle
  <2>4. /\ u.row.total = orders[p].total /\ u.row.discount = orders[p].discount
        /\ u.phase = "write" =>
             u.new.total >= Net(LiveItems(p) \cup u.added) - u.new.discount
    BY <1>2, <2>1, <2>2, <2>3 DEF IInv, BillInv
  <2>5. ~(p = t.order /\ t.calc = "service")
    BY <2>1, <2>2, <2>3 DEF Commit, OthersBilling
  <2>6. /\ orders'[p].total = orders[p].total /\ orders'[p].discount = orders[p].discount
        /\ LiveItems(p)' \subseteq LiveItems(p)
    BY <1>3, <2>1, <2>3, <2>5
  <2>7. /\ u.added \in SUBSET Items /\ u.new.total \in Int /\ u.new.discount \in Int
    BY <2>2 DEF Txn, Row
  <2>8. /\ Net(LiveItems(p)' \cup u.added) <= Net(LiveItems(p) \cup u.added)
        /\ Net(LiveItems(p)' \cup u.added) \in Int /\ Net(LiveItems(p) \cup u.added) \in Int
    <3>1. /\ LiveItems(p) \cup u.added \in SUBSET Items
          /\ LiveItems(p)' \cup u.added \in SUBSET Items
      BY <1>4, <2>3, <2>7
    <3> QED BY <2>6, <3>1, NetMonotone, NetType
  <2>9. LiveItems(txn[v].order)' = LiveItems(p)'
    BY <2>1, <2>3 DEF LiveItems
  <2> HIDE DEF u
  <2>10. u.phase = "write" =>
           u.new.total >= Net(LiveItems(p)' \cup u.added) - u.new.discount
    BY <2>4, <2>7, <2>8
  <2> QED BY <2>1, <2>3, <2>4, <2>6, <2>9, <2>10
<1> QED BY <1>5, <1>6

\* A commit keeps the invariant.
LEMMA CommitInv ==
  ASSUME IInv, NEW w \in Workers, Commit(w)
  PROVE  IInv'
<1> DEFINE t == txn[w]
<1>1. t \in Txn /\ t.order \in Orders /\ orders' \in [Orders -> Row]
  BY CommitRows
<1>2. TypeOK'
  <2>1. payRaced' \subseteq Orders /\ billRaced' \subseteq Orders
    BY <1>1 DEF Commit, IInv, TypeOK
  <2>2. managed' \subseteq Orders
    BY DEF Commit, IInv, TypeOK
  <2>3. requests' \in Nat
    BY DEF Commit, IInv, TypeOK
  <2> QED BY <1>1, <2>1, <2>2, <2>3, CommitFacts DEF TypeOK
<1>3. OpenInv'
  BY CommitFacts, Defaults DEF IInv, OpenInv
<1>4. PeakInv'
  BY CommitFacts DEF PeakInv
<1> QED BY <1>2, <1>3, <1>4, CommitKnown, CommitMoney, CommitBills DEF IInv

-----------------------------------------------------------------------------
(* The theorems. *)

\* Initially there are no orders and no requests.
LEMMA InitInv == Init => IInv
<1> SUFFICES ASSUME Init PROVE IInv
  OBVIOUS
<1>1. \A o \in Orders : orders[o] = Blank /\ peak[o] = 0 /\ received[o] = 0
  BY DEF Init, TablesInit
<1>2. \A w \in Workers : txn[w] = Idle
  BY DEF Init, TablesInit
<1>3. Blank.total = 0 /\ Blank.discount = 0 /\ Blank.paid = 0
  BY DEF Blank
<1>4. \A w \in Workers : ~Paying(txn[w]) /\ ~Billing(txn[w])
  BY <1>2 DEF Paying, Billing, Idle
<1>5. TypeOK
  BY Defaults DEF Init, TablesInit, TypeOK
<1>6. OpenInv
  BY <1>2, Defaults DEF OpenInv
<1>7. KnownInv
  BY <1>1, <1>2, OrderAssumption DEF KnownInv, Init, TablesInit, Idle
<1>8. PeakInv /\ RecordedWithinPeak /\ RecordedWasReceived /\ LossNeedsOverlap
  BY <1>1, <1>3 DEF PeakInv, RecordedWithinPeak, RecordedWasReceived, LossNeedsOverlap
<1>9. PaymentInv /\ BillInv
  BY <1>4 DEF PaymentInv, BillInv
<1>10. BillNotTooLow
  <2>1. \A o \in Orders : LiveItems(o) = {}
    BY DEF LiveItems, Init, TablesInit
  <2> QED BY <1>1, <1>3, <2>1, OrderAssumption DEF BillNotTooLow
<1> QED BY <1>5, <1>6, <1>7, <1>8, <1>9, <1>10 DEF IInv

\* Every step is one of six kinds.
LEMMA NextCases ==
  ASSUME Next
  PROVE  \/ \E o \in Orders, S \in SUBSET Items, s \in Targets,
               p \in StaffPayStatus \cup {"pending"} : CreateOrder(o, S, s, p)
         \/ \E o \in Orders : OpenTab(o)
         \/ \E w \in Workers, o \in Orders : Begins(w, o)
         \/ \E w \in Workers : CalculateOrderTotals(w) \/ RecalculateOrderTotals(w)
         \/ \E w \in Workers : Commit(w) \/ Abandon(w)
BY DEF Next, ServiceNext, ManagementNext, Begins

\* Every step keeps the invariant.
LEMMA StepInv == IInv /\ [Next]_vars => IInv'
<1> SUFFICES ASSUME IInv, [Next]_vars PROVE IInv'
  OBVIOUS
<1>1. CASE \E o \in Orders, S \in SUBSET Items, s \in Targets,
              p \in StaffPayStatus \cup {"pending"} : CreateOrder(o, S, s, p)
  BY <1>1, CreateInv
<1>2. CASE \E o \in Orders : OpenTab(o)
  BY <1>2, OpenTabInv
<1>3. CASE \E w \in Workers, o \in Orders : Begins(w, o)
  BY <1>3, BeginInv
<1>4. CASE \E w \in Workers : CalculateOrderTotals(w) \/ RecalculateOrderTotals(w)
  BY <1>4, CalculateInv, RecalculateInv
<1>5. CASE \E w \in Workers : Commit(w) \/ Abandon(w)
  BY <1>5, CommitInv, AbandonInv
<1>6. CASE UNCHANGED vars
  <2>1. \A o \in Orders : LiveItems(o)' = LiveItems(o)
    BY <1>6 DEF LiveItems, vars, tableVars
  <2> QED BY <1>6, <2>1 DEF vars, tableVars, ghostVars, IInv, TypeOK, OpenInv, KnownInv, PeakInv,
            PaymentInv, BillInv, RecordedWithinPeak, RecordedWasReceived, LossNeedsOverlap,
            BillNotTooLow, LiveItems
<1> QED BY <1>1, <1>2, <1>3, <1>4, <1>5, <1>6, NextCases

\* The inductive invariant holds in every reachable state.
THEOREM OrderInvariantHolds == Spec => []IInv
<1> QED BY InitInv, StepInv, PTL DEF Spec

\* Tables, requests and history keep their types.
THEOREM OrderTypeCorrect == Spec => []TypeOK
<1>1. IInv => TypeOK
  BY DEF IInv
<1> QED BY <1>1, OrderInvariantHolds, PTL

\* However many requests interleave or die, an order never records more money
\* than the greatest total it has had (record_payment, api/orders.py).
THEOREM RecordedIsBounded == Spec => []RecordedWithinPeak
<1>1. IInv => RecordedWithinPeak
  BY DEF IInv
<1> QED BY <1>1, OrderInvariantHolds, PTL

\* An order never records money that was not taken.
THEOREM RecordedIsReceived == Spec => []RecordedWasReceived
<1>1. IInv => RecordedWasReceived
  BY DEF IInv
<1> QED BY <1>1, OrderInvariantHolds, PTL

\* Only two overlapping payments of one order can lose money: the columns a
\* request did not change are not written back.
THEOREM OnlyPaymentsLosePayments == Spec => []LossNeedsOverlap
<1>1. IInv => LossNeedsOverlap
  BY DEF IInv
<1> QED BY <1>1, OrderInvariantHolds, PTL

\* The unflushed removal makes a bill too high, and nothing order_service does
\* makes one too low, for every number of items and every pricing.
THEOREM BillsAreNotTooLow == Spec => []BillNotTooLow
<1>1. IInv => BillNotTooLow
  BY DEF IInv
<1> QED BY <1>1, OrderInvariantHolds, PTL
=============================================================================
