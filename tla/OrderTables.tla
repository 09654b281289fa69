------------------------------ MODULE OrderTables ------------------------------
(***************************************************************************)
(* The tables orders and order_items (backend/app/models/order.py) and the *)
(* way a request works on them: a session of its own (core/database.py,    *)
(* get_sync_db, autoflush=False) loads rows, changes them in memory and    *)
(* commits.  Statements see what is committed when they run, no row is     *)
(* locked before the commit, and a commit writes only the columns whose    *)
(* value differs from the one loaded.                                      *)
(*                                                                         *)
(* A worker is a server process or thread that serves one request at a     *)
(* time.  Amounts are whole cents.  Orders and Items are the ids that will *)
(* ever be given out; an item is never changed, only inserted, moved to    *)
(* another order and soft-deleted.                                         *)
(***************************************************************************)
EXTENDS Integers, FiniteSets

CONSTANTS
  Orders, Items, Workers,
  NoOrder,        \* the order of an item that does not exist yet
  Gross(_),       \* price times quantity, modifiers and tax of a set of items
  Discounts(_),   \* the discounts given on a set of items
  MaxRequests     \* bound: requests that change something

\* What a set of items costs.
Net(S) == Gross(S) - Discounts(S)

\* Prices are not negative and no discount exceeds its price (schemas/order.py).
ASSUME OrderAssumption ==
  /\ NoOrder \notin Orders
  /\ MaxRequests \in Nat
  /\ Net({}) = 0
  /\ \A S \in SUBSET Items : Gross(S) \in Int /\ Discounts(S) \in Int
  /\ \A S, T \in SUBSET Items : S \subseteq T => Net(S) <= Net(T)

OrderStatus == {"draft", "pending", "confirmed", "processing", "shipped",
                "delivered", "received", "cancelled", "refunded"}
PaymentStatus == {"pending", "partial", "paid", "refunded", "failed"}

Row == [state : {"none", "live", "deleted"}, status : OrderStatus,
        pstat : PaymentStatus, total : Int, discount : Int, fee : Int,
        paid : Int, tab : BOOLEAN]

\* The column defaults.
Blank == [state |-> "none", status |-> "draft", pstat |-> "pending", total |-> 0,
          discount |-> 0, fee |-> 0, paid |-> 0, tab |-> FALSE]

VARIABLES
  orders,      \* the committed row of each order
  itemOrder,   \* order_items.order_id
  itemLive,    \* inserted and deleted_at IS NULL
  txn,         \* the request each worker is serving
  requests,    \* requests begun
  \* What the properties remember.
  peak,        \* the greatest total each order has had
  received,    \* the money taken for each order: payments answered with 200
  payRaced,    \* orders with a payment committed while another was under way
  billRaced,   \* the same for changes of the items or the discount
  managed      \* orders whose bill order_management_service.py has touched

tableVars == <<orders, itemOrder, itemLive>>
ghostVars == <<peak, received, payRaced, billRaced, managed>>
vars == <<tableVars, txn, requests, ghostVars>>

\* A request: the row it loaded, the row as it has changed it, and the items
\* it inserts, deletes or moves to the order `dest'.
Txn == [phase : {"idle", "read", "write"}, calc : {"none", "service", "management"},
        order : Orders \cup {NoOrder}, dest : Orders \cup {NoOrder},
        row : Row, new : Row, amount : Int, added : SUBSET Items,
        gone : SUBSET Items, moved : SUBSET Items, sources : SUBSET Orders,
        cancels : SUBSET Orders]

Idle == [phase |-> "idle", calc |-> "none", order |-> NoOrder, dest |-> NoOrder,
         row |-> Blank, new |-> Blank, amount |-> 0, added |-> {}, gone |-> {},
         moved |-> {}, sources |-> {}, cancels |-> {}]

TablesInit ==
  /\ orders = [o \in Orders |-> Blank]
  /\ itemOrder = [i \in Items |-> NoOrder]
  /\ itemLive = [i \in Items |-> FALSE]
  /\ txn = [w \in Workers |-> Idle]
  /\ requests = 0
  /\ peak = [o \in Orders |-> 0]
  /\ received = [o \in Orders |-> 0]
  /\ payRaced = {}
  /\ billRaced = {}
  /\ managed = {}

LiveItems(o) == {i \in Items : itemLive[i] /\ itemOrder[i] = o}

\* Ids are UUIDs: no two requests insert the same one.
FreshOrder(o) == orders[o].state = "none" /\ \A w \in Workers : txn[w].dest # o
FreshItem(i) == itemOrder[i] = NoOrder /\ \A w \in Workers : i \notin txn[w].added

Request ==
  /\ requests < MaxRequests
  /\ requests' = requests + 1

\* The request of a worker on an order that it found and has changed to new;
\* calc names the service whose totals are still to be computed.
Loaded(o, new, calc) ==
  [phase |-> IF calc = "none" THEN "write" ELSE "read", calc |-> calc,
   order |-> o, dest |-> NoOrder, row |-> orders[o], new |-> new, amount |-> 0,
   added |-> {}, gone |-> {}, moved |-> {}, sources |-> {}, cancels |-> {}]

Begin(w, o, t) ==
  /\ Request
  /\ txn[w].phase = "idle"
  /\ orders[o].state = "live"
  /\ txn' = [txn EXCEPT ![w] = t]
  /\ UNCHANGED <<tableVars, ghostVars>>

\* Broken variant of Column: every column is written back as it was loaded.
ColumnAsLoaded(current, loaded, new) == new

\* Only what differs from the loaded value is part of the UPDATE.
Column(current, loaded, new) == IF new = loaded THEN current ELSE new

Saved(current, loaded, new) ==
  [state    |-> Column(current.state, loaded.state, new.state),
   status   |-> Column(current.status, loaded.status, new.status),
   pstat    |-> Column(current.pstat, loaded.pstat, new.pstat),
   total    |-> Column(current.total, loaded.total, new.total),
   discount |-> Column(current.discount, loaded.discount, new.discount),
   fee      |-> Column(current.fee, loaded.fee, new.fee),
   paid     |-> Column(current.paid, loaded.paid, new.paid),
   tab      |-> Column(current.tab, loaded.tab, new.tab)]

\* A split's new order starts with the old one's status and no totals: its
\* items are still unflushed when they are looked up.
AfterCommit(t) ==
  [o \in Orders |->
     CASE o = t.order -> Saved(orders[o], t.row, t.new)
       [] o \in t.cancels \ {t.order} -> [orders[o] EXCEPT !.status = "cancelled"]
       [] o = t.dest /\ orders[o].state = "none" ->
            [Blank EXCEPT !.state = "live", !.status = t.row.status]
       [] OTHER -> orders[o]]

\* Another worker has a request of the same kind under way on the order.
OthersPaying(w, o) == \E v \in Workers \ {w} : txn[v].order = o /\ txn[v].amount # 0
OthersBilling(w, o) == \E v \in Workers \ {w} : txn[v].order = o /\ txn[v].calc # "none"

Greater(a, b) == IF a < b THEN b ELSE a

\* session.commit(): rows, inserts, moves and soft deletes at once.
Commit(w) ==
  LET t == txn[w] IN
  /\ t.phase = "write"
  /\ orders' = AfterCommit(t)
  /\ itemOrder' = [i \in Items |-> IF i \in t.added \cup t.moved THEN t.dest ELSE itemOrder[i]]
  /\ itemLive' = [i \in Items |-> i \in t.added \/ (itemLive[i] /\ i \notin t.gone)]
  /\ txn' = [txn EXCEPT ![w] = Idle]
  /\ peak' = [o \in Orders |-> Greater(peak[o], orders'[o].total)]
  /\ received' = [received EXCEPT ![t.order] = @ + t.amount]
  /\ payRaced' = payRaced \cup
       {o \in {t.order} : t.amount # 0 /\ OthersPaying(w, o)}
  /\ billRaced' = billRaced \cup
       {o \in {t.order} : t.calc # "none" /\ OthersBilling(w, o)}
  /\ managed' = managed \cup
       {o \in {t.order, t.dest} \cup t.sources : t.calc = "management" /\ o \in Orders}
  /\ UNCHANGED requests

\* An exception before the commit, or the death of the worker: rolled back.
Abandon(w) ==
  /\ txn[w].phase # "idle"
  /\ txn' = [txn EXCEPT ![w] = Idle]
  /\ UNCHANGED <<tableVars, requests, ghostVars>>
=============================================================================
