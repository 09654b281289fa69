------------------------------ MODULE StockTables ------------------------------
(***************************************************************************)
(* The stock of a business: inventory_items.quantity_on_hand, the log      *)
(* inventory_transactions (backend/app/models/inventory.py), and the       *)
(* documents about stock: purchase orders, stock takes, bulk operations,   *)
(* and production orders.  A request works on them as OrderTables          *)
(* describes: what it reads is what is committed at that moment, nothing   *)
(* is locked, and its commit writes the quantities it computed, whatever   *)
(* they have become since.                                                 *)
(*                                                                         *)
(* A request reads the items it changes one query after the other.  The    *)
(* products are those with an inventory item.                              *)
(***************************************************************************)
EXTENDS Integers, FiniteSets, Sequences

CONSTANTS
  Products, Workers,
  Purchases,      \* purchase orders
  Takes,          \* stock take sessions
  Jobs,           \* production orders
  Bulks,          \* tracked bulk adjustments
  Nothing,        \* the document of a request that has none
  Opening,        \* the quantity of each product at first
  ByHand,         \* the statuses that requests set by hand
  MaxRequests     \* bound: requests that change something

Documents == Purchases \cup Takes \cup Jobs \cup Bulks

Status == {"none", "draft", "in_progress", "completed", "cancelled", "received"}

ASSUME TablesAssumption ==
  /\ Opening \in [Products -> Nat]
  /\ Nothing \notin Documents
  /\ Purchases \cap (Takes \cup Jobs \cup Bulks) = {}
  /\ Bulks \cap (Takes \cup Jobs) = {}
  /\ Takes \cap Jobs = {}
  /\ ByHand \subseteq Status
  /\ MaxRequests \in Nat

\* What a request does to a quantity it reads.
Modes == {"refuse",   \* add, but refuse to go below zero
          "add",      \* add
          "restore"}  \* overwrite

\* The kinds that write a row to inventory_transactions for each change.
Logging == {"adjust", "receive", "complete_take"}

\* The kinds that record goods that come or go; the others correct the record.
Moving == {"adjust", "receive"}

Kinds == Logging \cup {"idle", "edit", "bulk", "tracked", "rollback", "start_take",
                       "count", "cancel", "set", "start_job", "complete_job"}

VARIABLES
  onHand,      \* quantity_on_hand of each product
  status,      \* status of each document
  counts,      \* stock_counts of each stock take and product
  snapshot,    \* before_data of each bulk operation, until it is rolled back
  txn,         \* the request each worker is serving
  requests,    \* requests begun
  \* What the properties remember.
  logged,      \* the opening quantity and all quantity_change in the log
  shelf,       \* what is really there
  receipts,    \* how often each line of a purchase order came into stock
  applied,     \* how often each stock take changed the stock
  raced,       \* products of which two requests held a quantity at once
  contended,   \* documents that two requests worked on at once
  broken,      \* purchase orders whose receipt died after its first line
  skipped,     \* lines of a purchase order that a receipt has passed over
  repeated,    \* lines of a purchase order that a receipt has named twice
  overridden,  \* documents whose status someone has set by hand
  unlogged,    \* products with a change that is not what the log says
  signed,      \* products changed by a request that does not stop at zero
  basis,       \* logged, when a stock take was started
  exact        \* products counted while nothing had moved since the start

tableVars == <<onHand, status, counts, snapshot>>
ghostVars == <<logged, shelf, receipts, applied, raced, contended, broken,
               skipped, repeated, overridden, unlogged, signed, basis, exact>>
vars == <<tableVars, txn, requests, ghostVars>>

Quantities == [Products -> Int]

Txn == [kind : Kinds, of : Documents \cup {Nothing}, seen : Status, to : Status,
        mode : Modes, todo : SUBSET Products, loaded : SUBSET Products,
        before : Quantities, after : Quantities, change : Quantities,
        ledger : Quantities, row : Nat, exact : BOOLEAN]

Zero == [p \in Products |-> 0]

Idle == [kind |-> "idle", of |-> Nothing, seen |-> "none", to |-> "none",
         mode |-> "add", todo |-> {}, loaded |-> {}, before |-> Zero,
         after |-> Zero, change |-> Zero, ledger |-> Zero, row |-> 0, exact |-> FALSE]

NoSnapshot == [p \in {} |-> 0]

\* Some stock takes may have been started already.
TablesInit ==
  \E started \in SUBSET Takes :
  /\ onHand = Opening
  /\ status = [d \in Documents |->
       IF d \in started THEN "in_progress" ELSE IF d \in Bulks THEN "none" ELSE "draft"]
  /\ counts = [s \in Takes |-> [p \in Products |->
       IF s \in started THEN <<[system |-> Opening[p], variance |-> 0]>> ELSE <<>>]]
  /\ snapshot = [b \in Bulks |-> NoSnapshot]
  /\ txn = [w \in Workers |-> Idle]
  /\ requests = 0
  /\ logged = Opening
  /\ shelf = Opening
  /\ receipts = [o \in Purchases |-> Zero]
  /\ applied = [s \in Takes |-> 0]
  /\ raced = {} /\ contended = {} /\ broken = {} /\ unlogged = {} /\ signed = {}
  /\ skipped = [o \in Purchases |-> {}] /\ repeated = [o \in Purchases |-> {}]
  /\ overridden = {}
  /\ basis = [s \in Takes |-> Opening]
  /\ exact = [s \in Takes |-> {}]

-----------------------------------------------------------------------------
\* A request of a kind on a document whose status it has read.
Opened(kind, d, to) ==
  [Idle EXCEPT !.kind = kind, !.of = d, !.seen = status[d], !.to = to]

\* The same, if it also changes the quantities of some products.
Changing(kind, d, to, mode, S, change) ==
  [Opened(kind, d, to) EXCEPT !.mode = mode, !.todo = S, !.change = change]

Begin(w, t) ==
  /\ txn[w].kind = "idle"
  /\ requests < MaxRequests
  /\ requests' = requests + 1
  /\ txn' = [txn EXCEPT ![w] = t]
  /\ UNCHANGED <<tableVars, ghostVars>>

Result(t, p) ==
  IF t.mode = "restore" THEN t.change[p] ELSE onHand[p] + t.change[p]

\* Broken variant of Refuses: looks at the quantity before the change.
RefusesTooLate(t, p) == t.mode = "refuse" /\ onHand[p] < 0

Refuses(t, p) == t.mode = "refuse" /\ onHand[p] + t.change[p] < 0

\* The query for the inventory item of one product, and what is made of it.
Loaded(t, p) ==
  [t EXCEPT !.todo = @ \ {p}, !.loaded = @ \cup {p},
            !.before[p] = onHand[p], !.after[p] = Result(t, p)]

\* A request reads the next item.  A receipt commits each line before that.
Read(w, p) ==
  LET t == txn[w] IN
  /\ p \in t.todo
  /\ t.kind = "receive" => t.loaded = {}
  /\ txn' = [txn EXCEPT ![w] = Loaded(t, p)]
  /\ UNCHANGED <<tableVars, requests, ghostVars>>

\* An exception before the commit, or the death of the worker: rolled back, but
\* for the lines of a receipt that were committed.
Abandon(w) ==
  LET t == txn[w] IN
  /\ t.kind # "idle"
  /\ txn' = [txn EXCEPT ![w] = Idle]
  /\ broken' = broken \cup
       {o \in {t.of} : t.kind = "receive" /\ \E p \in Products : receipts[o][p] > 0}
  /\ UNCHANGED <<tableVars, requests, logged, shelf, receipts, applied, raced,
                 contended, skipped, repeated, overridden, unlogged, signed, basis, exact>>

\* Goods are lost, broken or stolen.
Shrink(p) ==
  /\ requests < MaxRequests
  /\ requests' = requests + 1
  /\ shelf' = [shelf EXCEPT ![p] = @ - 1]
  /\ exact' = [s \in Takes |-> exact[s] \ {p}]
  /\ txn' = [w \in Workers |->
       IF txn[w].kind = "count" /\ p \in txn[w].loaded
       THEN [txn[w] EXCEPT !.exact = FALSE] ELSE txn[w]]
  /\ UNCHANGED <<tableVars, logged, receipts, applied, raced, contended, broken,
                 skipped, repeated, overridden, unlogged, signed, basis>>

-----------------------------------------------------------------------------
\* Only what differs from the loaded value is part of the UPDATE.
Column(current, loaded, new) == IF new = loaded THEN current ELSE new

\* The quantities a request has computed reach the table, with their log rows.
WriteStock(w) ==
  LET t == txn[w]
      Shared(p) == \E v \in Workers \ {w} : txn[v].kind # "count" /\ p \in txn[v].loaded
  IN
  /\ onHand' = [p \in Products |->
       IF p \in t.loaded THEN Column(onHand[p], t.before[p], t.after[p]) ELSE onHand[p]]
  /\ logged' = [p \in Products |->
       IF p \in t.loaded /\ t.kind \in Logging THEN logged[p] + t.change[p] ELSE logged[p]]
  /\ shelf' = [p \in Products |->
       IF p \in t.loaded /\ t.kind \in Moving THEN shelf[p] + t.change[p] ELSE shelf[p]]
  /\ raced' = raced \cup {p \in t.loaded : Shared(p)}
  /\ unlogged' = unlogged \cup IF t.kind \in Logging THEN {} ELSE t.loaded
  /\ signed' = signed \cup IF t.mode = "refuse" THEN {} ELSE t.loaded

\* The status is among the columns of the same UPDATE.
WriteStatus(w) ==
  LET t == txn[w] IN
  status' = [d \in Documents |->
    IF d = t.of THEN Column(status[d], t.seen, t.to) ELSE status[d]]

\* Two requests on one document get in each other's way, unless they are counts
\* of different products.
InTheWay(t, u) ==
  /\ t.of = u.of /\ t.of # Nothing
  /\ t.kind = "count" /\ u.kind = "count" => t.loaded \cap u.loaded # {}

NoteContention(w) ==
  contended' = contended \cup
    {d \in {txn[w].of} : \E v \in Workers \ {w} : InTheWay(txn[w], txn[v])}

Ready(w, kinds) == txn[w].kind \in kinds /\ txn[w].todo = {}

Done(w) == txn' = [txn EXCEPT ![w] = Idle]

\* Cancelling a purchase order (any status), a stock take or a production order
\* (unless completed); deleting a production order is like cancelling it.
Cancel(w, d) ==
  /\ d \in Purchases \cup Takes \cup Jobs
  /\ status[d] \notin {"cancelled"} \cup IF d \in Purchases THEN {} ELSE {"completed"}
  /\ Begin(w, Opened("cancel", d, "cancelled"))

\* The endpoints that change a purchase order or a production order also set
\* its status, to whatever the request says.
SetStatus(w, d, to) ==
  /\ d \in Purchases \cup Jobs
  /\ to \in IF d \in Purchases THEN {"draft", "received"}
            ELSE {"draft", "in_progress", "completed", "cancelled"}
  /\ Begin(w, Opened("set", d, to))

\* A commit that changes a status and no stock.
CommitStatus(w) ==
  /\ Ready(w, {"cancel", "set", "start_job", "complete_job"})
  /\ WriteStatus(w)
  /\ overridden' = overridden \cup {d \in {txn[w].of} : txn[w].kind = "set"}
  /\ NoteContention(w)
  /\ Done(w)
  /\ UNCHANGED <<onHand, counts, snapshot, requests, logged, shelf, receipts, applied,
                 raced, broken, skipped, repeated, unlogged, signed, basis, exact>>
=============================================================================
