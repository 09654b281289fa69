------------------------------- MODULE Inventory -------------------------------
(***************************************************************************)
(* Requests that change quantities directly: the inventory service, the    *)
(* receipt of a purchase order, and the two bulk services, of which one    *)
(* keeps what it overwrote and can put it back.                            *)
(***************************************************************************)
EXTENDS StockTables

CONSTANTS
  Lines,         \* the quantity of each product on a purchase order
  Omissions,     \* the sets of products a receipt may pass over
  Repeats,       \* the products whose line a receipt may name again
  Adjustments,   \* for each product, quantity_change of manual adjustments
  Sales,         \* for each product, quantities sold
  Entries,       \* for each product, quantities typed into the inventory form
  Batches,       \* the sets of products of one bulk adjustment
  Shifts         \* quantity changes of bulk adjustments

ASSUME InventoryAssumption ==
  /\ Lines \in [Purchases -> [Products -> Nat]]
  /\ Omissions \subseteq SUBSET Products
  /\ Repeats \subseteq Products
  /\ Adjustments \in [Products -> SUBSET Int]
  /\ Sales \in [Products -> SUBSET Nat]
  /\ Entries \in [Products -> SUBSET Nat]
  /\ Batches \subseteq SUBSET Products
  /\ Shifts \subseteq Int

On(S, n) == [p \in Products |-> IF p \in S THEN n ELSE 0]

Direct(kind, mode, S, change) ==
  [Idle EXCEPT !.kind = kind, !.mode = mode, !.todo = S, !.change = change]

\* A change of one item, which begins with reading it; below zero it is refused.
Single(w, p, t) == ~Refuses(t, p) /\ Begin(w, Loaded(t, p))

AdjustInventory(w, p, n) == Single(w, p, Direct("adjust", "refuse", {p}, On({p}, n)))

RecordSale(w, p, q) == Single(w, p, Direct("adjust", "refuse", {p}, On({p}, -q)))

\* A quantity from the form, or from a row of an imported spreadsheet.
UpdateInventoryItem(w, p, q) == Single(w, p, Direct("edit", "restore", {p}, On({p}, q)))

BulkStockAdjust(w, S, n) == Begin(w, Direct("bulk", "add", S, On(S, n)))

CommitDirect(w) ==
  /\ Ready(w, {"adjust", "edit", "bulk"})
  /\ WriteStock(w)
  /\ Done(w)
  /\ UNCHANGED <<status, counts, snapshot, requests, receipts, applied, contended,
                 broken, skipped, repeated, overridden, basis, exact>>

-----------------------------------------------------------------------------
\* What is to be received: all lines of the order.
Ordered(o) == {p \in Products : Lines[o][p] > 0}

\* Lines that are not in the request, or whose update will fail, are passed over.
BeginReceipt(w, o, omitted) ==
  /\ txn[w].kind = "idle"
  /\ requests < MaxRequests
  /\ requests' = requests + 1
  /\ txn' = [txn EXCEPT ![w] = Changing("receive", o, "received", "add", Ordered(o) \ omitted, Lines[o])]
  /\ skipped' = [skipped EXCEPT ![o] = @ \cup omitted]
  /\ UNCHANGED <<tableVars, logged, shelf, receipts, applied, raced, contended, broken,
                 repeated, overridden, unlogged, signed, basis, exact>>

\* Broken variant of ReceivePurchaseOrder: only a cancelled order is refused.
ReceivePurchaseOrderAgain(w, o) ==
  /\ status[o] # "cancelled"
  /\ \E omitted \in Omissions : BeginReceipt(w, o, omitted)

ReceivePurchaseOrder(w, o) ==
  /\ status[o] \notin {"received", "cancelled"}
  /\ \E omitted \in Omissions : BeginReceipt(w, o, omitted)

\* record_purchase commits by itself.  The lines come from the list in the
\* request, which may name one again: it is then received again (bound: one
\* repetition of each line of an order).
CommitLine(w) ==
  LET t == txn[w] IN
  /\ t.kind = "receive" /\ t.loaded # {}
  /\ WriteStock(w)
  /\ receipts' = [receipts EXCEPT ![t.of] =
       [p \in Products |-> IF p \in t.loaded THEN @[p] + 1 ELSE @[p]]]
  /\ NoteContention(w)
  /\ \E again \in SUBSET ((t.loaded \cap Repeats) \ repeated[t.of]) :
       /\ txn' = [txn EXCEPT ![w].todo = @ \cup again, ![w].loaded = {}]
       /\ repeated' = [repeated EXCEPT ![t.of] = @ \cup again]
  /\ UNCHANGED <<status, counts, snapshot, requests, applied, broken, skipped, overridden, basis, exact>>

\* Broken variant of CommitReceipt: a status that the table does not know.
CommitReceiptPartly(w) ==
  LET t == txn[w] IN
  /\ Ready(w, {"receive"}) /\ t.loaded = {}
  /\ status' = [status EXCEPT ![t.of] =
       IF skipped[t.of] = {} THEN t.to ELSE "partially_received"]
  /\ NoteContention(w)
  /\ Done(w)
  /\ UNCHANGED <<onHand, counts, snapshot, requests, logged, shelf, receipts, applied,
                 raced, broken, skipped, repeated, overridden, unlogged, signed, basis, exact>>

\* Broken variant of CommitReceipt: the order is marked before its last line.
CommitReceiptFirst(w) ==
  LET t == txn[w] IN
  /\ t.kind = "receive" /\ t.loaded = {}
  /\ status' = [status EXCEPT ![t.of] = t.to]
  /\ NoteContention(w)
  /\ Done(w)
  /\ UNCHANGED <<onHand, counts, snapshot, requests, logged, shelf, receipts, applied,
                 raced, broken, skipped, repeated, overridden, unlogged, signed, basis, exact>>

\* The row was expired by those commits: the status is written in any case.
CommitReceipt(w) ==
  LET t == txn[w] IN
  /\ Ready(w, {"receive"}) /\ t.loaded = {}
  /\ status' = [status EXCEPT ![t.of] = t.to]
  /\ NoteContention(w)
  /\ Done(w)
  /\ UNCHANGED <<onHand, counts, snapshot, requests, logged, shelf, receipts, applied,
                 raced, broken, skipped, repeated, overridden, unlogged, signed, basis, exact>>

-----------------------------------------------------------------------------
TrackedAdjust(w, b, S, n) ==
  /\ status[b] = "none" /\ \A v \in Workers : txn[v].of # b
  /\ Begin(w, Changing("tracked", b, "completed", "add", S, On(S, n)))

CommitTracked(w) ==
  LET t == txn[w] IN
  /\ Ready(w, {"tracked"})
  /\ WriteStock(w)
  /\ WriteStatus(w)
  /\ snapshot' = [snapshot EXCEPT ![t.of] = [p \in t.loaded |-> t.before[p]]]
  /\ Done(w)
  /\ UNCHANGED <<counts, requests, receipts, applied, contended, broken, skipped, repeated, overridden, basis, exact>>

\* The status is flushed first, which locks the row of the operation until the
\* commit: a second rollback waits, and then finds its items skipped.
RollbackOperation(w, b) ==
  /\ status[b] = "completed" /\ DOMAIN snapshot[b] # {}
  /\ \A v \in Workers : txn[v].of # b
  /\ Begin(w, Changing("rollback", b, "completed", "restore", DOMAIN snapshot[b],
       [p \in Products |-> IF p \in DOMAIN snapshot[b] THEN snapshot[b][p] ELSE 0]))

CommitRollback(w) ==
  LET t == txn[w] IN
  /\ Ready(w, {"rollback"})
  /\ WriteStock(w)
  /\ snapshot' = [snapshot EXCEPT ![t.of] = NoSnapshot]
  /\ Done(w)
  /\ UNCHANGED <<status, counts, requests, receipts, applied, contended, broken, skipped, repeated, overridden,
                 basis, exact>>

InventoryNext ==
  \E w \in Workers :
    \/ \E p \in Products : \/ \E n \in Adjustments[p] : AdjustInventory(w, p, n)
                           \/ \E q \in Sales[p] : RecordSale(w, p, q)
                           \/ \E q \in Entries[p] : UpdateInventoryItem(w, p, q)
    \/ \E S \in Batches, n \in Shifts :
         BulkStockAdjust(w, S, n) \/ \E b \in Bulks : TrackedAdjust(w, b, S, n)
    \/ \E o \in Purchases : ReceivePurchaseOrder(w, o)
    \/ \E b \in Bulks : RollbackOperation(w, b)
    \/ CommitDirect(w) \/ CommitLine(w) \/ CommitReceipt(w)
    \/ CommitTracked(w) \/ CommitRollback(w)
=============================================================================
