------------------------------ MODULE Stock_proofs -----------------------------
(***************************************************************************)
(* Proofs about Stock, for every set of products, workers and documents.   *)
(* A step begins a request, reads a quantity, or ends a request in one of  *)
(* a few ways; the three groups of conjuncts of the inductive invariant -  *)
(* quantities, receipts, documents - are preserved independently, and the  *)
(* invariant of the stock takes on top of them.                            *)
(***************************************************************************)
EXTENDS StockInv, SequenceTheorems, TLAPS

-----------------------------------------------------------------------------
(* How requests begin. *)

\* What a request of a stock take has read when it begins.
FreshTake(t) ==
  /\ t.kind = "start_take" => t.before = onHand /\ t.ledger = logged
  /\ t.kind = "count" => \E p \in Products : \E k \in DOMAIN counts[t.of][p] :
       /\ status[t.of] = "in_progress" /\ t.loaded = {p} /\ t.row = k
       /\ t.exact = (logged[p] = basis[t.of][p])
       /\ t.before[p] = counts[t.of][p][k].variance
       /\ t.after[p] = shelf[p] - counts[t.of][p][k].system
  /\ t.kind = "complete_take" =>
       /\ t.mode = "add" /\ t.todo = Differing(t.of) /\ t.loaded = {}
       /\ \A p \in Products : t.change[p] = SumVariance(counts[t.of][p])

\* What every request looks like when it begins.
Fresh(t) ==
  /\ t \in Txn /\ Shape(t) /\ t.kind # "idle"
  /\ t.kind # "count" => \A p \in t.loaded : Computed(t, p)
  /\ t.kind \in {"start_take", "complete_take", "cancel"} /\ t.of \in Takes => Checked(t)
  /\ t.kind = "receive" => t.loaded = {} /\ status[t.of] \notin {"received", "cancelled"}
  /\ FreshTake(t)

\* The step of worker w that begins request t.
Begins(w, t) ==
  /\ txn[w].kind = "idle"
  /\ txn' = [txn EXCEPT ![w] = t]
  /\ requests' \in Nat
  /\ skipped' \in [Purchases -> SUBSET Products]
  /\ \A o \in Purchases : skipped[o] \subseteq skipped'[o]
  /\ t.kind = "receive" => Ordered(t.of) \ skipped'[t.of] \subseteq t.todo
  /\ UNCHANGED <<tableVars, logged, shelf, receipts, applied, raced, contended, broken,
                 repeated, overridden, unlogged, signed, basis, exact>>

\* A begin that passes over no line.
LEMMA BeginBegins ==
  ASSUME TypeOK, NEW w \in Workers, NEW t, Begin(w, t),
         t.kind = "receive" => Ordered(t.of) \ skipped[t.of] \subseteq t.todo
  PROVE  Begins(w, t)
BY DEF Begin, Begins, TypeOK, ghostVars

\* The fields of an idle worker's request, and of one that has just been opened.
LEMMA IdleFields ==
  /\ Idle \in Txn /\ Idle.kind = "idle" /\ Idle.of = Nothing /\ Idle.mode = "add"
  /\ Idle.todo = {} /\ Idle.loaded = {} /\ Shape(Idle)
BY DEF Idle, Txn, Shape, Kinds, Logging, Status, Modes, Zero, Quantities

LEMMA OpenedFields ==
  ASSUME TypeOK, NEW kind \in Kinds, NEW d \in Documents, NEW to \in Status
  PROVE  LET t == Opened(kind, d, to) IN
         /\ t \in Txn /\ t.kind = kind /\ t.of = d /\ t.to = to /\ t.seen = status[d]
         /\ t.mode = "add" /\ t.todo = {} /\ t.loaded = {}
<1>1. status[d] \in Status
  BY DEF TypeOK
<1> QED BY <1>1, IdleFields DEF Opened, Idle, Txn, Modes, Zero, Quantities

LEMMA ChangingFields ==
  ASSUME TypeOK, NEW kind \in Kinds, NEW d \in Documents, NEW to \in Status,
         NEW mode \in Modes, NEW S \in SUBSET Products, NEW change \in Quantities
  PROVE  LET t == Changing(kind, d, to, mode, S, change) IN
         /\ t \in Txn /\ t.kind = kind /\ t.of = d /\ t.to = to /\ t.seen = status[d]
         /\ t.mode = mode /\ t.todo = S /\ t.loaded = {}
<1> DEFINE o == Opened(kind, d, to)
<1>1. /\ o \in Txn /\ o.kind = kind /\ o.of = d /\ o.to = to /\ o.seen = status[d]
      /\ o.loaded = {}
  BY OpenedFields
<1> HIDE DEF o
<1>2. Changing(kind, d, to, mode, S, change) = [o EXCEPT !.mode = mode, !.todo = S, !.change = change]
  BY DEF Changing, o
<1> QED BY <1>1, <1>2 DEF Txn

LEMMA ChangingChange ==
  ASSUME TypeOK, NEW kind \in Kinds, NEW d \in Documents, NEW to \in Status,
         NEW mode, NEW S, NEW change
  PROVE  Changing(kind, d, to, mode, S, change).change = change
<1> DEFINE o == Opened(kind, d, to)
<1>1. o \in Txn
  BY OpenedFields
<1> HIDE DEF o
<1>2. Changing(kind, d, to, mode, S, change) = [o EXCEPT !.mode = mode, !.todo = S, !.change = change]
  BY DEF Changing, o
<1> QED BY <1>1, <1>2 DEF Txn

LEMMA DirectFields ==
  ASSUME NEW kind \in Kinds, NEW mode \in Modes, NEW S \in SUBSET Products,
         NEW change \in Quantities
  PROVE  LET t == Direct(kind, mode, S, change) IN
         /\ t \in Txn /\ t.kind = kind /\ t.of = Nothing
         /\ t.mode = mode /\ t.todo = S /\ t.loaded = {} /\ t.change = change
BY IdleFields DEF Direct, Txn, Idle

LEMMA OnType ==
  ASSUME NEW S, NEW n \in Int
  PROVE  On(S, n) \in Quantities /\ \A p \in S \cap Products : On(S, n)[p] = n
BY DEF On, Quantities

\* What a query for an item makes of a request.
LEMMA LoadedFields ==
  ASSUME TypeOK, NEW t \in Txn, NEW p \in Products
  PROVE  LET u == Loaded(t, p) IN
         /\ u \in Txn /\ u.kind = t.kind /\ u.of = t.of /\ u.to = t.to /\ u.seen = t.seen
         /\ u.mode = t.mode /\ u.change = t.change
         /\ u.todo = t.todo \ {p} /\ u.loaded = t.loaded \cup {p}
         /\ u.before[p] = onHand[p] /\ u.after[p] = Result(t, p)
         /\ \A q \in Products \ {p} : u.before[q] = t.before[q] /\ u.after[q] = t.after[q]
         /\ Result(t, p) \in Int
<1>1. onHand[p] \in Int /\ t.change[p] \in Int
  BY DEF TypeOK, Txn, Quantities
<1>2. Result(t, p) \in Int
  BY <1>1 DEF Result
<1>3. t.before \in [Products -> Int] /\ t.after \in [Products -> Int]
  BY DEF Txn, Quantities
<1> DEFINE b == [t.before EXCEPT ![p] = onHand[p]]
           a == [t.after EXCEPT ![p] = Result(t, p)]
<1>4. /\ b \in Quantities /\ b[p] = onHand[p] /\ \A q \in Products \ {p} : b[q] = t.before[q]
      /\ a \in Quantities /\ a[p] = Result(t, p) /\ \A q \in Products \ {p} : a[q] = t.after[q]
  BY <1>1, <1>2, <1>3 DEF Quantities
<1>5. Loaded(t, p) = [t EXCEPT !.todo = @ \ {p}, !.loaded = @ \cup {p}, !.before = b, !.after = a]
  BY DEF Loaded, Txn
<1> HIDE DEF a, b
<1> DEFINE u == [t EXCEPT !.todo = @ \ {p}, !.loaded = @ \cup {p}, !.before = b, !.after = a]
<1>6. u \in Txn
  BY <1>4 DEF Txn
<1>7. u.kind = t.kind /\ u.of = t.of /\ u.to = t.to /\ u.seen = t.seen /\ u.mode = t.mode
  BY DEF Txn
<1>8. u.change = t.change /\ u.todo = t.todo \ {p} /\ u.loaded = t.loaded \cup {p}
  BY DEF Txn
<1>9. u.before = b /\ u.after = a
  BY DEF Txn
<1> HIDE DEF u
<1>10. u = Loaded(t, p)
  BY <1>5 DEF u
<1>11. u.before[p] = onHand[p] /\ u.after[p] = Result(t, p)
  BY <1>4, <1>9
<1>12. \A q \in Products \ {p} : u.before[q] = t.before[q] /\ u.after[q] = t.after[q]
  BY <1>4, <1>9
<1> QED BY <1>2, <1>6, <1>7, <1>8, <1>10, <1>11, <1>12

\* What has just been read is as the invariant says.
LEMMA LoadedComputed ==
  ASSUME TypeOK, NotBelowZero, NEW t \in Txn, NEW p \in Products, ~Refuses(t, p)
  PROVE  Computed(Loaded(t, p), p)
<1>1. onHand[p] \in Int /\ t.change[p] \in Int
  BY DEF TypeOK, Txn, Quantities
<1>2. p \notin signed => onHand[p] >= 0
  BY DEF NotBelowZero
<1>3. t.mode \in Modes
  BY DEF Txn
<1> DEFINE u == Loaded(t, p)
<1>4. /\ u.mode = t.mode /\ u.change = t.change
      /\ u.before[p] = onHand[p] /\ u.after[p] = Result(t, p)
  BY LoadedFields
<1> HIDE DEF u
<1>5. Computed(u, p)
  BY <1>1, <1>2, <1>3, <1>4 DEF Computed, Result, Refuses, Modes
<1> QED BY <1>5 DEF u
-----------------------------------------------------------------------------
(* The requests that read one item, several items, or none when they begin. *)

LEMMA SingleBegins ==
  ASSUME TypeOK, NotBelowZero, NEW w \in Workers, NEW p \in Products,
         NEW kind \in {"adjust", "edit"}, NEW mode \in Modes, NEW change \in Quantities,
         mode = "restore" => kind = "edit",
         Single(w, p, Direct(kind, mode, {p}, change))
  PROVE  \E t : Fresh(t) /\ Begins(w, t)
<1> DEFINE S == {p}
           d == Direct(kind, mode, S, change)
           u == Loaded(d, p)
<1>1. kind \in Kinds /\ S \in SUBSET Products
  BY DEF Kinds, Logging
<1>2. ~Refuses(d, p) /\ Begin(w, u)
  BY DEF Single
<1> HIDE DEF S
<1>3. /\ d \in Txn /\ d.kind = kind /\ d.of = Nothing /\ d.mode = mode
      /\ d.todo = S /\ d.loaded = {}
  BY <1>1, DirectFields
<1> USE DEF S
<1> HIDE DEF d
<1>4. /\ u \in Txn /\ u.kind = kind /\ u.of = Nothing /\ u.mode = mode
      /\ u.todo = {} /\ u.loaded = {p}
  BY <1>3, LoadedFields
<1>5. Computed(u, p)
  BY <1>3, <1>2, LoadedComputed
<1> HIDE DEF u
<1>6. Fresh(u)
  BY <1>4, <1>5 DEF Fresh, FreshTake, Shape, Logging
<1>7. Begins(w, u)
  BY <1>2, <1>4, BeginBegins
<1> QED BY <1>6, <1>7

LEMMA BulkBegins ==
  ASSUME TypeOK, NEW w \in Workers, NEW S \in SUBSET Products, NEW n \in Int,
         BulkStockAdjust(w, S, n)
  PROVE  \E t : Fresh(t) /\ Begins(w, t)
<1> DEFINE t == Direct("bulk", "add", S, On(S, n))
<1>1. "bulk" \in Kinds /\ "add" \in Modes /\ On(S, n) \in Quantities
  BY OnType DEF Kinds, Logging, Modes
<1>2. /\ t \in Txn /\ t.kind = "bulk" /\ t.of = Nothing /\ t.mode = "add"
      /\ t.todo = S /\ t.loaded = {}
  BY <1>1, DirectFields
<1>3. Begin(w, t)
  BY DEF BulkStockAdjust
<1> HIDE DEF t
<1>4. Fresh(t)
  BY <1>2 DEF Fresh, FreshTake, Shape, Logging
<1> QED BY <1>2, <1>3, <1>4, BeginBegins

\* The kinds that change quantities on behalf of a document.
LEMMA ChangingBegins ==
  ASSUME TypeOK, NEW w \in Workers, NEW d \in Documents,
         NEW kind \in {"tracked", "rollback", "complete_take"}, NEW mode \in Modes,
         NEW S \in SUBSET Products, NEW change \in Quantities,
         mode = "restore" => kind = "rollback", mode # "refuse",
         kind \in {"tracked", "rollback"} => d \in Bulks,
         kind = "complete_take" =>
           /\ d \in Takes /\ status[d] = "in_progress" /\ mode = "add" /\ S = Differing(d)
           /\ \A p \in Products : change[p] = SumVariance(counts[d][p]),
         Begin(w, Changing(kind, d, "completed", mode, S, change))
  PROVE  \E t : Fresh(t) /\ Begins(w, t)
<1> DEFINE t == Changing(kind, d, "completed", mode, S, change)
<1>1. kind \in Kinds /\ "completed" \in Status
  BY DEF Kinds, Logging, Status
<1>2. /\ t \in Txn /\ t.kind = kind /\ t.of = d /\ t.to = "completed" /\ t.seen = status[d]
      /\ t.mode = mode /\ t.todo = S /\ t.loaded = {}
  BY <1>1, ChangingFields
<1>3. Begin(w, t) /\ t.change = change
  BY <1>1, ChangingChange
<1> HIDE DEF t
<1>4. FreshTake(t)
  BY <1>2, <1>3 DEF FreshTake
<1>5. Fresh(t)
  BY <1>2, <1>4 DEF Fresh, Shape, Checked, Logging
<1>6. t.kind # "receive"
  BY <1>2
<1> QED BY <1>2, <1>3, <1>5, <1>6, BeginBegins

\* The kinds that only change a status.
LEMMA OpenedBegins ==
  ASSUME TypeOK, NEW w \in Workers, NEW d \in Purchases \cup Takes \cup Jobs,
         NEW kind \in {"cancel", "set", "start_job", "complete_job"}, NEW to \in Status,
         kind \in {"start_job", "complete_job"} => d \in Jobs,
         kind = "set" => d \in Purchases \cup Jobs,
         kind = "cancel" => /\ to = "cancelled" /\ status[d] # "cancelled"
                            /\ d \notin Purchases => status[d] # "completed",
         Begin(w, Opened(kind, d, to))
  PROVE  \E t : Fresh(t) /\ Begins(w, t)
<1> DEFINE t == Opened(kind, d, to)
<1>1. kind \in Kinds /\ d \in Documents
  BY DEF Kinds, Documents
<1>2. /\ t \in Txn /\ t.kind = kind /\ t.of = d /\ t.to = to /\ t.seen = status[d]
      /\ t.mode = "add" /\ t.todo = {} /\ t.loaded = {}
  BY <1>1, OpenedFields
<1>3. Begin(w, t)
  OBVIOUS
<1> HIDE DEF t
<1>4. d \in Takes \cup Jobs => d \notin Purchases
  BY TablesAssumption
<1>5. Fresh(t)
  BY <1>2, <1>4 DEF Fresh, FreshTake, Shape, Checked, Logging
<1> QED BY <1>2, <1>3, <1>5, BeginBegins

LEMMA ReceiptBegins ==
  ASSUME TypeOK, NEW w \in Workers, NEW o \in Purchases, ReceivePurchaseOrder(w, o)
  PROVE  \E t : Fresh(t) /\ Begins(w, t)
<1>1. PICK omitted \in Omissions : BeginReceipt(w, o, omitted)
  BY DEF ReceivePurchaseOrder
<1> DEFINE S == Ordered(o) \ omitted
           t == Changing("receive", o, "received", "add", S, Lines[o])
<1>2. /\ "receive" \in Kinds /\ o \in Documents /\ "received" \in Status /\ "add" \in Modes
      /\ S \in SUBSET Products
  BY DEF Kinds, Logging, Documents, Status, Modes, Ordered
<1>3. Lines[o] \in Quantities
  BY InventoryAssumption DEF Quantities
<1>4. /\ t \in Txn /\ t.kind = "receive" /\ t.of = o /\ t.to = "received" /\ t.seen = status[o]
      /\ t.mode = "add" /\ t.todo = S /\ t.loaded = {}
  BY <1>2, <1>3, ChangingFields
<1>5. /\ txn[w].kind = "idle" /\ requests' = requests + 1
      /\ txn' = [txn EXCEPT ![w] = t]
      /\ skipped' = [skipped EXCEPT ![o] = @ \cup omitted]
      /\ UNCHANGED <<tableVars, logged, shelf, receipts, applied, raced, contended, broken,
                     repeated, overridden, unlogged, signed, basis, exact>>
  BY <1>1 DEF BeginReceipt
<1>6. status[o] \notin {"received", "cancelled"}
  BY DEF ReceivePurchaseOrder
<1> HIDE DEF t
<1>7. Fresh(t)
  BY <1>4, <1>6 DEF Fresh, FreshTake, Shape, Logging
<1>8. omitted \subseteq Products
  BY InventoryAssumption
<1>9. /\ skipped' \in [Purchases -> SUBSET Products]
      /\ \A q \in Purchases : skipped[q] \subseteq skipped'[q]
      /\ skipped'[o] = skipped[o] \cup omitted
  BY <1>5, <1>8 DEF TypeOK
<1>10. Ordered(o) \ skipped'[o] \subseteq t.todo
  BY <1>4, <1>9
<1>11. requests' \in Nat
  BY <1>5 DEF TypeOK
<1>12. Begins(w, t)
  BY <1>4, <1>5, <1>9, <1>10, <1>11 DEF Begins
<1> QED BY <1>7, <1>12

LEMMA StartBegins ==
  ASSUME TypeOK, NEW w \in Workers, NEW s \in Takes, StartSession(w, s)
  PROVE  \E t : Fresh(t) /\ Begins(w, t)
<1> DEFINE o == Opened("start_take", s, "in_progress")
           t == [o EXCEPT !.before = onHand, !.ledger = logged]
<1>1. "start_take" \in Kinds /\ s \in Documents /\ "in_progress" \in Status
  BY DEF Kinds, Documents, Status
<1>2. /\ o \in Txn /\ o.kind = "start_take" /\ o.of = s /\ o.to = "in_progress"
      /\ o.seen = status[s] /\ o.mode = "add" /\ o.todo = {} /\ o.loaded = {}
  BY <1>1, OpenedFields
<1>3. Begin(w, t) /\ status[s] = "draft"
  BY DEF StartSession
<1> HIDE DEF o
<1>4. t \in Txn
  BY <1>2 DEF TypeOK, Txn
<1>5. /\ t.kind = o.kind /\ t.of = o.of /\ t.to = o.to /\ t.seen = o.seen
      /\ t.mode = o.mode /\ t.todo = o.todo /\ t.loaded = o.loaded
      /\ t.before = onHand /\ t.ledger = logged
  BY <1>2 DEF Txn
<1> HIDE DEF t
<1>6. Fresh(t)
  BY <1>2, <1>3, <1>4, <1>5 DEF Fresh, FreshTake, Shape, Checked, Logging
<1> QED BY <1>2, <1>3, <1>5, <1>6, BeginBegins

LEMMA SeqElement ==
  ASSUME NEW R, NEW q \in Seq(R), NEW i \in DOMAIN q
  PROVE  q[i] \in R
<1>1. i \in 1 .. Len(q)
  OBVIOUS
<1> QED BY <1>1

\* A row of a stock take has numbers in it.
LEMMA RowType ==
  ASSUME TypeOK, NEW s \in Takes, NEW p \in Products, NEW k \in DOMAIN counts[s][p]
  PROVE  counts[s][p][k].system \in Int /\ counts[s][p][k].variance \in Int
<1>1. counts[s][p] \in Seq([system : Int, variance : Int])
  BY DEF TypeOK, Rows
<1> DEFINE r == counts[s][p][k]
<1>2. r \in [system : Int, variance : Int]
  BY <1>1, SeqElement
<1> HIDE DEF r
<1>3. r.system \in Int /\ r.variance \in Int
  BY <1>2
<1> QED BY <1>3 DEF r

LEMMA CountBegins ==
  ASSUME TypeOK, NEW w \in Workers, NEW s \in Takes, NEW p \in Products, NEW k \in 1 .. 2,
         RecordCount(w, s, p, k)
  PROVE  \E t : Fresh(t) /\ Begins(w, t)
<1> DEFINE o == Opened("count", s, "in_progress")
           b == [o.before EXCEPT ![p] = counts[s][p][k].variance]
           a == [o.after EXCEPT ![p] = shelf[p] - counts[s][p][k].system]
           e == (logged[p] = basis[s][p])
           t == [o EXCEPT !.loaded = {p}, !.row = k, !.exact = e, !.before = b, !.after = a]
<1>1. "count" \in Kinds /\ s \in Documents /\ "in_progress" \in Status
  BY DEF Kinds, Documents, Status
<1>2. /\ o \in Txn /\ o.kind = "count" /\ o.of = s /\ o.to = "in_progress"
      /\ o.seen = status[s] /\ o.mode = "add" /\ o.todo = {} /\ o.loaded = {}
  BY <1>1, OpenedFields
<1>3. /\ Begin(w, [o EXCEPT !.loaded = {p}, !.row = k, !.exact = e,
                            !.before[p] = counts[s][p][k].variance,
                            !.after[p] = shelf[p] - counts[s][p][k].system])
      /\ k \in DOMAIN counts[s][p] /\ status[s] = "in_progress"
  BY DEF RecordCount
<1> HIDE DEF o
<1>4. [o EXCEPT !.loaded = {p}, !.row = k, !.exact = e,
                !.before[p] = counts[s][p][k].variance,
                !.after[p] = shelf[p] - counts[s][p][k].system] = t
  BY <1>2 DEF Txn
<1>5. Begin(w, t)
  BY <1>3, <1>4
<1>6. /\ counts[s][p][k].system \in Int /\ counts[s][p][k].variance \in Int /\ shelf[p] \in Int
  BY <1>3, RowType DEF TypeOK, Quantities
<1>7. o.before \in Quantities /\ o.after \in Quantities
  BY <1>2 DEF Txn
<1>8. /\ a \in Quantities /\ b \in Quantities /\ e \in BOOLEAN /\ k \in Nat
      /\ b[p] = counts[s][p][k].variance /\ a[p] = shelf[p] - counts[s][p][k].system
      /\ e = (logged[p] = basis[s][p])
  BY <1>6, <1>7 DEF Quantities
<1> HIDE DEF a, b, e
<1>9. t \in Txn
  BY <1>2, <1>8 DEF Txn
<1>10. /\ t.kind = o.kind /\ t.of = o.of /\ t.to = o.to /\ t.seen = o.seen
       /\ t.mode = o.mode /\ t.todo = o.todo /\ t.loaded = {p}
       /\ t.row = k /\ t.exact = e /\ t.before = b /\ t.after = a
  BY <1>2 DEF Txn
<1> HIDE DEF t
<1>11. FreshTake(t)
  BY <1>2, <1>3, <1>8, <1>10 DEF FreshTake
<1>12. Fresh(t)
  BY <1>2, <1>9, <1>10, <1>11 DEF Fresh, Shape, Logging
<1> QED BY <1>2, <1>5, <1>10, <1>12, BeginBegins
-----------------------------------------------------------------------------
(* The steps. *)

Ends(w) ==
  \/ CommitStatus(w) \/ CommitDirect(w) \/ CommitLine(w) \/ CommitReceipt(w)
  \/ CommitTracked(w) \/ CommitRollback(w) \/ CommitStart(w) \/ CommitCount(w)
  \/ CommitSession(w)

\* Whatever the request, it begins fresh.
LEMMA InventoryCases ==
  ASSUME TypeOK, NotBelowZero, InventoryNext
  PROVE  \E w \in Workers : (\E t : Fresh(t) /\ Begins(w, t)) \/ Ends(w)
<1>1. PICK w \in Workers :
    \/ \E p \in Products : \/ \E n \in Adjustments[p] : AdjustInventory(w, p, n)
                           \/ \E q \in Sales[p] : RecordSale(w, p, q)
                           \/ \E q \in Entries[p] : UpdateInventoryItem(w, p, q)
    \/ \E S \in Batches, n \in Shifts :
         BulkStockAdjust(w, S, n) \/ \E b \in Bulks : TrackedAdjust(w, b, S, n)
    \/ \E o \in Purchases : ReceivePurchaseOrder(w, o)
    \/ \E b \in Bulks : RollbackOperation(w, b)
    \/ CommitDirect(w) \/ CommitLine(w) \/ CommitReceipt(w)
    \/ CommitTracked(w) \/ CommitRollback(w)
  BY DEF InventoryNext
<1>2. "refuse" \in Modes /\ "restore" \in Modes /\ "add" \in Modes
  BY DEF Modes
<1>3. ASSUME NEW S, NEW n \in Int
      PROVE  On(S, n) \in Quantities
  BY OnType
<1>4. ASSUME NEW p \in Products, NEW n \in Adjustments[p], AdjustInventory(w, p, n)
      PROVE  \E t : Fresh(t) /\ Begins(w, t)
  <2>0. n \in Int
    BY InventoryAssumption
  <2>1. On({p}, n) \in Quantities
    BY <1>3, <2>0
  <2>2. Single(w, p, Direct("adjust", "refuse", {p}, On({p}, n)))
    BY <1>4 DEF AdjustInventory
  <2> QED BY <1>2, <2>1, <2>2, SingleBegins
<1>5. ASSUME NEW p \in Products, NEW q \in Sales[p], RecordSale(w, p, q)
      PROVE  \E t : Fresh(t) /\ Begins(w, t)
  <2>0. -q \in Int
    BY InventoryAssumption
  <2>1. On({p}, -q) \in Quantities
    BY <1>3, <2>0
  <2>2. Single(w, p, Direct("adjust", "refuse", {p}, On({p}, -q)))
    BY <1>5 DEF RecordSale
  <2> QED BY <1>2, <2>1, <2>2, SingleBegins
<1>6. ASSUME NEW p \in Products, NEW q \in Entries[p], UpdateInventoryItem(w, p, q)
      PROVE  \E t : Fresh(t) /\ Begins(w, t)
  <2>0. q \in Int
    BY InventoryAssumption
  <2>1. On({p}, q) \in Quantities
    BY <1>3, <2>0
  <2>2. Single(w, p, Direct("edit", "restore", {p}, On({p}, q)))
    BY <1>6 DEF UpdateInventoryItem
  <2> QED BY <1>2, <2>1, <2>2, SingleBegins
<1>7. ASSUME NEW S \in Batches, NEW n \in Shifts, BulkStockAdjust(w, S, n)
      PROVE  \E t : Fresh(t) /\ Begins(w, t)
  BY <1>7, InventoryAssumption, BulkBegins
<1>8. ASSUME NEW S \in Batches, NEW n \in Shifts, NEW b \in Bulks, TrackedAdjust(w, b, S, n)
      PROVE  \E t : Fresh(t) /\ Begins(w, t)
  <2>0. n \in Int /\ S \in SUBSET Products
    BY InventoryAssumption
  <2>1. On(S, n) \in Quantities /\ b \in Documents
    BY <1>3, <2>0 DEF Documents
  <2>2. Begin(w, Changing("tracked", b, "completed", "add", S, On(S, n)))
    BY <1>8 DEF TrackedAdjust
  <2> QED BY <1>2, <2>0, <2>1, <2>2, ChangingBegins
<1>9. ASSUME NEW b \in Bulks, RollbackOperation(w, b)
      PROVE  \E t : Fresh(t) /\ Begins(w, t)
  <2> DEFINE S == DOMAIN snapshot[b]
             q == [p \in Products |-> IF p \in S THEN snapshot[b][p] ELSE 0]
  <2>1. /\ S \in SUBSET Products /\ snapshot[b] \in [S -> Int]
    BY DEF TypeOK
  <2>2. q \in Quantities
    BY <2>1 DEF Quantities
  <2>3. Begin(w, Changing("rollback", b, "completed", "restore", S, q))
    BY <1>9 DEF RollbackOperation
  <2> HIDE DEF S, q
  <2>4. b \in Documents
    BY DEF Documents
  <2> QED BY <1>2, <2>1, <2>2, <2>3, <2>4, ChangingBegins
<1> QED BY <1>1, <1>4, <1>5, <1>6, <1>7, <1>8, <1>9, ReceiptBegins DEF Ends

LEMMA StockTakeCases ==
  ASSUME TypeOK, NotBelowZero, StockTakeNext
  PROVE  \E w \in Workers : (\E t : Fresh(t) /\ Begins(w, t)) \/ Ends(w)
<1>1. PICK w \in Workers :
    \/ \E s \in Takes : \/ StartSession(w, s)
                        \/ \E p \in Products, k \in 1 .. 2 : RecordCount(w, s, p, k)
                        \/ CompleteSession(w, s)
    \/ CommitStart(w) \/ CommitCount(w) \/ CommitSession(w)
  BY DEF StockTakeNext
<1>2. ASSUME NEW s \in Takes, CompleteSession(w, s)
      PROVE  \E t : Fresh(t) /\ Begins(w, t)
  <2> DEFINE S == Differing(s)
             q == [p \in Products |-> SumVariance(counts[s][p])]
  <2>1. ASSUME NEW p \in Products
        PROVE  SumVariance(counts[s][p]) \in Int
    <3>1. ASSUME NEW k PROVE VarianceOf(counts[s][p], k) \in Int
      BY RowType DEF VarianceOf
    <3> QED BY <3>1 DEF SumVariance
  <2>2. q \in Quantities
    BY <2>1 DEF Quantities
  <2>3. S \in SUBSET Products /\ \A p \in Products : q[p] = SumVariance(counts[s][p])
    BY DEF Differing
  <2>4. /\ Begin(w, Changing("complete_take", s, "completed", "add", S, q))
        /\ status[s] = "in_progress"
    BY <1>2 DEF CompleteSession
  <2>5. S = Differing(s)
    OBVIOUS
  <2> HIDE DEF S, q
  <2>6. /\ s \in Documents /\ "add" \in Modes
    BY DEF Documents, Modes
  <2> QED BY <2>2, <2>3, <2>4, <2>5, <2>6, ChangingBegins
<1> QED BY <1>1, <1>2, StartBegins, CountBegins DEF Ends

LEMMA ProductionCases ==
  ASSUME TypeOK, NotBelowZero, ProductionNext
  PROVE  \E w \in Workers : (\E t : Fresh(t) /\ Begins(w, t)) \/ Ends(w)
<1>1. PICK w \in Workers, j \in Jobs : StartProduction(w, j) \/ CompleteProduction(w, j)
  BY DEF ProductionNext
<1>2. PICK kind \in {"start_job", "complete_job"}, to \in {"in_progress", "completed"} :
        Begin(w, Opened(kind, j, to))
  BY <1>1 DEF StartProduction, CompleteProduction
<1>3. to \in Status
  BY DEF Status
<1> QED BY <1>2, <1>3, OpenedBegins

\* A step begins a request, reads a quantity, or ends a request.
LEMMA NextCases ==
  ASSUME TypeOK, NotBelowZero, [Next]_vars
  PROVE  \/ \E w \in Workers : \/ \E t : Fresh(t) /\ Begins(w, t)
                               \/ \E p \in Products : Read(w, p)
                               \/ Ends(w)
                               \/ Abandon(w)
         \/ \E p \in Products : Shrink(p)
         \/ UNCHANGED vars
<1>1. ASSUME NEW w \in Workers, NEW d \in Documents, Cancel(w, d)
      PROVE  \E t : Fresh(t) /\ Begins(w, t)
  <2>1. /\ d \in Purchases \cup Takes \cup Jobs /\ status[d] # "cancelled"
        /\ d \notin Purchases => status[d] # "completed"
        /\ Begin(w, Opened("cancel", d, "cancelled"))
    BY <1>1 DEF Cancel
  <2>2. "cancelled" \in Status
    BY DEF Status
  <2> QED BY <2>1, <2>2, OpenedBegins
<1>2. ASSUME NEW w \in Workers, NEW d \in Documents, NEW to \in ByHand, SetStatus(w, d, to)
      PROVE  \E t : Fresh(t) /\ Begins(w, t)
  <2>1. d \in Purchases \cup Jobs /\ Begin(w, Opened("set", d, to))
    BY <1>2 DEF SetStatus
  <2>2. to \in Status
    BY TablesAssumption
  <2> QED BY <2>1, <2>2, OpenedBegins
<1>3. CASE UNCHANGED vars
  BY <1>3
<1>4. CASE InventoryNext \/ StockTakeNext \/ ProductionNext
  BY <1>4, InventoryCases, StockTakeCases, ProductionCases
<1>5. CASE Next /\ ~(InventoryNext \/ StockTakeNext \/ ProductionNext)
  BY <1>5, <1>1, <1>2 DEF Next, Ends
<1> QED BY <1>3, <1>4, <1>5
-----------------------------------------------------------------------------
(* What a step does to the requests under way. *)

\* Two forms of a request that differ in nothing the invariant is about.
Alike(t, u) ==
  /\ u.kind = t.kind /\ u.of = t.of /\ u.seen = t.seen /\ u.to = t.to /\ u.mode = t.mode
  /\ u.todo = t.todo /\ u.loaded = t.loaded /\ u.before = t.before
  /\ u.after = t.after /\ u.change = t.change

LEMMA ExactAlike ==
  ASSUME NEW t \in Txn
  PROVE  [t EXCEPT !.exact = FALSE] \in Txn /\ Alike(t, [t EXCEPT !.exact = FALSE])
BY DEF Txn, Alike

LEMMA ReadTxn ==
  ASSUME TypeOK, NEW w \in Workers, NEW p \in Products, Read(w, p)
  PROVE  /\ txn' = [txn EXCEPT ![w] = Loaded(txn[w], p)]
         /\ txn[w] \in Txn /\ Loaded(txn[w], p) \in Txn
         /\ txn'[w] = Loaded(txn[w], p) /\ \A v \in Workers \ {w} : txn'[v] = txn[v]
         /\ p \in txn[w].todo
<1>1. txn' = [txn EXCEPT ![w] = Loaded(txn[w], p)] /\ p \in txn[w].todo
  BY DEF Read
<1>2. txn[w] \in Txn
  BY DEF TypeOK
<1>3. Loaded(txn[w], p) \in Txn
  BY <1>2, LoadedFields
<1> QED BY <1>1, <1>2, <1>3 DEF TypeOK

LEMMA LineTxn ==
  ASSUME TypeOK, NEW w \in Workers, CommitLine(w)
  PROVE  /\ txn' \in [Workers -> Txn]
         /\ \A v \in Workers \ {w} : txn'[v] = txn[v]
         /\ txn[w].kind = "receive" /\ txn[w].loaded # {}
         /\ txn'[w].kind = "receive" /\ txn'[w].of = txn[w].of /\ txn'[w].to = txn[w].to
         /\ txn'[w].mode = txn[w].mode /\ txn'[w].loaded = {}
         /\ \E again \in SUBSET txn[w].loaded :
              /\ txn'[w].todo = txn[w].todo \cup again
              /\ repeated' = [repeated EXCEPT ![txn[w].of] = @ \cup again]
<1> DEFINE t == txn[w]
<1>1. PICK again \in SUBSET ((t.loaded \cap Repeats) \ repeated[t.of]) :
        /\ txn' = [txn EXCEPT ![w].todo = @ \cup again, ![w].loaded = {}]
        /\ repeated' = [repeated EXCEPT ![t.of] = @ \cup again]
  BY DEF CommitLine
<1> DEFINE u == [t EXCEPT !.todo = @ \cup again, !.loaded = {}]
<1>2. t \in Txn /\ t.kind = "receive" /\ t.loaded # {}
  BY DEF TypeOK, CommitLine
<1>3. repeated' = [repeated EXCEPT ![txn[w].of] = @ \cup again]
  BY <1>1
<1>4. txn \in [Workers -> Txn]
  BY DEF TypeOK
<1>5. txn' = [txn EXCEPT ![w] = u]
  BY <1>1, <1>4
<1>6. again \in SUBSET txn[w].loaded
  BY <1>1
<1> HIDE DEF t
<1>7. u \in Txn
  BY <1>2, <1>6 DEF Txn, t
<1>8. /\ u.kind = t.kind /\ u.of = t.of /\ u.to = t.to /\ u.mode = t.mode
      /\ u.todo = t.todo \cup again /\ u.loaded = {}
  BY <1>2 DEF Txn
<1> HIDE DEF u
<1>9. txn'[w] = u /\ \A v \in Workers \ {w} : txn'[v] = txn[v]
  BY <1>5, <1>4
<1>10. txn' \in [Workers -> Txn]
  BY <1>7, <1>5, <1>4
<1> QED BY <1>2, <1>8, <1>9, <1>10, <1>3, <1>6 DEF t

LEMMA DoneTxn ==
  ASSUME TypeOK, NEW w \in Workers, Ends(w), ~CommitLine(w)
  PROVE  /\ txn' \in [Workers -> Txn]
         /\ \A v \in Workers \ {w} : Alike(txn[v], txn'[v])
         /\ txn'[w] = Idle /\ txn[w].kind # "idle" /\ txn[w].todo = {}
<1>0. txn \in [Workers -> Txn]
  BY DEF TypeOK
<1>1. CASE CommitSession(w)
  <2> DEFINE c == {p \in txn[w].loaded : txn[w].change[p] # 0}
             F(v) == CASE v = w -> Idle
                       [] v # w /\ txn[v].kind = "count" /\ txn[v].loaded \cap c # {} ->
                            [txn[v] EXCEPT !.exact = FALSE]
                       [] OTHER -> txn[v]
  <2>1. txn' = [v \in Workers |-> F(v)] /\ txn[w].kind = "complete_take" /\ txn[w].todo = {}
    BY <1>1 DEF CommitSession, Ready
  <2>2. F(w) = Idle
    OBVIOUS
  <2>3. ASSUME NEW v \in Workers \ {w}
        PROVE  F(v) \in Txn /\ Alike(txn[v], F(v))
    <3>1. txn[v] \in Txn
      BY <1>0
    <3>2. Alike(txn[v], txn[v])
      BY DEF Alike
    <3>3. F(v) = txn[v] \/ F(v) = [txn[v] EXCEPT !.exact = FALSE]
      OBVIOUS
    <3> HIDE DEF F
    <3> QED BY <3>1, <3>2, <3>3, ExactAlike
  <2> HIDE DEF F
  <2>4. \A v \in Workers : txn'[v] = F(v)
    BY <2>1
  <2>5. \A v \in Workers : F(v) \in Txn
    BY <2>2, <2>3, IdleFields
  <2> QED BY <2>1, <2>2, <2>3, <2>4, <2>5
<1>2. CASE ~CommitSession(w)
  <2>1. Done(w) /\ txn[w].kind # "idle" /\ txn[w].todo = {}
    BY <1>2 DEF Ends, Ready, CommitStatus, CommitDirect, CommitReceipt, CommitTracked,
                CommitRollback, CommitStart, CommitCount
  <2>2. txn' = [txn EXCEPT ![w] = Idle]
    BY <2>1 DEF Done
  <2>3. \A v \in Workers \ {w} : txn'[v] = txn[v]
    BY <1>0, <2>2
  <2>4. \A v \in Workers \ {w} : Alike(txn[v], txn'[v])
    BY <2>3 DEF Alike
  <2> QED BY <1>0, <2>1, <2>2, <2>4, IdleFields
<1> QED BY <1>1, <1>2

LEMMA ShrinkTxn ==
  ASSUME TypeOK, NEW p \in Products, Shrink(p)
  PROVE  txn' \in [Workers -> Txn] /\ \A v \in Workers : Alike(txn[v], txn'[v])
<1> DEFINE F(v) == IF txn[v].kind = "count" /\ p \in txn[v].loaded
                   THEN [txn[v] EXCEPT !.exact = FALSE] ELSE txn[v]
<1>1. txn' = [v \in Workers |-> F(v)]
  BY DEF Shrink
<1>2. ASSUME NEW v \in Workers
      PROVE  F(v) \in Txn /\ Alike(txn[v], F(v))
  <2>1. txn[v] \in Txn
    BY DEF TypeOK
  <2>2. Alike(txn[v], txn[v])
    BY DEF Alike
  <2>3. F(v) = txn[v] \/ F(v) = [txn[v] EXCEPT !.exact = FALSE]
    OBVIOUS
  <2> HIDE DEF F
  <2> QED BY <2>1, <2>2, <2>3, ExactAlike
<1> HIDE DEF F
<1> QED BY <1>1, <1>2

LEMMA BeginsTxn ==
  ASSUME TypeOK, NEW w \in Workers, NEW t, Fresh(t), Begins(w, t)
  PROVE  /\ txn' \in [Workers -> Txn] /\ txn'[w] = t /\ txn[w].kind = "idle"
         /\ \A v \in Workers \ {w} : txn'[v] = txn[v]
BY DEF TypeOK, Begins, Fresh

LEMMA AbandonTxn ==
  ASSUME TypeOK, NEW w \in Workers, Abandon(w)
  PROVE  /\ txn' \in [Workers -> Txn] /\ txn'[w] = Idle
         /\ \A v \in Workers \ {w} : txn'[v] = txn[v]
BY IdleFields DEF TypeOK, Abandon

-----------------------------------------------------------------------------
(* The shape of the requests. *)

LEMMA AlikeShape ==
  ASSUME NEW t, NEW u, Alike(t, u), Shape(t)
  PROVE  Shape(u)
BY DEF Alike, Shape

LEMMA ShapeStep ==
  ASSUME TypeOK, NotBelowZero, ShapeInv, [Next]_vars
  PROVE  ShapeInv'
<1>1. ASSUME NEW w \in Workers, NEW t, Fresh(t), Begins(w, t)
      PROVE  ShapeInv'
  <2>1. Shape(t)
    BY <1>1 DEF Fresh
  <2> QED BY <1>1, <2>1, BeginsTxn DEF ShapeInv
<1>2. ASSUME NEW w \in Workers, NEW p \in Products, Read(w, p)
      PROVE  ShapeInv'
  <2> DEFINE t == txn[w]
             u == Loaded(t, p)
  <2>1. t \in Txn /\ Shape(t) /\ p \in t.todo
    BY <1>2, ReadTxn DEF ShapeInv
  <2>2. /\ u.kind = t.kind /\ u.of = t.of /\ u.to = t.to /\ u.mode = t.mode
        /\ u.todo = t.todo \ {p} /\ u.loaded = t.loaded \cup {p}
    BY <2>1, LoadedFields
  <2>3. txn'[w] = u /\ \A v \in Workers \ {w} : txn'[v] = txn[v]
    BY <1>2, ReadTxn
  <2> HIDE DEF t, u
  <2>4. Shape(u)
    BY <2>1, <2>2 DEF Shape
  <2> QED BY <2>3, <2>4 DEF ShapeInv
<1>3. ASSUME NEW w \in Workers, CommitLine(w)
      PROVE  ShapeInv'
  <2>1. Shape(txn[w])
    BY DEF ShapeInv
  <2>2. Shape(txn[w])'
    BY <1>3, <2>1, LineTxn DEF Shape
  <2> QED BY <1>3, <2>2, LineTxn DEF ShapeInv
<1>4. ASSUME NEW w \in Workers, Ends(w), ~CommitLine(w)
      PROVE  ShapeInv'
  <2>1. txn'[w] = Idle /\ \A v \in Workers \ {w} : Alike(txn[v], txn'[v])
    BY <1>4, DoneTxn
  <2>2. \A v \in Workers \ {w} : Shape(txn[v])'
    BY <2>1, AlikeShape DEF ShapeInv
  <2> QED BY <2>1, <2>2, IdleFields DEF ShapeInv
<1>5. ASSUME NEW w \in Workers, Abandon(w)
      PROVE  ShapeInv'
  BY <1>5, AbandonTxn, IdleFields DEF ShapeInv
<1>6. ASSUME NEW p \in Products, Shrink(p)
      PROVE  ShapeInv'
  BY <1>6, ShrinkTxn, AlikeShape DEF ShapeInv
<1>7. CASE UNCHANGED vars
  BY <1>7 DEF ShapeInv, vars
<1> QED BY <1>1, <1>2, <1>3, <1>4, <1>5, <1>6, <1>7, NextCases

-----------------------------------------------------------------------------
(* Types. *)

LEMMA WriteStockType ==
  ASSUME TypeOK, NEW w \in Workers, WriteStock(w)
  PROVE  /\ onHand' \in Quantities /\ logged' \in Quantities /\ shelf' \in Quantities
         /\ raced' \subseteq Products /\ unlogged' \subseteq Products /\ signed' \subseteq Products
<1> DEFINE t == txn[w]
<1>1. /\ t.loaded \subseteq Products
      /\ \A p \in Products : t.before[p] \in Int /\ t.after[p] \in Int /\ t.change[p] \in Int
  BY DEF TypeOK, Txn, Quantities
<1>2. \A p \in Products : onHand[p] \in Int /\ logged[p] \in Int /\ shelf[p] \in Int
  BY DEF TypeOK, Quantities
<1>3. onHand' \in Quantities
  BY <1>1, <1>2 DEF WriteStock, Column, Quantities
<1>4. logged' \in Quantities /\ shelf' \in Quantities
  BY <1>1, <1>2 DEF WriteStock, Quantities
<1>5. raced' \subseteq Products /\ unlogged' \subseteq Products /\ signed' \subseteq Products
  BY <1>1 DEF WriteStock, TypeOK
<1> QED BY <1>3, <1>4, <1>5

LEMMA WriteStatusType ==
  ASSUME TypeOK, NEW w \in Workers, WriteStatus(w)
  PROVE  status' \in [Documents -> Status]
<1>1. txn[w].to \in Status
  BY DEF TypeOK, Txn
<1> QED BY <1>1 DEF TypeOK, WriteStatus, Column

LEMMA ContentionType ==
  ASSUME TypeOK, NEW w \in Workers, NoteContention(w)
  PROVE  contended' \subseteq Documents
<1>1. txn[w].of \in Documents \cup {Nothing}
  BY DEF TypeOK, Txn
<1> QED BY <1>1 DEF TypeOK, NoteContention, InTheWay

\* Types of everything but the requests.
RestOK ==
  /\ onHand \in Quantities
  /\ status \in [Documents -> Status]
  /\ counts \in [Takes -> [Products -> Rows]]
  /\ snapshot = [b \in Bulks |-> snapshot[b]]
  /\ \A b \in Bulks : /\ DOMAIN snapshot[b] \subseteq Products
                      /\ snapshot[b] \in [DOMAIN snapshot[b] -> Int]
  /\ requests \in Nat
  /\ logged \in Quantities
  /\ shelf \in Quantities
  /\ receipts \in [Purchases -> [Products -> Nat]]
  /\ applied \in [Takes -> Nat]
  /\ raced \subseteq Products /\ unlogged \subseteq Products /\ signed \subseteq Products
  /\ contended \subseteq Documents /\ overridden \subseteq Documents
  /\ skipped \in [Purchases -> SUBSET Products]
  /\ repeated \in [Purchases -> SUBSET Products]
  /\ broken \subseteq Purchases
  /\ basis \in [Takes -> Quantities]
  /\ exact \in [Takes -> SUBSET Products]

LEMMA TypeSplit ==
  /\ TypeOK => RestOK
  /\ RestOK' /\ txn' \in [Workers -> Txn] => TypeOK'
BY DEF TypeOK, RestOK

LEMMA LineType ==
  ASSUME TypeOK, ShapeInv, NEW w \in Workers, CommitLine(w)
  PROVE  RestOK'
<1>1. receipts' \in [Purchases -> [Products -> Nat]]
  <2> DEFINE R == [p \in Products |-> IF p \in txn[w].loaded
                     THEN receipts[txn[w].of][p] + 1 ELSE receipts[txn[w].of][p]]
  <2>1. receipts' = [receipts EXCEPT ![txn[w].of] = R]
    BY DEF CommitLine
  <2>2. txn[w].of \in Purchases => R \in [Products -> Nat]
    BY DEF TypeOK
  <2> HIDE DEF R
  <2> QED BY <2>1, <2>2 DEF TypeOK
<1>2. WriteStock(w) /\ NoteContention(w)
  BY DEF CommitLine
<1>3. repeated' \in [Purchases -> SUBSET Products]
  <2>1. PICK again \in SUBSET txn[w].loaded :
          repeated' = [repeated EXCEPT ![txn[w].of] = @ \cup again]
    BY LineTxn
  <2>2. again \subseteq Products /\ txn[w].of \in Purchases
    BY <2>1 DEF TypeOK, Txn, ShapeInv, Shape, CommitLine
  <2> QED BY <2>1, <2>2 DEF TypeOK
<1> QED BY <1>1, <1>2, <1>3, WriteStockType, ContentionType DEF RestOK, TypeOK, CommitLine

LEMMA ReceiptType ==
  ASSUME TypeOK, NEW w \in Workers, CommitReceipt(w)
  PROVE  RestOK'
<1>1. txn[w].to \in Status
  BY DEF TypeOK, Txn
<1>2. status' \in [Documents -> Status] /\ NoteContention(w)
  BY <1>1 DEF CommitReceipt, TypeOK
<1> QED BY <1>2, ContentionType DEF RestOK, TypeOK, CommitReceipt

LEMMA TrackedType ==
  ASSUME TypeOK, NEW w \in Workers, CommitTracked(w)
  PROVE  RestOK'
<1> DEFINE S == txn[w].loaded
           q == [p \in S |-> txn[w].before[p]]
<1>1. S \subseteq Products /\ \A p \in S : txn[w].before[p] \in Int
  BY DEF TypeOK, Txn, Quantities
<1>2. DOMAIN q \subseteq Products /\ q \in [DOMAIN q -> Int]
  BY <1>1
<1>3. snapshot' = [snapshot EXCEPT ![txn[w].of] = q] /\ WriteStock(w) /\ WriteStatus(w)
  BY DEF CommitTracked
<1> HIDE DEF q
<1>4. snapshot' = [b \in Bulks |-> IF b = txn[w].of THEN q ELSE snapshot[b]]
  BY <1>3 DEF TypeOK
<1>5. \A b \in Bulks : snapshot'[b] = IF b = txn[w].of THEN q ELSE snapshot[b]
  BY <1>4
<1>6. /\ snapshot' = [b \in Bulks |-> snapshot'[b]]
      /\ \A b \in Bulks : /\ DOMAIN snapshot'[b] \subseteq Products
                          /\ snapshot'[b] \in [DOMAIN snapshot'[b] -> Int]
  BY <1>2, <1>4, <1>5 DEF TypeOK
<1> QED BY <1>3, <1>6, WriteStockType, WriteStatusType DEF RestOK, TypeOK, CommitTracked

LEMMA RollbackType ==
  ASSUME TypeOK, NEW w \in Workers, CommitRollback(w)
  PROVE  RestOK'
<1>1. DOMAIN NoSnapshot \subseteq Products /\ NoSnapshot \in [DOMAIN NoSnapshot -> Int]
  BY DEF NoSnapshot
<1>2. snapshot' = [snapshot EXCEPT ![txn[w].of] = NoSnapshot] /\ WriteStock(w)
  BY DEF CommitRollback
<1>3. snapshot' = [b \in Bulks |-> IF b = txn[w].of THEN NoSnapshot ELSE snapshot[b]]
  BY <1>2 DEF TypeOK
<1>4. \A b \in Bulks : snapshot'[b] = IF b = txn[w].of THEN NoSnapshot ELSE snapshot[b]
  BY <1>3
<1>5. /\ snapshot' = [b \in Bulks |-> snapshot'[b]]
      /\ \A b \in Bulks : /\ DOMAIN snapshot'[b] \subseteq Products
                          /\ snapshot'[b] \in [DOMAIN snapshot'[b] -> Int]
  BY <1>1, <1>3, <1>4 DEF TypeOK
<1> QED BY <1>2, <1>5, WriteStockType DEF RestOK, TypeOK, CommitRollback

LEMMA StartType ==
  ASSUME TypeOK, NEW w \in Workers, CommitStart(w)
  PROVE  RestOK'
<1> DEFINE s == txn[w].of
           C == [p \in Products |->
                   Append(counts[s][p], [system |-> txn[w].before[p], variance |-> 0])]
<1>1. txn[w].ledger \in Quantities /\ \A p \in Products : txn[w].before[p] \in Int
  BY DEF TypeOK, Txn, Quantities
<1>2. counts' = [counts EXCEPT ![s] = C] /\ basis' = [basis EXCEPT ![s] = txn[w].ledger]
  BY DEF CommitStart
<1>3. s \in Takes => C \in [Products -> Rows]
  <2>1. ASSUME s \in Takes, NEW p \in Products
        PROVE  C[p] \in Rows
    <3>1. counts[s][p] \in Seq([system : Int, variance : Int])
      BY <2>1 DEF TypeOK, Rows
    <3>2. [system |-> txn[w].before[p], variance |-> 0] \in [system : Int, variance : Int]
      BY <1>1, <2>1
    <3> QED BY <3>1, <3>2 DEF Rows
  <2> QED BY <2>1
<1>4. counts' \in [Takes -> [Products -> Rows]]
  <2> HIDE DEF C
  <2> QED BY <1>2, <1>3 DEF TypeOK
<1>5. basis' \in [Takes -> Quantities]
  BY <1>1, <1>2 DEF TypeOK
<1>6. WriteStatus(w) /\ NoteContention(w)
  BY DEF CommitStart
<1> QED BY <1>4, <1>5, <1>6, WriteStatusType, ContentionType DEF RestOK, TypeOK, CommitStart

\* Changing an element of a sequence leaves a sequence.
LEMMA RowChanged ==
  ASSUME NEW R, NEW q \in Seq(R), NEW i, NEW r, i \in DOMAIN q => r \in R
  PROVE  [q EXCEPT ![i] = r] \in Seq(R)
<1>1. CASE i \in DOMAIN q
  <2>1. i \in 1 .. Len(q)
    BY <1>1
  <2> QED BY <1>1, <2>1, ExceptSeq
<1>2. CASE i \notin DOMAIN q
  <2>1. [q EXCEPT ![i] = r] = q
    BY <1>2
  <2> QED BY <2>1
<1> QED BY <1>1, <1>2

LEMMA CountType ==
  ASSUME TypeOK, NEW w \in Workers, CommitCount(w)
  PROVE  RestOK'
<1> DEFINE t == txn[w]
           s == t.of
           C == [p \in Products |-> Counted(counts[s][p], t, p)]
<1>1. /\ t.loaded \subseteq Products
      /\ \A p \in Products : t.before[p] \in Int /\ t.after[p] \in Int
  BY DEF TypeOK, Txn, Quantities
<1>2. counts' = [counts EXCEPT ![s] = C]
  BY DEF CommitCount
<1>3. ASSUME s \in Takes, NEW p \in Products
      PROVE  Counted(counts[s][p], t, p) \in Rows
  <2> DEFINE q == counts[s][p]
             i == t.row
             r == q[i]
             v == Column(r.variance, t.before[p], t.after[p])
  <2>1. q \in Seq([system : Int, variance : Int])
    BY <1>3 DEF TypeOK, Rows
  <2>2. ASSUME i \in DOMAIN q
        PROVE  [r EXCEPT !.variance = v] \in [system : Int, variance : Int]
    <3>1. r \in [system : Int, variance : Int]
      BY <2>1, <2>2, SeqElement
    <3> HIDE DEF r
    <3>2. v \in Int
      BY <1>1, <1>3, <3>1 DEF Column
    <3> HIDE DEF v
    <3> QED BY <3>1, <3>2
  <2>3. Counted(q, t, p) = IF p \in t.loaded THEN [q EXCEPT ![i] = [r EXCEPT !.variance = v]] ELSE q
    BY DEF Counted
  <2> HIDE DEF q, i, r, v
  <2>4. [q EXCEPT ![i] = [r EXCEPT !.variance = v]] \in Seq([system : Int, variance : Int])
    BY <2>1, <2>2, RowChanged
  <2> QED BY <2>1, <2>3, <2>4 DEF Rows, q
<1>4. s \in Takes => C \in [Products -> Rows]
  BY <1>3
<1>5. counts' \in [Takes -> [Products -> Rows]]
  <2> HIDE DEF C
  <2> QED BY <1>2, <1>4 DEF TypeOK
<1>6. exact' \in [Takes -> SUBSET Products]
  BY <1>1 DEF TypeOK, CommitCount
<1>7. NoteContention(w)
  BY DEF CommitCount
<1> QED BY <1>5, <1>6, <1>7, ContentionType DEF RestOK, TypeOK, CommitCount

LEMMA SessionType ==
  ASSUME TypeOK, ShapeInv, NEW w \in Workers, CommitSession(w)
  PROVE  RestOK'
<1>1. /\ WriteStock(w) /\ WriteStatus(w) /\ NoteContention(w)
      /\ applied' = [applied EXCEPT ![txn[w].of] = @ + 1]
  BY DEF CommitSession
<1>2. applied' \in [Takes -> Nat]
  <2>1. txn[w].of \in Takes
    BY DEF ShapeInv, Shape, CommitSession, Ready
  <2> QED BY <1>1, <2>1 DEF TypeOK
<1>3. exact' \in [Takes -> SUBSET Products]
  BY DEF TypeOK, CommitSession
<1> QED BY <1>1, <1>2, <1>3, WriteStockType, WriteStatusType, ContentionType
        DEF RestOK, TypeOK, CommitSession

LEMMA EndType ==
  ASSUME TypeOK, ShapeInv, NEW w \in Workers, Ends(w)
  PROVE  RestOK'
<1>1. CASE CommitStatus(w)
  <2>1. txn[w].of \in Documents
    BY <1>1 DEF ShapeInv, Shape, CommitStatus, Ready, Documents
  <2>2. WriteStatus(w) /\ NoteContention(w)
    BY <1>1 DEF CommitStatus
  <2> QED BY <1>1, <2>1, <2>2, WriteStatusType, ContentionType DEF RestOK, TypeOK, CommitStatus
<1>2. CASE CommitDirect(w)
  <2>1. WriteStock(w)
    BY <1>2 DEF CommitDirect
  <2> QED BY <1>2, <2>1, WriteStockType DEF RestOK, TypeOK, CommitDirect
<1> QED BY <1>1, <1>2, LineType, ReceiptType, TrackedType, RollbackType, StartType,
          CountType, SessionType DEF Ends

LEMMA TypeStep ==
  ASSUME TypeOK, NotBelowZero, ShapeInv, [Next]_vars
  PROVE  TypeOK'
<1>1. ASSUME NEW w \in Workers, NEW t, Fresh(t), Begins(w, t)
      PROVE  TypeOK'
  <2>1. RestOK'
    BY <1>1 DEF Begins, RestOK, TypeOK, tableVars
  <2> QED BY <1>1, <2>1, BeginsTxn, TypeSplit
<1>2. ASSUME NEW w \in Workers, NEW p \in Products, Read(w, p)
      PROVE  TypeOK'
  <2>1. RestOK'
    BY <1>2 DEF Read, RestOK, TypeOK, tableVars, ghostVars
  <2>2. txn' \in [Workers -> Txn]
    BY <1>2, ReadTxn DEF TypeOK
  <2> QED BY <2>1, <2>2, TypeSplit
<1>3. ASSUME NEW w \in Workers, Ends(w)
      PROVE  TypeOK'
  BY <1>3, EndType, LineTxn, DoneTxn, TypeSplit
<1>4. ASSUME NEW w \in Workers, Abandon(w)
      PROVE  TypeOK'
  <2>1. Shape(txn[w])
    BY DEF ShapeInv
  <2>2. txn[w].kind = "receive" => txn[w].of \in Purchases
    BY <2>1 DEF Shape
  <2>3. RestOK'
    BY <1>4, <2>2 DEF Abandon, RestOK, TypeOK, tableVars
  <2> QED BY <1>4, <2>3, AbandonTxn, TypeSplit
<1>5. ASSUME NEW p \in Products, Shrink(p)
      PROVE  TypeOK'
  <2>1. shelf' \in Quantities /\ exact' \in [Takes -> SUBSET Products] /\ requests' \in Nat
    BY <1>5 DEF Shrink, TypeOK, Quantities
  <2>2. RestOK'
    BY <1>5, <2>1 DEF Shrink, RestOK, TypeOK, tableVars
  <2> QED BY <1>5, <2>2, ShrinkTxn, TypeSplit
<1>6. CASE UNCHANGED vars
  BY <1>6 DEF TypeOK, vars, tableVars, ghostVars
<1> QED BY <1>1, <1>2, <1>3, <1>4, <1>5, <1>6, NextCases
-----------------------------------------------------------------------------
(* Quantities. *)

StockKept == UNCHANGED <<onHand, logged, raced, unlogged, signed>>

\* A commit writes what it has computed, or leaves the stock alone.
LEMMA EndStock ==
  ASSUME NEW w \in Workers, Ends(w)
  PROVE  (WriteStock(w) /\ txn[w].kind # "count") \/ StockKept
<1>1. CASE CommitDirect(w)
  BY <1>1 DEF CommitDirect, Ready
<1>2. CASE CommitLine(w)
  BY <1>2 DEF CommitLine
<1>3. CASE CommitTracked(w)
  BY <1>3 DEF CommitTracked, Ready
<1>4. CASE CommitRollback(w)
  BY <1>4 DEF CommitRollback, Ready
<1>5. CASE CommitSession(w)
  BY <1>5 DEF CommitSession, Ready
<1>6. CASE CommitStatus(w) \/ CommitReceipt(w) \/ CommitStart(w) \/ CommitCount(w)
  BY <1>6 DEF CommitStatus, CommitReceipt, CommitStart, CommitCount, StockKept
<1> QED BY <1>1, <1>2, <1>3, <1>4, <1>5, <1>6 DEF Ends

\* What a commit writes: the change itself where nobody else held the product,
\* and nothing below zero where every request checks it.
LEMMA WrittenStock ==
  ASSUME TypeOK, ShapeInv, HeldInv, LogExplainsStock, NotBelowZero,
         NEW w \in Workers, WriteStock(w), txn[w].kind # "count"
  PROVE  LogExplainsStock' /\ NotBelowZero'
<1> DEFINE t == txn[w]
<1>0. t \in Txn /\ Shape(t) /\ t.mode \in Modes
  BY DEF TypeOK, ShapeInv, Txn
<1>1. \A p \in Products : /\ t.before[p] \in Int /\ t.after[p] \in Int /\ t.change[p] \in Int
                          /\ onHand[p] \in Int /\ logged[p] \in Int
  BY <1>0 DEF TypeOK, Txn, Quantities
<1>2. \A p \in t.loaded : Computed(t, p)
  BY DEF HeldInv
<1>3. \A p \in Products :
        /\ onHand'[p] = IF p \in t.loaded THEN Column(onHand[p], t.before[p], t.after[p])
                        ELSE onHand[p]
        /\ logged'[p] = IF p \in t.loaded /\ t.kind \in Logging THEN logged[p] + t.change[p]
                        ELSE logged[p]
  BY DEF WriteStock
<1>4. raced \subseteq raced' /\ unlogged \subseteq unlogged' /\ signed \subseteq signed'
  BY DEF WriteStock
<1>5. ASSUME NEW p \in Products, p \notin raced' \cup unlogged'
      PROVE  onHand'[p] = logged'[p]
  <2>1. p \notin raced /\ onHand[p] = logged[p]
    BY <1>4, <1>5 DEF LogExplainsStock
  <2>2. CASE p \notin t.loaded
    BY <1>3, <2>1, <2>2
  <2>3. CASE p \in t.loaded
    <3>1. t.kind \in Logging
      BY <1>5, <2>3 DEF WriteStock
    <3>2. t.mode \in {"refuse", "add"}
      BY <1>0, <3>1 DEF Shape, Modes
    <3>3. t.before[p] = onHand[p] /\ t.after[p] = t.before[p] + t.change[p]
      BY <1>2, <2>1, <2>3, <3>2 DEF Computed
    <3>4. onHand'[p] = onHand[p] + t.change[p]
      BY <1>1, <1>3, <2>3, <3>3 DEF Column
    <3> QED BY <1>3, <2>1, <2>3, <3>1, <3>4
  <2> QED BY <2>2, <2>3
<1>6. ASSUME NEW p \in Products, p \notin signed'
      PROVE  onHand'[p] >= 0
  <2>1. p \notin signed /\ onHand[p] >= 0
    BY <1>4, <1>6 DEF NotBelowZero
  <2>2. CASE p \notin t.loaded
    BY <1>3, <2>1, <2>2
  <2>3. CASE p \in t.loaded
    <3>1. t.mode = "refuse"
      BY <1>6, <2>3 DEF WriteStock
    <3>2. t.after[p] >= 0
      BY <1>2, <2>1, <2>3, <3>1 DEF Computed
    <3> QED BY <1>3, <2>1, <2>3, <3>2 DEF Column
  <2> QED BY <2>2, <2>3
<1> QED BY <1>5, <1>6 DEF LogExplainsStock, NotBelowZero

\* What the others hold is still there, or it is known that two held it.
LEMMA WrittenHeld ==
  ASSUME TypeOK, HeldInv, NEW w \in Workers, WriteStock(w), txn[w].kind # "count",
         NEW v \in Workers \ {w}, Alike(txn[v], txn'[v]), txn[v].kind # "count",
         NEW p \in txn[v].loaded
  PROVE  Computed(txn[v], p)'
<1>1. Computed(txn[v], p) /\ p \in Products
  BY DEF HeldInv, TypeOK, Txn
<1>2. raced \subseteq raced' /\ signed \subseteq signed'
  BY DEF WriteStock
<1>3. p \in txn[w].loaded => p \in raced'
  BY DEF WriteStock
<1>4. p \notin txn[w].loaded => onHand'[p] = onHand[p]
  BY <1>1 DEF WriteStock
<1> QED BY <1>1, <1>2, <1>3, <1>4 DEF Computed, Alike

LEMMA KeptHeld ==
  ASSUME HeldInv, StockKept, NEW v \in Workers, Alike(txn[v], txn'[v]),
         txn[v].kind # "count", NEW p \in txn[v].loaded
  PROVE  Computed(txn[v], p)'
<1>1. Computed(txn[v], p)
  BY DEF HeldInv
<1> QED BY <1>1 DEF Computed, Alike, StockKept

LEMMA QuantityStep ==
  ASSUME TypeOK, ShapeInv, HeldInv, LogExplainsStock, NotBelowZero, [Next]_vars
  PROVE  HeldInv' /\ LogExplainsStock' /\ NotBelowZero'
<1>0. ASSUME StockKept
      PROVE  LogExplainsStock' /\ NotBelowZero'
  BY <1>0 DEF StockKept, LogExplainsStock, NotBelowZero
<1>1. ASSUME StockKept, \A v \in Workers : Alike(txn[v], txn'[v])
      PROVE  HeldInv'
  <2>1. ASSUME NEW v \in Workers, txn'[v].kind # "count", NEW p \in txn'[v].loaded
        PROVE  Computed(txn[v], p)'
    BY <1>1, <2>1, KeptHeld DEF Alike
  <2> QED BY <2>1 DEF HeldInv
<1>2. ASSUME StockKept, NEW w \in Workers, \A v \in Workers \ {w} : Alike(txn[v], txn'[v]),
             txn'[w].kind # "count" => \A p \in txn'[w].loaded : Computed(txn[w], p)'
      PROVE  HeldInv'
  <2>1. ASSUME NEW v \in Workers, txn'[v].kind # "count", NEW p \in txn'[v].loaded
        PROVE  Computed(txn[v], p)'
    BY <1>2, <2>1, KeptHeld DEF Alike
  <2> QED BY <2>1 DEF HeldInv
<1>3. ASSUME NEW t PROVE Alike(t, t)
  BY DEF Alike
<1>4. ASSUME NEW w \in Workers, NEW t, Fresh(t), Begins(w, t)
      PROVE  HeldInv' /\ LogExplainsStock' /\ NotBelowZero'
  <2>1. StockKept
    BY <1>4 DEF Begins, StockKept, tableVars
  <2>2. txn'[w] = t /\ \A v \in Workers \ {w} : txn'[v] = txn[v]
    BY <1>4, BeginsTxn
  <2>3. ASSUME t.kind # "count", NEW p \in t.loaded
        PROVE  Computed(txn[w], p)'
    <3>1. Computed(t, p)
      BY <1>4, <2>3 DEF Fresh
    <3> QED BY <2>1, <2>2, <3>1 DEF Computed, StockKept
  <2> QED BY <1>0, <1>2, <1>3, <2>1, <2>2, <2>3
<1>5. ASSUME NEW w \in Workers, NEW p \in Products, Read(w, p)
      PROVE  HeldInv' /\ LogExplainsStock' /\ NotBelowZero'
  <2> DEFINE t == txn[w]
             u == Loaded(t, p)
  <2>1. StockKept
    BY <1>5 DEF Read, StockKept, tableVars, ghostVars
  <2>2. /\ t \in Txn /\ Shape(t) /\ p \in t.todo
        /\ txn'[w] = u /\ \A v \in Workers \ {w} : txn'[v] = txn[v]
    BY <1>5, ReadTxn DEF ShapeInv
  <2>3. ~Refuses(t, p)
    BY <2>2 DEF Shape, Refuses
  <2>4. Computed(u, p)
    BY <2>2, <2>3, LoadedComputed
  <2>5. /\ u.kind = t.kind /\ u.mode = t.mode /\ u.change = t.change
        /\ u.loaded = t.loaded \cup {p}
        /\ \A q \in Products \ {p} : u.before[q] = t.before[q] /\ u.after[q] = t.after[q]
    BY <2>2, LoadedFields
  <2>6. t.kind # "count" => \A q \in t.loaded : Computed(t, q) /\ q \in Products
    BY DEF HeldInv, TypeOK, Txn
  <2> HIDE DEF t, u
  <2>7. ASSUME u.kind # "count", NEW q \in u.loaded
        PROVE  Computed(u, q)
    <3>1. CASE q = p
      BY <2>4, <3>1
    <3>2. CASE q # p
      BY <2>5, <2>6, <2>7, <3>2 DEF Computed
    <3> QED BY <3>1, <3>2
  <2>8. txn'[w].kind # "count" => \A q \in txn'[w].loaded : Computed(txn[w], q)'
    BY <2>1, <2>2, <2>7 DEF Computed, StockKept
  <2> QED BY <1>0, <1>2, <1>3, <2>1, <2>2, <2>8
<1>6. ASSUME NEW w \in Workers, Ends(w)
      PROVE  HeldInv' /\ LogExplainsStock' /\ NotBelowZero'
  <2>1. \A v \in Workers \ {w} : Alike(txn[v], txn'[v])
    BY <1>3, <1>6, LineTxn, DoneTxn
  <2>2. txn'[w].loaded = {}
    BY <1>6, LineTxn, DoneTxn, IdleFields
  <2>3. CASE StockKept
    BY <1>0, <1>2, <2>1, <2>2, <2>3
  <2>4. CASE WriteStock(w) /\ txn[w].kind # "count"
    <3>1. ASSUME NEW v \in Workers, txn'[v].kind # "count", NEW p \in txn'[v].loaded
          PROVE  Computed(txn[v], p)'
      <4>1. v # w
        BY <2>2, <3>1
      <4>2. Alike(txn[v], txn'[v])
        BY <2>1, <4>1
      <4>3. txn[v].kind # "count" /\ p \in txn[v].loaded
        BY <3>1, <4>2 DEF Alike
      <4> QED BY <2>4, <4>1, <4>2, <4>3, WrittenHeld
    <3>2. HeldInv'
      BY <3>1 DEF HeldInv
    <3> QED BY <2>4, <3>2, WrittenStock
  <2> QED BY <1>6, <2>3, <2>4, EndStock
<1>7. ASSUME NEW w \in Workers, Abandon(w)
      PROVE  HeldInv' /\ LogExplainsStock' /\ NotBelowZero'
  <2>1. StockKept
    BY <1>7 DEF Abandon, StockKept, tableVars
  <2>2. txn'[w] = Idle /\ \A v \in Workers \ {w} : txn'[v] = txn[v]
    BY <1>7, AbandonTxn
  <2> QED BY <1>0, <1>2, <1>3, <2>1, <2>2, IdleFields
<1>8. ASSUME NEW p \in Products, Shrink(p)
      PROVE  HeldInv' /\ LogExplainsStock' /\ NotBelowZero'
  <2>1. StockKept
    BY <1>8 DEF Shrink, StockKept, tableVars
  <2> QED BY <1>0, <1>1, <1>8, <2>1, ShrinkTxn
<1>9. CASE UNCHANGED vars
  BY <1>9 DEF HeldInv, LogExplainsStock, NotBelowZero, Computed, vars, tableVars, ghostVars
<1> QED BY <1>4, <1>5, <1>6, <1>7, <1>8, <1>9, NextCases
-----------------------------------------------------------------------------
(* Receipts. *)

ReceiptInv == AwaitedInv /\ AccountedInv /\ ArrivedInv /\ ReceivedOnce /\ ReceivedIsInStock

\* What is known to be disturbed stays so, and so do the lines passed over or repeated.
Noted ==
  /\ contended \subseteq contended' /\ broken \subseteq broken' /\ overridden \subseteq overridden'
  /\ \A o \in Purchases : skipped[o] \subseteq skipped'[o] /\ repeated[o] \subseteq repeated'[o]

LEMMA StillUndisturbed ==
  ASSUME Noted
  PROVE  Undisturbed' \subseteq Undisturbed
BY DEF Noted, Undisturbed

\* The receipts under way are the same and have the same before and behind them.
SameReceipts ==
  \A v \in Workers :
    /\ txn'[v].kind = "receive" <=> txn[v].kind = "receive"
    /\ txn[v].kind = "receive" =>
         /\ txn'[v].of = txn[v].of
         /\ txn'[v].todo \cup txn'[v].loaded = txn[v].todo \cup txn[v].loaded

\* A step that brings nothing into stock and marks nothing as received.
LEMMA SteadyReceipts ==
  ASSUME ReceiptInv, ShapeInv, Noted, SameReceipts, receipts' = receipts,
         \A o \in Purchases \ overridden' : status'[o] \in {status[o], "cancelled"}
  PROVE  ReceiptInv'
<1>0. Undisturbed' \subseteq Undisturbed
  BY StillUndisturbed
<1>1. ASSUME NEW v \in Workers, NEW o
      PROVE  Receiving(v, o)' <=> Receiving(v, o)
  BY DEF SameReceipts, Receiving
<1>2. AwaitedInv'
  <2>1. ASSUME NEW o \in Undisturbed', NEW w \in Workers, Receiving(w, o)',
               NEW p \in (txn'[w].todo \cup txn'[w].loaded) \ repeated'[o]
        PROVE  receipts'[o][p] = 0 \/ \E v \in Workers \ {w} : Receiving(v, o)'
    <3>1. o \in Undisturbed /\ Receiving(w, o)
      BY <1>0, <1>1, <2>1
    <3>2. p \in (txn[w].todo \cup txn[w].loaded) \ repeated[o]
      BY <2>1, <3>1 DEF SameReceipts, Receiving, Noted, Undisturbed
    <3>3. receipts[o][p] = 0 \/ \E v \in Workers \ {w} : Receiving(v, o)
      BY <3>1, <3>2 DEF ReceiptInv, AwaitedInv
    <3> QED BY <1>1, <3>3
  <2> QED BY <2>1 DEF AwaitedInv
<1>3. AccountedInv'
  <2>1. ASSUME NEW o \in Undisturbed', NEW p \in Products, receipts'[o][p] > 0
        PROVE  status'[o] \in {"received", "cancelled"} \/ \E w \in Workers : Receiving(w, o)'
    <3>1. o \in Undisturbed /\ receipts[o][p] > 0
      BY <1>0, <2>1
    <3>2. status[o] \in {"received", "cancelled"} \/ \E w \in Workers : Receiving(w, o)
      BY <3>1 DEF ReceiptInv, AccountedInv
    <3>3. status'[o] \in {status[o], "cancelled"}
      BY <2>1 DEF Undisturbed
    <3> QED BY <1>1, <3>2, <3>3
  <2> QED BY <2>1 DEF AccountedInv
<1>4. ArrivedInv'
  <2>1. ASSUME NEW w \in Workers, txn'[w].kind = "receive",
               NEW p \in Ordered(txn'[w].of) \ skipped'[txn'[w].of]
        PROVE  p \in txn'[w].todo \cup txn'[w].loaded \/ receipts'[txn'[w].of][p] >= 1
    <3>1. /\ txn[w].kind = "receive" /\ txn'[w].of = txn[w].of
          /\ txn'[w].todo \cup txn'[w].loaded = txn[w].todo \cup txn[w].loaded
      BY <2>1 DEF SameReceipts
    <3>2. txn[w].of \in Purchases
      BY <3>1 DEF ShapeInv, Shape
    <3>3. p \in Ordered(txn[w].of) \ skipped[txn[w].of]
      BY <2>1, <3>1, <3>2 DEF Noted
    <3> QED BY <3>1, <3>3 DEF ReceiptInv, ArrivedInv
  <2> QED BY <2>1 DEF ArrivedInv, Ordered
<1>5. ReceivedOnce'
  BY <1>0 DEF ReceiptInv, ReceivedOnce, Undisturbed, Noted
<1>6. ReceivedIsInStock'
  <2>1. ASSUME NEW o \in Purchases \ overridden', status'[o] = "received",
               NEW p \in Ordered(o) \ skipped'[o]
        PROVE  receipts'[o][p] >= 1
    <3>1. status[o] = "received" /\ o \in Purchases \ overridden
      BY <2>1 DEF Noted
    <3>2. p \in Ordered(o) \ skipped[o]
      BY <2>1 DEF Noted
    <3> QED BY <3>1, <3>2 DEF ReceiptInv, ReceivedIsInStock
  <2> QED BY <2>1 DEF ReceivedIsInStock, Ordered
<1> QED BY <1>2, <1>3, <1>4, <1>5, <1>6 DEF ReceiptInv

\* A receipt begins: what it finds in stock, another one has just brought in.
LEMMA BegunReceipts ==
  ASSUME TypeOK, ShapeInv, ReceiptInv, NEW w \in Workers, NEW t, Fresh(t), Begins(w, t)
  PROVE  ReceiptInv'
<1>0. /\ txn'[w] = t /\ txn[w].kind = "idle" /\ \A v \in Workers \ {w} : txn'[v] = txn[v]
  BY BeginsTxn
<1>1. /\ Noted /\ receipts' = receipts /\ status' = status /\ contended' = contended
      /\ broken' = broken /\ overridden' = overridden /\ repeated' = repeated
  BY DEF Begins, Noted, tableVars
<1>2. CASE t.kind # "receive"
  <2>1. SameReceipts
    BY <1>0, <1>2 DEF SameReceipts
  <2> QED BY <1>1, <2>1, SteadyReceipts
<1>3. CASE t.kind = "receive"
  <2>0. Undisturbed' = Undisturbed
    BY <1>1 DEF Undisturbed
  <2>1. /\ t.loaded = {} /\ status[t.of] \notin {"received", "cancelled"}
        /\ t.of \in Purchases /\ Ordered(t.of) \ skipped'[t.of] \subseteq t.todo
        /\ t.todo \subseteq Products
    BY <1>3 DEF Fresh, Begins, Shape, Txn
  <2>2. ASSUME NEW v \in Workers, NEW o, Receiving(v, o)
        PROVE  Receiving(v, o)' /\ v # w
    BY <1>0, <2>2 DEF Receiving
  <2>3. AwaitedInv'
    <3>1. ASSUME NEW o \in Undisturbed', NEW u \in Workers, Receiving(u, o)',
                 NEW p \in (txn'[u].todo \cup txn'[u].loaded) \ repeated'[o]
          PROVE  receipts'[o][p] = 0 \/ \E v \in Workers \ {u} : Receiving(v, o)'
      <4>1. CASE u # w
        <5>1. Receiving(u, o) /\ p \in (txn[u].todo \cup txn[u].loaded) \ repeated[o]
          BY <1>0, <1>1, <3>1, <4>1 DEF Receiving
        <5>2. receipts[o][p] = 0 \/ \E v \in Workers \ {u} : Receiving(v, o)
          BY <2>0, <5>1 DEF ReceiptInv, AwaitedInv
        <5> QED BY <1>1, <2>2, <5>2
      <4>2. CASE u = w
        <5>1. o = t.of /\ p \in Products
          BY <1>0, <2>1, <3>1, <4>2 DEF Receiving
        <5>2. receipts[o][p] > 0 => \E v \in Workers : Receiving(v, o)
          BY <2>0, <2>1, <5>1 DEF ReceiptInv, AccountedInv
        <5>3. receipts[o][p] \in Nat
          BY <5>1, <2>1 DEF TypeOK
        <5>4. CASE receipts[o][p] > 0
          BY <2>2, <4>2, <5>2, <5>4
        <5>5. CASE receipts[o][p] = 0
          BY <1>1, <5>5
        <5> QED BY <5>3, <5>4, <5>5
      <4> QED BY <4>1, <4>2
    <3> QED BY <3>1 DEF AwaitedInv
  <2>4. AccountedInv'
    BY <1>1, <2>0, <2>2 DEF ReceiptInv, AccountedInv
  <2>5. ArrivedInv'
    <3>1. ASSUME NEW u \in Workers, txn'[u].kind = "receive",
                 NEW p \in Ordered(txn'[u].of) \ skipped'[txn'[u].of]
          PROVE  p \in txn'[u].todo \cup txn'[u].loaded \/ receipts'[txn'[u].of][p] >= 1
      <4>1. CASE u # w
        <5>1. txn'[u] = txn[u] /\ txn[u].of \in Purchases
          BY <1>0, <3>1, <4>1 DEF ShapeInv, Shape
        <5>2. p \in Ordered(txn[u].of) \ skipped[txn[u].of]
          BY <1>1, <3>1, <5>1 DEF Noted
        <5> QED BY <1>1, <3>1, <5>1, <5>2 DEF ReceiptInv, ArrivedInv
      <4>2. CASE u = w
        BY <1>0, <2>1, <3>1, <4>2
      <4> QED BY <4>1, <4>2
    <3> QED BY <3>1 DEF ArrivedInv, Ordered
  <2>6. ReceivedOnce'
    BY <1>1 DEF ReceiptInv, ReceivedOnce
  <2>7. ReceivedIsInStock'
    <3>1. ASSUME NEW o \in Purchases \ overridden', status'[o] = "received",
                 NEW p \in Ordered(o) \ skipped'[o]
          PROVE  receipts'[o][p] >= 1
      <4>1. p \in Ordered(o) \ skipped[o]
        BY <1>1, <3>1 DEF Noted
      <4> QED BY <1>1, <3>1, <4>1 DEF ReceiptInv, ReceivedIsInStock
    <3> QED BY <3>1 DEF ReceivedIsInStock, Ordered
  <2> QED BY <2>3, <2>4, <2>5, <2>6, <2>7 DEF ReceiptInv
<1> QED BY <1>2, <1>3

\* A receipt dies: if it has brought in anything, that is noted.
LEMMA AbandonedReceipts ==
  ASSUME TypeOK, ShapeInv, ReceiptInv, NEW w \in Workers, Abandon(w)
  PROVE  ReceiptInv'
<1>0. txn'[w] = Idle /\ Idle.kind = "idle" /\ \A v \in Workers \ {w} : txn'[v] = txn[v]
  BY AbandonTxn, IdleFields
<1>1. /\ Noted /\ receipts' = receipts /\ status' = status /\ overridden' = overridden
      /\ skipped' = skipped /\ repeated' = repeated
  BY DEF Abandon, Noted, tableVars
<1>2. CASE txn[w].kind # "receive"
  <2>1. SameReceipts
    BY <1>0, <1>2 DEF SameReceipts
  <2> QED BY <1>1, <2>1, SteadyReceipts
<1>3. CASE txn[w].kind = "receive"
  <2> DEFINE d == txn[w].of
  <2>0. Undisturbed' \subseteq Undisturbed
    BY <1>1, StillUndisturbed
  <2>1. ASSUME NEW v \in Workers, NEW o, o # d
        PROVE  Receiving(v, o)' <=> Receiving(v, o)
    BY <1>0, <2>1 DEF Receiving
  <2>2. d \in Undisturbed' => \A p \in Products : ~(receipts[d][p] > 0)
    BY <1>3 DEF Abandon, Undisturbed
  <2>3. \A o \in Purchases, p \in Products : receipts[o][p] \in Nat
    BY DEF TypeOK
  <2>4. \A v \in Workers : txn[v].todo \subseteq Products /\ txn[v].loaded \subseteq Products
    BY DEF TypeOK, Txn
  <2> HIDE DEF d
  <2>5. AwaitedInv'
    <3>1. ASSUME NEW o \in Undisturbed', NEW u \in Workers, Receiving(u, o)',
                 NEW p \in (txn'[u].todo \cup txn'[u].loaded) \ repeated'[o]
          PROVE  receipts'[o][p] = 0 \/ \E v \in Workers \ {u} : Receiving(v, o)'
      <4>0. u # w
        BY <1>0, <3>1 DEF Receiving
      <4>1. CASE o = d
        <5>1. p \in Products /\ o \in Purchases
          BY <1>0, <2>4, <3>1, <4>0, <4>1 DEF Undisturbed
        <5>2. receipts[o][p] = 0
          BY <2>2, <2>3, <3>1, <4>1, <5>1
        <5> QED BY <1>1, <5>2
      <4>2. CASE o # d
        <5>1. Receiving(u, o) /\ o \in Undisturbed
          BY <2>0, <2>1, <3>1, <4>2
        <5>2. p \in (txn[u].todo \cup txn[u].loaded) \ repeated[o]
          BY <1>0, <1>1, <3>1, <4>0
        <5>3. receipts[o][p] = 0 \/ \E v \in Workers \ {u} : Receiving(v, o)
          BY <5>1, <5>2 DEF ReceiptInv, AwaitedInv
        <5> QED BY <1>1, <2>1, <4>2, <5>3
      <4> QED BY <4>1, <4>2
    <3> QED BY <3>1 DEF AwaitedInv
  <2>6. AccountedInv'
    <3>1. ASSUME NEW o \in Undisturbed', NEW p \in Products, receipts'[o][p] > 0
          PROVE  status'[o] \in {"received", "cancelled"} \/ \E v \in Workers : Receiving(v, o)'
      <4>1. o # d /\ o \in Undisturbed /\ receipts[o][p] > 0
        BY <1>1, <2>0, <2>2, <3>1
      <4> QED BY <1>1, <2>1, <4>1 DEF ReceiptInv, AccountedInv
    <3> QED BY <3>1 DEF AccountedInv
  <2>7. ArrivedInv'
    <3>1. ASSUME NEW u \in Workers, txn'[u].kind = "receive",
                 NEW p \in Ordered(txn'[u].of) \ skipped'[txn'[u].of]
          PROVE  p \in txn'[u].todo \cup txn'[u].loaded \/ receipts'[txn'[u].of][p] >= 1
      <4>1. txn'[u] = txn[u]
        BY <1>0, <3>1
      <4> QED BY <1>1, <3>1, <4>1 DEF ReceiptInv, ArrivedInv
    <3> QED BY <3>1 DEF ArrivedInv, Ordered
  <2>8. ReceivedOnce'
    BY <1>1, <2>0 DEF ReceiptInv, ReceivedOnce, Undisturbed
  <2>9. ReceivedIsInStock'
    BY <1>1 DEF ReceiptInv, ReceivedIsInStock, Ordered
  <2> QED BY <2>5, <2>6, <2>7, <2>8, <2>9 DEF ReceiptInv
<1> QED BY <1>2, <1>3

\* A commit on a document that another worker is working on is noted.
LEMMA Alone ==
  ASSUME NEW w \in Workers, NoteContention(w), txn[w].kind # "count", txn[w].of # Nothing,
         txn[w].of \notin contended'
  PROVE  \A v \in Workers \ {w} : txn[v].of # txn[w].of
BY DEF NoteContention, InTheWay

\* A line comes into stock.
LEMMA LineReceipts ==
  ASSUME TypeOK, ShapeInv, ReceiptInv, NEW w \in Workers, CommitLine(w)
  PROVE  ReceiptInv'
<1> DEFINE t == txn[w]
           d == t.of
<1>0. /\ t.kind = "receive" /\ d \in Purchases /\ d # Nothing /\ t.todo \cap t.loaded = {}
      /\ t.todo \subseteq Products /\ t.loaded \subseteq Products
  BY LineTxn, TablesAssumption DEF ShapeInv, Shape, TypeOK, Txn, Documents
<1>1. /\ status' = status /\ overridden' = overridden /\ skipped' = skipped
      /\ broken' = broken /\ contended \subseteq contended'
      /\ receipts' = [receipts EXCEPT ![d] =
           [p \in Products |-> IF p \in t.loaded THEN receipts[d][p] + 1 ELSE receipts[d][p]]]
      /\ NoteContention(w)
  BY DEF CommitLine, NoteContention
<1>2. \A v \in Workers \ {w} : txn'[v] = txn[v]
  BY LineTxn
<1>3. PICK again \in SUBSET t.loaded :
         /\ txn'[w].todo = t.todo \cup again
         /\ repeated' = [repeated EXCEPT ![d] = @ \cup again]
  BY LineTxn
<1>4. txn'[w].kind = "receive" /\ txn'[w].of = d /\ txn'[w].todo = t.todo \cup again /\ txn'[w].loaded = {}
  BY <1>3, LineTxn
<1>5. repeated'[d] = repeated[d] \cup again /\ \A o \in Purchases \ {d} : repeated'[o] = repeated[o]
  BY <1>0, <1>3 DEF TypeOK
<1>6. \A v \in Workers : txn[v].kind \in Kinds
  BY DEF TypeOK, Txn
<1>7. d \in Undisturbed' => \A v \in Workers \ {w} : ~Receiving(v, d)
  BY <1>0, <1>1, Alone DEF Undisturbed, Receiving
<1>8. Noted /\ Undisturbed' \subseteq Undisturbed
  <2>1. Noted
    BY <1>1, <1>5 DEF Noted
  <2> QED BY <2>1, StillUndisturbed
<1>9. Receiving(w, d)
  BY <1>0 DEF Receiving
<1>10. d \in Undisturbed' => \A p \in (t.todo \cup t.loaded) \ repeated[d] : receipts[d][p] = 0
  BY <1>7, <1>8, <1>9 DEF ReceiptInv, AwaitedInv
<1>11. \A o \in Purchases, p \in Products : receipts[o][p] \in Nat
  BY DEF TypeOK
<1>12. \A p \in Products :
         receipts'[d][p] = IF p \in t.loaded THEN receipts[d][p] + 1 ELSE receipts[d][p]
  BY <1>0, <1>1 DEF TypeOK
<1>13. \A o \in Purchases \ {d} : receipts'[o] = receipts[o]
  BY <1>1 DEF TypeOK
<1>14. ASSUME NEW o \in Purchases, NEW p \in Products
       PROVE  receipts'[o][p] >= receipts[o][p] /\ receipts'[o][p] \in Nat
  BY <1>11, <1>12, <1>13
<1> HIDE DEF t, d
<1>15. ASSUME NEW v \in Workers, NEW o
       PROVE  Receiving(v, o)' <=> Receiving(v, o)
  BY <1>0, <1>2, <1>4 DEF Receiving, t, d
<1>16. AwaitedInv'
  <2>1. ASSUME NEW o \in Undisturbed', NEW u \in Workers, Receiving(u, o)',
               NEW p \in (txn'[u].todo \cup txn'[u].loaded) \ repeated'[o]
        PROVE  receipts'[o][p] = 0 \/ \E v \in Workers \ {u} : Receiving(v, o)'
    <3>1. Receiving(u, o) /\ o \in Undisturbed /\ o \in Purchases
      BY <1>8, <1>15, <2>1 DEF Undisturbed
    <3>2. CASE u = w
      <4>1. o = d
        BY <1>4, <2>1, <3>2 DEF Receiving
      <4>2. p \in t.todo \ repeated[d]
        BY <1>4, <1>5, <2>1, <3>2, <4>1
      <4>3. p \in Products /\ p \notin t.loaded /\ receipts[d][p] = 0
        BY <1>0, <1>10, <2>1, <4>1, <4>2
      <4> QED BY <1>12, <4>1, <4>3
    <3>3. CASE u # w
      <4>1. o # d
        BY <1>7, <2>1, <3>1, <3>3
      <4>2. p \in (txn[u].todo \cup txn[u].loaded) \ repeated[o]
        BY <1>2, <1>5, <2>1, <3>1, <3>3, <4>1
      <4>3. receipts[o][p] = 0 \/ \E v \in Workers \ {u} : Receiving(v, o)
        BY <3>1, <4>2 DEF ReceiptInv, AwaitedInv
      <4> QED BY <1>13, <1>15, <3>1, <4>1, <4>3
    <3> QED BY <3>2, <3>3
  <2> QED BY <2>1 DEF AwaitedInv
<1>17. AccountedInv'
  <2>1. ASSUME NEW o \in Undisturbed', NEW p \in Products, receipts'[o][p] > 0
        PROVE  status'[o] \in {"received", "cancelled"} \/ \E v \in Workers : Receiving(v, o)'
    <3>1. CASE o = d
      BY <1>9, <1>15, <3>1
    <3>2. CASE o # d
      <4>1. receipts[o][p] > 0 /\ o \in Undisturbed
        BY <1>8, <1>13, <2>1, <3>2 DEF Undisturbed
      <4> QED BY <1>1, <1>15, <4>1 DEF ReceiptInv, AccountedInv
    <3> QED BY <3>1, <3>2
  <2> QED BY <2>1 DEF AccountedInv
<1>18. ArrivedInv'
  <2>1. ASSUME NEW u \in Workers, txn'[u].kind = "receive",
               NEW p \in Ordered(txn'[u].of) \ skipped'[txn'[u].of]
        PROVE  p \in txn'[u].todo \cup txn'[u].loaded \/ receipts'[txn'[u].of][p] >= 1
    <3>0. p \in Products
      BY DEF Ordered
    <3>1. CASE u # w
      <4>1. txn'[u] = txn[u] /\ txn[u].of \in Purchases
        BY <1>2, <2>1, <3>1 DEF ShapeInv, Shape
      <4>2. p \in txn[u].todo \cup txn[u].loaded \/ receipts[txn[u].of][p] >= 1
        BY <1>1, <2>1, <4>1 DEF ReceiptInv, ArrivedInv
      <4>3. receipts'[txn[u].of][p] >= receipts[txn[u].of][p]
            /\ receipts'[txn[u].of][p] \in Nat /\ receipts[txn[u].of][p] \in Nat
        BY <1>11, <1>14, <3>0, <4>1
      <4> QED BY <4>1, <4>2, <4>3
    <3>2. CASE u = w
      <4>1. txn'[u].of = d /\ p \in Ordered(d) \ skipped[d]
        BY <1>1, <1>4, <2>1, <3>2
      <4>2. p \in t.todo \cup t.loaded \/ receipts[d][p] >= 1
        BY <1>0, <4>1 DEF ReceiptInv, ArrivedInv, t, d
      <4>3. receipts[d][p] \in Nat /\ receipts'[d][p] >= receipts[d][p] /\ receipts'[d][p] \in Nat
        BY <1>0, <1>11, <1>14, <3>0
      <4>4. p \in t.loaded => receipts'[d][p] >= 1
        BY <1>12, <3>0, <4>3
      <4> QED BY <1>4, <3>2, <4>1, <4>2, <4>3, <4>4
    <3> QED BY <3>1, <3>2
  <2> QED BY <2>1 DEF ArrivedInv, Ordered
<1>19. ReceivedOnce'
  <2>1. ASSUME NEW o \in Undisturbed', NEW p \in Products \ repeated'[o]
        PROVE  receipts'[o][p] <= 1
    <3>0. p \notin repeated[o]
      BY <1>5, <2>1 DEF Undisturbed
    <3>1. receipts[o][p] <= 1 /\ receipts[o][p] \in Nat
      BY <1>8, <1>11, <2>1, <3>0 DEF ReceiptInv, ReceivedOnce, Undisturbed
    <3>2. CASE o # d
      BY <1>13, <2>1, <3>1, <3>2 DEF Undisturbed
    <3>3. CASE o = d
      BY <1>10, <1>12, <2>1, <3>0, <3>1, <3>3
    <3> QED BY <3>2, <3>3
  <2> QED BY <2>1 DEF ReceivedOnce, Undisturbed
<1>20. ReceivedIsInStock'
  <2>1. ASSUME NEW o \in Purchases \ overridden', status'[o] = "received",
               NEW p \in Ordered(o) \ skipped'[o]
        PROVE  receipts'[o][p] >= 1
    <3>0. p \in Products
      BY DEF Ordered
    <3>1. receipts[o][p] >= 1
      BY <1>1, <2>1 DEF ReceiptInv, ReceivedIsInStock
    <3> QED BY <1>11, <1>14, <3>0, <3>1
  <2> QED BY <2>1 DEF ReceivedIsInStock, Ordered
<1> QED BY <1>16, <1>17, <1>18, <1>19, <1>20 DEF ReceiptInv

\* The order is marked: its receipt has nothing left to do.
LEMMA MarkedReceipts ==
  ASSUME TypeOK, ShapeInv, ReceiptInv, NEW w \in Workers, CommitReceipt(w)
  PROVE  ReceiptInv'
<1> DEFINE t == txn[w]
           d == t.of
<1>0. /\ t.kind = "receive" /\ d \in Purchases /\ d # Nothing /\ t.to = "received"
      /\ t.todo = {} /\ t.loaded = {} /\ d \in Documents
  BY TablesAssumption DEF CommitReceipt, Ready, ShapeInv, Shape, Documents
<1>1. /\ Noted /\ receipts' = receipts /\ overridden' = overridden /\ skipped' = skipped
      /\ repeated' = repeated
      /\ status' = [status EXCEPT ![d] = "received"] /\ NoteContention(w)
  BY <1>0 DEF CommitReceipt, Noted, NoteContention
<1>2. txn'[w] = Idle /\ Idle.kind = "idle" /\ \A v \in Workers \ {w} : txn'[v] = txn[v]
  BY IdleFields DEF CommitReceipt, Done, TypeOK
<1>3. d \in Undisturbed' => \A v \in Workers \ {w} : ~Receiving(v, d)
  BY <1>0, <1>1, Alone DEF Undisturbed, Receiving
<1>4. Undisturbed' \subseteq Undisturbed
  BY <1>1, StillUndisturbed
<1>5. status'[d] = "received" /\ \A o \in Purchases \ {d} : status'[o] = status[o]
  BY <1>0, <1>1 DEF TypeOK, Documents
<1>6. \A p \in Ordered(d) \ skipped[d] : receipts[d][p] >= 1
  BY <1>0 DEF ReceiptInv, ArrivedInv
<1> HIDE DEF t, d
<1>7. ASSUME NEW v \in Workers, NEW o, o # d
      PROVE  Receiving(v, o)' <=> Receiving(v, o)
  BY <1>2, <1>7 DEF Receiving, t, d
<1>8. AwaitedInv'
  <2>1. ASSUME NEW o \in Undisturbed', NEW u \in Workers, Receiving(u, o)',
               NEW p \in (txn'[u].todo \cup txn'[u].loaded) \ repeated'[o]
        PROVE  receipts'[o][p] = 0 \/ \E v \in Workers \ {u} : Receiving(v, o)'
    <3>1. u # w /\ txn'[u] = txn[u] /\ Receiving(u, o)
      BY <1>2, <2>1 DEF Receiving
    <3>2. o # d /\ o \in Undisturbed
      BY <1>3, <1>4, <2>1, <3>1
    <3>3. receipts[o][p] = 0 \/ \E v \in Workers \ {u} : Receiving(v, o)
      BY <1>1, <2>1, <3>1, <3>2 DEF ReceiptInv, AwaitedInv
    <3> QED BY <1>1, <1>7, <3>2, <3>3
  <2> QED BY <2>1 DEF AwaitedInv
<1>9. AccountedInv'
  <2>1. ASSUME NEW o \in Undisturbed', NEW p \in Products, receipts'[o][p] > 0
        PROVE  status'[o] \in {"received", "cancelled"} \/ \E v \in Workers : Receiving(v, o)'
    <3>1. CASE o = d
      BY <1>5, <3>1
    <3>2. CASE o # d
      <4>1. o \in Undisturbed /\ o \in Purchases /\ receipts[o][p] > 0
        BY <1>1, <1>4, <2>1 DEF Undisturbed
      <4>2. status[o] \in {"received", "cancelled"} \/ \E v \in Workers : Receiving(v, o)
        BY <4>1 DEF ReceiptInv, AccountedInv
      <4> QED BY <1>5, <1>7, <3>2, <4>1, <4>2
    <3> QED BY <3>1, <3>2
  <2> QED BY <2>1 DEF AccountedInv
<1>10. ArrivedInv'
  <2>1. ASSUME NEW u \in Workers, txn'[u].kind = "receive",
               NEW p \in Ordered(txn'[u].of) \ skipped'[txn'[u].of]
        PROVE  p \in txn'[u].todo \cup txn'[u].loaded \/ receipts'[txn'[u].of][p] >= 1
    <3>1. txn'[u] = txn[u]
      BY <1>2, <2>1
    <3> QED BY <1>1, <2>1, <3>1 DEF ReceiptInv, ArrivedInv
  <2> QED BY <2>1 DEF ArrivedInv, Ordered
<1>11. ReceivedOnce'
  BY <1>1, <1>4 DEF ReceiptInv, ReceivedOnce, Undisturbed
<1>12. ReceivedIsInStock'
  <2>1. ASSUME NEW o \in Purchases \ overridden', status'[o] = "received",
               NEW p \in Ordered(o) \ skipped'[o]
        PROVE  receipts'[o][p] >= 1
    <3>1. CASE o = d
      BY <1>1, <1>6, <2>1, <3>1
    <3>2. CASE o # d
      <4>1. status[o] = "received"
        BY <1>5, <2>1, <3>2
      <4> QED BY <1>1, <2>1, <4>1 DEF ReceiptInv, ReceivedIsInStock
    <3> QED BY <3>1, <3>2
  <2> QED BY <2>1 DEF ReceivedIsInStock, Ordered
<1> QED BY <1>8, <1>9, <1>10, <1>11, <1>12 DEF ReceiptInv

\* What the other commits do to a purchase order: they cancel it, or note that
\* they have set its status.
LEMMA OtherEnds ==
  ASSUME TypeOK, ShapeInv, NEW w \in Workers, Ends(w), ~CommitLine(w), ~CommitReceipt(w)
  PROVE  /\ Noted /\ receipts' = receipts /\ txn[w].kind # "receive"
         /\ \A o \in Purchases \ overridden' : status'[o] \in {status[o], "cancelled"}
<1>0. Shape(txn[w])
  BY DEF ShapeInv
<1>1. CASE CommitStatus(w)
  <2>1. /\ txn[w].kind \in {"cancel", "set", "start_job", "complete_job"}
        /\ Noted /\ receipts' = receipts /\ WriteStatus(w)
        /\ txn[w].kind = "set" => txn[w].of \in overridden'
    BY <1>1 DEF CommitStatus, Ready, Noted, NoteContention
  <2>2. ASSUME NEW o \in Purchases \ overridden'
        PROVE  status'[o] \in {status[o], "cancelled"}
    <3>1. CASE o # txn[w].of
      BY <2>1, <3>1 DEF WriteStatus, Documents
    <3>2. CASE o = txn[w].of
      <4>1. txn[w].kind \notin {"start_job", "complete_job"}
        BY <1>0, <3>2, TablesAssumption DEF Shape
      <4>2. txn[w].kind = "cancel" /\ txn[w].to = "cancelled"
        BY <1>0, <2>1, <2>2, <3>2, <4>1 DEF Shape
      <4> QED BY <2>1, <3>2, <4>2 DEF WriteStatus, Column, Documents
    <3> QED BY <3>1, <3>2
  <2> QED BY <2>1, <2>2
<1>2. ASSUME WriteStatus(w), txn[w].kind \in {"tracked", "start_take", "complete_take"}
      PROVE  \A o \in Purchases : status'[o] = status[o]
  <2>1. txn[w].of \notin Purchases
    BY <1>0, <1>2, TablesAssumption DEF Shape
  <2> QED BY <1>2, <2>1 DEF WriteStatus, Documents
<1>3. CASE CommitTracked(w)
  <2>1. /\ txn[w].kind = "tracked" /\ Noted /\ receipts' = receipts /\ WriteStatus(w)
    BY <1>3 DEF CommitTracked, Ready, Noted
  <2> QED BY <1>2, <2>1
<1>4. CASE CommitStart(w)
  <2>1. /\ txn[w].kind = "start_take" /\ Noted /\ receipts' = receipts /\ WriteStatus(w)
    BY <1>4 DEF CommitStart, Ready, Noted, NoteContention
  <2> QED BY <1>2, <2>1
<1>5. CASE CommitSession(w)
  <2>1. /\ txn[w].kind = "complete_take" /\ Noted /\ receipts' = receipts /\ WriteStatus(w)
    BY <1>5 DEF CommitSession, Ready, Noted, NoteContention
  <2> QED BY <1>2, <2>1
<1>6. CASE CommitDirect(w)
  BY <1>6 DEF CommitDirect, Ready, Noted
<1>7. CASE CommitRollback(w)
  BY <1>7 DEF CommitRollback, Ready, Noted
<1>8. CASE CommitCount(w)
  BY <1>8 DEF CommitCount, Ready, Noted, NoteContention
<1> QED BY <1>1, <1>3, <1>4, <1>5, <1>6, <1>7, <1>8 DEF Ends

LEMMA ReceiptStep ==
  ASSUME TypeOK, NotBelowZero, ShapeInv, ReceiptInv, [Next]_vars
  PROVE  ReceiptInv'
<1>1. ASSUME NEW w \in Workers, NEW p \in Products, Read(w, p)
      PROVE  ReceiptInv'
  <2> DEFINE t == txn[w]
             u == Loaded(t, p)
  <2>1. /\ t \in Txn /\ p \in t.todo
        /\ txn'[w] = u /\ \A v \in Workers \ {w} : txn'[v] = txn[v]
    BY <1>1, ReadTxn
  <2>2. /\ u.kind = t.kind /\ u.of = t.of
        /\ u.todo = t.todo \ {p} /\ u.loaded = t.loaded \cup {p}
    BY <2>1, LoadedFields
  <2> HIDE DEF t, u
  <2>3. u.todo \cup u.loaded = t.todo \cup t.loaded
    BY <2>1, <2>2
  <2>4. SameReceipts
    BY <2>1, <2>2, <2>3 DEF SameReceipts, t
  <2>5. Noted /\ receipts' = receipts /\ status' = status
    BY <1>1 DEF Read, Noted, tableVars, ghostVars
  <2> QED BY <2>4, <2>5, SteadyReceipts
<1>2. ASSUME NEW w \in Workers, Ends(w)
      PROVE  ReceiptInv'
  <2>1. CASE ~CommitLine(w) /\ ~CommitReceipt(w)
    <3>1. txn'[w] = Idle /\ \A v \in Workers \ {w} : Alike(txn[v], txn'[v])
      BY <1>2, <2>1, DoneTxn
    <3>2. SameReceipts
      BY <1>2, <2>1, <3>1, OtherEnds, IdleFields DEF SameReceipts, Alike
    <3> QED BY <1>2, <2>1, <3>2, OtherEnds, SteadyReceipts
  <2> QED BY <2>1, LineReceipts, MarkedReceipts
<1>3. ASSUME NEW p \in Products, Shrink(p)
      PROVE  ReceiptInv'
  <2>1. SameReceipts
    BY <1>3, ShrinkTxn DEF SameReceipts, Alike
  <2>2. Noted /\ receipts' = receipts /\ status' = status
    BY <1>3 DEF Shrink, Noted, tableVars
  <2> QED BY <2>1, <2>2, SteadyReceipts
<1>4. CASE UNCHANGED vars
  <2>1. SameReceipts /\ Noted /\ receipts' = receipts /\ status' = status
    BY <1>4 DEF vars, tableVars, ghostVars, SameReceipts, Noted
  <2> QED BY <2>1, SteadyReceipts
<1> QED BY <1>1, <1>2, <1>3, <1>4, BegunReceipts, AbandonedReceipts, NextCases
-----------------------------------------------------------------------------
(* The status of the stock takes. *)

DocumentInv == CheckedInv /\ CompletedMeansApplied

\* The kinds that check the status of a stock take before they change it.
Checking == {"start_take", "complete_take", "cancel"}

Orderly == Takes \ contended

\* A step that changes no status: the requests that have checked one are the
\* same, or have just checked it.
LEMMA SteadyDocuments ==
  ASSUME DocumentInv, status' = status, applied' = applied, Orderly' \subseteq Orderly,
         \A v \in Workers : txn'[v].kind \in Checking /\ txn'[v].of \in Takes =>
           \/ Checked(txn'[v])
           \/ txn'[v].kind = txn[v].kind /\ txn'[v].of = txn[v].of /\ txn'[v].seen = txn[v].seen
  PROVE  DocumentInv'
<1>1. ASSUME NEW v \in Workers, txn'[v].kind \in Checking, txn'[v].of \in Orderly'
      PROVE  Checked(txn[v])'
  <2>0. txn'[v].of \in Takes /\ txn'[v].of \in Orderly
    BY <1>1 DEF Orderly
  <2>1. CASE Checked(txn'[v])
    BY <2>1 DEF Checked
  <2>2. CASE txn'[v].kind = txn[v].kind /\ txn'[v].of = txn[v].of /\ txn'[v].seen = txn[v].seen
    <3>1. Checked(txn[v])
      BY <1>1, <2>0, <2>2 DEF DocumentInv, CheckedInv, Checking, Orderly
    <3> QED BY <2>2, <3>1 DEF Checked
  <2> QED BY <1>1, <2>0, <2>1, <2>2
<1>2. CheckedInv'
  BY <1>1 DEF CheckedInv, Checking, Orderly
<1>3. CompletedMeansApplied'
  BY DEF DocumentInv, CompletedMeansApplied, Orderly
<1> QED BY <1>2, <1>3 DEF DocumentInv

\* What a commit does to a stock take d that nobody else is working on.
Advances(w, d) ==
  /\ txn[w].of = d /\ txn[w].kind \in Checking /\ NoteContention(w)
  /\ status'[d] = Column(status[d], txn[w].seen, txn[w].to)
  /\ applied'[d] = IF txn[w].kind = "complete_take" THEN applied[d] + 1 ELSE applied[d]

LEMMA EndDocuments ==
  ASSUME TypeOK, ShapeInv, NEW w \in Workers, Ends(w), NEW d \in Takes
  PROVE  /\ Orderly' \subseteq Orderly
         /\ \/ status'[d] = status[d] /\ applied'[d] = applied[d]
            \/ Advances(w, d)
<1>0. Shape(txn[w]) /\ d \in Documents /\ d \notin Purchases
  BY TablesAssumption DEF ShapeInv, Documents
<1>1. CASE CommitStatus(w)
  <2>1. /\ txn[w].kind \in {"cancel", "set", "start_job", "complete_job"} /\ applied' = applied
        /\ NoteContention(w) /\ WriteStatus(w) /\ Orderly' \subseteq Orderly
    BY <1>1 DEF CommitStatus, Ready, Orderly, NoteContention
  <2>2. CASE d # txn[w].of
    BY <1>0, <2>1, <2>2 DEF WriteStatus
  <2>3. CASE d = txn[w].of
    <3>1. txn[w].kind = "cancel"
      BY <1>0, <2>1, <2>3, TablesAssumption DEF Shape
    <3> QED BY <1>0, <2>1, <2>3, <3>1 DEF WriteStatus, Advances, Checking
  <2> QED BY <2>1, <2>2, <2>3
<1>2. CASE CommitSession(w)
  <2>1. /\ txn[w].kind = "complete_take" /\ applied' = [applied EXCEPT ![txn[w].of] = @ + 1]
        /\ NoteContention(w) /\ WriteStatus(w) /\ Orderly' \subseteq Orderly
    BY <1>2 DEF CommitSession, Ready, Orderly, NoteContention
  <2>2. applied'[d] = IF d = txn[w].of THEN applied[d] + 1 ELSE applied[d]
    BY <1>0, <2>1 DEF TypeOK
  <2>3. CASE d # txn[w].of
    BY <1>0, <2>1, <2>2, <2>3 DEF WriteStatus
  <2>4. CASE d = txn[w].of
    BY <1>0, <2>1, <2>2, <2>4 DEF WriteStatus, Advances, Checking
  <2> QED BY <2>1, <2>3, <2>4
<1>3. CASE CommitStart(w)
  <2>1. /\ txn[w].kind = "start_take" /\ applied' = applied
        /\ NoteContention(w) /\ WriteStatus(w) /\ Orderly' \subseteq Orderly
    BY <1>3 DEF CommitStart, Ready, Orderly, NoteContention
  <2>2. CASE d # txn[w].of
    BY <1>0, <2>1, <2>2 DEF WriteStatus
  <2>3. CASE d = txn[w].of
    BY <1>0, <2>1, <2>3 DEF WriteStatus, Advances, Checking
  <2> QED BY <2>1, <2>2, <2>3
<1>4. CASE CommitTracked(w)
  <2>1. /\ txn[w].of \in Bulks /\ applied' = applied /\ WriteStatus(w) /\ Orderly' \subseteq Orderly
    BY <1>0, <1>4 DEF CommitTracked, Ready, Orderly, Shape
  <2>2. d # txn[w].of
    BY <2>1, TablesAssumption
  <2> QED BY <1>0, <2>1, <2>2 DEF WriteStatus
<1>5. CASE CommitReceipt(w)
  <2>1. /\ txn[w].of \in Purchases /\ applied' = applied /\ Orderly' \subseteq Orderly
        /\ status' = [status EXCEPT ![txn[w].of] = txn[w].to]
    BY <1>0, <1>5 DEF CommitReceipt, Ready, Orderly, Shape, NoteContention
  <2>2. d # txn[w].of
    BY <1>0, <2>1
  <2> QED BY <1>0, <2>1, <2>2 DEF TypeOK
<1>6. CASE CommitDirect(w) \/ CommitLine(w) \/ CommitRollback(w) \/ CommitCount(w)
  <2>1. status' = status /\ applied' = applied /\ Orderly' \subseteq Orderly
    BY <1>6 DEF CommitDirect, CommitLine, CommitRollback, CommitCount, Orderly, NoteContention
  <2> QED BY <2>1
<1> QED BY <1>1, <1>2, <1>3, <1>4, <1>5, <1>6 DEF Ends

\* What the requests of the other workers have checked, and what is applied.
LEMMA EndedDocuments ==
  ASSUME TypeOK, ShapeInv, DocumentInv, NEW w \in Workers, Ends(w)
  PROVE  DocumentInv'
<1>1. /\ txn'[w].kind \notin Checking
      /\ \A v \in Workers \ {w} : txn'[v].kind = txn[v].kind /\ txn'[v].of = txn[v].of
                                  /\ txn'[v].seen = txn[v].seen
  BY LineTxn, DoneTxn, IdleFields DEF Alike, Checking
<1>2. ASSUME NEW d \in Orderly'
      PROVE  /\ d \in Orderly /\ d \in Takes /\ d # Nothing /\ d \in Documents
             /\ \/ status'[d] = status[d] /\ applied'[d] = applied[d]
                \/ Advances(w, d)
  BY EndDocuments, TablesAssumption DEF Orderly, Documents
<1>3. ASSUME NEW v \in Workers, txn'[v].kind \in Checking, txn'[v].of \in Orderly'
      PROVE  Checked(txn[v])'
  <2> DEFINE d == txn'[v].of
  <2>1. v # w /\ txn'[v].kind = txn[v].kind /\ txn[v].of = d /\ txn'[v].seen = txn[v].seen
    BY <1>1, <1>3
  <2>2. Checked(txn[v])
    BY <1>2, <1>3, <2>1 DEF DocumentInv, CheckedInv, Checking, Orderly
  <2>3. ~Advances(w, d)
    <3>1. SUFFICES ASSUME Advances(w, d) PROVE FALSE
      OBVIOUS
    <3>2. txn[w].of = d /\ txn[w].kind # "count" /\ NoteContention(w) /\ d # Nothing
      BY <1>2, <1>3, <3>1 DEF Advances, Checking
    <3>3. d \notin contended'
      BY <1>3 DEF Orderly
    <3> QED BY <2>1, <3>2, <3>3, Alone
  <2>4. status'[d] = status[d]
    BY <1>2, <1>3, <2>3
  <2> QED BY <2>1, <2>2, <2>4 DEF Checked
<1>4. CheckedInv'
  BY <1>3 DEF CheckedInv, Checking, Orderly
<1>5. ASSUME NEW d \in Orderly'
      PROVE  applied'[d] = IF status'[d] = "completed" THEN 1 ELSE 0
  <2>1. applied[d] = IF status[d] = "completed" THEN 1 ELSE 0
    BY <1>2 DEF DocumentInv, CompletedMeansApplied, Orderly
  <2>2. CASE Advances(w, d)
    <3>1. txn[w].kind \in Checking /\ txn[w].of = d
      BY <2>2 DEF Advances
    <3>2. Checked(txn[w])
      BY <1>2, <3>1 DEF DocumentInv, CheckedInv, Checking, Orderly
    <3>3. Shape(txn[w])
      BY DEF ShapeInv
    <3>4. CASE txn[w].kind = "complete_take"
      <4>1. status[d] = "in_progress" /\ status'[d] = "completed" /\ applied'[d] = applied[d] + 1
        BY <2>2, <3>1, <3>2, <3>3, <3>4 DEF Advances, Checked, Shape, Column
      <4> QED BY <2>1, <4>1
    <3>5. CASE txn[w].kind = "start_take"
      <4>1. status[d] = "draft" /\ status'[d] = "in_progress" /\ applied'[d] = applied[d]
        BY <2>2, <3>1, <3>2, <3>3, <3>5 DEF Advances, Checked, Shape, Column
      <4> QED BY <2>1, <4>1
    <3>6. CASE txn[w].kind = "cancel"
      <4>1. status[d] # "completed" /\ status'[d] = "cancelled" /\ applied'[d] = applied[d]
        BY <2>2, <3>1, <3>2, <3>3, <3>6 DEF Advances, Checked, Shape, Column
      <4> QED BY <2>1, <4>1
    <3> QED BY <3>1, <3>4, <3>5, <3>6 DEF Checking
  <2> QED BY <1>2, <2>1, <2>2
<1>6. CompletedMeansApplied'
  BY <1>5 DEF CompletedMeansApplied, Orderly
<1> QED BY <1>4, <1>6 DEF DocumentInv

LEMMA DocumentStep ==
  ASSUME TypeOK, NotBelowZero, ShapeInv, DocumentInv, [Next]_vars
  PROVE  DocumentInv'
<1>1. ASSUME NEW w \in Workers, NEW t, Fresh(t), Begins(w, t)
      PROVE  DocumentInv'
  <2>1. txn'[w] = t /\ \A v \in Workers \ {w} : txn'[v] = txn[v]
    BY <1>1, BeginsTxn
  <2>2. status' = status /\ applied' = applied /\ Orderly' \subseteq Orderly
    BY <1>1 DEF Begins, tableVars, Orderly
  <2>3. t.kind \in Checking /\ t.of \in Takes => Checked(t)
    BY <1>1 DEF Fresh, Checking
  <2> QED BY <2>1, <2>2, <2>3, SteadyDocuments
<1>2. ASSUME NEW w \in Workers, NEW p \in Products, Read(w, p)
      PROVE  DocumentInv'
  <2> DEFINE t == txn[w]
             u == Loaded(t, p)
  <2>1. t \in Txn /\ txn'[w] = u /\ \A v \in Workers \ {w} : txn'[v] = txn[v]
    BY <1>2, ReadTxn
  <2>2. u.kind = t.kind /\ u.of = t.of /\ u.seen = t.seen
    BY <2>1, LoadedFields
  <2>3. status' = status /\ applied' = applied /\ Orderly' \subseteq Orderly
    BY <1>2 DEF Read, tableVars, ghostVars, Orderly
  <2> HIDE DEF u
  <2> QED BY <2>1, <2>2, <2>3, SteadyDocuments
<1>3. ASSUME NEW w \in Workers, Abandon(w)
      PROVE  DocumentInv'
  <2>1. txn'[w] = Idle /\ \A v \in Workers \ {w} : txn'[v] = txn[v]
    BY <1>3, AbandonTxn
  <2>2. status' = status /\ applied' = applied /\ Orderly' \subseteq Orderly
    BY <1>3 DEF Abandon, tableVars, Orderly
  <2>3. Idle.kind \notin Checking
    BY IdleFields DEF Checking
  <2> QED BY <2>1, <2>2, <2>3, SteadyDocuments
<1>4. ASSUME NEW p \in Products, Shrink(p)
      PROVE  DocumentInv'
  <2>1. status' = status /\ applied' = applied /\ Orderly' \subseteq Orderly
    BY <1>4 DEF Shrink, tableVars, Orderly
  <2> QED BY <1>4, <2>1, ShrinkTxn, SteadyDocuments DEF Alike
<1>5. CASE UNCHANGED vars
  BY <1>5, SteadyDocuments DEF vars, tableVars, ghostVars, Orderly
<1> QED BY <1>1, <1>2, <1>3, <1>4, <1>5, EndedDocuments, NextCases
-----------------------------------------------------------------------------
(* The inductive invariant. *)

LEMMA InitInv ==
  ASSUME Init
  PROVE  IInv
<1>1. PICK started \in SUBSET Takes :
        /\ onHand = Opening /\ logged = Opening /\ shelf = Opening
        /\ status = [d \in Documents |->
             IF d \in started THEN "in_progress" ELSE IF d \in Bulks THEN "none" ELSE "draft"]
        /\ counts = [s \in Takes |-> [p \in Products |->
             IF s \in started THEN <<[system |-> Opening[p], variance |-> 0]>> ELSE <<>>]]
        /\ snapshot = [b \in Bulks |-> NoSnapshot]
        /\ txn = [w \in Workers |-> Idle]
        /\ requests = 0
        /\ receipts = [o \in Purchases |-> Zero]
        /\ applied = [s \in Takes |-> 0]
        /\ raced = {} /\ contended = {} /\ broken = {} /\ unlogged = {} /\ signed = {}
        /\ skipped = [o \in Purchases |-> {}] /\ repeated = [o \in Purchases |-> {}]
        /\ overridden = {}
        /\ basis = [s \in Takes |-> Opening]
        /\ exact = [s \in Takes |-> {}]
  BY DEF Init, TablesInit
<1>2. Opening \in Quantities /\ \A p \in Products : Opening[p] \in Int /\ Opening[p] >= 0
  BY TablesAssumption DEF Quantities
<1>3. \A w \in Workers : txn[w] = Idle
  BY <1>1
<1>4. counts \in [Takes -> [Products -> Rows]]
  <2>1. ASSUME NEW p \in Products
        PROVE  <<[system |-> Opening[p], variance |-> 0]>> \in Rows /\ <<>> \in Rows
    <3>1. [system |-> Opening[p], variance |-> 0] \in [system : Int, variance : Int]
      BY <1>2
    <3> QED BY <3>1 DEF Rows
  <2> QED BY <1>1, <2>1
<1>5. /\ snapshot = [b \in Bulks |-> snapshot[b]]
      /\ \A b \in Bulks : DOMAIN snapshot[b] \subseteq Products
                          /\ snapshot[b] \in [DOMAIN snapshot[b] -> Int]
  BY <1>1 DEF NoSnapshot
<1>6. status \in [Documents -> Status] /\ applied \in [Takes -> Nat]
  BY <1>1 DEF Status
<1>7. /\ receipts \in [Purchases -> [Products -> Nat]] /\ skipped \in [Purchases -> SUBSET Products]
      /\ repeated \in [Purchases -> SUBSET Products]
  BY <1>1 DEF Zero
<1>8. txn \in [Workers -> Txn] /\ requests \in Nat
  BY <1>1, IdleFields
<1>9. TypeOK
  BY <1>1, <1>2, <1>4, <1>5, <1>6, <1>7, <1>8 DEF TypeOK
<1>10. ShapeInv /\ HeldInv
  BY <1>3, IdleFields DEF ShapeInv, HeldInv
<1>11. LogExplainsStock /\ NotBelowZero
  BY <1>1, <1>2 DEF LogExplainsStock, NotBelowZero
<1>12. AwaitedInv /\ ArrivedInv
  BY <1>3, IdleFields DEF AwaitedInv, ArrivedInv, Receiving
<1>13. AccountedInv /\ ReceivedOnce
  BY <1>1 DEF AccountedInv, ReceivedOnce, Undisturbed, Zero
<1>14. ReceivedIsInStock
  <2>1. \A o \in Purchases : status[o] # "received"
    BY <1>1 DEF Documents
  <2> QED BY <2>1 DEF ReceivedIsInStock
<1>15. CheckedInv
  BY <1>3, IdleFields DEF CheckedInv
<1>16. CompletedMeansApplied
  <2>1. \A s \in Takes : status[s] # "completed" /\ applied[s] = 0
    BY <1>1 DEF Documents
  <2> QED BY <2>1 DEF CompletedMeansApplied
<1> QED BY <1>9, <1>10, <1>11, <1>12, <1>13, <1>14, <1>15, <1>16 DEF IInv

LEMMA StepInv ==
  ASSUME IInv, [Next]_vars
  PROVE  IInv'
<1>1. /\ TypeOK /\ ShapeInv /\ HeldInv /\ LogExplainsStock /\ NotBelowZero
      /\ ReceiptInv /\ DocumentInv
  BY DEF IInv, ReceiptInv, DocumentInv
<1>2. TypeOK' /\ ShapeInv'
  BY <1>1, TypeStep, ShapeStep
<1>3. HeldInv' /\ LogExplainsStock' /\ NotBelowZero'
  BY <1>1, QuantityStep
<1>4. ReceiptInv'
  BY <1>1, ReceiptStep
<1>5. DocumentInv'
  BY <1>1, DocumentStep
<1> QED BY <1>2, <1>3, <1>4, <1>5 DEF IInv, ReceiptInv, DocumentInv

\* Each reachable state satisfies the inductive invariant.
THEOREM StockInvariantHolds == Spec => []IInv
BY InitInv, StepInv, PTL DEF Spec

\* The tables and the requests under way keep their types, whatever interleaves.
THEOREM StockTypeCorrect == Spec => []TypeOK
<1>1. IInv => TypeOK
  BY DEF IInv
<1> QED BY <1>1, StockInvariantHolds, PTL

\* Where no two requests held a quantity at once and nobody changed it without
\* a log row, the quantity on hand is what the log says.
THEOREM LogExplained == Spec => []LogExplainsStock
<1>1. IInv => LogExplainsStock
  BY DEF IInv
<1> QED BY <1>1, StockInvariantHolds, PTL

\* Sales and adjustments never drive a quantity below zero, although none of them
\* locks what it reads: a product that nothing else has changed stays at zero or
\* above.
THEOREM NeverBelowZero == Spec => []NotBelowZero
<1>1. IInv => NotBelowZero
  BY DEF IInv
<1> QED BY <1>1, StockInvariantHolds, PTL

\* A line of an undisturbed purchase order that no request names twice comes into
\* stock at most once, although each line is committed by itself.
THEOREM ComesInOnce == Spec => []ReceivedOnce
<1>1. IInv => ReceivedOnce
  BY DEF IInv
<1> QED BY <1>1, StockInvariantHolds, PTL

\* An order that its receipt has marked has in stock all its lines but those that
\* a receipt passed over, whatever raced or died.
THEOREM ReceivedMeansStocked == Spec => []ReceivedIsInStock
<1>1. IInv => ReceivedIsInStock
  BY DEF IInv
<1> QED BY <1>1, StockInvariantHolds, PTL

\* A stock take that nobody disturbed has changed the stock exactly once when it
\* is completed, and not at all before.
THEOREM AppliedOnce == Spec => []CompletedMeansApplied
<1>1. IInv => CompletedMeansApplied
  BY DEF IInv
<1> QED BY <1>1, StockInvariantHolds, PTL

-----------------------------------------------------------------------------
(* Stock takes. *)

\* What has moved of a product that the log does not say.
Shortage(p) == shelf[p] - logged[p]

\* What the invariant of the stock takes has to grow by.
Narrower == Calm' \subseteq Calm /\ Logged' \subseteq Logged

\* A request of another worker, where nothing it relies on is disturbed.
LEMMA RequestKept ==
  ASSUME Narrower, NEW t \in Txn, NEW u, TakeRequest(t),
         u = t \/ (t.kind = "count" /\ u = [t EXCEPT !.exact = FALSE]),
         t.of \in Calm' => status'[t.of] = status[t.of],
         t.of \in Calm' /\ t.kind = "complete_take" => counts'[t.of] = counts[t.of],
         t.of \in Calm' /\ t.kind = "count" =>
           \A p \in t.loaded : /\ counts'[t.of][p] = counts[t.of][p]
                               /\ u.exact => Shortage(p)' = Shortage(p)
  PROVE  TakeRequest(u)'
<1>1. /\ u.kind = t.kind /\ u.of = t.of /\ u.mode = t.mode /\ u.todo = t.todo
      /\ u.loaded = t.loaded /\ u.before = t.before /\ u.after = t.after
      /\ u.change = t.change /\ u.ledger = t.ledger /\ u.row = t.row
      /\ u.exact => t.exact
  BY DEF Txn
<1>2. CASE t.kind = "start_take"
  BY <1>1, <1>2 DEF TakeRequest, Narrower
<1>3. CASE t.kind = "count" /\ t.of \in Calm'
  <2>1. Counting(t) /\ t.of \in Calm
    BY <1>3 DEF TakeRequest, Narrower
  <2>2. Counting(u)'
    BY <1>1, <1>3, <2>1 DEF Counting, Narrower, Shortage
  <2> QED BY <1>1, <1>3, <2>2 DEF TakeRequest
<1>4. CASE t.kind = "complete_take" /\ t.of \in Calm'
  <2>1. AddsUp(t) /\ t.of \in Calm
    BY <1>4 DEF TakeRequest, Narrower
  <2>2. AddsUp(u)'
    BY <1>1, <1>4, <2>1 DEF AddsUp, Differing, SumVariance, VarianceOf
  <2> QED BY <1>1, <1>4, <2>2 DEF TakeRequest
<1>5. CASE t.kind \notin {"start_take", "count", "complete_take"} \/ t.of \notin Calm'
  BY <1>1, <1>2, <1>5 DEF TakeRequest
<1> QED BY <1>2, <1>3, <1>4, <1>5

\* A session whose rows a step leaves alone.
LEMMA SessionKept ==
  ASSUME Narrower, NEW s \in Takes, SessionSound(s), counts'[s] = counts[s],
         basis'[s] = basis[s], exact'[s] \subseteq exact[s],
         status'[s] = status[s] \/ status'[s] \notin {"draft", "in_progress"},
         \A p \in exact'[s] : Shortage(p)' = Shortage(p)
  PROVE  SessionSound(s)'
<1>1. CASE status'[s] = "draft"
  BY <1>1 DEF SessionSound
<1>2. CASE status'[s] = "in_progress"
  <2>1. Started(s)
    BY <1>2 DEF SessionSound
  <2>2. Started(s)'
    BY <2>1 DEF Started, Narrower, Shortage
  <2> QED BY <1>2, <2>2 DEF SessionSound
<1> QED BY <1>1, <1>2 DEF SessionSound

\* A request that has just begun is as the invariant says.
LEMMA FreshRequest ==
  ASSUME TypeOK, LogExplainsStock, TakeInv, NEW t, Fresh(t)
  PROVE  TakeRequest(t)
<1>0. FreshTake(t)
  BY DEF Fresh
<1>1. CASE t.kind = "start_take"
  BY <1>0, <1>1 DEF FreshTake, TakeRequest, LogExplainsStock, Logged
<1>2. CASE t.kind = "count" /\ t.of \in Calm
  <2> DEFINE s == t.of
  <2>1. PICK p \in Products : \E k \in DOMAIN counts[s][p] :
          /\ status[s] = "in_progress" /\ t.loaded = {p} /\ t.row = k
          /\ t.exact = (logged[p] = basis[s][p])
          /\ t.before[p] = counts[s][p][k].variance
          /\ t.after[p] = shelf[p] - counts[s][p][k].system
    BY <1>0, <1>2 DEF FreshTake
  <2>2. PICK k \in DOMAIN counts[s][p] :
          /\ status[s] = "in_progress" /\ t.loaded = {p} /\ t.row = k
          /\ t.exact = (logged[p] = basis[s][p])
          /\ t.before[p] = counts[s][p][k].variance
          /\ t.after[p] = shelf[p] - counts[s][p][k].system
    BY <2>1
  <2>3. s \in Takes /\ Started(s)
    BY <1>2, <2>2 DEF TakeInv, SessionSound, Calm
  <2>4. Len(counts[s][p]) = 1 /\ counts[s][p] \in Rows
    BY <2>3 DEF Started, TypeOK
  <2>5. k = 1
    <3>1. counts[s][p] \in Seq([system : Int, variance : Int])
      BY <2>4 DEF Rows
    <3>2. DOMAIN counts[s][p] = 1 .. 1
      BY <2>4, <3>1
    <3> QED BY <3>2
  <2>6. ASSUME t.exact, p \in Logged
        PROVE  t.after[p] = shelf[p] - logged[p]
    BY <2>2, <2>3, <2>5, <2>6 DEF Started
  <2> QED BY <1>2, <2>2, <2>5, <2>6 DEF TakeRequest, Counting
<1>3. CASE t.kind = "complete_take" /\ t.of \in Calm
  <2>1. AddsUp(t)
    BY <1>0, <1>3 DEF FreshTake, AddsUp
  <2> QED BY <1>3, <2>1 DEF TakeRequest
<1> QED BY <1>1, <1>2, <1>3 DEF TakeRequest

\* Idle workers do not count.
LEMMA IdleRequest == TakeRequest(Idle)' /\ TakeRequest(Idle)
BY IdleFields DEF TakeRequest

\* A query for an item changes nothing that a completion relies on.
LEMMA ReadRequest ==
  ASSUME TypeOK, ShapeInv, TakeInv, NEW w \in Workers, NEW p \in Products, Read(w, p)
  PROVE  TakeRequest(Loaded(txn[w], p))
<1> DEFINE t == txn[w]
           u == Loaded(t, p)
<1>1. t \in Txn /\ Shape(t) /\ p \in t.todo /\ TakeRequest(t)
  BY ReadTxn DEF ShapeInv, TakeInv
<1>2. /\ u.kind = t.kind /\ u.of = t.of /\ u.mode = t.mode /\ u.change = t.change
      /\ u.todo = t.todo \ {p} /\ u.loaded = t.loaded \cup {p}
  BY <1>1, LoadedFields
<1> HIDE DEF t, u
<1>3. t.kind \notin {"start_take", "count"}
  BY <1>1 DEF Shape
<1>4. u.todo \cup u.loaded = t.todo \cup t.loaded
  BY <1>1, <1>2
<1>5. TakeRequest(u)
  BY <1>1, <1>2, <1>3, <1>4 DEF TakeRequest, AddsUp
<1> QED BY <1>5 DEF t, u

\* What the other requests become when worker w, or nobody, takes a step.
Others(W) ==
  \A v \in W :
    txn'[v] = txn[v] \/ (txn[v].kind = "count" /\ txn'[v] = [txn[v] EXCEPT !.exact = FALSE])

\* A step that leaves the rows of all sessions alone, and of each product what
\* the log is short of, unless what is counted of it becomes obsolete.
LEMMA SteadyTakes ==
  ASSUME TypeOK, TakeInv, Narrower, NEW W \in SUBSET Workers, Others(W),
         \A w \in Workers \ W : TakeRequest(txn[w])',
         counts' = counts, basis' = basis,
         \A s \in Takes : exact'[s] \subseteq exact[s],
         \A s \in Calm' : \/ status'[s] = status[s]
                          \/ /\ status'[s] \notin {"draft", "in_progress"}
                             /\ \A v \in W : txn[v].of # s,
         \A p \in Products :
           \/ Shortage(p)' = Shortage(p)
           \/ /\ \A s \in Calm' : status'[s] = "in_progress" => p \notin exact'[s]
              /\ \A v \in W : txn[v].kind = "count" /\ txn[v].of \in Calm' /\ p \in txn[v].loaded =>
                   ~txn'[v].exact
  PROVE  TakeInv'
<1>1. ASSUME NEW s \in Calm'
      PROVE  SessionSound(s)'
  <2>1. s \in Takes /\ SessionSound(s)
    BY <1>1 DEF TakeInv, Narrower, Calm
  <2>2. CASE status'[s] = "in_progress"
    <3>1. exact'[s] \subseteq exact[s] /\ exact[s] \subseteq Products
      BY <2>1 DEF TypeOK
    <3>2. \A p \in exact'[s] : Shortage(p)' = Shortage(p)
      BY <2>2, <3>1
    <3> QED BY <2>1, <2>2, <3>2, SessionKept
  <2>3. CASE status'[s] = "draft"
    BY <1>1, <2>1, <2>3 DEF SessionSound
  <2> QED BY <2>2, <2>3 DEF SessionSound
<1>2. ASSUME NEW w \in Workers
      PROVE  TakeRequest(txn[w])'
  <2>1. CASE w \notin W
    BY <2>1
  <2>2. CASE w \in W
    <3>0. PICK t, u : t = txn[w] /\ u = txn'[w]
      OBVIOUS
    <3>1. /\ t \in Txn /\ TakeRequest(t) /\ t.loaded \subseteq Products
          /\ u = t \/ (t.kind = "count" /\ u = [t EXCEPT !.exact = FALSE])
      BY <2>2, <3>0 DEF TypeOK, TakeInv, Others, Txn
    <3>2. t.of \in Calm' => status'[t.of] = status[t.of]
      BY <2>2, <3>0
    <3>3. t.of \in Calm' /\ t.kind = "count" =>
            \A p \in t.loaded : u.exact => Shortage(p)' = Shortage(p)
      BY <2>2, <3>0, <3>1
    <3>4. TakeRequest(u)'
      BY <3>1, <3>2, <3>3, RequestKept
    <3> QED BY <3>0, <3>4
  <2> QED BY <2>1, <2>2
<1> QED BY <1>1, <1>2 DEF TakeInv

\* The quantities that a commit logs and moves.
LEMMA WrittenShortage ==
  ASSUME TypeOK, NEW w \in Workers, WriteStock(w), NEW p \in Products
  PROVE  /\ Logged' \subseteq Logged
         /\ txn[w].kind # "complete_take" => Shortage(p)' = Shortage(p)
         /\ p \notin txn[w].loaded \/ txn[w].change[p] = 0 => Shortage(p)' = Shortage(p)
<1>1. Logged' \subseteq Logged
  BY DEF WriteStock, Logged
<1>2. /\ txn[w].change[p] \in Int /\ logged[p] \in Int /\ shelf[p] \in Int
      /\ txn[w].kind \in Kinds
  BY DEF TypeOK, Txn, Quantities
<1>3. /\ logged'[p] = IF p \in txn[w].loaded /\ txn[w].kind \in Logging
                      THEN logged[p] + txn[w].change[p] ELSE logged[p]
      /\ shelf'[p] = IF p \in txn[w].loaded /\ txn[w].kind \in Moving
                     THEN shelf[p] + txn[w].change[p] ELSE shelf[p]
  BY DEF WriteStock
<1>4. txn[w].kind # "complete_take" =>
        (txn[w].kind \in Logging <=> txn[w].kind \in Moving)
  BY DEF Logging, Moving
<1>5. Moving \subseteq Logging
  BY DEF Logging, Moving
<1> QED BY <1>1, <1>2, <1>3, <1>4, <1>5 DEF Shortage

\* A request begins.
LEMMA BegunTakes ==
  ASSUME TypeOK, LogExplainsStock, TakeInv, NEW w \in Workers, NEW t, Fresh(t), Begins(w, t)
  PROVE  TakeInv'
<1>1. txn'[w] = t /\ \A v \in Workers \ {w} : txn'[v] = txn[v]
  BY BeginsTxn
<1>2. /\ UNCHANGED <<status, counts, shelf, logged, raced, unlogged, contended,
                     basis, exact>>
      /\ Narrower /\ \A p \in Products : Shortage(p)' = Shortage(p)
  BY DEF Begins, tableVars, Narrower, Calm, Logged, Shortage
<1>3. t \in Txn /\ TakeRequest(t)
  BY FreshRequest DEF Fresh
<1>4. TakeRequest(t)'
  <2>1. t.loaded \subseteq Products
    BY <1>3 DEF Txn
  <2> QED BY <1>2, <1>3, <2>1, RequestKept
<1>5. TakeRequest(txn[w])'
  BY <1>1, <1>4
<1>6. Others(Workers \ {w})
  BY <1>1, <1>2 DEF Others
<1> QED BY <1>2, <1>5, <1>6, SteadyTakes

\* A request reads the item of a product.
LEMMA ReadTakes ==
  ASSUME TypeOK, ShapeInv, TakeInv, NEW w \in Workers, NEW p \in Products, Read(w, p)
  PROVE  TakeInv'
<1>0. PICK t : t = Loaded(txn[w], p)
  OBVIOUS
<1>1. txn'[w] = t /\ t \in Txn /\ \A v \in Workers \ {w} : txn'[v] = txn[v]
  BY <1>0, ReadTxn
<1>2. /\ UNCHANGED <<status, counts, shelf, logged, raced, unlogged, contended,
                     basis, exact>>
      /\ Narrower /\ \A q \in Products : Shortage(q)' = Shortage(q)
  BY DEF Read, tableVars, ghostVars, Narrower, Calm, Logged, Shortage
<1>3. TakeRequest(t)
  BY <1>0, ReadRequest
<1>4. TakeRequest(t)'
  <2>1. t.loaded \subseteq Products
    BY <1>1 DEF Txn
  <2> QED BY <1>1, <1>2, <1>3, <2>1, RequestKept
<1>5. TakeRequest(txn[w])'
  BY <1>1, <1>4
<1>6. Others(Workers \ {w})
  BY <1>1, <1>2 DEF Others
<1> QED BY <1>2, <1>5, <1>6, SteadyTakes

\* A request dies.
LEMMA AbandonedTakes ==
  ASSUME TypeOK, TakeInv, NEW w \in Workers, Abandon(w)
  PROVE  TakeInv'
<1>1. txn'[w] = Idle /\ \A v \in Workers \ {w} : txn'[v] = txn[v]
  BY AbandonTxn
<1>2. /\ UNCHANGED <<status, counts, shelf, logged, raced, unlogged, contended,
                     basis, exact>>
      /\ Narrower /\ \A p \in Products : Shortage(p)' = Shortage(p)
  BY DEF Abandon, tableVars, Narrower, Calm, Logged, Shortage
<1>3. TakeRequest(txn[w])'
  BY <1>1, IdleRequest
<1>4. Others(Workers \ {w})
  BY <1>1, <1>2 DEF Others
<1> QED BY <1>2, <1>3, <1>4, SteadyTakes

\* Goods disappear: what has been counted of them is not there any more.
LEMMA ShrunkTakes ==
  ASSUME TypeOK, TakeInv, NEW p \in Products, Shrink(p)
  PROVE  TakeInv'
<1>1. /\ UNCHANGED <<status, counts, logged, raced, unlogged, contended, basis>>
      /\ shelf' = [shelf EXCEPT ![p] = @ - 1]
      /\ exact' = [s \in Takes |-> exact[s] \ {p}]
      /\ txn' = [w \in Workers |->
           IF txn[w].kind = "count" /\ p \in txn[w].loaded
           THEN [txn[w] EXCEPT !.exact = FALSE] ELSE txn[w]]
  BY DEF Shrink, tableVars
<1>2. Others(Workers)
  BY <1>1 DEF Others
<1>3. \A v \in Workers : txn[v].kind = "count" /\ p \in txn[v].loaded => ~txn'[v].exact
  BY <1>1 DEF TypeOK, Txn
<1>4. \A q \in Products : Shortage(q)' = Shortage(q) \/ q = p
  BY <1>1 DEF Shortage, TypeOK, Quantities
<1>5. Narrower
  BY <1>1 DEF Narrower, Calm, Logged
<1>6. \A s \in Takes : exact'[s] \subseteq exact[s] /\ p \notin exact'[s]
  BY <1>1
<1>7. Calm' \subseteq Takes
  BY DEF Calm
<1> QED BY <1>1, <1>2, <1>3, <1>4, <1>5, <1>6, <1>7, SteadyTakes

\* A commit that writes no row of a stock take: it may cancel one, and is then
\* alone with it.
LEMMA OtherEndsTakes ==
  ASSUME TypeOK, ShapeInv, CheckedInv, TakeInv, NEW w \in Workers, Ends(w),
         ~CommitStart(w), ~CommitCount(w), ~CommitSession(w)
  PROVE  TakeInv'
<1>0. Shape(txn[w]) /\ txn[w] \in Txn
  BY DEF ShapeInv, TypeOK
<1>1. /\ counts' = counts /\ basis' = basis /\ exact' = exact /\ contended \subseteq contended'
  BY DEF Ends, CommitStatus, CommitDirect, CommitLine, CommitReceipt, CommitTracked,
         CommitRollback, NoteContention
<1>2. /\ Logged' \subseteq Logged
      /\ \A p \in Products : Shortage(p)' = Shortage(p)
  <2>1. CASE CommitStatus(w) \/ CommitReceipt(w)
    BY <2>1 DEF CommitStatus, CommitReceipt, Logged, Shortage
  <2>2. CASE CommitDirect(w) \/ CommitLine(w) \/ CommitTracked(w) \/ CommitRollback(w)
    <3>1. WriteStock(w) /\ txn[w].kind # "complete_take"
      BY <2>2 DEF CommitDirect, CommitLine, CommitTracked, CommitRollback, Ready
    <3>2. Logged' \subseteq Logged
      BY <3>1 DEF WriteStock, Logged
    <3> QED BY <3>1, <3>2, WrittenShortage
  <2> QED BY <2>1, <2>2 DEF Ends
<1>3. /\ \A v \in Workers \ {w} : txn'[v] = txn[v]
      /\ TakeRequest(txn[w])'
  <2>1. CASE CommitLine(w)
    BY <2>1, LineTxn DEF TakeRequest
  <2>2. CASE ~CommitLine(w)
    <3>1. Done(w)
      BY <2>2 DEF Ends, CommitStatus, CommitDirect, CommitReceipt, CommitTracked,
                  CommitRollback
    <3>2. txn'[w] = Idle /\ \A v \in Workers \ {w} : txn'[v] = txn[v]
      BY <3>1 DEF Done, TypeOK
    <3> QED BY <3>2, IdleRequest
  <2> QED BY <2>1, <2>2
<1>4. ASSUME NEW s \in Calm'
      PROVE  \/ status'[s] = status[s]
             \/ /\ status'[s] \notin {"draft", "in_progress"}
                /\ \A v \in Workers \ {w} : txn[v].of # s
  <2>0. s \in Takes /\ s \notin contended' /\ s # Nothing
    BY <1>4, TablesAssumption DEF Calm, Documents
  <2>1. CASE Advances(w, s) /\ status'[s] # status[s]
    <3>1. /\ txn[w].of = s /\ txn[w].kind \in Checking /\ NoteContention(w)
          /\ status'[s] = Column(status[s], txn[w].seen, txn[w].to)
      BY <2>1 DEF Advances
    <3>2. txn[w].kind = "cancel"
      <4>1. txn[w].kind \notin {"start_take", "complete_take"}
        BY DEF Ends, CommitStatus, CommitDirect, CommitReceipt, CommitTracked, CommitLine,
               CommitRollback, Ready
      <4> QED BY <3>1, <4>1 DEF Checking
    <3>3. status'[s] = "cancelled"
      BY <1>0, <2>1, <3>1, <3>2 DEF Shape, Column
    <3>4. \A v \in Workers \ {w} : txn[v].of # s
      BY <2>0, <3>1, <3>2, Alone
    <3> QED BY <3>3, <3>4
  <2>2. CASE status'[s] = status[s]
    BY <2>2
  <2> QED BY <2>0, <2>1, <2>2, EndDocuments
<1>5. Narrower /\ Others(Workers \ {w})
  BY <1>1, <1>2, <1>3 DEF Narrower, Calm, Others
<1>6. \A v \in Workers \ (Workers \ {w}) : TakeRequest(txn[v])'
  BY <1>3
<1>7. \A s \in Takes : exact'[s] \subseteq exact[s]
  BY <1>1
<1> QED BY <1>1, <1>2, <1>4, <1>5, <1>6, <1>7, SteadyTakes

\* A session starts: its rows are what its request has read, which is what the
\* log said then.
LEMMA StartedTakes ==
  ASSUME TypeOK, ShapeInv, CheckedInv, TakeInv, NEW w \in Workers, CommitStart(w)
  PROVE  TakeInv'
<1>0. PICK t, s : t = txn[w] /\ s = t.of
  OBVIOUS
<1>1. /\ t \in Txn /\ Shape(t) /\ t.kind = "start_take" /\ s \in Takes /\ s \in Documents
      /\ t.to = "in_progress" /\ TakeRequest(t) /\ s # Nothing
  BY <1>0, TablesAssumption DEF TypeOK, ShapeInv, CommitStart, Ready, Shape, Documents, TakeInv
<1>2. /\ WriteStatus(w) /\ NoteContention(w) /\ Done(w)
      /\ counts' = [counts EXCEPT ![s] =
           [p \in Products |-> Append(counts[s][p], [system |-> t.before[p], variance |-> 0])]]
      /\ basis' = [basis EXCEPT ![s] = t.ledger]
      /\ UNCHANGED <<logged, shelf, raced, unlogged, exact>>
  BY <1>0 DEF CommitStart, TypeOK
<1>3. /\ Narrower /\ \A p \in Products : Shortage(p)' = Shortage(p)
      /\ contended \subseteq contended'
  BY <1>2 DEF Narrower, Calm, Logged, NoteContention, Shortage
<1>4. /\ txn'[w] = Idle /\ \A v \in Workers \ {w} : txn'[v] = txn[v]
      /\ \A d \in Documents \ {s} : status'[d] = status[d]
      /\ \A d \in Takes \ {s} : counts'[d] = counts[d] /\ basis'[d] = basis[d]
  BY <1>0, <1>2 DEF Done, WriteStatus, TypeOK
<1>5. ASSUME s \in Calm'
      PROVE  SessionSound(s)' /\ \A v \in Workers \ {w} : txn[v].of # s
  <2>1. s \in Calm /\ s \notin contended'
    BY <1>3, <1>5 DEF Calm, Narrower, TakeInv
  <2>2. \A v \in Workers \ {w} : txn[v].of # s
    BY <1>0, <1>1, <1>2, <2>1, Alone
  <2>3. Checked(t)
    BY <1>0, <1>1, <2>1 DEF CheckedInv, Calm
  <2>4. status[s] = "draft" /\ status'[s] = "in_progress"
    BY <1>0, <1>1, <1>2, <2>3 DEF Checked, WriteStatus, Column
  <2>5. exact[s] = {} /\ \A p \in Products : counts[s][p] = <<>>
    BY <2>1, <2>4 DEF TakeInv, SessionSound
  <2>6. ASSUME NEW p \in Products
        PROVE  /\ Len(counts'[s][p]) = 1
               /\ p \in Logged' => counts'[s][p][1].system = basis'[s][p]
               /\ p \notin exact'[s]
    <3>1. Len(counts'[s][p]) = 1 /\ counts'[s][p][1].system = t.before[p]
      <4> DEFINE R == [system : Int, variance : Int]
                 e == [system |-> t.before[p], variance |-> 0]
      <4>1. <<>> \in Seq(R) /\ e \in R /\ e.system = t.before[p] /\ Len(<<>>) = 0
        BY <1>1 DEF Txn, Quantities
      <4>2. counts'[s][p] = Append(<<>>, e)
        BY <1>1, <1>2, <2>5 DEF TypeOK
      <4> HIDE DEF e, R
      <4>3. Len(Append(<<>>, e)) = Len(<<>>) + 1 /\ Append(<<>>, e)[Len(<<>>) + 1] = e
        BY <4>1, AppendProperties
      <4> QED BY <4>1, <4>2, <4>3
    <3>2. basis'[s][p] = t.ledger[p]
      BY <1>1, <1>2 DEF TypeOK
    <3>3. p \in Logged' => t.before[p] = t.ledger[p]
      BY <1>1, <1>3 DEF TakeRequest, Narrower
    <3> QED BY <1>2, <2>5, <3>1, <3>2, <3>3
  <2>7. Started(s)'
    BY <2>6 DEF Started
  <2> QED BY <2>2, <2>4, <2>7 DEF SessionSound
<1>6. ASSUME NEW r \in Calm', r # s
      PROVE  SessionSound(r)'
  <2>1. r \in Takes /\ SessionSound(r) /\ r \in Documents /\ exact[r] \subseteq Products
    BY <1>3, <1>6 DEF TakeInv, Narrower, Calm, Documents, TypeOK
  <2> QED BY <1>2, <1>3, <1>4, <1>6, <2>1, SessionKept
<1>7. ASSUME NEW v \in Workers \ {w}
      PROVE  TakeRequest(txn[v])'
  <2>0. PICK u : u = txn[v]
    OBVIOUS
  <2>1. u \in Txn /\ Shape(u) /\ u.loaded \subseteq Products /\ TakeRequest(u)
    BY <2>0 DEF TypeOK, ShapeInv, Txn, TakeInv
  <2>2. u.of \in Calm' => u.of # s /\ u.of \in Takes /\ u.of \in Documents
    BY <1>5, <2>0 DEF Calm, Documents
  <2>3. TakeRequest(u)'
    BY <1>3, <1>4, <2>1, <2>2, RequestKept
  <2> QED BY <1>4, <2>0, <2>3
<1> QED BY <1>4, <1>5, <1>6, <1>7, IdleRequest DEF TakeInv

\* The variance of a product is entered in its row.
LEMMA CountedTakes ==
  ASSUME TypeOK, ShapeInv, TakeInv, NEW w \in Workers, CommitCount(w)
  PROVE  TakeInv'
<1>0. PICK t, s : t = txn[w] /\ s = t.of
  OBVIOUS
<1>1. /\ t \in Txn /\ t.kind = "count" /\ s \in Takes /\ TakeRequest(t) /\ s # Nothing
      /\ t.loaded \subseteq Products
  BY <1>0, TablesAssumption DEF TypeOK, ShapeInv, CommitCount, Ready, Shape, Documents, TakeInv, Txn
<1>2. /\ NoteContention(w) /\ Done(w)
      /\ counts' = [counts EXCEPT ![s] = [p \in Products |-> Counted(counts[s][p], t, p)]]
      /\ exact' = [exact EXCEPT ![s] = IF t.exact THEN exact[s] \cup t.loaded
                                       ELSE exact[s] \ t.loaded]
      /\ UNCHANGED <<status, logged, shelf, raced, unlogged, basis>>
  BY <1>0 DEF CommitCount, TypeOK
<1>3. /\ Narrower /\ \A p \in Products : Shortage(p)' = Shortage(p)
  BY <1>2 DEF Narrower, Calm, Logged, NoteContention, Shortage
<1>4. /\ txn'[w] = Idle /\ \A v \in Workers \ {w} : txn'[v] = txn[v]
      /\ \A d \in Takes \ {s} : counts'[d] = counts[d] /\ exact'[d] = exact[d]
      /\ \A p \in Products : counts'[s][p] = Counted(counts[s][p], t, p)
      /\ exact'[s] = IF t.exact THEN exact[s] \cup t.loaded ELSE exact[s] \ t.loaded
  BY <1>1, <1>2 DEF Done, TypeOK
<1>5. ASSUME s \in Calm'
      PROVE  SessionSound(s)'
  <2>1. Counting(t) /\ s \in Calm
    BY <1>0, <1>1, <1>3, <1>5 DEF TakeRequest, Narrower
  <2>2. status[s] = "in_progress" /\ t.row = 1
    BY <1>0, <2>1 DEF Counting
  <2>3. Started(s)
    BY <2>1, <2>2 DEF TakeInv, SessionSound
  <2>4. ASSUME NEW p \in Products
        PROVE  /\ Len(counts'[s][p]) = 1
               /\ p \in Logged' => counts'[s][p][1].system = basis'[s][p]
               /\ p \in exact'[s] \cap Logged' =>
                    counts'[s][p][1].variance = shelf'[p] - logged'[p]
    <3>1. /\ Len(counts[s][p]) = 1
          /\ p \in Logged => counts[s][p][1].system = basis[s][p]
          /\ p \in exact[s] \cap Logged => counts[s][p][1].variance = shelf[p] - logged[p]
      BY <2>3 DEF Started
    <3>2. CASE p \notin t.loaded
      <4>1. counts'[s][p] = counts[s][p] /\ (p \in exact'[s] => p \in exact[s])
        BY <1>4, <3>2 DEF Counted
      <4> QED BY <1>2, <1>3, <3>1, <4>1 DEF Narrower
    <3>3. CASE p \in t.loaded
      <4> DEFINE rows == counts[s][p]
                 v == t.after[p]
      <4>1. /\ rows \in Seq([system : Int, variance : Int]) /\ v \in Int
            /\ t.before[p] = rows[1].variance
            /\ (t.exact /\ p \in Logged => v = shelf[p] - logged[p])
        BY <1>0, <1>1, <2>1, <3>3 DEF TypeOK, Rows, Txn, Quantities, Counting
      <4>2. counts'[s][p] = [rows EXCEPT ![1].variance = Column(@, t.before[p], v)]
        BY <1>4, <2>2, <3>3 DEF Counted
      <4>3. 1 \in DOMAIN rows /\ rows[1] \in [system : Int, variance : Int]
        <5>1. Len(rows) = 1
          BY <3>1
        <5> HIDE DEF rows, v
        <5>2. 1 \in DOMAIN rows
          BY <4>1, <5>1
        <5> QED BY <4>1, <5>2, SeqElement
      <4>4. /\ Len(counts'[s][p]) = Len(rows) /\ counts'[s][p][1].system = rows[1].system
            /\ counts'[s][p][1].variance = Column(rows[1].variance, t.before[p], v)
        <5> HIDE DEF rows, v
        <5> QED BY <4>1, <4>2, <4>3
      <4>5. counts'[s][p][1].variance = v
        BY <4>1, <4>4 DEF Column
      <4>6. p \in exact'[s] => t.exact
        BY <1>4, <3>3
      <4> HIDE DEF rows, v
      <4>7. p \in exact'[s] \cap Logged' =>
              counts'[s][p][1].variance = shelf'[p] - logged'[p]
        BY <1>2, <1>3, <4>1, <4>5, <4>6 DEF Narrower
      <4> QED BY <1>2, <1>3, <3>1, <4>4, <4>7 DEF Narrower, rows
    <3> QED BY <3>2, <3>3
  <2>5. Started(s)'
    BY <2>4 DEF Started
  <2> QED BY <1>2, <2>2, <2>5 DEF SessionSound
<1>6. ASSUME NEW r \in Calm', r # s
      PROVE  SessionSound(r)'
  <2>1. r \in Takes /\ SessionSound(r) /\ exact[r] \subseteq Products
    BY <1>3, <1>6 DEF TakeInv, Narrower, Calm, TypeOK
  <2> QED BY <1>2, <1>3, <1>4, <1>6, <2>1, SessionKept
<1>7. ASSUME NEW v \in Workers \ {w}
      PROVE  TakeRequest(txn[v])'
  <2>0. PICK u : u = txn[v]
    OBVIOUS
  <2>1. u \in Txn /\ u.loaded \subseteq Products /\ TakeRequest(u)
    BY <2>0 DEF TypeOK, ShapeInv, Txn, TakeInv
  <2>2. u.of \in Calm' /\ u.of = s => u.kind = "count" /\ u.loaded \cap t.loaded = {}
    BY <1>0, <1>1, <1>2, <2>0 DEF NoteContention, InTheWay, Calm
  <2>3. u.of \in Calm' => u.of \in Takes
    BY DEF Calm
  <2>4. u.of \in Calm' /\ u.kind = "count" =>
          \A p \in u.loaded : counts'[u.of][p] = counts[u.of][p]
    BY <1>4, <2>1, <2>2, <2>3 DEF Counted
  <2>5. u.of \in Calm' /\ u.kind = "complete_take" => counts'[u.of] = counts[u.of]
    BY <1>4, <2>2, <2>3
  <2>6. TakeRequest(u)'
    BY <1>2, <1>3, <2>1, <2>4, <2>5, RequestKept
  <2> QED BY <1>4, <2>0, <2>6
<1> QED BY <1>4, <1>5, <1>6, <1>7, IdleRequest DEF TakeInv

\* A session is completed: what it corrects makes the counts of others obsolete.
LEMMA CompletedTakes ==
  ASSUME TypeOK, ShapeInv, CheckedInv, TakeInv, NEW w \in Workers, CommitSession(w)
  PROVE  TakeInv'
<1> DEFINE t == txn[w]
           s == t.of
           corrected == {p \in t.loaded : t.change[p] # 0}
<1>1. /\ t \in Txn /\ t.kind = "complete_take" /\ s \in Takes /\ s \in Documents /\ s # Nothing
      /\ t.to = "completed"
  BY TablesAssumption DEF TypeOK, ShapeInv, CommitSession, Ready, Shape, Documents
<1>2. /\ WriteStock(w) /\ WriteStatus(w) /\ NoteContention(w)
      /\ exact' = [r \in Takes |-> IF r = s THEN exact[r] ELSE exact[r] \ corrected]
      /\ UNCHANGED <<counts, basis>>
      /\ txn' = [v \in Workers |->
           CASE v = w -> Idle
             [] v # w /\ txn[v].kind = "count" /\ txn[v].loaded \cap corrected # {} ->
                  [txn[v] EXCEPT !.exact = FALSE]
             [] OTHER -> txn[v]]
  BY DEF CommitSession
<1> HIDE DEF corrected
<1>3. \A p \in Products \ corrected : Shortage(p)' = Shortage(p)
  BY <1>2, WrittenShortage DEF corrected
<1>4. Narrower
  BY <1>2 DEF WriteStock, NoteContention, Narrower, Calm, Logged
<1>5. txn'[w] = Idle /\ Others(Workers \ {w})
  BY <1>2 DEF Others
<1>6. \A v \in Workers \ {w} : txn[v].kind = "count" /\ txn[v].loaded \cap corrected # {} =>
        ~txn'[v].exact
  <2>1. ASSUME NEW v \in Workers \ {w}, txn[v].kind = "count",
               txn[v].loaded \cap corrected # {}
        PROVE  ~txn'[v].exact
    <3>1. txn'[v] = [txn[v] EXCEPT !.exact = FALSE] /\ txn[v] \in Txn
      BY <1>2, <2>1 DEF TypeOK
    <3> QED BY <3>1 DEF Txn
  <2> QED BY <2>1
<1>7. ASSUME s \in Calm'
      PROVE  status'[s] = "completed" /\ \A v \in Workers \ {w} : txn[v].of # s
  <2>1. s \notin contended /\ s \notin contended'
    BY <1>4, <1>7 DEF Calm, Narrower, TakeInv
  <2>2. Checked(t)
    BY <1>1, <2>1 DEF CheckedInv
  <2>3. status'[s] = "completed"
    BY <1>1, <1>2, <2>2 DEF Checked, WriteStatus, Column
  <2> QED BY <1>1, <1>2, <2>1, <2>3, Alone
<1>8. \A r \in Calm' : \/ status'[r] = status[r]
                       \/ /\ status'[r] \notin {"draft", "in_progress"}
                          /\ \A v \in Workers \ {w} : txn[v].of # r
  <2>1. \A r \in Calm' : r \in Documents
    BY DEF Calm, Documents
  <2> QED BY <1>2, <1>7, <2>1 DEF WriteStatus
<1>9. ASSUME NEW p \in corrected
      PROVE  /\ \A r \in Calm' : status'[r] = "in_progress" => p \notin exact'[r]
             /\ \A v \in Workers \ {w} :
                  txn[v].kind = "count" /\ txn[v].of \in Calm' /\ p \in txn[v].loaded =>
                    ~txn'[v].exact
  <2>1. Calm' \subseteq Takes
    BY DEF Calm
  <2> QED BY <1>2, <1>6, <1>7, <2>1
<1>10. TakeRequest(txn[w])'
  BY <1>5, IdleRequest
<1>11. \A r \in Takes : exact'[r] \subseteq exact[r]
  BY <1>2
<1>12. \A v \in Workers \ (Workers \ {w}) : TakeRequest(txn[v])'
  BY <1>10
<1> QED BY <1>2, <1>3, <1>4, <1>5, <1>8, <1>9, <1>11, <1>12, SteadyTakes

LEMMA TakeStep ==
  ASSUME IInv, TakeInv, [Next]_vars
  PROVE  TakeInv'
<1>0. TypeOK /\ ShapeInv /\ CheckedInv /\ LogExplainsStock /\ NotBelowZero
  BY DEF IInv
<1>1. ASSUME NEW w \in Workers, Ends(w)
      PROVE  TakeInv'
  BY <1>0, <1>1, StartedTakes, CountedTakes, CompletedTakes, OtherEndsTakes
<1>2. CASE UNCHANGED vars
  <2>1. /\ UNCHANGED <<status, counts, raced, unlogged, contended, basis, exact, txn>>
        /\ Narrower /\ \A p \in Products : Shortage(p)' = Shortage(p)
    BY <1>2 DEF vars, tableVars, ghostVars, Narrower, Calm, Logged, Shortage
  <2>2. Others(Workers)
    BY <2>1 DEF Others
  <2> QED BY <1>0, <2>1, <2>2, SteadyTakes
<1> QED BY <1>0, <1>1, <1>2, BegunTakes, ReadTakes, AbandonedTakes, ShrunkTakes, NextCases

LEMMA InitTakes ==
  ASSUME Init
  PROVE  TakeInv
<1>1. PICK started \in SUBSET Takes :
        /\ status = [d \in Documents |->
             IF d \in started THEN "in_progress" ELSE IF d \in Bulks THEN "none" ELSE "draft"]
        /\ counts = [s \in Takes |-> [p \in Products |->
             IF s \in started THEN <<[system |-> Opening[p], variance |-> 0]>> ELSE <<>>]]
        /\ txn = [w \in Workers |-> Idle]
        /\ basis = [s \in Takes |-> Opening]
        /\ exact = [s \in Takes |-> {}]
  BY DEF Init, TablesInit
<1>2. ASSUME NEW s \in Takes
      PROVE  SessionSound(s)
  <2>1. exact[s] = {} /\ basis[s] = Opening /\ s \in Documents
    BY <1>1 DEF Documents
  <2>2. CASE s \in started
    <3>1. \A p \in Products : counts[s][p] = <<[system |-> Opening[p], variance |-> 0]>>
      BY <1>1, <2>2
    <3>2. ASSUME NEW p \in Products
          PROVE  Len(counts[s][p]) = 1 /\ counts[s][p][1].system = basis[s][p]
      <4>1. counts[s][p] = <<[system |-> Opening[p], variance |-> 0]>>
        BY <3>1
      <4> QED BY <2>1, <4>1
    <3>3. Started(s)
      BY <2>1, <3>2 DEF Started
    <3>4. status[s] = "in_progress"
      BY <1>1, <2>1, <2>2
    <3> QED BY <3>3, <3>4 DEF SessionSound
  <2>3. CASE s \notin started
    <3>1. /\ status[s] # "in_progress"
          /\ \A p \in Products : counts[s][p] = <<>>
      BY <1>1, <2>1, <2>3
    <3> QED BY <2>1, <3>1 DEF SessionSound
  <2> QED BY <2>2, <2>3
<1>3. \A w \in Workers : TakeRequest(txn[w])
  BY <1>1, IdleRequest
<1> QED BY <1>1, <1>2, <1>3 DEF TakeInv, Calm

\* In each reachable state the stock takes are as their invariant says.
THEOREM TakeInvariantHolds == Spec => []TakeInv
BY InitTakes, TakeStep, StockInvariantHolds, PTL DEF Spec

\* A session that is completed brings each product that was counted in time to
\* what is really there.
LEMMA SessionCorrects ==
  ASSUME IInv, TakeInv, NEW w \in Workers, CommitSession(w), txn[w].of \notin contended',
         NEW p \in exact[txn[w].of] \ (raced' \cup unlogged')
  PROVE  onHand'[p] = shelf'[p]
<1> DEFINE t == txn[w]
           s == t.of
<1>1. /\ t \in Txn /\ t.kind = "complete_take" /\ s \in Takes /\ t.todo = {}
      /\ TypeOK /\ WriteStock(w) /\ NoteContention(w) /\ TakeRequest(t)
  BY DEF IInv, TypeOK, ShapeInv, CommitSession, Ready, Shape, TakeInv
<1>2. s \in Calm /\ p \in Products /\ p \in Logged
  BY <1>1 DEF NoteContention, WriteStock, Calm, Logged, TypeOK, TakeInv
<1>3. AddsUp(t)
  BY <1>1, <1>2 DEF TakeRequest
<1>4. status[s] = "in_progress"
  BY <1>1, <1>2 DEF IInv, CheckedInv, Checked, Calm
<1>5. Len(counts[s][p]) = 1 /\ counts[s][p][1].variance = shelf[p] - logged[p]
  BY <1>2, <1>4 DEF TakeInv, SessionSound, Started
<1>6. /\ counts[s][p] \in Seq([system : Int, variance : Int]) /\ t.change[p] \in Int
      /\ onHand[p] \in Int /\ logged[p] \in Int /\ shelf[p] \in Int
      /\ t.before[p] \in Int /\ t.after[p] \in Int
  BY <1>1, <1>2 DEF TypeOK, Rows, Txn, Quantities
<1>7. DOMAIN counts[s][p] = {1}
  BY <1>5, <1>6
<1>8. t.change[p] = shelf[p] - logged[p]
  BY <1>2, <1>3, <1>5, <1>6, <1>7 DEF AddsUp, SumVariance, VarianceOf
<1>9. onHand[p] = logged[p]
  BY <1>2 DEF IInv, LogExplainsStock, Logged
<1>10. shelf'[p] = shelf[p]
  BY <1>1, <1>2 DEF WriteStock, Moving
<1>11. CASE p \in t.loaded
  <2>1. Computed(t, p) /\ t.mode = "add"
    BY <1>1, <1>3, <1>11 DEF IInv, HeldInv, AddsUp
  <2>2. t.before[p] = onHand[p] /\ t.after[p] = t.before[p] + t.change[p]
    BY <1>2, <2>1 DEF Computed, Logged
  <2>3. onHand'[p] = Column(onHand[p], t.before[p], t.after[p])
    BY <1>1, <1>2, <1>11 DEF WriteStock
  <2>4. onHand'[p] = t.after[p]
    BY <2>2, <2>3 DEF Column
  <2> QED BY <1>6, <1>8, <1>9, <1>10, <2>2, <2>4
<1>12. CASE p \notin t.loaded
  <2>1. counts[s][p][1].variance = 0
    BY <1>1, <1>2, <1>3, <1>7, <1>12 DEF AddsUp, Differing
  <2>2. onHand'[p] = onHand[p]
    BY <1>1, <1>2, <1>12 DEF WriteStock
  <2> QED BY <1>5, <1>6, <1>9, <1>10, <2>1, <2>2
<1> QED BY <1>11, <1>12

\* A completed stock take leaves the quantity that is really there of every
\* product whose count nothing moved before, although sales and receipts went on.
THEOREM CountsCorrect == Spec => CountCorrects
<1>1. IInv /\ TakeInv /\ [Next]_vars =>
        [\A w \in Workers :
           CommitSession(w) /\ txn[w].of \notin contended' =>
             \A p \in exact[txn[w].of] \ (raced' \cup unlogged') : onHand'[p] = shelf'[p]]_vars
  BY SessionCorrects
<1> QED BY <1>1, StockInvariantHolds, TakeInvariantHolds, PTL DEF Spec, CountCorrects
=============================================================================
