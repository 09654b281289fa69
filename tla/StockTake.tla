------------------------------- MODULE StockTake -------------------------------
(***************************************************************************)
(* Stock takes (backend/app/services/stock_take_service.py): the system's  *)
(* quantities are noted when the session starts, people count while the    *)
(* shop goes on, and at the end the variances are added to whatever the    *)
(* stock is by then.                                                       *)
(***************************************************************************)
EXTENDS StockTables

\* The quantities are read with the status; no more than two starts at once.
StartSession(w, s) ==
  /\ status[s] = "draft"
  /\ Cardinality({v \in Workers : txn[v].kind = "start_take" /\ txn[v].of = s}) < 2
  /\ Begin(w, [Opened("start_take", s, "in_progress") EXCEPT
                 !.before = onHand, !.ledger = logged])

\* One row per product.  Two starts at once leave two.
CommitStart(w) ==
  LET t == txn[w] IN
  /\ Ready(w, {"start_take"})
  /\ WriteStatus(w)
  /\ counts' = [counts EXCEPT ![t.of] =
       [p \in Products |-> Append(@[p], [system |-> t.before[p], variance |-> 0])]]
  /\ basis' = [basis EXCEPT ![t.of] = t.ledger]
  /\ NoteContention(w)
  /\ Done(w)
  /\ UNCHANGED <<onHand, snapshot, requests, logged, shelf, receipts, applied, raced,
                 broken, skipped, repeated, overridden, unlogged, signed, exact>>

\* Someone has counted what is on the shelf and enters the number; the query
\* finds any of the product's rows.
RecordCount(w, s, p, k) ==
  /\ status[s] = "in_progress"
  /\ k \in DOMAIN counts[s][p]
  /\ shelf[p] >= 0
  /\ Begin(w, [Opened("count", s, "in_progress") EXCEPT
       !.loaded = {p}, !.row = k, !.exact = (logged[p] = basis[s][p]),
       !.before[p] = counts[s][p][k].variance,
       !.after[p] = shelf[p] - counts[s][p][k].system])

\* The rows of a product, with the variance of one written.
Counted(rows, t, p) ==
  IF p \in t.loaded THEN [rows EXCEPT ![t.row].variance = Column(@, t.before[p], t.after[p])]
  ELSE rows

CommitCount(w) ==
  LET t == txn[w] IN
  /\ Ready(w, {"count"})
  /\ counts' = [counts EXCEPT ![t.of] = [p \in Products |-> Counted(@[p], t, p)]]
  /\ exact' = [exact EXCEPT ![t.of] = IF t.exact THEN @ \cup t.loaded ELSE @ \ t.loaded]
  /\ NoteContention(w)
  /\ Done(w)
  /\ UNCHANGED <<onHand, status, snapshot, requests, logged, shelf, receipts, applied,
                 raced, broken, skipped, repeated, overridden, unlogged, signed, basis>>

\* What the rows of one product, of which there are at most two, come to.
VarianceOf(rows, k) == IF k \in DOMAIN rows THEN rows[k].variance ELSE 0

\* Broken variant of SumVariance: system minus counted.
SumVarianceNegated(rows) == -(VarianceOf(rows, 1) + VarianceOf(rows, 2))

SumVariance(rows) == VarianceOf(rows, 1) + VarianceOf(rows, 2)

\* The products whose count differs from the noted quantity.
Differing(s) ==
  {p \in Products : \E k \in DOMAIN counts[s][p] : counts[s][p][k].variance # 0}

\* Broken variant of CompleteSession: the quantity becomes the number counted.
CompleteSessionOverwrites(w, s) ==
  /\ status[s] = "in_progress"
  /\ Begin(w, Changing("complete_take", s, "completed", "restore", Differing(s),
       [p \in Products |->
         IF counts[s][p] = <<>> THEN 0 ELSE counts[s][p][1].system + counts[s][p][1].variance]))

\* Broken variant of CompleteSession: a completed session is completed again.
CompleteSessionAgain(w, s) ==
  /\ status[s] \in {"in_progress", "completed"}
  /\ Begin(w, Changing("complete_take", s, "completed", "add", Differing(s),
       [p \in Products |-> SumVariance(counts[s][p])]))

CompleteSession(w, s) ==
  /\ status[s] = "in_progress"
  /\ Begin(w, Changing("complete_take", s, "completed", "add", Differing(s),
       [p \in Products |-> SumVariance(counts[s][p])]))

\* The correction of one stock take makes the counts of another obsolete.
CommitSession(w) ==
  LET t == txn[w]
      corrected == {p \in t.loaded : t.change[p] # 0}
  IN
  /\ Ready(w, {"complete_take"})
  /\ WriteStock(w)
  /\ WriteStatus(w)
  /\ applied' = [applied EXCEPT ![t.of] = @ + 1]
  /\ exact' = [s \in Takes |-> IF s = t.of THEN exact[s] ELSE exact[s] \ corrected]
  /\ NoteContention(w)
  /\ txn' = [v \in Workers |->
       CASE v = w -> Idle
         [] v # w /\ txn[v].kind = "count" /\ txn[v].loaded \cap corrected # {} ->
              [txn[v] EXCEPT !.exact = FALSE]
         [] OTHER -> txn[v]]
  /\ UNCHANGED <<counts, snapshot, requests, receipts, broken, skipped, repeated, overridden, basis>>

StockTakeNext ==
  \E w \in Workers :
    \/ \E s \in Takes : \/ StartSession(w, s)
                        \/ \E p \in Products, k \in 1 .. 2 : RecordCount(w, s, p, k)
                        \/ CompleteSession(w, s)
    \/ CommitStart(w) \/ CommitCount(w) \/ CommitSession(w)
=============================================================================
