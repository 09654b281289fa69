-------------------------------- MODULE StockInv -------------------------------
(***************************************************************************)
(* The inductive invariant of Stock.                                       *)
(***************************************************************************)
EXTENDS Stock

\* What any request under way looks like.
Shape(t) ==
  /\ t.todo \cap t.loaded = {}
  /\ t.kind = "idle" => t.todo = {} /\ t.loaded = {}
  /\ t.kind \in {"idle", "adjust", "edit", "bulk"} => t.of = Nothing
  /\ t.kind = "receive" => t.of \in Purchases /\ t.to = "received" /\ t.mode = "add"
  /\ t.kind \in {"tracked", "rollback"} => t.of \in Bulks
  /\ t.kind \in {"start_take", "count", "complete_take"} => t.of \in Takes
  /\ t.kind \in {"start_job", "complete_job"} => t.of \in Jobs
  /\ t.kind = "cancel" => t.of \in Purchases \cup Takes \cup Jobs
  /\ t.kind = "set" => t.of \in Purchases \cup Jobs
  /\ t.kind \in {"start_take", "count"} => t.todo = {}
  /\ t.kind = "complete_take" => t.to = "completed"
  /\ t.kind = "start_take" => t.to = "in_progress"
  /\ t.kind = "cancel" => t.to = "cancelled"
  /\ t.mode = "restore" => t.kind \notin Logging
  /\ t.mode = "refuse" => t.todo = {}

ShapeInv == \A w \in Workers : Shape(txn[w])

\* What a request has computed from the quantities it read, and that what it
\* read is still there unless another one held the product as well.
Computed(t, p) ==
  /\ p \notin raced => t.before[p] = onHand[p]
  /\ t.mode \in {"refuse", "add"} => t.after[p] = t.before[p] + t.change[p]
  /\ t.mode = "refuse" => t.after[p] >= 0

HeldInv ==
  \A w \in Workers : txn[w].kind # "count" => \A p \in txn[w].loaded : Computed(txn[w], p)

-----------------------------------------------------------------------------
Receiving(w, o) == txn[w].kind = "receive" /\ txn[w].of = o

Undisturbed == Purchases \ (contended \cup broken \cup overridden)

\* What a receipt still has to do is not in stock yet, unless it does so again or
\* another receipt of the order is under way, whose end will be noticed.
AwaitedInv ==
  \A o \in Undisturbed, w \in Workers : Receiving(w, o) =>
    \A p \in (txn[w].todo \cup txn[w].loaded) \ repeated[o] :
      receipts[o][p] = 0 \/ \E v \in Workers \ {w} : Receiving(v, o)

\* A line that is in stock is of an order that is closed or being received.
AccountedInv ==
  \A o \in Undisturbed, p \in Products : receipts[o][p] > 0 =>
    status[o] \in {"received", "cancelled"} \/ \E w \in Workers : Receiving(w, o)

\* What a receipt has behind it is in stock.
ArrivedInv ==
  \A w \in Workers : txn[w].kind = "receive" =>
    \A p \in Ordered(txn[w].of) \ skipped[txn[w].of] :
      p \in txn[w].todo \cup txn[w].loaded \/ receipts[txn[w].of][p] >= 1

-----------------------------------------------------------------------------
\* What a request that changes the status of a stock take has checked.
Checked(t) ==
  /\ t.seen = status[t.of]
  /\ t.kind = "complete_take" => t.seen = "in_progress"
  /\ t.kind = "start_take" => t.seen = "draft"
  /\ t.kind = "cancel" => t.seen \notin {"completed", "cancelled"}

\* It is still so, unless another request got in its way.
CheckedInv ==
  \A w \in Workers :
    txn[w].kind \in {"start_take", "complete_take", "cancel"}
      /\ txn[w].of \in Takes \ contended => Checked(txn[w])

IInv ==
  /\ TypeOK /\ ShapeInv /\ HeldInv
  /\ LogExplainsStock /\ NotBelowZero
  /\ AwaitedInv /\ AccountedInv /\ ArrivedInv /\ ReceivedOnce /\ ReceivedIsInStock
  /\ CheckedInv /\ CompletedMeansApplied

-----------------------------------------------------------------------------
(* What makes a stock take right. *)

\* The stock takes that no two requests worked on at once.
Calm == Takes \ contended

\* The products whose log accounts for their quantity.
Logged == Products \ (raced \cup unlogged)

\* A session in progress has one row per product, with the quantity that the log
\* gave when it was started; a count that nothing moved before is what the log
\* is short of.
Started(s) ==
  \A p \in Products :
    /\ Len(counts[s][p]) = 1
    /\ p \in Logged => counts[s][p][1].system = basis[s][p]
    /\ p \in exact[s] \cap Logged => counts[s][p][1].variance = shelf[p] - logged[p]

SessionSound(s) ==
  /\ status[s] = "draft" => exact[s] = {} /\ \A p \in Products : counts[s][p] = <<>>
  /\ status[s] = "in_progress" => Started(s)

\* A count under way belongs to a session in progress, still replaces what it
\* has read, and is of what is really there unless something has moved.
Counting(t) ==
  /\ status[t.of] = "in_progress" /\ t.row = 1
  /\ \A p \in t.loaded :
       /\ t.before[p] = counts[t.of][p][1].variance
       /\ t.exact /\ p \in Logged => t.after[p] = shelf[p] - logged[p]

\* A completion under way still adds what the rows say.
AddsUp(t) ==
  /\ t.mode = "add" /\ t.todo \cup t.loaded = Differing(t.of)
  /\ \A p \in Products : t.change[p] = SumVariance(counts[t.of][p])

TakeRequest(t) ==
  /\ t.kind = "start_take" => \A p \in Logged : t.before[p] = t.ledger[p]
  /\ t.kind = "count" /\ t.of \in Calm => Counting(t)
  /\ t.kind = "complete_take" /\ t.of \in Calm => AddsUp(t)

TakeInv ==
  /\ \A s \in Calm : SessionSound(s)
  /\ \A w \in Workers : TakeRequest(txn[w])
=============================================================================
