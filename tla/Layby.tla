---------------------------------- MODULE Layby --------------------------------
(***************************************************************************)
(* Laybys (backend/app/services/layby_service.py): a deposit, installments *)
(* until the price is paid, then the goods are collected; or cancellation  *)
(* with a refund, or an extension for a fee.                               *)
(*                                                                         *)
(* Amounts are in cents.  No code sets the status "overdue".               *)
(***************************************************************************)
EXTENDS Requests, Sequences, SequencesExt

CONSTANTS
  Laybys,
  Price,           \* total_amount of each layby at first
  Deposits,        \* deposits offered
  Amounts,         \* payments offered
  Installments,    \* numbers of installment dates up to an end date
  ExtensionFee, CancellationFee, MaxExtensions    \* LaybyConfig

ASSUME LaybyAssumption ==
  /\ Price \in [Laybys -> Nat \ {0}]
  /\ Deposits \subseteq Nat /\ Amounts \subseteq Nat \ {0}
  /\ Installments \subseteq Nat \ {0}
  /\ ExtensionFee \in Nat /\ CancellationFee \in Nat /\ MaxExtensions \in Nat

LaybyStatus == {"none", "active", "ready_for_collection", "completed", "cancelled"}

ScheduleStatus == {"pending", "partial", "paid", "deleted"}

LaybyKinds == {"idle", "pay", "cancel", "collect", "extend"}

VARIABLES
  layby,        \* the row of each layby
  schedule,     \* its installments, in the order of their numbers
  next,         \* next_payment: the number of an installment, 0 for NULL
  request,      \* the request each worker is serving, with the row it loaded
  \* What the properties remember.
  received,     \* all payments of a layby
  refunds,      \* the refunds of a layby, in their order
  handedOut,    \* laybys whose goods have been collected
  met,          \* the kinds of requests that worked on a layby at once
  mixed         \* laybys extended with an installment half paid

laybyTables == <<layby, schedule, next>>
laybyGhosts == <<received, refunds, handedOut, met, mixed>>
laybyVars == <<laybyTables, request, laybyGhosts>>

Row == [status : LaybyStatus, total : Nat, paid : Nat, balance : Nat, extensions : Nat]

Installment == [due : Int, paid : Int, status : ScheduleStatus]

Request == [kind : LaybyKinds, of : Laybys, row : Row, amount : Int,
            read : BOOLEAN, rows : Seq(Installment)]

NoRow == [status |-> "none", total |-> 0, paid |-> 0, balance |-> 0, extensions |-> 0]

LaybyInit ==
  /\ layby = [l \in Laybys |-> NoRow]
  /\ schedule = [l \in Laybys |-> <<>>]
  /\ next = [l \in Laybys |-> 0]
  /\ \E l \in Laybys :
       request = [w \in Workers |-> [kind |-> "idle", of |-> l, row |-> NoRow,
                                     amount |-> 0, read |-> FALSE, rows |-> <<>>]]
  /\ received = [l \in Laybys |-> 0]
  /\ refunds = [l \in Laybys |-> <<>>]
  /\ handedOut = {}
  /\ met = [l \in Laybys |-> {}]
  /\ mixed = {}

-----------------------------------------------------------------------------
\* balance / n to the cent, a half to the even neighbour.
Quantized(balance, n) ==
  LET q == balance \div n
      r == balance % n
  IN  IF 2 * r > n \/ (2 * r = n /\ q % 2 = 1) THEN q + 1 ELSE q

\* Broken variant of NewSchedule: the last installment is like the others.
NewScheduleUneven(balance, n) ==
  [k \in 1 .. n |-> [due |-> Quantized(balance, n), paid |-> 0, status |-> "pending"]]

\* n installments for a balance; the last one takes what rounding left.
NewSchedule(balance, n) ==
  [k \in 1 .. n |->
    [due |-> IF k = n THEN balance - (n - 1) * Quantized(balance, n)
                      ELSE Quantized(balance, n),
     paid |-> 0, status |-> "pending"]]

\* Broken variant of IsOpen: a half paid installment is not looked at.
IsOpenPendingOnly(i) == i.status = "pending"

IsOpen(i) == i.status \in {"pending", "partial"}

\* What an installment takes of what is left of a payment.
Share(i, left) ==
  IF IsOpen(i) /\ left > 0 /\ i.due > i.paid
  THEN IF i.due - i.paid < left THEN i.due - i.paid ELSE left
  ELSE 0

\* What is left of a payment after the first k installments.
Left(rows, amount) ==
  LET left[k \in 0 .. Len(rows)] ==
        IF k = 0 THEN amount ELSE left[k - 1] - Share(rows[k], left[k - 1])
  IN  left

Allocated(i, share) ==
  IF share = 0 THEN i
  ELSE [i EXCEPT !.paid = @ + share,
                 !.status = IF i.paid + share >= i.due THEN "paid" ELSE "partial"]

Allocate(rows, amount) ==
  LET left == Left(rows, amount) IN
  [k \in DOMAIN rows |-> Allocated(rows[k], Share(rows[k], left[k - 1]))]

\* The first installment that is open in the table, 0 if there is none.
FirstOpen(rows) == SelectInSeq(rows, IsOpen)

-----------------------------------------------------------------------------
IsIdle(w) == request[w].kind = "idle"

IsActive(l) == layby[l].status = "active"

\* A request loads the row, with its installments, and its checks pass.  Only a
\* payment looks at those again.
Start(w, kind, l, amount) ==
  /\ IsIdle(w) /\ Count
  /\ request' = [request EXCEPT ![w] =
       [kind |-> kind, of |-> l, row |-> layby[l], amount |-> amount,
        read |-> FALSE, rows |-> IF kind = "pay" THEN schedule[l] ELSE <<>>]]
  /\ UNCHANGED <<laybyTables, laybyGhosts>>

EndRequest(w) ==
  /\ request' = [request EXCEPT ![w].kind = "idle"]
  /\ UNCHANGED requests

\* Remembers which requests hold a copy of the row that is being written.
NoteMeeting(w) ==
  met' = [met EXCEPT ![request[w].of] = @ \cup Meetings(request, w)]

\* Broken variant of CreateLayby: the deposit is not counted as paid.
CreateLaybyUncounted(l, deposit, n) ==
  LET balance == Price[l] - deposit IN
  /\ Count
  /\ layby[l].status = "none"
  /\ deposit <= Price[l]
  /\ layby' = [layby EXCEPT ![l] =
       [status |-> "active", total |-> Price[l], paid |-> 0,
        balance |-> balance, extensions |-> 0]]
  /\ schedule' = [schedule EXCEPT ![l] = NewSchedule(balance, n)]
  /\ next' = [next EXCEPT ![l] = 1]
  /\ received' = [received EXCEPT ![l] = deposit]
  /\ UNCHANGED <<request, refunds, handedOut, met, mixed>>

\* One commit: the row, the installments, the deposit.
CreateLayby(l, deposit, n) ==
  LET balance == Price[l] - deposit IN
  /\ Count
  /\ layby[l].status = "none"
  /\ deposit <= Price[l]
  /\ layby' = [layby EXCEPT ![l] =
       [status |-> "active", total |-> Price[l], paid |-> deposit,
        balance |-> balance, extensions |-> 0]]
  /\ schedule' = [schedule EXCEPT ![l] = NewSchedule(balance, n)]
  /\ next' = [next EXCEPT ![l] = 1]
  /\ received' = [received EXCEPT ![l] = deposit]
  /\ UNCHANGED <<request, refunds, handedOut, met, mixed>>

\* Broken variant of MakePayment: the amount is not compared with the balance.
MakePaymentUnchecked(w, l, amount) ==
  /\ IsActive(l) /\ layby[l].balance > 0
  /\ Start(w, "pay", l, amount)

MakePayment(w, l, amount) ==
  /\ IsActive(l) /\ layby[l].balance > 0
  /\ amount <= layby[l].balance
  /\ Start(w, "pay", l, amount)

\* What a query for the open installments gives a session that has loaded some:
\* the rows that are open in the table, with the amounts they were loaded with.
Queried(rows, loaded) ==
  [k \in DOMAIN rows |-> IF IsOpen(rows[k]) /\ k \in DOMAIN loaded THEN loaded[k] ELSE rows[k]]

\* The open installments are found by a later query.
ReadSchedule(w) ==
  /\ request[w].kind = "pay" /\ ~request[w].read
  /\ request' = [request EXCEPT ![w].read = TRUE,
                               ![w].rows = Queried(schedule[request[w].of], @)]
  /\ UNCHANGED <<laybyTables, requests, laybyGhosts>>

\* The installments a payment writes into: columns that differ from what was read.
PaidInto(current, read, new) ==
  [k \in DOMAIN current |->
    IF k \notin DOMAIN read THEN current[k]
    ELSE [due    |-> current[k].due,
          paid   |-> Written(current[k].paid, read[k].paid, new[k].paid),
          status |-> Written(current[k].status, read[k].status, new[k].status)]]

\* The UPDATE of an installment that was deleted meanwhile matches no row: the
\* commit fails.  The next installment is looked up before the statuses are
\* flushed, among those that were open before this payment.
CommitPayment(w) ==
  LET r == request[w]
      l == r.of
      new == Allocate(r.rows, r.amount)
      balance == r.row.balance - r.amount
  IN
  /\ r.kind = "pay" /\ r.read
  /\ \A k \in DOMAIN new : new[k] # r.rows[k] => schedule[l][k].status # "deleted"
  /\ layby' = [layby EXCEPT
       ![l].paid = r.row.paid + r.amount,
       ![l].balance = balance,
       ![l].status = IF balance <= 0 THEN "ready_for_collection" ELSE @]
  /\ schedule' = [schedule EXCEPT ![l] = PaidInto(@, r.rows, new)]
  /\ next' = [next EXCEPT ![l] = FirstOpen(schedule[l])]
  /\ received' = [received EXCEPT ![l] = @ + r.amount]
  /\ NoteMeeting(w)
  /\ EndRequest(w)
  /\ UNCHANGED <<refunds, handedOut, mixed>>

-----------------------------------------------------------------------------
\* Broken variant of CancelLayby: cancelled again, a refund again.
CancelLaybyAgain(w, l) ==
  /\ layby[l].status \notin {"none", "completed"}
  /\ Start(w, "cancel", l, 0)

CancelLayby(w, l) ==
  /\ layby[l].status \notin {"none", "completed", "cancelled"}
  /\ Start(w, "cancel", l, 0)

\* The refund is what was paid, less the fee, and never negative.
Refund(paid) == IF paid > CancellationFee THEN paid - CancellationFee ELSE 0

\* The open installments are marked paid.
CommitCancel(w) ==
  LET r == request[w]
      l == r.of
  IN
  /\ r.kind = "cancel"
  /\ layby' = [layby EXCEPT ![l].status = "cancelled"]
  /\ schedule' = [schedule EXCEPT ![l] =
       [k \in DOMAIN @ |-> IF IsOpen(@[k]) THEN [@[k] EXCEPT !.status = "paid"] ELSE @[k]]]
  /\ next' = [next EXCEPT ![l] = 0]
  /\ refunds' = [refunds EXCEPT ![l] =
       IF Refund(r.row.paid) > 0 THEN Append(@, Refund(r.row.paid)) ELSE @]
  /\ NoteMeeting(w)
  /\ EndRequest(w)
  /\ UNCHANGED <<received, handedOut, mixed>>

\* Broken variant of CollectLayby: only what is over is refused.
CollectLaybyUnpaid(w, l) ==
  /\ layby[l].status \in {"active", "ready_for_collection"}
  /\ Start(w, "collect", l, 0)

CollectLayby(w, l) ==
  /\ layby[l].status = "ready_for_collection"
  /\ Start(w, "collect", l, 0)

CommitCollect(w) ==
  LET l == request[w].of IN
  /\ request[w].kind = "collect"
  /\ layby' = [layby EXCEPT ![l].status = "completed"]
  /\ handedOut' = handedOut \cup {l}
  /\ NoteMeeting(w)
  /\ EndRequest(w)
  /\ UNCHANGED <<schedule, next, received, refunds, mixed>>

ExtendLayby(w, l, n) ==
  /\ IsActive(l)
  /\ layby[l].extensions < MaxExtensions
  /\ Start(w, "extend", l, n)

\* Broken variant of CommitExtend: the fee is not part of the balance.
CommitExtendFree(w) ==
  LET r == request[w]
      l == r.of
      balance == r.row.balance + ExtensionFee
      kept == [k \in DOMAIN schedule[l] |->
                IF schedule[l][k].status = "pending"
                THEN [schedule[l][k] EXCEPT !.status = "deleted"] ELSE schedule[l][k]]
  IN
  /\ r.kind = "extend"
  /\ layby' = [layby EXCEPT
       ![l].total = Written(@, r.row.total, r.row.total + ExtensionFee),
       ![l].extensions = r.row.extensions + 1]
  /\ schedule' = [schedule EXCEPT ![l] =
       IF balance > 0 THEN kept \o NewSchedule(balance, r.amount) ELSE kept]
  /\ next' = [next EXCEPT ![l] = IF balance > 0 THEN Len(kept) + 1 ELSE @]
  /\ mixed' = mixed \cup {m \in {l} : \E k \in DOMAIN kept : kept[k].status = "partial"}
  /\ NoteMeeting(w)
  /\ EndRequest(w)
  /\ UNCHANGED <<received, refunds, handedOut>>

\* Installments that nothing was paid into are deleted, and the whole balance is
\* spread over new ones.
CommitExtend(w) ==
  LET r == request[w]
      l == r.of
      balance == r.row.balance + ExtensionFee
      kept == [k \in DOMAIN schedule[l] |->
                IF schedule[l][k].status = "pending"
                THEN [schedule[l][k] EXCEPT !.status = "deleted"] ELSE schedule[l][k]]
  IN
  /\ r.kind = "extend"
  /\ layby' = [layby EXCEPT
       ![l].total = Written(@, r.row.total, r.row.total + ExtensionFee),
       ![l].balance = Written(@, r.row.balance, balance),
       ![l].extensions = r.row.extensions + 1]
  /\ schedule' = [schedule EXCEPT ![l] =
       IF balance > 0 THEN kept \o NewSchedule(balance, r.amount) ELSE kept]
  /\ next' = [next EXCEPT ![l] = IF balance > 0 THEN Len(kept) + 1 ELSE @]
  /\ mixed' = mixed \cup {m \in {l} : \E k \in DOMAIN kept : kept[k].status = "partial"}
  /\ NoteMeeting(w)
  /\ EndRequest(w)
  /\ UNCHANGED <<received, refunds, handedOut>>

\* An exception, a deadlock resolved by the database, or the death of the worker.
AbandonRequest(w) ==
  /\ ~IsIdle(w)
  /\ EndRequest(w)
  /\ UNCHANGED <<laybyTables, laybyGhosts>>

LaybyNext ==
  \/ \E l \in Laybys, d \in Deposits, n \in Installments : CreateLayby(l, d, n)
  \/ \E w \in Workers :
       \/ \E l \in Laybys : \/ \E a \in Amounts : MakePayment(w, l, a)
                            \/ \E n \in Installments : ExtendLayby(w, l, n)
                            \/ CancelLayby(w, l)
                            \/ CollectLayby(w, l)
       \/ ReadSchedule(w) \/ CommitPayment(w)
       \/ CommitCancel(w) \/ CommitCollect(w) \/ CommitExtend(w)
       \/ AbandonRequest(w)

LaybyTypeOK ==
  /\ layby \in [Laybys -> Row]
  /\ schedule \in [Laybys -> Seq(Installment)]
  /\ next \in [Laybys -> Nat]
  /\ request \in [Workers -> Request]
  /\ received \in [Laybys -> Nat]
  /\ refunds \in [Laybys -> Seq(Nat)]
  /\ handedOut \subseteq Laybys
  /\ met \in [Laybys -> SUBSET SUBSET LaybyKinds]
  /\ mixed \subseteq Laybys

-----------------------------------------------------------------------------
\* What was paid and what is due make up the price, fees included, unless an
\* extension and a payment overlapped: two payments at once lose one of the two,
\* in both columns alike.
BalanceAddsUp ==
  \A l \in Laybys : {"pay", "extend"} \notin met[l] =>
    layby[l].paid + layby[l].balance = layby[l].total

\* amount_paid is what the customer has paid, unless two payments overlapped,
\* and never more than that.
PaidIsReceived ==
  \A l \in Laybys :
    /\ layby[l].paid <= received[l]
    /\ {"pay"} \notin met[l] => layby[l].paid = received[l]

\* Goods that were handed out have been paid for in full, fees included, unless
\* an extension overlapped with a payment; overlapping payments cost the
\* customer, not the shop.
CollectedIsPaid ==
  \A l \in handedOut : {"pay", "extend"} \notin met[l] => received[l] >= layby[l].total

\* A layby is refunded once at the most, for no more than was paid, and not
\* if its goods are handed out, unless a cancellation overlapped with another
\* one, a collection or a payment, or two payments overlapped: the later of two
\* last payments makes a layby ready that has been collected.
GoodsOrMoney ==
  \A l \in Laybys :
    met[l] \cap {{"cancel"}, {"cancel", "collect"}, {"cancel", "pay"}, {"pay"}} = {} =>
      /\ Len(refunds[l]) <= 1
      /\ refunds[l] # <<>> => refunds[l][1] <= received[l] /\ l \notin handedOut

\* What the installments still ask for.
Outstanding(rows) ==
  LET sum[k \in 0 .. Len(rows)] ==
        IF k = 0 THEN 0
        ELSE sum[k - 1] + IF rows[k].status = "deleted" THEN 0 ELSE rows[k].due - rows[k].paid
  IN  sum[Len(rows)]

\* The installments of a layby that is not over add up to its balance, however
\* they were rounded, unless requests overlapped or it was extended with an
\* installment half paid, whose rest is then scheduled twice.
ScheduleCoversBalance ==
  \A l \in Laybys \ mixed :
    met[l] = {} /\ layby[l].status \in {"active", "ready_for_collection"} =>
      Outstanding(schedule[l]) = layby[l].balance

\* As long as something is due, the layby names a next installment, and none
\* before it has anything left to pay: looked up among the rows as they were
\* before the payment, it may be one just paid but never skips one that is owed.
NextSkipsNothing ==
  \A l \in Laybys \ mixed :
    met[l] = {} /\ IsActive(l) /\ layby[l].balance > 0 =>
      /\ next[l] \in DOMAIN schedule[l]
      /\ \A k \in 1 .. next[l] - 1 :
           LET i == schedule[l][k] IN i.status # "deleted" => i.due <= i.paid
=============================================================================
