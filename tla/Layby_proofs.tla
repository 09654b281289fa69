------------------------------ MODULE Layby_proofs -----------------------------
(***************************************************************************)
(* What Counter_proofs needs to know of Layby: an invariant of the money   *)
(* of the laybys, and that LaybyNext preserves it.                         *)
(***************************************************************************)
EXTENDS Layby, SequenceTheorems, WellFoundedInduction, TLAPS

\* A layby that is paid, whose goods are handed out or about to be.
Settled(l) ==
  \/ layby[l].status \in {"ready_for_collection", "completed"}
  \/ l \in handedOut
  \/ \E w \in Workers : request[w].kind = "collect" /\ request[w].of = l

\* No two requests have met that may do each other harm: GoodsOrMoney.
Clean(l) == met[l] \cap {{"cancel"}, {"cancel", "collect"}, {"cancel", "pay"}, {"pay"}} = {}

Extended(l) == {"pay", "extend"} \in met[l]

\* The money of a layby.
LaybySound(l) ==
  /\ ~Extended(l) => layby[l].paid + layby[l].balance = layby[l].total
  /\ layby[l].paid <= received[l]
  /\ {"pay"} \notin met[l] => layby[l].paid = received[l]
  /\ Settled(l) => layby[l].status \notin {"none", "active"}
  /\ Settled(l) /\ ~Extended(l) => received[l] >= layby[l].total
  /\ Clean(l) /\ refunds[l] # <<>> =>
       layby[l].status = "cancelled" /\ Len(refunds[l]) <= 1 /\ refunds[l][1] <= received[l]
  /\ Clean(l) /\ l \in handedOut => layby[l].status = "completed"
  /\ layby[l].status = "none" => refunds[l] = <<>>

\* What a request under way has checked, and what still holds of the row it
\* loaded unless another request that held the row has been committed.
RequestSound(r) ==
  LET l == r.of IN
  /\ layby[l].status # "none" /\ r.row.paid <= received[l]
  /\ r.kind = "pay" =>
       /\ 0 < r.amount /\ r.amount <= r.row.balance
       /\ {"pay"} \notin met[l] => r.row.paid = layby[l].paid
       /\ ~Extended(l) => r.row.paid + r.row.balance = layby[l].total
       /\ Clean(l) => layby[l].status = "active"
  /\ r.kind = "extend" =>
       /\ r.amount > 0
       /\ ~Extended(l) => /\ r.row.paid + r.row.balance = r.row.total
                          /\ r.row.paid = layby[l].paid /\ ~Settled(l)
  /\ r.kind = "collect" /\ Clean(l) => layby[l].status \in {"ready_for_collection", "completed"}
  /\ r.kind = "cancel" /\ Clean(l) => layby[l].status \in {"active", "ready_for_collection"}

LaybyInv ==
  /\ LaybyTypeOK
  /\ \A l \in Laybys : LaybySound(l)
  /\ \A w \in Workers : request[w].kind # "idle" => RequestSound(request[w])

-----------------------------------------------------------------------------
(* The helpers of the schedule. *)

\* A set of natural numbers that is not empty has a least element.
LEMMA Least ==
  ASSUME NEW S \in SUBSET Nat, S # {}
  PROVE  \E m \in S : \A k \in S : m <= k
<1> DEFINE R == OpToRel(<, Nat)
<1>1. IsWellFoundedOn(R, Nat)
  BY NatLessThanWellFounded
<1>2. \A x, y \in Nat : <<x, y>> \in R <=> x < y
  BY DEF OpToRel
<1> HIDE DEF R
<1>3. PICK m \in S : \A y \in S : ~(<<y, m>> \in R)
  BY <1>1, WFMin
<1>4. \A k \in S : k \in Nat /\ m \in Nat
  OBVIOUS
<1>5. \A k \in S : ~(k < m)
  BY <1>2, <1>3, <1>4
<1>6. \A k \in S : m <= k
  BY <1>4, <1>5
<1> QED BY <1>6


LEMMA FirstOpenTyped ==
  ASSUME NEW rows \in Seq(Installment)
  PROVE  FirstOpen(rows) \in Nat
<1> DEFINE I == {i \in 1 .. Len(rows) : IsOpen(rows[i])}
<1>1. FirstOpen(rows) = IF I # {} THEN Min(I) ELSE 0
  BY DEF FirstOpen, SelectInSeq
<1>2. I \in SUBSET Nat
  BY LenProperties
<1> HIDE DEF I
<1>3. ASSUME I # {}
      PROVE  Min(I) \in Nat
  <2>1. \E m \in I : \A k \in I : m <= k
    BY <1>2, <1>3, Least
  <2>2. Min(I) \in I
    BY <2>1 DEF Min
  <2> QED BY <1>2, <2>2
<1> QED BY <1>1, <1>3

LEMMA ScheduleTyped ==
  ASSUME NEW balance \in Nat, NEW n \in Nat \ {0}
  PROVE  NewSchedule(balance, n) \in Seq(Installment)
<1> DEFINE q == Quantized(balance, n)
<1>1. q \in Int
  <2>1. balance \div n \in Int
    OBVIOUS
  <2> QED BY <2>1 DEF Quantized
<1> HIDE DEF q
<1>2. \A k \in 1 .. n : (IF k = n THEN balance - (n - 1) * q ELSE q) \in Int
  <2>1. (n - 1) * q \in Int
    BY <1>1
  <2> QED BY <1>1, <2>1
<1>3. \A k \in 1 .. n : [due |-> IF k = n THEN balance - (n - 1) * q ELSE q,
                         paid |-> 0, status |-> "pending"] \in Installment
  BY <1>2 DEF Installment, ScheduleStatus
<1>4. NewSchedule(balance, n) =
        [k \in 1 .. n |-> [due |-> IF k = n THEN balance - (n - 1) * q ELSE q,
                           paid |-> 0, status |-> "pending"]]
  BY DEF NewSchedule, q
<1>5. NewSchedule(balance, n) \in [1 .. n -> Installment]
  BY <1>3, <1>4
<1> QED BY <1>5

\* What is left of a payment is defined for every installment: were there an
\* installment for which it is not, consider the first.
LEMMA LeftTyped ==
  ASSUME NEW rows \in Seq(Installment), NEW amount \in Int
  PROVE  /\ Left(rows, amount) \in [0 .. Len(rows) -> Int]
         /\ Left(rows, amount)[0] = amount
         /\ \A k \in 1 .. Len(rows) :
              Left(rows, amount)[k] =
                Left(rows, amount)[k - 1] - Share(rows[k], Left(rows, amount)[k - 1])
<1> DEFINE n == Len(rows)
           Is(f, m) == f = [k \in 0 .. m |-> IF k = 0 THEN amount
                                            ELSE f[k - 1] - Share(rows[k], f[k - 1])]
           Bad == {m \in 0 .. n : ~ \E f \in [0 .. m -> Int] : Is(f, m)}
<1>1. n \in Nat /\ \A k \in 1 .. n : rows[k].due \in Int /\ rows[k].paid \in Int
  <2>1. n \in Nat /\ \A k \in 1 .. n : rows[k] \in Installment
    BY ElementOfSeq, LenProperties
  <2> QED BY <2>1 DEF Installment
<1>2. \A k \in 1 .. n, x \in Int : x - Share(rows[k], x) \in Int
  BY <1>1 DEF Share
<1>3. Bad = {}
  <2>1. SUFFICES ASSUME Bad # {} PROVE FALSE
    OBVIOUS
  <2>2. Bad \in SUBSET Nat
    BY <1>1
  <2>3. PICK m \in Bad : \A k \in Bad : m <= k
    BY <2>1, <2>2, Least
  <2>4. m \in 0 .. n /\ ~ \E f \in [0 .. m -> Int] : Is(f, m)
    BY <2>3
  <2>5. m # 0
    <3>1. SUFFICES ASSUME m = 0 PROVE FALSE
      OBVIOUS
    <3> DEFINE f == [k \in 0 .. 0 |-> amount]
    <3>2. Is(f, 0) /\ f \in [0 .. 0 -> Int]
      OBVIOUS
    <3> QED BY <2>4, <3>1, <3>2
  <2>6. m - 1 \in 0 .. n /\ m - 1 \notin Bad
    <3>1. m - 1 \in 0 .. n /\ ~(m <= m - 1)
      BY <1>1, <2>4, <2>5
    <3> HIDE DEF Bad
    <3> QED BY <2>3, <3>1
  <2>7. PICK g \in [0 .. m - 1 -> Int] : Is(g, m - 1)
    BY <2>6
  <2> DEFINE last == g[m - 1] - Share(rows[m], g[m - 1])
             h == [k \in 0 .. m |-> IF k = m THEN last ELSE g[k]]
  <2>8. last \in Int /\ m \in 1 .. n /\ m - 1 \in 0 .. m - 1
    <3>1. m \in 1 .. n /\ m - 1 \in 0 .. m - 1
      BY <1>1, <2>4, <2>5
    <3>2. g[m - 1] \in Int
      BY <2>7, <3>1
    <3> QED BY <1>2, <3>1, <3>2
  <2>9. h \in [0 .. m -> Int]
    <3> HIDE DEF last
    <3>1. \A k \in 0 .. m : k # m => k \in 0 .. m - 1
      BY <1>1, <2>4
    <3> QED BY <2>7, <2>8, <3>1
  <2>10. \A k \in 0 .. m - 1 : h[k] = g[k] /\ g[k] = IF k = 0 THEN amount
                                                    ELSE g[k - 1] - Share(rows[k], g[k - 1])
    BY <1>1, <2>4, <2>7
  <2>11. \A k \in 0 .. m : h[k] = IF k = 0 THEN amount ELSE h[k - 1] - Share(rows[k], h[k - 1])
    <3>1. TAKE k \in 0 .. m
    <3>2. CASE k = m
      <4>1. h[m - 1] = g[m - 1] /\ h[m] = last
        BY <2>4, <2>8, <2>10
      <4> QED BY <2>5, <3>2, <4>1
    <3>3. CASE k # m
      <4>1. k \in 0 .. m - 1 /\ (k # 0 => k - 1 \in 0 .. m - 1)
        BY <1>1, <3>3, <2>4
      <4> QED BY <2>10, <4>1
    <3> QED BY <3>2, <3>3
  <2>12. Is(h, m)
    <3> HIDE DEF h
    <3>1. h = [k \in 0 .. m |-> h[k]]
      BY DEF h
    <3> QED BY <3>1, <2>11
  <2> HIDE DEF h
  <2> QED BY <2>4, <2>9, <2>12
<1>4. PICK f \in [0 .. n -> Int] : Is(f, n)
  BY <1>1, <1>3
<1> DEFINE left == CHOOSE g : Is(g, n)
<1>5. Left(rows, amount) = left
  BY DEF Left
<1>6. Is(left, n)
  <2> HIDE DEF Is
  <2> QED BY <1>4
<1>7. \A k \in 0 .. n : left[k] = IF k = 0 THEN amount ELSE left[k - 1] - Share(rows[k], left[k - 1])
  <2> HIDE DEF left
  <2> QED BY <1>6
<1>8. left = [k \in 0 .. n |-> left[k]]
  <2> HIDE DEF left
  <2> QED BY <1>6
<1> HIDE DEF left, Is, Bad
<1>9. \A k \in 0 .. n : left[k] \in Int
  <2> DEFINE Odd == {k \in 0 .. n : left[k] \notin Int}
  <2>1. SUFFICES ASSUME Odd # {} PROVE FALSE
    OBVIOUS
  <2>2. Odd \in SUBSET Nat
    BY <1>1
  <2>3. PICK m \in Odd : \A k \in Odd : m <= k
    BY <2>1, <2>2, Least
  <2>4. m # 0 /\ m \in 0 .. n /\ left[m] \notin Int
    BY <1>1, <1>7, <2>3
  <2>5. m - 1 \in 0 .. n /\ m \in 1 .. n /\ m - 1 \notin Odd
    BY <1>1, <2>3, <2>4
  <2>6. left[m - 1] \in Int
    BY <2>5
  <2>7. left[m] = left[m - 1] - Share(rows[m], left[m - 1])
    BY <1>7, <2>4
  <2> QED BY <1>2, <2>4, <2>5, <2>6, <2>7
<1>10. left[0] = amount /\ \A k \in 1 .. n : left[k] = left[k - 1] - Share(rows[k], left[k - 1])
  BY <1>1, <1>7
<1> QED BY <1>5, <1>8, <1>9, <1>10

LEMMA AllocateTyped ==
  ASSUME NEW rows \in Seq(Installment), NEW amount \in Int
  PROVE  Allocate(rows, amount) \in [DOMAIN rows -> Installment]
<1> DEFINE left == Left(rows, amount)
<1>1. left \in [0 .. Len(rows) -> Int] /\ DOMAIN rows = 1 .. Len(rows) /\ Len(rows) \in Nat
  BY LeftTyped, LenProperties
<1> HIDE DEF left
<1>2. ASSUME NEW i \in Installment, NEW share \in Int
      PROVE  Allocated(i, share) \in Installment
  <2> DEFINE p == i.paid + share
             s == IF p >= i.due THEN "paid" ELSE "partial"
  <2>1. p \in Int /\ s \in ScheduleStatus
    BY DEF Installment, ScheduleStatus
  <2>2. Allocated(i, share) = IF share = 0 THEN i ELSE [i EXCEPT !.paid = p, !.status = s]
    BY DEF Allocated
  <2> HIDE DEF p, s
  <2>3. [i EXCEPT !.paid = p, !.status = s] \in Installment
    BY <2>1 DEF Installment
  <2> QED BY <2>2, <2>3
<1>3. ASSUME NEW k \in DOMAIN rows
      PROVE  Allocated(rows[k], Share(rows[k], left[k - 1])) \in Installment
  <2>1. rows[k] \in Installment /\ left[k - 1] \in Int
    <3>1. k - 1 \in 0 .. Len(rows) /\ k \in 1 .. Len(rows)
      BY <1>1
    <3> QED BY <1>1, <3>1, ElementOfSeq
  <2>2. Share(rows[k], left[k - 1]) \in Int
    BY <2>1 DEF Share, Installment
  <2> QED BY <1>2, <2>1, <2>2
<1>4. Allocate(rows, amount) = [k \in DOMAIN rows |-> Allocated(rows[k], Share(rows[k], left[k - 1]))]
  BY DEF Allocate, left
<1> QED BY <1>3, <1>4

LEMMA PaidIntoTyped ==
  ASSUME NEW current \in Seq(Installment), NEW read \in Seq(Installment),
         NEW new \in [DOMAIN read -> Installment]
  PROVE  PaidInto(current, read, new) \in Seq(Installment)
<1> DEFINE row(k) ==
      IF k \notin DOMAIN read THEN current[k]
      ELSE [due    |-> current[k].due,
            paid   |-> Written(current[k].paid, read[k].paid, new[k].paid),
            status |-> Written(current[k].status, read[k].status, new[k].status)]
<1>1. DOMAIN current = 1 .. Len(current) /\ Len(current) \in Nat
  BY LenProperties
<1>2. ASSUME NEW k \in DOMAIN current
      PROVE  row(k) \in Installment
  <2>1. current[k] \in Installment
    BY <1>1, ElementOfSeq
  <2>2. k \in DOMAIN read => read[k] \in Installment /\ new[k] \in Installment
    BY ElementOfSeq, LenProperties
  <2> QED BY <2>1, <2>2 DEF Installment, Written
<1>3. PaidInto(current, read, new) = [k \in DOMAIN current |-> row(k)]
  BY DEF PaidInto
<1> HIDE DEF row
<1>4. PaidInto(current, read, new) \in [1 .. Len(current) -> Installment]
  BY <1>1, <1>2, <1>3
<1> QED BY <1>1, <1>4

-----------------------------------------------------------------------------
(* The rows and the requests. *)

LEMMA RowFields ==
  ASSUME LaybyTypeOK
  PROVE  /\ \A l \in Laybys :
              /\ layby[l] \in Row /\ layby[l].status \in LaybyStatus /\ layby[l].total \in Nat
              /\ layby[l].paid \in Nat /\ layby[l].balance \in Nat
              /\ layby[l].extensions \in Nat /\ received[l] \in Nat
         /\ \A w \in Workers :
              /\ request[w] \in Request /\ request[w].kind \in LaybyKinds
              /\ request[w].of \in Laybys /\ request[w].amount \in Int
              /\ request[w].row \in Row /\ request[w].rows \in Seq(Installment)
              /\ request[w].row.total \in Nat /\ request[w].row.paid \in Nat
              /\ request[w].row.balance \in Nat /\ request[w].row.extensions \in Nat
BY DEF LaybyTypeOK, Row, Request

LEMMA Ended ==
  ASSUME LaybyTypeOK, NEW w \in Workers, EndRequest(w)
  PROVE  /\ request' \in [Workers -> Request] /\ request'[w].kind = "idle"
         /\ \A v \in Workers \ {w} : request'[v] = request[v]
<1> DEFINE r == request[w]
           u == [r EXCEPT !.kind = "idle"]
<1>1. r \in Request
  BY DEF LaybyTypeOK
<1>2. request' = [request EXCEPT ![w] = u]
  BY DEF EndRequest
<1> HIDE DEF r
<1>3. u \in Request /\ u.kind = "idle"
  BY <1>1 DEF Request, LaybyKinds
<1> HIDE DEF u
<1> QED BY <1>2, <1>3 DEF LaybyTypeOK

\* Whom a commit meets.
LEMMA Noted ==
  ASSUME LaybyTypeOK, NEW w \in Workers, NoteMeeting(w)
  PROVE  /\ met' \in [Laybys -> SUBSET SUBSET LaybyKinds]
         /\ \A m \in Laybys \ {request[w].of} : met'[m] = met[m]
         /\ met[request[w].of] \subseteq met'[request[w].of]
         /\ \A v \in Workers \ {w} :
              request[v].kind # "idle" /\ request[v].of = request[w].of =>
                {request[w].kind, request[v].kind} \in met'[request[w].of]
<1> DEFINE l == request[w].of
           M == Meetings(request, w)
<1>0. l \in Laybys /\ \A v \in Workers : request[v].kind \in LaybyKinds
  BY RowFields
<1>1. M \in SUBSET SUBSET LaybyKinds
  BY <1>0 DEF Meetings
<1>2. \A v \in Workers \ {w} :
        request[v].kind # "idle" /\ request[v].of = l => {request[w].kind, request[v].kind} \in M
  BY DEF Meetings
<1>3. met' = [met EXCEPT ![l] = @ \cup M] /\ met \in [Laybys -> SUBSET SUBSET LaybyKinds]
  BY DEF NoteMeeting, LaybyTypeOK
<1> HIDE DEF M, l
<1>4. /\ met' \in [Laybys -> SUBSET SUBSET LaybyKinds] /\ met'[l] = met[l] \cup M
      /\ \A m \in Laybys \ {l} : met'[m] = met[m]
  BY <1>0, <1>1, <1>3
<1> QED BY <1>2, <1>4 DEF l

\* A step that leaves the tables alone: the requests under way must be sound.
LEMMA TablesKept ==
  ASSUME LaybyInv, LaybyTypeOK', UNCHANGED <<layby, received, refunds, handedOut, met>>,
         \A v \in Workers : request'[v].kind # "idle" => RequestSound(request'[v]),
         \A v \in Workers : request'[v].kind = "collect" => Settled(request'[v].of)
  PROVE  LaybyInv'
<1>1. ASSUME NEW m \in Laybys, Settled(m)'
      PROVE  Settled(m)
  BY <1>1 DEF Settled
<1>2. ASSUME NEW m \in Laybys
      PROVE  LaybySound(m)'
  <2>1. LaybySound(m) /\ (Settled(m)' => Settled(m))
    BY <1>1 DEF LaybyInv
  <2>2. (Clean(m)' <=> Clean(m)) /\ (Extended(m)' <=> Extended(m))
    BY DEF Clean, Extended
  <2> QED BY <2>1, <2>2 DEF LaybySound
<1>3. ASSUME NEW v \in Workers, request'[v].kind # "idle"
      PROVE  RequestSound(request[v])'
  <2>1. RequestSound(request'[v]) /\ request'[v].of \in Laybys
    <3>1. request'[v].of \in Laybys
      BY DEF LaybyTypeOK, Request
    <3> QED BY <1>3, <3>1
  <2>2. \A m \in Laybys : /\ (Clean(m)' <=> Clean(m)) /\ (Extended(m)' <=> Extended(m))
                          /\ Settled(m)' => Settled(m)
    BY <1>1 DEF Clean, Extended
  <2> QED BY <2>1, <2>2 DEF RequestSound
<1> QED BY <1>2, <1>3 DEF LaybyInv

LEMMA Begun ==
  ASSUME LaybyInv, NEW w \in Workers, NEW l \in Laybys, NEW amount \in Int,
         NEW kind \in LaybyKinds \ {"idle"}, Start(w, kind, l, amount),
         layby[l].status # "none",
         kind = "pay" => layby[l].status = "active" /\ 0 < amount /\ amount <= layby[l].balance,
         kind = "extend" => layby[l].status = "active" /\ amount > 0,
         kind = "collect" => layby[l].status = "ready_for_collection",
         kind = "cancel" => layby[l].status \in {"active", "ready_for_collection"}
  PROVE  LaybyInv'
<1>0. LaybyTypeOK /\ LaybySound(l) /\ layby[l] \in Row
  BY RowFields DEF LaybyInv
<1> DEFINE r == [kind |-> kind, of |-> l, row |-> layby[l], amount |-> amount,
                 read |-> FALSE, rows |-> IF kind = "pay" THEN schedule[l] ELSE <<>>]
<1>1. r \in Request /\ r.kind = kind /\ r.of = l /\ r.row = layby[l] /\ r.amount = amount
  <2>1. (IF kind = "pay" THEN schedule[l] ELSE <<>>) \in Seq(Installment)
    BY <1>0 DEF LaybyTypeOK
  <2> QED BY <1>0, <2>1 DEF Request
<1>2. /\ request' = [request EXCEPT ![w] = r]
      /\ UNCHANGED <<laybyTables, laybyGhosts>>
  BY DEF Start
<1> HIDE DEF r
<1>3. /\ LaybyTypeOK' /\ request'[w] = r
      /\ \A v \in Workers \ {w} : request'[v] = request[v]
  BY <1>0, <1>1, <1>2 DEF LaybyTypeOK, laybyTables, laybyGhosts
<1>4. RequestSound(r)
  BY <1>0, <1>1, RowFields DEF RequestSound, LaybySound
<1>5. ASSUME NEW v \in Workers, request'[v].kind # "idle"
      PROVE  RequestSound(request'[v])
  BY <1>3, <1>4, <1>5 DEF LaybyInv
<1>6. ASSUME NEW v \in Workers, request'[v].kind = "collect"
      PROVE  Settled(request'[v].of)
  <2>1. CASE v = w
    BY <1>1, <1>3, <1>6, <2>1 DEF Settled
  <2>2. CASE v # w
    BY <1>3, <1>6, <2>2 DEF Settled
  <2> QED BY <2>1, <2>2
<1> QED BY <1>2, <1>3, <1>5, <1>6, TablesKept DEF laybyTables, laybyGhosts

\* What is left to show of a commit: what becomes of its layby and of the
\* requests that hold the same one.
LEMMA CommitWritten ==
  ASSUME LaybyInv, LaybyTypeOK', NEW w \in Workers, NoteMeeting(w), EndRequest(w),
         NEW l \in Laybys, l = request[w].of,
         \A m \in Laybys \ {l} : /\ layby'[m] = layby[m] /\ received'[m] = received[m]
                                 /\ refunds'[m] = refunds[m]
                                 /\ m \in handedOut' => m \in handedOut,
         LaybySound(l)',
         \A v \in Workers \ {w} : request[v].kind # "idle" /\ request[v].of = l =>
           RequestSound(request[v])'
  PROVE  LaybyInv'
<1>0. LaybyTypeOK
  BY DEF LaybyInv
<1>1. /\ request'[w].kind = "idle"
      /\ \A v \in Workers \ {w} : request'[v] = request[v]
  BY <1>0, Ended
<1>2. \A m \in Laybys \ {l} : met'[m] = met[m]
  BY <1>0, Noted
<1>3. ASSUME NEW m \in Laybys \ {l}
      PROVE  /\ Settled(m)' => Settled(m)
             /\ (Clean(m)' <=> Clean(m)) /\ (Extended(m)' <=> Extended(m))
  <2>1. Settled(m)' => Settled(m)
    BY <1>1 DEF Settled
  <2> QED BY <1>2, <2>1 DEF Clean, Extended
<1>4. ASSUME NEW m \in Laybys
      PROVE  LaybySound(m)'
  <2>1. CASE m # l
    <3>1. LaybySound(m) /\ m \in Laybys \ {l}
      BY <2>1 DEF LaybyInv
    <3> QED BY <1>2, <1>3, <3>1 DEF LaybySound
  <2> QED BY <2>1
<1>5. ASSUME NEW v \in Workers, request'[v].kind # "idle"
      PROVE  RequestSound(request[v])'
  <2>1. v # w /\ request'[v] = request[v] /\ request[v].kind # "idle"
    BY <1>1, <1>5
  <2>2. RequestSound(request[v]) /\ request[v].of \in Laybys
    BY <1>0, <2>1, RowFields DEF LaybyInv
  <2>3. CASE request[v].of # l
    BY <1>2, <1>3, <2>1, <2>2, <2>3 DEF RequestSound
  <2> QED BY <2>1, <2>3
<1> QED BY <1>4, <1>5 DEF LaybyInv

-----------------------------------------------------------------------------
(* The steps. *)

\* What is known of the layby of a request, and of a request that holds it too.
LEMMA AtCommit ==
  ASSUME LaybyInv, NEW w \in Workers, request[w].kind # "idle", NoteMeeting(w), EndRequest(w),
         NEW l, l = request[w].of
  PROVE  /\ l \in Laybys /\ LaybySound(l) /\ RequestSound(request[w])
         /\ Extended(l) => Extended(l)'
         /\ Clean(l)' => Clean(l)
         /\ {"pay"} \in met[l] => {"pay"} \in met'[l]
         /\ \A v \in Workers \ {w} : request[v].kind # "idle" /\ request[v].of = l =>
              /\ RequestSound(request[v]) /\ request'[v] = request[v]
              /\ {request[w].kind, request[v].kind} \in met'[l]
         /\ (\E v \in Workers : request'[v].kind = "collect" /\ request'[v].of = l) =>
              Settled(l)
<1>0. LaybyTypeOK
  BY DEF LaybyInv
<1>1. /\ request'[w].kind = "idle"
      /\ \A v \in Workers \ {w} : request'[v] = request[v]
  BY <1>0, Ended
<1>2. /\ met[l] \subseteq met'[l]
      /\ \A v \in Workers \ {w} : request[v].kind # "idle" /\ request[v].of = l =>
           {request[w].kind, request[v].kind} \in met'[l]
  BY <1>0, Noted
<1>3. (Extended(l) => Extended(l)') /\ (Clean(l)' => Clean(l))
  BY <1>2 DEF Extended, Clean
<1>4. l \in Laybys /\ LaybySound(l) /\ RequestSound(request[w])
  BY <1>0, RowFields DEF LaybyInv
<1>5. ASSUME NEW v \in Workers, request'[v].kind = "collect", request'[v].of = l
      PROVE  Settled(l)
  BY <1>1, <1>5 DEF Settled
<1> QED BY <1>1, <1>2, <1>3, <1>4, <1>5 DEF LaybyInv

LEMMA CreateStep ==
  ASSUME LaybyInv, NEW l \in Laybys, NEW d \in Deposits, NEW n \in Installments,
         CreateLayby(l, d, n)
  PROVE  LaybyInv'
<1> DEFINE b == Price[l] - d
           row == [status |-> "active", total |-> Price[l], paid |-> d,
                   balance |-> b, extensions |-> 0]
           rows == NewSchedule(b, n)
<1>0. /\ LaybyTypeOK /\ LaybySound(l) /\ layby[l].status = "none"
      /\ d \in Nat /\ n \in Nat \ {0} /\ Price[l] \in Nat /\ b \in Nat
  <2>1. d \in Nat /\ n \in Nat \ {0} /\ Price[l] \in Nat /\ d <= Price[l]
    BY LaybyAssumption DEF CreateLayby
  <2> QED BY <2>1 DEF LaybyInv, CreateLayby
<1>1. rows \in Seq(Installment)
  BY <1>0, ScheduleTyped
<1>2. /\ layby' = [layby EXCEPT ![l] = row] /\ schedule' = [schedule EXCEPT ![l] = rows]
      /\ next' = [next EXCEPT ![l] = 1] /\ received' = [received EXCEPT ![l] = d]
      /\ UNCHANGED <<request, refunds, handedOut, met, mixed>>
  BY DEF CreateLayby
<1>3. /\ row \in Row /\ row.status = "active" /\ row.paid = d /\ row.balance = b
      /\ row.total = Price[l]
  BY <1>0 DEF Row, LaybyStatus
<1>4. d + b = Price[l]
  BY <1>0
<1> HIDE DEF row, rows, b
<1>5. /\ LaybyTypeOK' /\ layby'[l] = row /\ received'[l] = d
      /\ \A m \in Laybys \ {l} : layby'[m] = layby[m] /\ received'[m] = received[m]
  BY <1>0, <1>1, <1>2, <1>3 DEF LaybyTypeOK
<1>6. ~Settled(l) /\ refunds[l] = <<>>
  BY <1>0 DEF LaybySound
<1>7. \A m \in Laybys : (Clean(m)' <=> Clean(m)) /\ (Extended(m)' <=> Extended(m))
  BY <1>2 DEF Clean, Extended
<1>8. ASSUME NEW m \in Laybys \ {l}
      PROVE  Settled(m)' <=> Settled(m)
  BY <1>2, <1>5 DEF Settled
<1>9. ~Settled(l)'
  BY <1>2, <1>3, <1>5, <1>6 DEF Settled
<1>10. l \notin handedOut
  BY <1>6 DEF Settled
<1>11. LaybySound(l)'
  BY <1>0, <1>2, <1>3, <1>4, <1>5, <1>6, <1>9, <1>10 DEF LaybySound
<1>12. ASSUME NEW m \in Laybys
       PROVE  LaybySound(m)'
  <2>1. CASE m # l
    <3>1. LaybySound(m) /\ m \in Laybys \ {l}
      BY <2>1 DEF LaybyInv
    <3> QED BY <1>2, <1>5, <1>7, <1>8, <3>1 DEF LaybySound
  <2> QED BY <1>11, <2>1
<1>13. ASSUME NEW v \in Workers, request'[v].kind # "idle"
       PROVE  RequestSound(request[v])'
  <2>1. RequestSound(request[v]) /\ request[v].of \in Laybys /\ request'[v] = request[v]
    BY <1>0, <1>2, <1>13, RowFields DEF LaybyInv
  <2>2. request[v].of # l
    BY <1>0, <2>1 DEF RequestSound
  <2> QED BY <1>2, <1>5, <1>7, <1>8, <2>1, <2>2 DEF RequestSound
<1> QED BY <1>5, <1>12, <1>13 DEF LaybyInv

\* What a payment writes into the row of its layby.
RowPaidTo(l, p, b) ==
  layby' = [layby EXCEPT ![l].paid = p, ![l].balance = b,
                         ![l].status = IF b <= 0 THEN "ready_for_collection" ELSE @]

LEMMA RowPaid ==
  ASSUME LaybyTypeOK, NEW l \in Laybys, NEW p \in Nat, NEW b \in Nat, RowPaidTo(l, p, b)
  PROVE  /\ layby' \in [Laybys -> Row]
         /\ \A m \in Laybys \ {l} : layby'[m] = layby[m]
         /\ layby'[l].paid = p /\ layby'[l].balance = b /\ layby'[l].total = layby[l].total
         /\ layby'[l].extensions = layby[l].extensions
         /\ layby'[l].status = IF b = 0 THEN "ready_for_collection" ELSE layby[l].status
<1> DEFINE s == IF b <= 0 THEN "ready_for_collection" ELSE layby[l].status
           row == [layby[l] EXCEPT !.paid = p, !.balance = b, !.status = s]
<1>1. layby[l] \in Row /\ s \in LaybyStatus
  BY RowFields DEF LaybyStatus
<1>2. layby' = [layby EXCEPT ![l] = row]
  BY <1>1 DEF LaybyTypeOK, Row, RowPaidTo
<1>3. s = IF b = 0 THEN "ready_for_collection" ELSE layby[l].status
  OBVIOUS
<1> HIDE DEF s
<1>4. /\ row \in Row /\ row.paid = p /\ row.balance = b /\ row.status = s
      /\ row.total = layby[l].total /\ row.extensions = layby[l].extensions
  BY <1>1 DEF Row
<1> HIDE DEF row
<1>5. layby \in [Laybys -> Row]
  BY DEF LaybyTypeOK
<1>6. layby' \in [Laybys -> Row] /\ layby'[l] = row /\ \A m \in Laybys \ {l} : layby'[m] = layby[m]
  BY <1>2, <1>4, <1>5
<1> QED BY <1>3, <1>4, <1>6

LEMMA PaymentStep ==
  ASSUME LaybyInv, NEW w \in Workers, NEW l \in Laybys, l = request[w].of, CommitPayment(w)
  PROVE  LaybyInv'
<1> DEFINE r == request[w]
           a == r.amount
           new == Allocate(r.rows, a)
           p == r.row.paid + a
           b == r.row.balance - a
<1>0. /\ LaybyTypeOK /\ l \in Laybys /\ r.kind = "pay" /\ r.rows \in Seq(Installment)
      /\ NoteMeeting(w) /\ EndRequest(w)
      /\ r.row.paid \in Nat /\ r.row.balance \in Nat /\ received[l] \in Nat
      /\ layby[l].total \in Nat
  BY RowFields DEF LaybyInv, CommitPayment
<1>1. /\ RowPaidTo(l, p, b)
      /\ schedule' = [schedule EXCEPT ![l] = PaidInto(@, r.rows, new)]
      /\ next' = [next EXCEPT ![l] = FirstOpen(schedule[l])]
      /\ received' = [received EXCEPT ![l] = @ + a]
      /\ UNCHANGED <<refunds, handedOut, mixed>>
  BY DEF CommitPayment, RowPaidTo
<1>2. RequestSound(r) /\ LaybySound(l)
  BY <1>0 DEF LaybyInv
<1>3. a \in Nat /\ a > 0 /\ p \in Nat /\ b \in Nat /\ a <= r.row.balance
  <2>1. a \in Int
    BY <1>0, RowFields
  <2>2. a > 0 /\ a <= r.row.balance
    BY <1>0, <1>2 DEF RequestSound
  <2> QED BY <1>0, <2>1, <2>2
<1>4. /\ layby' \in [Laybys -> Row]
      /\ \A m \in Laybys \ {l} : layby'[m] = layby[m]
      /\ layby'[l].paid = p /\ layby'[l].balance = b /\ layby'[l].total = layby[l].total
      /\ layby'[l].status = IF b = 0 THEN "ready_for_collection" ELSE layby[l].status
  <2> HIDE DEF p, b
  <2> QED BY <1>0, <1>1, <1>3, RowPaid
<1>5. /\ received' \in [Laybys -> Nat] /\ received'[l] = received[l] + a
      /\ \A m \in Laybys \ {l} : received'[m] = received[m]
  BY <1>0, <1>1, <1>3 DEF LaybyTypeOK
<1>6. schedule' \in [Laybys -> Seq(Installment)] /\ next' \in [Laybys -> Nat]
  <2>1. new \in [DOMAIN r.rows -> Installment] /\ schedule[l] \in Seq(Installment)
    BY <1>0, <1>3, AllocateTyped DEF LaybyTypeOK
  <2> HIDE DEF new
  <2>2. PaidInto(schedule[l], r.rows, new) \in Seq(Installment)
    BY <1>0, <2>1, PaidIntoTyped
  <2>3. FirstOpen(schedule[l]) \in Nat
    BY <2>1, FirstOpenTyped
  <2> QED BY <1>0, <1>1, <2>2, <2>3 DEF LaybyTypeOK
<1>7. LaybyTypeOK'
  BY <1>0, <1>1, <1>4, <1>5, <1>6, Ended, Noted DEF LaybyTypeOK
<1>8. /\ Extended(l) => Extended(l)'
      /\ Clean(l)' => Clean(l)
      /\ {"pay"} \in met[l] => {"pay"} \in met'[l]
      /\ \A v \in Workers \ {w} : request[v].kind # "idle" /\ request[v].of = l =>
           /\ RequestSound(request[v]) /\ request'[v] = request[v]
           /\ {"pay", request[v].kind} \in met'[l]
      /\ (\E v \in Workers : request'[v].kind = "collect" /\ request'[v].of = l) => Settled(l)
  BY <1>0, AtCommit
<1>9. /\ r.row.paid <= received[l] /\ layby[l].status # "none"
      /\ {"pay"} \notin met[l] => r.row.paid = layby[l].paid /\ layby[l].paid = received[l]
      /\ ~Extended(l) => r.row.paid + r.row.balance = layby[l].total
      /\ Clean(l) => layby[l].status = "active"
  BY <1>0, <1>2 DEF RequestSound, LaybySound
<1>10. /\ ~Extended(l)' => p + b = layby[l].total
       /\ p <= received[l] + a
       /\ {"pay"} \notin met'[l] => p = received[l] + a
  <2>1. /\ ~Extended(l)' => r.row.paid + r.row.balance = layby[l].total
        /\ {"pay"} \notin met'[l] => r.row.paid = received[l]
        /\ r.row.paid <= received[l]
    BY <1>8, <1>9
  <2> DEFINE x == r.row.paid
             y == r.row.balance
  <2>2. x \in Nat /\ y \in Nat /\ p = x + a /\ b = y - a
    BY <1>0
  <2> HIDE DEF x, y, p, b, a, r
  <2>3. /\ ~Extended(l)' => x + y = layby[l].total
        /\ {"pay"} \notin met'[l] => x = received[l]
        /\ x <= received[l]
    BY <2>1 DEF x, y
  <2> QED BY <1>0, <1>3, <2>2, <2>3
<1> HIDE DEF p, b
<1>11. refunds' = refunds /\ handedOut' = handedOut
  BY <1>1
<1>12. b # 0 /\ Settled(l)' => Settled(l)
  BY <1>4, <1>8, <1>11 DEF Settled
<1>13. Clean(l)' => refunds[l] = <<>> /\ l \notin handedOut
  BY <1>2, <1>8, <1>9 DEF LaybySound
<1>14. Settled(l)' => layby'[l].status \notin {"none", "active"}
  BY <1>2, <1>4, <1>12 DEF LaybySound
<1>15. Settled(l)' /\ ~Extended(l)' => received'[l] >= layby'[l].total
  <2>1. CASE b = 0
    BY <1>0, <1>3, <1>4, <1>5, <1>10, <2>1
  <2>2. CASE b # 0
    <3>1. Settled(l)' /\ ~Extended(l)' => received[l] >= layby[l].total
      BY <1>2, <1>8, <1>12, <2>2 DEF LaybySound
    <3> QED BY <1>0, <1>3, <1>4, <1>5, <3>1
  <2> QED BY <2>1, <2>2
<1>16. /\ ~Extended(l)' => layby'[l].paid + layby'[l].balance = layby'[l].total
       /\ layby'[l].paid <= received'[l]
       /\ {"pay"} \notin met'[l] => layby'[l].paid = received'[l]
       /\ layby'[l].status # "none"
  BY <1>0, <1>3, <1>4, <1>5, <1>9, <1>10
<1>17. LaybySound(l)'
  BY <1>11, <1>13, <1>14, <1>15, <1>16 DEF LaybySound
<1>18. ASSUME NEW v \in Workers \ {w}, request[v].kind # "idle", request[v].of = l
       PROVE  RequestSound(request[v])'
  <2> DEFINE q == request[v]
  <2>1. /\ RequestSound(q) /\ request'[v] = q /\ {"pay", q.kind} \in met'[l] /\ q.of = l
        /\ q.row.paid \in Nat
    BY <1>0, <1>8, <1>18, RowFields
  <2>2. q.row.paid <= received'[l]
    BY <1>0, <1>3, <1>5, <2>1 DEF RequestSound
  <2>3. q.kind = "pay" => {"pay"} \in met'[l] /\ ~Clean(l)'
    BY <2>1 DEF Clean
  <2>4. q.kind = "extend" => Extended(l)'
    BY <2>1 DEF Extended
  <2>5. q.kind = "collect" => ~Clean(l)'
    BY <1>8, <1>9, <2>1 DEF RequestSound
  <2>6. q.kind = "cancel" => ~Clean(l)'
    <3>1. q.kind = "cancel" => {"cancel", "pay"} \in met'[l]
      BY <2>1
    <3> QED BY <3>1 DEF Clean
  <2>7. q.kind = "pay" /\ ~Extended(l)' => q.row.paid + q.row.balance = layby'[l].total
    BY <1>4, <1>8, <2>1 DEF RequestSound
  <2>8. q.kind = "pay" => 0 < q.amount /\ q.amount <= q.row.balance
    BY <2>1 DEF RequestSound
  <2>9. q.kind = "extend" => q.amount > 0
    BY <2>1 DEF RequestSound
  <2> QED BY <1>16, <2>1, <2>2, <2>3, <2>4, <2>5, <2>6, <2>7, <2>8, <2>9 DEF RequestSound
<1> HIDE DEF p, b, new
<1> QED BY <1>0, <1>4, <1>5, <1>7, <1>11, <1>17, <1>18, CommitWritten

LEMMA CancelStep ==
  ASSUME LaybyInv, NEW w \in Workers, NEW l \in Laybys, l = request[w].of, CommitCancel(w)
  PROVE  LaybyInv'
<1> DEFINE r == request[w]
           f == Refund(r.row.paid)
           row == [layby[l] EXCEPT !.status = "cancelled"]
           rows == [k \in DOMAIN schedule[l] |->
                     IF IsOpen(schedule[l][k]) THEN [schedule[l][k] EXCEPT !.status = "paid"]
                                               ELSE schedule[l][k]]
<1>0. /\ LaybyTypeOK /\ r.kind = "cancel" /\ NoteMeeting(w) /\ EndRequest(w)
      /\ r.row.paid \in Nat /\ received[l] \in Nat /\ refunds[l] \in Seq(Nat)
      /\ layby[l] \in Row /\ schedule[l] \in Seq(Installment)
  <2>1. LaybyTypeOK
    BY DEF LaybyInv
  <2> QED BY <2>1, RowFields DEF CommitCancel, LaybyTypeOK
<1>1. /\ layby' = [layby EXCEPT ![l].status = "cancelled"]
      /\ schedule' = [schedule EXCEPT ![l] = rows]
      /\ next' = [next EXCEPT ![l] = 0]
      /\ refunds' = [refunds EXCEPT ![l] = IF f > 0 THEN Append(refunds[l], f) ELSE refunds[l]]
      /\ UNCHANGED <<received, handedOut, mixed>>
  BY DEF CommitCancel
<1>2. RequestSound(r) /\ LaybySound(l)
  BY <1>0 DEF LaybyInv
<1>3. f \in Nat /\ f <= r.row.paid
  BY <1>0, LaybyAssumption DEF Refund
<1>4. rows \in Seq(Installment)
  <2>1. \A k \in DOMAIN schedule[l] : schedule[l][k] \in Installment
    BY <1>0, ElementOfSeq, LenProperties
  <2>2. ASSUME NEW i \in Installment
        PROVE  [i EXCEPT !.status = "paid"] \in Installment
    BY DEF Installment, ScheduleStatus
  <2>3. rows \in [1 .. Len(schedule[l]) -> Installment]
    BY <1>0, <2>1, <2>2, LenProperties
  <2>4. Len(schedule[l]) \in Nat
    BY <1>0, LenProperties
  <2> HIDE DEF rows
  <2> QED BY <2>3, <2>4
<1>5. /\ row \in Row /\ row.status = "cancelled" /\ row.paid = layby[l].paid
      /\ row.balance = layby[l].balance /\ row.total = layby[l].total
  BY <1>0 DEF Row, LaybyStatus
<1>6. layby' = [layby EXCEPT ![l] = row]
  BY <1>1
<1> HIDE DEF row, rows, f
<1>7. /\ layby' \in [Laybys -> Row] /\ layby'[l] = row
      /\ \A m \in Laybys \ {l} : layby'[m] = layby[m]
  BY <1>0, <1>5, <1>6 DEF LaybyTypeOK
<1>8. /\ refunds' \in [Laybys -> Seq(Nat)]
      /\ refunds'[l] = IF f > 0 THEN Append(refunds[l], f) ELSE refunds[l]
      /\ \A m \in Laybys \ {l} : refunds'[m] = refunds[m]
  BY <1>0, <1>1, <1>3 DEF LaybyTypeOK
<1>9. LaybyTypeOK'
  <2>1. schedule' \in [Laybys -> Seq(Installment)] /\ next' \in [Laybys -> Nat]
    BY <1>0, <1>1, <1>4 DEF LaybyTypeOK
  <2> QED BY <1>0, <1>1, <1>7, <1>8, <2>1, Ended, Noted DEF LaybyTypeOK
<1>10. /\ Extended(l) => Extended(l)'
       /\ Clean(l)' => Clean(l)
       /\ {"pay"} \in met[l] => {"pay"} \in met'[l]
       /\ (\E v \in Workers : request'[v].kind = "collect" /\ request'[v].of = l) => Settled(l)
  BY <1>0, AtCommit
<1>11. \A v \in Workers \ {w} : request[v].kind # "idle" /\ request[v].of = l =>
         /\ RequestSound(request[v]) /\ request'[v] = request[v]
         /\ {"cancel", request[v].kind} \in met'[l]
  BY <1>0, AtCommit
<1>12. Settled(l)' => Settled(l)
  BY <1>1, <1>5, <1>7, <1>10 DEF Settled
<1>13. received' = received /\ handedOut' = handedOut
  BY <1>1
<1>14. ASSUME Clean(l)'
       PROVE  /\ l \notin handedOut
              /\ refunds'[l] # <<>> => Len(refunds'[l]) <= 1 /\ refunds'[l][1] <= received[l]
  <2>1. refunds[l] = <<>> /\ l \notin handedOut /\ r.row.paid <= received[l]
    BY <1>0, <1>2, <1>10, <1>14 DEF RequestSound, LaybySound
  <2>2. f > 0 => refunds'[l] = <<f>>
    BY <1>8, <2>1
  <2>3. f <= received[l]
    BY <1>0, <1>3, <2>1
  <2>4. Len(<<f>>) = 1 /\ <<f>>[1] = f
    OBVIOUS
  <2>5. CASE f > 0
    <3>1. Len(refunds'[l]) = 1 /\ refunds'[l][1] = f
      BY <2>2, <2>4, <2>5
    <3>2. Len(refunds'[l]) <= 1 /\ refunds'[l][1] <= received[l]
      BY <2>3, <3>1
    <3> QED BY <2>1, <3>2
  <2>6. CASE ~(f > 0)
    BY <1>8, <2>1, <2>6
  <2> QED BY <2>5, <2>6
<1>15. /\ ~Extended(l)' => layby[l].paid + layby[l].balance = layby[l].total
       /\ layby[l].paid <= received[l]
       /\ {"pay"} \notin met'[l] => layby[l].paid = received[l]
       /\ Settled(l)' /\ ~Extended(l)' => received[l] >= layby[l].total
  BY <1>2, <1>10, <1>12 DEF LaybySound
<1>16. LaybySound(l)'
  BY <1>5, <1>7, <1>13, <1>14, <1>15 DEF LaybySound
<1>17. ASSUME NEW v \in Workers \ {w}, request[v].kind # "idle", request[v].of = l
       PROVE  RequestSound(request[v])'
  <2> DEFINE q == request[v]
  <2>1. RequestSound(q) /\ request'[v] = q /\ {"cancel", q.kind} \in met'[l] /\ q.of = l
    BY <1>11, <1>17
  <2>2. q.kind \in {"pay", "collect", "cancel"} => ~Clean(l)'
    <3>1. q.kind = "pay" => {"cancel", "pay"} \in met'[l]
      BY <2>1
    <3>2. q.kind = "collect" => {"cancel", "collect"} \in met'[l]
      BY <2>1
    <3>3. q.kind = "cancel" => {"cancel"} \in met'[l]
      BY <2>1
    <3> QED BY <3>1, <3>2, <3>3 DEF Clean
  <2> QED BY <1>5, <1>7, <1>10, <1>12, <1>13, <2>1, <2>2 DEF RequestSound
<1>18. \A m \in Laybys \ {l} : /\ layby'[m] = layby[m] /\ received'[m] = received[m]
                               /\ refunds'[m] = refunds[m]
                               /\ m \in handedOut' => m \in handedOut
  BY <1>7, <1>8, <1>13
<1> QED BY <1>0, <1>9, <1>16, <1>17, <1>18, CommitWritten

LEMMA CollectStep ==
  ASSUME LaybyInv, NEW w \in Workers, NEW l \in Laybys, l = request[w].of, CommitCollect(w)
  PROVE  LaybyInv'
<1> DEFINE r == request[w]
           row == [layby[l] EXCEPT !.status = "completed"]
<1>0. /\ LaybyTypeOK /\ r.kind = "collect" /\ NoteMeeting(w) /\ EndRequest(w)
      /\ layby[l] \in Row
  <2>1. LaybyTypeOK
    BY DEF LaybyInv
  <2> QED BY <2>1, RowFields DEF CommitCollect
<1>1. /\ layby' = [layby EXCEPT ![l].status = "completed"]
      /\ handedOut' = handedOut \cup {l}
      /\ UNCHANGED <<schedule, next, received, refunds, mixed>>
  BY DEF CommitCollect
<1>2. RequestSound(r) /\ LaybySound(l) /\ Settled(l)
  BY <1>0 DEF LaybyInv, Settled
<1>3. /\ row \in Row /\ row.status = "completed" /\ row.paid = layby[l].paid
      /\ row.balance = layby[l].balance /\ row.total = layby[l].total
  BY <1>0 DEF Row, LaybyStatus
<1>4. layby' = [layby EXCEPT ![l] = row]
  BY <1>1
<1> HIDE DEF row
<1>5. /\ layby' \in [Laybys -> Row] /\ layby'[l] = row
      /\ \A m \in Laybys \ {l} : layby'[m] = layby[m]
  BY <1>0, <1>3, <1>4 DEF LaybyTypeOK
<1>6. LaybyTypeOK'
  BY <1>0, <1>1, <1>5, Ended, Noted DEF LaybyTypeOK
<1>7. /\ Extended(l) => Extended(l)'
      /\ Clean(l)' => Clean(l)
      /\ {"pay"} \in met[l] => {"pay"} \in met'[l]
  BY <1>0, AtCommit
<1>8. \A v \in Workers \ {w} : request[v].kind # "idle" /\ request[v].of = l =>
        /\ RequestSound(request[v]) /\ request'[v] = request[v]
        /\ {"collect", request[v].kind} \in met'[l]
  BY <1>0, AtCommit
<1>9. received' = received /\ refunds' = refunds
  BY <1>1
<1>10. Clean(l) => layby[l].status \in {"ready_for_collection", "completed"}
  BY <1>0, <1>2 DEF RequestSound
<1>11. Clean(l)' => refunds[l] = <<>>
  BY <1>2, <1>7, <1>10 DEF LaybySound
<1>12. /\ ~Extended(l)' => layby[l].paid + layby[l].balance = layby[l].total
       /\ layby[l].paid <= received[l]
       /\ {"pay"} \notin met'[l] => layby[l].paid = received[l]
       /\ ~Extended(l)' => received[l] >= layby[l].total
  BY <1>2, <1>7 DEF LaybySound
<1>13. LaybySound(l)'
  BY <1>3, <1>5, <1>9, <1>11, <1>12 DEF LaybySound
<1>14. ASSUME NEW v \in Workers \ {w}, request[v].kind # "idle", request[v].of = l
       PROVE  RequestSound(request[v])'
  <2> DEFINE q == request[v]
  <2>1. RequestSound(q) /\ request'[v] = q /\ {"collect", q.kind} \in met'[l] /\ q.of = l
    BY <1>8, <1>14
  <2>2. q.kind = "pay" => ~Clean(l)'
    BY <1>7, <1>10, <2>1 DEF RequestSound
  <2>3. q.kind = "extend" => Extended(l)'
    BY <1>2, <1>7, <2>1 DEF RequestSound
  <2>4. q.kind = "cancel" => ~Clean(l)'
    <3>1. q.kind = "cancel" => {"cancel", "collect"} \in met'[l]
      BY <2>1
    <3> QED BY <3>1 DEF Clean
  <2> QED BY <1>3, <1>5, <1>7, <1>9, <2>1, <2>2, <2>3, <2>4 DEF RequestSound
<1> QED BY <1>0, <1>1, <1>5, <1>6, <1>9, <1>13, <1>14, CommitWritten

\* What an extension writes into the row of its layby.
RowExtendedBy(l, row) ==
  layby' = [layby EXCEPT
    ![l].total = Written(@, row.total, row.total + ExtensionFee),
    ![l].balance = Written(@, row.balance, row.balance + ExtensionFee),
    ![l].extensions = row.extensions + 1]

LEMMA RowExtended ==
  ASSUME LaybyTypeOK, NEW l \in Laybys, NEW row \in Row, RowExtendedBy(l, row)
  PROVE  /\ layby' \in [Laybys -> Row]
         /\ \A m \in Laybys \ {l} : layby'[m] = layby[m]
         /\ layby'[l].status = layby[l].status /\ layby'[l].paid = layby[l].paid
         /\ layby'[l].extensions = row.extensions + 1
         /\ \/ /\ layby'[l].total = layby[l].total /\ layby'[l].balance = layby[l].balance
               /\ ExtensionFee = 0
            \/ /\ layby'[l].total = row.total + ExtensionFee
               /\ layby'[l].balance = row.balance + ExtensionFee
<1> DEFINE t == Written(layby[l].total, row.total, row.total + ExtensionFee)
           b == Written(layby[l].balance, row.balance, row.balance + ExtensionFee)
           e == row.extensions + 1
           new == [layby[l] EXCEPT !.total = t, !.balance = b, !.extensions = e]
<1>1. /\ layby[l] \in Row /\ layby[l].total \in Nat /\ layby[l].balance \in Nat
      /\ row.total \in Nat /\ row.balance \in Nat /\ row.extensions \in Nat
      /\ ExtensionFee \in Nat
  BY RowFields, LaybyAssumption DEF Row
<1>2. /\ t \in Nat /\ b \in Nat /\ e \in Nat
      /\ \/ t = layby[l].total /\ b = layby[l].balance /\ ExtensionFee = 0
         \/ t = row.total + ExtensionFee /\ b = row.balance + ExtensionFee
  BY <1>1 DEF Written
<1>3. layby' = [layby EXCEPT ![l].total = t, ![l].balance = b, ![l].extensions = e]
  BY <1>1 DEF RowExtendedBy, LaybyTypeOK, Row
<1> HIDE DEF t, b, e
<1>4. layby' = [layby EXCEPT ![l] = new]
  BY <1>1, <1>3 DEF LaybyTypeOK, Row
<1>5. /\ new \in Row /\ new.total = t /\ new.balance = b /\ new.paid = layby[l].paid
      /\ new.status = layby[l].status /\ new.extensions = e
  BY <1>1, <1>2 DEF Row
<1> HIDE DEF new
<1>6. layby \in [Laybys -> Row]
  BY DEF LaybyTypeOK
<1>7. layby' \in [Laybys -> Row] /\ layby'[l] = new /\ \A m \in Laybys \ {l} : layby'[m] = layby[m]
  BY <1>4, <1>5, <1>6
<1> QED BY <1>2, <1>5, <1>7 DEF e

LEMMA ExtendStep ==
  ASSUME LaybyInv, NEW w \in Workers, NEW l \in Laybys, l = request[w].of, CommitExtend(w)
  PROVE  LaybyInv'
<1> DEFINE r == request[w]
           b == r.row.balance + ExtensionFee
           kept == [k \in DOMAIN schedule[l] |->
                     IF schedule[l][k].status = "pending"
                     THEN [schedule[l][k] EXCEPT !.status = "deleted"] ELSE schedule[l][k]]
<1>0. /\ LaybyTypeOK /\ r.kind = "extend" /\ NoteMeeting(w) /\ EndRequest(w)
      /\ r.row \in Row /\ r.row.total \in Nat /\ r.row.paid \in Nat /\ r.row.balance \in Nat
      /\ r.amount \in Int /\ schedule[l] \in Seq(Installment)
      /\ layby[l].paid \in Nat /\ layby[l].balance \in Nat /\ layby[l].total \in Nat
      /\ received[l] \in Nat /\ ExtensionFee \in Nat
  <2>1. LaybyTypeOK
    BY DEF LaybyInv
  <2> QED BY <2>1, RowFields, LaybyAssumption DEF CommitExtend, LaybyTypeOK
<1>1. /\ RowExtendedBy(l, r.row)
      /\ schedule' = [schedule EXCEPT ![l] = IF b > 0 THEN kept \o NewSchedule(b, r.amount) ELSE kept]
      /\ next' = [next EXCEPT ![l] = IF b > 0 THEN Len(kept) + 1 ELSE next[l]]
      /\ mixed' = mixed \cup {m \in {l} : \E k \in DOMAIN kept : kept[k].status = "partial"}
      /\ UNCHANGED <<received, refunds, handedOut>>
  BY DEF CommitExtend, RowExtendedBy
<1>2. RequestSound(r) /\ LaybySound(l)
  BY <1>0 DEF LaybyInv
<1>3. r.amount > 0 /\ b \in Nat
  BY <1>0, <1>2 DEF RequestSound
<1>4. kept \in Seq(Installment)
  <2>1. \A k \in DOMAIN schedule[l] : schedule[l][k] \in Installment
    BY <1>0, ElementOfSeq, LenProperties
  <2>2. ASSUME NEW i \in Installment
        PROVE  [i EXCEPT !.status = "deleted"] \in Installment
    BY DEF Installment, ScheduleStatus
  <2>3. kept \in [1 .. Len(schedule[l]) -> Installment]
    BY <1>0, <2>1, <2>2, LenProperties
  <2>4. Len(schedule[l]) \in Nat
    BY <1>0, LenProperties
  <2> HIDE DEF kept
  <2> QED BY <2>3, <2>4
<1> HIDE DEF kept, b
<1>5. schedule' \in [Laybys -> Seq(Installment)] /\ next' \in [Laybys -> Nat] /\ mixed' \subseteq Laybys
  <2>1. NewSchedule(b, r.amount) \in Seq(Installment)
    <3>1. r.amount \in Nat \ {0}
      BY <1>0, <1>3
    <3> QED BY <1>3, <3>1, ScheduleTyped
  <2>2. kept \o NewSchedule(b, r.amount) \in Seq(Installment)
    BY <1>4, <2>1, ConcatProperties
  <2>3. Len(kept) + 1 \in Nat
    BY <1>4, LenProperties
  <2> QED BY <1>0, <1>1, <1>4, <2>2, <2>3 DEF LaybyTypeOK
<1>6. /\ layby' \in [Laybys -> Row]
      /\ \A m \in Laybys \ {l} : layby'[m] = layby[m]
      /\ layby'[l].status = layby[l].status /\ layby'[l].paid = layby[l].paid
      /\ \/ /\ layby'[l].total = layby[l].total /\ layby'[l].balance = layby[l].balance
            /\ ExtensionFee = 0
         \/ /\ layby'[l].total = r.row.total + ExtensionFee
            /\ layby'[l].balance = r.row.balance + ExtensionFee
  <2>1. RowExtendedBy(l, r.row) /\ r.row \in Row
    BY <1>0, <1>1
  <2> QED BY <1>0, <2>1, RowExtended
<1>7. LaybyTypeOK'
  BY <1>0, <1>1, <1>5, <1>6, Ended, Noted DEF LaybyTypeOK
<1>8. /\ Extended(l) => Extended(l)'
      /\ Clean(l)' => Clean(l)
      /\ {"pay"} \in met[l] => {"pay"} \in met'[l]
      /\ (\E v \in Workers : request'[v].kind = "collect" /\ request'[v].of = l) => Settled(l)
  BY <1>0, AtCommit
<1>9. \A v \in Workers \ {w} : request[v].kind # "idle" /\ request[v].of = l =>
        /\ RequestSound(request[v]) /\ request'[v] = request[v]
        /\ {"extend", request[v].kind} \in met'[l]
  BY <1>0, AtCommit
<1>10. received' = received /\ refunds' = refunds /\ handedOut' = handedOut
  BY <1>1
<1>11. Settled(l)' => Settled(l)
  BY <1>6, <1>8, <1>10 DEF Settled
<1>12. ~Extended(l)' => /\ r.row.paid + r.row.balance = r.row.total
                        /\ r.row.paid = layby[l].paid /\ ~Settled(l)
                        /\ layby[l].paid + layby[l].balance = layby[l].total
  BY <1>0, <1>2, <1>8 DEF RequestSound, LaybySound
<1>13. ~Extended(l)' => layby'[l].paid + layby'[l].balance = layby'[l].total
  <2> DEFINE y == r.row.balance
             z == r.row.total
             f == ExtensionFee
  <2>1. y \in Nat /\ z \in Nat /\ f \in Nat
    BY <1>0
  <2>2. \/ layby'[l].total = layby[l].total /\ layby'[l].balance = layby[l].balance
        \/ layby'[l].total = z + f /\ layby'[l].balance = y + f
    BY <1>6
  <2>3. ~Extended(l)' => layby[l].paid + y = z /\ layby[l].paid + layby[l].balance = layby[l].total
    BY <1>12
  <2>4. layby'[l].paid = layby[l].paid /\ layby[l].paid \in Nat
    BY <1>0, <1>6
  <2> HIDE DEF y, z, f, r
  <2> QED BY <2>1, <2>2, <2>3, <2>4
<1>14. /\ layby[l].paid <= received[l]
       /\ {"pay"} \notin met'[l] => layby[l].paid = received[l]
       /\ Settled(l)' => Extended(l)' /\ layby[l].status \notin {"none", "active"}
       /\ Clean(l)' /\ refunds[l] # <<>> =>
            layby[l].status = "cancelled" /\ Len(refunds[l]) <= 1 /\ refunds[l][1] <= received[l]
       /\ Clean(l)' /\ l \in handedOut => layby[l].status = "completed"
       /\ layby[l].status = "none" => refunds[l] = <<>>
  BY <1>2, <1>8, <1>11, <1>12 DEF LaybySound
<1>15. LaybySound(l)'
  BY <1>6, <1>10, <1>13, <1>14 DEF LaybySound
<1>16. ASSUME NEW v \in Workers \ {w}, request[v].kind # "idle", request[v].of = l
       PROVE  RequestSound(request[v])'
  <2> DEFINE q == request[v]
  <2>1. RequestSound(q) /\ request'[v] = q /\ {"extend", q.kind} \in met'[l] /\ q.of = l
    BY <1>9, <1>16
  <2>2. q.kind = "pay" => Extended(l)'
    <3>1. q.kind = "pay" => {"pay", "extend"} \in met'[l]
      BY <2>1
    <3> QED BY <3>1 DEF Extended
  <2> QED BY <1>6, <1>8, <1>10, <1>11, <2>1, <2>2 DEF RequestSound
<1>17. \A m \in Laybys \ {l} : /\ layby'[m] = layby[m] /\ received'[m] = received[m]
                               /\ refunds'[m] = refunds[m]
                               /\ m \in handedOut' => m \in handedOut
  BY <1>6, <1>10
<1> QED BY <1>0, <1>7, <1>15, <1>16, <1>17, CommitWritten

\* A query gives installments.
LEMMA QueriedRows ==
  ASSUME NEW rows \in Seq(Installment), NEW loaded \in Seq(Installment)
  PROVE  Queried(rows, loaded) \in Seq(Installment)
<1> DEFINE q(k) == IF IsOpen(rows[k]) /\ k \in DOMAIN loaded THEN loaded[k] ELSE rows[k]
<1>1. DOMAIN rows = 1 .. Len(rows) /\ Len(rows) \in Nat
  OBVIOUS
<1>2. \A k \in 1 .. Len(rows) : q(k) \in Installment
  OBVIOUS
<1>3. Queried(rows, loaded) = [k \in 1 .. Len(rows) |-> q(k)]
  BY <1>1 DEF Queried
<1> HIDE DEF q
<1> QED BY <1>1, <1>2, <1>3

LEMMA ReadStep ==
  ASSUME LaybyInv, NEW w \in Workers, ReadSchedule(w)
  PROVE  LaybyInv'
<1> DEFINE r == request[w]
           rows == Queried(schedule[r.of], r.rows)
           u == [r EXCEPT !.read = TRUE, !.rows = rows]
<1>0. LaybyTypeOK /\ r \in Request /\ r.kind = "pay" /\ RequestSound(r)
  <2>1. LaybyTypeOK
    BY DEF LaybyInv
  <2> QED BY <2>1, RowFields DEF LaybyInv, ReadSchedule
<1>1. rows \in Seq(Installment)
  BY <1>0, RowFields, QueriedRows DEF LaybyTypeOK
<1>2. /\ request' = [request EXCEPT ![w].read = TRUE, ![w].rows = rows]
      /\ UNCHANGED <<laybyTables, laybyGhosts>>
  BY <1>0 DEF ReadSchedule, LaybyTypeOK
<1>3. request' = [request EXCEPT ![w] = u]
  BY <1>0, <1>2 DEF LaybyTypeOK
<1> HIDE DEF rows
<1>4. r \in Request
  BY <1>0
<1> HIDE DEF r
<1>5. /\ u \in Request /\ u.kind = r.kind /\ u.of = r.of /\ u.row = r.row /\ u.amount = r.amount
  BY <1>1, <1>4 DEF Request
<1> HIDE DEF u
<1>6. /\ LaybyTypeOK' /\ request'[w] = u
      /\ \A v \in Workers \ {w} : request'[v] = request[v]
  <2>1. /\ request' \in [Workers -> Request] /\ request'[w] = u
        /\ \A v \in Workers \ {w} : request'[v] = request[v]
    BY <1>0, <1>3, <1>5 DEF LaybyTypeOK
  <2> QED BY <1>0, <1>2, <2>1 DEF LaybyTypeOK, laybyTables, laybyGhosts
<1>7. RequestSound(u)
  BY <1>0, <1>5 DEF RequestSound
<1>8. ASSUME NEW v \in Workers, request'[v].kind # "idle"
      PROVE  RequestSound(request'[v])
  BY <1>6, <1>7, <1>8 DEF LaybyInv
<1>9. ASSUME NEW v \in Workers, request'[v].kind = "collect"
      PROVE  Settled(request'[v].of)
  <2>1. v # w
    BY <1>0, <1>5, <1>6, <1>9
  <2> QED BY <1>6, <1>9, <2>1 DEF Settled
<1> QED BY <1>2, <1>6, <1>8, <1>9, TablesKept DEF laybyTables, laybyGhosts

LEMMA AbandonStep ==
  ASSUME LaybyInv, NEW w \in Workers, AbandonRequest(w)
  PROVE  LaybyInv'
<1>0. LaybyTypeOK
  BY DEF LaybyInv
<1>1. /\ request' \in [Workers -> Request] /\ request'[w].kind = "idle"
      /\ \A v \in Workers \ {w} : request'[v] = request[v]
      /\ UNCHANGED <<laybyTables, laybyGhosts>>
  BY <1>0, Ended DEF AbandonRequest
<1>2. LaybyTypeOK'
  BY <1>0, <1>1 DEF LaybyTypeOK, laybyTables, laybyGhosts
<1>3. ASSUME NEW v \in Workers, request'[v].kind # "idle"
      PROVE  RequestSound(request'[v])
  BY <1>1, <1>3 DEF LaybyInv
<1>4. ASSUME NEW v \in Workers, request'[v].kind = "collect"
      PROVE  Settled(request'[v].of)
  BY <1>1, <1>4 DEF Settled
<1> QED BY <1>1, <1>2, <1>3, <1>4, TablesKept DEF laybyTables, laybyGhosts

LEMMA LaybyStep ==
  ASSUME LaybyInv, LaybyNext \/ UNCHANGED laybyVars
  PROVE  LaybyInv'
<1>0. LaybyTypeOK
  BY DEF LaybyInv
<1>1. ASSUME NEW w \in Workers, NEW l \in Laybys, NEW a \in Amounts, MakePayment(w, l, a)
      PROVE  LaybyInv'
  <2>1. a \in Int /\ 0 < a
    BY LaybyAssumption
  <2> QED BY <1>1, <2>1, Begun DEF MakePayment, IsActive, LaybyKinds
<1>2. ASSUME NEW w \in Workers, NEW l \in Laybys, NEW n \in Installments, ExtendLayby(w, l, n)
      PROVE  LaybyInv'
  <2>1. n \in Int /\ n > 0
    BY LaybyAssumption
  <2> QED BY <1>2, <2>1, Begun DEF ExtendLayby, IsActive, LaybyKinds
<1>3. ASSUME NEW w \in Workers, NEW l \in Laybys, CancelLayby(w, l)
      PROVE  LaybyInv'
  <2>1. layby[l].status \in {"active", "ready_for_collection"}
    BY <1>0, <1>3, RowFields DEF CancelLayby, LaybyStatus
  <2> QED BY <1>3, <2>1, Begun DEF CancelLayby, LaybyKinds
<1>4. ASSUME NEW w \in Workers, NEW l \in Laybys, CollectLayby(w, l)
      PROVE  LaybyInv'
  BY <1>4, Begun DEF CollectLayby, LaybyKinds
<1>5. ASSUME NEW w \in Workers,
             CommitPayment(w) \/ CommitCancel(w) \/ CommitCollect(w) \/ CommitExtend(w)
      PROVE  LaybyInv'
  <2>1. PICK l \in Laybys : l = request[w].of
    BY <1>0, RowFields
  <2> QED BY <1>5, <2>1, PaymentStep, CancelStep, CollectStep, ExtendStep
<1>6. CASE UNCHANGED laybyVars
  <2>1. LaybyTypeOK'
    BY <1>0, <1>6 DEF LaybyTypeOK, laybyVars, laybyTables, laybyGhosts
  <2>2. UNCHANGED <<layby, received, refunds, handedOut, met, request>>
    BY <1>6 DEF laybyVars, laybyTables, laybyGhosts
  <2>3. ASSUME NEW v \in Workers, request'[v].kind # "idle"
        PROVE  RequestSound(request'[v])
    BY <2>2, <2>3 DEF LaybyInv
  <2>4. ASSUME NEW v \in Workers, request'[v].kind = "collect"
        PROVE  Settled(request'[v].of)
    BY <2>2, <2>4 DEF Settled
  <2> QED BY <2>1, <2>2, <2>3, <2>4, TablesKept
<1> QED BY <1>1, <1>2, <1>3, <1>4, <1>5, <1>6, CreateStep, ReadStep, AbandonStep DEF LaybyNext

LEMMA LaybyInitInv ==
  ASSUME LaybyInit
  PROVE  LaybyInv
<1>1. PICK l \in Laybys :
        request = [w \in Workers |-> [kind |-> "idle", of |-> l, row |-> NoRow,
                                      amount |-> 0, read |-> FALSE, rows |-> <<>>]]
  BY DEF LaybyInit
<1>2. /\ layby = [m \in Laybys |-> NoRow] /\ schedule = [m \in Laybys |-> <<>>]
      /\ next = [m \in Laybys |-> 0] /\ received = [m \in Laybys |-> 0]
      /\ refunds = [m \in Laybys |-> <<>>] /\ handedOut = {}
      /\ met = [m \in Laybys |-> {}] /\ mixed = {}
  BY DEF LaybyInit
<1>3. /\ NoRow \in Row /\ NoRow.status = "none" /\ NoRow.paid = 0 /\ NoRow.balance = 0
      /\ NoRow.total = 0
  BY DEF NoRow, Row, LaybyStatus
<1>4. [kind |-> "idle", of |-> l, row |-> NoRow,
       amount |-> 0, read |-> FALSE, rows |-> <<>>] \in Request
  <2>1. <<>> \in Seq(Installment)
    OBVIOUS
  <2> QED BY <1>3, <2>1 DEF Request, LaybyKinds
<1>5. LaybyTypeOK /\ \A w \in Workers : request[w].kind = "idle"
  <2>1. <<>> \in Seq(Installment) /\ <<>> \in Seq(Nat)
    OBVIOUS
  <2>2. request \in [Workers -> Request] /\ \A w \in Workers : request[w].kind = "idle"
    BY <1>1, <1>4
  <2> QED BY <1>2, <1>3, <2>1, <2>2 DEF LaybyTypeOK
<1>6. ASSUME NEW m \in Laybys
      PROVE  LaybySound(m)
  <2>1. layby[m] = NoRow /\ received[m] = 0 /\ refunds[m] = <<>> /\ m \notin handedOut
    BY <1>2
  <2>2. ~Settled(m)
    BY <1>3, <1>5, <2>1 DEF Settled
  <2> QED BY <1>3, <2>1, <2>2 DEF LaybySound
<1> QED BY <1>5, <1>6 DEF LaybyInv

\* The properties follow.
LEMMA MoneySound ==
  ASSUME LaybyInv
  PROVE  BalanceAddsUp /\ PaidIsReceived /\ CollectedIsPaid /\ GoodsOrMoney
<1>1. LaybyTypeOK /\ \A l \in Laybys : LaybySound(l)
  BY DEF LaybyInv
<1>2. BalanceAddsUp
  BY <1>1 DEF BalanceAddsUp, LaybySound, Extended
<1>3. PaidIsReceived
  BY <1>1 DEF PaidIsReceived, LaybySound
<1>4. CollectedIsPaid
  <2>1. ASSUME NEW l \in handedOut, {"pay", "extend"} \notin met[l]
        PROVE  received[l] >= layby[l].total
    <3>1. l \in Laybys /\ Settled(l) /\ ~Extended(l)
      BY <1>1, <2>1 DEF LaybyTypeOK, Settled, Extended
    <3> QED BY <1>1, <3>1 DEF LaybySound
  <2> QED BY <2>1 DEF CollectedIsPaid
<1>5. GoodsOrMoney
  <2>1. ASSUME NEW l \in Laybys, Clean(l)
        PROVE  /\ Len(refunds[l]) <= 1
               /\ refunds[l] # <<>> => refunds[l][1] <= received[l] /\ l \notin handedOut
    <3>1. LaybySound(l)
      BY <1>1
    <3>2. CASE refunds[l] = <<>>
      BY <3>2
    <3>3. CASE refunds[l] # <<>>
      BY <2>1, <3>1, <3>3 DEF LaybySound
    <3> QED BY <3>2, <3>3
  <2> QED BY <2>1 DEF GoodsOrMoney, Clean
<1> QED BY <1>2, <1>3, <1>4, <1>5
=============================================================================
