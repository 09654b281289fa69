----------------------------- MODULE Schedule_proofs ---------------------------
(***************************************************************************)
(* Proofs about the installments of a layby: that a new schedule asks for  *)
(* the whole balance, that a payment is spread over it without a cent lost,*)
(* and that both stay so while requests do not overlap.                    *)
(***************************************************************************)
EXTENDS Counter_proofs

\* What an installment still asks for.
Owed(i) == IF i.status = "deleted" THEN 0 ELSE i.due - i.paid

-----------------------------------------------------------------------------
(* Sums over a schedule. *)

\* Induction up to n, over a set.
LEMMA UpTo ==
  ASSUME NEW n \in Nat, NEW S, 0 \in S,
         \A k \in 0 .. n : k # n /\ k \in S => k + 1 \in S
  PROVE  0 .. n \subseteq S
<1> DEFINE Bad == {k \in 0 .. n : k \notin S}
<1>1. SUFFICES ASSUME Bad # {} PROVE FALSE
  OBVIOUS
<1>2. Bad \in SUBSET Nat
  OBVIOUS
<1>3. PICK m \in Bad : \A k \in Bad : m <= k
  BY <1>1, <1>2, Least
<1>4. m # 0 /\ m \in 0 .. n /\ m \notin S
  BY <1>3
<1>5. m - 1 \in 0 .. n /\ m - 1 # n /\ ~(m <= m - 1)
  BY <1>4
<1>6. m - 1 \in S
  BY <1>3, <1>5
<1> QED BY <1>4, <1>5, <1>6

\* A function that is defined along the natural numbers up to n exists.
LEMMA RecursionExists ==
  ASSUME NEW n \in Nat, NEW start \in Int, NEW step \in [1 .. n -> [Int -> Int]]
  PROVE  \E f \in [0 .. n -> Int] :
           /\ f[0] = start
           /\ \A k \in 1 .. n : f[k] = step[k][f[k - 1]]
<1> DEFINE Good(f, m) == /\ f \in [0 .. n -> Int] /\ f[0] = start
                         /\ \A k \in 1 .. m : f[k] = step[k][f[k - 1]]
           S == {m \in 0 .. n : \E f : Good(f, m)}
<1>1. 0 \in S
  <2> DEFINE f == [k \in 0 .. n |-> start]
  <2>1. f \in [0 .. n -> Int] /\ f[0] = start
    OBVIOUS
  <2> HIDE DEF f
  <2>2. Good(f, 0)
    BY <2>1
  <2>3. 0 \in 0 .. n
    OBVIOUS
  <2> HIDE DEF Good
  <2> QED BY <2>2, <2>3
<1>2. ASSUME NEW m \in 0 .. n, m # n, m \in S
      PROVE  m + 1 \in S
  <2>1. PICK f : Good(f, m)
    BY <1>2
  <2> DEFINE last == step[m + 1][f[m]]
             g == [f EXCEPT ![m + 1] = last]
  <2>2. m + 1 \in 1 .. n /\ f[m] \in Int
    BY <1>2, <2>1
  <2>3. last \in Int
    BY <2>2
  <2> HIDE DEF last
  <2>4. g \in [0 .. n -> Int] /\ g[m + 1] = last /\ \A k \in 0 .. m : g[k] = f[k]
    <3>1. m + 1 \in 0 .. n /\ \A k \in 0 .. m : k \in 0 .. n /\ k # m + 1
      <4> HIDE DEF S
      <4> QED BY <1>2
    <3>2. f \in [0 .. n -> Int]
      BY <2>1
    <3> QED BY <2>3, <3>1, <3>2
  <2> HIDE DEF g
  <2>5. ASSUME NEW k \in 1 .. m + 1
        PROVE  g[k] = step[k][g[k - 1]]
    <3>1. CASE k = m + 1
      <4>1. k - 1 = m /\ m \in 0 .. m
        BY <1>2, <3>1
      <4>2. g[k - 1] = f[m]
        BY <2>4, <4>1
      <4> QED BY <2>4, <3>1, <4>2 DEF last
    <3>2. CASE k # m + 1
      <4>1. k \in 1 .. m /\ k \in 0 .. m /\ k - 1 \in 0 .. m
        BY <1>2, <3>2
      <4> QED BY <2>1, <2>4, <4>1
    <3> QED BY <3>1, <3>2
  <2>6. Good(g, m + 1)
    <3>1. 0 \in 0 .. m
      BY <1>2
    <3>2. g[0] = start
      BY <2>1, <2>4, <3>1
    <3> QED BY <2>4, <2>5, <3>2
  <2>7. m + 1 \in 0 .. n
    BY <2>2
  <2> HIDE DEF Good
  <2> QED BY <2>6, <2>7
<1> HIDE DEF S
<1>3. 0 .. n \subseteq S
  BY <1>1, <1>2, UpTo
<1>4. n \in S
  BY <1>3
<1>5. PICK f : Good(f, n)
  BY <1>4 DEF S
<1> QED BY <1>5

LEMMA InstallmentFields ==
  ASSUME NEW rows \in Seq(Installment)
  PROVE  /\ Len(rows) \in Nat /\ DOMAIN rows = 1 .. Len(rows)
         /\ \A k \in 1 .. Len(rows) :
              /\ rows[k] \in Installment /\ rows[k].due \in Int /\ rows[k].paid \in Int
              /\ rows[k].status \in ScheduleStatus /\ Owed(rows[k]) \in Int
<1>1. Len(rows) \in Nat /\ \A k \in 1 .. Len(rows) : rows[k] \in Installment
  BY ElementOfSeq, LenProperties
<1> QED BY <1>1, LenProperties DEF Installment, Owed

\* Partial sums of what a schedule asks for.
IsSum(sum, rows) ==
  /\ sum \in [0 .. Len(rows) -> Int] /\ sum[0] = 0
  /\ \A k \in 1 .. Len(rows) : sum[k] = sum[k - 1] + Owed(rows[k])

LEMMA SumExists ==
  ASSUME NEW rows \in Seq(Installment)
  PROVE  \E sum : IsSum(sum, rows) /\ Outstanding(rows) = sum[Len(rows)]
<1> DEFINE n == Len(rows)
           Is(f) == f = [k \in 0 .. n |->
                          IF k = 0 THEN 0
                          ELSE f[k - 1] + IF rows[k].status = "deleted" THEN 0
                                          ELSE rows[k].due - rows[k].paid]
           sum == CHOOSE f : Is(f)
           step == [k \in 1 .. n |-> [x \in Int |-> x + Owed(rows[k])]]
<1>1. n \in Nat /\ \A k \in 1 .. n : Owed(rows[k]) \in Int
  BY InstallmentFields
<1>2. step \in [1 .. n -> [Int -> Int]]
  BY <1>1
<1>3. \E f : Is(f)
  <2>1. PICK f \in [0 .. n -> Int] : f[0] = 0 /\ \A k \in 1 .. n : f[k] = step[k][f[k - 1]]
    <3> HIDE DEF step, n
    <3>1. \E f \in [0 .. n -> Int] : f[0] = 0 /\ \A k \in 1 .. n : f[k] = step[k][f[k - 1]]
      <4>1. n \in Nat /\ 0 \in Int /\ step \in [1 .. n -> [Int -> Int]]
        BY <1>1, <1>2
      <4> QED BY <4>1, RecursionExists
    <3> QED BY <3>1
  <2>2. \A k \in 0 .. n : f[k] = IF k = 0 THEN 0
                                 ELSE f[k - 1] + IF rows[k].status = "deleted" THEN 0
                                                 ELSE rows[k].due - rows[k].paid
    <3>1. TAKE k \in 0 .. n
    <3>2. CASE k # 0
      <4>1. k \in 1 .. n /\ k - 1 \in 0 .. n
        BY <1>1, <3>2
      <4>2. f[k - 1] \in Int /\ step[k][f[k - 1]] = f[k - 1] + Owed(rows[k])
        BY <2>1, <4>1
      <4> QED BY <2>1, <3>2, <4>1, <4>2 DEF Owed
    <3> QED BY <2>1, <3>2
  <2> QED BY <2>1, <2>2
<1>4. Is(sum)
  <2> HIDE DEF Is
  <2> QED BY <1>3
<1>5. Outstanding(rows) = sum[n]
  BY DEF Outstanding
<1>6. sum[0] = 0 /\ \A k \in 1 .. n : sum[k] = sum[k - 1] + Owed(rows[k])
  <2> HIDE DEF sum
  <2>1. \A k \in 0 .. n : sum[k] = IF k = 0 THEN 0
                                   ELSE sum[k - 1] + IF rows[k].status = "deleted" THEN 0
                                                     ELSE rows[k].due - rows[k].paid
    BY <1>4
  <2> QED BY <1>1, <2>1 DEF Owed
<1>7. sum = [k \in 0 .. n |-> sum[k]]
  <2> HIDE DEF sum
  <2> QED BY <1>4
<1> HIDE DEF sum, Is, step
<1>8. 0 .. n \subseteq {k \in 0 .. n : sum[k] \in Int}
  <2> DEFINE S == {k \in 0 .. n : sum[k] \in Int}
  <2>1. 0 \in S
    BY <1>1, <1>6
  <2>2. ASSUME NEW k \in 0 .. n, k # n, k \in S
        PROVE  k + 1 \in S
    <3>1. k + 1 \in 1 .. n /\ (k + 1) - 1 = k
      BY <1>1, <2>2
    <3> QED BY <1>1, <1>6, <2>2, <3>1
  <2> HIDE DEF S
  <2>3. 0 .. n \subseteq S
    BY <1>1, <2>1, <2>2, UpTo
  <2> QED BY <2>3 DEF S
<1> QED BY <1>5, <1>6, <1>7, <1>8 DEF IsSum

\* There is only one way to add a schedule up.
LEMMA OutstandingIs ==
  ASSUME NEW rows \in Seq(Installment), NEW f, f[0] = 0,
         \A k \in 1 .. Len(rows) : f[k] = f[k - 1] + Owed(rows[k])
  PROVE  Outstanding(rows) = f[Len(rows)]
<1> DEFINE n == Len(rows)
<1>1. PICK sum : IsSum(sum, rows) /\ Outstanding(rows) = sum[n]
  BY SumExists
<1> DEFINE S == {k \in 0 .. n : sum[k] = f[k]}
<1>2. n \in Nat
  BY InstallmentFields
<1>3. 0 \in S
  BY <1>1, <1>2 DEF IsSum
<1>4. ASSUME NEW k \in 0 .. n, k # n, k \in S
      PROVE  k + 1 \in S
  <2>1. k + 1 \in 1 .. n /\ (k + 1) - 1 = k
    BY <1>2, <1>4
  <2> QED BY <1>1, <1>4, <2>1 DEF IsSum
<1> HIDE DEF S
<1>5. 0 .. n \subseteq S
  BY <1>2, <1>3, <1>4, UpTo
<1>6. n \in S
  BY <1>2, <1>5
<1> QED BY <1>1, <1>6 DEF S

\* A schedule of which nothing is owed asks for nothing.
LEMMA NothingOutstanding ==
  ASSUME NEW rows \in Seq(Installment), \A k \in 1 .. Len(rows) : Owed(rows[k]) = 0
  PROVE  Outstanding(rows) = 0
<1> DEFINE f == [k \in 0 .. Len(rows) |-> 0]
<1>1. Len(rows) \in Nat
  BY InstallmentFields
<1>2. f[0] = 0 /\ f[Len(rows)] = 0
  BY <1>1
<1>3. ASSUME NEW k \in 1 .. Len(rows)
      PROVE  f[k] = f[k - 1] + Owed(rows[k])
  <2>1. k \in 0 .. Len(rows) /\ k - 1 \in 0 .. Len(rows)
    BY <1>1
  <2> QED BY <2>1
<1> HIDE DEF f
<1> QED BY <1>2, <1>3, OutstandingIs

\* What two schedules ask for, one after the other, is what both ask for.
LEMMA OutstandingConcat ==
  ASSUME NEW rows \in Seq(Installment), NEW more \in Seq(Installment)
  PROVE  Outstanding(rows \o more) = Outstanding(rows) + Outstanding(more)
<1> DEFINE n == Len(rows)
           m == Len(more)
           all == rows \o more
<1>1. n \in Nat /\ m \in Nat
  BY InstallmentFields
<1>2. PICK p : IsSum(p, rows) /\ Outstanding(rows) = p[n]
  BY SumExists
<1>3. PICK q : IsSum(q, more) /\ Outstanding(more) = q[m]
  BY SumExists
<1>4. /\ all \in Seq(Installment) /\ Len(all) = n + m
      /\ \A k \in 1 .. n + m : all[k] = IF k <= n THEN rows[k] ELSE more[k - n]
  BY <1>1, ConcatProperties
<1> DEFINE f == [k \in 0 .. n + m |-> IF k <= n THEN p[k] ELSE p[n] + q[k - n]]
<1>5. p[0] = 0 /\ q[0] = 0 /\ p \in [0 .. n -> Int] /\ q \in [0 .. m -> Int]
  BY <1>2, <1>3 DEF IsSum
<1>6. ASSUME NEW k \in 0 .. n + m
      PROVE  f[k] = IF k <= n THEN p[k] ELSE p[n] + q[k - n]
  OBVIOUS
<1> HIDE DEF f, all
<1>7. f[0] = 0 /\ f[n + m] = p[n] + q[m]
  <2>1. 0 \in 0 .. n + m /\ n + m \in 0 .. n + m /\ 0 <= n /\ (n + m <= n => m = 0)
        /\ (n + m) - n = m
    BY <1>1
  <2>2. f[0] = 0
    BY <1>5, <1>6, <2>1
  <2>3. CASE m = 0
    <3>1. f[n + m] = p[n] /\ p[n] \in Int /\ q[m] = 0
      BY <1>1, <1>5, <1>6, <2>1, <2>3
    <3> QED BY <2>2, <3>1
  <2>4. CASE m # 0
    <3>1. ~(n + m <= n)
      BY <2>1, <2>4
    <3> QED BY <1>6, <2>1, <2>2, <3>1
  <2> QED BY <2>3, <2>4
<1>8. ASSUME NEW k \in 1 .. n + m
      PROVE  f[k] = f[k - 1] + Owed(all[k])
  <2>1. k \in 0 .. n + m /\ k - 1 \in 0 .. n + m
    BY <1>1
  <2>2. CASE k <= n
    <3>1. k \in 1 .. n /\ k - 1 <= n
      BY <1>1, <2>2
    <3>2. p[k] = p[k - 1] + Owed(rows[k])
      BY <1>2, <3>1 DEF IsSum
    <3> QED BY <1>4, <1>6, <2>1, <2>2, <3>1, <3>2
  <2>3. CASE ~(k <= n)
    <3>1. k - n \in 1 .. m /\ (k - n) - 1 = (k - 1) - n /\ k - n \in 0 .. m /\ (k - n) - 1 \in 0 .. m
      BY <1>1, <2>3
    <3>2. q[k - n] = q[(k - n) - 1] + Owed(more[k - n])
      BY <1>3, <3>1 DEF IsSum
    <3>3. p[n] \in Int /\ q[(k - n) - 1] \in Int /\ Owed(more[k - n]) \in Int
      BY <1>1, <1>5, <3>1, InstallmentFields
    <3>4. f[k] = p[n] + q[k - n] /\ all[k] = more[k - n]
      BY <1>4, <1>6, <2>1, <2>3
    <3>5. f[k - 1] = p[n] + q[(k - n) - 1]
      <4>1. CASE k - 1 <= n
        <5>1. k - 1 = n /\ (k - n) - 1 = 0
          BY <1>1, <2>3, <4>1
        <5> QED BY <1>5, <1>6, <2>1, <3>3, <4>1, <5>1
      <4>2. CASE ~(k - 1 <= n)
        BY <1>6, <2>1, <3>1, <4>2
      <4> QED BY <4>1, <4>2
    <3> QED BY <3>2, <3>3, <3>4, <3>5
  <2> QED BY <2>2, <2>3
<1>9. Outstanding(all) = f[n + m]
  BY <1>4, <1>7, <1>8, OutstandingIs
<1> QED BY <1>2, <1>3, <1>7, <1>9 DEF all

\* A new schedule asks for the balance to the cent, however it was rounded:
\* the last installment takes what the others leave.
THEOREM NewScheduleAddsUp ==
  \A balance \in Nat, n \in Nat \ {0} : Outstanding(NewSchedule(balance, n)) = balance
<1> TAKE balance \in Nat, n \in Nat \ {0}
<1> DEFINE q == Quantized(balance, n)
           rows == NewSchedule(balance, n)
           f == [k \in 0 .. n |-> IF k = n THEN balance ELSE k * q]
<1>1. q \in Int
  <2>1. balance \div n \in Int
    OBVIOUS
  <2> QED BY <2>1 DEF Quantized
<1>2. rows \in Seq(Installment)
  BY ScheduleTyped
<1>3. rows = [k \in 1 .. n |-> [due |-> IF k = n THEN balance - (n - 1) * q ELSE q,
                                paid |-> 0, status |-> "pending"]]
  BY DEF NewSchedule
<1> HIDE DEF q, rows
<1>4. Len(rows) = n
  BY <1>2, <1>3, InstallmentFields
<1>5. ASSUME NEW k \in 1 .. n
      PROVE  Owed(rows[k]) = IF k = n THEN balance - (n - 1) * q ELSE q
  <2>1. (n - 1) * q \in Int
    BY <1>1
  <2> DEFINE x == (n - 1) * q
  <2>2. rows[k].status = "pending" /\ rows[k].paid = 0
        /\ rows[k].due = IF k = n THEN balance - x ELSE q
    BY <1>3
  <2> HIDE DEF x
  <2> QED BY <1>1, <2>1, <2>2 DEF Owed, x
<1>6. f[0] = 0 /\ f[n] = balance
  <2>1. 0 * q = 0 /\ 0 # n /\ 0 \in 0 .. n /\ n \in 0 .. n
    BY <1>1
  <2> QED BY <2>1
<1>7. ASSUME NEW k \in 1 .. n
      PROVE  f[k] = f[k - 1] + Owed(rows[k])
  <2>1. k \in 0 .. n /\ k - 1 \in 0 .. n /\ k - 1 # n
    OBVIOUS
  <2>2. f[k - 1] = (k - 1) * q /\ f[k] = IF k = n THEN balance ELSE k * q
    BY <2>1
  <2>3. k * q = (k - 1) * q + q /\ (k - 1) * q \in Int
    BY <1>1
  <2> HIDE DEF f
  <2>4. CASE k = n
    <3>1. f[k - 1] = (n - 1) * q /\ (n - 1) * q \in Int
      BY <2>2, <2>3, <2>4
    <3> DEFINE x == (n - 1) * q
    <3> HIDE DEF x
    <3>2. f[k - 1] = x /\ x \in Int /\ f[k] = balance /\ Owed(rows[k]) = balance - x
      BY <1>5, <2>2, <2>4, <3>1 DEF x
    <3> QED BY <3>2
  <2>5. CASE k # n
    BY <1>5, <2>2, <2>3, <2>5
  <2> QED BY <2>4, <2>5
<1> HIDE DEF f
<1>8. Outstanding(rows) = f[Len(rows)]
  BY <1>2, <1>4, <1>6, <1>7, OutstandingIs
<1> QED BY <1>4, <1>6, <1>8 DEF rows

-----------------------------------------------------------------------------
(* Payments. *)

\* What an installment takes, and what is left after it.
LEMMA ShareBounds ==
  ASSUME NEW i \in Installment, NEW left \in Nat
  PROVE  LET share == Share(i, left) IN
         /\ share \in Nat /\ share <= left
         /\ share # 0 => IsOpen(i) /\ share <= i.due - i.paid
         /\ IsOpen(i) /\ share < left => i.due - i.paid <= share
<1>1. i.due \in Int /\ i.paid \in Int
  BY DEF Installment
<1> DEFINE d == i.due - i.paid
<1>2. /\ d \in Int
      /\ Share(i, left) = IF IsOpen(i) /\ left > 0 /\ d > 0
                          THEN IF d < left THEN d ELSE left ELSE 0
  BY <1>1 DEF Share
<1> HIDE DEF d
<1>3. CASE IsOpen(i)
  BY <1>2, <1>3 DEF d
<1>4. CASE ~IsOpen(i)
  BY <1>2, <1>4
<1> QED BY <1>3, <1>4

\* What an installment looks like after it took its share.
LEMMA AllocatedFields ==
  ASSUME NEW i \in Installment, NEW left \in Nat, i.status = "paid" => i.due = i.paid
  PROVE  LET share == Share(i, left)
             new == Allocated(i, share)
         IN  /\ Owed(new) = Owed(i) - share /\ new.due = i.due
             /\ new.status = "paid" => new.due = new.paid
             /\ ~IsOpen(i) => new = i
<1> DEFINE share == Share(i, left)
           new == Allocated(i, share)
<1>1. /\ share \in Nat /\ i.due \in Int /\ i.paid \in Int
      /\ share # 0 => i.status \in {"pending", "partial"} /\ share <= i.due - i.paid
  BY ShareBounds DEF IsOpen, Installment
<1>2. CASE share = 0
  <2>1. new = i
    BY <1>2 DEF Allocated
  <2>2. Owed(i) \in Int
    BY <1>1 DEF Owed
  <2>3. Owed(i) = Owed(i) - share
    BY <1>2, <2>2
  <2> QED BY <2>1, <2>3
<1>3. CASE share # 0
  <2> DEFINE s == IF i.paid + share >= i.due THEN "paid" ELSE "partial"
  <2>1. new = [i EXCEPT !.paid = i.paid + share, !.status = s]
    BY <1>3 DEF Allocated
  <2>2. /\ s = "paid" => i.paid + share >= i.due
        /\ s \in {"paid", "partial"}
    OBVIOUS
  <2> HIDE DEF s, share, new
  <2>3. new.paid = i.paid + share /\ new.status = s /\ new.due = i.due
    BY <2>1 DEF Installment
  <2>4. Owed(new) = i.due - (i.paid + share) /\ Owed(i) = i.due - i.paid
    BY <1>1, <1>3, <2>2, <2>3 DEF Owed
  <2>5. IsOpen(i)
    BY <1>1, <1>3 DEF IsOpen
  <2>6. new.status = "paid" => new.due = new.paid
    BY <1>1, <1>3, <2>2, <2>3
  <2> QED BY <1>1, <2>3, <2>4, <2>5, <2>6 DEF share, new
<1> QED BY <1>2, <1>3

\* What is left of a payment never grows and never goes below zero.
LEMMA LeftNat ==
  ASSUME NEW rows \in Seq(Installment), NEW amount \in Nat
  PROVE  Left(rows, amount) \in [0 .. Len(rows) -> Nat]
<1> DEFINE left == Left(rows, amount)
           n == Len(rows)
           S == {k \in 0 .. n : left[k] \in Nat}
<1>1. /\ left \in [0 .. n -> Int] /\ left[0] = amount /\ n \in Nat
      /\ \A k \in 1 .. n : left[k] = left[k - 1] - Share(rows[k], left[k - 1])
      /\ \A k \in 1 .. n : rows[k] \in Installment
  BY LeftTyped, InstallmentFields
<1> HIDE DEF left
<1>2. 0 \in S
  BY <1>1
<1>3. ASSUME NEW k \in 0 .. n, k # n, k \in S
      PROVE  k + 1 \in S
  <2>1. k + 1 \in 1 .. n /\ (k + 1) - 1 = k /\ k + 1 \in 0 .. n /\ left[k] \in Nat
    BY <1>1, <1>3
  <2>2. left[k + 1] = left[k] - Share(rows[k + 1], left[k])
    BY <1>1, <2>1
  <2>3. Share(rows[k + 1], left[k]) \in Nat /\ Share(rows[k + 1], left[k]) <= left[k]
    BY <1>1, <2>1, ShareBounds
  <2>4. left[k + 1] \in Nat
    BY <2>1, <2>2, <2>3
  <2> QED BY <2>1, <2>4
<1> HIDE DEF S
<1>4. 0 .. n \subseteq S
  BY <1>1, <1>2, <1>3, UpTo
<1> QED BY <1>1, <1>4 DEF S, left

\* Nothing is left of a payment that is no more than the schedule asks for: as
\* long as something is left, all open installments so far are filled.
LEMMA NothingLeft ==
  ASSUME NEW rows \in Seq(Installment), NEW amount \in Nat, amount <= Outstanding(rows),
         \A k \in 1 .. Len(rows) : rows[k].status = "paid" => rows[k].due = rows[k].paid
  PROVE  Left(rows, amount)[Len(rows)] = 0
<1> DEFINE left == Left(rows, amount)
           n == Len(rows)
<1>1. PICK sum : IsSum(sum, rows) /\ Outstanding(rows) = sum[n]
  BY SumExists
<1>2. /\ left \in [0 .. n -> Nat] /\ left[0] = amount /\ n \in Nat
      /\ \A k \in 1 .. n : left[k] = left[k - 1] - Share(rows[k], left[k - 1])
      /\ \A k \in 1 .. n : rows[k] \in Installment /\ Owed(rows[k]) \in Int
  BY LeftNat, LeftTyped, InstallmentFields
<1>3. /\ sum \in [0 .. n -> Int] /\ sum[0] = 0
      /\ \A k \in 1 .. n : sum[k] = sum[k - 1] + Owed(rows[k])
  BY <1>1 DEF IsSum
<1> HIDE DEF left
<1> DEFINE S == {k \in 0 .. n : left[k] = 0 \/ sum[k] + left[k] <= amount}
<1>4. 0 \in S
  BY <1>2, <1>3
<1>5. ASSUME NEW k \in 0 .. n, k # n, k \in S
      PROVE  k + 1 \in S
  <2> DEFINE j == k + 1
             i == rows[j]
             share == Share(i, left[k])
  <2>1. /\ j \in 1 .. n /\ j \in 0 .. n /\ j - 1 = k /\ left[k] \in Nat /\ left[j] \in Nat
        /\ sum[k] \in Int /\ i \in Installment
    BY <1>2, <1>3, <1>5
  <2>2. left[j] = left[k] - share /\ sum[j] = sum[k] + Owed(i)
    BY <1>2, <1>3, <2>1
  <2>3. /\ share \in Nat /\ share <= left[k]
        /\ IsOpen(i) /\ share < left[k] => i.due - i.paid <= share
    BY <2>1, ShareBounds
  <2>4. i.due \in Int /\ i.paid \in Int /\ i.status \in ScheduleStatus
    BY <2>1 DEF Installment
  <2>5. i.status = "paid" => i.due = i.paid
    BY <2>1
  <2>6. left[k] = 0 \/ sum[k] + left[k] <= amount
    BY <1>5
  <2> HIDE DEF i, share, j, S
  <2>7. left[j] # 0 => share < left[k] /\ left[k] # 0
    BY <2>1, <2>2, <2>3
  <2>8. left[j] # 0 => Owed(i) <= share /\ Owed(i) \in Int
    BY <2>3, <2>4, <2>5, <2>7 DEF Owed, IsOpen, ScheduleStatus
  <2>9. left[j] # 0 => sum[j] + left[j] <= amount
    BY <2>1, <2>2, <2>3, <2>6, <2>7, <2>8
  <2> QED BY <2>1, <2>9 DEF S, j
<1> HIDE DEF S
<1>6. 0 .. n \subseteq S
  BY <1>2, <1>4, <1>5, UpTo
<1>7. left[n] = 0 \/ sum[n] + left[n] <= amount
  BY <1>2, <1>6 DEF S
<1>8. left[n] \in Nat /\ sum[n] \in Int /\ amount <= sum[n]
  BY <1>1, <1>2, <1>3
<1> QED BY <1>7, <1>8 DEF left

\* A payment of no more than the schedule asks for is spread over the open
\* installments without a cent lost or counted twice, fills the ones it calls
\* paid to the cent, and touches no other.
THEOREM PaymentIsSpread ==
  ASSUME NEW rows \in Seq(Installment), NEW amount \in Nat, amount <= Outstanding(rows),
         \A k \in 1 .. Len(rows) : rows[k].status = "paid" => rows[k].due = rows[k].paid
  PROVE  /\ Allocate(rows, amount) \in Seq(Installment)
         /\ Len(Allocate(rows, amount)) = Len(rows)
         /\ Outstanding(Allocate(rows, amount)) = Outstanding(rows) - amount
         /\ \A k \in 1 .. Len(rows) :
              LET new == Allocate(rows, amount)[k] IN
              /\ new.due = rows[k].due
              /\ new.status = "paid" => new.due = new.paid
              /\ ~IsOpen(rows[k]) => new = rows[k]
<1> DEFINE left == Left(rows, amount)
           n == Len(rows)
           new == Allocate(rows, amount)
<1>1. PICK sum : IsSum(sum, rows) /\ Outstanding(rows) = sum[n]
  BY SumExists
<1>2. /\ left \in [0 .. n -> Nat] /\ left[0] = amount /\ n \in Nat /\ left[n] = 0
      /\ \A k \in 1 .. n : left[k] = left[k - 1] - Share(rows[k], left[k - 1])
      /\ \A k \in 1 .. n : rows[k] \in Installment /\ Owed(rows[k]) \in Int
      /\ DOMAIN rows = 1 .. n
  BY LeftNat, LeftTyped, NothingLeft, InstallmentFields
<1>3. /\ sum \in [0 .. n -> Int] /\ sum[0] = 0
      /\ \A k \in 1 .. n : sum[k] = sum[k - 1] + Owed(rows[k])
  BY <1>1 DEF IsSum
<1>4. new \in [1 .. n -> Installment]
  BY <1>2, AllocateTyped
<1>5. \A k \in 1 .. n : new[k] = Allocated(rows[k], Share(rows[k], left[k - 1]))
  BY <1>2 DEF Allocate
<1> HIDE DEF new, left
<1>6. new \in Seq(Installment) /\ Len(new) = n
  BY <1>2, <1>4
<1>7. ASSUME NEW k \in 1 .. n
      PROVE  /\ k - 1 \in 0 .. n /\ k \in 0 .. n
             /\ Owed(new[k]) = Owed(rows[k]) - Share(rows[k], left[k - 1])
             /\ new[k].due = rows[k].due
             /\ new[k].status = "paid" => new[k].due = new[k].paid
             /\ ~IsOpen(rows[k]) => new[k] = rows[k]
             /\ Share(rows[k], left[k - 1]) \in Nat
  <2>1. k - 1 \in 0 .. n /\ k \in 0 .. n /\ rows[k] \in Installment
    BY <1>2
  <2>2. left[k - 1] \in Nat
    BY <1>2, <2>1
  <2>3. rows[k].status = "paid" => rows[k].due = rows[k].paid
    OBVIOUS
  <2>4. new[k] = Allocated(rows[k], Share(rows[k], left[k - 1]))
    BY <1>5
  <2>5. Share(rows[k], left[k - 1]) \in Nat
    BY <2>1, <2>2, ShareBounds
  <2> QED BY <2>1, <2>2, <2>3, <2>4, <2>5, AllocatedFields
<1> DEFINE f == [k \in 0 .. n |-> sum[k] - (amount - left[k])]
<1>8. f[0] = 0 /\ f[n] = sum[n] - amount
  BY <1>2, <1>3
<1>9. ASSUME NEW k \in 1 .. n
      PROVE  f[k] = f[k - 1] + Owed(new[k])
  <2> DEFINE share == Share(rows[k], left[k - 1])
  <2>1. /\ k \in 0 .. n /\ k - 1 \in 0 .. n /\ share \in Nat
        /\ left[k] = left[k - 1] - share /\ sum[k] = sum[k - 1] + Owed(rows[k])
        /\ Owed(new[k]) = Owed(rows[k]) - share
    BY <1>2, <1>3, <1>7
  <2>2. left[k - 1] \in Nat /\ sum[k - 1] \in Int /\ Owed(rows[k]) \in Int
    BY <1>2, <1>3, <2>1
  <2>3. f[k] = sum[k] - (amount - left[k]) /\ f[k - 1] = sum[k - 1] - (amount - left[k - 1])
    BY <2>1
  <2> HIDE DEF share, f
  <2> QED BY <2>1, <2>2, <2>3
<1> HIDE DEF f
<1>10. Outstanding(new) = f[n]
  BY <1>6, <1>8, <1>9, OutstandingIs
<1> QED BY <1>1, <1>6, <1>7, <1>8, <1>10 DEF new

\* Where the first open installment is.
LEMMA FirstOpenIs ==
  ASSUME NEW rows \in Seq(Installment)
  PROVE  \/ FirstOpen(rows) = 0 /\ \A k \in 1 .. Len(rows) : ~IsOpen(rows[k])
         \/ /\ FirstOpen(rows) \in 1 .. Len(rows)
            /\ \A k \in 1 .. FirstOpen(rows) - 1 : ~IsOpen(rows[k])
<1> DEFINE I == {i \in 1 .. Len(rows) : IsOpen(rows[i])}
<1>1. FirstOpen(rows) = IF I # {} THEN Min(I) ELSE 0
  BY DEF FirstOpen, SelectInSeq
<1>2. I \in SUBSET Nat /\ Len(rows) \in Nat
  BY LenProperties
<1>3. CASE I = {}
  BY <1>1, <1>3
<1>4. CASE I # {}
  <2> HIDE DEF I
  <2>1. \E m \in I : \A k \in I : m <= k
    BY <1>2, <1>4, Least
  <2>2. Min(I) \in I /\ \A k \in I : Min(I) <= k
    BY <2>1 DEF Min
  <2> DEFINE m == Min(I)
  <2> HIDE DEF m
  <2>3. m \in I /\ \A k \in I : m <= k
    BY <2>2 DEF m
  <2>4. m \in 1 .. Len(rows)
    BY <2>3 DEF I
  <2>5. ASSUME NEW k \in 1 .. m - 1
        PROVE  ~IsOpen(rows[k])
    <3>1. k \in 1 .. Len(rows) /\ ~(m <= k)
      BY <1>2, <2>4
    <3>2. k \notin I
      BY <2>3, <3>1
    <3> QED BY <3>1, <3>2 DEF I
  <2>6. FirstOpen(rows) = m
    BY <1>1, <1>4 DEF m
  <2> QED BY <2>4, <2>5, <2>6
<1> QED BY <1>3, <1>4

\* A payment computed from the installments as they still are is what reaches
\* the table.
LEMMA PaidIntoIs ==
  ASSUME NEW rows \in Seq(Installment), NEW new \in Seq(Installment), Len(new) = Len(rows),
         \A k \in 1 .. Len(rows) : new[k].due = rows[k].due
  PROVE  PaidInto(rows, rows, new) = new
<1> DEFINE n == Len(rows)
<1>1. /\ n \in Nat /\ DOMAIN rows = 1 .. n /\ DOMAIN new = 1 .. n
      /\ \A k \in 1 .. n : rows[k] \in Installment /\ new[k] \in Installment
  BY InstallmentFields
<1>2. ASSUME NEW k \in 1 .. n
      PROVE  [due    |-> rows[k].due,
              paid   |-> Written(rows[k].paid, rows[k].paid, new[k].paid),
              status |-> Written(rows[k].status, rows[k].status, new[k].status)] = new[k]
  <2>1. new[k] = [due |-> new[k].due, paid |-> new[k].paid, status |-> new[k].status]
    BY <1>1 DEF Installment
  <2>2. /\ Written(rows[k].paid, rows[k].paid, new[k].paid) = new[k].paid
        /\ Written(rows[k].status, rows[k].status, new[k].status) = new[k].status
    BY DEF Written
  <2> QED BY <2>1, <2>2
<1>3. PaidInto(rows, rows, new) = [k \in 1 .. n |-> new[k]]
  <2>1. PaidInto(rows, rows, new) =
          [k \in 1 .. n |->
            [due    |-> rows[k].due,
             paid   |-> Written(rows[k].paid, rows[k].paid, new[k].paid),
             status |-> Written(rows[k].status, rows[k].status, new[k].status)]]
    BY <1>1 DEF PaidInto
  <2> QED BY <1>2, <2>1
<1>4. new = [k \in 1 .. n |-> new[k]]
  BY <1>1
<1> QED BY <1>3, <1>4

-----------------------------------------------------------------------------
(* The invariant. *)

\* What a request knows of its layby as long as no two requests have met on it:
\* everything is still as it was loaded, and what was checked still holds.
AsLoaded(r) ==
  /\ r.row = layby[r.of]
  /\ r.kind = "pay" => layby[r.of].status = "active" /\ r.rows = schedule[r.of]
  /\ r.kind = "extend" => layby[r.of].status = "active" /\ layby[r.of].extensions < MaxExtensions
  /\ r.kind = "collect" => layby[r.of].status = "ready_for_collection"
  /\ r.kind = "cancel" => layby[r.of].status \in {"active", "ready_for_collection"}

AloneInv ==
  \A w \in Workers : request[w].kind # "idle" /\ met[request[w].of] = {} => AsLoaded(request[w])

\* The installments of a layby ask for its balance, those that are paid to the
\* cent, and the next one has no open one before it.
ScheduleSound(l) ==
  /\ Outstanding(schedule[l]) = layby[l].balance
  /\ \A k \in 1 .. Len(schedule[l]) :
       schedule[l][k].status = "paid" => schedule[l][k].due = schedule[l][k].paid
  /\ layby[l].status = "active" /\ layby[l].balance > 0 =>
       /\ next[l] \in 1 .. Len(schedule[l])
       /\ \A k \in 1 .. next[l] - 1 : ~IsOpen(schedule[l][k])

\* A layby whose schedule is to be followed.
Scheduled(l) == l \notin mixed /\ met[l] = {} /\ layby[l].status \in {"active", "ready_for_collection"}

ScheduleInv == AloneInv /\ \A l \in Laybys : Scheduled(l) => ScheduleSound(l)

\* A step that leaves the tables alone.
LEMMA TablesStay ==
  ASSUME LaybyInv, ScheduleInv, UNCHANGED <<layby, schedule, next, met, mixed>>,
         NEW w \in Workers, \A v \in Workers \ {w} : request'[v] = request[v],
         request'[w].kind # "idle" /\ met[request'[w].of] = {} => AsLoaded(request'[w])
  PROVE  ScheduleInv'
<1>1. ASSUME NEW v \in Workers, request'[v].kind # "idle", met[request'[v].of] = {}
      PROVE  AsLoaded(request'[v])
  BY <1>1 DEF ScheduleInv, AloneInv
<1>2. AloneInv'
  BY <1>1 DEF AloneInv, AsLoaded
<1>3. ASSUME NEW l \in Laybys, Scheduled(l)'
      PROVE  ScheduleSound(l)'
  BY <1>3 DEF ScheduleInv, Scheduled, ScheduleSound
<1> QED BY <1>2, <1>3 DEF ScheduleInv

\* What is left to show of a commit is its own layby, if it met no one.
LEMMA Committed ==
  ASSUME LaybyInv, ScheduleInv, NEW w \in Workers, request[w].kind # "idle",
         NoteMeeting(w), EndRequest(w), NEW l \in Laybys, l = request[w].of,
         \A m \in Laybys \ {l} : /\ layby'[m] = layby[m] /\ schedule'[m] = schedule[m]
                                 /\ next'[m] = next[m] /\ (m \in mixed => m \in mixed'),
         Scheduled(l)' /\ met[l] = {} /\ AsLoaded(request[w]) => ScheduleSound(l)'
  PROVE  ScheduleInv'
<1>0. LaybyTypeOK
  BY DEF LaybyInv
<1>1. request'[w].kind = "idle" /\ \A v \in Workers \ {w} : request'[v] = request[v]
  BY <1>0, Ended
<1>2. /\ \A m \in Laybys \ {l} : met'[m] = met[m]
      /\ met[l] \subseteq met'[l]
      /\ \A v \in Workers \ {w} : request[v].kind # "idle" /\ request[v].of = l => met'[l] # {}
  BY <1>0, Noted
<1>3. ASSUME NEW v \in Workers, request'[v].kind # "idle", met'[request'[v].of] = {}
      PROVE  AsLoaded(request[v])'
  <2>1. v # w /\ request'[v] = request[v]
    BY <1>1, <1>3
  <2>2. request[v].of \in Laybys
    BY <1>0, RowFields
  <2>3. request[v].of # l
    BY <1>2, <1>3, <2>1
  <2>4. request[v].of \in Laybys \ {l} /\ met[request[v].of] = {}
    BY <1>2, <1>3, <2>1, <2>2, <2>3
  <2>5. AsLoaded(request[v])
    BY <1>3, <2>1, <2>4 DEF ScheduleInv, AloneInv
  <2> QED BY <2>1, <2>4, <2>5 DEF AsLoaded
<1>4. AloneInv'
  BY <1>3 DEF AloneInv
<1>5. ASSUME NEW m \in Laybys, Scheduled(m)'
      PROVE  ScheduleSound(m)'
  <2>1. CASE m = l
    <3>1. met[l] = {}
      BY <1>2, <1>5, <2>1 DEF Scheduled
    <3>2. AsLoaded(request[w])
      BY <3>1 DEF ScheduleInv, AloneInv
    <3> QED BY <1>5, <2>1, <3>1, <3>2
  <2>2. CASE m # l
    <3>1. m \in Laybys \ {l}
      BY <2>2
    <3>2. Scheduled(m)
      BY <1>2, <1>5, <3>1 DEF Scheduled
    <3>3. ScheduleSound(m)
      BY <3>2 DEF ScheduleInv
    <3> QED BY <3>1, <3>3 DEF ScheduleSound
  <2> QED BY <2>1, <2>2
<1> QED BY <1>4, <1>5 DEF ScheduleInv

LEMMA PaymentKeepsSchedule ==
  ASSUME LaybyInv, ScheduleInv, NEW w \in Workers, NEW l \in Laybys, l = request[w].of,
         CommitPayment(w)
  PROVE  ScheduleInv'
<1> DEFINE r == request[w]
           a == r.amount
           rows == schedule[l]
           new == Allocate(rows, a)
           p == r.row.paid + a
           b == r.row.balance - a
<1>0. /\ LaybyTypeOK /\ r.kind = "pay" /\ r.read /\ NoteMeeting(w) /\ EndRequest(w)
      /\ rows \in Seq(Installment) /\ RequestSound(r) /\ a \in Int
      /\ r.row.paid \in Nat /\ r.row.balance \in Nat
  <2>1. LaybyTypeOK /\ r.kind = "pay" /\ RequestSound(r)
    BY DEF LaybyInv, CommitPayment
  <2> QED BY <2>1, RowFields DEF CommitPayment, LaybyTypeOK
<1>1. /\ RowPaidTo(l, p, b)
      /\ schedule' = [schedule EXCEPT ![l] = PaidInto(@, r.rows, Allocate(r.rows, a))]
      /\ next' = [next EXCEPT ![l] = FirstOpen(rows)]
      /\ mixed' = mixed
  BY DEF CommitPayment, RowPaidTo
<1>2. a \in Nat /\ a > 0 /\ a <= r.row.balance /\ p \in Nat /\ b \in Nat
  <2>1. a > 0 /\ a <= r.row.balance
    BY <1>0 DEF RequestSound
  <2> QED BY <1>0, <2>1
<1>3. /\ \A m \in Laybys \ {l} : layby'[m] = layby[m]
      /\ layby'[l].balance = b
      /\ layby'[l].status = IF b = 0 THEN "ready_for_collection" ELSE layby[l].status
  <2> HIDE DEF p, b
  <2> QED BY <1>0, <1>1, <1>2, RowPaid
<1>4. /\ next'[l] = FirstOpen(rows)
      /\ schedule'[l] = PaidInto(rows, r.rows, Allocate(r.rows, a))
      /\ \A m \in Laybys \ {l} : schedule'[m] = schedule[m] /\ next'[m] = next[m]
  BY <1>0, <1>1 DEF LaybyTypeOK
<1>5. ASSUME Scheduled(l)', met[l] = {}, AsLoaded(r)
      PROVE  ScheduleSound(l)'
  <2>1. /\ r.row = layby[l] /\ r.rows = rows /\ layby[l].status = "active"
    BY <1>0, <1>5 DEF AsLoaded
  <2>2. ScheduleSound(l)
    BY <1>1, <1>5, <2>1 DEF Scheduled, ScheduleInv
  <2>3. /\ Outstanding(rows) = r.row.balance
        /\ \A k \in 1 .. Len(rows) : rows[k].status = "paid" => rows[k].due = rows[k].paid
    BY <2>1, <2>2 DEF ScheduleSound
  <2>4. /\ new \in Seq(Installment) /\ Len(new) = Len(rows)
        /\ Outstanding(new) = b
        /\ \A k \in 1 .. Len(rows) :
             /\ new[k].due = rows[k].due
             /\ new[k].status = "paid" => new[k].due = new[k].paid
             /\ ~IsOpen(rows[k]) => new[k] = rows[k]
    <3>1. a <= Outstanding(rows) /\ Outstanding(rows) - a = b
      BY <2>3, <1>2
    <3> HIDE DEF a, b, rows
    <3> QED BY <1>0, <1>2, <2>3, <3>1, PaymentIsSpread
  <2> HIDE DEF new, b, rows
  <2>5. schedule'[l] = new
    BY <1>0, <1>4, <2>1, <2>4, PaidIntoIs DEF new
  <2>6. b > 0 => /\ next'[l] \in 1 .. Len(new)
                 /\ \A k \in 1 .. next'[l] - 1 : ~IsOpen(new[k])
    <3>1. CASE FirstOpen(rows) = 0 /\ \A k \in 1 .. Len(rows) : ~IsOpen(rows[k])
      <4>1. ASSUME NEW k \in 1 .. Len(rows)
            PROVE  Owed(rows[k]) = 0
        <5>1. /\ rows[k].status \in ScheduleStatus /\ ~IsOpen(rows[k])
              /\ rows[k].due \in Int /\ rows[k].paid \in Int
              /\ rows[k].status = "paid" => rows[k].due = rows[k].paid
          BY <1>0, <2>3, <3>1, InstallmentFields
        <5> QED BY <5>1 DEF Owed, IsOpen, ScheduleStatus
      <4>2. Outstanding(rows) = 0
        BY <1>0, <4>1, NothingOutstanding
      <4> QED BY <1>0, <1>2, <2>3, <4>2
    <3>2. CASE /\ FirstOpen(rows) \in 1 .. Len(rows)
               /\ \A k \in 1 .. FirstOpen(rows) - 1 : ~IsOpen(rows[k])
      <4>1. ASSUME NEW k \in 1 .. next'[l] - 1
            PROVE  ~IsOpen(new[k])
        <5>1. k \in 1 .. Len(rows) /\ ~IsOpen(rows[k])
          <6>1. Len(rows) \in Nat
            BY <1>0, InstallmentFields
          <6> QED BY <1>4, <3>2, <6>1
        <5> QED BY <2>4, <5>1
      <4> QED BY <1>4, <2>4, <3>2, <4>1
    <3> QED BY <1>0, <3>1, <3>2, FirstOpenIs
  <2> QED BY <1>3, <2>4, <2>5, <2>6 DEF ScheduleSound
<1> HIDE DEF new, b, p
<1> QED BY <1>0, <1>1, <1>3, <1>4, <1>5, Committed

LEMMA ExtensionKeepsSchedule ==
  ASSUME LaybyInv, ScheduleInv, NEW w \in Workers, NEW l \in Laybys, l = request[w].of,
         CommitExtend(w)
  PROVE  ScheduleInv'
<1> DEFINE r == request[w]
           rows == schedule[l]
           b == r.row.balance + ExtensionFee
           kept == [k \in DOMAIN rows |->
                     IF rows[k].status = "pending"
                     THEN [rows[k] EXCEPT !.status = "deleted"] ELSE rows[k]]
           more == NewSchedule(b, r.amount)
<1>0. /\ LaybyTypeOK /\ r.kind = "extend" /\ NoteMeeting(w) /\ EndRequest(w)
      /\ r.row \in Row /\ r.row.balance \in Nat /\ layby[l].balance \in Nat
      /\ rows \in Seq(Installment) /\ ExtensionFee \in Nat
      /\ r.amount \in Nat \ {0} /\ b \in Nat
  <2>1. LaybyTypeOK /\ r.kind = "extend" /\ RequestSound(r)
    BY DEF LaybyInv, CommitExtend
  <2>2. r.amount > 0 /\ r.amount \in Int /\ r.row.balance \in Nat /\ ExtensionFee \in Nat
    BY <2>1, RowFields, LaybyAssumption DEF RequestSound
  <2>3. r.amount \in Nat \ {0} /\ b \in Nat
    BY <2>2
  <2>4. rows \in Seq(Installment) /\ r.row \in Row /\ layby[l].balance \in Nat
    BY <2>1, RowFields DEF LaybyTypeOK
  <2>5. NoteMeeting(w) /\ EndRequest(w)
    BY DEF CommitExtend
  <2> QED BY <2>1, <2>2, <2>3, <2>4, <2>5
<1>1. /\ RowExtendedBy(l, r.row)
      /\ schedule' = [schedule EXCEPT ![l] = IF b > 0 THEN kept \o more ELSE kept]
      /\ next' = [next EXCEPT ![l] = IF b > 0 THEN Len(kept) + 1 ELSE next[l]]
      /\ mixed' = mixed \cup {m \in {l} : \E k \in DOMAIN kept : kept[k].status = "partial"}
  BY DEF CommitExtend, RowExtendedBy
<1>2. /\ DOMAIN rows = 1 .. Len(rows) /\ Len(rows) \in Nat
      /\ \A k \in 1 .. Len(rows) :
           rows[k] \in Installment /\ rows[k].status \in ScheduleStatus
           /\ rows[k].due \in Int /\ rows[k].paid \in Int
  BY <1>0, InstallmentFields
<1>3. kept \in Seq(Installment) /\ Len(kept) = Len(rows) /\ DOMAIN kept = 1 .. Len(rows)
  <2>1. ASSUME NEW i \in Installment
        PROVE  [i EXCEPT !.status = "deleted"] \in Installment
    BY DEF Installment, ScheduleStatus
  <2>2. kept \in [1 .. Len(rows) -> Installment]
    BY <1>2, <2>1
  <2> HIDE DEF kept
  <2> QED BY <1>2, <2>2
<1>4. ASSUME NEW k \in 1 .. Len(rows)
      PROVE  /\ kept[k].status = IF rows[k].status = "pending" THEN "deleted" ELSE rows[k].status
             /\ rows[k].status # "pending" => kept[k] = rows[k]
  <2>1. kept[k] = IF rows[k].status = "pending"
                  THEN [rows[k] EXCEPT !.status = "deleted"] ELSE rows[k]
    BY <1>2
  <2> HIDE DEF kept
  <2> QED BY <1>2, <2>1 DEF Installment
<1>5. more \in Seq(Installment) /\ Outstanding(more) = b
  BY <1>0, ScheduleTyped, NewScheduleAddsUp
<1>6. /\ Len(more) = r.amount
      /\ \A k \in 1 .. Len(more) : more[k].status = "pending"
  <2>1. more = [k \in 1 .. r.amount |->
                 [due |-> IF k = r.amount THEN b - (r.amount - 1) * Quantized(b, r.amount)
                                          ELSE Quantized(b, r.amount),
                  paid |-> 0, status |-> "pending"]]
    BY DEF NewSchedule
  <2> HIDE DEF more
  <2>2. DOMAIN more = 1 .. r.amount /\ \A k \in 1 .. r.amount : more[k].status = "pending"
    BY <2>1
  <2>3. Len(more) = r.amount
    BY <1>0, <1>5, <2>2, LenProperties
  <2> QED BY <2>2, <2>3
<1> HIDE DEF kept, b, more
<1>7. /\ \A m \in Laybys \ {l} : layby'[m] = layby[m]
      /\ layby'[l].status = layby[l].status
      /\ \/ layby'[l].balance = layby[l].balance /\ ExtensionFee = 0
         \/ layby'[l].balance = b
  <2>1. RowExtendedBy(l, r.row) /\ r.row \in Row
    BY <1>0, <1>1
  <2> QED BY <1>0, <2>1, RowExtended DEF b
<1>8. /\ schedule'[l] = IF b > 0 THEN kept \o more ELSE kept
      /\ next'[l] = IF b > 0 THEN Len(kept) + 1 ELSE next[l]
      /\ \A m \in Laybys \ {l} : schedule'[m] = schedule[m] /\ next'[m] = next[m]
      /\ mixed \subseteq mixed'
      /\ (\E k \in DOMAIN kept : kept[k].status = "partial") => l \in mixed'
  BY <1>0, <1>1 DEF LaybyTypeOK
<1>9. ASSUME Scheduled(l)', met[l] = {}, AsLoaded(r)
      PROVE  ScheduleSound(l)'
  <2>1. r.row = layby[l] /\ layby[l].status = "active" /\ layby'[l].balance = b
    BY <1>0, <1>7, <1>9 DEF AsLoaded, b
  <2>2. ScheduleSound(l)
    BY <1>8, <1>9, <2>1 DEF Scheduled, ScheduleInv
  <2>3. ASSUME NEW k \in 1 .. Len(rows)
        PROVE  /\ kept[k].status \in {"deleted", "paid"}
               /\ kept[k].status = "paid" => kept[k].due = kept[k].paid
               /\ Owed(kept[k]) = 0 /\ ~IsOpen(kept[k])
    <3>1. kept[k].status # "partial"
      BY <1>3, <1>8, <1>9 DEF Scheduled
    <3>2. rows[k].status = "paid" => rows[k].due = rows[k].paid
      BY <2>2 DEF ScheduleSound
    <3>3. kept[k].status \in {"deleted", "paid"}
      BY <1>2, <1>4, <3>1 DEF ScheduleStatus
    <3>4. kept[k].status = "paid" => kept[k] = rows[k]
      BY <1>4
    <3> QED BY <1>2, <3>2, <3>3, <3>4 DEF Owed, IsOpen
  <2>4. Outstanding(kept) = 0
    BY <1>3, <2>3, NothingOutstanding
  <2>5. CASE b > 0
    <3> DEFINE all == kept \o more
    <3>1. Outstanding(all) = b
      BY <1>0, <1>3, <1>5, <2>4, OutstandingConcat
    <3>2. /\ all \in Seq(Installment) /\ Len(all) = Len(rows) + r.amount
          /\ \A k \in 1 .. Len(rows) + r.amount :
               all[k] = IF k <= Len(rows) THEN kept[k] ELSE more[k - Len(rows)]
      <4>1. /\ all \in Seq(Installment) /\ Len(all) = Len(kept) + Len(more)
            /\ \A k \in 1 .. Len(kept) + Len(more) :
                 all[k] = IF k <= Len(kept) THEN kept[k] ELSE more[k - Len(kept)]
        BY <1>3, <1>5, ConcatProperties
      <4> HIDE DEF all
      <4> QED BY <1>3, <1>6, <4>1
    <3> HIDE DEF all
    <3>3. schedule'[l] = all /\ next'[l] = Len(rows) + 1
      BY <1>3, <1>8, <2>5 DEF all
    <3>4. ASSUME NEW k \in 1 .. Len(all), all[k].status = "paid"
          PROVE  all[k].due = all[k].paid
      <4>1. CASE k <= Len(rows)
        <5>1. k \in 1 .. Len(rows) /\ all[k] = kept[k]
          BY <1>0, <1>2, <3>2, <4>1
        <5> QED BY <2>3, <3>4, <5>1
      <4>2. CASE ~(k <= Len(rows))
        <5>1. k - Len(rows) \in 1 .. Len(more) /\ all[k] = more[k - Len(rows)]
          BY <1>0, <1>2, <1>6, <3>2, <4>2
        <5> QED BY <1>6, <3>4, <5>1
      <4> QED BY <4>1, <4>2
    <3>5. next'[l] \in 1 .. Len(all)
      BY <1>0, <1>2, <3>2, <3>3
    <3>6. ASSUME NEW k \in 1 .. next'[l] - 1
          PROVE  ~IsOpen(all[k])
      <4>1. k \in 1 .. Len(rows) /\ all[k] = kept[k]
        BY <1>0, <1>2, <3>2, <3>3
      <4> QED BY <2>3, <4>1
    <3> QED BY <2>1, <3>1, <3>3, <3>4, <3>5, <3>6 DEF ScheduleSound
  <2>6. CASE ~(b > 0)
    <3>1. b = 0 /\ schedule'[l] = kept
      BY <1>0, <1>8, <2>6
    <3> QED BY <1>3, <2>1, <2>3, <2>4, <3>1 DEF ScheduleSound
  <2> QED BY <2>5, <2>6
<1> QED BY <1>0, <1>7, <1>8, <1>9, Committed

LEMMA CancelKeepsSchedule ==
  ASSUME LaybyInv, ScheduleInv, NEW w \in Workers, NEW l \in Laybys, l = request[w].of,
         CommitCancel(w)
  PROVE  ScheduleInv'
<1>0. /\ LaybyTypeOK /\ request[w].kind = "cancel" /\ NoteMeeting(w) /\ EndRequest(w)
      /\ layby[l] \in Row
  BY RowFields DEF LaybyInv, CommitCancel
<1>1. /\ layby' = [layby EXCEPT ![l].status = "cancelled"]
      /\ next' = [next EXCEPT ![l] = 0] /\ mixed' = mixed
      /\ \A m \in Laybys \ {l} : schedule'[m] = schedule[m]
  BY <1>0 DEF CommitCancel, LaybyTypeOK
<1>2. layby'[l].status = "cancelled" /\ \A m \in Laybys \ {l} : layby'[m] = layby[m] /\ next'[m] = next[m]
  BY <1>0, <1>1 DEF LaybyTypeOK, Row
<1>3. ~Scheduled(l)'
  BY <1>2 DEF Scheduled
<1> QED BY <1>0, <1>1, <1>2, <1>3, Committed

LEMMA CollectKeepsSchedule ==
  ASSUME LaybyInv, ScheduleInv, NEW w \in Workers, NEW l \in Laybys, l = request[w].of,
         CommitCollect(w)
  PROVE  ScheduleInv'
<1>0. /\ LaybyTypeOK /\ request[w].kind = "collect" /\ NoteMeeting(w) /\ EndRequest(w)
      /\ layby[l] \in Row
  BY RowFields DEF LaybyInv, CommitCollect
<1>1. /\ layby' = [layby EXCEPT ![l].status = "completed"]
      /\ next' = next /\ mixed' = mixed /\ schedule' = schedule
  BY DEF CommitCollect
<1>2. layby'[l].status = "completed" /\ \A m \in Laybys \ {l} : layby'[m] = layby[m]
  BY <1>0, <1>1 DEF LaybyTypeOK, Row
<1>3. ~Scheduled(l)'
  BY <1>2 DEF Scheduled
<1> QED BY <1>0, <1>1, <1>2, <1>3, Committed

LEMMA CreationKeepsSchedule ==
  ASSUME LaybyInv, ScheduleInv, NEW l \in Laybys, NEW d \in Deposits, NEW n \in Installments,
         CreateLayby(l, d, n)
  PROVE  ScheduleInv'
<1> DEFINE b == Price[l] - d
           rows == NewSchedule(b, n)
           row == [status |-> "active", total |-> Price[l], paid |-> d,
                   balance |-> b, extensions |-> 0]
<1>0. /\ LaybyTypeOK /\ layby[l].status = "none" /\ n \in Nat \ {0} /\ b \in Nat
  <2>1. d \in Nat /\ n \in Nat \ {0} /\ Price[l] \in Nat /\ d <= Price[l]
    BY LaybyAssumption DEF CreateLayby
  <2> QED BY <2>1 DEF LaybyInv, CreateLayby
<1>1. /\ layby' = [layby EXCEPT ![l] = row] /\ schedule' = [schedule EXCEPT ![l] = rows]
      /\ next' = [next EXCEPT ![l] = 1] /\ UNCHANGED <<request, met, mixed>>
  BY DEF CreateLayby
<1>2. rows \in Seq(Installment) /\ Outstanding(rows) = b
  BY <1>0, ScheduleTyped, NewScheduleAddsUp
<1>3. Len(rows) = n /\ \A k \in 1 .. n : rows[k].status = "pending"
  <2>1. rows = [k \in 1 .. n |->
                 [due |-> IF k = n THEN b - (n - 1) * Quantized(b, n) ELSE Quantized(b, n),
                  paid |-> 0, status |-> "pending"]]
    BY DEF NewSchedule
  <2> HIDE DEF rows
  <2>2. DOMAIN rows = 1 .. n /\ \A k \in 1 .. n : rows[k].status = "pending"
    BY <2>1
  <2> QED BY <1>0, <1>2, <2>2, LenProperties
<1> HIDE DEF rows
<1>4. row.status = "active" /\ row.balance = b
  OBVIOUS
<1> HIDE DEF row
<1>5. /\ layby'[l] = row /\ schedule'[l] = rows /\ next'[l] = 1
      /\ \A m \in Laybys \ {l} : /\ layby'[m] = layby[m] /\ schedule'[m] = schedule[m]
                                  /\ next'[m] = next[m]
  BY <1>0, <1>1 DEF LaybyTypeOK
<1>6. ScheduleSound(l)'
  <2>1. 1 \in 1 .. Len(rows) /\ 1 - 1 = 0
    BY <1>0, <1>3
  <2> QED BY <1>2, <1>3, <1>4, <1>5, <2>1 DEF ScheduleSound
<1>7. ASSUME NEW m \in Laybys, Scheduled(m)'
      PROVE  ScheduleSound(m)'
  <2>1. CASE m # l
    <3>1. Scheduled(m) /\ m \in Laybys \ {l}
      BY <1>1, <1>5, <1>7, <2>1 DEF Scheduled
    <3>2. ScheduleSound(m)
      BY <3>1 DEF ScheduleInv
    <3> QED BY <1>5, <3>1, <3>2 DEF ScheduleSound
  <2> QED BY <1>6, <2>1
<1>8. ASSUME NEW v \in Workers, request'[v].kind # "idle", met'[request'[v].of] = {}
      PROVE  AsLoaded(request[v])'
  <2>1. /\ request'[v] = request[v] /\ request[v].of \in Laybys /\ met[request[v].of] = {}
        /\ RequestSound(request[v])
    BY <1>0, <1>1, <1>8, RowFields DEF LaybyInv
  <2>2. request[v].of # l
    BY <1>0, <2>1 DEF RequestSound
  <2>3. AsLoaded(request[v])
    BY <1>8, <2>1 DEF ScheduleInv, AloneInv
  <2> QED BY <1>5, <2>1, <2>2, <2>3 DEF AsLoaded
<1> QED BY <1>7, <1>8 DEF ScheduleInv, AloneInv

\* The query finds nothing new as long as the table holds what was loaded.
LEMMA QueriedAsLoaded ==
  ASSUME NEW rows \in Seq(Installment)
  PROVE  Queried(rows, rows) = rows
<1>1. Queried(rows, rows) = [k \in DOMAIN rows |-> rows[k]]
  BY DEF Queried
<1>2. rows = [k \in DOMAIN rows |-> rows[k]]
  OBVIOUS
<1> QED BY <1>1, <1>2

LEMMA ScheduleStep ==
  ASSUME LaybyInv, ScheduleInv, LaybyNext \/ UNCHANGED laybyVars
  PROVE  ScheduleInv'
<1>0. LaybyTypeOK
  BY DEF LaybyInv
<1>1. ASSUME NEW w \in Workers, NEW kind \in LaybyKinds \ {"idle"}, NEW l \in Laybys,
             NEW amount \in Int, Start(w, kind, l, amount),
             kind = "pay" => layby[l].status = "active",
             kind = "extend" => layby[l].status = "active" /\ layby[l].extensions < MaxExtensions,
             kind = "collect" => layby[l].status = "ready_for_collection",
             kind = "cancel" => layby[l].status \in {"active", "ready_for_collection"}
      PROVE  ScheduleInv'
  <2> DEFINE r == [kind |-> kind, of |-> l, row |-> layby[l], amount |-> amount,
                   read |-> FALSE, rows |-> IF kind = "pay" THEN schedule[l] ELSE <<>>]
  <2>1. AsLoaded(r)
    BY <1>1 DEF AsLoaded
  <2>2. request' = [request EXCEPT ![w] = r] /\ UNCHANGED <<laybyTables, laybyGhosts>>
    BY <1>1 DEF Start
  <2> HIDE DEF r
  <2>3. request'[w] = r /\ \A v \in Workers \ {w} : request'[v] = request[v]
    BY <1>0, <2>2 DEF LaybyTypeOK
  <2> QED BY <2>1, <2>2, <2>3, TablesStay DEF laybyTables, laybyGhosts
<1>2. ASSUME NEW w \in Workers, NEW l \in Laybys, NEW a \in Amounts, MakePayment(w, l, a)
      PROVE  ScheduleInv'
  <2>1. a \in Int
    BY LaybyAssumption
  <2> QED BY <1>1, <1>2, <2>1 DEF MakePayment, IsActive, LaybyKinds
<1>3. ASSUME NEW w \in Workers, NEW l \in Laybys, NEW n \in Installments, ExtendLayby(w, l, n)
      PROVE  ScheduleInv'
  <2>1. n \in Int
    BY LaybyAssumption
  <2> QED BY <1>1, <1>3, <2>1 DEF ExtendLayby, IsActive, LaybyKinds
<1>4. ASSUME NEW w \in Workers, NEW l \in Laybys, CancelLayby(w, l)
      PROVE  ScheduleInv'
  <2>1. layby[l].status \in {"active", "ready_for_collection"}
    BY <1>0, <1>4, RowFields DEF CancelLayby, LaybyStatus
  <2> QED BY <1>1, <1>4, <2>1 DEF CancelLayby, LaybyKinds
<1>5. ASSUME NEW w \in Workers, NEW l \in Laybys, CollectLayby(w, l)
      PROVE  ScheduleInv'
  BY <1>1, <1>5 DEF CollectLayby, LaybyKinds
<1>6. ASSUME NEW w \in Workers, ReadSchedule(w)
      PROVE  ScheduleInv'
  <2> DEFINE r == request[w]
             rows == Queried(schedule[r.of], r.rows)
             u == [r EXCEPT !.read = TRUE, !.rows = rows]
  <2>1. r \in Request /\ r.kind = "pay" /\ UNCHANGED <<laybyTables, laybyGhosts>>
    BY <1>0, <1>6, RowFields DEF ReadSchedule
  <2>2. request' = [request EXCEPT ![w] = u]
    BY <1>0, <1>6 DEF ReadSchedule, LaybyTypeOK
  <2> HIDE DEF rows, r
  <2>3. u.kind = "pay" /\ u.of = r.of /\ u.row = r.row /\ u.rows = rows
    BY <2>1 DEF Request
  <2> HIDE DEF u
  <2>4. request'[w] = u /\ \A v \in Workers \ {w} : request'[v] = request[v]
    BY <1>0, <2>2 DEF LaybyTypeOK
  <2>5. ASSUME met[u.of] = {}
        PROVE  AsLoaded(u)
    <3>1. AsLoaded(r)
      BY <2>1, <2>3, <2>5 DEF ScheduleInv, AloneInv, r
    <3>2. r.rows = schedule[r.of]
      BY <2>1, <3>1 DEF AsLoaded
    <3>3. schedule[r.of] \in Seq(Installment)
      BY <1>0, <2>1 DEF LaybyTypeOK, Request
    <3>4. rows = schedule[r.of]
      BY <3>2, <3>3, QueriedAsLoaded DEF rows
    <3> QED BY <2>1, <2>3, <3>1, <3>4 DEF AsLoaded
  <2> QED BY <2>1, <2>4, <2>5, TablesStay DEF laybyTables, laybyGhosts
<1>7. ASSUME NEW w \in Workers, AbandonRequest(w)
      PROVE  ScheduleInv'
  <2>1. /\ request'[w].kind = "idle" /\ \A v \in Workers \ {w} : request'[v] = request[v]
        /\ UNCHANGED <<laybyTables, laybyGhosts>>
    BY <1>0, <1>7, Ended DEF AbandonRequest
  <2> QED BY <2>1, TablesStay DEF laybyTables, laybyGhosts
<1>8. ASSUME NEW w \in Workers,
             CommitPayment(w) \/ CommitCancel(w) \/ CommitCollect(w) \/ CommitExtend(w)
      PROVE  ScheduleInv'
  <2>1. PICK l \in Laybys : l = request[w].of
    BY <1>0, RowFields
  <2> QED BY <1>8, <2>1, PaymentKeepsSchedule, CancelKeepsSchedule, CollectKeepsSchedule,
             ExtensionKeepsSchedule
<1>9. CASE UNCHANGED laybyVars
  <2>1. UNCHANGED <<layby, schedule, next, request, met, mixed>>
    BY <1>9 DEF laybyVars, laybyTables, laybyGhosts
  <2>2. AloneInv'
    BY <2>1 DEF ScheduleInv, AloneInv, AsLoaded
  <2>3. \A l \in Laybys : (Scheduled(l) => ScheduleSound(l))'
    BY <2>1 DEF ScheduleInv, Scheduled, ScheduleSound
  <2> QED BY <2>2, <2>3 DEF ScheduleInv
<1> QED BY <1>2, <1>3, <1>4, <1>5, <1>6, <1>7, <1>8, <1>9, CreationKeepsSchedule DEF LaybyNext

-----------------------------------------------------------------------------
\* Each reachable state of the counter satisfies the invariant of the schedule.
THEOREM ScheduleInvariantHolds == Spec => []ScheduleInv
<1>1. Init => ScheduleInv
  <2>1. SUFFICES ASSUME Init PROVE ScheduleInv
    OBVIOUS
  <2>2. \A w \in Workers : request[w].kind = "idle"
    <3>1. PICK l \in Laybys :
            request = [w \in Workers |-> [kind |-> "idle", of |-> l, row |-> NoRow,
                                          amount |-> 0, read |-> FALSE, rows |-> <<>>]]
      BY <2>1 DEF Init, LaybyInit
    <3> QED BY <3>1
  <2>3. \A l \in Laybys : layby[l].status = "none"
    BY <2>1 DEF Init, LaybyInit, NoRow
  <2> QED BY <2>2, <2>3 DEF ScheduleInv, AloneInv, Scheduled
<1>2. IInv /\ ScheduleInv /\ [Next]_vars => ScheduleInv'
  <2>1. SUFFICES ASSUME IInv, ScheduleInv, [Next]_vars PROVE ScheduleInv'
    OBVIOUS
  <2>2. LaybyNext \/ UNCHANGED laybyVars
    BY <2>1 DEF Next, vars
  <2>3. LaybyInv
    BY <2>1 DEF IInv
  <2> QED BY <2>1, <2>2, <2>3, ScheduleStep
<1> QED BY <1>1, <1>2, CounterInvariantHolds, PTL DEF Spec

\* The installments of a layby that is not over add up to its balance, unless
\* requests overlapped or it was extended with an installment half paid.
THEOREM ScheduleAlwaysCovers == Spec => []ScheduleCoversBalance
<1>1. ScheduleInv => ScheduleCoversBalance
  BY DEF ScheduleInv, Scheduled, ScheduleSound, ScheduleCoversBalance
<1> QED BY <1>1, ScheduleInvariantHolds, PTL

\* A layby that something is due of names a next installment, and never passes
\* over one that is owed.
THEOREM NextIsNeverTooLate == Spec => []NextSkipsNothing
<1>1. IInv /\ ScheduleInv => NextSkipsNothing
  <2>1. SUFFICES ASSUME IInv, ScheduleInv, NEW l \in Laybys \ mixed,
                        met[l] = {}, IsActive(l), layby[l].balance > 0
                 PROVE  /\ next[l] \in DOMAIN schedule[l]
                        /\ \A k \in 1 .. next[l] - 1 :
                             LET i == schedule[l][k] IN i.status # "deleted" => i.due <= i.paid
    BY DEF NextSkipsNothing
  <2>2. schedule[l] \in Seq(Installment)
    BY <2>1 DEF IInv, LaybyInv, LaybyTypeOK
  <2>3. ScheduleSound(l) /\ layby[l].status = "active"
    BY <2>1 DEF ScheduleInv, Scheduled, IsActive
  <2>4. ASSUME NEW k \in 1 .. next[l] - 1, schedule[l][k].status # "deleted"
        PROVE  schedule[l][k].due <= schedule[l][k].paid
    <3>1. Len(schedule[l]) \in Nat /\ next[l] \in 1 .. Len(schedule[l]) /\ ~IsOpen(schedule[l][k])
      BY <2>1, <2>2, <2>3, InstallmentFields DEF ScheduleSound
    <3>2. k \in 1 .. Len(schedule[l])
      BY <3>1
    <3>3. /\ schedule[l][k].status = "paid" /\ schedule[l][k].due \in Int
          /\ schedule[l][k].due = schedule[l][k].paid
      BY <2>2, <2>3, <2>4, <3>1, <3>2, InstallmentFields DEF ScheduleSound, IsOpen, ScheduleStatus
    <3> QED BY <3>3
  <2> QED BY <2>1, <2>2, <2>3, <2>4, InstallmentFields DEF ScheduleSound
<1> QED BY <1>1, CounterInvariantHolds, ScheduleInvariantHolds, PTL
=============================================================================
