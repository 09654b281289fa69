---------------------------- MODULE Contract_proofs ----------------------------
(***************************************************************************)
(* Proof that Counter implements Contract: every step of the requests is a *)
(* step of the contract under the mapping of Counter, or a stutter.        *)
(***************************************************************************)
EXTENDS Schedule_proofs

-----------------------------------------------------------------------------
(* Laybys. *)

\* Only layby l may change.
Apart(l) ==
  \A m \in Laybys \ {l} :
    /\ layby'[m] = layby[m] /\ received'[m] = received[m] /\ refunds'[m] = refunds[m]
    /\ met'[m] = met[m] /\ (m \in handedOut' <=> m \in handedOut)

LEMMA Agrees ==
  ASSUME NEW l \in Laybys, Apart(l), NEW a, AgreementOf(l)' = a
  PROVE  Promise!Becomes(l, a)
<1>1. \A m \in Laybys \ {l} : AgreementOf(m)' = AgreementOf(m)
  BY DEF Apart, AgreementOf
<1>2. Agreements' = [m \in Laybys |-> AgreementOf(m)']
  BY DEF Agreements
<1>3. Agreements' = [[m \in Laybys |-> AgreementOf(m)] EXCEPT ![l] = a]
  BY <1>1, <1>2
<1> QED BY <1>3 DEF Promise!Becomes, Agreements

\* A commit that meets another request voids the agreement.
LEMMA Voided ==
  ASSUME LaybyInv, NEW w \in Workers, request[w].kind # "idle", NEW l \in Laybys,
         l = request[w].of, Apart(l), met'[l] # {}
  PROVE  Promise!Deal(l)
<1> DEFINE void == [state |-> "void", paid |-> 0, due |-> 0, extensions |-> 0,
                    refunds |-> <<>>, goods |-> FALSE]
<1>1. AgreementOf(l)' = void
  BY DEF AgreementOf
<1>2. void = Promise!Nothing("void")
  BY DEF Promise!Nothing, Promise!Agreement
<1> HIDE DEF void
<1>3. Promise!Becomes(l, void)
  BY <1>1, Agrees
<1>4. layby[l].status # "none"
  BY DEF LaybyInv, RequestSound
<1>5. AgreementOf(l).state # "none"
  BY <1>4 DEF AgreementOf
<1>6. Agreements[l].state # "none"
  BY <1>5 DEF Agreements
<1> QED BY <1>2, <1>3, <1>6 DEF Promise!VoidAgreement, Promise!Deal

\* What a request knows that has met nobody, when it commits.
LEMMA Undisturbed ==
  ASSUME LaybyInv, ScheduleInv, NEW w \in Workers, request[w].kind # "idle", NoteMeeting(w),
         NEW l, l = request[w].of, met'[l] = {}
  PROVE  met[l] = {} /\ AsLoaded(request[w]) /\ Clean(l) /\ LaybySound(l)
<1>1. LaybyTypeOK /\ l \in Laybys
  BY RowFields DEF LaybyInv
<1>2. met[l] \subseteq met'[l]
  BY <1>1, Noted
<1>3. met[l] = {}
  BY <1>2
<1> QED BY <1>1, <1>3 DEF ScheduleInv, AloneInv, Clean, LaybyInv

LEMMA SignDeal ==
  ASSUME LaybyInv, NEW l \in Laybys, NEW d \in Deposits, NEW n \in Installments,
         CreateLayby(l, d, n)
  PROVE  Promise!Deal(l) \/ Agreements' = Agreements
<1> DEFINE b == Price[l] - d
           row == [status |-> "active", total |-> Price[l], paid |-> d,
                   balance |-> b, extensions |-> 0]
           a == [state |-> "active", paid |-> d, due |-> b, extensions |-> 0,
                 refunds |-> <<>>, goods |-> FALSE]
<1>0. /\ LaybyTypeOK /\ layby[l].status = "none" /\ refunds[l] = <<>> /\ l \notin handedOut
      /\ d \in 0 .. Price[l]
  <2>1. LaybyTypeOK /\ LaybySound(l) /\ layby[l].status = "none"
    BY DEF LaybyInv, CreateLayby
  <2>2. d \in Nat /\ Price[l] \in Nat /\ d <= Price[l]
    BY LaybyAssumption DEF CreateLayby
  <2> QED BY <2>1, <2>2 DEF LaybySound, Settled
<1>1. /\ layby' = [layby EXCEPT ![l] = row] /\ received' = [received EXCEPT ![l] = d]
      /\ UNCHANGED <<refunds, handedOut, met>>
  BY DEF CreateLayby
<1>2. row.status = "active" /\ row.balance = b /\ row.extensions = 0
  OBVIOUS
<1> HIDE DEF row
<1>3. layby'[l] = row /\ received'[l] = d /\ Apart(l)
  BY <1>0, <1>1 DEF LaybyTypeOK, Apart
<1>4. CASE met[l] = {}
  <2>0. /\ layby'[l].status = "active" /\ layby'[l].balance = b /\ layby'[l].extensions = 0
        /\ refunds'[l] = <<>> /\ (l \in handedOut') = FALSE /\ met'[l] = {}
    BY <1>0, <1>1, <1>2, <1>3, <1>4
  <2>1. AgreementOf(l)' = a
    BY <1>3, <2>0 DEF AgreementOf
  <2>2. a = Promise!Agreement("active", d, Price[l] - d, 0, <<>>, FALSE)
    BY DEF Promise!Agreement
  <2> HIDE DEF a
  <2>3. Promise!Becomes(l, a)
    BY <1>3, <2>1, Agrees
  <2>4. AgreementOf(l).state = "none"
    BY <1>0, <1>4 DEF AgreementOf
  <2>5. Agreements[l].state = "none"
    BY <2>4 DEF Agreements
  <2>6. Promise!Sign(l)
    BY <1>0, <2>2, <2>3, <2>5 DEF Promise!Sign
  <2> QED BY <2>6 DEF Promise!Deal
<1>5. CASE met[l] # {}
  <2>1. \A m \in Laybys : AgreementOf(m)' = AgreementOf(m)
    BY <1>1, <1>3, <1>5 DEF AgreementOf, Apart
  <2> QED BY <2>1 DEF Agreements
<1> QED BY <1>4, <1>5

LEMMA PayDeal ==
  ASSUME LaybyInv, ScheduleInv, NEW w \in Workers, NEW l \in Laybys, l = request[w].of,
         CommitPayment(w)
  PROVE  Promise!Deal(l)
<1> DEFINE r == request[w]
           a == r.amount
           p == r.row.paid + a
           b == r.row.balance - a
<1>0. /\ LaybyTypeOK /\ r.kind = "pay" /\ NoteMeeting(w)
      /\ received[l] \in Nat /\ layby[l].balance \in Nat
      /\ a \in Nat /\ a > 0 /\ a <= r.row.balance /\ p \in Nat /\ b \in Nat
  <2>1. LaybyTypeOK /\ r.kind = "pay" /\ RequestSound(r) /\ NoteMeeting(w)
    BY DEF LaybyInv, CommitPayment
  <2>2. /\ a > 0 /\ a <= r.row.balance /\ a \in Int /\ r.row.paid \in Nat /\ r.row.balance \in Nat
        /\ received[l] \in Nat /\ layby[l].balance \in Nat
    BY <2>1, RowFields DEF RequestSound
  <2> QED BY <2>1, <2>2
<1>1. /\ RowPaidTo(l, p, b)
      /\ received' = [received EXCEPT ![l] = @ + a] /\ UNCHANGED <<refunds, handedOut>>
  BY DEF CommitPayment, RowPaidTo
<1>2. /\ \A m \in Laybys \ {l} : layby'[m] = layby[m]
      /\ layby'[l].balance = b /\ layby'[l].extensions = layby[l].extensions
      /\ layby'[l].status = IF b = 0 THEN "ready_for_collection" ELSE layby[l].status
  <2> HIDE DEF p, b
  <2> QED BY <1>0, <1>1, RowPaid
<1>3. received'[l] = received[l] + a /\ Apart(l)
  BY <1>0, <1>1, <1>2, Noted DEF LaybyTypeOK, Apart
<1>4. CASE met'[l] # {}
  BY <1>0, <1>3, <1>4, Voided
<1>5. CASE met'[l] = {}
  <2> DEFINE old == AgreementOf(l)
             new == [state |-> IF a = old.due THEN "ready_for_collection" ELSE "active",
                     paid |-> old.paid + a, due |-> old.due - a, extensions |-> old.extensions,
                     refunds |-> old.refunds, goods |-> old.goods]
  <2>1. met[l] = {} /\ r.row = layby[l] /\ layby[l].status = "active"
    BY <1>0, <1>5, Undisturbed DEF AsLoaded
  <2>2. old = [state |-> "active", paid |-> received[l], due |-> layby[l].balance,
               extensions |-> layby[l].extensions, refunds |-> refunds[l],
               goods |-> l \in handedOut]
    BY <2>1 DEF AgreementOf
  <2>3. AgreementOf(l)' =
          [state |-> IF b = 0 THEN "ready_for_collection" ELSE "active",
           paid |-> received[l] + a, due |-> b,
           extensions |-> layby[l].extensions, refunds |-> refunds[l],
           goods |-> l \in handedOut]
    BY <1>1, <1>2, <1>3, <1>5, <2>1 DEF AgreementOf
  <2>4. b = layby[l].balance - a /\ (b = 0 <=> a = layby[l].balance)
    BY <1>0, <2>1
  <2> HIDE DEF a, b
  <2>5. new = [state |-> IF a = layby[l].balance THEN "ready_for_collection" ELSE "active",
               paid |-> received[l] + a, due |-> layby[l].balance - a,
               extensions |-> layby[l].extensions, refunds |-> refunds[l],
               goods |-> l \in handedOut]
    BY <2>2
  <2> HIDE DEF new
  <2>6. AgreementOf(l)' = new
    BY <2>3, <2>4, <2>5
  <2>7. Promise!Becomes(l, new)
    BY <1>3, <2>6, Agrees
  <2>8. Agreements[l] = old
    BY DEF Agreements
  <2>9. old.state = "active" /\ a \in 1 .. old.due
    BY <1>0, <2>1, <2>2
  <2> HIDE DEF old
  <2>10. Promise!Pay(l)
    BY <2>7, <2>8, <2>9 DEF Promise!Pay, Promise!Agreement, new
  <2> QED BY <2>10 DEF Promise!Deal
<1> QED BY <1>4, <1>5

LEMMA ExtendDeal ==
  ASSUME LaybyInv, ScheduleInv, NEW w \in Workers, NEW l \in Laybys, l = request[w].of,
         CommitExtend(w)
  PROVE  Promise!Deal(l)
<1> DEFINE r == request[w]
<1>0. /\ LaybyTypeOK /\ r.kind = "extend" /\ NoteMeeting(w) /\ r.row \in Row
      /\ layby[l].balance \in Nat /\ ExtensionFee \in Nat
  BY RowFields, LaybyAssumption DEF LaybyInv, CommitExtend
<1>1. RowExtendedBy(l, r.row) /\ UNCHANGED <<received, refunds, handedOut>>
  BY DEF CommitExtend, RowExtendedBy
<1>2. /\ \A m \in Laybys \ {l} : layby'[m] = layby[m]
      /\ layby'[l].status = layby[l].status /\ layby'[l].extensions = r.row.extensions + 1
      /\ \/ layby'[l].balance = layby[l].balance /\ ExtensionFee = 0
         \/ layby'[l].balance = r.row.balance + ExtensionFee
  BY <1>0, <1>1, RowExtended
<1>3. Apart(l)
  BY <1>0, <1>1, <1>2, Noted DEF Apart
<1>4. CASE met'[l] # {}
  BY <1>0, <1>3, <1>4, Voided
<1>5. CASE met'[l] = {}
  <2> DEFINE old == AgreementOf(l)
             new == [state |-> "active", paid |-> old.paid, due |-> old.due + ExtensionFee,
                     extensions |-> old.extensions + 1, refunds |-> old.refunds,
                     goods |-> old.goods]
  <2>1. /\ met[l] = {} /\ r.row = layby[l] /\ layby[l].status = "active"
        /\ layby[l].extensions < MaxExtensions
    BY <1>0, <1>5, Undisturbed DEF AsLoaded
  <2>2. old = [state |-> "active", paid |-> received[l], due |-> layby[l].balance,
               extensions |-> layby[l].extensions, refunds |-> refunds[l],
               goods |-> l \in handedOut]
    BY <2>1 DEF AgreementOf
  <2>3. layby'[l].balance = layby[l].balance + ExtensionFee
    BY <1>0, <1>2, <2>1
  <2>4. AgreementOf(l)' = new
    BY <1>1, <1>2, <1>5, <2>1, <2>2, <2>3 DEF AgreementOf
  <2> HIDE DEF new
  <2>5. Promise!Becomes(l, new)
    BY <1>3, <2>4, Agrees
  <2>6. Agreements[l] = old
    BY DEF Agreements
  <2>7. old.state = "active" /\ old.extensions < MaxExtensions
    BY <2>1, <2>2
  <2> HIDE DEF old
  <2>8. Promise!Extend(l)
    BY <2>5, <2>6, <2>7 DEF Promise!Extend, Promise!Agreement, new
  <2> QED BY <2>8 DEF Promise!Deal
<1> QED BY <1>4, <1>5

LEMMA CollectDeal ==
  ASSUME LaybyInv, ScheduleInv, NEW w \in Workers, NEW l \in Laybys, l = request[w].of,
         CommitCollect(w)
  PROVE  Promise!Deal(l)
<1>0. LaybyTypeOK /\ request[w].kind = "collect" /\ NoteMeeting(w) /\ layby[l] \in Row
  BY RowFields DEF LaybyInv, CommitCollect
<1>1. /\ layby' = [layby EXCEPT ![l].status = "completed"] /\ handedOut' = handedOut \cup {l}
      /\ UNCHANGED <<received, refunds>>
  BY DEF CommitCollect
<1>2. /\ layby'[l].status = "completed" /\ layby'[l].balance = layby[l].balance
      /\ layby'[l].extensions = layby[l].extensions
      /\ \A m \in Laybys \ {l} : layby'[m] = layby[m]
  BY <1>0, <1>1 DEF LaybyTypeOK, Row
<1>3. Apart(l)
  BY <1>0, <1>1, <1>2, Noted DEF Apart
<1>4. CASE met'[l] # {}
  BY <1>0, <1>3, <1>4, Voided
<1>5. CASE met'[l] = {}
  <2> DEFINE old == AgreementOf(l)
             new == [state |-> "completed", paid |-> old.paid, due |-> old.due,
                     extensions |-> old.extensions, refunds |-> old.refunds, goods |-> TRUE]
  <2>1. met[l] = {} /\ layby[l].status = "ready_for_collection"
    BY <1>0, <1>5, Undisturbed DEF AsLoaded
  <2>2. old = [state |-> "ready_for_collection", paid |-> received[l], due |-> layby[l].balance,
               extensions |-> layby[l].extensions, refunds |-> refunds[l],
               goods |-> l \in handedOut]
    BY <2>1 DEF AgreementOf
  <2>3. AgreementOf(l)' = new
    BY <1>1, <1>2, <1>5, <2>1, <2>2 DEF AgreementOf
  <2> HIDE DEF new
  <2>4. Promise!Becomes(l, new)
    BY <1>3, <2>3, Agrees
  <2>5. Agreements[l] = old /\ old.state = "ready_for_collection"
    BY <2>2 DEF Agreements
  <2> HIDE DEF old
  <2>6. Promise!Collect(l)
    BY <2>4, <2>5 DEF Promise!Collect, Promise!Agreement, new
  <2> QED BY <2>6 DEF Promise!Deal
<1> QED BY <1>4, <1>5

LEMMA CancelDeal ==
  ASSUME LaybyInv, ScheduleInv, NEW w \in Workers, NEW l \in Laybys, l = request[w].of,
         CommitCancel(w)
  PROVE  Promise!Deal(l)
<1> DEFINE r == request[w]
           back == IF Refund(r.row.paid) > 0 THEN Append(refunds[l], Refund(r.row.paid))
                   ELSE refunds[l]
<1>0. /\ LaybyTypeOK /\ r.kind = "cancel" /\ NoteMeeting(w) /\ layby[l] \in Row
      /\ received[l] \in Nat /\ CancellationFee \in Nat
  BY RowFields, LaybyAssumption DEF LaybyInv, CommitCancel
<1>1. /\ layby' = [layby EXCEPT ![l].status = "cancelled"]
      /\ refunds' = [refunds EXCEPT ![l] = back] /\ UNCHANGED <<received, handedOut>>
  BY DEF CommitCancel
<1> HIDE DEF back
<1>2. /\ layby'[l].status = "cancelled" /\ layby'[l].balance = layby[l].balance
      /\ layby'[l].extensions = layby[l].extensions /\ refunds'[l] = back
      /\ \A m \in Laybys \ {l} : layby'[m] = layby[m] /\ refunds'[m] = refunds[m]
  BY <1>0, <1>1 DEF LaybyTypeOK, Row
<1>3. Apart(l)
  BY <1>0, <1>1, <1>2, Noted DEF Apart
<1>4. CASE met'[l] # {}
  BY <1>0, <1>3, <1>4, Voided
<1>5. CASE met'[l] = {}
  <2> DEFINE old == AgreementOf(l)
             new == [state |-> "cancelled", paid |-> old.paid, due |-> old.due,
                     extensions |-> old.extensions,
                     refunds |-> IF old.paid > CancellationFee
                                 THEN <<old.paid - CancellationFee>> ELSE <<>>,
                     goods |-> old.goods]
  <2>1. /\ met[l] = {} /\ layby[l].status \in {"active", "ready_for_collection"}
        /\ r.row = layby[l] /\ Clean(l) /\ LaybySound(l)
    BY <1>0, <1>5, Undisturbed DEF AsLoaded
  <2>2. refunds[l] = <<>> /\ r.row.paid = received[l]
    BY <2>1 DEF LaybySound
  <2>3. back = IF received[l] > CancellationFee THEN <<received[l] - CancellationFee>> ELSE <<>>
    BY <1>0, <2>2 DEF back, Refund
  <2>4. old = [state |-> layby[l].status, paid |-> received[l], due |-> layby[l].balance,
               extensions |-> layby[l].extensions, refunds |-> <<>>, goods |-> l \in handedOut]
    BY <2>1, <2>2 DEF AgreementOf
  <2>5. AgreementOf(l)' = new
    BY <1>1, <1>2, <1>5, <2>3, <2>4 DEF AgreementOf
  <2> HIDE DEF new
  <2>6. Promise!Becomes(l, new)
    BY <1>3, <2>5, Agrees
  <2>7. Agreements[l] = old /\ old.state \in {"active", "ready_for_collection"}
    BY <2>1, <2>4 DEF Agreements
  <2> HIDE DEF old
  <2>8. Promise!Cancel(l)
    BY <2>6, <2>7 DEF Promise!Cancel, Promise!Agreement, new
  <2> QED BY <2>8 DEF Promise!Deal
<1> QED BY <1>4, <1>5

\* Each step of the laybys is one of the contract, or none.
LEMMA LaybyPromise ==
  ASSUME LaybyInv, ScheduleInv, LaybyNext \/ UNCHANGED laybyVars
  PROVE  (\E l \in Laybys : Promise!Deal(l)) \/ Agreements' = Agreements
<1>1. ASSUME NEW w \in Workers,
             CommitPayment(w) \/ CommitCancel(w) \/ CommitCollect(w) \/ CommitExtend(w)
      PROVE  \E l \in Laybys : Promise!Deal(l)
  <2>1. PICK l \in Laybys : l = request[w].of
    BY RowFields DEF LaybyInv
  <2>2. Promise!Deal(l)
    BY <1>1, <2>1, PayDeal, CancelDeal, CollectDeal, ExtendDeal
  <2> QED BY <2>2
<1>2. ASSUME UNCHANGED <<layby, received, refunds, handedOut, met>>
      PROVE  Agreements' = Agreements
  BY <1>2 DEF Agreements, AgreementOf
<1>3. ASSUME NEW w \in Workers,
             \/ \E l \in Laybys, a \in Amounts : MakePayment(w, l, a)
             \/ \E l \in Laybys, n \in Installments : ExtendLayby(w, l, n)
             \/ \E l \in Laybys : CancelLayby(w, l) \/ CollectLayby(w, l)
             \/ ReadSchedule(w) \/ AbandonRequest(w)
      PROVE  UNCHANGED <<layby, received, refunds, handedOut, met>>
  BY <1>3 DEF MakePayment, ExtendLayby, CancelLayby, CollectLayby, Start, ReadSchedule,
     AbandonRequest, laybyTables, laybyGhosts
<1>4. CASE UNCHANGED laybyVars
  BY <1>2, <1>4 DEF laybyVars, laybyTables, laybyGhosts
<1>5. ASSUME NEW l \in Laybys, NEW d \in Deposits, NEW n \in Installments, CreateLayby(l, d, n)
      PROVE  (\E m \in Laybys : Promise!Deal(m)) \/ Agreements' = Agreements
  BY <1>5, SignDeal
<1> QED BY <1>1, <1>2, <1>3, <1>4, <1>5 DEF LaybyNext

-----------------------------------------------------------------------------
(* Gift cards. *)

\* Amounts are amounts that cards are sold for.
CardInputs ==
  \A w \in Workers : cardRequest[w].kind \in {"redeem", "top_up"} => cardRequest[w].amount \in Values

LEMMA CardInputsStep ==
  ASSUME CardsTypeOK, CardInputs, CardsNext \/ UNCHANGED cardVars
  PROVE  CardInputs'
<1>1. ASSUME NEW w \in Workers, NEW c \in Cards, NEW kind, NEW a, LoadCard(w, kind, c, a),
             kind \in {"redeem", "top_up"} => a \in Values
      PROVE  CardInputs'
  <2> DEFINE r == [kind |-> kind, of |-> c, row |-> card[c], amount |-> a]
  <2>1. cardRequest' = [cardRequest EXCEPT ![w] = r] /\ r.kind = kind /\ r.amount = a
    BY <1>1 DEF LoadCard
  <2> HIDE DEF r
  <2>2. cardRequest'[w] = r /\ \A v \in Workers \ {w} : cardRequest'[v] = cardRequest[v]
    BY <2>1 DEF CardsTypeOK
  <2> QED BY <1>1, <2>1, <2>2 DEF CardInputs
<1>2. ASSUME NEW w \in Workers, cardRequest' = [cardRequest EXCEPT ![w].kind = "idle"]
      PROVE  CardInputs'
  <2>1. cardRequest'[w].kind = "idle" /\ \A v \in Workers \ {w} : cardRequest'[v] = cardRequest[v]
    BY <1>2, CardIdle
  <2> QED BY <2>1 DEF CardInputs
<1>3. ASSUME NEW w \in Workers, NEW c \in Cards, NEW v \in Values, Redeem(w, c, v) \/ TopUp(w, c, v)
      PROVE  CardInputs'
  BY <1>1, <1>3 DEF Redeem, TopUp
<1>4. ASSUME NEW w \in Workers, NEW c \in Cards, CancelGiftCard(w, c)
      PROVE  CardInputs'
  BY <1>1, <1>4 DEF CancelGiftCard
<1>5. ASSUME NEW w \in Workers, CommitCard(w) \/ AbandonCard(w)
      PROVE  CardInputs'
  BY <1>2, <1>5 DEF CommitCard, AbandonCard
<1>6. ASSUME UNCHANGED cardRequest
      PROVE  CardInputs'
  BY <1>6 DEF CardInputs
<1> QED BY <1>3, <1>4, <1>5, <1>6 DEF CardsNext, CreateGiftCard, cardVars

\* Only card c may change.
CardApart(c) ==
  \A d \in Cards \ {c} : /\ card'[d] = card[d] /\ charged'[d] = charged[d]
                         /\ spent'[d] = spent[d] /\ cardMet'[d] = cardMet[d]

LEMMA Holds ==
  ASSUME NEW c \in Cards, CardApart(c), NEW a, WalletOf(c)' = a
  PROVE  Promise!Holds(c, a)
<1>1. \A d \in Cards \ {c} : WalletOf(d)' = WalletOf(d)
  BY DEF CardApart, WalletOf
<1>2. Wallets' = [d \in Cards |-> WalletOf(d)']
  BY DEF Wallets
<1>3. Wallets' = [[d \in Cards |-> WalletOf(d)] EXCEPT ![c] = a]
  BY <1>1, <1>2
<1> QED BY <1>3 DEF Promise!Holds, Wallets

LEMMA IssueUse ==
  ASSUME CardsInv, NEW c \in Cards, NEW v \in Values, CreateGiftCard(c, v)
  PROVE  Promise!Use(c) \/ Wallets' = Wallets
<1> DEFINE new == [status |-> "active", balance |-> v]
           a == [state |-> "active", in |-> v, out |-> 0]
<1>0. /\ CardsTypeOK /\ card[c].status = "none" /\ spent[c] = 0
      /\ card' = [card EXCEPT ![c] = new] /\ charged' = [charged EXCEPT ![c] = v]
      /\ UNCHANGED <<spent, cardMet>>
  BY DEF CardsInv, CreateGiftCard
<1>1. new.status = "active"
  OBVIOUS
<1> HIDE DEF new
<1>2. card'[c].status = "active" /\ charged'[c] = v /\ spent'[c] = 0 /\ CardApart(c)
  BY <1>0, <1>1 DEF CardsTypeOK, CardApart
<1>3. CASE cardMet[c] = {}
  <2>1. WalletOf(c)' = a
    BY <1>0, <1>2, <1>3 DEF WalletOf
  <2>2. a = Promise!Wallet("active", v, 0)
    BY DEF Promise!Wallet
  <2> HIDE DEF a
  <2>3. Promise!Holds(c, a)
    BY <1>2, <2>1, Holds
  <2>4. WalletOf(c).state = "none"
    BY <1>0, <1>3 DEF WalletOf
  <2>5. Wallets[c].state = "none"
    BY <2>4 DEF Wallets
  <2>6. Promise!Issue(c)
    BY <2>2, <2>3, <2>5 DEF Promise!Issue
  <2> QED BY <2>6 DEF Promise!Use
<1>4. CASE cardMet[c] # {}
  <2>1. \A d \in Cards : WalletOf(d)' = WalletOf(d)
    BY <1>0, <1>2, <1>4 DEF WalletOf, CardApart
  <2> QED BY <2>1 DEF Wallets
<1> QED BY <1>3, <1>4

LEMMA CommitUse ==
  ASSUME CardsInv, CardInputs, NEW w \in Workers, NEW c \in Cards, c = cardRequest[w].of,
         CommitCard(w)
  PROVE  Promise!Use(c) \/ Wallets' = Wallets
<1> DEFINE r == cardRequest[w]
           v == r.amount
           old == WalletOf(c)
<1>0. /\ CardsTypeOK /\ r.kind \in {"redeem", "top_up", "cancel"} /\ CardHeld(r) /\ CardApart(c)
      /\ card'[c].status = Written(card[c].status, r.row.status, NewCard(r).status)
      /\ charged'[c] = charged[c] + (IF r.kind = "top_up" THEN r.amount ELSE 0)
      /\ spent'[c] = spent[c] + (IF r.kind = "redeem" THEN r.amount ELSE 0)
      /\ cardMet[c] \subseteq cardMet'[c]
  BY CardCommitted DEF CardsInv, CardApart
<1>1. /\ v \in Nat /\ charged[c] \in Nat /\ spent[c] \in Nat /\ card[c].balance \in Nat
      /\ card[c].status \in CardStatus
  BY <1>0, CardFields
<1>2. card[c].status # "none"
  BY <1>0 DEF CardHeld
<1>3. Wallets[c] = old
  BY DEF Wallets
<1>4. CASE cardMet'[c] # {}
  <2> DEFINE void == [state |-> "void", in |-> 0, out |-> 0]
  <2>1. WalletOf(c)' = void
    BY <1>4 DEF WalletOf
  <2>2. void = Promise!Wallet("void", 0, 0)
    BY DEF Promise!Wallet
  <2> HIDE DEF void
  <2>3. Promise!Holds(c, void)
    BY <1>0, <2>1, Holds
  <2>4. old.state # "none"
    BY <1>2 DEF WalletOf
  <2> HIDE DEF old
  <2>5. Promise!VoidWallet(c)
    BY <1>3, <2>2, <2>3, <2>4 DEF Promise!VoidWallet
  <2> QED BY <2>5 DEF Promise!Use
<1>5. CASE cardMet'[c] = {}
  <2>1. cardMet[c] = {} /\ r.row = card[c] /\ card[c].balance = charged[c] - spent[c]
    BY <1>0, <1>5 DEF CardHeld, CardsInv, CardBalanceExplained
  <2>2. old = [state |-> card[c].status, in |-> charged[c], out |-> spent[c]]
    BY <2>1 DEF WalletOf
  <2>3. WalletOf(c)' = [state |-> card'[c].status, in |-> charged'[c], out |-> spent'[c]]
    BY <1>5 DEF WalletOf
  <2>4. card'[c].status = NewCard(r).status
    BY <1>0, <2>1 DEF Written
  <2>5. CASE r.kind = "redeem"
    <3> DEFINE new == [state |-> IF v = old.in - old.out THEN "redeemed" ELSE "active",
                       in |-> old.in, out |-> old.out + v]
    <3>1. card[c].status = "active" /\ v \in 1 .. charged[c] - spent[c]
      BY <1>0, <1>1, <2>1, <2>5 DEF CardHeld
    <3>2. card'[c].status = IF v = charged[c] - spent[c] THEN "redeemed" ELSE "active"
      BY <2>1, <2>4, <2>5, <3>1 DEF NewCard
    <3>3. charged'[c] = charged[c] /\ spent'[c] = spent[c] + v
      BY <1>0, <1>1, <2>5
    <3> HIDE DEF v
    <3>4. WalletOf(c)' = new
      BY <2>2, <2>3, <3>1, <3>2, <3>3
    <3> HIDE DEF new
    <3>5. Promise!Holds(c, new)
      BY <1>0, <3>4, Holds
    <3>6. old.state = "active" /\ v \in 1 .. old.in - old.out
      BY <2>2, <3>1
    <3> HIDE DEF old
    <3>7. Promise!Spend(c)
      BY <1>3, <3>5, <3>6 DEF Promise!Spend, Promise!Wallet, new
    <3> QED BY <3>7 DEF Promise!Use
  <2>6. CASE r.kind = "top_up"
    <3> DEFINE new == [state |-> "active", in |-> old.in + v, out |-> old.out]
    <3>1. card[c].status \in {"active", "redeemed"} /\ v \in Values
      BY <1>0, <1>1, <2>1, <2>6 DEF CardHeld, CardInputs, CardStatus
    <3>2. card'[c].status = "active"
      BY <2>1, <2>4, <2>6, <3>1 DEF NewCard
    <3>3. charged'[c] = charged[c] + v /\ spent'[c] = spent[c]
      BY <1>0, <1>1, <2>6
    <3> HIDE DEF v
    <3>4. WalletOf(c)' = new
      BY <2>2, <2>3, <3>2, <3>3
    <3> HIDE DEF new
    <3>5. Promise!Holds(c, new)
      BY <1>0, <3>4, Holds
    <3>6. old.state \in {"active", "redeemed"}
      BY <2>2, <3>1
    <3> HIDE DEF old
    <3>7. Promise!Recharge(c)
      BY <1>3, <3>1, <3>5, <3>6 DEF Promise!Recharge, Promise!Wallet, new
    <3> QED BY <3>7 DEF Promise!Use
  <2>7. CASE r.kind = "cancel"
    <3> DEFINE new == [state |-> "cancelled", in |-> old.in, out |-> old.out]
    <3>1. charged'[c] = charged[c] /\ spent'[c] = spent[c] /\ card'[c].status = "cancelled"
      <4>1. card[c] \in CardRow
        BY <1>0, CardFields
      <4>2. NewCard(r).status = "cancelled"
        BY <2>1, <2>7, <4>1 DEF NewCard, CardRow
      <4> QED BY <1>0, <1>1, <2>4, <2>7, <4>2
    <3>2. WalletOf(c)' = new
      BY <2>2, <2>3, <3>1
    <3>3. CASE card[c].status = "cancelled"
      <4>1. WalletOf(c)' = WalletOf(c)
        BY <2>2, <2>3, <3>1, <3>3
      <4>2. \A d \in Cards : WalletOf(d)' = WalletOf(d)
        BY <1>0, <4>1 DEF CardApart, WalletOf
      <4> QED BY <4>2 DEF Wallets
    <3>4. CASE card[c].status # "cancelled"
      <4> HIDE DEF new
      <4>1. Promise!Holds(c, new)
        BY <1>0, <3>2, Holds
      <4>2. old.state \in {"active", "redeemed"}
        BY <1>1, <1>2, <2>2, <3>4 DEF CardStatus
      <4> HIDE DEF old
      <4>3. Promise!Withdraw(c)
        BY <1>3, <4>1, <4>2 DEF Promise!Withdraw, Promise!Wallet, new
      <4> QED BY <4>3 DEF Promise!Use
    <3> QED BY <3>3, <3>4
  <2> QED BY <1>0, <2>5, <2>6, <2>7
<1> QED BY <1>4, <1>5

LEMMA CardsPromise ==
  ASSUME CardsInv, CardInputs, CardsNext \/ UNCHANGED cardVars
  PROVE  (\E c \in Cards : Promise!Use(c)) \/ Wallets' = Wallets
<1>1. ASSUME NEW w \in Workers, CommitCard(w)
      PROVE  (\E c \in Cards : Promise!Use(c)) \/ Wallets' = Wallets
  <2>1. PICK c \in Cards : c = cardRequest[w].of
    BY CardFields DEF CardsInv
  <2>2. Promise!Use(c) \/ Wallets' = Wallets
    BY <1>1, <2>1, CommitUse
  <2> QED BY <2>2
<1>2. ASSUME UNCHANGED <<card, charged, spent, cardMet>>
      PROVE  Wallets' = Wallets
  BY <1>2 DEF Wallets, WalletOf
<1>3. ASSUME NEW w \in Workers,
             \/ \E c \in Cards, v \in Values : Redeem(w, c, v) \/ TopUp(w, c, v)
             \/ \E c \in Cards : CancelGiftCard(w, c)
             \/ AbandonCard(w)
      PROVE  UNCHANGED <<card, charged, spent, cardMet>>
  BY <1>3 DEF Redeem, TopUp, CancelGiftCard, LoadCard, AbandonCard
<1>4. CASE UNCHANGED cardVars
  BY <1>2, <1>4 DEF cardVars
<1>5. ASSUME NEW c \in Cards, NEW v \in Values, CreateGiftCard(c, v)
      PROVE  (\E d \in Cards : Promise!Use(d)) \/ Wallets' = Wallets
  BY <1>5, IssueUse
<1> QED BY <1>1, <1>2, <1>3, <1>4, <1>5 DEF CardsNext

-----------------------------------------------------------------------------
(* The till. *)

\* Until requests meet, a request knows its session as it is.
TillFresh(r) ==
  /\ r.row = session[r.of] \/ r.kind = "open"
  /\ r.kind # "open" => session[r.of].status = "open"
  /\ r.kind # "close" => r.amount \in Cash \/ -r.amount \in Cash
  /\ r.kind \in {"open", "sale"} => r.amount \in Cash

TillFreshInv ==
  tillMet = {} => \A w \in Workers : tillRequest[w].kind # "idle" => TillFresh(tillRequest[w])

\* A commit that meets nobody leaves no request that holds its session.
LEMMA NobodyMet ==
  ASSUME TillsTypeOK, NEW w \in Workers, NoteTill(w), tillMet' = {}
  PROVE  /\ tillMet = {}
         /\ \A v \in Workers \ {w} :
              tillRequest[v].kind # "idle" => tillRequest[v].of # tillRequest[w].of
<1>1. tillMet \subseteq tillMet'
  BY TillNoted
<1>2. ASSUME NEW v \in Workers \ {w}, tillRequest[v].kind # "idle",
             tillRequest[v].of = tillRequest[w].of
      PROVE  FALSE
  <2>1. {tillRequest[w].kind, tillRequest[v].kind} \in tillMet'
    BY <1>2, TillNoted
  <2> QED BY <2>1
<1> QED BY <1>1, <1>2

LEMMA FreshLoaded ==
  ASSUME TillsTypeOK, TillFreshInv, NEW w \in Workers, NEW kind, NEW s \in Sessions, NEW amount,
         LoadSession(w, kind, s, amount),
         kind # "open" => session[s].status = "open",
         kind # "close" => amount \in Cash \/ -amount \in Cash,
         kind \in {"open", "sale"} => amount \in Cash
  PROVE  TillFreshInv'
<1> DEFINE r == [kind |-> kind, of |-> s, row |-> session[s], amount |-> amount,
                 summed |-> FALSE, moved |-> 0]
<1>1. /\ tillRequest' = [tillRequest EXCEPT ![w] = r] /\ UNCHANGED <<session, tillMet>>
      /\ r.kind = kind /\ r.of = s /\ r.row = session[s] /\ r.amount = amount
  BY DEF LoadSession
<1> HIDE DEF r
<1>2. tillRequest'[w] = r /\ \A v \in Workers \ {w} : tillRequest'[v] = tillRequest[v]
  BY <1>1 DEF TillsTypeOK
<1>3. TillFresh(r)
  BY <1>1 DEF TillFresh
<1>4. ASSUME tillMet = {}, NEW v \in Workers, tillRequest'[v].kind # "idle"
      PROVE  TillFresh(tillRequest'[v])
  BY <1>2, <1>3, <1>4 DEF TillFreshInv
<1> QED BY <1>1, <1>4 DEF TillFreshInv, TillFresh

\* A worker is done; no other session changed, nor does a request hold this one.
LEMMA FreshDone ==
  ASSUME TillsTypeOK, TillFreshInv, NEW w \in Workers, EndTill(w),
         tillMet' = {} => tillMet = {},
         NEW s, \A t \in Sessions \ {s} : session'[t] = session[t],
         tillMet' = {} =>
           \A v \in Workers \ {w} : tillRequest[v].kind # "idle" => tillRequest[v].of # s
  PROVE  TillFreshInv'
<1>1. tillRequest'[w].kind = "idle" /\ \A v \in Workers \ {w} : tillRequest'[v] = tillRequest[v]
  BY TillIdle
<1>2. ASSUME tillMet' = {}, NEW v \in Workers, tillRequest'[v].kind # "idle"
      PROVE  TillFresh(tillRequest[v])'
  <2>1. /\ v # w /\ tillRequest'[v] = tillRequest[v] /\ TillFresh(tillRequest[v])
        /\ tillRequest[v].of \in Sessions \ {s}
    BY <1>1, <1>2, TillFields DEF TillFreshInv
  <2> QED BY <2>1 DEF TillFresh
<1> QED BY <1>2 DEF TillFreshInv

LEMMA FreshStep ==
  ASSUME TillsInv, TillFreshInv, TillsNext \/ UNCHANGED tillVars
  PROVE  TillFreshInv'
<1>0. TillsTypeOK /\ \A a \in Cash : a \in Int
  BY TillsAssumption DEF TillsInv
<1>1. ASSUME NEW w \in Workers, NEW s \in Sessions, NEW a \in Cash,
             OpenSession(w, s, a) \/ RecordSale(w, s, a)
      PROVE  TillFreshInv'
  BY <1>0, <1>1, FreshLoaded DEF OpenSession, RecordSale
<1>2. ASSUME NEW w \in Workers, NEW s \in Sessions, NEW a \in Int, a \in Cash \/ -a \in Cash,
             AddCashMovement(w, s, a)
      PROVE  TillFreshInv'
  BY <1>0, <1>2, FreshLoaded DEF AddCashMovement
<1>3. ASSUME NEW w \in Workers, NEW s \in Sessions, CloseSession(w, s)
      PROVE  TillFreshInv'
  BY <1>0, <1>3, FreshLoaded DEF CloseSession
<1>4. ASSUME NEW w \in Workers, SumMovements(w)
      PROVE  TillFreshInv'
  <2> DEFINE r == tillRequest[w]
             m == movements[r.of]
             u == [r EXCEPT !.summed = TRUE, !.moved = m]
  <2>1. /\ r \in TillRequest /\ UNCHANGED <<session, tillMet>>
        /\ tillRequest' = [tillRequest EXCEPT ![w].summed = TRUE, ![w].moved = m]
    BY <1>0, <1>4, TillFields DEF SumMovements
  <2>2. tillRequest' = [tillRequest EXCEPT ![w] = u]
    BY <1>0, <2>1 DEF TillsTypeOK
  <2> HIDE DEF m
  <2>3. u.kind = r.kind /\ u.of = r.of /\ u.row = r.row /\ u.amount = r.amount
    BY <2>1 DEF TillRequest
  <2> HIDE DEF u
  <2>4. tillRequest'[w] = u /\ \A v \in Workers \ {w} : tillRequest'[v] = tillRequest[v]
    BY <1>0, <2>2 DEF TillsTypeOK
  <2>5. ASSUME tillMet = {}, NEW v \in Workers, tillRequest'[v].kind # "idle"
        PROVE  TillFresh(tillRequest'[v])
    <3>1. CASE v = w
      <4>1. TillFresh(r)
        BY <2>3, <2>4, <2>5, <3>1 DEF TillFreshInv
      <4> HIDE DEF r
      <4>2. TillFresh(u)
        BY <2>3, <4>1 DEF TillFresh
      <4> QED BY <2>4, <3>1, <4>2
    <3>2. CASE v # w
      BY <2>4, <2>5, <3>2 DEF TillFreshInv
    <3> QED BY <3>1, <3>2
  <2> QED BY <2>1, <2>5 DEF TillFreshInv, TillFresh
<1>5. ASSUME NEW w \in Workers, NoteTill(w), EndTill(w),
             \A t \in Sessions \ {tillRequest[w].of} : session'[t] = session[t]
      PROVE  TillFreshInv'
  <2>1. PICK s \in Sessions : s = tillRequest[w].of
    BY <1>0, TillFields
  <2>2. tillMet' = {} =>
          /\ tillMet = {}
          /\ \A v \in Workers \ {w} : tillRequest[v].kind # "idle" => tillRequest[v].of # s
    BY <1>0, <1>5, <2>1, NobodyMet
  <2> QED BY <1>0, <1>5, <2>1, <2>2, FreshDone
<1>6. ASSUME NEW w \in Workers, CommitOpen(w) \/ CommitSale(w) \/ CommitMovement(w) \/ CommitClose(w)
      PROVE  TillFreshInv'
  <2>1. NoteTill(w) /\ EndTill(w)
    BY <1>6 DEF CommitOpen, CommitSale, CommitMovement, CommitClose
  <2>2. \A t \in Sessions \ {tillRequest[w].of} : session'[t] = session[t]
    BY <1>0, <1>6 DEF CommitOpen, CommitSale, CommitMovement, CommitClose, TillsTypeOK
  <2> QED BY <1>5, <2>1, <2>2
<1>7. ASSUME NEW w \in Workers, AbandonTill(w)
      PROVE  TillFreshInv'
  <2>1. tillRequest'[w].kind = "idle" /\ \A v \in Workers \ {w} : tillRequest'[v] = tillRequest[v]
    BY <1>0, <1>7, TillIdle DEF AbandonTill
  <2> QED BY <1>7, <2>1 DEF AbandonTill, TillFreshInv, TillFresh
<1>8. CASE UNCHANGED tillVars
  BY <1>8 DEF tillVars, TillFreshInv, TillFresh
<1>9. ASSUME NEW w \in Workers, NEW s \in Sessions, NEW a \in Cash,
             AddCashMovement(w, s, a) \/ AddCashMovement(w, s, -a)
      PROVE  TillFreshInv'
  <2>1. a \in Int /\ -a \in Int /\ -(-a) = a
    BY <1>0
  <2> QED BY <1>2, <1>9, <2>1
<1> QED BY <1>1, <1>3, <1>4, <1>6, <1>7, <1>8, <1>9 DEF TillsNext

\* Only session s may change, and nobody has met.
LEMMA Reads ==
  ASSUME NEW s \in Sessions, tillMet = {}, tillMet' = {},
         \A t \in Sessions \ {s} : session'[t] = session[t] /\ movements'[t] = movements[t],
         NEW a, TillOf(s)' = a
  PROVE  Promise!Reads(s, a)
<1>1. \A t \in Sessions \ {s} : TillOf(t)' = TillOf(t)
  BY DEF TillOf
<1>2. Books' = [t \in Sessions |-> TillOf(t)']
  BY DEF Books
<1>3. Books' = [[t \in Sessions |-> TillOf(t)] EXCEPT ![s] = a]
  BY <1>1, <1>2
<1> QED BY <1>3 DEF Promise!Reads, Books

\* What the books of a session say of it, while nobody has met.
LEMMA BookOf ==
  ASSUME NEW s \in Sessions, tillMet = {}
  PROVE  /\ Books[s].state = session[s].status
         /\ Books[s].cash = session[s].float + session[s].sales + movements[s]
         /\ Books[s].difference = session[s].difference
BY DEF Books, TillOf

LEMMA OpenDeal ==
  ASSUME TillsInv, TillFreshInv, NEW w \in Workers, NEW s \in Sessions, s = tillRequest[w].of,
         CommitOpen(w), tillMet = {}, tillMet' = {}
  PROVE  Promise!OpenTill(s)
<1> DEFINE new == [NoSession EXCEPT !.status = "open", !.float = tillRequest[w].amount]
<1>1. PICK a \in Cash : a = tillRequest[w].amount
  BY DEF CommitOpen, TillFreshInv, TillFresh
<1>2. /\ TillsTypeOK /\ a \in Nat /\ session[s].status = "none" /\ OpenSessions = {}
      /\ movements[s] = 0
  BY <1>1, TillsAssumption DEF TillsInv, TillHeld, CommitOpen, DrawerAccounted
<1>3. /\ session' = [session EXCEPT ![s] = new] /\ movements' = movements
      /\ new = [NoSession EXCEPT !.status = "open", !.float = a]
  BY <1>1 DEF CommitOpen
<1>4. new.status = "open" /\ new.float = a /\ new.sales = 0 /\ new.difference = 0
  BY <1>3 DEF NoSession
<1> HIDE DEF new
<1>5. session'[s] = new /\ \A t \in Sessions \ {s} : session'[t] = session[t]
  BY <1>2, <1>3 DEF TillsTypeOK
<1>6. a + 0 + 0 = a
  BY <1>2
<1>7. TillOf(s)' = Promise!Till("open", a, 0)
  BY <1>2, <1>3, <1>4, <1>5, <1>6 DEF TillOf, Promise!Till
<1>8. Promise!Reads(s, Promise!Till("open", a, 0))
  BY <1>3, <1>5, <1>7, Reads
<1>9. Books[s].state = "none" /\ \A t \in Sessions : Books[t].state \notin {"open", "void"}
  BY <1>2, BookOf, TillFields DEF OpenSessions, SessionStatus
<1> QED BY <1>8, <1>9 DEF Promise!OpenTill

LEMMA SaleDeal ==
  ASSUME TillsInv, TillFreshInv, NEW w \in Workers, NEW s \in Sessions, s = tillRequest[w].of,
         CommitSale(w), tillMet = {}, tillMet' = {}
  PROVE  Promise!Move(s)
<1> DEFINE new == [session[s] EXCEPT !.sales = session[s].sales + tillRequest[w].amount]
<1>1. PICK a \in Cash : a = tillRequest[w].amount
  BY DEF CommitSale, TillFreshInv, TillFresh
<1>2. /\ TillsTypeOK /\ a \in Nat /\ session[s].status = "open"
      /\ tillRequest[w].row = session[s] /\ session[s] \in SessionRow
      /\ session[s].float \in Nat /\ session[s].sales \in Nat /\ movements[s] \in Int
  BY <1>1, TillsAssumption, TillFields DEF TillsInv, CommitSale, TillFreshInv, TillFresh
<1>3. session' = [session EXCEPT ![s].sales = Written(@, session[s].sales, session[s].sales + a)]
  BY <1>1, <1>2 DEF CommitSale
<1>4. /\ movements' = movements /\ Written(session[s].sales, session[s].sales, session[s].sales + a)
                                      = session[s].sales + a
  BY <1>2 DEF CommitSale, Written
<1>5. /\ session'[s].status = "open" /\ session'[s].float = session[s].float
      /\ session'[s].sales = session[s].sales + a
      /\ session'[s].difference = session[s].difference
      /\ \A t \in Sessions \ {s} : session'[t] = session[t]
  BY <1>2, <1>3, <1>4 DEF TillsTypeOK, SessionRow
<1> DEFINE cash == session[s].float + session[s].sales + movements[s]
<1>6. session[s].float + (session[s].sales + a) + movements[s] = cash + 1 * a
  BY <1>2
<1> HIDE DEF cash
<1>7. TillOf(s)' = Promise!Till("open", cash + 1 * a, session[s].difference)
  BY <1>4, <1>5, <1>6 DEF TillOf, Promise!Till
<1>8. Promise!Reads(s, Promise!Till("open", cash + 1 * a, session[s].difference))
  BY <1>4, <1>5, <1>7, Reads
<1>9. /\ Books[s].state = "open" /\ Books[s].cash = cash
      /\ Books[s].difference = session[s].difference
  BY <1>2, BookOf DEF cash
<1> QED BY <1>8, <1>9 DEF Promise!Move

LEMMA MovementDeal ==
  ASSUME TillsInv, TillFreshInv, NEW w \in Workers, NEW s \in Sessions, s = tillRequest[w].of,
         CommitMovement(w), tillMet = {}, tillMet' = {}
  PROVE  Promise!Move(s)
<1>1. PICK a \in Int : a = tillRequest[w].amount
  BY TillFields DEF TillsInv
<1>2. /\ TillsTypeOK /\ session[s].status = "open" /\ (a \in Cash \/ -a \in Cash)
      /\ session[s].float \in Nat /\ session[s].sales \in Nat /\ movements[s] \in Int
  BY <1>1, TillFields DEF TillsInv, CommitMovement, TillFreshInv, TillFresh
<1>3. session' = session /\ movements' = [movements EXCEPT ![s] = @ + a]
  BY <1>1 DEF CommitMovement
<1>4. movements'[s] = movements[s] + a /\ \A t \in Sessions \ {s} : movements'[t] = movements[t]
  BY <1>2, <1>3 DEF TillsTypeOK
<1> DEFINE cash == session[s].float + session[s].sales + movements[s]
<1>5. session[s].float + session[s].sales + (movements[s] + a) = cash + a
  BY <1>2
<1>6. PICK v \in Cash, sign \in {1, -1} : sign * v = a
  <2>1. CASE a \in Cash
    BY <2>1
  <2>2. CASE -a \in Cash
    <3>1. (-1) * (-a) = a
      OBVIOUS
    <3> QED BY <2>2, <3>1
  <2> QED BY <1>2, <2>1, <2>2
<1> HIDE DEF cash
<1>7. TillOf(s)' = Promise!Till("open", cash + sign * v, session[s].difference)
  BY <1>2, <1>3, <1>4, <1>5, <1>6 DEF TillOf, Promise!Till
<1>8. Promise!Reads(s, Promise!Till("open", cash + sign * v, session[s].difference))
  BY <1>3, <1>4, <1>7, Reads
<1>9. /\ Books[s].state = "open" /\ Books[s].cash = cash
      /\ Books[s].difference = session[s].difference
  BY <1>2, BookOf DEF cash
<1> QED BY <1>6, <1>8, <1>9 DEF Promise!Move

LEMMA CloseDeal ==
  ASSUME TillsInv, TillsInv', TillFreshInv, NEW w \in Workers, NEW s \in Sessions,
         s = tillRequest[w].of, CommitClose(w), tillMet = {}, tillMet' = {}
  PROVE  Promise!CloseTill(s)
<1> DEFINE d == tillRequest[w].amount - Expected(tillRequest[w])
<1>1. TillsTypeOK /\ session[s].status = "open" /\ session[s] \in SessionRow
  BY TillFields DEF TillsInv, CommitClose, TillFreshInv, TillFresh
<1>2. /\ session' = [session EXCEPT ![s].status = "closed", ![s].difference = d]
      /\ movements' = movements
  BY DEF CommitClose
<1> HIDE DEF d
<1>3. /\ session'[s].status = "closed" /\ session'[s].float = session[s].float
      /\ session'[s].sales = session[s].sales
      /\ \A t \in Sessions \ {s} : session'[t] = session[t]
  BY <1>1, <1>2 DEF TillsTypeOK, SessionRow
<1>4. session'[s].difference = 0
  BY <1>3 DEF TillsInv, NoFalseDifference
<1> DEFINE cash == session[s].float + session[s].sales + movements[s]
<1>5. TillOf(s)' = Promise!Till("closed", cash, 0)
  BY <1>2, <1>3, <1>4 DEF TillOf, Promise!Till
<1>6. Promise!Reads(s, Promise!Till("closed", cash, 0))
  BY <1>2, <1>3, <1>5, Reads
<1>7. Books[s].state = "open" /\ Books[s].cash = cash
  BY <1>1, BookOf
<1> QED BY <1>6, <1>7 DEF Promise!CloseTill

LEMMA TillsPromise ==
  ASSUME TillsInv, TillsInv', TillFreshInv, TillsNext \/ UNCHANGED tillVars
  PROVE  \/ Promise!VoidTill
         \/ \E s \in Sessions : Promise!OpenTill(s) \/ Promise!Move(s) \/ Promise!CloseTill(s)
         \/ Books' = Books
<1>1. ASSUME tillMet' # {}
      PROVE  Promise!VoidTill
  BY <1>1 DEF Promise!VoidTill, Promise!Till, Books, TillOf
<1>2. ASSUME UNCHANGED <<session, movements, tillMet>>
      PROVE  Books' = Books
  BY <1>2 DEF Books, TillOf
<1>3. ASSUME tillMet' = {}, NEW w \in Workers,
             CommitOpen(w) \/ CommitSale(w) \/ CommitMovement(w) \/ CommitClose(w)
      PROVE  \E s \in Sessions : Promise!OpenTill(s) \/ Promise!Move(s) \/ Promise!CloseTill(s)
  <2>1. PICK s \in Sessions : s = tillRequest[w].of
    BY TillFields DEF TillsInv
  <2>2. NoteTill(w)
    BY <1>3 DEF CommitOpen, CommitSale, CommitMovement, CommitClose
  <2>3. tillMet = {}
    BY <1>3, <2>2, NobodyMet DEF TillsInv
  <2>4. Promise!OpenTill(s) \/ Promise!Move(s) \/ Promise!CloseTill(s)
    BY <1>3, <2>1, <2>3, OpenDeal, SaleDeal, MovementDeal, CloseDeal
  <2> QED BY <2>4
<1>4. ASSUME NEW w \in Workers,
             \/ \E s \in Sessions, a \in Cash :
                  \/ OpenSession(w, s, a) \/ RecordSale(w, s, a)
                  \/ AddCashMovement(w, s, a) \/ AddCashMovement(w, s, -a)
             \/ \E s \in Sessions : CloseSession(w, s)
             \/ SumMovements(w) \/ AbandonTill(w)
      PROVE  UNCHANGED <<session, movements, tillMet>>
  BY <1>4 DEF OpenSession, RecordSale, AddCashMovement, CloseSession, LoadSession, SumMovements,
     AbandonTill
<1>5. CASE UNCHANGED tillVars
  BY <1>2, <1>5 DEF tillVars
<1> QED BY <1>1, <1>2, <1>3, <1>4, <1>5 DEF TillsNext

-----------------------------------------------------------------------------
(* The counter as a whole. *)

\* What the requests know, beside the invariants of their tables.
PromiseInv == CardInputs /\ TillFreshInv

LEMMA PromiseInit ==
  ASSUME Init
  PROVE  PromiseInv /\ Promise!ContractInit
<1>1. \A w \in Workers : cardRequest[w].kind = "idle" /\ tillRequest[w].kind = "idle"
  <2>1. PICK c \in Cards :
          cardRequest = [w \in Workers |-> [kind |-> "idle", of |-> c, row |-> card[c], amount |-> 0]]
    BY DEF Init, CardsInit
  <2>2. PICK s \in Sessions :
          tillRequest = [w \in Workers |-> [kind |-> "idle", of |-> s, row |-> NoSession,
                                            amount |-> 0, summed |-> FALSE, moved |-> 0]]
    BY DEF Init, TillsInit
  <2> QED BY <2>1, <2>2
<1>2. PromiseInv
  BY <1>1 DEF PromiseInv, CardInputs, TillFreshInv
<1>3. \A l \in Laybys : AgreementOf(l) = Promise!Nothing("none")
  <2> SUFFICES ASSUME NEW l \in Laybys PROVE AgreementOf(l) = Promise!Nothing("none")
    OBVIOUS
  <2>1. /\ met[l] = {} /\ layby[l] = NoRow /\ received[l] = 0 /\ refunds[l] = <<>>
        /\ (l \in handedOut) = FALSE
    BY DEF Init, LaybyInit
  <2>2. layby[l].status = "none" /\ layby[l].balance = 0 /\ layby[l].extensions = 0
    BY <2>1 DEF NoRow
  <2>3. AgreementOf(l) = [state |-> "none", paid |-> 0, due |-> 0, extensions |-> 0,
                          refunds |-> <<>>, goods |-> FALSE]
    BY <2>1, <2>2 DEF AgreementOf
  <2> QED BY <2>3 DEF Promise!Nothing, Promise!Agreement
<1>4. \A c \in Cards : WalletOf(c) = Promise!Wallet("none", 0, 0)
  BY DEF Init, CardsInit, WalletOf, Promise!Wallet
<1>5. \A s \in Sessions : TillOf(s) = Promise!Till("none", 0, 0)
  BY DEF Init, TillsInit, NoSession, TillOf, Promise!Till
<1> QED BY <1>2, <1>3, <1>4, <1>5 DEF Promise!ContractInit, Agreements, Wallets, Books

LEMMA PromiseInvStep ==
  ASSUME IInv, PromiseInv, [Next]_vars
  PROVE  PromiseInv'
<1>1. /\ CardsNext \/ UNCHANGED cardVars
      /\ TillsNext \/ UNCHANGED tillVars
  BY DEF Next, vars
<1>2. CardInputs'
  BY <1>1, CardInputsStep DEF IInv, CardsInv, PromiseInv
<1>3. TillFreshInv'
  BY <1>1, FreshStep DEF IInv, PromiseInv
<1> QED BY <1>2, <1>3 DEF PromiseInv

\* The parts have no table in common.
LEMMA PromiseStep ==
  ASSUME IInv, IInv', ScheduleInv, PromiseInv, [Next]_vars
  PROVE  [Promise!ContractNext]_(Promise!contractVars)
<1>1. UNCHANGED laybyVars => Agreements' = Agreements
  BY DEF laybyVars, laybyTables, laybyGhosts, Agreements, AgreementOf
<1>2. UNCHANGED cardVars => Wallets' = Wallets
  BY DEF cardVars, Wallets, WalletOf
<1>3. UNCHANGED tillVars => Books' = Books
  BY DEF tillVars, Books, TillOf
<1>4. ASSUME LaybyNext, UNCHANGED <<cardVars, tillVars>>
      PROVE  [Promise!ContractNext]_(Promise!contractVars)
  <2>1. (\E l \in Laybys : Promise!Deal(l)) \/ Agreements' = Agreements
    BY <1>4, LaybyPromise DEF IInv
  <2> QED BY <1>2, <1>3, <1>4, <2>1 DEF Promise!ContractNext, Promise!contractVars
<1>5. ASSUME CardsNext, UNCHANGED <<laybyVars, tillVars>>
      PROVE  [Promise!ContractNext]_(Promise!contractVars)
  <2>1. (\E c \in Cards : Promise!Use(c)) \/ Wallets' = Wallets
    BY <1>5, CardsPromise DEF IInv, PromiseInv
  <2> QED BY <1>1, <1>3, <1>5, <2>1 DEF Promise!ContractNext, Promise!contractVars
<1>6. ASSUME TillsNext, UNCHANGED <<laybyVars, cardVars>>
      PROVE  [Promise!ContractNext]_(Promise!contractVars)
  <2>1. \/ Promise!VoidTill
        \/ \E s \in Sessions : Promise!OpenTill(s) \/ Promise!Move(s) \/ Promise!CloseTill(s)
        \/ Books' = Books
    BY <1>6, TillsPromise DEF IInv, PromiseInv
  <2> QED BY <1>1, <1>2, <1>6, <2>1 DEF Promise!ContractNext, Promise!contractVars
<1>7. CASE UNCHANGED vars
  BY <1>1, <1>2, <1>3, <1>7 DEF vars, Promise!contractVars
<1> QED BY <1>4, <1>5, <1>6, <1>7 DEF Next

\* Each behaviour of the requests is one of the contract: a commit that has met
\* nobody is one step of it, on the terms that hold when it is made.
THEOREM CounterKeepsItsPromise == Spec => ImplementsContract
<1>1. Init => PromiseInv /\ Promise!ContractInit
  BY PromiseInit
<1>2. IInv /\ PromiseInv /\ [Next]_vars => PromiseInv'
  BY PromiseInvStep
<1>3. IInv /\ IInv' /\ ScheduleInv /\ PromiseInv /\ [Next]_vars =>
        [Promise!ContractNext]_(Promise!contractVars)
  BY PromiseStep
<1> QED BY <1>1, <1>2, <1>3, CounterInvariantHolds, ScheduleInvariantHolds, PTL
      DEF Spec, ImplementsContract, Promise!ContractSpec

-----------------------------------------------------------------------------
(* What the contract says of the counter. *)

LEMMA TermsStep ==
  ASSUME Promise!TermsKept, Promise!ContractNext \/ UNCHANGED Promise!contractVars
  PROVE  Promise!TermsKept'
<1> DEFINE Kept(l, a) ==
      a.state \notin {"none", "void"} =>
        /\ a.paid \in Nat /\ a.due \in Nat /\ a.extensions \in 0 .. MaxExtensions
        /\ a.paid + a.due = Price[l] + a.extensions * ExtensionFee
        /\ a.state \in {"ready_for_collection", "completed"} => a.due = 0
        /\ a.goods => a.state = "completed"
        /\ a.refunds # <<>> => a.state = "cancelled" /\ a.refunds = <<a.paid - CancellationFee>>
<1>0. /\ Price \in [Laybys -> Nat] /\ ExtensionFee \in Nat /\ CancellationFee \in Nat
      /\ MaxExtensions \in Nat
  BY LaybyAssumption
<1>1. \A l \in Laybys : Kept(l, Agreements[l])
  BY DEF Promise!TermsKept
<1>2. ASSUME NEW l \in Laybys, NEW a, Kept(l, a), Promise!Becomes(l, a)
      PROVE  Promise!TermsKept'
  <2> HIDE DEF Kept
  <2>1. Agreements' = [Agreements EXCEPT ![l] = a] /\ Agreements \in [Laybys -> {Agreements[m] : m \in Laybys}]
    BY <1>2 DEF Promise!Becomes, Agreements
  <2>2. \A m \in Laybys : Kept(m, Agreements'[m])
    BY <1>1, <1>2, <2>1
  <2> USE DEF Kept
  <2> QED BY <2>2 DEF Promise!TermsKept
<1>3. ASSUME NEW l \in Laybys, NEW state, NEW paid, NEW due, NEW extensions, NEW back, NEW goods,
             state \in {"ready_for_collection", "completed"} => due = 0,
             state # "void" =>
               /\ paid \in Nat /\ due \in Nat /\ extensions \in 0 .. MaxExtensions
               /\ paid + due = Price[l] + extensions * ExtensionFee
               /\ goods => state = "completed"
               /\ back # <<>> => state = "cancelled" /\ back = <<paid - CancellationFee>>
      PROVE  Kept(l, Promise!Agreement(state, paid, due, extensions, back, goods))
  BY <1>3 DEF Promise!Agreement
<1>4. ASSUME NEW l \in Laybys, Promise!Sign(l)
      PROVE  Promise!TermsKept'
  <2>1. PICK d \in 0 .. Price[l] :
          Promise!Becomes(l, Promise!Agreement("active", d, Price[l] - d, 0, <<>>, FALSE))
    BY <1>4 DEF Promise!Sign
  <2>2. /\ d \in Nat /\ Price[l] - d \in Nat /\ 0 \in 0 .. MaxExtensions
        /\ d + (Price[l] - d) = Price[l] + 0 * ExtensionFee
    BY <1>0
  <2> HIDE DEF Kept
  <2>3. Kept(l, Promise!Agreement("active", d, Price[l] - d, 0, <<>>, FALSE))
    BY <1>3, <2>2
  <2> QED BY <1>2, <2>1, <2>3
<1>5. ASSUME NEW l \in Laybys, Promise!Pay(l)
      PROVE  Promise!TermsKept'
  <2> DEFINE a == Agreements[l]
  <2>1. PICK v \in 1 .. a.due :
          Promise!Becomes(l, Promise!Agreement(IF v = a.due THEN "ready_for_collection" ELSE "active",
                                  a.paid + v, a.due - v, a.extensions, a.refunds, a.goods))
    BY <1>5 DEF Promise!Pay
  <2>2. /\ a.paid \in Nat /\ a.due \in Nat /\ a.extensions \in 0 .. MaxExtensions
        /\ a.paid + a.due = Price[l] + a.extensions * ExtensionFee
        /\ ~a.goods /\ a.refunds = <<>>
    BY <1>1, <1>5 DEF Promise!Pay
  <2> HIDE DEF a, Kept
  <2>3. /\ a.paid + v \in Nat /\ a.due - v \in Nat
        /\ (a.paid + v) + (a.due - v) = Price[l] + a.extensions * ExtensionFee
        /\ v = a.due => a.due - v = 0
    BY <2>2
  <2>4. Kept(l, Promise!Agreement(IF v = a.due THEN "ready_for_collection" ELSE "active",
                  a.paid + v, a.due - v, a.extensions, a.refunds, a.goods))
    BY <1>3, <2>2, <2>3
  <2> QED BY <1>2, <2>1, <2>4
<1>6. ASSUME NEW l \in Laybys, Promise!Extend(l)
      PROVE  Promise!TermsKept'
  <2> DEFINE a == Agreements[l]
  <2>1. /\ a.extensions < MaxExtensions
        /\ Promise!Becomes(l, Promise!Agreement("active", a.paid, a.due + ExtensionFee,
                                 a.extensions + 1, a.refunds, a.goods))
    BY <1>6 DEF Promise!Extend
  <2>2. /\ a.paid \in Nat /\ a.due \in Nat /\ a.extensions \in 0 .. MaxExtensions
        /\ a.paid + a.due = Price[l] + a.extensions * ExtensionFee
        /\ ~a.goods /\ a.refunds = <<>>
    BY <1>1, <1>6 DEF Promise!Extend
  <2> HIDE DEF a, Kept
  <2>3. /\ a.due + ExtensionFee \in Nat /\ a.extensions + 1 \in 0 .. MaxExtensions
        /\ a.paid + (a.due + ExtensionFee) = Price[l] + (a.extensions + 1) * ExtensionFee
    <3>1. a.due + ExtensionFee \in Nat /\ a.extensions + 1 \in 0 .. MaxExtensions
      BY <1>0, <2>1, <2>2
    <3> DEFINE e == a.extensions
               fees == e * ExtensionFee
               more == (e + 1) * ExtensionFee
    <3>2. e \in Int /\ a.paid \in Nat /\ a.due \in Nat /\ Price[l] \in Nat
      BY <1>0, <2>2
    <3>3. a.paid + a.due = Price[l] + fees
      BY <2>2
    <3> HIDE DEF e
    <3>4. fees \in Int /\ more = fees + ExtensionFee
      BY <1>0, <3>2
    <3> HIDE DEF fees, more
    <3>5. a.paid + (a.due + ExtensionFee) = Price[l] + more
      BY <1>0, <3>2, <3>3, <3>4
    <3> QED BY <3>1, <3>5 DEF more, e
  <2>4. Kept(l, Promise!Agreement("active", a.paid, a.due + ExtensionFee, a.extensions + 1,
                                  a.refunds, a.goods))
    BY <1>3, <2>2, <2>3
  <2> QED BY <1>2, <2>1, <2>4
<1>7. ASSUME NEW l \in Laybys, Promise!Collect(l)
      PROVE  Promise!TermsKept'
  <2> DEFINE a == Agreements[l]
  <2>1. Promise!Becomes(l, Promise!Agreement("completed", a.paid, a.due, a.extensions, a.refunds, TRUE))
    BY <1>7 DEF Promise!Collect
  <2>2. /\ a.paid \in Nat /\ a.due \in Nat /\ a.extensions \in 0 .. MaxExtensions
        /\ a.paid + a.due = Price[l] + a.extensions * ExtensionFee
        /\ a.due = 0 /\ a.refunds = <<>>
    BY <1>1, <1>7 DEF Promise!Collect
  <2> HIDE DEF a, Kept
  <2>3. Kept(l, Promise!Agreement("completed", a.paid, a.due, a.extensions, a.refunds, TRUE))
    BY <1>3, <2>2
  <2> QED BY <1>2, <2>1, <2>3
<1>8. ASSUME NEW l \in Laybys, Promise!Cancel(l)
      PROVE  Promise!TermsKept'
  <2> DEFINE a == Agreements[l]
             back == IF a.paid > CancellationFee THEN <<a.paid - CancellationFee>> ELSE <<>>
  <2>1. Promise!Becomes(l, Promise!Agreement("cancelled", a.paid, a.due, a.extensions, back, a.goods))
    BY <1>8 DEF Promise!Cancel
  <2>2. /\ a.paid \in Nat /\ a.due \in Nat /\ a.extensions \in 0 .. MaxExtensions
        /\ a.paid + a.due = Price[l] + a.extensions * ExtensionFee
        /\ ~a.goods
    BY <1>1, <1>8 DEF Promise!Cancel
  <2>3. back # <<>> => back = <<a.paid - CancellationFee>>
    OBVIOUS
  <2> HIDE DEF a, back, Kept
  <2>4. Kept(l, Promise!Agreement("cancelled", a.paid, a.due, a.extensions, back, a.goods))
    BY <1>3, <2>2, <2>3
  <2> QED BY <1>2, <2>1, <2>4
<1>9. ASSUME NEW l \in Laybys, Promise!VoidAgreement(l)
      PROVE  Promise!TermsKept'
  <2>1. Kept(l, Promise!Nothing("void"))
    BY DEF Promise!Nothing, Promise!Agreement
  <2> HIDE DEF Kept
  <2> QED BY <1>2, <1>9, <2>1 DEF Promise!VoidAgreement
<1>10. CASE UNCHANGED Agreements
  BY <1>10 DEF Promise!TermsKept
<1> QED BY <1>4, <1>5, <1>6, <1>7, <1>8, <1>9, <1>10
        DEF Promise!ContractNext, Promise!Deal, Promise!contractVars

\* Each cent of a layby's price and fees is paid or due, its goods go out when
\* nothing is due and never together with a refund, and what goes back is what
\* was paid less the fee, once: it is so in the contract, hence at the counter.
THEOREM TermsAreKept == Spec => []Promise!TermsKept
<1>1. Promise!ContractInit => Promise!TermsKept
  BY DEF Promise!ContractInit, Promise!TermsKept, Promise!Nothing, Promise!Agreement
<1>2. Promise!TermsKept /\ [Promise!ContractNext]_(Promise!contractVars) => Promise!TermsKept'
  BY TermsStep
<1> QED BY <1>1, <1>2, CounterKeepsItsPromise, PTL DEF ImplementsContract, Promise!ContractSpec

LEMMA ValueStep ==
  ASSUME Promise!ValueKept, Promise!ContractNext \/ UNCHANGED Promise!contractVars
  PROVE  Promise!ValueKept'
<1> DEFINE Kept(a) ==
      a.state \notin {"none", "void"} =>
        /\ a.in \in Nat /\ a.out \in 0 .. a.in
        /\ a.state = "active" => a.out < a.in
        /\ a.state = "redeemed" => a.out = a.in
<1>0. \A v \in Values : v \in Nat /\ v > 0
  BY CardsAssumption
<1>1. \A c \in Cards : Kept(Wallets[c])
  BY DEF Promise!ValueKept
<1>2. ASSUME NEW c \in Cards, NEW a, Kept(a), Promise!Holds(c, a)
      PROVE  Promise!ValueKept'
  <2> HIDE DEF Kept
  <2>1. Wallets' = [Wallets EXCEPT ![c] = a] /\ Wallets \in [Cards -> {Wallets[d] : d \in Cards}]
    BY <1>2 DEF Promise!Holds, Wallets
  <2>2. \A d \in Cards : Kept(Wallets'[d])
    BY <1>1, <1>2, <2>1
  <2> USE DEF Kept
  <2> QED BY <2>2 DEF Promise!ValueKept
<1>3. ASSUME NEW c \in Cards, Promise!Issue(c)
      PROVE  Promise!ValueKept'
  <2>1. PICK v \in Values : Promise!Holds(c, Promise!Wallet("active", v, 0))
    BY <1>3 DEF Promise!Issue
  <2>2. Kept(Promise!Wallet("active", v, 0))
    BY <1>0 DEF Promise!Wallet
  <2> HIDE DEF Kept
  <2> QED BY <1>2, <2>1, <2>2
<1>4. ASSUME NEW c \in Cards, Promise!Spend(c)
      PROVE  Promise!ValueKept'
  <2> DEFINE a == Wallets[c]
  <2>1. PICK v \in 1 .. a.in - a.out :
          Promise!Holds(c, Promise!Wallet(IF v = a.in - a.out THEN "redeemed" ELSE "active",
                                          a.in, a.out + v))
    BY <1>4 DEF Promise!Spend
  <2>2. a.in \in Nat /\ a.out \in 0 .. a.in
    BY <1>1, <1>4 DEF Promise!Spend
  <2> HIDE DEF a
  <2>3. Kept(Promise!Wallet(IF v = a.in - a.out THEN "redeemed" ELSE "active", a.in, a.out + v))
    BY <2>2 DEF Promise!Wallet
  <2> HIDE DEF Kept
  <2> QED BY <1>2, <2>1, <2>3
<1>5. ASSUME NEW c \in Cards, Promise!Recharge(c)
      PROVE  Promise!ValueKept'
  <2> DEFINE a == Wallets[c]
  <2>1. PICK v \in Values : Promise!Holds(c, Promise!Wallet("active", a.in + v, a.out))
    BY <1>5 DEF Promise!Recharge
  <2>2. a.in \in Nat /\ a.out \in 0 .. a.in
    BY <1>1, <1>5 DEF Promise!Recharge
  <2> HIDE DEF a
  <2>3. Kept(Promise!Wallet("active", a.in + v, a.out))
    BY <1>0, <2>2 DEF Promise!Wallet
  <2> HIDE DEF Kept
  <2> QED BY <1>2, <2>1, <2>3
<1>6. ASSUME NEW c \in Cards, Promise!Withdraw(c)
      PROVE  Promise!ValueKept'
  <2> DEFINE a == Wallets[c]
  <2>1. Promise!Holds(c, Promise!Wallet("cancelled", a.in, a.out))
    BY <1>6 DEF Promise!Withdraw
  <2>2. a.in \in Nat /\ a.out \in 0 .. a.in
    BY <1>1, <1>6 DEF Promise!Withdraw
  <2> HIDE DEF a
  <2>3. Kept(Promise!Wallet("cancelled", a.in, a.out))
    BY <2>2 DEF Promise!Wallet
  <2> HIDE DEF Kept
  <2> QED BY <1>2, <2>1, <2>3
<1>7. ASSUME NEW c \in Cards, Promise!VoidWallet(c)
      PROVE  Promise!ValueKept'
  <2>1. Kept(Promise!Wallet("void", 0, 0))
    BY DEF Promise!Wallet
  <2> HIDE DEF Kept
  <2> QED BY <1>2, <1>7, <2>1 DEF Promise!VoidWallet
<1>8. CASE UNCHANGED Wallets
  BY <1>8 DEF Promise!ValueKept
<1> QED BY <1>3, <1>4, <1>5, <1>6, <1>7, <1>8
        DEF Promise!ContractNext, Promise!Use, Promise!contractVars

\* A gift card is used up when all that was put on it was spent, and not before.
THEOREM ValueIsKept == Spec => []Promise!ValueKept
<1>1. Promise!ContractInit => Promise!ValueKept
  BY DEF Promise!ContractInit, Promise!ValueKept, Promise!Wallet
<1>2. Promise!ValueKept /\ [Promise!ContractNext]_(Promise!contractVars) => Promise!ValueKept'
  BY ValueStep
<1> QED BY <1>1, <1>2, CounterKeepsItsPromise, PTL DEF ImplementsContract, Promise!ContractSpec
=============================================================================
