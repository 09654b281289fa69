----------------------------- MODULE Counter_proofs ----------------------------
(***************************************************************************)
(* Proofs about Counter, for every set of workers, laybys, cards and       *)
(* sessions and all amounts.                                               *)
(***************************************************************************)
EXTENDS Counter, Layby_proofs, FiniteSetTheorems, TLAPS

-----------------------------------------------------------------------------
(* Gift cards. *)

\* Meetings of two requests that both change the balance.
MoneyMet == {{"redeem"}, {"top_up"}, {"redeem", "top_up"}}

\* What a request under way has checked, and that the row it loaded is still the
\* row in the table, unless another request that held it has been committed.
CardHeld(r) ==
  /\ r.row.status # "none" /\ card[r.of].status # "none"
  /\ r.kind = "redeem" => r.row.status = "active" /\ r.amount <= r.row.balance
  /\ r.kind = "top_up" => r.row.status # "cancelled"
  /\ r.kind \in {"redeem", "top_up"} => r.amount > 0
  /\ r.kind \in {"redeem", "top_up"} /\ cardMet[r.of] \cap MoneyMet = {} =>
       r.row.balance = card[r.of].balance
  /\ cardMet[r.of] = {} => r.row = card[r.of]

CardsInv ==
  /\ CardsTypeOK
  /\ \A c \in Cards : card[c].status = "none" =>
       card[c].balance = 0 /\ charged[c] = 0 /\ spent[c] = 0
  /\ \A w \in Workers : cardRequest[w].kind # "idle" => CardHeld(cardRequest[w])
  /\ CardBalanceExplained

LEMMA CardFields ==
  ASSUME CardsTypeOK
  PROVE  /\ \A c \in Cards : /\ card[c] \in CardRow /\ card[c].status \in CardStatus
                             /\ card[c].balance \in Nat /\ charged[c] \in Nat /\ spent[c] \in Nat
         /\ \A w \in Workers :
              /\ cardRequest[w] \in CardRequest /\ cardRequest[w].kind \in CardKinds
              /\ cardRequest[w].of \in Cards /\ cardRequest[w].amount \in Nat
              /\ cardRequest[w].row \in CardRow
              /\ cardRequest[w].row.status \in CardStatus /\ cardRequest[w].row.balance \in Nat
BY DEF CardsTypeOK, CardRow, CardRequest

\* A request that is over.
LEMMA CardIdle ==
  ASSUME CardsTypeOK, NEW w \in Workers, cardRequest' = [cardRequest EXCEPT ![w].kind = "idle"]
  PROVE  /\ cardRequest' \in [Workers -> CardRequest]
         /\ cardRequest'[w].kind = "idle"
         /\ \A v \in Workers \ {w} : cardRequest'[v] = cardRequest[v]
<1> DEFINE r == cardRequest[w]
           u == [r EXCEPT !.kind = "idle"]
<1>1. r \in CardRequest
  BY DEF CardsTypeOK
<1> HIDE DEF r
<1>2. u \in CardRequest /\ u.kind = "idle"
  BY <1>1 DEF CardRequest, CardKinds
<1>3. cardRequest' = [cardRequest EXCEPT ![w] = u]
  BY DEF r
<1> HIDE DEF u
<1> QED BY <1>2, <1>3 DEF CardsTypeOK

LEMMA CardCreated ==
  ASSUME CardsInv, NEW c \in Cards, NEW value \in Values, CreateGiftCard(c, value)
  PROVE  CardsInv'
<1>0. CardsTypeOK /\ value \in Nat
  BY CardsAssumption DEF CardsInv
<1> DEFINE new == [status |-> "active", balance |-> value]
<1>1. new \in CardRow /\ new.status = "active" /\ new.balance = value
  BY <1>0 DEF CardRow, CardStatus
<1>2. /\ card' = [card EXCEPT ![c] = new] /\ charged' = [charged EXCEPT ![c] = value]
      /\ card[c].status = "none"
      /\ UNCHANGED <<cardRequest, spent, cardMet>>
  BY DEF CreateGiftCard
<1> HIDE DEF new
<1>3. CardsTypeOK'
  BY <1>0, <1>1, <1>2 DEF CardsTypeOK
<1>4. /\ card'[c] = new /\ charged'[c] = value
      /\ \A d \in Cards \ {c} : card'[d] = card[d] /\ charged'[d] = charged[d]
  BY <1>0, <1>2 DEF CardsTypeOK
<1>5. ASSUME NEW d \in Cards
      PROVE  /\ card'[d].status = "none" =>
                  card'[d].balance = 0 /\ charged'[d] = 0 /\ spent'[d] = 0
             /\ cardMet'[d] \cap MoneyMet = {} => card'[d].balance = charged'[d] - spent'[d]
  <2>1. CASE d = c
    <3>1. spent'[d] = 0
      BY <1>2, <2>1 DEF CardsInv
    <3> QED BY <1>0, <1>1, <1>4, <2>1, <3>1
  <2>2. CASE d # c
    BY <1>2, <1>4, <2>2 DEF CardsInv, CardBalanceExplained, MoneyMet
  <2> QED BY <2>1, <2>2
<1>6. ASSUME NEW w \in Workers, cardRequest'[w].kind # "idle"
      PROVE  CardHeld(cardRequest[w])'
  <2>1. CardHeld(cardRequest[w]) /\ cardRequest'[w] = cardRequest[w]
    BY <1>2, <1>6 DEF CardsInv
  <2>2. cardRequest[w].of # c /\ cardRequest[w].of \in Cards
    BY <1>0, <1>2, <2>1, CardFields DEF CardHeld
  <2> QED BY <1>2, <1>4, <2>1, <2>2 DEF CardHeld
<1> QED BY <1>3, <1>5, <1>6 DEF CardsInv, CardBalanceExplained, MoneyMet

LEMMA CardLoaded ==
  ASSUME CardsInv, NEW w \in Workers, NEW c \in Cards, NEW amount \in Nat,
         NEW kind \in {"redeem", "top_up", "cancel"}, LoadCard(w, kind, c, amount),
         card[c].status # "none",
         kind = "redeem" => card[c].status = "active" /\ amount <= card[c].balance,
         kind = "top_up" => card[c].status # "cancelled",
         kind # "cancel" => amount > 0
  PROVE  CardsInv'
<1>0. CardsTypeOK
  BY DEF CardsInv
<1> DEFINE r == [kind |-> kind, of |-> c, row |-> card[c], amount |-> amount]
<1>1. /\ r \in CardRequest /\ r.kind = kind /\ r.of = c /\ r.row = card[c] /\ r.amount = amount
  BY <1>0, CardFields DEF CardRequest, CardKinds
<1>2. /\ cardRequest' = [cardRequest EXCEPT ![w] = r]
      /\ UNCHANGED <<card, charged, spent, cardMet>>
  BY DEF LoadCard
<1> HIDE DEF r
<1>3. /\ CardsTypeOK' /\ cardRequest'[w] = r
      /\ \A v \in Workers \ {w} : cardRequest'[v] = cardRequest[v]
  BY <1>0, <1>1, <1>2 DEF CardsTypeOK
<1>4. CardHeld(r)
  BY <1>1 DEF CardHeld
<1>5. ASSUME NEW v \in Workers, cardRequest'[v].kind # "idle"
      PROVE  CardHeld(cardRequest[v])'
  <2>1. CardHeld(cardRequest'[v])
    BY <1>3, <1>4, <1>5 DEF CardsInv
  <2> QED BY <1>2, <2>1 DEF CardHeld
<1> QED BY <1>2, <1>3, <1>5 DEF CardsInv, CardBalanceExplained

\* What a commit writes, and what it notes about the others.
LEMMA CardCommitted ==
  ASSUME CardsInv, NEW w \in Workers, CommitCard(w)
  PROVE  LET r == cardRequest[w]
             c == r.of
         IN
         /\ r.kind \in {"redeem", "top_up", "cancel"} /\ CardHeld(r) /\ c \in Cards
         /\ card'[c].status = Written(card[c].status, r.row.status, NewCard(r).status)
         /\ card'[c].balance = Written(card[c].balance, r.row.balance, NewCard(r).balance)
         /\ card'[c].status \in CardStatus \ {"none"}
         /\ card'[c].balance \in Nat
         /\ card' \in [Cards -> CardRow]
         /\ charged'[c] = charged[c] + (IF r.kind = "top_up" THEN r.amount ELSE 0)
         /\ spent'[c] = spent[c] + (IF r.kind = "redeem" THEN r.amount ELSE 0)
         /\ cardMet[c] \subseteq cardMet'[c]
         /\ \A v \in Workers \ {w} : cardRequest[v].kind # "idle" /\ cardRequest[v].of = c =>
              {r.kind, cardRequest[v].kind} \in cardMet'[c]
         /\ \A d \in Cards \ {c} : /\ card'[d] = card[d] /\ charged'[d] = charged[d]
                                   /\ spent'[d] = spent[d] /\ cardMet'[d] = cardMet[d]
<1> DEFINE r == cardRequest[w]
           c == r.of
           s == Written(card[c].status, r.row.status, NewCard(r).status)
           b == Written(card[c].balance, r.row.balance, NewCard(r).balance)
           new == [status |-> s, balance |-> b]
<1>0. CardsTypeOK /\ r.kind # "idle" /\ CardHeld(r)
  BY DEF CardsInv, CommitCard
<1>1. /\ r.kind \in {"redeem", "top_up", "cancel"} /\ c \in Cards /\ r.amount \in Nat
      /\ r.row.status \in CardStatus /\ r.row.balance \in Nat /\ r.row \in CardRow
      /\ card[c].status \in CardStatus /\ card[c].balance \in Nat
  BY <1>0, CardFields DEF CardKinds
<1>2. /\ card' = [card EXCEPT ![c] = [status |-> Written(@.status, r.row.status, NewCard(r).status),
                                      balance |-> Written(@.balance, r.row.balance, NewCard(r).balance)]]
      /\ charged' = [charged EXCEPT ![c] = IF r.kind = "top_up" THEN @ + r.amount ELSE @]
      /\ spent' = [spent EXCEPT ![c] = IF r.kind = "redeem" THEN @ + r.amount ELSE @]
      /\ cardMet' = [cardMet EXCEPT ![c] = @ \cup Meetings(cardRequest, w)]
  BY DEF CommitCard
<1>3. card' = [card EXCEPT ![c] = new]
  BY <1>2
<1>4. NewCard(r).status \in CardStatus \ {"none"} /\ NewCard(r).balance \in Nat
  <2>1. CASE r.kind = "cancel"
    BY <1>1, <2>1 DEF NewCard, CardStatus, CardRow
  <2>2. CASE r.kind # "cancel"
    BY <1>0, <1>1, <2>2 DEF NewCard, CardStatus, CardHeld
  <2> QED BY <2>1, <2>2
<1>5. s \in CardStatus \ {"none"} /\ b \in Nat
  BY <1>0, <1>1, <1>4 DEF Written, CardHeld
<1> HIDE DEF s, b
<1>6. new \in CardRow /\ new.status = s /\ new.balance = b
  BY <1>5 DEF CardRow
<1> HIDE DEF new
<1>7. /\ card'[c] = new /\ card' \in [Cards -> CardRow]
      /\ \A d \in Cards \ {c} : card'[d] = card[d]
  BY <1>0, <1>1, <1>3, <1>6 DEF CardsTypeOK
<1>8. /\ charged'[c] = charged[c] + (IF r.kind = "top_up" THEN r.amount ELSE 0)
      /\ spent'[c] = spent[c] + (IF r.kind = "redeem" THEN r.amount ELSE 0)
      /\ \A d \in Cards \ {c} : charged'[d] = charged[d] /\ spent'[d] = spent[d]
  <2>1. charged[c] \in Nat /\ spent[c] \in Nat
    BY <1>0, <1>1 DEF CardsTypeOK
  <2> QED BY <1>0, <1>1, <1>2, <2>1 DEF CardsTypeOK
<1>9. /\ cardMet'[c] = cardMet[c] \cup Meetings(cardRequest, w)
      /\ \A d \in Cards \ {c} : cardMet'[d] = cardMet[d]
  BY <1>0, <1>1, <1>2 DEF CardsTypeOK
<1>10. ASSUME NEW v \in Workers \ {w}, cardRequest[v].kind # "idle", cardRequest[v].of = c
       PROVE  {r.kind, cardRequest[v].kind} \in Meetings(cardRequest, w)
  BY <1>10 DEF Meetings
<1> QED BY <1>0, <1>1, <1>5, <1>6, <1>7, <1>8, <1>9, <1>10 DEF s, b

LEMMA CardCommit ==
  ASSUME CardsInv, NEW w \in Workers, CommitCard(w)
  PROVE  CardsInv'
<1> DEFINE r == cardRequest[w]
           c == r.of
<1>0. CardsTypeOK /\ r.kind \in {"redeem", "top_up", "cancel"} /\ CardHeld(r) /\ c \in Cards
  BY CardCommitted DEF CardsInv
<1>1. /\ r.amount \in Nat /\ r.row.balance \in Nat /\ card[c].balance \in Nat
      /\ charged[c] \in Nat /\ spent[c] \in Nat
  BY <1>0, CardFields
<1>2. /\ card'[c].balance = Written(card[c].balance, r.row.balance, NewCard(r).balance)
      /\ card'[c].status \in CardStatus \ {"none"}
      /\ card' \in [Cards -> CardRow]
      /\ charged'[c] = charged[c] + (IF r.kind = "top_up" THEN r.amount ELSE 0)
      /\ spent'[c] = spent[c] + (IF r.kind = "redeem" THEN r.amount ELSE 0)
      /\ cardMet[c] \subseteq cardMet'[c]
      /\ \A d \in Cards \ {c} : /\ card'[d] = card[d] /\ charged'[d] = charged[d]
                                /\ spent'[d] = spent[d] /\ cardMet'[d] = cardMet[d]
  BY CardCommitted
<1>3. \A v \in Workers \ {w} : cardRequest[v].kind # "idle" /\ cardRequest[v].of = c =>
        {r.kind, cardRequest[v].kind} \in cardMet'[c]
  BY CardCommitted
<1>4. /\ cardRequest' \in [Workers -> CardRequest] /\ cardRequest'[w].kind = "idle"
      /\ \A v \in Workers \ {w} : cardRequest'[v] = cardRequest[v]
  BY <1>0, CardIdle DEF CommitCard
<1>5. NewCard(r).balance =
        CASE r.kind = "redeem" -> r.row.balance - r.amount
          [] r.kind = "top_up" -> r.row.balance + r.amount
          [] OTHER -> r.row.balance
  <2>1. r.row \in CardRow
    BY <1>0, CardFields
  <2> QED BY <2>1 DEF NewCard, CardRow
<1>6. r.kind = "cancel" => card'[c].balance = card[c].balance
  BY <1>0, <1>2, <1>5 DEF Written
<1>7. CardsTypeOK'
  <2>1. charged' \in [Cards -> Nat] /\ spent' \in [Cards -> Nat]
    BY <1>0, <1>1 DEF CommitCard, CardsTypeOK
  <2>2. Meetings(cardRequest, w) \in SUBSET SUBSET CardKinds
    BY <1>0, CardFields DEF Meetings
  <2>3. cardMet' \in [Cards -> SUBSET SUBSET CardKinds]
    BY <1>0, <2>2 DEF CommitCard, CardsTypeOK
  <2> QED BY <1>2, <1>4, <2>1, <2>3 DEF CardsTypeOK
<1>8. ASSUME NEW d \in Cards, card'[d].status = "none"
      PROVE  card'[d].balance = 0 /\ charged'[d] = 0 /\ spent'[d] = 0
  <2>1. d # c
    BY <1>2, <1>8
  <2> QED BY <1>2, <1>8, <2>1 DEF CardsInv
<1>9. ASSUME NEW d \in Cards, cardMet'[d] \cap MoneyMet = {}
      PROVE  card'[d].balance = charged'[d] - spent'[d]
  <2>1. CASE d # c
    BY <1>2, <1>9, <2>1 DEF CardsInv, CardBalanceExplained, MoneyMet
  <2>2. CASE d = c
    <3>1. cardMet[c] \cap MoneyMet = {}
      BY <1>2, <1>9, <2>2
    <3>2. card[c].balance = charged[c] - spent[c]
      BY <1>0, <3>1 DEF CardsInv, CardBalanceExplained, MoneyMet
    <3>3. CASE r.kind = "cancel"
      BY <1>1, <1>2, <1>6, <2>2, <3>2, <3>3
    <3>4. CASE r.kind # "cancel"
      <4>1. r.row.balance = card[c].balance /\ r.amount > 0
        BY <1>0, <3>1, <3>4 DEF CardHeld
      <4> QED BY <1>0, <1>1, <1>2, <1>5, <2>2, <3>2, <3>4, <4>1 DEF Written
    <3> QED BY <3>3, <3>4
  <2> QED BY <2>1, <2>2
<1>10. ASSUME NEW v \in Workers, cardRequest'[v].kind # "idle"
       PROVE  CardHeld(cardRequest[v])'
  <2> DEFINE q == cardRequest[v]
  <2>1. v # w /\ cardRequest'[v] = q /\ CardHeld(q) /\ q.kind # "idle"
    BY <1>4, <1>10 DEF CardsInv
  <2>2. q.kind \in CardKinds /\ q.of \in Cards
    BY <1>0, CardFields
  <2>3. CASE q.of # c
    <3>1. card'[q.of] = card[q.of] /\ cardMet'[q.of] = cardMet[q.of]
      BY <1>2, <2>2, <2>3
    <3> QED BY <2>1, <3>1 DEF CardHeld
  <2>4. CASE q.of = c
    <3>1. {r.kind, q.kind} \in cardMet'[c]
      BY <1>3, <2>1, <2>4
    <3>2. ASSUME q.kind \in {"redeem", "top_up"}, cardMet'[c] \cap MoneyMet = {}
          PROVE  q.row.balance = card'[c].balance
      <4>1. r.kind = "cancel"
        BY <1>0, <3>1, <3>2 DEF MoneyMet
      <4>2. cardMet[c] \cap MoneyMet = {}
        BY <1>2, <3>2
      <4> QED BY <1>6, <2>1, <2>4, <3>2, <4>1, <4>2 DEF CardHeld
    <3>3. card'[c].status # "none" /\ cardMet'[c] # {}
      BY <1>2, <3>1
    <3> QED BY <2>1, <2>4, <3>2, <3>3 DEF CardHeld
  <2> QED BY <2>3, <2>4
<1> QED BY <1>7, <1>8, <1>9, <1>10 DEF CardsInv, CardBalanceExplained, MoneyMet

LEMMA CardsStep ==
  ASSUME CardsInv, CardsNext \/ UNCHANGED cardVars
  PROVE  CardsInv'
<1>0. CardsTypeOK /\ \A v \in Values : v \in Nat /\ v > 0
  BY CardsAssumption DEF CardsInv
<1>1. ASSUME NEW c \in Cards, NEW v \in Values, CreateGiftCard(c, v)
      PROVE  CardsInv'
  BY <1>1, CardCreated
<1>2. ASSUME NEW w \in Workers, NEW c \in Cards, NEW v \in Values, Redeem(w, c, v)
      PROVE  CardsInv'
  BY <1>0, <1>2, CardLoaded DEF Redeem
<1>3. ASSUME NEW w \in Workers, NEW c \in Cards, NEW v \in Values, TopUp(w, c, v)
      PROVE  CardsInv'
  BY <1>0, <1>3, CardLoaded DEF TopUp
<1>4. ASSUME NEW w \in Workers, NEW c \in Cards, CancelGiftCard(w, c)
      PROVE  CardsInv'
  BY <1>4, CardLoaded DEF CancelGiftCard
<1>5. ASSUME NEW w \in Workers, AbandonCard(w)
      PROVE  CardsInv'
  <2>1. /\ cardRequest' \in [Workers -> CardRequest] /\ cardRequest'[w].kind = "idle"
        /\ \A v \in Workers \ {w} : cardRequest'[v] = cardRequest[v]
        /\ UNCHANGED <<card, charged, spent, cardMet>>
    BY <1>0, <1>5, CardIdle DEF AbandonCard
  <2>2. CardsTypeOK'
    BY <1>0, <2>1 DEF CardsTypeOK
  <2>3. ASSUME NEW v \in Workers, cardRequest'[v].kind # "idle"
        PROVE  CardHeld(cardRequest[v])'
    BY <2>1, <2>3 DEF CardsInv, CardHeld
  <2> QED BY <2>1, <2>2, <2>3 DEF CardsInv, CardBalanceExplained
<1>6. CASE UNCHANGED cardVars
  BY <1>6 DEF cardVars, CardsInv, CardsTypeOK, CardBalanceExplained, CardHeld
<1> QED BY <1>1, <1>2, <1>3, <1>4, <1>5, <1>6, CardCommit DEF CardsNext

LEMMA CardsInitInv ==
  ASSUME CardsInit
  PROVE  CardsInv
<1>1. PICK c \in Cards :
        cardRequest = [w \in Workers |-> [kind |-> "idle", of |-> c, row |-> card[c], amount |-> 0]]
  BY DEF CardsInit
<1>2. /\ card = [d \in Cards |-> [status |-> "none", balance |-> 0]]
      /\ charged = [d \in Cards |-> 0] /\ spent = [d \in Cards |-> 0]
      /\ cardMet = [d \in Cards |-> {}]
  BY DEF CardsInit
<1>3. card \in [Cards -> CardRow] /\ card[c] \in CardRow
  BY <1>2 DEF CardRow, CardStatus
<1>4. [kind |-> "idle", of |-> c, row |-> card[c], amount |-> 0] \in CardRequest
  BY <1>3 DEF CardRequest, CardKinds
<1>5. CardsTypeOK
  BY <1>1, <1>2, <1>3, <1>4 DEF CardsTypeOK
<1>6. \A w \in Workers : cardRequest[w].kind = "idle"
  BY <1>1
<1>7. CardBalanceExplained
  BY <1>2 DEF CardBalanceExplained
<1> QED BY <1>2, <1>5, <1>6, <1>7 DEF CardsInv

\* What a commit does to a card that is cancelled, and that nobody else held.
LEMMA CancelledStep ==
  ASSUME CardsInv, CardsNext \/ UNCHANGED cardVars, NEW c \in Cards,
         card[c].status = "cancelled", cardMet'[c] = {}
  PROVE  card'[c].status = "cancelled" /\ spent'[c] = spent[c]
<1>0. CardsTypeOK
  BY DEF CardsInv
<1>1. ASSUME NEW w \in Workers, CommitCard(w)
      PROVE  card'[c].status = "cancelled" /\ spent'[c] = spent[c]
  <2> DEFINE r == cardRequest[w]
  <2>1. CASE r.of # c
    BY <1>1, <2>1, CardCommitted
  <2>2. CASE r.of = c
    <3>1. cardMet[c] = {} /\ CardHeld(r) /\ r.kind \in {"redeem", "top_up", "cancel"}
      BY <1>1, <2>2, CardCommitted
    <3>2. r.row = card[c]
      BY <2>2, <3>1 DEF CardHeld
    <3>3. r.kind = "cancel"
      BY <3>1, <3>2 DEF CardHeld
    <3>4. NewCard(r).status = "cancelled"
      <4>1. r.row \in CardRow
        BY <1>0, CardFields
      <4> QED BY <3>3, <4>1 DEF NewCard, CardRow
    <3>5. card'[c].status = Written(card[c].status, r.row.status, NewCard(r).status)
      BY <1>1, <2>2, CardCommitted
    <3>6. spent'[c] = spent[c] + 0 /\ spent[c] \in Nat
      BY <1>0, <1>1, <2>2, <3>3, CardCommitted, CardFields
    <3> QED BY <3>2, <3>4, <3>5, <3>6 DEF Written
  <2> QED BY <2>1, <2>2
<1>2. ASSUME NEW d \in Cards, NEW v \in Values, CreateGiftCard(d, v)
      PROVE  card'[c].status = "cancelled" /\ spent'[c] = spent[c]
  <2>1. card[d].status = "none" /\ spent' = spent /\ d # c
        /\ card' = [card EXCEPT ![d] = [status |-> "active", balance |-> v]]
    BY <1>2 DEF CreateGiftCard
  <2> QED BY <1>0, <2>1 DEF CardsTypeOK
<1>3. CASE ~(\E w \in Workers : CommitCard(w)) /\ ~(\E d \in Cards, v \in Values : CreateGiftCard(d, v))
  BY <1>3 DEF CardsNext, cardVars, Redeem, TopUp, CancelGiftCard, LoadCard, AbandonCard
<1> QED BY <1>1, <1>2, <1>3
-----------------------------------------------------------------------------
(* Tills. *)

\* Meetings after which a difference may be found that is none.
SalesMet == {{"sale"}, {"close"}, {"close", "sale"}, {"close", "move"}}

\* What a request under way has checked, and what of the row it loaded is still
\* so, unless another request that held it has been committed.
TillHeld(r) ==
  /\ r.kind \in {"sale", "open"} => r.amount \in Nat
  /\ r.kind = "open" => session[r.of].status = "none"
  /\ r.kind \in {"sale", "move", "close"} => session[r.of].status # "none"
  /\ r.kind = "open" /\ {"open"} \notin tillMet => OpenSessions = {}
  /\ r.kind = "sale" /\ {"sale"} \notin tillMet => r.row.sales = session[r.of].sales
  /\ r.kind = "close" /\ tillMet \cap SalesMet = {} =>
       /\ r.row.float = session[r.of].float /\ r.row.sales = session[r.of].sales
       /\ r.amount = drawer[r.of]
       /\ r.summed => r.moved = movements[r.of]

\* What is in the drawer is in the books.
DrawerAccounted ==
  \A s \in Sessions :
    /\ session[s].status = "none" => movements[s] = 0 /\ drawer[s] = 0
    /\ session[s].status # "none" /\ {"sale"} \notin tillMet =>
         drawer[s] = session[s].float + session[s].sales + movements[s]

OpenAlone ==
  /\ \A w, v \in Workers :
       tillRequest[w].kind = "open" /\ v # w /\ tillRequest[v].kind # "idle" =>
         tillRequest[v].of # tillRequest[w].of
  /\ {"open"} \notin tillMet => \A s, t \in OpenSessions : s = t

TillsInv ==
  /\ TillsTypeOK
  /\ \A w \in Workers : tillRequest[w].kind # "idle" => TillHeld(tillRequest[w])
  /\ DrawerAccounted
  /\ OpenAlone
  /\ NoFalseDifference

LEMMA TillFields ==
  ASSUME TillsTypeOK
  PROVE  /\ \A s \in Sessions :
              /\ session[s] \in SessionRow /\ session[s].status \in SessionStatus
              /\ session[s].float \in Nat /\ session[s].sales \in Nat
              /\ session[s].difference \in Int /\ movements[s] \in Int /\ drawer[s] \in Int
         /\ \A w \in Workers :
              /\ tillRequest[w] \in TillRequest /\ tillRequest[w].kind \in TillKinds
              /\ tillRequest[w].of \in Sessions /\ tillRequest[w].amount \in Int
              /\ tillRequest[w].summed \in BOOLEAN /\ tillRequest[w].moved \in Int
              /\ tillRequest[w].row \in SessionRow
              /\ tillRequest[w].row.float \in Nat /\ tillRequest[w].row.sales \in Nat
BY DEF TillsTypeOK, SessionRow, TillRequest

LEMMA TillIdle ==
  ASSUME TillsTypeOK, NEW w \in Workers, EndTill(w)
  PROVE  /\ tillRequest' \in [Workers -> TillRequest]
         /\ tillRequest'[w].kind = "idle"
         /\ \A v \in Workers \ {w} : tillRequest'[v] = tillRequest[v]
<1> DEFINE r == tillRequest[w]
           u == [r EXCEPT !.kind = "idle"]
<1>1. r \in TillRequest
  BY DEF TillsTypeOK
<1>2. tillRequest' = [tillRequest EXCEPT ![w] = u]
  BY DEF EndTill
<1> HIDE DEF r
<1>3. u \in TillRequest /\ u.kind = "idle"
  BY <1>1 DEF TillRequest, TillKinds
<1> HIDE DEF u
<1> QED BY <1>2, <1>3 DEF TillsTypeOK

\* Whom a commit meets.
LEMMA TillNoted ==
  ASSUME TillsTypeOK, NEW w \in Workers, NoteTill(w)
  PROVE  /\ tillMet \subseteq tillMet' /\ tillMet' \subseteq SUBSET TillKinds
         /\ \A v \in Workers \ {w} :
              tillRequest[v].kind # "idle" /\ tillRequest[v].of = tillRequest[w].of =>
                {tillRequest[w].kind, tillRequest[v].kind} \in tillMet'
         /\ \A v \in Workers \ {w} :
              tillRequest[v].kind = "open" /\ tillRequest[w].kind = "open" => {"open"} \in tillMet'
<1> DEFINE r == tillRequest[w]
           others == {u \in Workers \ {w} : tillRequest[u].kind # "idle" /\
                        (tillRequest[u].of = r.of \/ {tillRequest[u].kind, r.kind} = {"open"})}
<1>1. tillMet' = tillMet \cup {{r.kind, tillRequest[v].kind} : v \in others}
  BY DEF NoteTill
<1>2. \A v \in Workers : tillRequest[v].kind \in TillKinds
  BY TillFields
<1>3. tillMet' \subseteq SUBSET TillKinds
  BY <1>1, <1>2 DEF TillsTypeOK
<1>4. ASSUME NEW v \in Workers \ {w}, tillRequest[v].kind # "idle", tillRequest[v].of = r.of
      PROVE  {r.kind, tillRequest[v].kind} \in tillMet'
  BY <1>1, <1>4
<1>5. ASSUME NEW v \in Workers \ {w}, tillRequest[v].kind = "open", r.kind = "open"
      PROVE  {"open"} \in tillMet'
  <2>1. v \in others /\ {r.kind, tillRequest[v].kind} = {"open"}
    BY <1>5
  <2> QED BY <1>1, <2>1
<1> QED BY <1>1, <1>3, <1>4, <1>5

LEMMA TillLoaded ==
  ASSUME TillsInv, NEW w \in Workers, NEW s \in Sessions, NEW amount \in Int,
         NEW kind \in TillKinds \ {"idle"}, LoadSession(w, kind, s, amount),
         kind \in {"sale", "open"} => amount \in Nat,
         kind = "open" => /\ session[s].status = "none" /\ OpenSessions = {}
                          /\ \A v \in Workers : tillRequest[v].of = s => tillRequest[v].kind # "open",
         kind # "open" => session[s].status = "open",
         kind = "close" => amount = drawer[s]
  PROVE  TillsInv'
<1>0. TillsTypeOK
  BY DEF TillsInv
<1> DEFINE r == [kind |-> kind, of |-> s, row |-> session[s], amount |-> amount,
                 summed |-> FALSE, moved |-> 0]
<1>1. /\ r \in TillRequest /\ r.kind = kind /\ r.of = s /\ r.row = session[s]
      /\ r.amount = amount /\ r.summed = FALSE
  BY <1>0, TillFields DEF TillRequest, TillKinds
<1>2. /\ tillRequest' = [tillRequest EXCEPT ![w] = r] /\ tillRequest[w].kind = "idle"
      /\ UNCHANGED <<session, movements, drawer, tillMet>>
  BY DEF LoadSession
<1> HIDE DEF r
<1>3. /\ TillsTypeOK' /\ tillRequest'[w] = r
      /\ \A v \in Workers \ {w} : tillRequest'[v] = tillRequest[v]
  BY <1>0, <1>1, <1>2 DEF TillsTypeOK
<1>4. TillHeld(r)
  BY <1>1 DEF TillHeld, TillKinds
<1>5. ASSUME NEW v \in Workers, tillRequest'[v].kind # "idle"
      PROVE  TillHeld(tillRequest[v])'
  <2>1. TillHeld(tillRequest'[v])
    BY <1>3, <1>4, <1>5 DEF TillsInv
  <2> QED BY <1>2, <2>1 DEF TillHeld, OpenSessions
<1>6. \A v \in Workers \ {w} : tillRequest[v].kind # "idle" =>
        /\ tillRequest[v].kind = "open" => session[tillRequest[v].of].status = "none"
        /\ tillRequest[v].kind # "open" => session[tillRequest[v].of].status # "none"
  BY <1>0, TillFields DEF TillsInv, TillHeld, TillKinds
<1>7. OpenAlone'
  <2>1. ASSUME NEW u \in Workers, NEW v \in Workers, tillRequest'[u].kind = "open", v # u,
               tillRequest'[v].kind # "idle"
        PROVE  tillRequest'[v].of # tillRequest'[u].of
    <3>1. CASE u = w
      BY <1>1, <1>3, <1>6, <2>1, <3>1
    <3>2. CASE v = w
      BY <1>1, <1>3, <1>6, <2>1, <3>2
    <3>3. CASE u # w /\ v # w
      BY <1>3, <2>1, <3>3 DEF TillsInv, OpenAlone
    <3> QED BY <3>1, <3>2, <3>3
  <2>2. {"open"} \notin tillMet' => \A q, t \in OpenSessions' : q = t
    BY <1>2 DEF TillsInv, OpenAlone, OpenSessions
  <2> QED BY <2>1, <2>2 DEF OpenAlone
<1>8. DrawerAccounted' /\ NoFalseDifference'
  BY <1>2 DEF TillsInv, DrawerAccounted, NoFalseDifference
<1> QED BY <1>3, <1>5, <1>7, <1>8 DEF TillsInv

\* The commits change one session, its drawer and its movements.
TillWrites(w) ==
  LET s == tillRequest[w].of IN
  /\ tillRequest[w].kind # "idle" /\ NoteTill(w) /\ EndTill(w)
  /\ session' \in [Sessions -> SessionRow]
  /\ movements' \in [Sessions -> Int] /\ drawer' \in [Sessions -> Int]
  /\ \A t \in Sessions \ {s} : /\ session'[t] = session[t] /\ movements'[t] = movements[t]
                               /\ drawer'[t] = drawer[t]

\* What is left to show of a commit: what becomes of its session, and of the
\* requests that hold the same session, or wait to open another.
LEMMA TillWritten ==
  ASSUME TillsInv, NEW w \in Workers, TillWrites(w),
         \A v \in Workers \ {w} : tillRequest[v].kind # "idle" =>
           /\ tillRequest[v].of = tillRequest[w].of => TillHeld(tillRequest[v])'
           /\ tillRequest[v].kind = "open" /\ {"open"} \notin tillMet' => OpenSessions' = {},
         LET s == tillRequest[w].of IN
         /\ session'[s].status # "none"
         /\ {"sale"} \notin tillMet' =>
              drawer'[s] = session'[s].float + session'[s].sales + movements'[s]
         /\ session'[s].status = "closed" /\ tillMet' \cap SalesMet = {} => session'[s].difference = 0
         /\ {"open"} \notin tillMet' /\ session'[s].status = "open" =>
              \A t \in OpenSessions : t = s
  PROVE  TillsInv'
<1> DEFINE s == tillRequest[w].of
<1>0. TillsTypeOK /\ s \in Sessions
  BY TillFields DEF TillsInv
<1>1. /\ tillRequest' \in [Workers -> TillRequest] /\ tillRequest'[w].kind = "idle"
      /\ \A v \in Workers \ {w} : tillRequest'[v] = tillRequest[v]
  BY <1>0, TillIdle DEF TillWrites
<1>2. tillMet \subseteq tillMet' /\ tillMet' \subseteq SUBSET TillKinds
  BY <1>0, TillNoted DEF TillWrites
<1>3. \A t \in Sessions \ {s} : /\ session'[t] = session[t] /\ movements'[t] = movements[t]
                                /\ drawer'[t] = drawer[t]
  BY DEF TillWrites
<1>4. TillsTypeOK'
  BY <1>1, <1>2 DEF TillsTypeOK, TillWrites
<1>5. ASSUME NEW v \in Workers, tillRequest'[v].kind # "idle"
      PROVE  TillHeld(tillRequest[v])'
  <2>1. v # w /\ tillRequest'[v] = tillRequest[v] /\ tillRequest[v].kind # "idle"
    BY <1>1, <1>5
  <2>2. TillHeld(tillRequest[v]) /\ tillRequest[v].of \in Sessions
    BY <1>0, <2>1, TillFields DEF TillsInv
  <2>3. CASE tillRequest[v].of # s
    BY <1>2, <1>3, <2>1, <2>2, <2>3 DEF TillHeld
  <2> QED BY <2>1, <2>3
<1> HIDE DEF s
<1>6. DrawerAccounted'
  <2>1. ASSUME NEW t \in Sessions
        PROVE  /\ session'[t].status = "none" => movements'[t] = 0 /\ drawer'[t] = 0
               /\ session'[t].status # "none" /\ {"sale"} \notin tillMet' =>
                    drawer'[t] = session'[t].float + session'[t].sales + movements'[t]
    <3>1. CASE t = s
      BY <3>1 DEF s
    <3>2. CASE t # s
      BY <1>2, <1>3, <3>2 DEF TillsInv, DrawerAccounted
    <3> QED BY <3>1, <3>2
  <2> QED BY <2>1 DEF DrawerAccounted
<1>7. OpenAlone'
  <2>1. ASSUME NEW u \in Workers, NEW v \in Workers, tillRequest'[u].kind = "open", v # u,
               tillRequest'[v].kind # "idle"
        PROVE  tillRequest'[v].of # tillRequest'[u].of
    BY <1>1, <2>1 DEF TillsInv, OpenAlone
  <2>2. ASSUME {"open"} \notin tillMet', NEW q \in OpenSessions', NEW t \in OpenSessions'
        PROVE  q = t
    <3>1. q \in Sessions /\ t \in Sessions /\ session'[q].status = "open" /\ session'[t].status = "open"
      BY DEF OpenSessions
    <3>2. q # s => q \in OpenSessions
      BY <1>3, <3>1 DEF OpenSessions
    <3>3. t # s => t \in OpenSessions
      BY <1>3, <3>1 DEF OpenSessions
    <3>4. q # s /\ t # s => q = t
      BY <1>2, <2>2, <3>2, <3>3 DEF TillsInv, OpenAlone
    <3> QED BY <2>2, <3>1, <3>2, <3>3, <3>4 DEF s
  <2> QED BY <2>1, <2>2 DEF OpenAlone
<1>8. NoFalseDifference'
  <2>1. ASSUME tillMet' \cap SalesMet = {}, NEW t \in Sessions, session'[t].status = "closed"
        PROVE  session'[t].difference = 0
    <3>1. CASE t = s
      BY <2>1, <3>1 DEF s
    <3>2. CASE t # s
      BY <1>2, <1>3, <2>1, <3>2 DEF TillsInv, NoFalseDifference, SalesMet
    <3> QED BY <3>1, <3>2
  <2> QED BY <2>1 DEF NoFalseDifference, SalesMet
<1> QED BY <1>4, <1>5, <1>6, <1>7, <1>8 DEF TillsInv

LEMMA OpenCommitted ==
  ASSUME TillsInv, NEW w \in Workers, CommitOpen(w)
  PROVE  TillsInv'
<1> DEFINE r == tillRequest[w]
           s == r.of
           new == [NoSession EXCEPT !.status = "open", !.float = r.amount]
<1>0. /\ TillsTypeOK /\ s \in Sessions /\ r.kind = "open" /\ TillHeld(r) /\ r.amount \in Nat
      /\ session[s].status = "none"
  BY TillFields DEF TillsInv, CommitOpen, TillHeld
<1>1. /\ session' = [session EXCEPT ![s] = new] /\ drawer' = [drawer EXCEPT ![s] = r.amount]
      /\ movements' = movements /\ NoteTill(w) /\ EndTill(w)
  BY DEF CommitOpen
<1>2. /\ new \in SessionRow /\ new.status = "open" /\ new.float = r.amount /\ new.sales = 0
  <2>1. /\ NoSession \in SessionRow /\ NoSession.sales = 0
    BY DEF NoSession, SessionRow, SessionStatus
  <2> DEFINE a == r.amount
  <2>2. a \in Nat
    BY <1>0
  <2> HIDE DEF a
  <2>3. [NoSession EXCEPT !.status = "open", !.float = a] \in SessionRow
    BY <2>1, <2>2 DEF SessionRow, SessionStatus
  <2>4. /\ [NoSession EXCEPT !.status = "open", !.float = a].status = "open"
        /\ [NoSession EXCEPT !.status = "open", !.float = a].float = a
        /\ [NoSession EXCEPT !.status = "open", !.float = a].sales = 0
    BY <2>1 DEF SessionRow
  <2>5. new = [NoSession EXCEPT !.status = "open", !.float = a]
    BY DEF a
  <2> QED BY <2>3, <2>4, <2>5 DEF a
<1> HIDE DEF new
<1>3. /\ TillWrites(w) /\ session'[s] = new /\ drawer'[s] = r.amount
  BY <1>0, <1>1, <1>2 DEF TillWrites, TillsTypeOK
<1>4. movements'[s] = 0
  BY <1>0, <1>1 DEF TillsInv, DrawerAccounted
<1>5. \A v \in Workers \ {w} : tillRequest[v].kind # "idle" =>
        tillRequest[v].of # s /\ (tillRequest[v].kind = "open" => {"open"} \in tillMet')
  BY <1>0, <1>1, TillNoted DEF TillsInv, OpenAlone
<1>6. {"open"} \notin tillMet' => OpenSessions = {}
  BY <1>0, <1>1, TillNoted DEF TillHeld
<1> QED BY <1>0, <1>2, <1>3, <1>4, <1>5, <1>6, TillWritten

LEMMA SaleCommitted ==
  ASSUME TillsInv, NEW w \in Workers, CommitSale(w)
  PROVE  TillsInv'
<1> DEFINE r == tillRequest[w]
           s == r.of
           n == Written(session[s].sales, r.row.sales, r.row.sales + r.amount)
           new == [session[s] EXCEPT !.sales = n]
<1>0. /\ TillsTypeOK /\ s \in Sessions /\ r.kind = "sale" /\ TillHeld(r) /\ r.amount \in Nat
      /\ session[s].status # "none" /\ session[s] \in SessionRow
      /\ session[s].sales \in Nat /\ r.row.sales \in Nat
      /\ session[s].float \in Nat /\ movements[s] \in Int /\ drawer[s] \in Int
  BY TillFields DEF TillsInv, CommitSale, TillHeld
<1>1. /\ session' = [session EXCEPT ![s].sales = Written(@, r.row.sales, r.row.sales + r.amount)]
      /\ drawer' = [drawer EXCEPT ![s] = @ + r.amount]
      /\ movements' = movements /\ NoteTill(w) /\ EndTill(w)
  BY DEF CommitSale
<1>2. session' = [session EXCEPT ![s] = new] /\ n \in Nat
  BY <1>0, <1>1 DEF Written
<1> HIDE DEF n
<1>3. /\ new \in SessionRow /\ new.status = session[s].status /\ new.float = session[s].float
      /\ new.sales = n /\ new.difference = session[s].difference
  BY <1>0, <1>2 DEF SessionRow
<1> HIDE DEF new
<1>4. TillWrites(w) /\ session'[s] = new /\ drawer'[s] = drawer[s] + r.amount
  BY <1>0, <1>1, <1>2, <1>3 DEF TillWrites, TillsTypeOK
<1>5. /\ tillMet \subseteq tillMet'
      /\ \A v \in Workers \ {w} : tillRequest[v].kind # "idle" /\ tillRequest[v].of = s =>
           {"sale", tillRequest[v].kind} \in tillMet'
  BY <1>0, <1>1, TillNoted
<1>6. OpenSessions' = OpenSessions
  BY <1>3, <1>4 DEF OpenSessions, TillWrites
<1>7. ASSUME {"sale"} \notin tillMet'
      PROVE  drawer'[s] = session'[s].float + session'[s].sales + movements'[s]
  <2>1. {"sale"} \notin tillMet /\ r.row.sales = session[s].sales
    BY <1>0, <1>5, <1>7 DEF TillHeld
  <2>2. n = session[s].sales + r.amount
    BY <1>0, <2>1 DEF n, Written
  <2>3. drawer[s] = session[s].float + session[s].sales + movements[s]
    BY <1>0, <2>1 DEF TillsInv, DrawerAccounted
  <2>4. /\ session'[s].float = session[s].float /\ session'[s].sales = session[s].sales + r.amount
        /\ movements'[s] = movements[s] /\ drawer'[s] = drawer[s] + r.amount
    BY <1>1, <1>3, <1>4, <2>2
  <2> HIDE DEF r, s
  <2> QED BY <1>0, <2>3, <2>4
<1>8. session'[s].status = "closed" /\ tillMet' \cap SalesMet = {} => session'[s].difference = 0
  BY <1>0, <1>3, <1>4, <1>5 DEF TillsInv, NoFalseDifference, SalesMet
<1>9. {"open"} \notin tillMet' /\ session'[s].status = "open" => \A t \in OpenSessions : t = s
  BY <1>0, <1>3, <1>4, <1>5 DEF TillsInv, OpenAlone, OpenSessions
<1>10. ASSUME NEW v \in Workers \ {w}, tillRequest[v].kind # "idle"
       PROVE  /\ tillRequest[v].of = s => TillHeld(tillRequest[v])'
              /\ tillRequest[v].kind = "open" /\ {"open"} \notin tillMet' => OpenSessions' = {}
  <2> DEFINE q == tillRequest[v]
  <2>1. TillHeld(q) /\ q.kind \in TillKinds /\ tillRequest'[v] = q
    BY <1>0, <1>1, <1>10, TillFields, TillIdle DEF TillsInv
  <2>2. q.kind = "open" /\ {"open"} \notin tillMet' => OpenSessions' = {}
    BY <1>5, <1>6, <2>1 DEF TillHeld
  <2>3. ASSUME q.of = s
        PROVE  TillHeld(q)'
    <3>1. {"sale", q.kind} \in tillMet'
      BY <1>5, <1>10, <2>3
    <3>2. q.kind # "open"
      BY <1>0, <1>10, <2>1, <2>3 DEF TillHeld
    <3>3. q.kind = "sale" => {"sale"} \in tillMet'
      BY <3>1
    <3>4. q.kind = "close" => tillMet' \cap SalesMet # {}
      <4>1. q.kind = "close" => {"close", "sale"} \in tillMet'
        BY <3>1
      <4> QED BY <4>1 DEF SalesMet
    <3> QED BY <1>0, <1>3, <1>4, <2>1, <2>3, <3>2, <3>3, <3>4 DEF TillHeld
  <2> QED BY <2>2, <2>3
<1> QED BY <1>0, <1>3, <1>4, <1>7, <1>8, <1>9, <1>10, TillWritten

LEMMA MovementCommitted ==
  ASSUME TillsInv, NEW w \in Workers, CommitMovement(w)
  PROVE  TillsInv'
<1> DEFINE r == tillRequest[w]
           s == r.of
<1>0. /\ TillsTypeOK /\ s \in Sessions /\ r.kind = "move" /\ TillHeld(r) /\ r.amount \in Int
      /\ session[s].status # "none" /\ session[s] \in SessionRow
      /\ session[s].sales \in Nat /\ session[s].float \in Nat
      /\ movements[s] \in Int /\ drawer[s] \in Int
  BY TillFields DEF TillsInv, CommitMovement, TillHeld
<1>1. /\ session' = session
      /\ movements' = [movements EXCEPT ![s] = @ + r.amount]
      /\ drawer' = [drawer EXCEPT ![s] = @ + r.amount] /\ NoteTill(w) /\ EndTill(w)
  BY DEF CommitMovement
<1>2. /\ TillWrites(w) /\ drawer'[s] = drawer[s] + r.amount
      /\ movements'[s] = movements[s] + r.amount
  BY <1>0, <1>1 DEF TillWrites, TillsTypeOK
<1>3. /\ tillMet \subseteq tillMet'
      /\ \A v \in Workers \ {w} : tillRequest[v].kind # "idle" /\ tillRequest[v].of = s =>
           {"move", tillRequest[v].kind} \in tillMet'
  BY <1>0, <1>1, TillNoted
<1>4. {"sale"} \notin tillMet' => drawer'[s] = session'[s].float + session'[s].sales + movements'[s]
  BY <1>0, <1>1, <1>2, <1>3 DEF TillsInv, DrawerAccounted
<1>5. session'[s].status = "closed" /\ tillMet' \cap SalesMet = {} => session'[s].difference = 0
  BY <1>0, <1>1, <1>3 DEF TillsInv, NoFalseDifference, SalesMet
<1>6. {"open"} \notin tillMet' /\ session'[s].status = "open" => \A t \in OpenSessions : t = s
  BY <1>0, <1>1, <1>3 DEF TillsInv, OpenAlone, OpenSessions
<1>7. ASSUME NEW v \in Workers \ {w}, tillRequest[v].kind # "idle"
      PROVE  /\ tillRequest[v].of = s => TillHeld(tillRequest[v])'
             /\ tillRequest[v].kind = "open" /\ {"open"} \notin tillMet' => OpenSessions' = {}
  <2> DEFINE q == tillRequest[v]
  <2>1. TillHeld(q) /\ q.kind \in TillKinds /\ tillRequest'[v] = q
    BY <1>0, <1>1, <1>7, TillFields, TillIdle DEF TillsInv
  <2>2. q.kind = "open" /\ {"open"} \notin tillMet' => OpenSessions' = {}
    BY <1>1, <1>3, <2>1 DEF TillHeld, OpenSessions
  <2>3. ASSUME q.of = s
        PROVE  TillHeld(q)'
    <3>1. {"move", q.kind} \in tillMet'
      BY <1>3, <1>7, <2>3
    <3>2. q.kind # "open"
      BY <1>0, <1>7, <2>1, <2>3 DEF TillHeld
    <3>3. q.kind = "close" => tillMet' \cap SalesMet # {}
      <4>1. q.kind = "close" => {"close", "move"} \in tillMet'
        BY <3>1
      <4> QED BY <4>1 DEF SalesMet
    <3> QED BY <1>0, <1>1, <1>3, <2>1, <2>3, <3>2, <3>3 DEF TillHeld
  <2> QED BY <2>2, <2>3
<1> QED BY <1>0, <1>1, <1>2, <1>4, <1>5, <1>6, <1>7, TillWritten

LEMMA CloseCommitted ==
  ASSUME TillsInv, NEW w \in Workers, CommitClose(w)
  PROVE  TillsInv'
<1> DEFINE r == tillRequest[w]
           s == r.of
           n == r.amount - Expected(r)
           new == [session[s] EXCEPT !.status = "closed", !.difference = n]
<1>0. /\ TillsTypeOK /\ s \in Sessions /\ r.kind = "close" /\ r.summed /\ TillHeld(r)
      /\ r.amount \in Int /\ r.moved \in Int /\ r.row.float \in Nat /\ r.row.sales \in Nat
      /\ session[s].status # "none" /\ session[s] \in SessionRow
      /\ session[s].sales \in Nat /\ session[s].float \in Nat
      /\ movements[s] \in Int /\ drawer[s] \in Int
  BY TillFields DEF TillsInv, CommitClose, TillHeld
<1>1. /\ session' = [session EXCEPT ![s].status = "closed", ![s].difference = r.amount - Expected(r)]
      /\ drawer' = drawer /\ movements' = movements /\ NoteTill(w) /\ EndTill(w)
  BY DEF CommitClose
<1>2. session' = [session EXCEPT ![s] = new] /\ n \in Int
  <2>1. n \in Int
    BY <1>0 DEF Expected
  <2>2. session' = [session EXCEPT ![s].status = "closed", ![s].difference = n]
    BY <1>1
  <2> HIDE DEF n
  <2>3. session' = [session EXCEPT ![s] = new]
    BY <1>0, <2>2 DEF TillsTypeOK
  <2> QED BY <2>1, <2>3
<1> HIDE DEF n
<1>3. /\ new \in SessionRow /\ new.status = "closed" /\ new.float = session[s].float
      /\ new.sales = session[s].sales /\ new.difference = n
  BY <1>0, <1>2 DEF SessionRow, SessionStatus
<1> HIDE DEF new
<1>4. TillWrites(w) /\ session'[s] = new
  <2>1. /\ session' \in [Sessions -> SessionRow] /\ session'[s] = new
        /\ \A t \in Sessions \ {s} : session'[t] = session[t]
    BY <1>0, <1>2, <1>3 DEF TillsTypeOK
  <2>2. /\ movements' \in [Sessions -> Int] /\ drawer' \in [Sessions -> Int]
        /\ \A t \in Sessions \ {s} : movements'[t] = movements[t] /\ drawer'[t] = drawer[t]
    BY <1>0, <1>1 DEF TillsTypeOK
  <2> QED BY <1>0, <1>1, <2>1, <2>2 DEF TillWrites
<1>5. /\ tillMet \subseteq tillMet'
      /\ \A v \in Workers \ {w} : tillRequest[v].kind # "idle" /\ tillRequest[v].of = s =>
           {"close", tillRequest[v].kind} \in tillMet'
  BY <1>0, <1>1, TillNoted
<1>6. OpenSessions' \subseteq OpenSessions
  BY <1>3, <1>4 DEF OpenSessions, TillWrites
<1>7. {"sale"} \notin tillMet' => drawer'[s] = session'[s].float + session'[s].sales + movements'[s]
  BY <1>0, <1>1, <1>3, <1>4, <1>5 DEF TillsInv, DrawerAccounted
<1>8. ASSUME tillMet' \cap SalesMet = {}
      PROVE  session'[s].difference = 0
  <2>1. tillMet \cap SalesMet = {} /\ {"sale"} \notin tillMet
    BY <1>5, <1>8 DEF SalesMet
  <2>2. /\ r.row.float = session[s].float /\ r.row.sales = session[s].sales
        /\ r.amount = drawer[s] /\ r.moved = movements[s]
    BY <1>0, <2>1 DEF TillHeld
  <2>3. drawer[s] = session[s].float + session[s].sales + movements[s]
    BY <1>0, <2>1 DEF TillsInv, DrawerAccounted
  <2> QED BY <1>0, <1>3, <1>4, <2>2, <2>3 DEF n, Expected
<1>9. ASSUME NEW v \in Workers \ {w}, tillRequest[v].kind # "idle"
      PROVE  /\ tillRequest[v].of = s => TillHeld(tillRequest[v])'
             /\ tillRequest[v].kind = "open" /\ {"open"} \notin tillMet' => OpenSessions' = {}
  <2> DEFINE q == tillRequest[v]
  <2>1. TillHeld(q) /\ q.kind \in TillKinds /\ tillRequest'[v] = q
    BY <1>0, <1>1, <1>9, TillFields, TillIdle DEF TillsInv
  <2>2. q.kind = "open" /\ {"open"} \notin tillMet' => OpenSessions' = {}
    BY <1>5, <1>6, <2>1 DEF TillHeld
  <2>3. ASSUME q.of = s
        PROVE  TillHeld(q)'
    <3>1. {"close", q.kind} \in tillMet'
      BY <1>5, <1>9, <2>3
    <3>2. q.kind # "open"
      BY <1>0, <1>9, <2>1, <2>3 DEF TillHeld
    <3>3. q.kind = "close" => tillMet' \cap SalesMet # {}
      <4>1. q.kind = "close" => {"close"} \in tillMet'
        BY <3>1
      <4> QED BY <4>1 DEF SalesMet
    <3> QED BY <1>0, <1>3, <1>4, <1>5, <2>1, <2>3, <3>2, <3>3 DEF TillHeld
  <2> QED BY <2>2, <2>3
<1> QED BY <1>0, <1>3, <1>4, <1>7, <1>8, <1>9, TillWritten

LEMMA MovementsSummed ==
  ASSUME TillsInv, NEW w \in Workers, SumMovements(w)
  PROVE  TillsInv'
<1> DEFINE r == tillRequest[w]
           m == movements[r.of]
           u == [r EXCEPT !.summed = TRUE, !.moved = m]
<1>0. /\ TillsTypeOK /\ r \in TillRequest /\ r.kind = "close" /\ TillHeld(r) /\ m \in Int
  BY TillFields DEF TillsInv, SumMovements
<1>1. /\ tillRequest' = [tillRequest EXCEPT ![w].summed = TRUE, ![w].moved = m]
      /\ UNCHANGED <<session, movements, drawer, tillMet>>
  BY DEF SumMovements
<1>2. tillRequest' = [tillRequest EXCEPT ![w] = u]
  BY <1>0, <1>1 DEF TillsTypeOK
<1>3. TillHeld(r) /\ m = movements[r.of]
  BY <1>0
<1> HIDE DEF m, r
<1>4. /\ u \in TillRequest /\ u.kind = r.kind /\ u.of = r.of /\ u.row = r.row
      /\ u.amount = r.amount /\ u.moved = m
  BY <1>0 DEF TillRequest
<1> HIDE DEF u
<1>5. /\ TillsTypeOK' /\ tillRequest'[w] = u
      /\ \A v \in Workers \ {w} : tillRequest'[v] = tillRequest[v]
  BY <1>0, <1>1, <1>2, <1>4 DEF TillsTypeOK
<1>6. TillHeld(u)
  BY <1>0, <1>3, <1>4 DEF TillHeld
<1>7. ASSUME NEW v \in Workers, tillRequest'[v].kind # "idle"
      PROVE  TillHeld(tillRequest[v])'
  <2>1. TillHeld(tillRequest'[v])
    BY <1>5, <1>6, <1>7 DEF TillsInv
  <2> QED BY <1>1, <2>1 DEF TillHeld, OpenSessions
<1>8. \A v \in Workers : tillRequest'[v].kind = tillRequest[v].kind /\ tillRequest'[v].of = tillRequest[v].of
  BY <1>4, <1>5 DEF r
<1>9. OpenAlone'
  <2>1. OpenSessions' = OpenSessions /\ tillMet' = tillMet
    BY <1>1 DEF OpenSessions
  <2> QED BY <1>8, <2>1 DEF TillsInv, OpenAlone
<1>10. DrawerAccounted' /\ NoFalseDifference'
  BY <1>1 DEF TillsInv, DrawerAccounted, NoFalseDifference
<1> QED BY <1>5, <1>7, <1>9, <1>10 DEF TillsInv

LEMMA TillsStep ==
  ASSUME TillsInv, TillsNext \/ UNCHANGED tillVars
  PROVE  TillsInv'
<1>0. TillsTypeOK /\ \A a \in Cash : a \in Nat
  BY TillsAssumption DEF TillsInv
<1>1. ASSUME NEW w \in Workers, NEW s \in Sessions, NEW a \in Cash, OpenSession(w, s, a)
      PROVE  TillsInv'
  BY <1>0, <1>1, TillLoaded DEF OpenSession, TillKinds
<1>2. ASSUME NEW w \in Workers, NEW s \in Sessions, NEW a \in Cash, RecordSale(w, s, a)
      PROVE  TillsInv'
  BY <1>0, <1>2, TillLoaded DEF RecordSale, TillKinds
<1>3. ASSUME NEW w \in Workers, NEW s \in Sessions, NEW a \in Int, AddCashMovement(w, s, a)
      PROVE  TillsInv'
  BY <1>3, TillLoaded DEF AddCashMovement, TillKinds
<1>4. ASSUME NEW w \in Workers, NEW s \in Sessions, CloseSession(w, s)
      PROVE  TillsInv'
  <2>1. drawer[s] \in Int
    BY <1>0, TillFields
  <2> QED BY <1>4, <2>1, TillLoaded DEF CloseSession, TillKinds
<1>5. ASSUME NEW w \in Workers, AbandonTill(w)
      PROVE  TillsInv'
  <2>1. /\ tillRequest' \in [Workers -> TillRequest] /\ tillRequest'[w].kind = "idle"
        /\ \A v \in Workers \ {w} : tillRequest'[v] = tillRequest[v]
        /\ UNCHANGED <<session, movements, drawer, tillMet>>
    BY <1>0, <1>5, TillIdle DEF AbandonTill
  <2>2. TillsTypeOK'
    BY <1>0, <2>1 DEF TillsTypeOK
  <2>3. ASSUME NEW v \in Workers, tillRequest'[v].kind # "idle"
        PROVE  TillHeld(tillRequest[v])'
    BY <2>1, <2>3 DEF TillsInv, TillHeld, OpenSessions
  <2>4. OpenAlone' /\ DrawerAccounted' /\ NoFalseDifference'
    BY <2>1 DEF TillsInv, OpenAlone, DrawerAccounted, NoFalseDifference, OpenSessions
  <2> QED BY <2>2, <2>3, <2>4 DEF TillsInv
<1>6. CASE UNCHANGED tillVars
  BY <1>6 DEF tillVars, TillsInv, TillsTypeOK, TillHeld, OpenAlone, DrawerAccounted,
              NoFalseDifference, OpenSessions
<1>7. ASSUME NEW w \in Workers, NEW s \in Sessions, NEW a \in Cash,
             AddCashMovement(w, s, a) \/ AddCashMovement(w, s, -a)
      PROVE  TillsInv'
  <2>1. a \in Int /\ -a \in Int
    BY <1>0
  <2> QED BY <1>3, <1>7, <2>1
<1> QED BY <1>1, <1>2, <1>4, <1>5, <1>6, <1>7, OpenCommitted, SaleCommitted, MovementCommitted,
          CloseCommitted, MovementsSummed DEF TillsNext

LEMMA TillsInitInv ==
  ASSUME TillsInit
  PROVE  TillsInv
<1>1. PICK s \in Sessions :
        tillRequest = [w \in Workers |-> [kind |-> "idle", of |-> s, row |-> NoSession,
                                          amount |-> 0, summed |-> FALSE, moved |-> 0]]
  BY DEF TillsInit
<1>2. /\ session = [t \in Sessions |-> NoSession] /\ movements = [t \in Sessions |-> 0]
      /\ drawer = [t \in Sessions |-> 0] /\ tillMet = {}
  BY DEF TillsInit
<1>3. NoSession \in SessionRow /\ NoSession.status = "none"
  BY DEF NoSession, SessionRow, SessionStatus
<1>4. [kind |-> "idle", of |-> s, row |-> NoSession,
       amount |-> 0, summed |-> FALSE, moved |-> 0] \in TillRequest
  BY <1>3 DEF TillRequest, TillKinds
<1>5. TillsTypeOK /\ \A w \in Workers : tillRequest[w].kind = "idle"
  BY <1>1, <1>2, <1>3, <1>4 DEF TillsTypeOK
<1>6. \A t \in Sessions : session[t].status = "none"
  BY <1>2, <1>3
<1>7. DrawerAccounted /\ NoFalseDifference /\ OpenAlone
  BY <1>2, <1>5, <1>6 DEF DrawerAccounted, NoFalseDifference, OpenAlone, OpenSessions
<1> QED BY <1>5, <1>7 DEF TillsInv

\* At most one member is what a cardinality of at most one means.
LEMMA OneOpen ==
  ASSUME TillsInv
  PROVE  OneOpenSession
<1>1. SUFFICES ASSUME {"open"} \notin tillMet PROVE Cardinality(OpenSessions) <= 1
  BY DEF OneOpenSession
<1>2. \A s, t \in OpenSessions : s = t
  BY <1>1 DEF TillsInv, OpenAlone
<1>3. CASE OpenSessions = {}
  BY <1>3, FS_EmptySet
<1>4. CASE OpenSessions # {}
  <2>1. PICK s \in OpenSessions : TRUE
    BY <1>4
  <2>2. OpenSessions = {s}
    BY <1>2, <2>1
  <2> QED BY <2>2, FS_Singleton
<1> QED BY <1>3, <1>4

-----------------------------------------------------------------------------
(* The counter as a whole. *)

IInv == LaybyInv /\ CardsInv /\ TillsInv /\ requests \in Nat

LEMMA InitInv == Init => IInv
<1>1. SUFFICES ASSUME Init PROVE IInv
  OBVIOUS
<1>2. LaybyInv
  BY <1>1, LaybyInitInv DEF Init
<1>3. CardsInv
  BY <1>1, CardsInitInv DEF Init
<1>4. TillsInv
  BY <1>1, TillsInitInv DEF Init
<1> QED BY <1>1, <1>2, <1>3, <1>4 DEF Init, IInv

\* Requests are counted by the one that begins.
LEMMA Counted == ASSUME requests \in Nat, [Next]_vars PROVE requests' \in Nat
<1>1. Count \/ UNCHANGED requests => requests' \in Nat
  BY DEF Count
<1>2. CASE LaybyNext
  BY <1>1, <1>2 DEF LaybyNext, CreateLayby, MakePayment, ExtendLayby, CancelLayby, CollectLayby, Start,
       ReadSchedule, CommitPayment, CommitCancel, CommitCollect, CommitExtend, AbandonRequest,
       EndRequest
<1>3. CASE CardsNext
  BY <1>1, <1>3 DEF CardsNext, CreateGiftCard, Redeem, TopUp, CancelGiftCard, LoadCard, CommitCard,
       AbandonCard
<1>4. CASE TillsNext
  BY <1>1, <1>4 DEF TillsNext, OpenSession, RecordSale, AddCashMovement, CloseSession, LoadSession,
       SumMovements, CommitOpen, CommitSale, CommitMovement, CommitClose, AbandonTill, EndTill
<1>5. CASE UNCHANGED vars
  BY <1>1, <1>5 DEF vars
<1> QED BY <1>2, <1>3, <1>4, <1>5 DEF Next

LEMMA StepInv ==
  ASSUME IInv, [Next]_vars
  PROVE  IInv'
<1>1. LaybyInv /\ CardsInv /\ TillsInv /\ requests \in Nat
  BY DEF IInv
<1>2. /\ LaybyNext \/ UNCHANGED laybyVars
      /\ CardsNext \/ UNCHANGED cardVars
      /\ TillsNext \/ UNCHANGED tillVars
  BY DEF Next, vars
<1>3. LaybyInv'
  BY <1>1, <1>2, LaybyStep
<1>4. CardsInv'
  BY <1>1, <1>2, CardsStep
<1>5. TillsInv'
  BY <1>1, <1>2, TillsStep
<1>6. requests' \in Nat
  BY <1>1, Counted
<1> QED BY <1>3, <1>4, <1>5, <1>6 DEF IInv

\* Each reachable state satisfies the inductive invariant.
THEOREM CounterInvariantHolds == Spec => []IInv
BY InitInv, StepInv, PTL DEF Spec

\* The rows, the requests and the installments keep their types: no balance of
\* a layby or a gift card is negative, however requests interleave.
THEOREM CounterTypeCorrect == Spec => []TypeOK
<1>1. IInv => TypeOK
  BY DEF IInv, LaybyInv, CardsInv, TillsInv, TypeOK
<1> QED BY <1>1, CounterInvariantHolds, PTL

\* Paid and due make up the price of a layby, unless an extension and a payment
\* overlapped.
THEOREM BalanceAlwaysAddsUp == Spec => []BalanceAddsUp
<1>1. IInv => BalanceAddsUp
  BY MoneySound DEF IInv
<1> QED BY <1>1, CounterInvariantHolds, PTL

\* A layby never records more than the customer has paid, and records all of it
\* unless two payments overlapped.
THEOREM PaymentsRecorded == Spec => []PaidIsReceived
<1>1. IInv => PaidIsReceived
  BY MoneySound DEF IInv
<1> QED BY <1>1, CounterInvariantHolds, PTL

\* Goods are handed out only for the full price, fees included.
THEOREM CollectedGoodsArePaid == Spec => []CollectedIsPaid
<1>1. IInv => CollectedIsPaid
  BY MoneySound DEF IInv
<1> QED BY <1>1, CounterInvariantHolds, PTL

\* A customer gets the goods or one refund, not both, unless requests overlapped
\* that may do each other harm.
THEOREM GoodsOrRefund == Spec => []GoodsOrMoney
<1>1. IInv => GoodsOrMoney
  BY MoneySound DEF IInv
<1> QED BY <1>1, CounterInvariantHolds, PTL

\* The balance of a gift card is what was paid for it less what was bought with
\* it, unless two requests that change it overlapped.
THEOREM CardsAccounted == Spec => []CardBalanceExplained
<1>1. IInv => CardBalanceExplained
  BY DEF IInv, CardsInv
<1> QED BY <1>1, CounterInvariantHolds, PTL

\* No step revives or spends a cancelled card that no other request had loaded.
THEOREM CancelledCardsStay == Spec => CancelledStaysCancelled
<1> DEFINE Stays == \A c \in Cards :
                      card[c].status = "cancelled" /\ cardMet'[c] = {} =>
                        card'[c].status = "cancelled" /\ spent'[c] = spent[c]
<1>1. ASSUME IInv, [Next]_vars
      PROVE  [Stays]_<<cardVars, requests>>
  <2>1. CardsInv /\ (CardsNext \/ UNCHANGED cardVars)
    BY <1>1 DEF IInv, Next, vars
  <2>2. Stays
    BY <2>1, CancelledStep
  <2> QED BY <2>2
<1>2. IInv /\ [Next]_vars => [Stays]_<<cardVars, requests>>
  BY <1>1
<1> HIDE DEF Stays
<1>3. Spec => [][Stays]_<<cardVars, requests>>
  BY <1>2, CounterInvariantHolds, PTL DEF Spec
<1> USE DEF Stays
<1> QED BY <1>3 DEF CancelledStaysCancelled

\* A register has one open session at most, unless two requests to open one
\* overlapped.
THEOREM OneSessionOpen == Spec => []OneOpenSession
<1>1. IInv => OneOpenSession
  BY OneOpen DEF IInv
<1> QED BY <1>1, CounterInvariantHolds, PTL

\* A drawer that is counted right shows no difference, unless sales overlapped
\* or the closing overlapped with a sale or a movement.
THEOREM DrawersBalance == Spec => []NoFalseDifference
<1>1. IInv => NoFalseDifference
  BY DEF IInv, TillsInv
<1> QED BY <1>1, CounterInvariantHolds, PTL
=============================================================================
