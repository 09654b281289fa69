-------------------------------- MODULE GiftCards ------------------------------
(***************************************************************************)
(* Gift cards (backend/app/services/gift_card_service.py): a balance that  *)
(* is redeemed and topped up.  No code looks at expires_at.                *)
(***************************************************************************)
EXTENDS Requests

CONSTANTS
  Cards,
  Values       \* initial values, and amounts redeemed and topped up

ASSUME CardsAssumption == Values \subseteq Nat \ {0}

CardStatus == {"none", "active", "redeemed", "cancelled"}

CardKinds == {"idle", "redeem", "top_up", "cancel"}

VARIABLES
  card,        \* the row of each card
  cardRequest, \* the request each worker is serving, with the row it loaded
  charged,     \* all that was paid for a card
  spent,       \* all that was bought with it
  cardMet      \* the kinds of requests that worked on a card at once

cardVars == <<card, cardRequest, charged, spent, cardMet>>

CardRow == [status : CardStatus, balance : Nat]

CardRequest == [kind : CardKinds, of : Cards, row : CardRow, amount : Nat]

CardsInit ==
  /\ card = [c \in Cards |-> [status |-> "none", balance |-> 0]]
  /\ \E c \in Cards :
       cardRequest = [w \in Workers |-> [kind |-> "idle", of |-> c, row |-> card[c], amount |-> 0]]
  /\ charged = [c \in Cards |-> 0]
  /\ spent = [c \in Cards |-> 0]
  /\ cardMet = [c \in Cards |-> {}]

-----------------------------------------------------------------------------
CreateGiftCard(c, value) ==
  /\ Count
  /\ card[c].status = "none"
  /\ card' = [card EXCEPT ![c] = [status |-> "active", balance |-> value]]
  /\ charged' = [charged EXCEPT ![c] = value]
  /\ UNCHANGED <<cardRequest, spent, cardMet>>

LoadCard(w, kind, c, amount) ==
  /\ cardRequest[w].kind = "idle" /\ Count
  /\ cardRequest' = [cardRequest EXCEPT ![w] =
       [kind |-> kind, of |-> c, row |-> card[c], amount |-> amount]]
  /\ UNCHANGED <<card, charged, spent, cardMet>>

\* Broken variant of Redeem: any card with something left.
RedeemAnyStatus(w, c, amount) ==
  /\ card[c].status # "none"
  /\ amount <= card[c].balance
  /\ LoadCard(w, "redeem", c, amount)

Redeem(w, c, amount) ==
  /\ card[c].status = "active"
  /\ amount <= card[c].balance
  /\ LoadCard(w, "redeem", c, amount)

TopUp(w, c, amount) ==
  /\ card[c].status \notin {"none", "cancelled"}
  /\ LoadCard(w, "top_up", c, amount)

CancelGiftCard(w, c) ==
  /\ card[c].status # "none"
  /\ LoadCard(w, "cancel", c, 0)

\* Broken variant of NewCard: a top-up starts the balance afresh.
NewCardReplaced(r) ==
  CASE r.kind = "redeem" ->
         [balance |-> r.row.balance - r.amount,
          status  |-> IF r.row.balance = r.amount THEN "redeemed" ELSE r.row.status]
    [] r.kind = "top_up" ->
         [balance |-> r.amount,
          status  |-> IF r.row.status = "redeemed" THEN "active" ELSE r.row.status]
    [] OTHER -> [r.row EXCEPT !.status = "cancelled"]

\* What a request makes of the row it loaded.
NewCard(r) ==
  CASE r.kind = "redeem" ->
         [balance |-> r.row.balance - r.amount,
          status  |-> IF r.row.balance = r.amount THEN "redeemed" ELSE r.row.status]
    [] r.kind = "top_up" ->
         [balance |-> r.row.balance + r.amount,
          status  |-> IF r.row.status = "redeemed" THEN "active" ELSE r.row.status]
    [] OTHER -> [r.row EXCEPT !.status = "cancelled"]

CommitCard(w) ==
  LET r == cardRequest[w]
      c == r.of
  IN
  /\ r.kind # "idle"
  /\ card' = [card EXCEPT ![c] =
       [status  |-> Written(@.status, r.row.status, NewCard(r).status),
        balance |-> Written(@.balance, r.row.balance, NewCard(r).balance)]]
  /\ charged' = [charged EXCEPT ![c] = IF r.kind = "top_up" THEN @ + r.amount ELSE @]
  /\ spent' = [spent EXCEPT ![c] = IF r.kind = "redeem" THEN @ + r.amount ELSE @]
  /\ cardMet' = [cardMet EXCEPT ![c] = @ \cup Meetings(cardRequest, w)]
  /\ cardRequest' = [cardRequest EXCEPT ![w].kind = "idle"]
  /\ UNCHANGED requests

AbandonCard(w) ==
  /\ cardRequest[w].kind # "idle"
  /\ cardRequest' = [cardRequest EXCEPT ![w].kind = "idle"]
  /\ UNCHANGED <<card, charged, spent, cardMet, requests>>

CardsNext ==
  \/ \E c \in Cards, v \in Values : CreateGiftCard(c, v)
  \/ \E w \in Workers :
       \/ \E c \in Cards : \/ \E v \in Values : Redeem(w, c, v) \/ TopUp(w, c, v)
                           \/ CancelGiftCard(w, c)
       \/ CommitCard(w)
       \/ AbandonCard(w)

CardsTypeOK ==
  /\ card \in [Cards -> CardRow]
  /\ cardRequest \in [Workers -> CardRequest]
  /\ charged \in [Cards -> Nat]
  /\ spent \in [Cards -> Nat]
  /\ cardMet \in [Cards -> SUBSET SUBSET CardKinds]

-----------------------------------------------------------------------------
\* The balance of a card is what was paid for it less what was bought with it,
\* unless two requests that change it overlapped; never is it negative.
CardBalanceExplained ==
  \A c \in Cards :
    cardMet[c] \cap {{"redeem"}, {"top_up"}, {"redeem", "top_up"}} = {} =>
      card[c].balance = charged[c] - spent[c]

\* A cancelled card stays cancelled and is not spent any more, unless a request
\* that had loaded it before commits after the cancellation.
CancelledStaysCancelled ==
  [][\A c \in Cards :
       card[c].status = "cancelled" /\ cardMet'[c] = {} =>
         card'[c].status = "cancelled" /\ spent'[c] = spent[c]]_<<cardVars, requests>>
=============================================================================
