-------------------------------- MODULE Contract -------------------------------
(***************************************************************************)
(* What the counter promises a customer and a cashier, with no requests,   *)
(* columns or commits in sight: whatever is done to a layby, a gift card   *)
(* or the till happens at once, on the terms that hold at that moment.     *)
(* What two requests have met on is VOID: nothing is promised of it.       *)
(***************************************************************************)
EXTENDS Integers

CONSTANTS
  Laybys, Price, ExtensionFee, CancellationFee, MaxExtensions,
  Cards, Values,
  Sessions, Cash

VARIABLES
  agreement,   \* agreement[l]: what the customer of layby l has paid, owes and got
  wallet,      \* wallet[c]: what was put on gift card c and taken from it
  till         \* till[s]: what session s of the register should have in its drawer

contractVars == <<agreement, wallet, till>>

\* The refunds of an agreement and whether its goods were handed over.
Agreement(state, paid, due, extensions, refunds, goods) ==
  [state |-> state, paid |-> paid, due |-> due, extensions |-> extensions,
   refunds |-> refunds, goods |-> goods]

Wallet(state, in, out) == [state |-> state, in |-> in, out |-> out]

Till(state, cash, difference) == [state |-> state, cash |-> cash, difference |-> difference]

\* Of what there is not, or what is void, nothing is said.
Nothing(state) == Agreement(state, 0, 0, 0, <<>>, FALSE)

ContractInit ==
  /\ agreement = [l \in Laybys |-> Nothing("none")]
  /\ wallet = [c \in Cards |-> Wallet("none", 0, 0)]
  /\ till = [s \in Sessions |-> Till("none", 0, 0)]

-----------------------------------------------------------------------------
(* Laybys. *)

Becomes(l, a) == agreement' = [agreement EXCEPT ![l] = a]

\* The deposit is paid, the rest is due.
Sign(l) ==
  /\ agreement[l].state = "none"
  /\ \E d \in 0 .. Price[l] :
       Becomes(l, Agreement("active", d, Price[l] - d, 0, <<>>, FALSE))

\* No more than is due; the last payment makes the goods ready.
Pay(l) ==
  LET a == agreement[l] IN
  /\ a.state = "active"
  /\ \E amount \in 1 .. a.due :
       Becomes(l, Agreement(IF amount = a.due THEN "ready_for_collection" ELSE "active",
                            a.paid + amount, a.due - amount, a.extensions, a.refunds, a.goods))

Extend(l) ==
  LET a == agreement[l] IN
  /\ a.state = "active" /\ a.extensions < MaxExtensions
  /\ Becomes(l, Agreement("active", a.paid, a.due + ExtensionFee, a.extensions + 1,
                          a.refunds, a.goods))

Collect(l) ==
  LET a == agreement[l] IN
  /\ a.state = "ready_for_collection"
  /\ Becomes(l, Agreement("completed", a.paid, a.due, a.extensions, a.refunds, TRUE))

\* One refund of what was paid less the fee, if anything is left of it.
Cancel(l) ==
  LET a == agreement[l] IN
  /\ a.state \in {"active", "ready_for_collection"}
  /\ Becomes(l, Agreement("cancelled", a.paid, a.due, a.extensions,
                          IF a.paid > CancellationFee THEN <<a.paid - CancellationFee>> ELSE <<>>,
                          a.goods))

VoidAgreement(l) ==
  /\ agreement[l].state # "none"
  /\ Becomes(l, Nothing("void"))

Deal(l) == Sign(l) \/ Pay(l) \/ Extend(l) \/ Collect(l) \/ Cancel(l) \/ VoidAgreement(l)

-----------------------------------------------------------------------------
(* Gift cards. *)

Holds(c, a) == wallet' = [wallet EXCEPT ![c] = a]

Issue(c) ==
  /\ wallet[c].state = "none"
  /\ \E v \in Values : Holds(c, Wallet("active", v, 0))

\* No more than is on the card; what empties it uses it up.
Spend(c) ==
  LET a == wallet[c] IN
  /\ a.state = "active"
  /\ \E v \in 1 .. a.in - a.out :
       Holds(c, Wallet(IF v = a.in - a.out THEN "redeemed" ELSE "active", a.in, a.out + v))

\* A used card can be spent again.
Recharge(c) ==
  LET a == wallet[c] IN
  /\ a.state \in {"active", "redeemed"}
  /\ \E v \in Values : Holds(c, Wallet("active", a.in + v, a.out))

Withdraw(c) ==
  LET a == wallet[c] IN
  /\ a.state \in {"active", "redeemed"}
  /\ Holds(c, Wallet("cancelled", a.in, a.out))

VoidWallet(c) ==
  /\ wallet[c].state # "none"
  /\ Holds(c, Wallet("void", 0, 0))

Use(c) == Issue(c) \/ Spend(c) \/ Recharge(c) \/ Withdraw(c) \/ VoidWallet(c)

-----------------------------------------------------------------------------
(* The till. *)

Reads(s, a) == till' = [till EXCEPT ![s] = a]

\* One session at a time.
OpenTill(s) ==
  /\ till[s].state = "none"
  /\ \A t \in Sessions : till[t].state \notin {"open", "void"}
  /\ \E a \in Cash : Reads(s, Till("open", a, 0))

\* Sales and movements, in and out.
Move(s) ==
  LET a == till[s] IN
  /\ a.state = "open"
  /\ \E v \in Cash, sign \in {1, -1} : Reads(s, Till("open", a.cash + sign * v, a.difference))

\* Nothing is missing and nothing too much.
CloseTill(s) ==
  LET a == till[s] IN
  /\ a.state = "open"
  /\ Reads(s, Till("closed", a.cash, 0))

VoidTill == till' = [s \in Sessions |-> Till("void", 0, 0)]

-----------------------------------------------------------------------------
ContractNext ==
  \/ (\E l \in Laybys : Deal(l)) /\ UNCHANGED <<wallet, till>>
  \/ (\E c \in Cards : Use(c)) /\ UNCHANGED <<agreement, till>>
  \/ (VoidTill \/ \E s \in Sessions : OpenTill(s) \/ Move(s) \/ CloseTill(s))
       /\ UNCHANGED <<agreement, wallet>>

ContractSpec == ContractInit /\ [][ContractNext]_contractVars

-----------------------------------------------------------------------------
(* What the contract is good for. *)

\* Each cent of the price and of the fees is paid or due; the goods go out when
\* nothing is due, never together with a refund, and no more than what was paid
\* less the fee ever goes back.
TermsKept ==
  \A l \in Laybys :
    LET a == agreement[l] IN
    a.state \notin {"none", "void"} =>
      /\ a.paid \in Nat /\ a.due \in Nat /\ a.extensions \in 0 .. MaxExtensions
      /\ a.paid + a.due = Price[l] + a.extensions * ExtensionFee
      /\ a.state \in {"ready_for_collection", "completed"} => a.due = 0
      /\ a.goods => a.state = "completed"
      /\ a.refunds # <<>> => a.state = "cancelled" /\ a.refunds = <<a.paid - CancellationFee>>

\* A card is used up when all that was put on it was spent, and not before.
ValueKept ==
  \A c \in Cards :
    LET a == wallet[c] IN
    a.state \notin {"none", "void"} =>
      /\ a.in \in Nat /\ a.out \in 0 .. a.in
      /\ a.state = "active" => a.out < a.in
      /\ a.state = "redeemed" => a.out = a.in
=============================================================================
