---------------------------------- MODULE Counter ------------------------------
(***************************************************************************)
(* The money at the counter: laybys, gift cards and tills, served by the   *)
(* same server processes.                                                  *)
(***************************************************************************)
EXTENDS Layby, GiftCards, Tills

vars == <<laybyVars, cardVars, tillVars, requests>>

Init == LaybyInit /\ CardsInit /\ TillsInit /\ requests = 0

Next ==
  \/ LaybyNext /\ UNCHANGED <<cardVars, tillVars>>
  \/ CardsNext /\ UNCHANGED <<laybyVars, tillVars>>
  \/ TillsNext /\ UNCHANGED <<laybyVars, cardVars>>

Spec == Init /\ [][Next]_vars

\* Types of the tables, the requests under way and the history.
TypeOK == LaybyTypeOK /\ CardsTypeOK /\ TillsTypeOK /\ requests \in Nat

-----------------------------------------------------------------------------
(* The promise, as an abstract specification. *)

\* What the customer of a layby sees: what was really paid, what the row asks for.
AgreementOf(l) ==
  IF met[l] # {}
  THEN [state |-> "void", paid |-> 0, due |-> 0, extensions |-> 0,
        refunds |-> <<>>, goods |-> FALSE]
  ELSE [state |-> layby[l].status, paid |-> received[l], due |-> layby[l].balance,
        extensions |-> layby[l].extensions, refunds |-> refunds[l], goods |-> l \in handedOut]

\* What the owner of a card has paid for and bought; the balance is in the rules.
WalletOf(c) ==
  IF cardMet[c] # {}
  THEN [state |-> "void", in |-> 0, out |-> 0]
  ELSE [state |-> card[c].status, in |-> charged[c], out |-> spent[c]]

\* What the books of a session say.
TillOf(s) ==
  IF tillMet # {}
  THEN [state |-> "void", cash |-> 0, difference |-> 0]
  ELSE [state |-> session[s].status,
        cash |-> session[s].float + session[s].sales + movements[s],
        difference |-> session[s].difference]

Agreements == [l \in Laybys |-> AgreementOf(l)]

Wallets == [c \in Cards |-> WalletOf(c)]

Books == [s \in Sessions |-> TillOf(s)]

Promise == INSTANCE Contract WITH
  agreement <- Agreements,
  wallet    <- Wallets,
  till      <- Books

\* Until two requests meet on a layby, a card or the till, each of them takes
\* effect at once, on the terms that hold when it commits: a check made when the
\* row was loaded is as good as one made at the commit, each cent paid lowers what
\* is due by a cent, a cancellation gives back what was paid less the fee, and
\* nothing that is over is touched again.
ImplementsContract == Promise!ContractSpec
=============================================================================
