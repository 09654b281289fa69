----------------------------- MODULE DurableOutbox -----------------------------
(***************************************************************************)
(* What the sync engine promises of a change, with no queue, run or        *)
(* scheduler in sight: a change that is OWED to the server stays owed      *)
(* until it is SETTLED, and only a change that the server has is settled.  *)
(* A change is at risk only while it is DRAFTED, before it is owed.        *)
(***************************************************************************)
CONSTANT Changes

VARIABLES
  state,       \* state[c]: the device's view of change c
  received     \* the changes that the server has

outboxVars == <<state, received>>

OutboxInit ==
  /\ state = [c \in Changes |-> "none"]
  /\ received = {}

OutboxStates == {"none", "drafted", "private", "owed", "settled", "forgotten"}

Moves(from, to) ==
  /\ state' \in [Changes -> OutboxStates]
  /\ \A c \in Changes : state'[c] # state[c] => state[c] = from /\ state'[c] \in to
  /\ UNCHANGED received

\* New changes are made; some of them concern the device alone.
Draft == Moves("none", {"drafted", "private"})

Owe == Moves("drafted", {"owed"})

\* A draft is given up; nothing else ever is.
Forget == Moves("drafted", {"forgotten"})

\* The server may get a change that is owed, or get a settled one again.
Receive ==
  /\ \E c \in Changes : state[c] \in {"owed", "settled"} /\ received' = received \cup {c}
  /\ UNCHANGED state

Settle ==
  /\ \E c \in received : state[c] = "owed" /\ state' = [state EXCEPT ![c] = "settled"]
  /\ UNCHANGED received

OutboxNext == Draft \/ Owe \/ Receive \/ Settle \/ Forget

OutboxSpec == OutboxInit /\ [][OutboxNext]_outboxVars
=============================================================================
