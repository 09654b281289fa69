----------------------------- MODULE MobileSyncInv -----------------------------
(***************************************************************************)
(* The inductive invariant behind the safety properties of MobileSync.     *)
(***************************************************************************)
EXTENDS MobileSync

HasRow(c) == createdAt[c] > 0

\* Run r is pushing c.
Pushing(r, c) == pc[r] \in Posting /\ cur[r] = c

\* Run r may still touch the row of c.
InHand(r, c) == c \in todo[r] \/ Pushing(r, c)

\* Delivered, or on record as having failed.
Tried(c) == c \in delivered \/ attempts[c] > 0

\* Delivered, or on its way to the server.
Sent(c) == c \in delivered \/ late[c] > 0 \/ \E r \in Runs : Pushing(r, c)

Older(c, d) == HasRow(c) /\ createdAt[c] < createdAt[d]

\* Rows exist from the insert on, later rows are not older, and runs
\* and requests deal with rows only.
RowsInv ==
  /\ \A c \in Changes : HasRow(c) <=> stage[c] \in {"pending", "processed", "purged"}
  /\ \A c \in Changes : createdAt[c] <= clock
  /\ \A c \in Changes : Sent(c) => HasRow(c)
  /\ \A r \in Runs, c \in Changes : InHand(r, c) => stage[c] \in {"pending", "processed"}
  /\ \A r \in Runs : pc[r] \notin Posting \cup {"push"} => todo[r] = {}

\* Waiting callers: no change waits twice, and none before it is committed.
JobsInv ==
  /\ NoStrandedChange
  /\ \A i, j \in 1..Len(jobs) : i # j => jobs[i].ids \cap jobs[j].ids = {}
  /\ \A c \in Changes : c > Len(log) <=> stage[c] = "unborn"

DeliveryInv ==
  /\ SettledWasDelivered
  /\ \A r \in Runs : pc[r] = "applied" => cur[r] \in delivered

\* Whatever was sent leaves behind only older rows that were tried before it,
\* whatever waits to be sent only such rows and those of the same run.
OrderInv ==
  /\ \A c, d \in Changes : Sent(d) /\ Older(c, d) => Tried(c)
  /\ \A r \in Runs : \A d \in todo[r] : \A c \in Changes :
       Older(c, d) => InHand(r, c) \/ Tried(c)

\* A row's failures and the pushes of it under way share one budget.
Pushers(c) == {r \in Runs : Pushing(r, c)}

AttemptsInv ==
  \A c \in Changes :
    attempts[c] + Cardinality(Pushers(c)) < MaxRetries + Cardinality(Runs)

AloneInv ==
  /\ SyncingHasRun
  /\ SchedulerRunsAlone
  /\ "manual" \notin Triggers => \A r \in Runs : pc[r] # "off" => status = "syncing"

IInv ==
  /\ TypeOK
  /\ RowsInv
  /\ JobsInv
  /\ DeliveryInv
  /\ OrderInv
  /\ AttemptsInv
  /\ AloneInv
=============================================================================
