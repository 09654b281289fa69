------------------------------- MODULE SyncQueue -------------------------------
(***************************************************************************)
(* The device's sync queue and the tracked writes that feed it             *)
(* (mobile/services/sync/ChangeTracker.ts and SyncQueue.ts).               *)
(*                                                                         *)
(* A tracked write is two database transactions: the first commits the     *)
(* business records, the second, later one inserts the queue row.  Every   *)
(* record operation is one CHANGE; changes are numbered in commit order    *)
(* and a change has at most one queue row, so the number also names the    *)
(* row.                                                                    *)
(*                                                                         *)
(* The database serialises its write transactions in the order in which    *)
(* they were asked for, so the rows of concurrent tracked writes are       *)
(* inserted in turn: `jobs' is that line of waiting callers.  The device   *)
(* clock may stand still between two inserts; it is not set back.          *)
(***************************************************************************)
EXTENDS Integers, FiniteSets, Sequences

CONSTANTS
  Records,         \* the local records that tracked writes touch
  RemoteRecords,   \* those that came from the server and carry a remoteId
  MaxWrites,       \* bound: changes ever committed on the device
  MaxBatch         \* bound: operations in one trackedBatch

ASSUME QueueAssumption ==
  /\ RemoteRecords \subseteq Records
  /\ MaxWrites \in Nat
  /\ MaxBatch \in 1..2

Changes == 1..MaxWrites
Operation == [record : Records, action : {"create", "update", "delete"}]

VARIABLES
  local,       \* local[x]: does record x exist on the device
  log,         \* the operations committed so far; log[c] is change c
  stage,       \* stage[c]: what became of change c
  attempts,    \* attempts[c]: failed pushes counted on the row of c
  createdAt,   \* createdAt[c]: created_at of the row of c, 0 if it has none
  clock,       \* the latest created_at handed out
  jobs         \* tracked calls whose rows are not all inserted yet

queueVars == <<local, log, stage, attempts, createdAt, clock, jobs>>

(***************************************************************************)
(* "written"    the record is committed, its queue row is not              *)
(* "pending"    the row exists with processed_at = null                    *)
(* "processed"  the row exists with processed_at set                       *)
(* "purged"     the row was processed and has been deleted                 *)
(* "lost"       the app died, or the insert failed, before the row existed *)
(* "local"      a delete that needs no row                                 *)
(***************************************************************************)
Stages == {"unborn", "written", "pending", "processed", "purged", "lost", "local"}

QueueTypeOK ==
  /\ local \in [Records -> {"absent", "present", "deleted"}]
  /\ log \in Seq(Operation)
  /\ Len(log) \in 0..MaxWrites
  /\ stage \in [Changes -> Stages]
  /\ attempts \in [Changes -> Nat]
  /\ createdAt \in [Changes -> Nat]
  /\ clock \in Nat
  /\ jobs \in Seq([ids : SUBSET Changes, size : Nat])

QueueInit ==
  /\ local = [x \in Records |-> IF x \in RemoteRecords THEN "present" ELSE "absent"]
  /\ log = <<>>
  /\ stage = [c \in Changes |-> "unborn"]
  /\ attempts = [c \in Changes |-> 0]
  /\ createdAt = [c \in Changes |-> 0]
  /\ clock = 0
  /\ jobs = <<>>

-----------------------------------------------------------------------------
(* Tracked writes. *)

Op(x, a) == [record |-> x, action |-> a]

\* The record exists in the state that the operation needs.
Applicable(op) ==
  local[op.record] = IF op.action = "create" THEN "absent" ELSE "present"

\* A delete is queued only for a record that has a remoteId.
NeedsRow(op) == op.action = "delete" => op.record \in RemoteRecords

\* One database.write transaction that commits all of ops, which touch
\* different records; the caller then waits for its rows to be inserted.
CommitWrites(ops) ==
  LET new  == {c \in Changes : Len(log) < c /\ c <= Len(log) + Len(ops)}
      rows == {c \in new : NeedsRow(ops[c - Len(log)])}
  IN  /\ Len(log) + Len(ops) <= MaxWrites
      /\ \A i \in 1..Len(ops) : Applicable(ops[i])
      /\ local' = [x \in Records |->
                     IF \E i \in 1..Len(ops) : ops[i].record = x /\ ops[i].action = "delete"
                     THEN "deleted"
                     ELSE IF \E i \in 1..Len(ops) : ops[i].record = x
                     THEN "present" ELSE local[x]]
      /\ log' = log \o ops
      /\ stage' = [c \in Changes |-> IF c \in rows THEN "written"
                                     ELSE IF c \in new THEN "local" ELSE stage[c]]
      /\ jobs' = IF rows = {} THEN jobs
                 ELSE Append(jobs, [ids |-> rows, size |-> Cardinality(rows)])
      /\ UNCHANGED <<attempts, createdAt, clock>>

TrackedCreate(x) == CommitWrites(<<Op(x, "create")>>)
TrackedUpdate(x) == CommitWrites(<<Op(x, "update")>>)
TrackedDelete(x) == CommitWrites(<<Op(x, "delete")>>)

TrackedBatch(op1, op2) ==
  /\ MaxBatch >= 2
  /\ op1.record # op2.record
  /\ CommitWrites(<<op1, op2>>)

\* c is the row that the caller at the head of the line inserts next.
IsNextRow(c) ==
  /\ jobs # <<>>
  /\ c \in Head(jobs).ids
  /\ \A d \in Head(jobs).ids : c <= d

\* What that caller still owes once c is in.
RowsLeft(c) == Head(jobs).ids \ {c}

\* Date.now(): rows that are inserted within one millisecond share it.
Tick == clock' \in {clock, clock + 1} \ {0}

\* Broken variant of EnqueueChange: a batch returns after its first row.
EnqueueFirstOnly(c) ==
  /\ IsNextRow(c)
  /\ stage' = [stage EXCEPT ![c] = "pending"]
  /\ Tick
  /\ createdAt' = [createdAt EXCEPT ![c] = clock']
  /\ jobs' = Tail(jobs)
  /\ UNCHANGED <<local, log, attempts>>

\* enqueueChange, called by the tracked write at the head of the line.  A
\* batch asks for its next row only after this one, at the end of the line.
EnqueueChange(c) ==
  /\ IsNextRow(c)
  /\ stage' = [stage EXCEPT ![c] = "pending"]
  /\ Tick
  /\ createdAt' = [createdAt EXCEPT ![c] = clock']
  /\ jobs' = IF RowsLeft(c) = {} THEN Tail(jobs)
             ELSE Append(Tail(jobs), [ids |-> RowsLeft(c), size |-> Head(jobs).size])
  /\ UNCHANGED <<local, log, attempts>>

\* How many rows the caller reports to the pending badge: all of them, once
\* the last one is in.
RowsReported(c) == IF RowsLeft(c) = {} THEN Head(jobs).size ELSE 0

\* The insert throws: the caller gives up and its remaining rows are never
\* inserted, although its records are committed.
EnqueueFails ==
  /\ jobs # <<>>
  /\ stage' = [c \in Changes |-> IF c \in Head(jobs).ids THEN "lost" ELSE stage[c]]
  /\ jobs' = Tail(jobs)
  /\ UNCHANGED <<local, log, attempts, createdAt, clock>>

\* Broken variant of QueueCrash: a queue that lives in memory.
CrashEmptiesQueue ==
  /\ stage' = [c \in Changes |->
                 IF stage[c] \in {"written", "pending"} THEN "lost" ELSE stage[c]]
  /\ jobs' = <<>>
  /\ UNCHANGED <<local, log, attempts, createdAt, clock>>

\* The process dies: callers that wait for their rows die with it.
QueueCrash ==
  /\ stage' = [c \in Changes |-> IF stage[c] = "written" THEN "lost" ELSE stage[c]]
  /\ jobs' = <<>>
  /\ UNCHANGED <<local, log, attempts, createdAt, clock>>

-----------------------------------------------------------------------------
(* Operations on rows. *)

\* getPendingEntries and getPendingCount
Pending == {c \in Changes : stage[c] = "pending"}

\* Broken variant of IsOldest: created_at sorted the other way round.
IsNewest(c, S) == c \in S /\ \A d \in S : createdAt[d] <= createdAt[c]

\* c comes first when the rows of S are sorted by created_at.
IsOldest(c, S) == c \in S /\ \A d \in S : createdAt[c] <= createdAt[d]

MarkRowProcessed(c) ==
  /\ stage' = [stage EXCEPT ![c] = "processed"]
  /\ UNCHANGED <<local, log, attempts, createdAt, clock, jobs>>

MarkRowFailed(c) ==
  /\ attempts' = [attempts EXCEPT ![c] = @ + 1]
  /\ UNCHANGED <<local, log, stage, createdAt, clock, jobs>>

\* Broken variant of PurgeRow: unsettled rows are swept out with the others.
PurgeAnyRow(c) ==
  /\ stage[c] \in {"pending", "processed"}
  /\ stage' = [stage EXCEPT ![c] = "purged"]
  /\ UNCHANGED <<local, log, attempts, createdAt, clock, jobs>>

PurgeRow(c) ==
  /\ stage[c] = "processed"
  /\ stage' = [stage EXCEPT ![c] = "purged"]
  /\ UNCHANGED <<local, log, attempts, createdAt, clock, jobs>>
=============================================================================
