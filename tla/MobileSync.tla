------------------------------- MODULE MobileSync ------------------------------
(***************************************************************************)
(* The offline sync engine of one device: tracked writes, the sync queue,  *)
(* overlapping runs of performSync and the scheduler that starts them,     *)
(* with failing requests, failing database calls and process death.        *)
(***************************************************************************)
EXTENDS SyncScheduler

CONSTANTS
  Triggers      \* what starts a sync: a subset of {"manual", "scheduler"}

ASSUME MobileAssumption == Triggers \subseteq {"manual", "scheduler"}

vars == <<queueVars, serviceVars, schedulerVars>>

TypeOK == QueueTypeOK /\ ServiceTypeOK /\ SchedulerTypeOK

Init == QueueInit /\ ServiceInit /\ SchedulerInit

-----------------------------------------------------------------------------

\* triggerManualSync: the button in the sync panel, at any moment.
ManualTrigger(r) == "manual" \in Triggers /\ PerformSync(r)

\* The app calls startSyncScheduler once the user is authenticated.
StartScheduler(r) == "scheduler" \in Triggers /\ StartSyncScheduler(r)

\* The user works at the till; nothing in the sync engine is held up.
UserWrite ==
  /\ \/ \E x \in Records : TrackedCreate(x) \/ TrackedUpdate(x) \/ TrackedDelete(x)
     \/ \E op1, op2 \in Operation : TrackedBatch(op1, op2)
  /\ UNCHANGED <<serviceVars, schedulerVars>>

\* A row is inserted and its caller reports to the pending badge.
Enqueue(c) ==
  /\ EnqueueChange(c)
  /\ pendingChanges' = pendingChanges + RowsReported(c)
  /\ UNCHANGED <<runVars, status, serverVars, faults, schedulerVars>>

EnqueueThrows ==
  /\ EnqueueFails
  /\ Fault
  /\ UNCHANGED <<runVars, storeVars, serverVars, schedulerVars>>

\* A week is longer than any run: no run still has the row in its hands.
Purge(c) ==
  /\ PurgeRow(c)
  /\ \A r \in Runs : c \notin todo[r] /\ c # cur[r]
  /\ UNCHANGED <<serviceVars, schedulerVars>>

Crash ==
  /\ QueueCrash
  /\ ServiceCrash
  /\ SchedulerCrash

ServiceStep ==
  /\ \/ \E r \in Runs : RunStep(r) \/ ManualTrigger(r)
     \/ \E c \in Changes : LateArrival(c)
  /\ UNCHANGED schedulerVars

SchedulerStep ==
  /\ \/ \E r \in Runs : \/ IntervalTick(r) \/ HandleAppStateChange(r)
                        \/ DebounceFires(r) \/ StartScheduler(r)
     \/ \E connected \in BOOLEAN : HandleConnectivityChange(connected)
     \/ StopSyncScheduler
     \/ GapElapses

Next ==
  \/ UserWrite \/ EnqueueThrows
  \/ \E c \in Changes : Enqueue(c) \/ Purge(c)
  \/ Crash \/ ServiceStep \/ SchedulerStep

Spec == Init /\ [][Next]_vars

(***************************************************************************)
(* Fairness.  The database and axios answer or throw (a POST is given up   *)
(* after 30 s), so a run never waits for ever.  The app is started again   *)
(* after it died, the device finds the network again, the 30 s gap passes, *)
(* and the interval keeps firing: however often something else is in its   *)
(* way, some tick finds the way clear.  Users, purges and late requests    *)
(* are under no obligation.                                                *)
(***************************************************************************)
Fairness ==
  /\ \A r \in Runs : WF_vars(RunStep(r) /\ UNCHANGED schedulerVars)
  /\ WF_vars(EnqueueThrows \/ \E c \in Changes : Enqueue(c))
  /\ WF_vars(GapElapses)
  /\ WF_vars(\E r \in Runs : StartScheduler(r))
  /\ SF_vars(HandleConnectivityChange(TRUE))
  /\ SF_vars(\E r \in Runs : IntervalTick(r))

FairSpec == Spec /\ Fairness

-----------------------------------------------------------------------------
(* Safety. *)

\* A row is marked processed, and later purged, only after the server has
\* applied its change: a lost answer, a crash or an overlapping run never
\* turns an undelivered change into a settled one (SyncService.ts:129-148).
SettledWasDelivered ==
  \A c \in Changes : stage[c] \in {"processed", "purged"} => c \in delivered

\* Rows reach the server in queue order as long as nothing fails: when a
\* row has been delivered, an older row has been delivered too unless a
\* push of it has failed, however many runs overlap and wherever they were
\* cut short (SyncQueue.ts:46-58, SyncService.ts:115-150).
OvertakenOnlyAfterFailure ==
  \A c, d \in Changes :
    (0 < createdAt[c] /\ createdAt[c] < createdAt[d] /\ d \in delivered)
      => c \in delivered \/ attempts[c] > 0

\* SYNC_MAX_RETRIES is read before the POST and the counter is written after
\* it, so overlapping runs can exceed it, but by less than their number
\* (SyncService.ts:124-127 and 141-144).
AttemptsBounded ==
  \A c \in Changes : attempts[c] < MaxRetries + Cardinality(Runs)

\* "syncing" shuts the scheduler out, so it must never outlive the runs:
\* whatever way a run ends, the store does not stay at "syncing" with no
\* run left to reset it (SyncService.ts:62-91, SyncScheduler.ts:66-69).
SyncingHasRun ==
  status = "syncing" => \E r \in Runs : pc[r] # "off"

\* A committed change that has no row yet has a caller that will insert it;
\* a batch that is overtaken by other writers forgets none of its rows
\* (ChangeTracker.ts:52-66 and 214-222).
NoStrandedChange ==
  \A c \in Changes :
    stage[c] = "written" <=> \E i \in 1..Len(jobs) : c \in jobs[i].ids

\* Without the manual button the status check of attemptSync is a lock: the
\* scheduler alone never has two runs at once, through restarts, reconnects
\* and logouts in the middle of a run (SyncScheduler.ts:60-83).
SchedulerRunsAlone ==
  "manual" \notin Triggers => \A r, s \in Runs : pc[r] # "off" /\ pc[s] # "off" => r = s

\* A row that has used up its attempts, and that no run is pushing, is never
\* settled, purged or reset: only a person can rescue it
\* (SyncService.ts:124-127, SyncQueue.ts:106-115).
DeadLetter(c) == /\ stage[c] = "pending"
                 /\ attempts[c] >= MaxRetries
                 /\ \A r \in Runs : pc[r] \in Posting => cur[r] # c

DeadLettersStay == [][\A c \in Changes : DeadLetter(c) => DeadLetter(c)']_vars

-----------------------------------------------------------------------------
(* The promise, as an abstract specification. *)

\* What a row's stage means to the owner of the change.
OutboxState(st) ==
  CASE st = "unborn"  -> "none"
    [] st = "written" -> "drafted"
    [] st = "pending" -> "owed"
    [] st \in {"processed", "purged"} -> "settled"
    [] st = "lost"    -> "forgotten"
    [] st = "local"   -> "private"

Outbox == INSTANCE DurableOutbox WITH
  Changes  <- Changes,
  received <- delivered,
  state    <- [c \in Changes |-> OutboxState(stage[c])]

\* The engine implements the durable outbox: a change with a row is never
\* forgotten, and it is settled only once the server has it.
ImplementsOutbox == Outbox!OutboxSpec

-----------------------------------------------------------------------------
(* What the repository says of the engine and the code does not do. *)

\* ChangeTracker.ts:11-12: "By wrapping all write operations in tracked
\* functions, we guarantee nothing is missed."
NothingMissed == \A c \in Changes : stage[c] # "lost"

\* syncService.test.ts:191 "rejects concurrent syncs and returns an error":
\* two runs of performSync never overlap.
NoConcurrentSyncs == \A r, s \in Runs : pc[r] # "off" /\ pc[s] # "off" => r = s

\* SyncQueue.ts:9: the queue "preserves operation ordering": of the changes
\* of a record that the server got, it holds the one queued last.
ServerHoldsLatest ==
  \A c \in delivered : createdAt[c] <= createdAt[server[log[c].record]]

-----------------------------------------------------------------------------
(* Liveness. *)

\* A row does not wait for ever: it is processed or it has used up its
\* attempts, provided that faults are finitely many and the scheduler comes
\* back after each crash or logout (SyncScheduler.ts:60-83 and 132-152).
RowEventuallyResolved ==
  \A c \in Changes :
    stage[c] = "pending" ~> (stage[c] # "pending" \/ attempts[c] >= MaxRetries)

\* The pending badge may be wrong while writes and runs overlap and after a
\* restart, but it ends up equal to the number of rows still pending
\* (SyncService.ts:77, ChangeTracker.ts:69, syncStore.ts:42-47).
BadgeEventuallyExact == <>[](pendingChanges = Cardinality(Pending))
=============================================================================
