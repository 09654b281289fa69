------------------------------ MODULE SyncService ------------------------------
(***************************************************************************)
(* performSync of mobile/services/sync/SyncService.ts: push every pending  *)
(* row, pull, publish the pending count.  Nothing stops two invocations    *)
(* from overlapping, so each one is a process, named by a member of Runs.  *)
(* An await is the boundary between two actions.                           *)
(*                                                                         *)
(* The server is what the device can observe of it: a pushed change is     *)
(* applied or not, answered or not, now or after the client gave up.       *)
(***************************************************************************)
EXTENDS SyncQueue

CONSTANTS
  Runs,          \* bound: invocations of performSync that may overlap
  MaxRetries,    \* SYNC_MAX_RETRIES
  MaxFaults      \* bound: failed requests, throwing database calls, deaths

ASSUME ServiceAssumption ==
  /\ IsFiniteSet(Runs)
  /\ MaxRetries \in Nat \ {0}
  /\ MaxFaults \in Nat

VARIABLES
  pc,              \* where each run is
  todo,            \* entries of the run's snapshot not looked at yet
  cur,             \* the entry that the run is pushing, 0 if none
  seen,            \* the pending count that the run has read
  status,          \* syncStore.status
  pendingChanges,  \* syncStore.pendingChanges
  delivered,       \* changes that the server has applied at least once
  server,          \* server[x]: the change of x applied last, 0 if none
  late,            \* late[c]: requests for c abandoned but still under way
  faults           \* faults that have happened

runVars == <<pc, todo, cur, seen>>
storeVars == <<status, pendingChanges>>
serverVars == <<delivered, server, late>>
serviceVars == <<runVars, storeVars, serverVars, faults>>

(***************************************************************************)
(* "off"      no invocation                                                *)
(* "fetch"    awaits getPendingEntries                                     *)
(* "push"     in the loop, between two entries                             *)
(* "wait"     the POST is under way, the server has not applied it         *)
(* "applied"  the server has applied the entry, markProcessed is to come   *)
(* "nacked"   the POST or markProcessed threw, markFailed is to come       *)
(* "count"    pulled, awaits getPendingCount                               *)
(* "finish"   has the count, about to publish it                           *)
(***************************************************************************)
Points == {"off", "fetch", "push", "wait", "applied", "nacked", "count", "finish"}

Posting == {"wait", "applied", "nacked"}

ServiceTypeOK ==
  /\ pc \in [Runs -> Points]
  /\ todo \in [Runs -> SUBSET Changes]
  /\ cur \in [Runs -> Changes \cup {0}]
  /\ \A r \in Runs : pc[r] \in Posting => cur[r] \in Changes
  /\ seen \in [Runs -> Nat]
  /\ status \in {"idle", "syncing", "error"}
  /\ pendingChanges \in Nat
  /\ delivered \subseteq Changes
  /\ server \in [Records -> Changes \cup {0}]
  /\ late \in [Changes -> Nat]
  /\ faults \in Nat

ServiceInit ==
  /\ pc = [r \in Runs |-> "off"]
  /\ todo = [r \in Runs |-> {}]
  /\ cur = [r \in Runs |-> 0]
  /\ seen = [r \in Runs |-> 0]
  /\ status = "idle"
  /\ pendingChanges = 0
  /\ delivered = {}
  /\ server = [x \in Records |-> 0]
  /\ late = [c \in Changes |-> 0]
  /\ faults = 0

Goto(r, p) == pc' = [pc EXCEPT ![r] = p]
Fault == faults < MaxFaults /\ faults' = faults + 1

-----------------------------------------------------------------------------
(* performSync: start, pull and end of a run. *)

\* The status is set in the caller's own turn: there is no lock.
PerformSync(r) ==
  /\ pc[r] = "off"
  /\ Goto(r, "fetch")
  /\ status' = "syncing"
  /\ UNCHANGED <<todo, cur, seen, pendingChanges, serverVars, faults, queueVars>>

\* The four GETs: their changes are counted, not applied, and a failed GET
\* only adds to the list of errors.
PullChanges(r) ==
  /\ pc[r] = "push"
  /\ todo[r] = {}
  /\ Goto(r, "count")
  /\ UNCHANGED <<todo, cur, seen, storeVars, serverVars, faults, queueVars>>

ReadPendingCount(r) ==
  /\ pc[r] = "count"
  /\ Goto(r, "finish")
  /\ seen' = [seen EXCEPT ![r] = Cardinality(Pending)]
  /\ UNCHANGED <<todo, cur, storeVars, serverVars, faults, queueVars>>

\* Broken variant of FinishSync: the count is read but not published.
FinishQuietly(r) ==
  /\ pc[r] = "finish"
  /\ Goto(r, "off")
  /\ status' = "idle"
  /\ seen' = [seen EXCEPT ![r] = 0]
  /\ UNCHANGED <<todo, cur, pendingChanges, serverVars, faults, queueVars>>

FinishSync(r) ==
  /\ pc[r] = "finish"
  /\ Goto(r, "off")
  /\ pendingChanges' = seen[r]
  /\ status' = "idle"
  /\ seen' = [seen EXCEPT ![r] = 0]
  /\ UNCHANGED <<todo, cur, serverVars, faults, queueVars>>

\* Broken variant of SyncThrows: the catch forgets the status.
SyncThrowsSilently(r) ==
  /\ pc[r] \in {"fetch", "nacked", "count"}
  /\ Fault
  /\ Goto(r, "off")
  /\ todo' = [todo EXCEPT ![r] = {}]
  /\ cur' = [cur EXCEPT ![r] = 0]
  /\ UNCHANGED <<seen, storeVars, serverVars, queueVars>>

\* getPendingEntries, markFailed or getPendingCount throws: the catch of
\* performSync ends the run, whatever was left to push.
SyncThrows(r) ==
  /\ pc[r] \in {"fetch", "nacked", "count"}
  /\ Fault
  /\ Goto(r, "off")
  /\ todo' = [todo EXCEPT ![r] = {}]
  /\ cur' = [cur EXCEPT ![r] = 0]
  /\ status' = "error"
  /\ UNCHANGED <<seen, pendingChanges, serverVars, queueVars>>

-----------------------------------------------------------------------------
(* pushChanges: the loop over the snapshot of pending entries. *)

FetchPending(r) ==
  /\ pc[r] = "fetch"
  /\ Goto(r, "push")
  /\ todo' = [todo EXCEPT ![r] = Pending]
  /\ UNCHANGED <<cur, seen, storeVars, serverVars, faults, queueVars>>

\* Broken variant of SkipDeadLetter: `break' where the code has `continue'.
StopAtDeadLetter(r) ==
  /\ pc[r] = "push"
  /\ \E c \in Changes : IsOldest(c, todo[r]) /\ attempts[c] >= MaxRetries
  /\ todo' = [todo EXCEPT ![r] = {}]
  /\ UNCHANGED <<pc, cur, seen, storeVars, serverVars, faults, queueVars>>

\* The loop looks at the row as it is now, not as it was in the snapshot:
\* its attempts may have grown since, or it may have been processed.
SkipDeadLetter(r) ==
  /\ pc[r] = "push"
  /\ \E c \in Changes :
       /\ IsOldest(c, todo[r])
       /\ attempts[c] >= MaxRetries
       /\ todo' = [todo EXCEPT ![r] = @ \ {c}]
  /\ UNCHANGED <<pc, cur, seen, storeVars, serverVars, faults, queueVars>>

\* Broken variant of Post: the attempts are not looked at.
PostUnchecked(r) ==
  /\ pc[r] = "push"
  /\ Goto(r, "wait")
  /\ \E c \in Changes :
       /\ IsOldest(c, todo[r])
       /\ cur' = [cur EXCEPT ![r] = c]
       /\ todo' = [todo EXCEPT ![r] = @ \ {c}]
  /\ UNCHANGED <<seen, storeVars, serverVars, faults, queueVars>>

Post(r) ==
  /\ pc[r] = "push"
  /\ Goto(r, "wait")
  /\ \E c \in Changes :
       /\ IsOldest(c, todo[r])
       /\ attempts[c] < MaxRetries
       /\ cur' = [cur EXCEPT ![r] = c]
       /\ todo' = [todo EXCEPT ![r] = @ \ {c}]
  /\ UNCHANGED <<seen, storeVars, serverVars, faults, queueVars>>

Deliver(c) ==
  /\ delivered' = delivered \cup {c}
  /\ server' = [server EXCEPT ![log[c].record] = c]

ServerApplies(r) ==
  /\ pc[r] = "wait"
  /\ Goto(r, "applied")
  /\ Deliver(cur[r])
  /\ UNCHANGED <<todo, cur, seen, storeVars, late, faults, queueVars>>

\* Broken variant of RequestFails: an error status passes for an answer.
RequestFailsUnseen(r) ==
  /\ pc[r] = "wait"
  /\ Fault
  /\ Goto(r, "applied")
  /\ UNCHANGED <<todo, cur, seen, storeVars, serverVars, queueVars>>

\* The server refuses the change, or the request never reaches it.
RequestFails(r) ==
  /\ pc[r] = "wait"
  /\ Fault
  /\ Goto(r, "nacked")
  /\ UNCHANGED <<todo, cur, seen, storeVars, serverVars, queueVars>>

\* The client's 30 s are over, the request is still on its way.
RequestTimesOut(r) ==
  /\ pc[r] = "wait"
  /\ Fault
  /\ Goto(r, "nacked")
  /\ late' = [late EXCEPT ![cur[r]] = @ + 1]
  /\ UNCHANGED <<todo, cur, seen, storeVars, delivered, server, queueVars>>

ResponseLost(r) ==
  /\ pc[r] = "applied"
  /\ Fault
  /\ Goto(r, "nacked")
  /\ UNCHANGED <<todo, cur, seen, storeVars, serverVars, queueVars>>

LateArrival(c) ==
  /\ late[c] > 0
  /\ late' = [late EXCEPT ![c] = @ - 1]
  /\ Deliver(c)
  /\ UNCHANGED <<runVars, storeVars, faults, queueVars>>

MarkProcessed(r) ==
  /\ pc[r] = "applied"
  /\ Goto(r, "push")
  /\ MarkRowProcessed(cur[r])
  /\ cur' = [cur EXCEPT ![r] = 0]
  /\ UNCHANGED <<todo, seen, storeVars, serverVars, faults>>

\* Broken variant of MarkProcessedFails: the entry is gone when the catch
\* comes to count it.
MarkProcessedForgets(r) ==
  /\ pc[r] = "applied"
  /\ Fault
  /\ Goto(r, "nacked")
  /\ cur' = [cur EXCEPT ![r] = 0]
  /\ UNCHANGED <<todo, seen, storeVars, serverVars, queueVars>>

\* markProcessed throws inside the loop's try: the entry counts as failed.
MarkProcessedFails(r) ==
  /\ pc[r] = "applied"
  /\ Fault
  /\ Goto(r, "nacked")
  /\ UNCHANGED <<todo, cur, seen, storeVars, serverVars, queueVars>>

MarkFailed(r) ==
  /\ pc[r] = "nacked"
  /\ Goto(r, "push")
  /\ MarkRowFailed(cur[r])
  /\ cur' = [cur EXCEPT ![r] = 0]
  /\ UNCHANGED <<todo, seen, storeVars, serverVars, faults>>

\* The process dies with its runs and its in-memory store; a request that
\* was on its way may still arrive.
ServiceCrash ==
  /\ pc' = [r \in Runs |-> "off"]
  /\ todo' = [r \in Runs |-> {}]
  /\ cur' = [r \in Runs |-> 0]
  /\ seen' = [r \in Runs |-> 0]
  /\ status' = "idle"
  /\ pendingChanges' = 0
  /\ late' = [c \in Changes |->
                late[c] + Cardinality({r \in Runs : pc[r] = "wait" /\ cur[r] = c})]
  /\ Fault
  /\ UNCHANGED <<delivered, server>>

\* Everything a started run may do next, by itself or by the answer it gets.
RunStep(r) ==
  \/ FetchPending(r)   \/ SkipDeadLetter(r)  \/ Post(r)
  \/ ServerApplies(r)  \/ RequestFails(r)    \/ RequestTimesOut(r)
  \/ ResponseLost(r)   \/ MarkProcessed(r)   \/ MarkProcessedFails(r)
  \/ MarkFailed(r)     \/ PullChanges(r)     \/ ReadPendingCount(r)
  \/ FinishSync(r)     \/ SyncThrows(r)
=============================================================================
