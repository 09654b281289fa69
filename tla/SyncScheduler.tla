----------------------------- MODULE SyncScheduler -----------------------------
(***************************************************************************)
(* mobile/services/sync/SyncScheduler.ts: when performSync is called       *)
(* without the user asking.  The wall clock is abstracted to `cooling':    *)
(* less than MIN_SYNC_GAP_MS has passed since the last scheduled attempt.  *)
(***************************************************************************)
EXTENDS SyncService

VARIABLES
  isRunning,   \* listeners and interval are installed
  cooling,     \* now - lastSyncAttempt < MIN_SYNC_GAP_MS
  debounce,    \* the connectivity timer is armed
  isOnline     \* syncStore.isOnline, the app's view of the network

schedulerVars == <<isRunning, cooling, debounce, isOnline>>

SchedulerTypeOK ==
  /\ isRunning \in BOOLEAN
  /\ cooling \in BOOLEAN
  /\ debounce \in BOOLEAN
  /\ isOnline \in BOOLEAN

SchedulerInit ==
  /\ isRunning = FALSE
  /\ cooling = FALSE
  /\ debounce = FALSE
  /\ isOnline = TRUE

\* Broken variant of MayAttempt: the gap alone is trusted to keep runs apart.
MayAttemptAnyway == ~cooling /\ isOnline

\* attemptSync gets past its three early returns.
MayAttempt == ~cooling /\ status # "syncing" /\ isOnline

Attempt(r) ==
  /\ MayAttempt
  /\ cooling' = TRUE
  /\ PerformSync(r)

\* attemptSync returns early; the callers that do something else besides
\* still take a step.
NoAttempt ==
  /\ ~MayAttempt
  /\ UNCHANGED <<cooling, serviceVars, queueVars>>

\* The 5 minute interval.
IntervalTick(r) ==
  /\ isRunning
  /\ Attempt(r)
  /\ UNCHANGED <<isRunning, debounce, isOnline>>

\* The app returns to the foreground.
HandleAppStateChange(r) ==
  /\ isRunning
  /\ Attempt(r)
  /\ UNCHANGED <<isRunning, debounce, isOnline>>

\* Only offline to online arms the timer; going offline does not disarm it.
HandleConnectivityChange(connected) ==
  /\ isRunning
  /\ connected # isOnline
  /\ isOnline' = connected
  /\ debounce' = (debounce \/ connected)
  /\ UNCHANGED <<isRunning, cooling, serviceVars, queueVars>>

DebounceFires(r) ==
  /\ debounce
  /\ debounce' = FALSE
  /\ Attempt(r) \/ NoAttempt
  /\ UNCHANGED <<isRunning, isOnline>>

StartSyncScheduler(r) ==
  /\ ~isRunning
  /\ isRunning' = TRUE
  /\ Attempt(r) \/ NoAttempt
  /\ UNCHANGED <<debounce, isOnline>>

\* A run under way is not stopped.
StopSyncScheduler ==
  /\ isRunning
  /\ isRunning' = FALSE
  /\ debounce' = FALSE
  /\ UNCHANGED <<cooling, isOnline, serviceVars, queueVars>>

GapElapses ==
  /\ cooling
  /\ cooling' = FALSE
  /\ UNCHANGED <<isRunning, debounce, isOnline, serviceVars, queueVars>>

SchedulerCrash ==
  /\ isRunning' = FALSE
  /\ cooling' = FALSE
  /\ debounce' = FALSE
  /\ isOnline' = TRUE
=============================================================================
