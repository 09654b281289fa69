--------------------------- MODULE MobileSync_proofs ---------------------------
(***************************************************************************)
(* Proofs about MobileSync, for every set of records and runs and every    *)
(* bound: type correctness first, then the parts of the inductive          *)
(* invariant IInv in the order in which they rest on each other.           *)
(***************************************************************************)
EXTENDS MobileSyncInv, FiniteSetTheorems, SequenceTheorems, TLAPS

-----------------------------------------------------------------------------
(* Finite sets. *)

\* Only finitely many changes are ever committed.
LEMMA ChangesFinite == IsFiniteSet(Changes)
BY FS_Interval, QueueAssumption DEF Changes

\* Sets of changes and sets of runs can be counted.
LEMMA CountIsNat == ASSUME NEW S, S \subseteq Changes \/ S \subseteq Runs
                    PROVE IsFiniteSet(S) /\ Cardinality(S) \in Nat
BY ChangesFinite, ServiceAssumption, FS_Subset, FS_CardinalityType

-----------------------------------------------------------------------------
(* Type correctness. *)

\* A tracked write keeps the types of the queue.
LEMMA QueueTypeWrite ==
  ASSUME QueueTypeOK, NEW ops \in Seq(Operation), CommitWrites(ops)
  PROVE  QueueTypeOK'
<1> DEFINE new  == {c \in Changes : Len(log) < c /\ c <= Len(log) + Len(ops)}
           rows == {c \in new : NeedsRow(ops[c - Len(log)])}
<1>1. local' \in [Records -> {"absent", "present", "deleted"}]
  BY DEF CommitWrites, QueueTypeOK
<1>2. log' \in Seq(Operation) /\ Len(log') \in 0..MaxWrites
  <2>1. log' = log \o ops /\ Len(log) + Len(ops) <= MaxWrites
    BY DEF CommitWrites
  <2>2. log \in Seq(Operation)
    BY DEF QueueTypeOK
  <2>3. log' \in Seq(Operation) /\ Len(log') = Len(log) + Len(ops)
    BY <2>1, <2>2, ConcatProperties
  <2> QED BY <2>1, <2>2, <2>3, LenProperties, QueueAssumption
<1>3. stage' \in [Changes -> Stages]
  BY DEF CommitWrites, QueueTypeOK, Stages
<1>4. jobs' \in Seq([ids : SUBSET Changes, size : Nat])
  <2>1. jobs' = IF rows = {} THEN jobs
                ELSE Append(jobs, [ids |-> rows, size |-> Cardinality(rows)])
    BY DEF CommitWrites
  <2>2. rows \subseteq Changes
    OBVIOUS
  <2>3. Cardinality(rows) \in Nat
    BY <2>2, CountIsNat
  <2> HIDE DEF rows
  <2> QED BY <2>1, <2>2, <2>3, AppendProperties DEF QueueTypeOK
<1>5. UNCHANGED <<attempts, createdAt, clock>>
  BY DEF CommitWrites
<1> QED BY <1>1, <1>2, <1>3, <1>4, <1>5 DEF QueueTypeOK

\* What the caller at the head of the line looks like.
LEMMA HeadJob ==
  ASSUME QueueTypeOK, jobs # <<>>
  PROVE  /\ Head(jobs) \in [ids : SUBSET Changes, size : Nat]
         /\ Tail(jobs) \in Seq([ids : SUBSET Changes, size : Nat])
BY HeadTailProperties DEF QueueTypeOK

\* Inserting, marking and purging rows keeps the types of the queue.
LEMMA QueueTypeRows ==
  ASSUME QueueTypeOK, NEW c \in Changes,
         \/ EnqueueChange(c) \/ EnqueueFails \/ QueueCrash
         \/ MarkRowProcessed(c) \/ MarkRowFailed(c) \/ PurgeRow(c)
  PROVE  QueueTypeOK'
<1>1. CASE EnqueueChange(c)
  <2>1. jobs # <<>>
    BY <1>1 DEF EnqueueChange, IsNextRow
  <2>2. jobs' \in Seq([ids : SUBSET Changes, size : Nat])
    BY <1>1, <2>1, HeadJob, AppendProperties DEF EnqueueChange, RowsLeft
  <2> QED BY <1>1, <2>2 DEF EnqueueChange, Tick, QueueTypeOK, Stages
<1>2. CASE EnqueueFails
  BY <1>2, HeadJob DEF EnqueueFails, QueueTypeOK, Stages
<1>3. CASE QueueCrash
  BY <1>3 DEF QueueCrash, QueueTypeOK, Stages
<1>4. CASE MarkRowProcessed(c)
  BY <1>4 DEF MarkRowProcessed, QueueTypeOK, Stages
<1>5. CASE MarkRowFailed(c)
  BY <1>5 DEF MarkRowFailed, QueueTypeOK
<1>6. CASE PurgeRow(c)
  BY <1>6 DEF PurgeRow, QueueTypeOK, Stages
<1> QED BY <1>1, <1>2, <1>3, <1>4, <1>5, <1>6

\* A new run keeps the types of the service.
LEMMA ServiceTypeStart ==
  ASSUME ServiceTypeOK, NEW r \in Runs, PerformSync(r)
  PROVE  ServiceTypeOK'
BY DEF PerformSync, Goto, ServiceTypeOK, Points, Posting, serverVars, queueVars

\* A delivery keeps the types of the server.
LEMMA ServiceTypeDeliver ==
  ASSUME ServiceTypeOK, NEW c \in Changes, Deliver(c)
  PROVE  delivered' \subseteq Changes /\ server' \in [Records -> Changes \cup {0}]
BY DEF Deliver, ServiceTypeOK

\* A step of a run keeps the types of the service.
LEMMA ServiceTypeRun ==
  ASSUME QueueTypeOK, ServiceTypeOK, NEW r \in Runs, RunStep(r)
  PROVE  ServiceTypeOK'
<1> USE DEF ServiceTypeOK, Goto, Points, Posting
<1>1. Pending \subseteq Changes /\ Cardinality(Pending) \in Nat
  BY CountIsNat DEF Pending
<1>2. CASE FetchPending(r)
  BY <1>1, <1>2 DEF FetchPending, storeVars, serverVars, queueVars
<1>3. CASE SkipDeadLetter(r)
  BY <1>3 DEF SkipDeadLetter, storeVars, serverVars, queueVars
<1>4. CASE Post(r)
  BY <1>4 DEF Post, storeVars, serverVars, queueVars
<1>5. CASE ServerApplies(r)
  <2>1. cur[r] \in Changes
    BY <1>5 DEF ServerApplies
  <2> QED BY <1>5, <2>1, ServiceTypeDeliver DEF ServerApplies, storeVars, queueVars
<1>6. CASE RequestFails(r) \/ ResponseLost(r) \/ MarkProcessedFails(r)
  <2>1. pc' = [pc EXCEPT ![r] = "nacked"] /\ cur[r] \in Changes
    BY <1>6 DEF RequestFails, ResponseLost, MarkProcessedFails
  <2>2. faults' \in Nat /\ UNCHANGED <<todo, cur, seen, storeVars, serverVars>>
    BY <1>6 DEF RequestFails, ResponseLost, MarkProcessedFails, Fault
  <2> QED BY <2>1, <2>2 DEF storeVars, serverVars
<1>7. CASE RequestTimesOut(r)
  BY <1>7 DEF RequestTimesOut, Fault, storeVars, queueVars
<1>8. CASE MarkProcessed(r) \/ MarkFailed(r)
  BY <1>8 DEF MarkProcessed, MarkFailed, MarkRowProcessed, MarkRowFailed,
              storeVars, serverVars
<1>9. CASE PullChanges(r)
  BY <1>9 DEF PullChanges, storeVars, serverVars, queueVars
<1>10. CASE ReadPendingCount(r)
  BY <1>1, <1>10 DEF ReadPendingCount, storeVars, serverVars, queueVars
<1>11. CASE FinishSync(r)
  BY <1>11 DEF FinishSync, storeVars, serverVars, queueVars
<1>12. CASE SyncThrows(r)
  BY <1>12 DEF SyncThrows, Fault, storeVars, serverVars, queueVars
<1> QED BY <1>2, <1>3, <1>4, <1>5, <1>6, <1>7, <1>8, <1>9, <1>10, <1>11, <1>12 DEF RunStep

\* A crash keeps the types of the service.
LEMMA ServiceTypeCrash ==
  ASSUME ServiceTypeOK, ServiceCrash
  PROVE  ServiceTypeOK'
<1>1. \A c \in Changes : Cardinality({r \in Runs : pc[r] = "wait" /\ cur[r] = c}) \in Nat
  BY CountIsNat
<1> QED BY <1>1 DEF ServiceCrash, Fault, ServiceTypeOK, Points, Posting

(***************************************************************************)
(* A step of MobileSync, by the part of the program that takes it.         *)
(***************************************************************************)
LEMMA QueueTypeRun ==
  ASSUME QueueTypeOK, ServiceTypeOK, NEW r \in Runs, RunStep(r)
  PROVE  QueueTypeOK'
<1>1. CASE MarkProcessed(r)
  BY <1>1, QueueTypeRows DEF MarkProcessed, ServiceTypeOK, Posting
<1>2. CASE MarkFailed(r)
  BY <1>2, QueueTypeRows DEF MarkFailed, ServiceTypeOK, Posting
<1>3. CASE UNCHANGED queueVars
  BY <1>3 DEF queueVars, QueueTypeOK
<1> QED BY <1>1, <1>2, <1>3 DEF RunStep, FetchPending, SkipDeadLetter, Post,
        ServerApplies, RequestFails, RequestTimesOut, ResponseLost,
        MarkProcessedFails, PullChanges, ReadPendingCount, FinishSync, SyncThrows

\* A user's write commits one operation, or two.
LEMMA WriteCommits ==
  ASSUME UserWrite
  PROVE  \E ops \in Seq(Operation) : CommitWrites(ops)
<1>1. ASSUME NEW x \in Records, TrackedCreate(x) \/ TrackedUpdate(x) \/ TrackedDelete(x)
      PROVE  \E ops \in Seq(Operation) : CommitWrites(ops)
  <2>1. PICK a \in {"create", "update", "delete"} : CommitWrites(<<Op(x, a)>>)
    BY <1>1 DEF TrackedCreate, TrackedUpdate, TrackedDelete
  <2>2. Op(x, a) \in Operation
    BY DEF Op, Operation
  <2> HIDE DEF Op
  <2>3. <<Op(x, a)>> \in Seq(Operation)
    BY <2>2
  <2> QED BY <2>1, <2>3
<1>2. ASSUME NEW op1 \in Operation, NEW op2 \in Operation, TrackedBatch(op1, op2)
      PROVE  \E ops \in Seq(Operation) : CommitWrites(ops)
  <2>1. <<op1, op2>> \in Seq(Operation)
    OBVIOUS
  <2> QED BY <1>2, <2>1 DEF TrackedBatch
<1> QED BY <1>1, <1>2 DEF UserWrite

\* The initial state is well typed.
LEMMA TypeInit == Init => TypeOK
<1> SUFFICES ASSUME Init PROVE TypeOK
  OBVIOUS
<1>1. QueueTypeOK
  BY QueueAssumption, EmptySeq DEF Init, QueueInit, QueueTypeOK, Stages
<1>2. ServiceTypeOK
  BY DEF Init, ServiceInit, ServiceTypeOK, Points, Posting
<1>3. SchedulerTypeOK
  BY DEF Init, SchedulerInit, SchedulerTypeOK
<1> QED BY <1>1, <1>2, <1>3 DEF TypeOK

\* Every step keeps every type.
LEMMA TypeStep == TypeOK /\ [Next]_vars => TypeOK'
<1> SUFFICES ASSUME TypeOK, [Next]_vars PROVE TypeOK'
  OBVIOUS
<1> USE DEF TypeOK
<1>1. CASE UserWrite
  <2>1. QueueTypeOK'
    BY <1>1, WriteCommits, QueueTypeWrite
  <2> QED BY <1>1, <2>1 DEF UserWrite, serviceVars, runVars, storeVars, serverVars,
          schedulerVars, ServiceTypeOK, SchedulerTypeOK
<1>2. CASE EnqueueThrows
  <2>1. QueueTypeOK'
    BY <1>2, HeadJob DEF EnqueueThrows, EnqueueFails, QueueTypeOK, Stages
  <2> QED BY <1>2, <2>1 DEF EnqueueThrows, Fault, runVars, storeVars, serverVars,
          schedulerVars, ServiceTypeOK, SchedulerTypeOK
<1>3. ASSUME NEW c \in Changes, Enqueue(c) PROVE TypeOK'
  <2>1. QueueTypeOK'
    BY <1>3, QueueTypeRows DEF Enqueue
  <2>2. RowsReported(c) \in Nat
    BY <1>3, HeadJob DEF RowsReported, Enqueue, EnqueueChange, IsNextRow
  <2> HIDE DEF RowsReported
  <2> QED BY <1>3, <2>1, <2>2 DEF Enqueue, runVars, serverVars,
          schedulerVars, ServiceTypeOK, SchedulerTypeOK
<1>4. ASSUME NEW c \in Changes, Purge(c) PROVE TypeOK'
  <2>1. QueueTypeOK'
    BY <1>4, QueueTypeRows DEF Purge
  <2> QED BY <1>4, <2>1 DEF Purge, serviceVars, runVars, storeVars, serverVars,
          schedulerVars, ServiceTypeOK, SchedulerTypeOK
<1>5. CASE Crash
  <2>1. QueueTypeOK'
    BY <1>5 DEF Crash, QueueCrash, QueueTypeOK, Stages
  <2> QED BY <1>5, <2>1, ServiceTypeCrash DEF Crash, SchedulerCrash, SchedulerTypeOK
<1>6. ASSUME NEW r \in Runs, PerformSync(r), SchedulerTypeOK' PROVE TypeOK'
  BY <1>6, ServiceTypeStart DEF PerformSync, queueVars, QueueTypeOK
<1>7. CASE ServiceStep
  <2>1. SchedulerTypeOK'
    BY <1>7 DEF ServiceStep, schedulerVars, SchedulerTypeOK
  <2>2. ASSUME NEW r \in Runs, RunStep(r) PROVE TypeOK'
    BY <2>1, <2>2, QueueTypeRun, ServiceTypeRun
  <2>3. ASSUME NEW c \in Changes, LateArrival(c) PROVE TypeOK'
    <3>1. ServiceTypeOK'
      BY <2>3, ServiceTypeDeliver DEF LateArrival, runVars, storeVars, queueVars,
         ServiceTypeOK
    <3> QED BY <2>1, <2>3, <3>1 DEF LateArrival, queueVars, QueueTypeOK
  <2> QED BY <1>6, <1>7, <2>1, <2>2, <2>3 DEF ServiceStep, ManualTrigger
<1>8. CASE SchedulerStep
  <2>1. SchedulerTypeOK'
    BY <1>8 DEF SchedulerStep, IntervalTick, HandleAppStateChange, DebounceFires,
       StartScheduler, StartSyncScheduler, HandleConnectivityChange, StopSyncScheduler,
       GapElapses, Attempt, NoAttempt, SchedulerTypeOK
  <2>2. CASE \E r \in Runs : PerformSync(r)
    BY <1>6, <2>1, <2>2
  <2>3. CASE UNCHANGED <<serviceVars, queueVars>>
    BY <2>1, <2>3 DEF serviceVars, runVars, storeVars, serverVars, queueVars,
       ServiceTypeOK, QueueTypeOK
  <2> QED BY <1>8, <2>2, <2>3 DEF SchedulerStep, IntervalTick, HandleAppStateChange,
          DebounceFires, StartScheduler, StartSyncScheduler, HandleConnectivityChange,
          StopSyncScheduler, GapElapses, Attempt, NoAttempt
<1>9. CASE UNCHANGED vars
  BY <1>9 DEF vars, serviceVars, runVars, storeVars, serverVars, queueVars, schedulerVars,
     QueueTypeOK, ServiceTypeOK, SchedulerTypeOK
<1> QED BY <1>1, <1>2, <1>3, <1>4, <1>5, <1>7, <1>8, <1>9 DEF Next

\* Every variable keeps its type in every behaviour.
THEOREM TypeCorrect == Spec => []TypeOK
BY TypeInit, TypeStep, PTL DEF Spec

-----------------------------------------------------------------------------
(* The inductive invariant, part by part. *)

\* Every step of the engine, by the part of the program that takes it; what
\* the scheduler adds to a PerformSync concerns its own variables alone.
LEMMA StepCases ==
  ASSUME [Next]_vars
  PROVE  \/ UserWrite \/ EnqueueThrows \/ Crash
         \/ \E c \in Changes : Enqueue(c) \/ Purge(c) \/ LateArrival(c)
         \/ \E r \in Runs : RunStep(r) \/ PerformSync(r)
         \/ UNCHANGED <<serviceVars, queueVars>>
<1>1. CASE SchedulerStep
  BY <1>1 DEF SchedulerStep, IntervalTick, HandleAppStateChange, DebounceFires, StartScheduler,
     StartSyncScheduler, HandleConnectivityChange, StopSyncScheduler, GapElapses, Attempt,
     NoAttempt
<1>2. CASE ServiceStep
  BY <1>2 DEF ServiceStep, ManualTrigger
<1>3. CASE UNCHANGED vars
  BY <1>3 DEF vars
<1> QED BY <1>1, <1>2, <1>3 DEF Next

\* The changes that the caller at the head of the line waits to insert.
LEMMA HeadWritten ==
  ASSUME TypeOK, JobsInv, jobs # <<>>
  PROVE  \A c \in Head(jobs).ids : c \in Changes /\ stage[c] = "written"
<1>1. Head(jobs) = jobs[1] /\ 1 \in 1..Len(jobs)
  BY EmptySeq, LenProperties, HeadTailProperties DEF TypeOK, QueueTypeOK
<1>2. Head(jobs).ids \subseteq Changes
  BY HeadJob DEF TypeOK
<1> QED BY <1>1, <1>2 DEF JobsInv, NoStrandedChange

\* A user's write turns unborn changes into written or local ones.
LEMMA WriteEffect ==
  ASSUME TypeOK, JobsInv, UserWrite
  PROVE  /\ stage' \in [Changes -> Stages]
         /\ \A c \in Changes : stage'[c] # stage[c] =>
              stage[c] = "unborn" /\ stage'[c] \in {"written", "local"}
         /\ UNCHANGED <<attempts, createdAt, clock, serviceVars>>
<1>1. PICK ops \in Seq(Operation) : CommitWrites(ops)
  BY WriteCommits
<1>2. UNCHANGED <<attempts, createdAt, clock, serviceVars>>
  BY <1>1 DEF CommitWrites, UserWrite
<1>3. stage' \in [Changes -> Stages]
  BY <1>1, QueueTypeWrite DEF TypeOK, QueueTypeOK
<1>4. Len(log) \in Nat /\ Len(ops) \in Nat
  BY LenProperties DEF TypeOK, QueueTypeOK
<1>5. ASSUME NEW c \in Changes, stage'[c] # stage[c]
      PROVE  Len(log) < c /\ stage'[c] \in {"written", "local"}
  BY <1>1, <1>5 DEF CommitWrites
<1> QED BY <1>2, <1>3, <1>4, <1>5 DEF JobsInv, Changes

-----------------------------------------------------------------------------
(* What one step can do to a row, to a request and to a run.  These effects  *)
(* are all that the parts of the invariant need to know of Next.             *)

\* A change and its row: made, inserted, given up, processed or purged.
RowMove(c) ==
  \/ stage'[c] = stage[c] /\ createdAt'[c] = createdAt[c]
  \/ /\ stage[c] = "unborn" /\ stage'[c] \in {"written", "local"}
     /\ createdAt'[c] = createdAt[c]
  \/ /\ stage[c] = "written" /\ stage'[c] = "lost"
     /\ createdAt'[c] = createdAt[c]
  \/ /\ stage[c] = "written" /\ stage'[c] = "pending"
     /\ createdAt'[c] = clock' /\ clock' > 0
  \/ /\ stage'[c] = "processed" /\ \E r \in Runs : pc[r] = "applied" /\ cur[r] = c
     /\ createdAt'[c] = createdAt[c]
  \/ /\ stage[c] = "processed" /\ stage'[c] = "purged"
     /\ \A r \in Runs : ~InHand(r, c)
     /\ createdAt'[c] = createdAt[c]

RowFrame == UNCHANGED <<stage, createdAt, clock>>

\* A run changes a row in no step but MarkProcessed.
LEMMA RowFrameRun ==
  ASSUME NEW r \in Runs, RunStep(r)
  PROVE  RowFrame \/ MarkProcessed(r)
BY DEF RunStep, RowFrame, queueVars, FetchPending, SkipDeadLetter, Post, ServerApplies,
   RequestFails, RequestTimesOut, ResponseLost, MarkProcessedFails, MarkFailed,
   MarkRowFailed, PullChanges, ReadPendingCount, FinishSync, SyncThrows

\* Every step moves every row as RowMove says.
LEMMA RowEffect ==
  ASSUME TypeOK, JobsInv, [Next]_vars
  PROVE  clock' >= clock /\ \A c \in Changes : RowMove(c)
<1> DEFINE Goal == clock' >= clock /\ \A c \in Changes : RowMove(c)
<1>1. /\ stage \in [Changes -> Stages] /\ createdAt \in [Changes -> Nat] /\ clock \in Nat
      /\ cur \in [Runs -> Changes \cup {0}]
      /\ \A r \in Runs : pc[r] \in Posting => cur[r] \in Changes
  BY DEF TypeOK, QueueTypeOK, ServiceTypeOK
<1>2. CASE RowFrame
  BY <1>1, <1>2 DEF RowMove, RowFrame
<1>3. CASE UserWrite
  BY <1>1, <1>3, WriteEffect DEF RowMove
<1>4. CASE EnqueueThrows
  BY <1>1, <1>4, HeadWritten DEF EnqueueThrows, EnqueueFails, RowMove
<1>5. CASE Crash
  BY <1>1, <1>5 DEF Crash, QueueCrash, RowMove
<1>6. ASSUME NEW c \in Changes, Enqueue(c) PROVE Goal
  BY <1>1, <1>6, HeadWritten DEF Enqueue, EnqueueChange, IsNextRow, Tick, RowMove
<1>7. ASSUME NEW c \in Changes, Purge(c) PROVE Goal
  <2>1. \A r \in Runs : ~InHand(r, c)
    BY <1>7 DEF Purge, InHand, Pushing
  <2>2. /\ stage[c] = "processed" /\ stage' = [stage EXCEPT ![c] = "purged"]
        /\ UNCHANGED <<createdAt, clock>>
    BY <1>7 DEF Purge, PurgeRow
  <2> QED BY <1>1, <2>1, <2>2 DEF RowMove
<1>8. ASSUME NEW c \in Changes, LateArrival(c) PROVE RowFrame
  BY <1>8 DEF LateArrival, queueVars, RowFrame
<1>9. ASSUME NEW r \in Runs, PerformSync(r) PROVE RowFrame
  BY <1>9 DEF PerformSync, queueVars, RowFrame
<1>10. ASSUME NEW r \in Runs, MarkProcessed(r) PROVE Goal
  <2>1. /\ pc[r] = "applied" /\ stage' = [stage EXCEPT ![cur[r]] = "processed"]
        /\ UNCHANGED <<createdAt, clock>>
    BY <1>10 DEF MarkProcessed, MarkRowProcessed
  <2> QED BY <1>1, <2>1 DEF RowMove, Posting
<1>11. CASE UNCHANGED <<serviceVars, queueVars>>
  BY <1>2, <1>11 DEF queueVars, RowFrame
<1> QED BY <1>2, <1>3, <1>4, <1>5, <1>6, <1>7, <1>8, <1>9, <1>10, <1>11, RowFrameRun, StepCases

\* A request is late after a crash only if it was late, or under way, before.
LEMMA LateAfterCrash ==
  ASSUME TypeOK, ServiceCrash, NEW c \in Changes, late'[c] > 0
  PROVE  Sent(c)
<1> DEFINE waiting == {r \in Runs : pc[r] = "wait" /\ cur[r] = c}
<1>1. late'[c] = late[c] + Cardinality(waiting)
  BY DEF ServiceCrash
<1>2. waiting = {} => Cardinality(waiting) = 0
  BY FS_EmptySet
<1>3. late[c] \in Nat
  BY DEF TypeOK, ServiceTypeOK
<1>4. late[c] > 0 \/ waiting # {}
  <2> HIDE DEF waiting
  <2> QED BY <1>1, <1>2, <1>3
<1> QED BY <1>4 DEF Sent, Pushing, Posting

\* Only a run in its loop sends something that was not sent before: the
\* oldest entry that it has left, if that has attempts left.
NewlySent(c) ==
  \E r \in Runs : pc[r] = "push" /\ IsOldest(c, todo[r]) /\ attempts[c] < MaxRetries

\* What is sent is a matter of the runs and of the server.
LEMMA SentFrame ==
  ASSUME UNCHANGED <<pc, cur, delivered, late>>, NEW c
  PROVE  Sent(c)' => Sent(c)
BY DEF Sent, Pushing, Posting

\* Whatever is sent after a step was sent before or is NewlySent.
LEMMA SentEffect ==
  ASSUME TypeOK, [Next]_vars, NEW c \in Changes, Sent(c)'
  PROVE  Sent(c) \/ NewlySent(c)
<1>1. /\ late \in [Changes -> Nat] /\ pc \in [Runs -> Points]
      /\ cur \in [Runs -> Changes \cup {0}]
      /\ \A r \in Runs : pc[r] \in Posting => cur[r] \in Changes
  BY DEF TypeOK, ServiceTypeOK
<1>2. CASE UNCHANGED <<pc, cur, delivered, late>>
  BY <1>2, SentFrame
<1>3. CASE Crash
  <2>1. delivered' = delivered /\ pc' = [r \in Runs |-> "off"]
    BY <1>3 DEF Crash, ServiceCrash
  <2>2. c \in delivered' \/ late'[c] > 0
    BY <2>1 DEF Sent, Pushing, Posting
  <2> QED BY <1>3, <2>1, <2>2, LateAfterCrash DEF Crash, Sent
<1>4. ASSUME NEW d \in Changes, LateArrival(d) PROVE Sent(c)
  BY <1>1, <1>4 DEF LateArrival, Deliver, runVars, Sent, Pushing, Posting
<1>5. ASSUME NEW r \in Runs, RunStep(r) \/ PerformSync(r) PROVE Sent(c) \/ NewlySent(c)
  <2> USE DEF Sent, Pushing, Posting, Goto
  <2>1. CASE SkipDeadLetter(r)
    BY <2>1 DEF SkipDeadLetter, serverVars
  <2>2. CASE Post(r)
    BY <1>1, <2>2 DEF Post, NewlySent, serverVars
  <2>3. CASE ServerApplies(r)
    BY <1>1, <2>3 DEF ServerApplies, Deliver
  <2>4. CASE RequestTimesOut(r)
    BY <1>1, <2>4 DEF RequestTimesOut
  <2>5. CASE RequestFails(r) \/ ResponseLost(r) \/ MarkProcessedFails(r)
    BY <1>1, <2>5 DEF RequestFails, ResponseLost, MarkProcessedFails, serverVars
  <2>6. CASE MarkProcessed(r) \/ MarkFailed(r)
    BY <1>1, <2>6 DEF MarkProcessed, MarkFailed, serverVars
  <2>7. CASE FetchPending(r) \/ PullChanges(r) \/ ReadPendingCount(r)
    BY <1>1, <2>7 DEF FetchPending, PullChanges, ReadPendingCount, serverVars
  <2>8. CASE FinishSync(r) \/ SyncThrows(r) \/ PerformSync(r)
    BY <1>1, <2>8 DEF FinishSync, SyncThrows, PerformSync, serverVars
  <2> QED BY <1>5, <2>1, <2>2, <2>3, <2>4, <2>5, <2>6, <2>7, <2>8 DEF RunStep
<1>6. CASE UserWrite \/ EnqueueThrows \/ \E d \in Changes : Enqueue(d) \/ Purge(d)
  <2>1. UNCHANGED <<pc, cur, delivered, late>>
    BY <1>6 DEF UserWrite, EnqueueThrows, Enqueue, Purge, serviceVars, runVars, serverVars
  <2> QED BY <1>2, <2>1
<1>7. CASE UNCHANGED <<serviceVars, queueVars>>
  BY <1>2, <1>7 DEF serviceVars, runVars, serverVars
<1> QED BY <1>3, <1>4, <1>5, <1>6, <1>7, StepCases

\* What a run has in its hands it had before, or has just read as pending.
LEMMA HandEffect ==
  ASSUME TypeOK, [Next]_vars, NEW r \in Runs, NEW c \in Changes, InHand(r, c)'
  PROVE  InHand(r, c) \/ (stage[c] = "pending" /\ stage'[c] = "pending")
<1>1. /\ pc \in [Runs -> Points] /\ todo \in [Runs -> SUBSET Changes]
      /\ cur \in [Runs -> Changes \cup {0}]
  BY DEF TypeOK, ServiceTypeOK
<1> USE DEF InHand, Pushing, Posting, Goto
<1>2. CASE UNCHANGED runVars
  BY <1>2 DEF runVars
<1>3. CASE Crash
  BY <1>3 DEF Crash, ServiceCrash
<1>4. ASSUME NEW s \in Runs, RunStep(s) PROVE InHand(r, c) \/ (stage[c] = "pending" /\ stage'[c] = "pending")
  <2>1. CASE FetchPending(s)
    BY <1>1, <2>1 DEF FetchPending, Pending, queueVars
  <2>2. CASE SkipDeadLetter(s)
    BY <1>1, <2>2 DEF SkipDeadLetter
  <2>3. CASE Post(s)
    BY <1>1, <2>3 DEF Post, IsOldest
  <2>4. CASE ServerApplies(s) \/ RequestFails(s) \/ RequestTimesOut(s)
    BY <1>1, <2>4 DEF ServerApplies, RequestFails, RequestTimesOut
  <2>5. CASE ResponseLost(s) \/ MarkProcessedFails(s)
    BY <1>1, <2>5 DEF ResponseLost, MarkProcessedFails
  <2>6. CASE MarkProcessed(s) \/ MarkFailed(s)
    BY <1>1, <2>6 DEF MarkProcessed, MarkFailed
  <2>7. CASE PullChanges(s) \/ ReadPendingCount(s)
    BY <1>1, <2>7 DEF PullChanges, ReadPendingCount
  <2>8. CASE FinishSync(s) \/ SyncThrows(s)
    BY <1>1, <2>8 DEF FinishSync, SyncThrows
  <2> QED BY <1>4, <2>1, <2>2, <2>3, <2>4, <2>5, <2>6, <2>7, <2>8 DEF RunStep
<1>5. ASSUME NEW s \in Runs, PerformSync(s) PROVE InHand(r, c)
  BY <1>1, <1>5 DEF PerformSync
<1>6. CASE UserWrite \/ EnqueueThrows \/ \E d \in Changes : Enqueue(d) \/ Purge(d) \/ LateArrival(d)
  <2>1. UNCHANGED runVars
    BY <1>6 DEF UserWrite, EnqueueThrows, Enqueue, Purge, LateArrival, serviceVars
  <2> QED BY <1>2, <2>1
<1>7. CASE UNCHANGED <<serviceVars, queueVars>>
  BY <1>2, <1>7 DEF serviceVars
<1> QED BY <1>3, <1>4, <1>5, <1>6, <1>7, StepCases

\* A run outside its loop has nothing left to push.
LEMMA IdleEffect ==
  ASSUME TypeOK, [Next]_vars, \A r \in Runs : pc[r] \notin Posting \cup {"push"} => todo[r] = {}
  PROVE  (\A r \in Runs : pc[r] \notin Posting \cup {"push"} => todo[r] = {})'
<1> DEFINE Idle == \A r \in Runs : pc[r] \notin Posting \cup {"push"} => todo[r] = {}
<1>1. pc \in [Runs -> Points] /\ todo \in [Runs -> SUBSET Changes]
  BY DEF TypeOK, ServiceTypeOK
<1> USE DEF Posting, Goto
<1>2. CASE UNCHANGED <<pc, todo>>
  BY <1>2
<1>3. CASE Crash
  BY <1>3 DEF Crash, ServiceCrash
<1>4. ASSUME NEW s \in Runs, RunStep(s) PROVE Idle'
  <2>1. CASE FetchPending(s) \/ SkipDeadLetter(s) \/ Post(s)
    BY <1>1, <2>1 DEF FetchPending, SkipDeadLetter, Post
  <2>2. CASE ServerApplies(s) \/ RequestFails(s) \/ RequestTimesOut(s)
    BY <1>1, <2>2 DEF ServerApplies, RequestFails, RequestTimesOut
  <2>3. CASE ResponseLost(s) \/ MarkProcessedFails(s) \/ MarkProcessed(s) \/ MarkFailed(s)
    BY <1>1, <2>3 DEF ResponseLost, MarkProcessedFails, MarkProcessed, MarkFailed
  <2>4. CASE PullChanges(s) \/ ReadPendingCount(s) \/ FinishSync(s) \/ SyncThrows(s)
    BY <1>1, <2>4 DEF PullChanges, ReadPendingCount, FinishSync, SyncThrows
  <2> QED BY <1>4, <2>1, <2>2, <2>3, <2>4 DEF RunStep
<1>5. ASSUME NEW s \in Runs, PerformSync(s) PROVE Idle'
  BY <1>1, <1>5 DEF PerformSync
<1>6. CASE UserWrite \/ EnqueueThrows \/ \E d \in Changes : Enqueue(d) \/ Purge(d) \/ LateArrival(d)
  <2>1. UNCHANGED <<pc, todo>>
    BY <1>6 DEF UserWrite, EnqueueThrows, Enqueue, Purge, LateArrival, serviceVars, runVars
  <2> QED BY <1>2, <2>1
<1>7. CASE UNCHANGED <<serviceVars, queueVars>>
  BY <1>2, <1>7 DEF serviceVars, runVars
<1> QED BY <1>3, <1>4, <1>5, <1>6, <1>7, StepCases

\* Deliveries and failures are never taken back, and only the run that has
\* the row in hand counts one.
LEMMA TriedEffect ==
  ASSUME TypeOK, [Next]_vars
  PROVE  /\ delivered \subseteq delivered'
         /\ \A c \in Changes :
              \/ attempts'[c] = attempts[c]
              \/ \E r \in Runs : /\ MarkFailed(r) /\ cur[r] = c
                                 /\ attempts'[c] = attempts[c] + 1
<1> DEFINE Goal == \A c \in Changes :
              \/ attempts'[c] = attempts[c]
              \/ \E r \in Runs : /\ MarkFailed(r) /\ cur[r] = c
                                 /\ attempts'[c] = attempts[c] + 1
<1>1. /\ attempts \in [Changes -> Nat]
      /\ \A r \in Runs : pc[r] \in Posting => cur[r] \in Changes
  BY DEF TypeOK, QueueTypeOK, ServiceTypeOK
<1>2. CASE UserWrite
  <2>1. PICK ops \in Seq(Operation) : CommitWrites(ops)
    BY <1>2, WriteCommits
  <2> QED BY <1>2, <2>1 DEF UserWrite, CommitWrites, serviceVars, serverVars
<1>3. CASE EnqueueThrows \/ Crash
  BY <1>3 DEF EnqueueThrows, EnqueueFails, Crash, QueueCrash, ServiceCrash, serverVars
<1>4. ASSUME NEW c \in Changes, Enqueue(c) \/ Purge(c) \/ LateArrival(c)
      PROVE  delivered \subseteq delivered' /\ UNCHANGED attempts
  BY <1>4 DEF Enqueue, EnqueueChange, Purge, PurgeRow, LateArrival, Deliver,
     serviceVars, serverVars, queueVars
<1>5. ASSUME NEW r \in Runs, RunStep(r) \/ PerformSync(r), ~MarkFailed(r)
      PROVE  delivered \subseteq delivered' /\ UNCHANGED attempts
  BY <1>5 DEF RunStep, PerformSync, FetchPending, SkipDeadLetter, Post, ServerApplies, Deliver,
     RequestFails, RequestTimesOut, ResponseLost, MarkProcessed, MarkRowProcessed,
     MarkProcessedFails, PullChanges, ReadPendingCount, FinishSync, SyncThrows,
     serverVars, queueVars
<1>6. ASSUME NEW r \in Runs, MarkFailed(r)
      PROVE  delivered \subseteq delivered' /\ Goal
  <2>1. /\ attempts' = [attempts EXCEPT ![cur[r]] = @ + 1]
        /\ delivered' = delivered
        /\ cur[r] \in Changes
    BY <1>1, <1>6 DEF MarkFailed, MarkRowFailed, serverVars, Posting
  <2> HIDE DEF MarkFailed
  <2> QED BY <1>1, <1>6, <2>1
<1>7. CASE UNCHANGED <<serviceVars, queueVars>>
  BY <1>7 DEF serviceVars, serverVars, queueVars
<1> QED BY <1>2, <1>3, <1>4, <1>5, <1>6, <1>7, StepCases

\* "applied" means that the server has applied the entry.
LEMMA AppliedEffect ==
  ASSUME TypeOK, [Next]_vars, NEW r \in Runs, pc'[r] = "applied"
  PROVE  (pc[r] = "applied" /\ cur'[r] = cur[r]) \/ cur'[r] \in delivered'
<1>1. pc \in [Runs -> Points] /\ cur \in [Runs -> Changes \cup {0}]
  BY DEF TypeOK, ServiceTypeOK
<1> USE DEF Goto
<1>2. CASE UNCHANGED <<pc, cur>>
  BY <1>2
<1>3. CASE Crash
  BY <1>3 DEF Crash, ServiceCrash
<1>4. ASSUME NEW s \in Runs, RunStep(s)
      PROVE  (pc[r] = "applied" /\ cur'[r] = cur[r]) \/ cur'[r] \in delivered'
  <2>1. CASE FetchPending(s) \/ SkipDeadLetter(s) \/ Post(s)
    BY <1>1, <2>1 DEF FetchPending, SkipDeadLetter, Post
  <2>2. CASE ServerApplies(s)
    BY <1>1, <2>2 DEF ServerApplies, Deliver
  <2>3. CASE RequestFails(s) \/ RequestTimesOut(s)
    BY <1>1, <2>3 DEF RequestFails, RequestTimesOut
  <2>4. CASE ResponseLost(s) \/ MarkProcessedFails(s) \/ MarkProcessed(s) \/ MarkFailed(s)
    BY <1>1, <2>4 DEF ResponseLost, MarkProcessedFails, MarkProcessed, MarkFailed
  <2>5. CASE PullChanges(s) \/ ReadPendingCount(s) \/ FinishSync(s) \/ SyncThrows(s)
    BY <1>1, <2>5 DEF PullChanges, ReadPendingCount, FinishSync, SyncThrows
  <2> QED BY <1>4, <2>1, <2>2, <2>3, <2>4, <2>5 DEF RunStep
<1>5. ASSUME NEW s \in Runs, PerformSync(s) PROVE pc[r] = "applied" /\ cur'[r] = cur[r]
  BY <1>1, <1>5 DEF PerformSync
<1>6. CASE UserWrite \/ EnqueueThrows \/ \E d \in Changes : Enqueue(d) \/ Purge(d) \/ LateArrival(d)
  <2>1. UNCHANGED <<pc, cur>>
    BY <1>6 DEF UserWrite, EnqueueThrows, Enqueue, Purge, LateArrival, serviceVars, runVars
  <2> QED BY <1>2, <2>1
<1>7. CASE UNCHANGED <<serviceVars, queueVars>>
  BY <1>2, <1>7 DEF serviceVars, runVars
<1> QED BY <1>3, <1>4, <1>5, <1>6, <1>7, StepCases

\* A run puts nothing on its list but the whole of Pending, and drops only
\* what was tried, as long as anything is left on it.
LEMMA TodoEffect ==
  ASSUME TypeOK, TypeOK', DeliveryInv, [Next]_vars, NEW r \in Runs, NEW d \in todo'[r]
  PROVE  \/ FetchPending(r)
         \/ /\ d \in todo[r]
            /\ \A c \in Changes : InHand(r, c) => InHand(r, c)' \/ Tried(c)'
<1> DEFINE Kept == /\ d \in todo[r]
                   /\ \A c \in Changes : InHand(r, c) => InHand(r, c)' \/ Tried(c)'
<1>1. /\ pc \in [Runs -> Points] /\ todo \in [Runs -> SUBSET Changes]
      /\ cur \in [Runs -> Changes \cup {0}]
      /\ \A s \in Runs : pc[s] \in Posting => cur[s] \in Changes
  BY DEF TypeOK, ServiceTypeOK
<1>2. attempts \in [Changes -> Nat] /\ attempts' \in [Changes -> Nat] /\ MaxRetries \in Nat \ {0}
  BY ServiceAssumption DEF TypeOK, QueueTypeOK
<1> USE DEF InHand, Pushing, Posting, Goto
<1>3. CASE UNCHANGED <<pc, todo, cur>>
  BY <1>3
<1>4. CASE Crash
  BY <1>4 DEF Crash, ServiceCrash
<1>5. ASSUME NEW s \in Runs, RunStep(s), s # r PROVE Kept
  <2>1. pc'[r] = pc[r] /\ todo'[r] = todo[r] /\ cur'[r] = cur[r]
    BY <1>1, <1>5 DEF RunStep, FetchPending, SkipDeadLetter, Post, ServerApplies, RequestFails,
       RequestTimesOut, ResponseLost, MarkProcessed, MarkProcessedFails, MarkFailed,
       PullChanges, ReadPendingCount, FinishSync, SyncThrows
  <2> QED BY <2>1
<1>6. CASE SkipDeadLetter(r)
  BY <1>1, <1>2, <1>6 DEF SkipDeadLetter, Tried, queueVars
<1>7. CASE Post(r)
  BY <1>1, <1>7 DEF Post
<1>8. CASE ServerApplies(r) \/ RequestFails(r) \/ RequestTimesOut(r) \/ ResponseLost(r) \/ MarkProcessedFails(r)
  BY <1>1, <1>8 DEF ServerApplies, RequestFails, RequestTimesOut, ResponseLost, MarkProcessedFails
<1>9. CASE MarkProcessed(r)
  BY <1>1, <1>9 DEF MarkProcessed, DeliveryInv, Tried, serverVars
<1>10. CASE MarkFailed(r)
  BY <1>1, <1>2, <1>10 DEF MarkFailed, MarkRowFailed, Tried
<1>11. CASE PullChanges(r) \/ ReadPendingCount(r) \/ FinishSync(r)
  BY <1>1, <1>11 DEF PullChanges, ReadPendingCount, FinishSync
<1>12. CASE SyncThrows(r)
  BY <1>1, <1>12 DEF SyncThrows
<1>13. ASSUME NEW s \in Runs, PerformSync(s) PROVE Kept
  BY <1>1, <1>13 DEF PerformSync
<1>14. CASE UserWrite \/ EnqueueThrows \/ \E c \in Changes : Enqueue(c) \/ Purge(c) \/ LateArrival(c)
  <2>1. UNCHANGED <<pc, todo, cur>>
    BY <1>14 DEF UserWrite, EnqueueThrows, Enqueue, Purge, LateArrival, serviceVars, runVars
  <2> QED BY <1>3, <2>1
<1>15. CASE UNCHANGED <<serviceVars, queueVars>>
  BY <1>3, <1>15 DEF serviceVars, runVars
<1>16. ASSUME RunStep(r) PROVE FetchPending(r) \/ Kept
  BY <1>6, <1>7, <1>8, <1>9, <1>10, <1>11, <1>12, <1>16 DEF RunStep
<1> QED BY <1>4, <1>5, <1>13, <1>14, <1>15, <1>16, StepCases

-----------------------------------------------------------------------------
(* The parts of the invariant. *)

\* Every step keeps rows, numbers and what runs hold in accord.
LEMMA RowsStep ==
  ASSUME TypeOK, TypeOK', RowsInv, JobsInv, [Next]_vars
  PROVE  RowsInv'
<1>1. /\ createdAt \in [Changes -> Nat] /\ createdAt' \in [Changes -> Nat]
      /\ clock \in Nat /\ clock' \in Nat
  BY DEF TypeOK, QueueTypeOK
<1>2. clock' >= clock /\ \A c \in Changes : RowMove(c)
  BY RowEffect
<1>3. \A r \in Runs, c \in Changes : pc[r] = "applied" /\ cur[r] = c => InHand(r, c)
  BY DEF InHand, Pushing, Posting
<1>4. \A c \in Changes : (HasRow(c) <=> stage[c] \in {"pending", "processed", "purged"})'
  BY <1>1, <1>2, <1>3 DEF RowMove, RowsInv, HasRow
<1>5. \A c \in Changes : createdAt'[c] <= clock'
  BY <1>1, <1>2 DEF RowMove, RowsInv
<1>6. ASSUME NEW c \in Changes, HasRow(c) PROVE HasRow(c)'
  BY <1>2, <1>4, <1>6 DEF RowMove, RowsInv
<1>7. ASSUME NEW c \in Changes, Sent(c)' PROVE HasRow(c)'
  <2>1. CASE Sent(c)
    BY <1>6, <2>1 DEF RowsInv
  <2>2. CASE NewlySent(c)
    <3>1. PICK r \in Runs : InHand(r, c)
      BY <2>2 DEF NewlySent, IsOldest, InHand
    <3> QED BY <1>6, <3>1 DEF RowsInv
  <2> QED BY <1>7, <2>1, <2>2, SentEffect
<1>8. ASSUME NEW r \in Runs, NEW c \in Changes, InHand(r, c)'
      PROVE  stage'[c] \in {"pending", "processed"}
  <2>1. CASE InHand(r, c)
    BY <1>2, <2>1 DEF RowMove, RowsInv
  <2> QED BY <1>8, <2>1, HandEffect
<1>9. \A r \in Runs : (pc[r] \notin Posting \cup {"push"} => todo[r] = {})'
  BY IdleEffect DEF RowsInv
<1> QED BY <1>4, <1>5, <1>7, <1>8, <1>9 DEF RowsInv

\* Every step marks processed only what was delivered.
LEMMA DeliveryStep ==
  ASSUME TypeOK, TypeOK', RowsInv, JobsInv, DeliveryInv, [Next]_vars
  PROVE  DeliveryInv'
<1>1. delivered \subseteq delivered'
  BY TriedEffect
<1>2. SettledWasDelivered'
  <2> SUFFICES ASSUME NEW c \in Changes, stage'[c] \in {"processed", "purged"}
               PROVE  c \in delivered
    BY <1>1 DEF SettledWasDelivered
  <2> QED BY RowEffect DEF RowMove, DeliveryInv, SettledWasDelivered
<1>3. ASSUME NEW r \in Runs, pc'[r] = "applied" PROVE cur'[r] \in delivered'
  BY <1>1, <1>3, AppliedEffect DEF DeliveryInv
<1> QED BY <1>2, <1>3 DEF DeliveryInv

\* The older rows of something sent have been tried; when a run sends its
\* oldest entry, they are not in its hands any more.
LEMMA OrderStep ==
  ASSUME TypeOK, TypeOK', RowsInv, RowsInv', JobsInv, DeliveryInv, OrderInv, [Next]_vars
  PROVE  OrderInv'
<1>1. /\ createdAt \in [Changes -> Nat] /\ createdAt' \in [Changes -> Nat]
      /\ attempts \in [Changes -> Nat] /\ attempts' \in [Changes -> Nat]
      /\ clock \in Nat
      /\ pc \in [Runs -> Points] /\ todo \in [Runs -> SUBSET Changes]
  BY DEF TypeOK, QueueTypeOK, ServiceTypeOK
<1>2. \A c \in Changes : Tried(c) => Tried(c)'
  BY <1>1, TriedEffect DEF Tried
<1>3. ASSUME NEW c \in Changes, NEW d \in Changes, HasRow(d), Older(c, d)'
      PROVE  Older(c, d)
  <2>1. createdAt'[d] = createdAt[d]
    BY <1>3, RowEffect DEF RowMove, RowsInv
  <2>2. createdAt'[c] = createdAt[c] \/ createdAt'[c] >= clock
    BY RowEffect DEF RowMove
  <2>3. createdAt[d] <= clock
    BY DEF RowsInv
  <2> QED BY <1>1, <1>3, <2>1, <2>2, <2>3 DEF Older, HasRow
<1>4. ASSUME NEW c \in Changes, NEW d \in Changes, Sent(d)', Older(c, d)'
      PROVE  Tried(c)'
  <2>1. CASE Sent(d)
    BY <1>2, <1>3, <1>4, <2>1 DEF RowsInv, OrderInv
  <2>2. CASE NewlySent(d)
    <3>1. PICK r \in Runs : pc[r] = "push" /\ IsOldest(d, todo[r])
      BY <2>2 DEF NewlySent
    <3>2. d \in todo[r] /\ HasRow(d)
      BY <3>1 DEF IsOldest, RowsInv, InHand
    <3>3. Older(c, d)
      BY <1>3, <1>4, <3>2
    <3>4. ~InHand(r, c)
      BY <1>1, <3>1, <3>3 DEF IsOldest, Older, InHand, Pushing, Posting
    <3> QED BY <1>2, <3>2, <3>3, <3>4 DEF OrderInv
  <2> QED BY <1>4, <2>1, <2>2, SentEffect
<1>5. ASSUME NEW r \in Runs, NEW d \in todo'[r], NEW c \in Changes, Older(c, d)'
      PROVE  InHand(r, c)' \/ Tried(c)'
  <2>1. d \in Changes
    BY <1>5 DEF TypeOK, ServiceTypeOK
  <2>2. CASE d \in todo[r] /\ (InHand(r, c) => InHand(r, c)' \/ Tried(c)')
    <3>1. Older(c, d)
      BY <1>3, <1>5, <2>1, <2>2 DEF RowsInv, InHand
    <3> QED BY <1>2, <2>1, <2>2, <3>1 DEF OrderInv
  <2>3. CASE FetchPending(r)
    <3>1. todo'[r] = Pending /\ UNCHANGED <<stage, createdAt, delivered, attempts>>
      BY <1>1, <2>3 DEF FetchPending, queueVars, serverVars
    <3>2. HasRow(c)
      BY <1>5, <3>1 DEF Older, HasRow
    <3>3. c \in Pending \/ c \in delivered
      BY <3>2 DEF RowsInv, Pending, DeliveryInv, SettledWasDelivered
    <3> QED BY <3>1, <3>3 DEF InHand, Tried
  <2> QED BY <2>1, <2>2, <2>3, <1>5, TodoEffect
<1> QED BY <1>4, <1>5 DEF OrderInv

\* The line of callers as a whole: which changes wait in it.
LEMMA JobsStep ==
  ASSUME TypeOK, TypeOK', RowsInv, JobsInv, [Next]_vars
  PROVE  JobsInv'
<1> DEFINE Job == [ids : SUBSET Changes, size : Nat]
<1>1. /\ jobs \in Seq(Job) /\ jobs' \in Seq(Job) /\ Len(jobs) \in Nat
      /\ stage \in [Changes -> Stages] /\ Len(log) \in Nat
      /\ \A c \in Changes : c \in Nat
  BY LenProperties DEF TypeOK, QueueTypeOK, Changes
<1>2. /\ \A c \in Changes : stage[c] = "written" <=> \E i \in 1..Len(jobs) : c \in jobs[i].ids
      /\ \A i, j \in 1..Len(jobs) : i # j => jobs[i].ids \cap jobs[j].ids = {}
      /\ \A c \in Changes : c > Len(log) <=> stage[c] = "unborn"
  BY DEF JobsInv, NoStrandedChange
<1>3. CASE /\ UNCHANGED <<jobs, log>>
           /\ \A c \in Changes : /\ stage'[c] = "written" <=> stage[c] = "written"
                                 /\ stage'[c] = "unborn" <=> stage[c] = "unborn"
  BY <1>2, <1>3 DEF JobsInv, NoStrandedChange
<1>4. CASE UserWrite
  <2>1. PICK ops \in Seq(Operation) : CommitWrites(ops)
    BY <1>4, WriteCommits
  <2> DEFINE new  == {c \in Changes : Len(log) < c /\ c <= Len(log) + Len(ops)}
             rows == {c \in new : NeedsRow(ops[c - Len(log)])}
  <2>2. /\ log' = log \o ops
        /\ stage' = [c \in Changes |-> IF c \in rows THEN "written"
                                       ELSE IF c \in new THEN "local" ELSE stage[c]]
        /\ jobs' = IF rows = {} THEN jobs
                   ELSE Append(jobs, [ids |-> rows, size |-> Cardinality(rows)])
    BY <2>1 DEF CommitWrites
  <2>3. rows \subseteq new /\ new \subseteq Changes
    OBVIOUS
  <2>4. Len(log') = Len(log) + Len(ops) /\ Len(ops) \in Nat
    BY <2>2, ConcatProperties, LenProperties DEF TypeOK, QueueTypeOK
  <2>5. \A c \in new : stage[c] = "unborn"
    BY <1>1, <1>2
  <2>6. \A c \in Changes : c > Len(log') <=> stage'[c] = "unborn"
    BY <1>1, <1>2, <2>2, <2>3, <2>4
  <2>7. CASE rows = {}
    <3> HIDE DEF rows, new
    <3> QED BY <1>2, <2>2, <2>3, <2>5, <2>6, <2>7 DEF JobsInv, NoStrandedChange
  <2>8. CASE rows # {}
    <3> HIDE DEF rows, new
    <3> DEFINE job == [ids |-> rows, size |-> Cardinality(rows)]
    <3>1. jobs' = Append(jobs, job) /\ job.ids = rows /\ job \in Job
      BY <2>2, <2>3, <2>8, CountIsNat
    <3> HIDE DEF job
    <3>2. /\ Len(jobs') = Len(jobs) + 1 /\ jobs'[Len(jobs) + 1].ids = rows
          /\ \A i \in 1..Len(jobs) : jobs'[i] = jobs[i]
      BY <1>1, <3>1, AppendProperties
    <3>3. ASSUME NEW c \in Changes
          PROVE  stage'[c] = "written" <=> \E i \in 1..Len(jobs') : c \in jobs'[i].ids
      <4>1. c \in rows => \E i \in 1..Len(jobs') : c \in jobs'[i].ids
        BY <1>1, <3>2
      <4>2. (\E i \in 1..Len(jobs) : c \in jobs[i].ids) => \E i \in 1..Len(jobs') : c \in jobs'[i].ids
        BY <1>1, <3>2
      <4>3. ASSUME NEW i \in 1..Len(jobs'), c \in jobs'[i].ids, i # Len(jobs) + 1
            PROVE  \E j \in 1..Len(jobs) : c \in jobs[j].ids
        <5>1. i \in 1..Len(jobs)
          BY <1>1, <3>2, <4>3
        <5> QED BY <3>2, <4>3, <5>1
      <4>4. stage'[c] = "written" <=> c \in rows \/ stage[c] = "written"
        BY <2>2, <2>3, <2>5
      <4> QED BY <1>2, <3>2, <4>1, <4>2, <4>3, <4>4
    <3>4. \A i \in 1..Len(jobs) : jobs[i].ids \cap rows = {}
      BY <1>2, <2>3, <2>5
    <3>5. \A i, j \in 1..Len(jobs') : i # j => jobs'[i].ids \cap jobs'[j].ids = {}
      <4> SUFFICES ASSUME NEW i \in 1..Len(jobs'), NEW j \in 1..Len(jobs'), i # j
                   PROVE  jobs'[i].ids \cap jobs'[j].ids = {}
        OBVIOUS
      <4>1. (i \in 1..Len(jobs) \/ i = Len(jobs) + 1) /\ (j \in 1..Len(jobs) \/ j = Len(jobs) + 1)
        BY <1>1, <3>2
      <4>2. CASE i \in 1..Len(jobs) /\ j \in 1..Len(jobs)
        BY <1>2, <3>2, <4>2
      <4>3. CASE i = Len(jobs) + 1 \/ j = Len(jobs) + 1
        BY <3>2, <3>4, <4>1, <4>3
      <4> QED BY <4>1, <4>2, <4>3
    <3> QED BY <2>6, <3>3, <3>5 DEF JobsInv, NoStrandedChange
  <2> QED BY <2>7, <2>8
<1>5. ASSUME jobs # <<>>
      PROVE  /\ Len(jobs) >= 1 /\ Head(jobs) = jobs[1]
             /\ Tail(jobs) \in Seq(Job) /\ Len(Tail(jobs)) = Len(jobs) - 1
             /\ \A i \in 1..Len(jobs) - 1 : Tail(jobs)[i] = jobs[i + 1]
  BY <1>1, <1>5, HeadTailProperties, EmptySeq
<1>6. CASE EnqueueThrows
  <2>1. /\ jobs # <<>> /\ jobs' = Tail(jobs) /\ log' = log
        /\ stage' = [c \in Changes |-> IF c \in Head(jobs).ids THEN "lost" ELSE stage[c]]
    BY <1>6 DEF EnqueueThrows, EnqueueFails
  <2>2. \A i, j \in 1..Len(jobs') : i # j => jobs'[i].ids \cap jobs'[j].ids = {}
    BY <1>1, <1>2, <1>5, <2>1
  <2>3. ASSUME NEW c \in Changes
        PROVE  stage'[c] = "written" <=> \E i \in 1..Len(jobs') : c \in jobs'[i].ids
    <3>1. stage'[c] = "written" <=> stage[c] = "written" /\ c \notin jobs[1].ids
      BY <1>5, <2>1
    <3>2. ASSUME NEW i \in 1..Len(jobs), c \in jobs[i].ids, c \notin jobs[1].ids
          PROVE  i - 1 \in 1..Len(jobs') /\ c \in jobs'[i - 1].ids
      BY <1>1, <1>5, <2>1, <3>2
    <3>3. ASSUME NEW i \in 1..Len(jobs'), c \in jobs'[i].ids
          PROVE  i + 1 \in 1..Len(jobs) /\ c \in jobs[i + 1].ids /\ c \notin jobs[1].ids
      BY <1>1, <1>2, <1>5, <2>1, <3>3
    <3> QED BY <1>2, <3>1, <3>2, <3>3
  <2>4. \A c \in Changes : stage'[c] = "unborn" <=> stage[c] = "unborn"
    BY <1>1, <2>1, HeadWritten
  <2> QED BY <1>2, <2>1, <2>2, <2>3, <2>4 DEF JobsInv, NoStrandedChange
<1>7. CASE Crash
  <2>1. /\ jobs' = <<>> /\ log' = log /\ Len(jobs') = 0
        /\ stage' = [c \in Changes |-> IF stage[c] = "written" THEN "lost" ELSE stage[c]]
    BY <1>7 DEF Crash, QueueCrash
  <2> QED BY <1>2, <2>1 DEF JobsInv, NoStrandedChange
<1>8. ASSUME NEW c \in Changes, Enqueue(c) PROVE JobsInv'
  <2>1. /\ jobs # <<>> /\ log' = log /\ c \in Head(jobs).ids
        /\ stage' = [stage EXCEPT ![c] = "pending"]
        /\ jobs' = IF RowsLeft(c) = {} THEN Tail(jobs)
                   ELSE Append(Tail(jobs), [ids |-> RowsLeft(c), size |-> Head(jobs).size])
    BY <1>8 DEF Enqueue, EnqueueChange, IsNextRow
  <2>2. stage[c] = "written" /\ Head(jobs).ids \subseteq Changes /\ Head(jobs).size \in Nat
    BY <2>1, HeadWritten, HeadJob DEF TypeOK
  <2>3. RowsLeft(c) = jobs[1].ids \ {c}
    BY <1>5, <2>1 DEF RowsLeft
  <2>4. \A d \in Changes : stage'[d] = "written" <=> stage[d] = "written" /\ d # c
    BY <1>1, <2>1
  <2>5. \A d \in Changes : stage'[d] = "unborn" <=> stage[d] = "unborn"
    BY <1>1, <2>1, <2>2
  <2>6. \A i \in 2..Len(jobs) : c \notin jobs[i].ids /\ jobs[i].ids \cap jobs[1].ids = {}
    BY <1>1, <1>2, <1>5, <2>1
  <2>7. /\ Len(jobs') \in {Len(jobs) - 1, Len(jobs)}
        /\ \A i \in 1..Len(jobs) - 1 : jobs'[i] = jobs[i + 1]
        /\ Len(jobs') = Len(jobs) => jobs'[Len(jobs)].ids = RowsLeft(c)
        /\ Len(jobs') # Len(jobs) => RowsLeft(c) = {}
    <3>1. CASE RowsLeft(c) = {}
      <4>1. jobs' = Tail(jobs)
        BY <2>1, <3>1
      <4>2. Len(jobs') = Len(jobs) - 1 /\ Len(jobs) - 1 # Len(jobs)
        BY <1>1, <1>5, <2>1, <4>1
      <4> QED BY <1>5, <2>1, <3>1, <4>1, <4>2
    <3>2. CASE RowsLeft(c) # {}
      <4> DEFINE job == [ids |-> RowsLeft(c), size |-> Head(jobs).size]
      <4>1. job \in Job /\ job.ids = RowsLeft(c) /\ jobs' = Append(Tail(jobs), job)
        BY <2>1, <2>2, <3>2 DEF RowsLeft
      <4> HIDE DEF job
      <4>2. /\ Len(jobs') = Len(Tail(jobs)) + 1 /\ jobs'[Len(Tail(jobs)) + 1] = job
            /\ \A i \in 1..Len(Tail(jobs)) : jobs'[i] = Tail(jobs)[i]
        BY <1>5, <2>1, <4>1, AppendProperties
      <4> QED BY <1>1, <1>5, <2>1, <4>1, <4>2
    <3> QED BY <3>1, <3>2
  <2> DEFINE From(i) == i + 1 \in 2..Len(jobs) /\ jobs'[i] = jobs[i + 1]
  <2>8. \A i \in 1..Len(jobs') :
           From(i) \/ (i = Len(jobs) /\ jobs'[i].ids = jobs[1].ids \ {c})
    BY <1>1, <2>3, <2>7
  <2>9. \A i, j \in 1..Len(jobs') : i # j => jobs'[i].ids \cap jobs'[j].ids = {}
    <3> SUFFICES ASSUME NEW i \in 1..Len(jobs'), NEW j \in 1..Len(jobs'), i # j
                 PROVE  jobs'[i].ids \cap jobs'[j].ids = {}
      OBVIOUS
    <3>1. (From(i) \/ i = Len(jobs)) /\ (From(j) \/ j = Len(jobs))
      BY <2>8
    <3>2. CASE From(i) /\ From(j)
      <4>1. i + 1 \in 1..Len(jobs) /\ j + 1 \in 1..Len(jobs) /\ i + 1 # j + 1
        BY <1>1, <3>2
      <4> QED BY <1>2, <3>2, <4>1
    <3>3. CASE i = Len(jobs) /\ From(j)
      BY <2>3, <2>6, <2>8, <3>3
    <3>4. CASE j = Len(jobs) /\ From(i)
      BY <2>3, <2>6, <2>8, <3>4
    <3> QED BY <3>1, <3>2, <3>3, <3>4
  <2>10. ASSUME NEW d \in Changes
        PROVE  stage'[d] = "written" <=> \E i \in 1..Len(jobs') : d \in jobs'[i].ids
    <3>1. ASSUME NEW i \in 1..Len(jobs'), d \in jobs'[i].ids
          PROVE  d # c /\ \E j \in 1..Len(jobs) : d \in jobs[j].ids
      <4>1. CASE From(i)
        <5>1. i + 1 \in 1..Len(jobs)
          BY <1>1, <4>1
        <5> QED BY <2>6, <3>1, <4>1, <5>1
      <4>2. CASE jobs'[i].ids = jobs[1].ids \ {c}
        <5>1. d # c /\ d \in jobs[1].ids
          BY <3>1, <4>2
        <5> QED BY <1>1, <1>5, <2>1, <5>1
      <4> QED BY <2>8, <4>1, <4>2
    <3>2. ASSUME NEW j \in 1..Len(jobs), d \in jobs[j].ids, d # c
          PROVE  \E i \in 1..Len(jobs') : d \in jobs'[i].ids
      <4>1. CASE j = 1
        BY <1>1, <1>5, <2>1, <2>3, <2>7, <3>2, <4>1
      <4>2. CASE j # 1
        <5>1. j - 1 \in 1..Len(jobs) - 1 /\ (j - 1) + 1 = j
          BY <1>1, <4>2
        <5>2. jobs'[j - 1] = jobs[j]
          BY <2>7, <5>1
        <5>3. j - 1 \in 1..Len(jobs')
          BY <1>1, <2>7, <5>1
        <5> QED BY <3>2, <5>2, <5>3
      <4> QED BY <4>1, <4>2
    <3> QED BY <1>2, <2>4, <3>1, <3>2
  <2> QED BY <1>2, <2>1, <2>5, <2>9, <2>10 DEF JobsInv, NoStrandedChange
<1>9. ASSUME NEW r \in Runs, RunStep(r) PROVE JobsInv'
  <2>1. UNCHANGED <<jobs, log>>
    BY <1>9 DEF RunStep, queueVars, FetchPending, SkipDeadLetter, Post, ServerApplies,
       RequestFails, RequestTimesOut, ResponseLost, MarkProcessed, MarkRowProcessed,
       MarkProcessedFails, MarkFailed, MarkRowFailed, PullChanges, ReadPendingCount,
       FinishSync, SyncThrows
  <2>2. CASE RowFrame
    BY <1>3, <2>1, <2>2 DEF RowFrame
  <2>3. CASE MarkProcessed(r)
    <3>1. stage[cur[r]] \in {"pending", "processed"} /\ stage' = [stage EXCEPT ![cur[r]] = "processed"]
      BY <2>3 DEF MarkProcessed, MarkRowProcessed, RowsInv, InHand, Pushing, Posting,
                  TypeOK, ServiceTypeOK
    <3> QED BY <1>1, <1>3, <2>1, <3>1
  <2> QED BY <1>9, <2>2, <2>3, RowFrameRun
<1>10. CASE \/ \E c \in Changes : LateArrival(c)
            \/ \E r \in Runs : PerformSync(r)
            \/ UNCHANGED <<serviceVars, queueVars>>
  BY <1>3, <1>10 DEF LateArrival, PerformSync, queueVars
<1>11. ASSUME NEW c \in Changes, Purge(c) PROVE JobsInv'
  BY <1>1, <1>3, <1>11 DEF Purge, PurgeRow
<1> QED BY <1>4, <1>6, <1>7, <1>8, <1>9, <1>10, <1>11, StepCases

\* A run starts to push a row only in Post, which looks at its attempts.
LEMMA PushEffect ==
  ASSUME TypeOK, [Next]_vars, NEW r \in Runs, NEW c \in Changes, Pushing(r, c)'
  PROVE  Pushing(r, c) \/ (attempts[c] < MaxRetries /\ attempts'[c] = attempts[c])
<1>1. pc \in [Runs -> Points] /\ cur \in [Runs -> Changes \cup {0}]
  BY DEF TypeOK, ServiceTypeOK
<1> USE DEF Pushing, Posting, Goto
<1>2. CASE UNCHANGED <<pc, cur>>
  BY <1>2
<1>3. CASE Crash
  BY <1>3 DEF Crash, ServiceCrash
<1>4. ASSUME NEW s \in Runs, RunStep(s) \/ PerformSync(s), ~Post(s) PROVE Pushing(r, c)
  <2>1. CASE FetchPending(s) \/ SkipDeadLetter(s) \/ ServerApplies(s) \/ RequestFails(s)
    BY <1>1, <2>1 DEF FetchPending, SkipDeadLetter, ServerApplies, RequestFails
  <2>2. CASE RequestTimesOut(s) \/ ResponseLost(s) \/ MarkProcessedFails(s)
    BY <1>1, <2>2 DEF RequestTimesOut, ResponseLost, MarkProcessedFails
  <2>3. CASE MarkProcessed(s) \/ MarkFailed(s) \/ PullChanges(s) \/ ReadPendingCount(s)
    BY <1>1, <2>3 DEF MarkProcessed, MarkFailed, PullChanges, ReadPendingCount
  <2>4. CASE FinishSync(s) \/ SyncThrows(s) \/ PerformSync(s)
    BY <1>1, <2>4 DEF FinishSync, SyncThrows, PerformSync
  <2> QED BY <1>4, <2>1, <2>2, <2>3, <2>4 DEF RunStep
<1>5. ASSUME NEW s \in Runs, Post(s)
      PROVE  Pushing(r, c) \/ (attempts[c] < MaxRetries /\ attempts'[c] = attempts[c])
  BY <1>1, <1>5 DEF Post, queueVars
<1>6. CASE UserWrite \/ EnqueueThrows \/ \E d \in Changes : Enqueue(d) \/ Purge(d) \/ LateArrival(d)
  <2>1. UNCHANGED <<pc, cur>>
    BY <1>6 DEF UserWrite, EnqueueThrows, Enqueue, Purge, LateArrival, serviceVars, runVars
  <2> QED BY <1>2, <2>1
<1>7. CASE UNCHANGED <<serviceVars, queueVars>>
  BY <1>2, <1>7 DEF serviceVars, runVars
<1> QED BY <1>3, <1>4, <1>5, <1>6, <1>7, StepCases

\* A push turns into a failure; a new push needs an attempt that is left.
LEMMA AttemptsStep ==
  ASSUME TypeOK, TypeOK', AttemptsInv, [Next]_vars
  PROVE  AttemptsInv'
<1>1. attempts \in [Changes -> Nat] /\ attempts' \in [Changes -> Nat]
  BY DEF TypeOK, QueueTypeOK
<1>2. /\ IsFiniteSet(Runs) /\ MaxRetries \in Nat /\ Cardinality(Runs) \in Nat
      /\ \A c \in Changes : /\ Pushers(c) \subseteq Runs /\ Pushers(c)' \subseteq Runs
                            /\ IsFiniteSet(Pushers(c)) /\ Cardinality(Pushers(c)) \in Nat
                            /\ IsFiniteSet(Pushers(c)') /\ Cardinality(Pushers(c)') \in Nat
  BY ServiceAssumption, CountIsNat DEF Pushers
<1> SUFFICES ASSUME NEW c \in Changes
             PROVE  attempts'[c] + Cardinality(Pushers(c)') < MaxRetries + Cardinality(Runs)
  BY DEF AttemptsInv
<1>3. attempts[c] + Cardinality(Pushers(c)) < MaxRetries + Cardinality(Runs)
  BY DEF AttemptsInv
<1>4. CASE attempts'[c] = attempts[c]
  <2>1. CASE Pushers(c)' \subseteq Pushers(c)
    <3>1. Cardinality(Pushers(c)') <= Cardinality(Pushers(c))
      BY <1>2, <2>1, FS_Subset
    <3> QED BY <1>1, <1>2, <1>3, <1>4, <3>1
  <2>2. CASE attempts[c] < MaxRetries
    <3>1. Cardinality(Pushers(c)') <= Cardinality(Runs)
      BY <1>2, FS_Subset
    <3> QED BY <1>1, <1>2, <1>4, <2>2, <3>1
  <2>3. Pushers(c)' \subseteq Pushers(c) \/ attempts[c] < MaxRetries
    BY PushEffect DEF Pushers
  <2> QED BY <2>1, <2>2, <2>3
<1>5. ASSUME NEW r \in Runs, MarkFailed(r), cur[r] = c, attempts'[c] = attempts[c] + 1
      PROVE  attempts'[c] + Cardinality(Pushers(c)') < MaxRetries + Cardinality(Runs)
  <2>1. pc \in [Runs -> Points] /\ cur \in [Runs -> Changes \cup {0}]
    BY DEF TypeOK, ServiceTypeOK
  <2>2. Pushers(c)' \subseteq Pushers(c) \ {r} /\ r \in Pushers(c)
    BY <1>5, <2>1 DEF MarkFailed, Goto, Pushers, Pushing, Posting
  <2>3. Cardinality(Pushers(c) \ {r}) = Cardinality(Pushers(c)) - 1 /\ IsFiniteSet(Pushers(c) \ {r})
    BY <1>2, <2>2, FS_RemoveElement
  <2>4. Cardinality(Pushers(c)') <= Cardinality(Pushers(c)) - 1
    BY <2>2, <2>3, FS_Subset
  <2> QED BY <1>1, <1>2, <1>3, <1>5, <2>4
<1> QED BY <1>4, <1>5, TriedEffect

\* Every step keeps the status and the runs in accord.
LEMMA AloneStep ==
  ASSUME TypeOK, AloneInv, [Next]_vars
  PROVE  AloneInv'
<1>1. pc \in [Runs -> Points]
  BY DEF TypeOK, ServiceTypeOK
<1> USE DEF AloneInv, SyncingHasRun, SchedulerRunsAlone
<1>2. CASE UNCHANGED <<pc, status>>
  BY <1>2
<1>3. CASE pc' = [r \in Runs |-> "off"] /\ status' = "idle"
  BY <1>3
<1>4. ASSUME NEW r \in Runs, NEW p, p # "off", pc[r] # "off",
             pc' = [pc EXCEPT ![r] = p], status' = status
      PROVE  AloneInv'
  BY <1>1, <1>4
<1>5. ASSUME NEW r \in Runs, pc[r] # "off",
             pc' = [pc EXCEPT ![r] = "off"], status' # "syncing"
      PROVE  AloneInv'
  BY <1>1, <1>5
<1>6. ASSUME NEW r \in Runs, "manual" \in Triggers \/ status # "syncing",
             pc' = [pc EXCEPT ![r] = "fetch"], status' = "syncing"
      PROVE  AloneInv'
  BY <1>1, <1>6
<1>7. ASSUME NEW r \in Runs, RunStep(r) PROVE AloneInv'
  <2> USE DEF Goto, storeVars
  <2>1. CASE FetchPending(r) \/ Post(r) \/ ServerApplies(r) \/ RequestFails(r) \/ RequestTimesOut(r)
    <3>1. \E p \in {"push", "wait", "applied", "nacked"} :
            pc' = [pc EXCEPT ![r] = p] /\ status' = status /\ pc[r] # "off"
      BY <2>1 DEF FetchPending, Post, ServerApplies, RequestFails, RequestTimesOut
    <3> QED BY <1>4, <3>1
  <2>2. CASE ResponseLost(r) \/ MarkProcessed(r) \/ MarkProcessedFails(r) \/ MarkFailed(r)
    <3>1. \E p \in {"push", "nacked"} :
            pc' = [pc EXCEPT ![r] = p] /\ status' = status /\ pc[r] # "off"
      BY <2>2 DEF ResponseLost, MarkProcessed, MarkProcessedFails, MarkFailed
    <3> QED BY <1>4, <3>1
  <2>3. CASE PullChanges(r) \/ ReadPendingCount(r)
    <3>1. \E p \in {"count", "finish"} :
            pc' = [pc EXCEPT ![r] = p] /\ status' = status /\ pc[r] # "off"
      BY <2>3 DEF PullChanges, ReadPendingCount
    <3> QED BY <1>4, <3>1
  <2>4. CASE SkipDeadLetter(r)
    BY <1>2, <2>4 DEF SkipDeadLetter
  <2>5. CASE FinishSync(r) \/ SyncThrows(r)
    BY <1>5, <2>5 DEF FinishSync, SyncThrows
  <2> QED BY <1>7, <2>1, <2>2, <2>3, <2>4, <2>5 DEF RunStep
<1>8. ASSUME NEW r \in Runs, PerformSync(r), "manual" \in Triggers \/ status # "syncing"
      PROVE  AloneInv'
  BY <1>6, <1>8 DEF PerformSync, Goto
<1>9. CASE ServiceStep
  <2>1. ASSUME NEW c \in Changes, LateArrival(c) PROVE AloneInv'
    BY <1>2, <2>1 DEF LateArrival, runVars, storeVars
  <2> QED BY <1>7, <1>8, <1>9, <2>1 DEF ServiceStep, ManualTrigger
<1>10. CASE SchedulerStep
  <2>1. CASE \E r \in Runs : Attempt(r)
    BY <1>8, <2>1 DEF Attempt, MayAttempt
  <2>2. CASE UNCHANGED serviceVars
    BY <1>2, <2>2 DEF serviceVars, runVars, storeVars
  <2> QED BY <1>10, <2>1, <2>2 DEF SchedulerStep, IntervalTick, HandleAppStateChange,
          DebounceFires, StartScheduler, StartSyncScheduler, HandleConnectivityChange,
          StopSyncScheduler, GapElapses, NoAttempt
<1>11. CASE Crash
  BY <1>3, <1>11 DEF Crash, ServiceCrash
<1>12. CASE UserWrite \/ EnqueueThrows \/ \E c \in Changes : Enqueue(c) \/ Purge(c)
  <2>1. UNCHANGED <<pc, status>>
    BY <1>12 DEF UserWrite, EnqueueThrows, Enqueue, Purge, serviceVars, runVars, storeVars
  <2> QED BY <1>2, <2>1
<1>13. CASE UNCHANGED vars
  BY <1>2, <1>13 DEF vars, serviceVars, runVars, storeVars
<1> QED BY <1>9, <1>10, <1>11, <1>12, <1>13 DEF Next

-----------------------------------------------------------------------------
(* The invariant, and what follows from it. *)

\* The initial state satisfies the invariant.
LEMMA InvInit == Init => IInv
<1> SUFFICES ASSUME Init PROVE IInv
  OBVIOUS
<1>1. TypeOK
  BY TypeInit
<1>2. /\ stage = [c \in Changes |-> "unborn"] /\ attempts = [c \in Changes |-> 0]
      /\ createdAt = [c \in Changes |-> 0] /\ clock = 0 /\ jobs = <<>> /\ log = <<>>
      /\ pc = [r \in Runs |-> "off"] /\ todo = [r \in Runs |-> {}]
      /\ delivered = {} /\ late = [c \in Changes |-> 0] /\ status = "idle"
  BY DEF Init, QueueInit, ServiceInit
<1>3. \A c \in Changes : ~Sent(c) /\ ~HasRow(c)
  BY <1>2 DEF Sent, Pushing, Posting, HasRow
<1>4. RowsInv
  BY <1>2, <1>3 DEF RowsInv, HasRow, InHand, Pushing, Posting
<1>5. JobsInv
  <2>1. Len(jobs) = 0 /\ Len(log) = 0 /\ \A c \in Changes : c > 0
    BY <1>2 DEF Changes
  <2> QED BY <1>2, <2>1 DEF JobsInv, NoStrandedChange
<1>6. DeliveryInv
  BY <1>2 DEF DeliveryInv, SettledWasDelivered
<1>7. OrderInv
  BY <1>2, <1>3 DEF OrderInv
<1>8. AttemptsInv
  <2>1. \A c \in Changes : Pushers(c) = {}
    BY <1>2 DEF Pushers, Pushing, Posting
  <2>2. Cardinality(Runs) \in Nat
    BY CountIsNat
  <2>3. Cardinality({}) = 0
    BY FS_EmptySet
  <2>4. MaxRetries \in Nat /\ MaxRetries > 0
    BY ServiceAssumption
  <2>5. ASSUME NEW c \in Changes
        PROVE  attempts[c] = 0 /\ Cardinality(Pushers(c)) = 0
    BY <1>2, <2>1, <2>3
  <2>6. 0 + 0 < MaxRetries + Cardinality(Runs)
    BY <2>2, <2>4
  <2> QED BY <2>5, <2>6 DEF AttemptsInv
<1>9. AloneInv
  BY <1>2 DEF AloneInv, SyncingHasRun, SchedulerRunsAlone
<1> QED BY <1>1, <1>4, <1>5, <1>6, <1>7, <1>8, <1>9 DEF IInv

\* Every step preserves the invariant.
LEMMA InvStep == IInv /\ [Next]_vars => IInv'
<1> SUFFICES ASSUME IInv, [Next]_vars PROVE IInv'
  OBVIOUS
<1> USE DEF IInv
<1>1. TypeOK'
  BY TypeStep
<1>2. RowsInv'
  BY <1>1, RowsStep
<1>3. JobsInv'
  BY <1>1, JobsStep
<1>4. DeliveryInv'
  BY <1>1, DeliveryStep
<1>5. OrderInv'
  BY <1>1, <1>2, OrderStep
<1>6. AttemptsInv'
  BY <1>1, AttemptsStep
<1>7. AloneInv'
  BY AloneStep
<1> QED BY <1>1, <1>2, <1>3, <1>4, <1>5, <1>6, <1>7

\* The invariant holds in every reachable state.
THEOREM InvariantHolds == Spec => []IInv
BY InvInit, InvStep, PTL DEF Spec

\* No crash, lost answer or overlap settles a change that the server does
\* not have.
THEOREM SettledIsSafe == Spec => []SettledWasDelivered
<1>1. IInv => SettledWasDelivered
  BY DEF IInv, DeliveryInv
<1> QED BY <1>1, InvariantHolds, PTL

\* Rows overtake each other on the way to the server only after a failure.
THEOREM OrderIsKept == Spec => []OvertakenOnlyAfterFailure
<1>1. IInv => OvertakenOnlyAfterFailure
  BY DEF IInv, OrderInv, OvertakenOnlyAfterFailure, Sent, Older, HasRow, Tried
<1> QED BY <1>1, InvariantHolds, PTL

\* Overlapping runs exceed SYNC_MAX_RETRIES by less than their number.
THEOREM RetriesAreBounded == Spec => []AttemptsBounded
<1>1. IInv => AttemptsBounded
  <2> SUFFICES ASSUME IInv, NEW c \in Changes
               PROVE  attempts[c] < MaxRetries + Cardinality(Runs)
    BY DEF AttemptsBounded
  <2>1. attempts[c] + Cardinality(Pushers(c)) < MaxRetries + Cardinality(Runs)
    BY DEF IInv, AttemptsInv
  <2>2. Cardinality(Pushers(c)) \in Nat /\ Cardinality(Runs) \in Nat
    BY CountIsNat DEF Pushers
  <2>3. attempts[c] \in Nat /\ MaxRetries \in Nat
    BY ServiceAssumption DEF IInv, TypeOK, QueueTypeOK
  <2> QED BY <2>1, <2>2, <2>3
<1> QED BY <1>1, InvariantHolds, PTL

\* The store never says "syncing" with no run to take it back.
THEOREM StatusIsLive == Spec => []SyncingHasRun
<1>1. IInv => SyncingHasRun
  BY DEF IInv, AloneInv
<1> QED BY <1>1, InvariantHolds, PTL

\* Every committed change without a row has one caller that will insert it.
THEOREM NothingStranded == Spec => []NoStrandedChange
<1>1. IInv => NoStrandedChange
  BY DEF IInv, JobsInv
<1> QED BY <1>1, InvariantHolds, PTL

\* The status check of attemptSync is a lock among the scheduler's runs.
THEOREM SchedulerIsExclusive == Spec => []SchedulerRunsAlone
<1>1. IInv => SchedulerRunsAlone
  BY DEF IInv, AloneInv
<1> QED BY <1>1, InvariantHolds, PTL

\* A dead letter stays one, whatever runs, purges and crashes do.
THEOREM DeadLettersAreForever == Spec => DeadLettersStay
<1>1. ASSUME TypeOK, JobsInv, [Next]_vars, NEW c \in Changes, DeadLetter(c)
      PROVE  DeadLetter(c)'
  <2>1. \A r \in Runs : ~Pushing(r, c)
    BY <1>1 DEF DeadLetter, Pushing
  <2>2. stage'[c] = "pending"
    BY <1>1, <2>1, RowEffect DEF RowMove, DeadLetter, Pushing, Posting
  <2>3. attempts'[c] >= MaxRetries
    <3>1. attempts[c] \in Nat /\ MaxRetries \in Nat
      BY <1>1, ServiceAssumption DEF TypeOK, QueueTypeOK
    <3> QED BY <1>1, <3>1, TriedEffect DEF DeadLetter
  <2>4. ASSUME NEW r \in Runs PROVE ~Pushing(r, c)'
    <3>1. attempts[c] \in Nat /\ MaxRetries \in Nat
      BY <1>1, ServiceAssumption DEF TypeOK, QueueTypeOK
    <3> QED BY <1>1, <2>1, <3>1, PushEffect DEF DeadLetter
  <2> QED BY <2>2, <2>3, <2>4 DEF DeadLetter, Pushing
<1>2. IInv /\ [Next]_vars => [\A c \in Changes : DeadLetter(c) => DeadLetter(c)']_vars
  BY <1>1 DEF IInv
<1> QED BY <1>2, InvariantHolds, PTL DEF Spec, DeadLettersStay

-----------------------------------------------------------------------------
(* The engine implements the durable outbox. *)

\* Every stage has its abstract state.
LEMMA OutboxStateType == \A st \in Stages : OutboxState(st) \in Outbox!OutboxStates
BY DEF OutboxState, Stages, Outbox!OutboxStates

\* Changes move as the abstract specification says when their stages do.
LEMMA OutboxMove ==
  ASSUME TypeOK, TypeOK', delivered' = delivered, NEW from, NEW to,
         \A c \in Changes : stage'[c] # stage[c] =>
            OutboxState(stage[c]) = from /\ OutboxState(stage'[c]) \in to
  PROVE  Outbox!Moves(from, to)
<1>1. stage \in [Changes -> Stages] /\ stage' \in [Changes -> Stages]
  BY DEF TypeOK, QueueTypeOK
<1>2. [c \in Changes |-> OutboxState(stage'[c])] \in [Changes -> Outbox!OutboxStates]
  BY <1>1, OutboxStateType
<1> QED BY <1>2 DEF Outbox!Moves

\* Every step of the engine is a step of the outbox or a stutter.
LEMMA OutboxStep ==
  ASSUME IInv, IInv', [Next]_vars
  PROVE  [Outbox!OutboxNext]_(Outbox!outboxVars)
<1>1. /\ TypeOK /\ TypeOK' /\ RowsInv /\ JobsInv /\ DeliveryInv
      /\ stage \in [Changes -> Stages] /\ stage' \in [Changes -> Stages]
  BY DEF IInv, TypeOK, QueueTypeOK
<1>2. CASE RowFrame /\ delivered' = delivered
  BY <1>2 DEF RowFrame, Outbox!outboxVars
<1>3. CASE UserWrite
  <2>1. delivered' = delivered
    BY <1>3 DEF UserWrite, serviceVars, serverVars
  <2>2. Outbox!Draft
    BY <1>1, <1>3, <2>1, WriteEffect, OutboxMove DEF Outbox!Draft, OutboxState
  <2> QED BY <2>2 DEF Outbox!OutboxNext
<1>4. CASE EnqueueThrows \/ Crash
  <2>1. delivered' = delivered
    BY <1>4 DEF EnqueueThrows, Crash, ServiceCrash, serverVars
  <2>2. \A c \in Changes : stage'[c] # stage[c] => stage[c] = "written" /\ stage'[c] = "lost"
    BY <1>1, <1>4, HeadWritten DEF EnqueueThrows, EnqueueFails, Crash, QueueCrash
  <2>3. Outbox!Forget
    BY <1>1, <2>1, <2>2, OutboxMove DEF Outbox!Forget, OutboxState
  <2> QED BY <2>3 DEF Outbox!OutboxNext
<1>5. ASSUME NEW c \in Changes, Enqueue(c) PROVE Outbox!OutboxNext
  <2>1. delivered' = delivered /\ stage' = [stage EXCEPT ![c] = "pending"] /\ stage[c] = "written"
    BY <1>1, <1>5, HeadWritten DEF Enqueue, EnqueueChange, IsNextRow, serverVars
  <2>2. Outbox!Owe
    BY <1>1, <2>1, OutboxMove DEF Outbox!Owe, OutboxState
  <2> QED BY <2>2 DEF Outbox!OutboxNext
<1>6. ASSUME NEW c \in Changes, Purge(c) PROVE UNCHANGED Outbox!outboxVars
  <2>1. /\ delivered' = delivered
        /\ stage' = [stage EXCEPT ![c] = "purged"] /\ stage[c] = "processed"
    BY <1>6 DEF Purge, PurgeRow, serviceVars, serverVars
  <2>2. \A d \in Changes : OutboxState(stage'[d]) = OutboxState(stage[d])
    BY <1>1, <2>1 DEF OutboxState
  <2> QED BY <2>1, <2>2 DEF Outbox!outboxVars
<1>7. ASSUME NEW c \in Changes, Sent(c), UNCHANGED stage, delivered' = delivered \cup {c}
      PROVE  Outbox!OutboxNext
  <2>1. stage[c] \in {"pending", "processed", "purged"}
    BY <1>1, <1>7 DEF RowsInv
  <2>2. OutboxState(stage[c]) \in {"owed", "settled"}
    BY <2>1 DEF OutboxState
  <2>3. Outbox!Receive
    BY <1>7, <2>2 DEF Outbox!Receive
  <2> QED BY <2>3 DEF Outbox!OutboxNext
<1>8. ASSUME NEW c \in Changes, LateArrival(c) PROVE Outbox!OutboxNext
  BY <1>7, <1>8 DEF LateArrival, Deliver, Sent, queueVars
<1>9. ASSUME NEW r \in Runs, ServerApplies(r) PROVE Outbox!OutboxNext
  <2>1. cur[r] \in Changes /\ Sent(cur[r])
    BY <1>1, <1>9 DEF ServerApplies, Sent, Pushing, Posting, TypeOK, ServiceTypeOK
  <2> QED BY <1>7, <1>9, <2>1 DEF ServerApplies, Deliver, queueVars
<1>10. ASSUME NEW r \in Runs, MarkProcessed(r) PROVE [Outbox!OutboxNext]_(Outbox!outboxVars)
  <2>1. /\ delivered' = delivered /\ cur[r] \in delivered /\ cur[r] \in Changes
        /\ stage' = [stage EXCEPT ![cur[r]] = "processed"]
        /\ stage[cur[r]] \in {"pending", "processed"}
    BY <1>1, <1>10 DEF MarkProcessed, MarkRowProcessed, serverVars, DeliveryInv, RowsInv,
       InHand, Pushing, Posting, TypeOK, ServiceTypeOK
  <2>2. CASE stage[cur[r]] = "processed"
    <3>1. stage' = stage
      BY <1>1, <2>1, <2>2
    <3> QED BY <2>1, <3>1 DEF Outbox!outboxVars
  <2>3. CASE stage[cur[r]] = "pending"
    <3>1. [c \in Changes |-> OutboxState(stage'[c])]
            = [[c \in Changes |-> OutboxState(stage[c])] EXCEPT ![cur[r]] = "settled"]
      <4>1. OutboxState("processed") = "settled"
        BY DEF OutboxState
      <4> QED BY <1>1, <2>1, <4>1
    <3>2. OutboxState(stage[cur[r]]) = "owed"
      BY <2>3 DEF OutboxState
    <3>3. Outbox!Settle
      BY <2>1, <3>1, <3>2 DEF Outbox!Settle
    <3> QED BY <3>3 DEF Outbox!OutboxNext
  <2> QED BY <2>1, <2>2, <2>3
<1>11. ASSUME NEW r \in Runs, RunStep(r), ~ServerApplies(r) PROVE delivered' = delivered
  BY <1>11 DEF RunStep, FetchPending, SkipDeadLetter, Post, RequestFails, RequestTimesOut,
     ResponseLost, MarkProcessed, MarkProcessedFails, MarkFailed, PullChanges,
     ReadPendingCount, FinishSync, SyncThrows, serverVars
<1>12. ASSUME NEW r \in Runs, RunStep(r) PROVE [Outbox!OutboxNext]_(Outbox!outboxVars)
  BY <1>2, <1>9, <1>10, <1>11, <1>12, RowFrameRun
<1>13. CASE (\E r \in Runs : PerformSync(r)) \/ UNCHANGED <<serviceVars, queueVars>>
  <2>1. RowFrame /\ delivered' = delivered
    BY <1>13 DEF PerformSync, RowFrame, serviceVars, serverVars, queueVars
  <2> QED BY <1>2, <2>1
<1> QED BY <1>3, <1>4, <1>5, <1>6, <1>8, <1>12, <1>13, StepCases

\* Every behaviour of the engine is one of the durable outbox: a change with
\* a row is never given up, and settled only when the server has it.
THEOREM EngineIsOutbox == Spec => ImplementsOutbox
<1>1. Init => Outbox!OutboxInit
  BY DEF Init, QueueInit, ServiceInit, Outbox!OutboxInit, OutboxState
<1>2. IInv /\ IInv' /\ [Next]_vars => [Outbox!OutboxNext]_(Outbox!outboxVars)
  BY OutboxStep
<1> QED BY <1>1, <1>2, InvariantHolds, PTL DEF Spec, ImplementsOutbox, Outbox!OutboxSpec
=============================================================================
