------------------------- MODULE PlatformSyncProofs -------------------------
(***************************************************************************)
(* Proofs about PlatformSync, for any number of slots, either platform and *)
(* any set of job types.                                                   *)
(***************************************************************************)
EXTENDS PlatformSync, TLAPS

\* TypeOK is not inductive: what a busy slot executes must be a job.
TypeInv ==
  /\ TypeOK
  /\ \A e \in Exec : pc[e] # "idle" => task[e] \in Job

-----------------------------------------------------------------------------
\* Enqueue never puts more than MaxQueue copies of a message anywhere.
LEMMA EnqueueType ==
  ASSUME NEW q \in [Job -> 0..MaxQueue], NEW j \in Job
  PROVE  /\ Enqueue(q, j) \in [Job -> 0..MaxQueue]
         /\ \A i \in Job : i # j => Enqueue(q, j)[i] = q[i]
<1>1. MaxQueue \in Nat
  BY PlatformSyncAssumption
<1>2. (IF q[j] < MaxQueue THEN q[j] + 1 ELSE q[j]) \in 0..MaxQueue
  BY <1>1
<1> QED BY <1>2 DEF Enqueue

(***************************************************************************)
(* What a step of one slot does to the slots: it moves that slot, and      *)
(* leaves the others where they are.  Every step of a run is of this form, *)
(* so the facts about types and about other slots are proved once.         *)
(***************************************************************************)
RunStep(e) ==
  \/ Return(e)
  \/ /\ UNCHANGED task
     /\ \E step \in Pc \ {"idle"} : Goto(e, step)
     /\ \/ UNCHANGED mapped
        \/ mapped' = [mapped EXCEPT ![e] = entities]
     /\ \/ UNCHANGED row
        \/ \E status \in RowStatus : row' = [row EXCEPT ![e] = status]

\* Step and Settle are RunSteps when they go where a busy slot can be.
LEMMA StepIsRunStep ==
  ASSUME NEW e \in Exec, NEW step \in Pc \ {"idle"}
  PROVE  /\ Step(e, step) => RunStep(e)
         /\ \A status \in RowStatus : Settle(e, status, step) => RunStep(e)
BY DEF Step, Settle, RunStep

\* Every step of a busy slot is a RunStep.
LEMMA EveryStepIsRunStep ==
  ASSUME NEW e \in Exec, Progress(e) \/ Faulty(e)
  PROVE  RunStep(e) /\ pc[e] # "idle"
<1>1. pc[e] # "idle"
  BY DEF Progress, Faulty, CheckFresh, AcquireLock, CreateJob, Load, CallOk,
     WriteEntities, WriteMetrics, WriteBreakdown, Finish, Kick, KickHistory,
     FinalizeFailed, FinalizeSkipped, Requeue, ReleaseLock, CreateJobFails,
     CallOverQuota, PauseConnection, RunFails, HandlerFails, ReleaseFails, KickFails,
     Crash, At
<1>2. {"lock", "insert", "load", "call", "write", "finish", "kick", "kickHistory",
       "fail", "pause", "skip", "requeue", "release", "abort"} \subseteq Pc \ {"idle"}
  BY DEF Pc
<1>3. {"running", "completed", "failed", "skipped"} \subseteq RowStatus
  BY DEF RowStatus
<1>4. CASE \/ CheckFresh(e) \/ AcquireLock(e) \/ CreateJobFails(e) \/ ReleaseLock(e)
           \/ ReleaseFails(e) \/ Crash(e)
  <2>1. Return(e) \/ Step(e, "lock") \/ Step(e, "insert")
    BY <1>4 DEF CheckFresh, AcquireLock, CreateJobFails, ReleaseLock, ReleaseFails, Crash
  <2>2. CASE Return(e)
    BY <2>2, <1>1 DEF RunStep
  <2> QED BY <1>1, <1>2, <2>1, <2>2, StepIsRunStep
<1>5. CASE CreateJob(e) \/ FinalizeFailed(e) \/ FinalizeSkipped(e)
  BY <1>1, <1>2, <1>3, <1>5, StepIsRunStep DEF CreateJob, FinalizeFailed, FinalizeSkipped
<1>6. CASE Finish(e)
  <2>1. Settle(e, "completed", "kick") \/ Settle(e, "completed", "release")
    BY <1>6 DEF Finish
  <2> QED BY <1>1, <1>2, <1>3, <2>1, StepIsRunStep
<1>7. CASE Load(e)
  <2>1. \/ Settle(e, "skipped", "release")
        \/ /\ mapped' = [mapped EXCEPT ![e] = entities]
           /\ Goto(e, "call")
           /\ UNCHANGED <<task, row>>
    BY <1>7 DEF Load
  <2>2. CASE Settle(e, "skipped", "release")
    BY <1>1, <1>2, <1>3, <2>2, StepIsRunStep
  <2> QED BY <1>1, <1>2, <2>1, <2>2 DEF RunStep
<1>8. CASE \/ CallOk(e) \/ WriteEntities(e) \/ WriteMetrics(e) \/ WriteBreakdown(e)
           \/ Kick(e) \/ KickHistory(e) \/ Requeue(e) \/ CallOverQuota(e)
           \/ PauseConnection(e) \/ RunFails(e) \/ HandlerFails(e) \/ KickFails(e)
  BY <1>1, <1>2, <1>8, StepIsRunStep
     DEF CallOk, WriteEntities, WriteMetrics, WriteBreakdown, Kick, KickHistory,
         Requeue, CallOverQuota, PauseConnection, RunFails, HandlerFails, ReleaseFails,
         KickFails
<1> QED BY <1>4, <1>5, <1>6, <1>7, <1>8 DEF Progress, Faulty

\* A RunStep keeps the types of what belongs to the run, and the other slots.
LEMMA RunStepKeepsTypes ==
  ASSUME TypeInv, NEW e \in Exec, RunStep(e), pc[e] # "idle"
  PROVE  /\ pc' \in [Exec -> Pc]
         /\ task' \in [Exec -> Job \cup {NoJob}]
         /\ mapped' \in [Exec -> BOOLEAN]
         /\ row' \in [Exec -> RowStatus]
         /\ \A f \in Exec : pc'[f] # "idle" => task'[f] \in Job
         /\ \A f \in Exec : f # e => /\ pc'[f] = pc[f] /\ task'[f] = task[f]
                                     /\ mapped'[f] = mapped[f] /\ row'[f] = row[f]
<1> USE DEF TypeInv, TypeOK
<1>1. CASE Return(e)
  <2>1. "idle" \in Pc /\ "none" \in RowStatus
    BY DEF Pc, RowStatus
  <2> QED BY <1>1, <2>1 DEF Return, Goto
<1>2. CASE ~Return(e)
  <2>1. PICK step \in Pc \ {"idle"} : Goto(e, step)
    BY <1>2 DEF RunStep
  <2>2. /\ task' = task
        /\ mapped' = mapped \/ mapped' = [mapped EXCEPT ![e] = entities]
        /\ row' = row \/ \E status \in RowStatus : row' = [row EXCEPT ![e] = status]
    BY <1>2 DEF RunStep
  <2>3. /\ pc' \in [Exec -> Pc]
        /\ \A f \in Exec : f # e => pc'[f] = pc[f]
    BY <2>1 DEF Goto
  <2>4. /\ mapped' \in [Exec -> BOOLEAN]
        /\ \A f \in Exec : f # e => mapped'[f] = mapped[f]
    BY <2>2
  <2>5. /\ row' \in [Exec -> RowStatus]
        /\ \A f \in Exec : f # e => row'[f] = row[f]
    BY <2>2
  <2> QED BY <2>2, <2>3, <2>4, <2>5
<1> QED BY <1>1, <1>2

-----------------------------------------------------------------------------
\* A busy slot's steps keep the types of what all slots share.
LEMMA SharedTypes ==
  ASSUME TypeInv, NEW e \in Exec, Progress(e) \/ Faulty(e)
  PROVE  /\ queue' \in [Job -> 0..MaxQueue]
         /\ delayed' \in [Job -> 0..MaxQueue]
         /\ lock' \in [Job -> Exec \cup {Free, Orphan}]
         /\ fresh' \in [Job -> BOOLEAN]
         /\ entities' \in BOOLEAN
         /\ metrics' \in SUBSET Insights
         /\ enabled' \in BOOLEAN
         /\ paused' \in BOOLEAN
         /\ faults' \in 0..MaxFaults
         /\ UNCHANGED inputs
<1> USE PlatformSyncAssumption DEF TypeInv, TypeOK
<1> USE DEF Progress, Faulty, CheckFresh, AcquireLock, CreateJob, Load, CallOk,
     WriteEntities, WriteMetrics, WriteBreakdown, Finish, Kick, KickHistory,
     FinalizeFailed, FinalizeSkipped, Requeue, ReleaseLock, CreateJobFails,
     CallOverQuota, PauseConnection, RunFails, HandlerFails, ReleaseFails, KickFails, Crash
<1>1. task[e] \in Job
  BY EveryStepIsRunStep
<1>2. queue' \in [Job -> 0..MaxQueue]
  <2>1. \/ queue' = queue
        \/ \E j \in Job : queue' = Enqueue(queue, j)
    BY <1>1 DEF mqVars
  <2> QED BY <2>1, EnqueueType
<1>3. delayed' \in [Job -> 0..MaxQueue]
  <2>1. delayed' = delayed \/ delayed' = Enqueue(delayed, task[e])
    BY DEF mqVars
  <2> QED BY <1>1, <2>1, EnqueueType
<1>4. lock' \in [Job -> Exec \cup {Free, Orphan}]
  <2>1. \/ lock' = lock
        \/ \E l \in Exec \cup {Free, Orphan} : lock' = [lock EXCEPT ![task[e]] = l]
    OBVIOUS
  <2> QED BY <2>1
<1>5. fresh' \in [Job -> BOOLEAN]
  <2>1. \/ fresh' = fresh
        \/ fresh' = [fresh EXCEPT ![task[e]] = TRUE]
        \/ fresh' = [fresh EXCEPT ![task[e]] = FALSE]
    BY DEF dbVars
  <2> QED BY <2>1
<1>6. /\ entities' \in BOOLEAN
      /\ enabled' = enabled
      /\ paused' \in BOOLEAN
      /\ UNCHANGED inputs
  <2>1. entities' = entities \/ entities' = TRUE
    BY DEF dbVars
  <2>2. paused' = paused \/ paused' = TRUE
    OBVIOUS
  <2>3. enabled' = enabled /\ UNCHANGED inputs
    BY DEF dbVars
  <2> QED BY <2>1, <2>2, <2>3
<1>7. metrics' \in SUBSET Insights
  <2>1. metrics' = metrics \/ (task[e] \in Insights /\ metrics' = metrics \cup {task[e]})
    BY DEF dbVars
  <2> QED BY <2>1
<1>8. faults' \in 0..MaxFaults
  <2>1. faults' = faults \/ (faults < MaxFaults /\ faults' = faults + 1)
    BY DEF Fault
  <2> QED BY <2>1
<1> QED BY <1>2, <1>3, <1>4, <1>5, <1>6, <1>7, <1>8

\* A step that belongs to no run: a delivery, a timer, Beat, or a user.
Outside ==
  \/ \E j \in Job : \/ Beat(j) \/ Trigger(j) \/ CountdownOver(j)
                    \/ LockExpires(j) \/ GoStale(j)
                    \/ \E e \in Exec : Deliver(e, j)
  \/ PauseOver \/ Disconnect \/ Reconnect

\* These steps keep every type.
LEMMA OutsideKeepsTypes ==
  ASSUME TypeInv, Outside
  PROVE  TypeInv'
<1> USE PlatformSyncAssumption DEF TypeInv, TypeOK
<1>1. ASSUME NEW j \in Job, Beat(j) \/ Trigger(j) \/ CountdownOver(j) PROVE TypeInv'
  <2>1. queue' \in [Job -> 0..MaxQueue]
    BY <1>1, EnqueueType DEF Beat, Trigger, CountdownOver
  <2>2. delayed' \in [Job -> 0..MaxQueue]
    BY <1>1 DEF Beat, Trigger, CountdownOver
  <2>3. byHand' \in BOOLEAN /\ platform' = platform
    BY <1>1 DEF Beat, Trigger, CountdownOver, inputs
  <2> QED
    BY <1>1, <2>1, <2>2, <2>3 DEF Beat, Trigger, CountdownOver, runVars, dbVars
<1>2. ASSUME NEW j \in Job, LockExpires(j) \/ GoStale(j) PROVE TypeInv'
  BY <1>2 DEF LockExpires, GoStale, inputs, runVars, mqVars, dbVars
<1>3. ASSUME NEW j \in Job, NEW e \in Exec, Deliver(e, j) PROVE TypeInv'
  <2>1. queue' \in [Job -> 0..MaxQueue]
    BY <1>3 DEF Deliver
  <2>2. /\ task' \in [Exec -> Job \cup {NoJob}]
        /\ pc' \in [Exec -> Pc]
        /\ \A f \in Exec : pc'[f] # "idle" => task'[f] \in Job
    BY <1>3 DEF Deliver, Goto, Pc
  <2> QED BY <1>3, <2>1, <2>2 DEF Deliver, inputs, dbVars
<1>4. CASE PauseOver \/ Disconnect \/ Reconnect
  <2>1. queue' \in [Job -> 0..MaxQueue]
    BY <1>4, EnqueueType DEF PauseOver, Disconnect, Reconnect, mqVars
  <2>2. paused' \in BOOLEAN /\ enabled' \in BOOLEAN
    BY <1>4 DEF PauseOver, Disconnect, Reconnect, dbVars
  <2> QED
    BY <1>4, <2>1, <2>2
       DEF PauseOver, Disconnect, Reconnect, inputs, runVars, mqVars, dbVars
<1> QED BY <1>1, <1>2, <1>3, <1>4 DEF Outside

\* Next in the form in which the proofs use it.
LEMMA StepCases ==
  ASSUME [Next]_vars
  PROVE  \/ \E e \in Exec : Progress(e) \/ Faulty(e)
         \/ Outside
         \/ UNCHANGED vars
BY DEF Next, Pipeline, Outside

\* The type invariant is inductive.
LEMMA TypeInvariant == Spec => []TypeInv
<1>1. Init => TypeInv
  <2> SUFFICES ASSUME Init PROVE TypeInv
    OBVIOUS
  <2> USE PlatformSyncAssumption DEF Init
  <2>1. /\ queue \in [Job -> 0..MaxQueue] /\ delayed \in [Job -> 0..MaxQueue]
        /\ faults \in 0..MaxFaults
    OBVIOUS
  <2>2. /\ pc \in [Exec -> Pc] /\ row \in [Exec -> RowStatus]
        /\ \A e \in Exec : pc[e] = "idle"
    BY DEF Pc, RowStatus
  <2> QED BY <2>1, <2>2 DEF TypeInv, TypeOK
<1>2. TypeInv /\ [Next]_vars => TypeInv'
  <2> SUFFICES ASSUME TypeInv, [Next]_vars PROVE TypeInv'
    OBVIOUS
  <2>1. ASSUME NEW e \in Exec, Progress(e) \/ Faulty(e) PROVE TypeInv'
    <3>1. RunStep(e) /\ pc[e] # "idle"
      BY <2>1, EveryStepIsRunStep
    <3>2. UNCHANGED inputs
      BY <2>1, SharedTypes
    <3> QED
      BY <2>1, <3>1, <3>2, SharedTypes, RunStepKeepsTypes DEF TypeInv, TypeOK, inputs
  <2>2. CASE UNCHANGED vars
    BY <2>2 DEF vars, TypeInv, TypeOK
  <2> QED BY <2>1, <2>2, StepCases, OutsideKeepsTypes
<1> QED BY <1>1, <1>2, PTL DEF Spec

\* Every variable of the TikTok and Google sync keeps its type.
THEOREM TypeCorrect == Spec => []TypeOK
<1>1. TypeInv => TypeOK
  BY DEF TypeInv
<1> QED BY <1>1, TypeInvariant, PTL

-----------------------------------------------------------------------------
\* A working run holds the lock of its job.
WorkingHoldsLock == \A e \in Exec : pc[e] \in Working => lock[task[e]] = e

\* The lock is taken only when free and given up only by its holder, so the
\* invariant is inductive.
LEMMA HolderInvariant == Spec => []WorkingHoldsLock
<1> USE PlatformSyncAssumption
<1>1. Init => WorkingHoldsLock
  BY DEF Init, WorkingHoldsLock, Working
<1>2. TypeInv /\ WorkingHoldsLock /\ [Next]_vars => WorkingHoldsLock'
  <2> SUFFICES ASSUME TypeInv, WorkingHoldsLock, [Next]_vars,
                      NEW f \in Exec, pc'[f] \in Working
               PROVE  lock'[task'[f]] = f
    BY DEF WorkingHoldsLock
  <2>1. ASSUME NEW e \in Exec, Progress(e) \/ Faulty(e)
        PROVE  lock'[task'[f]] = f
    <3>1. /\ RunStep(e) /\ pc[e] # "idle" /\ task[e] \in Job
          /\ \A g \in Exec : g # e => pc'[g] = pc[g] /\ task'[g] = task[g]
      BY <2>1, EveryStepIsRunStep, RunStepKeepsTypes DEF TypeInv
    <3>2. CASE AcquireLock(e)
      <4>1. CASE lock[task[e]] = Free
        <5>1. lock' = [lock EXCEPT ![task[e]] = e] /\ task' = task
          BY <3>2, <4>1 DEF AcquireLock, Step
        <5>2. f # e => task[f] # task[e] /\ task[f] \in Job
          BY <3>1, <4>1 DEF WorkingHoldsLock, TypeInv, Working
        <5> QED BY <3>1, <5>1, <5>2 DEF WorkingHoldsLock, TypeInv, TypeOK
      <4>2. CASE lock[task[e]] # Free
        <5>1. lock' = lock /\ pc'[e] \notin Working
          BY <3>2, <4>2 DEF AcquireLock, Return, Goto, TypeInv, TypeOK, Working
        <5> QED BY <3>1, <5>1 DEF WorkingHoldsLock
      <4> QED BY <4>1, <4>2
    <3>3. CASE CreateJobFails(e) \/ ReleaseLock(e) \/ ReleaseFails(e) \/ Crash(e)
      <4>1. pc'[e] \notin Working
        BY <3>3 DEF CreateJobFails, ReleaseLock, ReleaseFails, Crash, Return, Goto,
                    TypeInv, TypeOK,
                    Working
      <4>2. \/ lock' = lock
            \/ lock[task[e]] = e /\ \E l : lock' = [lock EXCEPT ![task[e]] = l]
        BY <3>3 DEF CreateJobFails, ReleaseLock, ReleaseFails, Crash, At, Working, Pc,
                    WorkingHoldsLock
      <4>3. f # e /\ pc[f] \in Working /\ task'[f] = task[f] /\ lock[task[f]] = f
        BY <3>1, <4>1 DEF WorkingHoldsLock
      <4>4. lock[task[e]] = e => task[f] # task[e]
        BY <4>3
      <4>5. task[f] \in Job
        BY <4>3 DEF TypeInv, Working
      <4> QED BY <4>2, <4>3, <4>4, <4>5 DEF TypeInv, TypeOK
    <3>4. CASE CheckFresh(e)
      <4>1. lock' = lock /\ pc'[e] \notin Working
        BY <3>4 DEF CheckFresh, Step, Return, Goto, TypeInv, TypeOK, Working
      <4> QED BY <3>1, <4>1 DEF WorkingHoldsLock
    <3>5. CASE \/ CreateJob(e) \/ Load(e) \/ CallOk(e) \/ WriteEntities(e)
               \/ WriteMetrics(e) \/ WriteBreakdown(e) \/ Finish(e) \/ Kick(e)
               \/ KickHistory(e) \/ FinalizeFailed(e) \/ FinalizeSkipped(e)
               \/ Requeue(e) \/ CallOverQuota(e) \/ PauseConnection(e)
               \/ RunFails(e) \/ HandlerFails(e) \/ KickFails(e)
      <4>1. lock' = lock /\ task' = task /\ pc[e] \in Working
        BY <3>5 DEF CreateJob, Load, CallOk, WriteEntities, WriteMetrics,
           WriteBreakdown, Finish, Kick, KickHistory, FinalizeFailed,
           FinalizeSkipped, Requeue, CallOverQuota, PauseConnection, RunFails,
           HandlerFails, ReleaseFails, KickFails, Step,
           Settle, At, Working, Pc
      <4> QED BY <3>1, <4>1 DEF WorkingHoldsLock
    <3> QED BY <2>1, <3>2, <3>3, <3>4, <3>5 DEF Progress, Faulty
  <2>2. CASE Outside
    <3>1. ASSUME NEW j \in Job, NEW e \in Exec, Deliver(e, j)
          PROVE  lock'[task'[f]] = f
      <4>1. /\ lock' = lock
            /\ pc'[e] \notin Working
            /\ f # e => pc'[f] = pc[f] /\ task'[f] = task[f]
        BY <3>1 DEF Deliver, Goto, TypeInv, TypeOK, Working
      <4> QED BY <4>1 DEF WorkingHoldsLock
    <3>2. ASSUME NEW j \in Job, LockExpires(j)
          PROVE  lock'[task'[f]] = f
      <4>1. pc' = pc /\ task' = task /\ lock[j] = Orphan /\ lock' = [lock EXCEPT ![j] = Free]
        BY <3>2 DEF LockExpires, runVars
      <4>2. lock[task[f]] = f /\ task[f] # j /\ task[f] \in Job
        BY <4>1 DEF WorkingHoldsLock, TypeInv, Working
      <4> QED BY <4>1, <4>2 DEF TypeInv, TypeOK
    <3>3. CASE \/ \E j \in Job : Beat(j) \/ Trigger(j) \/ CountdownOver(j) \/ GoStale(j)
               \/ PauseOver \/ Disconnect \/ Reconnect
      BY <3>3 DEF Beat, Trigger, CountdownOver, GoStale, PauseOver, Disconnect,
                  Reconnect, runVars, WorkingHoldsLock
    <3> QED BY <2>2, <3>1, <3>2, <3>3 DEF Outside
  <2>3. CASE UNCHANGED vars
    BY <2>3 DEF vars, WorkingHoldsLock
  <2> QED BY <2>1, <2>2, <2>3, StepCases
<1> QED BY <1>1, <1>2, TypeInvariant, PTL DEF Spec

\* Two runs of one job never work at the same time, on either platform and for
\* any number of slots: it is the lock that keeps them apart, not the look at
\* the freshness of the data that TikTok's insights take before it.
THEOREM OneRunPerJobHolds == Spec => []OneRunPerJob
<1>1. WorkingHoldsLock => OneRunPerJob
  BY DEF WorkingHoldsLock, OneRunPerJob
<1> QED BY <1>1, HolderInvariant, PTL

-----------------------------------------------------------------------------
(* The lock implements single flight *)

\* Nobody but a working run is named by a lock, and only by that of its message.
HolderWorks ==
  \A j \in Job, e \in Exec : lock[j] = e => pc[e] \in Working /\ task[e] = j

\* What a step may do to the slots and the locks: a key expires, or one slot
\* stays outside, works on, takes the lock or goes.
LockMove ==
  \/ UNCHANGED <<pc, task, lock>>
  \/ /\ UNCHANGED <<pc, task>>
     /\ \E j \in Job : lock[j] = Orphan /\ lock' = [lock EXCEPT ![j] = Free]
  \/ \E e \in Exec :
       /\ \A f \in Exec \ {e} : pc'[f] = pc[f] /\ task'[f] = task[f]
       /\ \/ pc[e] \notin Working /\ pc'[e] \notin Working /\ lock' = lock
          \/ pc[e] \in Working /\ pc'[e] \in Working /\ task'[e] = task[e] /\ lock' = lock
          \/ /\ pc[e] \notin Working /\ pc'[e] \in Working /\ task'[e] = task[e]
             /\ task[e] \in Job /\ lock[task[e]] = Free
             /\ lock' = [lock EXCEPT ![task[e]] = e]
          \/ /\ pc[e] \in Working /\ pc'[e] \notin Working
             /\ \E l \in {Free, Orphan} : lock' = [lock EXCEPT ![task[e]] = l]

\* Every step is one of these.
LEMMA EveryStepIsLockMove ==
  ASSUME TypeInv, WorkingHoldsLock, HolderWorks, [Next]_vars
  PROVE  LockMove
<1>1. ASSUME NEW e \in Exec, Progress(e) \/ Faulty(e)
      PROVE  LockMove
  <2>1. /\ RunStep(e) /\ pc[e] # "idle" /\ task[e] \in Job
        /\ \A f \in Exec \ {e} : pc'[f] = pc[f] /\ task'[f] = task[f]
    BY <1>1, EveryStepIsRunStep, RunStepKeepsTypes DEF TypeInv
  <2>2. CASE AcquireLock(e)
    <3>1. pc[e] \notin Working
      BY <2>2 DEF AcquireLock, At, Working
    <3>2. CASE lock[task[e]] = Free
      <4>1. /\ lock' = [lock EXCEPT ![task[e]] = e] /\ task' = task
            /\ pc'[e] \in Working
        BY <2>2, <3>2 DEF AcquireLock, Step, Goto, TypeInv, TypeOK, Working, Pc
      <4> QED BY <2>1, <3>1, <3>2, <4>1 DEF LockMove
    <3>3. CASE lock[task[e]] # Free
      <4>1. lock' = lock /\ pc'[e] \notin Working
        BY <2>2, <3>3 DEF AcquireLock, Return, Goto, TypeInv, TypeOK, Working
      <4> QED BY <2>1, <3>1, <4>1 DEF LockMove
    <3> QED BY <3>2, <3>3
  <2>3. CASE CreateJobFails(e) \/ ReleaseLock(e) \/ ReleaseFails(e) \/ Crash(e)
    <3>1. pc'[e] \notin Working
      BY <2>3 DEF CreateJobFails, ReleaseLock, ReleaseFails, Crash, Return, Goto,
                  TypeInv, TypeOK, Working
    <3>2. CASE pc[e] \in Working
      <4>1. \E l \in {Free, Orphan} : lock' = [lock EXCEPT ![task[e]] = l]
        BY <2>3, <3>2 DEF CreateJobFails, ReleaseLock, ReleaseFails, Crash, WorkingHoldsLock
      <4> QED BY <2>1, <3>1, <3>2, <4>1 DEF LockMove
    <3>3. CASE pc[e] \notin Working
      <4>1. lock' = lock
        BY <2>1, <2>3, <3>3 DEF CreateJobFails, ReleaseLock, ReleaseFails, Crash,
                                HolderWorks, At, Working, Pc
      <4> QED BY <2>1, <3>1, <3>3, <4>1 DEF LockMove
    <3> QED BY <3>2, <3>3
  <2>4. CASE CheckFresh(e)
    <3>1. lock' = lock /\ pc[e] \notin Working /\ pc'[e] \notin Working
      BY <2>4 DEF CheckFresh, Step, Return, Goto, TypeInv, TypeOK, Working, At
    <3> QED BY <2>1, <3>1 DEF LockMove
  <2>5. CASE \/ CreateJob(e) \/ Load(e) \/ CallOk(e) \/ WriteEntities(e)
             \/ WriteMetrics(e) \/ WriteBreakdown(e) \/ Finish(e) \/ Kick(e)
             \/ KickHistory(e) \/ FinalizeFailed(e) \/ FinalizeSkipped(e)
             \/ Requeue(e) \/ CallOverQuota(e) \/ PauseConnection(e)
               \/ RunFails(e) \/ HandlerFails(e) \/ KickFails(e)
    <3>1. lock' = lock /\ task' = task /\ pc[e] \in Working
      BY <2>5 DEF CreateJob, Load, CallOk, WriteEntities, WriteMetrics,
         WriteBreakdown, Finish, Kick, KickHistory, FinalizeFailed,
         FinalizeSkipped, Requeue, CallOverQuota, PauseConnection, RunFails,
         HandlerFails, ReleaseFails, KickFails, Step,
         Settle, At, Working, Pc
    <3>2. pc'[e] \in Working
      BY <2>5 DEF CreateJob, Load, CallOk, WriteEntities, WriteMetrics,
         WriteBreakdown, Finish, Kick, KickHistory, FinalizeFailed,
         FinalizeSkipped, Requeue, CallOverQuota, PauseConnection, RunFails,
         HandlerFails, ReleaseFails, KickFails, Step,
         Settle, Goto, Working, Pc, TypeInv, TypeOK
    <3> QED BY <2>1, <3>1, <3>2 DEF LockMove
  <2> QED BY <1>1, <2>2, <2>3, <2>4, <2>5 DEF Progress, Faulty
<1>2. CASE Outside
  <2>1. ASSUME NEW j \in Job, NEW e \in Exec, Deliver(e, j)
        PROVE  LockMove
    <3>1. /\ lock' = lock
          /\ pc[e] \notin Working /\ pc'[e] \notin Working
          /\ \A f \in Exec \ {e} : pc'[f] = pc[f] /\ task'[f] = task[f]
      BY <2>1 DEF Deliver, Goto, At, TypeInv, TypeOK, Working
    <3> QED BY <3>1 DEF LockMove
  <2>2. ASSUME NEW j \in Job, LockExpires(j)
        PROVE  LockMove
    BY <2>2 DEF LockExpires, LockMove, runVars
  <2>3. CASE \/ \E j \in Job : Beat(j) \/ Trigger(j) \/ CountdownOver(j) \/ GoStale(j)
             \/ PauseOver \/ Disconnect \/ Reconnect
    BY <2>3 DEF Beat, Trigger, CountdownOver, GoStale, PauseOver, Disconnect,
                Reconnect, runVars, LockMove
  <2> QED BY <1>2, <2>1, <2>2, <2>3 DEF Outside
<1>3. CASE UNCHANGED vars
  BY <1>3 DEF vars, LockMove
<1> QED BY <1>1, <1>2, <1>3, StepCases

\* A lock names its holder as long as that works, and no longer.
LEMMA HolderWorksInvariant == Spec => []HolderWorks
<1>1. Init => HolderWorks
  BY PlatformSyncAssumption DEF Init, HolderWorks
<1>2. TypeInv /\ WorkingHoldsLock /\ HolderWorks /\ [Next]_vars => HolderWorks'
  <2> SUFFICES ASSUME TypeInv, WorkingHoldsLock, HolderWorks, LockMove,
                      NEW j \in Job, NEW f \in Exec, lock'[j] = f
               PROVE  pc'[f] \in Working /\ task'[f] = j
    BY EveryStepIsLockMove DEF HolderWorks
  <2> USE PlatformSyncAssumption DEF TypeInv, TypeOK, HolderWorks
  <2>1. CASE UNCHANGED <<pc, task, lock>>
    BY <2>1
  <2>2. ASSUME UNCHANGED <<pc, task>>,
               NEW n \in Job, lock[n] = Orphan, lock' = [lock EXCEPT ![n] = Free]
        PROVE  pc'[f] \in Working /\ task'[f] = j
    BY <2>2
  <2>3. ASSUME NEW e \in Exec,
               \A g \in Exec \ {e} : pc'[g] = pc[g] /\ task'[g] = task[g],
               lock' = lock,
               \/ pc[e] \notin Working
               \/ pc'[e] \in Working /\ task'[e] = task[e]
        PROVE  pc'[f] \in Working /\ task'[f] = j
    BY <2>3
  <2>4. ASSUME NEW e \in Exec,
               \A g \in Exec \ {e} : pc'[g] = pc[g] /\ task'[g] = task[g],
               pc[e] \notin Working, pc'[e] \in Working, task'[e] = task[e],
               task[e] \in Job, lock' = [lock EXCEPT ![task[e]] = e]
        PROVE  pc'[f] \in Working /\ task'[f] = j
    BY <2>4
  <2>5. ASSUME NEW e \in Exec,
               \A g \in Exec \ {e} : pc'[g] = pc[g] /\ task'[g] = task[g],
               pc[e] \in Working,
               NEW l \in {Free, Orphan}, lock' = [lock EXCEPT ![task[e]] = l]
        PROVE  pc'[f] \in Working /\ task'[f] = j
    <3>1. task[e] \in Job
      BY <2>5 DEF TypeInv, Working
    <3>2. j # task[e] /\ lock[j] = f
      BY <2>5, <3>1
    <3> QED BY <2>5, <3>2
  <2> QED BY <2>1, <2>2, <2>3, <2>4, <2>5 DEF LockMove
<1> QED BY <1>1, <1>2, TypeInvariant, HolderInvariant, PTL DEF Spec

\* The lock of each job implements single flight, on either platform and for any
\* number of slots, errors and crashes.
THEOREM ImplementsSingleFlight == Spec => LocksAreSingleFlight
<1>1. ASSUME Init, NEW j \in Job PROVE RunLock(j)!Init
  BY <1>1, PlatformSyncAssumption DEF Init, RunLock!Init, Runs, Working
<1>2. ASSUME TypeInv, WorkingHoldsLock, HolderWorks, WorkingHoldsLock', HolderWorks',
             LockMove, NEW j \in Job
      PROVE  UNCHANGED RunLock(j)!lockVars \/ RunLock(j)!Next
  <2> USE <1>2, PlatformSyncAssumption
  <2>1. Runs(j) = {e \in Exec : lock[j] = e} /\ Runs(j)' = {e \in Exec : lock'[j] = e}
    BY DEF Runs, WorkingHoldsLock, HolderWorks
  <2>2. \/ lock'[j] = lock[j]
        \/ lock[j] = Orphan /\ lock'[j] = Free
        \/ lock[j] = Free /\ lock'[j] \in Exec
        \/ lock[j] \in Exec /\ lock'[j] \in {Free, Orphan}
    <3>1. \A e \in Exec : pc[e] \in Working => task[e] \in Job /\ lock[task[e]] = e
      BY DEF TypeInv, WorkingHoldsLock, Working
    <3> QED BY <3>1 DEF LockMove, TypeInv, TypeOK
  <2>3. CASE lock'[j] = lock[j]
    BY <2>1, <2>3 DEF RunLock!lockVars
  <2>4. CASE lock[j] = Orphan /\ lock'[j] = Free
    BY <2>1, <2>4 DEF RunLock!Next, RunLock!Expire
  <2>5. CASE lock[j] = Free /\ lock'[j] \in Exec
    <3>1. Runs(j) = {} /\ Runs(j)' = {lock'[j]}
      BY <2>1, <2>5
    <3> QED BY <2>5, <3>1 DEF RunLock!Next, RunLock!Enter
  <2>6. CASE lock[j] \in Exec /\ lock'[j] \in {Free, Orphan}
    <3>1. Runs(j) = {lock[j]} /\ Runs(j)' = {}
      BY <2>1, <2>6
    <3> QED BY <2>6, <3>1 DEF RunLock!Next, RunLock!Leave
  <2> QED BY <2>2, <2>3, <2>4, <2>5, <2>6
<1>3. Init => \A j \in Job : RunLock(j)!Init
  BY <1>1
<1>4. TypeInv /\ WorkingHoldsLock /\ HolderWorks /\ WorkingHoldsLock' /\ HolderWorks'
      /\ [Next]_vars
      => \A j \in Job : UNCHANGED RunLock(j)!lockVars \/ RunLock(j)!Next
  BY <1>2, EveryStepIsLockMove
<1>5. TypeInv /\ WorkingHoldsLock /\ HolderWorks /\ WorkingHoldsLock' /\ HolderWorks'
      /\ [Next]_vars
      => [\A j \in Job : UNCHANGED RunLock(j)!lockVars \/ RunLock(j)!Next]_<<pc, task,
      lock>>
  BY <1>4
<1> QED
  BY <1>3, <1>5, TypeInvariant, HolderInvariant, HolderWorksInvariant, PTL
     DEF Spec, LocksAreSingleFlight

-----------------------------------------------------------------------------
(***************************************************************************)
(* Why no historical run completes without writing: nobody but a user      *)
(* sends one before the entities are in the database, so its maps are full *)
(* when it loads them.                                                     *)
(***************************************************************************)
History == "insights_historical"

\* Somewhere in the system there is a historical message or run.
HistoryUnderWay ==
  \/ queue[History] > 0
  \/ delayed[History] > 0
  \/ \E e \in Exec : task[e] = History

HistoryAfterEntities ==
  /\ HistoryUnderWay => entities
  /\ \A e \in Exec : pc[e] \in {"kick", "kickHistory"} => entities
  /\ \A e \in Exec : pc[e] = "finish" /\ task[e] = "structure" => entities
  /\ \A e \in Exec : pc[e] \in {"call", "write"} /\ task[e] = History => mapped[e]
  /\ \A e \in Exec : pc[e] = "finish" /\ task[e] = History => History \in metrics
  /\ fresh[History] => History \in metrics

HistoryInv == byHand \/ HistoryAfterEntities

\* Entities and metrics are never removed, and a user's trigger is not forgotten.
LEMMA DataStays ==
  ASSUME TypeInv, [Next]_vars
  PROVE  /\ entities => entities'
         /\ metrics \subseteq metrics'
         /\ byHand => byHand'
<1>1. ASSUME NEW e \in Exec, Progress(e) \/ Faulty(e)
      PROVE  /\ entities => entities'
             /\ metrics \subseteq metrics'
             /\ byHand' = byHand
  BY <1>1 DEF Progress, Faulty, CheckFresh, AcquireLock, CreateJob, Load, CallOk,
     WriteEntities, WriteMetrics, WriteBreakdown, Finish, Kick, KickHistory,
     FinalizeFailed, FinalizeSkipped, Requeue, ReleaseLock, CreateJobFails,
     CallOverQuota, PauseConnection, RunFails, HandlerFails, ReleaseFails, KickFails,
     Crash, dbVars, inputs
<1>2. ASSUME Outside \/ UNCHANGED vars
      PROVE  entities' = entities /\ metrics' = metrics /\ (byHand => byHand')
  <2>1. CASE \E j \in Job : Trigger(j)
    BY <2>1 DEF Trigger, dbVars
  <2>2. CASE ~\E j \in Job : Trigger(j)
    BY <1>2, <2>2 DEF Outside, Beat, CountdownOver, LockExpires, GoStale, Deliver,
       PauseOver, Disconnect, Reconnect, dbVars, inputs, vars
  <2> QED BY <2>1, <2>2
<1> QED BY <1>1, <1>2, StepCases

\* Only structure's last kick, a user aside, brings a historical message into
\* a system that has none.
LEMMA HistoryHasASource ==
  ASSUME History \in Job, TypeInv, HistoryAfterEntities, [Next]_vars, ~byHand',
         HistoryUnderWay'
  PROVE  entities
<1> SUFFICES ASSUME ~HistoryUnderWay PROVE \E e \in Exec : pc[e] = "kickHistory"
  BY DEF HistoryAfterEntities
<1> USE PlatformSyncAssumption
<1>1. /\ queue[History] = 0 /\ delayed[History] = 0
      /\ \A e \in Exec : task[e] # History
  BY DEF HistoryUnderWay, TypeInv, TypeOK
<1>2. ASSUME NEW e \in Exec, Progress(e) \/ Faulty(e)
      PROVE  pc[e] = "kickHistory"
  <2>1. RunStep(e) /\ pc[e] # "idle" /\ task[e] \in Job /\ task[e] # History
    BY <1>1, <1>2, EveryStepIsRunStep DEF TypeInv
  <2>2. \A f \in Exec : task'[f] # History
    <3>1. task' = task \/ task' = [task EXCEPT ![e] = NoJob]
      BY <2>1 DEF RunStep, Return
    <3>2. NoJob # History
      BY DEF AllJobs, History
    <3> QED BY <1>1, <3>1, <3>2 DEF TypeInv, TypeOK
  <2>3. delayed'[History] = 0
    <3>1. delayed' = delayed \/ delayed' = Enqueue(delayed, task[e])
      BY <1>2 DEF Progress, Faulty, CheckFresh, AcquireLock, CreateJob, Load,
         CallOk, WriteEntities, WriteMetrics, WriteBreakdown, Finish, Kick,
         KickHistory, FinalizeFailed, FinalizeSkipped, Requeue, ReleaseLock,
         CreateJobFails, CallOverQuota, PauseConnection, RunFails, HandlerFails,
         ReleaseFails, KickFails, Crash, mqVars
    <3> QED BY <1>1, <2>1, <3>1, EnqueueType DEF TypeInv, TypeOK
  <2>4. queue'[History] > 0
    BY <2>2, <2>3 DEF HistoryUnderWay
  <2>5. CASE KickHistory(e)
    BY <2>5 DEF KickHistory, At
  <2>6. CASE ~KickHistory(e)
    <3>1. \/ queue' = queue
          \/ \E j \in Job : j # History /\ queue' = Enqueue(queue, j)
      BY <1>2, <2>1, <2>6 DEF Progress, Faulty, CheckFresh, AcquireLock, CreateJob,
         Load, CallOk, WriteEntities, WriteMetrics, WriteBreakdown, Finish, Kick,
         FinalizeFailed, FinalizeSkipped, Requeue, ReleaseLock, CreateJobFails,
         CallOverQuota, PauseConnection, RunFails, HandlerFails, ReleaseFails, KickFails,
         Crash, mqVars, History
    <3> QED BY <1>1, <2>4, <3>1, EnqueueType DEF TypeInv, TypeOK
  <2> QED BY <2>5, <2>6
<1>3. ASSUME Outside \/ UNCHANGED vars PROVE FALSE
  <2>1. ASSUME NEW j \in Job, Beat(j) \/ Trigger(j) \/ CountdownOver(j)
        PROVE  FALSE
    <3>1. j # History
      <4>1. CASE Beat(j)
        BY <4>1 DEF Beat, History
      <4>2. CASE Trigger(j)
        BY <4>2 DEF Trigger, History
      <4>3. CASE CountdownOver(j)
        BY <1>1, <4>3 DEF CountdownOver
      <4> QED BY <2>1, <4>1, <4>2, <4>3
    <3>2. /\ queue' = Enqueue(queue, j) /\ task' = task
          /\ delayed' = delayed \/ delayed' = [delayed EXCEPT ![j] = @ - 1]
      BY <2>1 DEF Beat, Trigger, CountdownOver, runVars
    <3>3. queue'[History] = 0 /\ delayed'[History] = 0
      BY <1>1, <3>1, <3>2, EnqueueType DEF TypeInv, TypeOK
    <3> QED BY <1>1, <3>2, <3>3 DEF HistoryUnderWay
  <2>2. ASSUME NEW j \in Job, NEW e \in Exec, Deliver(e, j) PROVE FALSE
    <3>1. j # History
      BY <1>1, <2>2 DEF Deliver
    <3>2. queue'[History] = 0 /\ delayed'[History] = 0
      BY <1>1, <2>2, <3>1 DEF Deliver, TypeInv, TypeOK
    <3>3. \A f \in Exec : task'[f] # History
      BY <1>1, <2>2, <3>1 DEF Deliver, TypeInv, TypeOK
    <3> QED BY <3>2, <3>3 DEF HistoryUnderWay
  <2>3. CASE Reconnect
    <3>1. queue' = Enqueue(queue, "structure") /\ delayed' = delayed /\ task' = task
      BY <2>3 DEF Reconnect, runVars
    <3>2. queue'[History] = 0
      <4>1. "structure" # History
        BY DEF History
      <4>2. Enqueue(queue, "structure")[History] = queue[History]
        BY <4>1, EnqueueType DEF TypeInv, TypeOK
      <4> QED BY <1>1, <3>1, <4>2
    <3> QED BY <1>1, <3>1, <3>2 DEF HistoryUnderWay
  <2>4. CASE \/ \E j \in Job : LockExpires(j) \/ GoStale(j)
             \/ PauseOver \/ Disconnect \/ UNCHANGED vars
    <3>1. UNCHANGED <<queue, delayed, task>>
      BY <2>4 DEF LockExpires, GoStale, PauseOver, Disconnect, mqVars, runVars, vars
    <3> QED BY <1>1, <3>1 DEF HistoryUnderWay
  <2> QED BY <1>3, <2>1, <2>2, <2>3, <2>4 DEF Outside
<1> QED BY <1>2, <1>3, StepCases

\* What a slot may rely on at each step of a structure or historical run.
RunFacts(e) ==
  /\ pc[e] \in {"kick", "kickHistory"} => entities
  /\ pc[e] = "finish" /\ task[e] = "structure" => entities
  /\ pc[e] \in {"call", "write"} /\ task[e] = History => mapped[e]
  /\ pc[e] = "finish" /\ task[e] = History => History \in metrics

\* Each step of a run establishes what the next one relies on.
LEMMA RunFactsStep ==
  ASSUME History \in Job, TypeInv, HistoryAfterEntities, [Next]_vars,
         NEW f \in Exec
  PROVE  RunFacts(f)'
<1> USE DEF TypeInv, TypeOK
<1>1. RunFacts(f) /\ (task[f] = History => entities)
  BY DEF HistoryAfterEntities, HistoryUnderWay, RunFacts
<1>2. (entities => entities') /\ metrics \subseteq metrics'
  BY DataStays
<1>3. ASSUME UNCHANGED <<pc[f], task[f], mapped[f]>> PROVE RunFacts(f)'
  BY <1>1, <1>2, <1>3 DEF RunFacts
<1>4. ASSUME pc'[f] \notin {"call", "write", "finish", "kick", "kickHistory"}
      PROVE  RunFacts(f)'
  BY <1>4 DEF RunFacts
<1>5. ASSUME Progress(f) \/ Faulty(f) PROVE RunFacts(f)'
  <2>1. CASE Load(f)
    <3>1. pc'[f] \in {"call", "release"} /\ task'[f] = task[f]
      BY <2>1 DEF Load, Goto, Settle
    <3>2. pc'[f] = "call" => mapped'[f] = entities
      BY <2>1 DEF Load, Goto, Settle
    <3> QED BY <1>1, <3>1, <3>2 DEF RunFacts
  <2>2. CASE CallOk(f)
    BY <1>1, <2>2 DEF CallOk, Step, Goto, At, RunFacts
  <2>3. CASE WriteEntities(f)
    BY <1>1, <2>3 DEF WriteEntities, Step, Goto, At, RunFacts, History
  <2>4. CASE WriteMetrics(f)
    <3>1. /\ pc'[f] = "finish" /\ task'[f] = task[f] /\ pc[f] = "write"
          /\ task[f] # "structure"
          /\ mapped[f] => task[f] \in metrics'
      BY <2>4 DEF WriteMetrics, Step, Goto, At, Insights
    <3> QED BY <1>1, <3>1 DEF RunFacts
  <2>5. CASE WriteBreakdown(f)
    BY <2>5 DEF WriteBreakdown, Step, Goto, RunFacts, History
  <2>6. CASE Finish(f)
    <3>1. /\ pc'[f] \in {"kick", "release"}
          /\ pc'[f] = "kick" => task[f] = "structure" /\ pc[f] = "finish"
      BY <2>6 DEF Finish, Settle, Goto, At
    <3> QED BY <1>1, <1>2, <3>1 DEF RunFacts
  <2>7. CASE Kick(f)
    <3>1. pc'[f] = "kickHistory" /\ pc[f] = "kick"
      BY <2>7 DEF Kick, Step, Goto, At
    <3> QED BY <1>1, <1>2, <3>1 DEF RunFacts
  <2>8. CASE \/ CheckFresh(f) \/ AcquireLock(f) \/ CreateJob(f) \/ KickHistory(f)
             \/ FinalizeFailed(f) \/ FinalizeSkipped(f) \/ Requeue(f)
             \/ ReleaseLock(f) \/ PauseConnection(f) \/ Faulty(f)
    <3>1. pc'[f] \notin {"call", "write", "finish", "kick", "kickHistory"}
      BY <2>8 DEF CheckFresh, AcquireLock, CreateJob, KickHistory, FinalizeFailed,
         FinalizeSkipped, Requeue, ReleaseLock, Faulty, CreateJobFails,
         CallOverQuota, PauseConnection, RunFails, HandlerFails, ReleaseFails, KickFails,
         Crash, Step, Settle, Return, Goto
    <3> QED BY <1>4, <3>1
  <2> QED
    BY <1>5, <2>1, <2>2, <2>3, <2>4, <2>5, <2>6, <2>7, <2>8 DEF Progress
<1>6. ASSUME NEW e \in Exec, Progress(e) \/ Faulty(e), e # f PROVE RunFacts(f)'
  <2>1. UNCHANGED <<pc[f], task[f], mapped[f]>>
    BY <1>6, EveryStepIsRunStep, RunStepKeepsTypes
  <2> QED BY <1>3, <2>1
<1>7. ASSUME NEW e \in Exec, NEW j \in Job, Deliver(e, j) PROVE RunFacts(f)'
  <2>1. \/ UNCHANGED <<pc[f], task[f], mapped[f]>>
        \/ pc'[f] \in {"check", "lock"}
    BY <1>7 DEF Deliver, Goto
  <2> QED BY <1>3, <1>4, <2>1
<1>8. ASSUME \/ \E j \in Job : \/ Beat(j) \/ Trigger(j) \/ CountdownOver(j)
                               \/ LockExpires(j) \/ GoStale(j)
             \/ PauseOver \/ Disconnect \/ Reconnect \/ UNCHANGED vars
      PROVE  RunFacts(f)'
  <2>1. UNCHANGED <<pc, task, mapped>>
    BY <1>8 DEF Beat, Trigger, CountdownOver, LockExpires, GoStale, PauseOver,
                Disconnect, Reconnect, runVars, vars
  <2> QED BY <1>3, <2>1
<1> QED BY <1>5, <1>6, <1>7, <1>8, StepCases DEF Outside

\* As long as no user triggers it, the history comes after the entities.
LEMMA HistoryInvariant ==
  ASSUME History \in Job
  PROVE  Spec => []HistoryInv
<1> USE PlatformSyncAssumption
<1>1. Init => HistoryInv
  <2> SUFFICES ASSUME Init PROVE HistoryAfterEntities
    BY DEF HistoryInv
  <2>1. /\ queue[History] = 0 /\ delayed[History] = 0 /\ ~fresh[History]
        /\ \A e \in Exec : pc[e] = "idle" /\ task[e] = NoJob
    BY DEF Init, History
  <2>2. NoJob # History
    BY DEF AllJobs, History
  <2> QED BY <2>1, <2>2 DEF HistoryAfterEntities, HistoryUnderWay
<1>2. TypeInv /\ TypeInv' /\ HistoryInv /\ [Next]_vars => HistoryInv'
  <2> SUFFICES ASSUME TypeInv, TypeInv', HistoryAfterEntities, [Next]_vars, ~byHand'
               PROVE  HistoryAfterEntities'
    BY DataStays DEF HistoryInv
  <2>1. HistoryUnderWay' => entities'
    BY HistoryHasASource, DataStays
  <2>2. \A f \in Exec : RunFacts(f)'
    BY RunFactsStep
  <2>3. fresh'[History] => History \in metrics'
    <3> SUFFICES ASSUME ~fresh[History], fresh'[History]
                 PROVE  History \in metrics
      BY DataStays DEF HistoryAfterEntities
    <3>1. ASSUME NEW e \in Exec, Progress(e) \/ Faulty(e)
          PROVE  Finish(e) /\ task[e] = History
      <4>1. task[e] \in Job
        BY <3>1, EveryStepIsRunStep DEF TypeInv
      <4>2. CASE FinalizeFailed(e)
        <5>1. fresh' = fresh \/ fresh' = [fresh EXCEPT ![task[e]] = FALSE]
          BY <4>2 DEF FinalizeFailed
        <5> QED BY <5>1 DEF TypeInv, TypeOK
      <4>3. CASE Finish(e)
        BY <4>1, <4>3 DEF Finish, TypeInv, TypeOK
      <4>4. CASE ~FinalizeFailed(e) /\ ~Finish(e)
        <5>1. fresh' = fresh
          BY <3>1, <4>4 DEF Progress, Faulty, CheckFresh, AcquireLock, CreateJob,
             Load, CallOk, WriteEntities, WriteMetrics, WriteBreakdown, Kick,
             KickHistory, FinalizeSkipped, Requeue, ReleaseLock, CreateJobFails,
             CallOverQuota, PauseConnection, RunFails, HandlerFails, ReleaseFails,
             KickFails, Crash, dbVars
        <5> QED BY <5>1
      <4> QED BY <4>2, <4>3, <4>4
    <3>2. ASSUME Outside \/ UNCHANGED vars PROVE FALSE
      <4>1. CASE \E j \in Job : GoStale(j)
        BY <4>1 DEF GoStale, TypeInv, TypeOK
      <4>2. CASE ~\E j \in Job : GoStale(j)
        <5>1. fresh' = fresh
          BY <3>2, <4>2 DEF Outside, Beat, Trigger, CountdownOver, LockExpires,
             Deliver, PauseOver, Disconnect, Reconnect, dbVars, vars
        <5> QED BY <5>1
      <4> QED BY <4>1, <4>2
    <3> QED BY <3>1, <3>2, StepCases DEF Finish, At, HistoryAfterEntities
  <2> QED BY <2>1, <2>2, <2>3 DEF HistoryAfterEntities, RunFacts
<1> QED BY <1>1, <1>2, TypeInvariant, PTL DEF Spec

\* The history is never marked fresh while it is missing, unless a user has
\* triggered it: structure starts it only once its entities are committed.
THEOREM HistoryIsNotEmptyHolds ==
  ASSUME "insights_historical" \in Job
  PROVE  Spec => []HistoryIsNotEmpty
<1>1. HistoryInv => HistoryIsNotEmpty
  BY DEF HistoryInv, HistoryAfterEntities, HistoryIsNotEmpty, History
<1>2. Spec => []HistoryInv
  BY HistoryInvariant DEF History
<1> QED BY <1>1, <1>2, PTL

-----------------------------------------------------------------------------
\* A row is 'running' only until the statement that finalizes it, or has not.
Unsettled == {"load", "call", "write", "finish", "fail", "pause", "skip", "abort"}

RunningIsUnsettled == \A e \in Exec : row[e] = "running" => pc[e] \in Unsettled

\* What a step may do to a slot's row.
RowStep(e) ==
  \/ UNCHANGED <<row[e], pc[e]>>
  \/ row'[e] \in {row[e], "running"} /\ pc'[e] \in Unsettled
  \/ row'[e] \in {"completed", "failed", "skipped"}
  \/ row'[e] \in {row[e], "none"} /\ pc[e] \notin Unsettled
  \/ row'[e] = "none" /\ (At(e, "abort") \/ faults' > faults)

\* Every step is one of these for every slot.
LEMMA EveryStepIsRowStep ==
  ASSUME TypeInv, [Next]_vars, NEW e \in Exec
  PROVE  RowStep(e)
<1> USE DEF TypeInv, TypeOK
<1>1. ASSUME Progress(e) PROVE RowStep(e)
  <2>1. CASE \/ CheckFresh(e) \/ AcquireLock(e) \/ Kick(e) \/ KickHistory(e)
             \/ Requeue(e) \/ ReleaseLock(e)
    <3>1. \/ row'[e] \in {row[e], "none"} /\ pc[e] \notin Unsettled
          \/ row'[e] = "none" /\ At(e, "abort")
      BY <2>1 DEF CheckFresh, AcquireLock, Kick, KickHistory, Requeue, ReleaseLock,
                  Step, Return, At, Unsettled
    <3> QED BY <3>1 DEF RowStep
  <2>2. CASE CreateJob(e) \/ CallOk(e) \/ WriteEntities(e) \/ WriteMetrics(e)
             \/ WriteBreakdown(e) \/ PauseConnection(e)
    <3>1. row'[e] \in {row[e], "running"} /\ pc'[e] \in Unsettled
      BY <2>2 DEF CreateJob, CallOk, WriteEntities, WriteMetrics, WriteBreakdown,
                  PauseConnection, Step, Settle, Goto, Unsettled
    <3> QED BY <3>1 DEF RowStep
  <2>3. CASE Load(e)
    <3>1. \/ row'[e] = row[e] /\ pc'[e] = "call"
          \/ row'[e] = "skipped"
      BY <2>3 DEF Load, Settle, Goto
    <3> QED BY <3>1 DEF RowStep, Unsettled
  <2>4. CASE Finish(e) \/ FinalizeFailed(e) \/ FinalizeSkipped(e)
    <3>1. row'[e] \in {"completed", "failed", "skipped"}
      BY <2>4 DEF Finish, FinalizeFailed, FinalizeSkipped, Settle
    <3> QED BY <3>1 DEF RowStep
  <2> QED BY <1>1, <2>1, <2>2, <2>3, <2>4 DEF Progress
<1>2. ASSUME Faulty(e) PROVE RowStep(e)
  <2>1. CASE CallOverQuota(e) \/ RunFails(e) \/ HandlerFails(e) \/ KickFails(e)
    <3>1. row'[e] = row[e] /\ pc'[e] \in Unsettled
      BY <2>1 DEF CallOverQuota, RunFails, HandlerFails, KickFails, Step, Goto, Unsettled
    <3> QED BY <3>1 DEF RowStep
  <2>2. CASE CreateJobFails(e) \/ ReleaseFails(e) \/ Crash(e)
    <3>1. row'[e] = "none"
      BY <2>2 DEF CreateJobFails, ReleaseFails, Crash, Return
    <3>2. faults' = faults + 1 /\ faults \in Nat
      BY <2>2, PlatformSyncAssumption DEF CreateJobFails, ReleaseFails, Crash, Fault
    <3> QED BY <3>1, <3>2 DEF RowStep
  <2> QED BY <1>2, <2>1, <2>2 DEF Faulty
<1>3. ASSUME NEW f \in Exec, Progress(f) \/ Faulty(f), f # e PROVE RowStep(e)
  BY <1>3, EveryStepIsRunStep, RunStepKeepsTypes DEF RowStep
<1>4. ASSUME NEW f \in Exec, NEW j \in Job, Deliver(f, j) PROVE RowStep(e)
  <2>1. row' = row /\ (pc'[e] = pc[e] \/ pc[e] = "idle")
    BY <1>4 DEF Deliver, Goto, At
  <2> QED BY <2>1 DEF RowStep, Unsettled
<1>5. ASSUME \/ \E j \in Job : \/ Beat(j) \/ Trigger(j) \/ CountdownOver(j)
                               \/ LockExpires(j) \/ GoStale(j)
             \/ PauseOver \/ Disconnect \/ Reconnect \/ UNCHANGED vars
      PROVE  RowStep(e)
  <2>1. UNCHANGED <<row, pc>>
    BY <1>5 DEF Beat, Trigger, CountdownOver, LockExpires, GoStale, PauseOver,
                Disconnect, Reconnect, runVars, vars
  <2> QED BY <2>1 DEF RowStep
<1> QED BY <1>1, <1>2, <1>3, <1>4, <1>5, StepCases DEF Outside

\* No row is 'running' anywhere else than before its run's last words.
LEMMA RowInvariant == Spec => []RunningIsUnsettled
<1>1. Init => RunningIsUnsettled
  BY DEF Init, RunningIsUnsettled
<1>2. TypeInv /\ RunningIsUnsettled /\ [Next]_vars => RunningIsUnsettled'
  <2> SUFFICES ASSUME TypeInv, RunningIsUnsettled, [Next]_vars,
                      NEW e \in Exec, row'[e] = "running"
               PROVE  pc'[e] \in Unsettled
    BY DEF RunningIsUnsettled
  <2>1. RowStep(e)
    BY EveryStepIsRowStep
  <2> QED BY <2>1 DEF RowStep, RunningIsUnsettled
<1> QED BY <1>1, <1>2, TypeInvariant, PTL DEF Spec

\* A row that is left 'running' has lost its process or has an except clause
\* that raised: no order of a task's steps, quota errors, kicks that fail after
\* completion and retries leaves one behind, on either platform.
THEOREM RowsAreSettledHolds == Spec => RowsAreSettled
<1>1. TypeInv /\ RunningIsUnsettled /\ [Next]_vars =>
        [\A e \in Exec : row[e] = "running" /\ row'[e] = "none" =>
           At(e, "abort") \/ faults' > faults]_vars
  <2> SUFFICES ASSUME TypeInv, RunningIsUnsettled, [Next]_vars, NEW e \in Exec,
                      row[e] = "running", row'[e] = "none"
               PROVE  At(e, "abort") \/ faults' > faults
    OBVIOUS
  <2>1. RowStep(e) /\ pc[e] \in Unsettled
    BY EveryStepIsRowStep DEF RunningIsUnsettled
  <2> QED BY <2>1 DEF RowStep
<1> QED BY <1>1, TypeInvariant, RowInvariant, PTL DEF Spec, RowsAreSettled
=============================================================================
