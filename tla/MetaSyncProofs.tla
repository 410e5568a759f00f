--------------------------- MODULE MetaSyncProofs ---------------------------
(***************************************************************************)
(* Proofs about MetaSync, for any number of accounts, slots, calls and     *)
(* queued copies of a message.                                             *)
(***************************************************************************)
EXTENDS MetaSync, TLAPS

(***************************************************************************)
(* TypeOK is not inductive: a slot that executes something executes a      *)
(* message, and the next call of a run must still be one of its Calls.     *)
(***************************************************************************)
TaskIsMsg == \A e \in Exec : pc[e] # "idle" => task[e] \in Msg

BeforeCalls == {"idle", "read", "guard", "gate", "lock", "insert"}

CallsInBounds ==
  \A e \in Exec :
    /\ pc[e] \in BeforeCalls => calls[e] = 0
    /\ pc[e] \in {"backoff", "call"} => calls[e] < Calls

TypeInv == TypeOK /\ TaskIsMsg /\ CallsInBounds

-----------------------------------------------------------------------------
\* Enqueue never puts more than MaxQueue copies of a message anywhere.
LEMMA EnqueueType ==
  ASSUME NEW q \in [Msg -> 0..MaxQueue], NEW m \in Msg
  PROVE  Enqueue(q, m) \in [Msg -> 0..MaxQueue]
<1>1. MaxQueue \in Nat
  BY MetaSyncAssumption
<1>2. (IF q[m] < MaxQueue THEN q[m] + 1 ELSE q[m]) \in 0..MaxQueue
  BY <1>1
<1> QED BY <1>2 DEF Enqueue

\* The level Meta's header is turned into is one of three.
LEMMA LevelType == \A u : Level(u) \in {"ok", "soft", "hard"}
BY DEF Level

\* A slot that is busy has an account and a job.
LEMMA TaskParts ==
  ASSUME TypeInv, NEW e \in Exec, pc[e] # "idle"
  PROVE  /\ task[e] \in Msg
         /\ AcctOf(e) \in Account
         /\ JobOf(e) \in Job
BY DEF TypeInv, TaskIsMsg, Msg, AcctOf, JobOf

\* A slot that ends its task keeps what TypeInv says of slots.
LEMMA ReturnKeepsRun ==
  ASSUME TypeInv, NEW e \in Exec, Return(e)
  PROVE  /\ pc' \in [Exec -> Pc]
         /\ task' \in [Exec -> Msg \cup {NoTask}]
         /\ calls' \in [Exec -> 0..Calls]
         /\ row' \in [Exec -> RowStatus]
         /\ TaskIsMsg'
         /\ CallsInBounds'
<1> USE MetaSyncAssumption DEF TypeInv, TypeOK, Return, Goto
<1>1. /\ pc' \in [Exec -> Pc]
      /\ task' \in [Exec -> Msg \cup {NoTask}]
  BY DEF Pc
<1>2. /\ calls' \in [Exec -> 0..Calls]
      /\ row' \in [Exec -> RowStatus]
  BY DEF RowStatus
<1>3. TaskIsMsg'
  BY DEF TaskIsMsg
<1>4. CallsInBounds'
  BY DEF CallsInBounds, BeforeCalls
<1> QED BY <1>1, <1>2, <1>3, <1>4

\* So does one that only goes from one step to another, if it does not skip the
\* calls' bookkeeping.
LEMMA GotoKeepsRun ==
  ASSUME TypeInv, NEW e \in Exec, NEW step \in Pc \ {"idle"}, Goto(e, step),
         pc[e] # "idle",
         UNCHANGED <<task, calls>>,
         row' \in [Exec -> RowStatus],
         \/ pc[e] \in BeforeCalls
         \/ pc[e] \in {"backoff", "call"} /\ step \notin BeforeCalls
         \/ step \notin BeforeCalls \cup {"backoff", "call"}
  PROVE  /\ pc' \in [Exec -> Pc]
         /\ task' \in [Exec -> Msg \cup {NoTask}]
         /\ calls' \in [Exec -> 0..Calls]
         /\ TaskIsMsg'
         /\ CallsInBounds'
<1> USE MetaSyncAssumption DEF TypeInv, TypeOK, Goto
<1>1. pc' \in [Exec -> Pc]
  OBVIOUS
<1>2. TaskIsMsg'
  BY DEF TaskIsMsg
<1>3. CallsInBounds'
  BY DEF CallsInBounds, BeforeCalls
<1> QED BY <1>1, <1>2, <1>3

\* The steps that end a run or send a slot back to waiting keep every type.
LEMMA TypeStepBeforeLock ==
  ASSUME TypeInv, NEW e \in Exec,
         \/ ReadStructure(e) \/ ReadInsights(e) \/ GuardInsights(e)
         \/ ReadBreakdown(e) \/ Gate(e) \/ AcquireLock(e)
  PROVE  TypeInv'
<1> DEFINE RunOK == /\ pc' \in [Exec -> Pc]
                    /\ task' \in [Exec -> Msg \cup {NoTask}]
                    /\ calls' \in [Exec -> 0..Calls]
                    /\ row' \in [Exec -> RowStatus]
                    /\ TaskIsMsg'
                    /\ CallsInBounds'
           Untouched == UNCHANGED <<rateVars, metaVars, dbVars, faults>>
<1> USE MetaSyncAssumption
<1>1. pc[e] # "idle" /\ pc[e] \in BeforeCalls
  BY DEF ReadStructure, ReadInsights, GuardInsights, ReadBreakdown, Gate,
         AcquireLock, At, BeforeCalls
<1>2. ASSUME NEW step \in Pc \ {"idle"}, Goto(e, step), UNCHANGED <<task, calls, row>>
      PROVE  RunOK
  <2>1. row' \in [Exec -> RowStatus]
    BY <1>2 DEF TypeInv, TypeOK
  <2> QED BY <1>1, <1>2, <2>1, GotoKeepsRun
<1>3. ASSUME Return(e) PROVE RunOK
  BY <1>3, ReturnKeepsRun
<1>4. RunOK
  <2>1. \/ Return(e)
        \/ UNCHANGED <<task, calls, row>> /\ \E step \in Pc \ {"idle"} : Goto(e, step)
    <3>1. {"gate", "guard", "lock", "insert"} \subseteq Pc \ {"idle"}
      BY DEF Pc
    <3> QED
      BY <3>1 DEF ReadStructure, ReadInsights, GuardInsights, ReadBreakdown,
                  Gate, AcquireLock
  <2> QED BY <2>1, <1>2, <1>3
<1>5. Untouched
  BY DEF ReadStructure, ReadInsights, GuardInsights, ReadBreakdown, Gate,
         AcquireLock
<1>6. /\ queue' \in [Msg -> 0..MaxQueue]
      /\ delayed' \in [Msg -> 0..MaxQueue]
  <2>1. task[e] \in Msg /\ <<AcctOf(e), "structure">> \in Msg
    BY <1>1, TaskParts DEF Msg
  <2>2. /\ queue' = queue \/ queue' = Enqueue(queue, <<AcctOf(e), "structure">>)
        /\ delayed' = delayed \/ delayed' = Enqueue(delayed, task[e])
    BY DEF ReadStructure, ReadInsights, GuardInsights, ReadBreakdown, Gate,
           AcquireLock, mqVars
  <2>3. queue \in [Msg -> 0..MaxQueue] /\ delayed \in [Msg -> 0..MaxQueue]
    BY DEF TypeInv, TypeOK
  <2>4. /\ Enqueue(queue, <<AcctOf(e), "structure">>) \in [Msg -> 0..MaxQueue]
        /\ Enqueue(delayed, task[e]) \in [Msg -> 0..MaxQueue]
    BY <2>1, <2>3, EnqueueType
  <2> QED BY <2>2, <2>3, <2>4
<1>7. lock' \in [Msg -> Exec \cup {Free, Orphan}]
  <2>1. lock' = lock \/ lock' = [lock EXCEPT ![task[e]] = e]
    BY DEF ReadStructure, ReadInsights, GuardInsights, ReadBreakdown, Gate,
           AcquireLock
  <2> QED BY <2>1 DEF TypeInv, TypeOK
<1> QED
  BY <1>4, <1>5, <1>6, <1>7
     DEF TypeInv, TypeOK, rateVars, metaVars, dbVars

\* Nor do the calls, which never make more than Calls of them.
LEMMA TypeStepCalls ==
  ASSUME TypeInv, NEW e \in Exec,
         \/ Backoff(e) \/ CallOk(e) \/ CallRateLimited(e)
         \/ PauseConnection(e) \/ RunFails(e) \/ HandlerFails(e)
  PROVE  TypeInv'
<1> USE MetaSyncAssumption
<1> DEFINE Other == Backoff(e) \/ CallRateLimited(e) \/ PauseConnection(e)
                    \/ RunFails(e) \/ HandlerFails(e)
<1>1. pc[e] # "idle"
  BY DEF Backoff, CallOk, CallRateLimited, PauseConnection, RunFails, HandlerFails,
         TryBody, At
<1>2. /\ UNCHANGED <<mqVars, lock, dbVars, task, row, remote>>
      /\ faults' \in 0..MaxFaults
      /\ paused' \in BOOLEAN
  <2>1. UNCHANGED <<mqVars, lock, dbVars, task, row, remote>>
    BY DEF Backoff, CallOk, CallRateLimited, PauseConnection, RunFails, HandlerFails,
           metaVars
  <2>2. faults' = faults \/ (faults < MaxFaults /\ faults' = faults + 1)
    BY DEF Backoff, CallOk, CallRateLimited, PauseConnection, RunFails, HandlerFails, Fault
  <2>3. paused' \in BOOLEAN
    BY DEF Backoff, CallOk, CallRateLimited, PauseConnection, RunFails, HandlerFails,
           TypeInv, TypeOK, rateVars
  <2> QED BY <2>1, <2>2, <2>3 DEF TypeInv, TypeOK
<1>3. /\ pct' \in [Account -> {"ok", "soft", "hard"}]
      /\ usage' \in 0..Quota
  BY LevelType DEF Backoff, CallOk, CallRateLimited, PauseConnection, RunFails,
                   HandlerFails, TypeInv, TypeOK,
                   rateVars, metaVars
<1>4. spent' \in [Exec -> 0..(Calls + 1)]
  <2>1. (IF paused /\ spent[e] <= Calls THEN spent[e] + 1 ELSE spent[e]) \in 0..(Calls + 1)
    BY DEF TypeInv, TypeOK
  <2>2. spent' = spent \/ spent' = SpentAfterCall(e)
    BY DEF Backoff, CallOk, CallRateLimited, PauseConnection, RunFails, HandlerFails,
           rateVars
  <2> QED BY <2>1, <2>2 DEF SpentAfterCall, TypeInv, TypeOK
<1>5. /\ pc' \in [Exec -> Pc]
      /\ calls' \in [Exec -> 0..Calls]
      /\ TaskIsMsg'
      /\ CallsInBounds'
  <2>1. CASE CallOk(e)
    <3>1. calls[e] \in 0..Calls /\ calls[e] < Calls
      BY <2>1 DEF CallOk, At, TypeInv, TypeOK, CallsInBounds
    <3>2. calls' \in [Exec -> 0..Calls]
      BY <2>1, <3>1 DEF CallOk, TypeInv, TypeOK
    <3>3. pc' \in [Exec -> Pc] /\ TaskIsMsg'
      BY <2>1, <1>1 DEF CallOk, Goto, TypeInv, TypeOK, TaskIsMsg, Pc
    <3>4. CallsInBounds'
      BY <2>1, <3>1
         DEF CallOk, Goto, At, TypeInv, TypeOK, CallsInBounds, BeforeCalls, Pc
    <3> QED BY <3>2, <3>3, <3>4
  <2>2. CASE Other
    <3>1. {"call", "skip", "fail", "pause", "abort"} \subseteq Pc \ ({"idle"} \cup BeforeCalls)
      BY DEF Pc, BeforeCalls
    <3>2. UNCHANGED calls
      BY <2>2 DEF Backoff, CallRateLimited, PauseConnection, RunFails, HandlerFails
    <3>3. row' \in [Exec -> RowStatus]
      BY <1>2 DEF TypeInv, TypeOK
    <3>4. PICK step \in {"call", "skip", "fail", "pause", "abort"} :
            /\ Goto(e, step)
            /\ step = "call" => pc[e] = "backoff"
      BY <2>2 DEF Backoff, CallRateLimited, PauseConnection, RunFails, HandlerFails,
                  TryBody, At
    <3> QED BY <1>1, <1>2, <3>1, <3>2, <3>3, <3>4, GotoKeepsRun
  <2> QED BY <2>1, <2>2
<1> QED
  BY <1>2, <1>3, <1>4, <1>5 DEF TypeInv, TypeOK, mqVars, dbVars

\* The steps that write: rows, results, and the message that is sent again.
LEMMA TypeStepWrites ==
  ASSUME TypeInv, NEW e \in Exec,
         \/ CreateJob(e) \/ WriteStructure(e) \/ WriteMetrics(e)
         \/ WriteBreakdown(e) \/ Finish(e) \/ FinalizeSkipped(e)
         \/ FinalizeFailed(e) \/ Requeue(e)
  PROVE  TypeInv'
<1> USE DEF CreateJob, WriteStructure, WriteMetrics, WriteBreakdown, Finish,
            FinalizeSkipped, FinalizeFailed, Requeue
<1>1. pc[e] # "idle" /\ (pc[e] \in BeforeCalls <=> pc[e] = "insert")
  BY DEF At, BeforeCalls
<1>2. UNCHANGED <<queue, lock, remote, active, rateVars, metaVars, faults>>
  BY DEF mqVars, dbVars, metaVars
<1>3. delayed' \in [Msg -> 0..MaxQueue]
  <2>1. delayed' = delayed \/ delayed' = Enqueue(delayed, task[e])
    BY DEF mqVars
  <2>2. Enqueue(delayed, task[e]) \in [Msg -> 0..MaxQueue]
    BY <1>1, TaskParts, EnqueueType DEF TypeInv, TypeOK
  <2> QED BY <2>1, <2>2 DEF TypeInv, TypeOK
<1>4. /\ fresh' \in [Msg -> BOOLEAN]
      /\ structureDone' \in [Account -> BOOLEAN]
  <2>1. fresh' = fresh \/ fresh' = [fresh EXCEPT ![task[e]] = TRUE]
    BY DEF dbVars
  <2>2. \/ structureDone' = structureDone
        \/ structureDone' = [structureDone EXCEPT ![AcctOf(e)] = TRUE]
    BY DEF dbVars
  <2> QED BY <2>1, <2>2 DEF TypeInv, TypeOK
<1>5. camps' \in [Account -> BOOLEAN]
  <2>1. \/ camps' = camps
        \/ camps' = [camps EXCEPT ![AcctOf(e)] = @ \/ remote[AcctOf(e)]]
    BY DEF dbVars
  <2> QED BY <2>1 DEF TypeInv, TypeOK
<1>6. /\ UNCHANGED <<task, calls>>
      /\ row' \in [Exec -> RowStatus]
  <2>1. /\ UNCHANGED <<task, calls>>
        /\ \/ row' = row
           \/ \E status \in {"running", "completed", "skipped", "failed"} :
                row' = [row EXCEPT ![e] = status]
    BY DEF Settle
  <2> QED BY <2>1 DEF TypeInv, TypeOK, RowStatus
<1>7. \E step \in {"backoff", "finish", "release", "requeue"} :
        Goto(e, step) /\ (step = "backoff" => pc[e] = "insert")
  BY DEF Settle, At
<1>8. {"backoff", "finish", "release", "requeue"} \subseteq Pc \ ({"idle"} \cup BeforeCalls)
  BY DEF Pc, BeforeCalls
<1>9. /\ pc' \in [Exec -> Pc]
      /\ TaskIsMsg'
      /\ CallsInBounds'
  BY <1>1, <1>6, <1>7, <1>8, GotoKeepsRun
<1> QED
  BY <1>2, <1>3, <1>4, <1>5, <1>6, <1>9
     DEF TypeInv, TypeOK, rateVars, metaVars

\* A slot is done with its message, alive or dead.
LEMMA TypeStepEnds ==
  ASSUME TypeInv, NEW e \in Exec,
         \/ CreateJobFails(e) \/ ReleaseLock(e) \/ ReleaseFails(e)
         \/ Kick(e) \/ KickFails(e) \/ Crash(e)
  PROVE  TypeInv'
<1> USE MetaSyncAssumption
<1>1. pc[e] # "idle"
  BY DEF CreateJobFails, ReleaseLock, ReleaseFails, LeaveTry, Kick, KickFails, Crash, At
<1>2. task[e] \in Msg /\ <<AcctOf(e), "insights_daily">> \in Account \X AllJobs
  BY <1>1, TaskParts DEF AllJobs
<1>3. UNCHANGED <<delayed, dbVars, rateVars, metaVars>>
  BY DEF CreateJobFails, ReleaseLock, ReleaseFails, LeaveTry, Kick, KickFails, Crash, mqVars
<1>4. queue' \in [Msg -> 0..MaxQueue]
  <2>1. \/ queue' = queue
        \/ queue' = Enqueue(queue, task[e])
        \/ /\ "insights_daily" \in Job
           /\ queue' = Enqueue(queue, <<AcctOf(e), "insights_daily">>)
    BY DEF CreateJobFails, ReleaseLock, ReleaseFails, LeaveTry, Kick, KickFails,
           Crash, mqVars
  <2>2. "insights_daily" \in Job => <<AcctOf(e), "insights_daily">> \in Msg
    BY <1>1, TaskParts DEF Msg
  <2> QED BY <1>2, <2>1, <2>2, EnqueueType DEF TypeInv, TypeOK
<1>5. lock' \in [Msg -> Exec \cup {Free, Orphan}]
  <2>1. \/ lock' = lock
        \/ \E l \in {Free, Orphan} : lock' = [lock EXCEPT ![task[e]] = l]
    BY DEF CreateJobFails, ReleaseLock, ReleaseFails, LeaveTry, Kick, KickFails, Crash
  <2> QED BY <2>1 DEF TypeInv, TypeOK
<1>6. faults' \in 0..MaxFaults
  <2>1. faults' = faults \/ (faults < MaxFaults /\ faults' = faults + 1)
    BY DEF CreateJobFails, ReleaseLock, ReleaseFails, LeaveTry, Kick, KickFails,
           Crash, Fault
  <2> QED BY <2>1 DEF TypeInv, TypeOK
<1>7. /\ pc' \in [Exec -> Pc]
      /\ task' \in [Exec -> Msg \cup {NoTask}]
      /\ calls' \in [Exec -> 0..Calls]
      /\ row' \in [Exec -> RowStatus]
      /\ TaskIsMsg'
      /\ CallsInBounds'
  <2>1. CASE Return(e)
    BY <2>1, ReturnKeepsRun
  <2>2. CASE Goto(e, "kick") /\ UNCHANGED <<task, calls, row>>
    <3>1. "kick" \in Pc \ {"idle"} /\ "kick" \notin BeforeCalls \cup {"backoff", "call"}
      BY DEF Pc, BeforeCalls
    <3>2. row' \in [Exec -> RowStatus]
      BY <2>2 DEF TypeInv, TypeOK
    <3> QED BY <1>1, <2>2, <3>1, <3>2, GotoKeepsRun
  <2> QED
    BY <2>1, <2>2 DEF CreateJobFails, ReleaseLock, ReleaseFails, LeaveTry, Kick,
                      KickFails, Crash
<1> QED
  BY <1>3, <1>4, <1>5, <1>6, <1>7
     DEF TypeInv, TypeOK, dbVars, rateVars, metaVars

\* What is not done by a busy slot: deliveries, timers, Beat, the platform and
\* the users.
LEMMA TypeStepOutside ==
  ASSUME TypeInv,
         \/ Clocks \/ Users
         \/ \E m \in Msg : Beat(m) \/ \E e \in Exec : Deliver(e, m)
  PROVE  TypeInv'
<1> USE MetaSyncAssumption
<1>1. ASSUME NEW m \in Msg, CountdownOver(m) \/ Beat(m) PROVE TypeInv'
  <2>1. Enqueue(queue, m) \in [Msg -> 0..MaxQueue]
    BY EnqueueType DEF TypeInv, TypeOK
  <2>2. delayed' \in [Msg -> 0..MaxQueue]
    BY <1>1 DEF CountdownOver, Beat, TypeInv, TypeOK
  <2> QED
    BY <1>1, <2>1, <2>2
       DEF CountdownOver, Beat, TypeInv, TypeOK, TaskIsMsg, CallsInBounds,
           runVars, dbVars, rateVars, metaVars
<1>2. ASSUME NEW m \in Msg, NEW e \in Exec, Deliver(e, m) PROVE TypeInv'
  <2>1. queue' \in [Msg -> 0..MaxQueue]
    BY <1>2 DEF Deliver, TypeInv, TypeOK
  <2>2. /\ pc' \in [Exec -> Pc]
        /\ task' \in [Exec -> Msg \cup {NoTask}]
        /\ TaskIsMsg'
    BY <1>2 DEF Deliver, Goto, At, TypeInv, TypeOK, TaskIsMsg, Pc
  <2>3. CallsInBounds'
    BY <1>2 DEF Deliver, Goto, At, TypeInv, TypeOK, CallsInBounds, BeforeCalls
  <2> QED
    BY <1>2, <2>1, <2>2, <2>3
       DEF Deliver, TypeInv, TypeOK, dbVars, rateVars, metaVars
<1>3. ASSUME NEW m \in Msg, LockExpires(m) \/ GoStale(m) PROVE TypeInv'
  BY <1>3 DEF LockExpires, GoStale, TypeInv, TypeOK, TaskIsMsg, CallsInBounds,
              runVars, mqVars, dbVars, rateVars, metaVars
<1>4. ASSUME NEW a \in Account, Prune(a) \/ PctExpires(a) \/ CampaignCreated(a)
      PROVE  TypeInv'
  BY <1>4 DEF Prune, PctExpires, CampaignCreated, TypeInv, TypeOK, TaskIsMsg,
              CallsInBounds, runVars, mqVars, dbVars, rateVars, metaVars
<1>5. ASSUME PauseOver \/ UsageResets PROVE TypeInv'
  <2>1. /\ spent' \in [Exec -> 0..(Calls + 1)]
        /\ usage' \in 0..Quota
        /\ paused' \in BOOLEAN
    <3>1. [f \in Exec |-> 0] \in [Exec -> 0..(Calls + 1)] /\ 0 \in 0..Quota
      OBVIOUS
    <3>2. /\ spent' = spent \/ spent' = [f \in Exec |-> 0]
          /\ usage' = usage \/ usage' = 0
          /\ paused' = paused \/ paused' = FALSE
      BY <1>5 DEF PauseOver, UsageResets, rateVars, metaVars
    <3> QED BY <3>1, <3>2 DEF TypeInv, TypeOK
  <2>2. UNCHANGED <<runVars, mqVars, lock, dbVars, pct, remote, faults>>
    BY <1>5 DEF PauseOver, UsageResets, rateVars, metaVars
  <2> QED
    BY <2>1, <2>2
       DEF TypeInv, TypeOK, TaskIsMsg, CallsInBounds, runVars, mqVars, dbVars
<1>6. ASSUME Disconnect \/ Reconnect PROVE TypeInv'
  <2>1. queue' \in [Msg -> 0..MaxQueue]
    BY <1>6 DEF Disconnect, Reconnect, TypeInv, TypeOK, mqVars
  <2> QED
    BY <1>6, <2>1
       DEF Disconnect, Reconnect, TypeInv, TypeOK, TaskIsMsg, CallsInBounds,
           runVars, mqVars, rateVars, metaVars
<1> QED
  BY <1>1, <1>2, <1>3, <1>4, <1>5, <1>6 DEF Clocks, Users

-----------------------------------------------------------------------------
\* The type invariant and what it rests on are inductive.
LEMMA TypeInvariant == Spec => []TypeInv
<1>1. Init => TypeInv
  <2> SUFFICES ASSUME Init PROVE TypeInv
    OBVIOUS
  <2> USE MetaSyncAssumption DEF Init
  <2>1. spent \in [Exec -> 0..(Calls + 1)]
    OBVIOUS
  <2>2. pc \in [Exec -> Pc] /\ row \in [Exec -> RowStatus]
    BY DEF Pc, RowStatus
  <2>3. TaskIsMsg /\ CallsInBounds
    BY DEF TaskIsMsg, CallsInBounds
  <2>4. /\ queue \in [Msg -> 0..MaxQueue] /\ delayed \in [Msg -> 0..MaxQueue]
        /\ calls \in [Exec -> 0..Calls] /\ usage \in 0..Quota /\ faults \in 0..MaxFaults
    OBVIOUS
  <2>5. /\ task \in [Exec -> Msg \cup {NoTask}]
        /\ lock \in [Msg -> Exec \cup {Free, Orphan}]
        /\ pct \in [Account -> {"ok", "soft", "hard"}]
    OBVIOUS
  <2>6. /\ fresh \in [Msg -> BOOLEAN] /\ structureDone \in [Account -> BOOLEAN]
        /\ camps \in [Account -> BOOLEAN] /\ remote \in [Account -> BOOLEAN]
        /\ active \in BOOLEAN /\ paused \in BOOLEAN
    OBVIOUS
  <2> HIDE DEF Init
  <2> QED BY <2>1, <2>2, <2>3, <2>4, <2>5, <2>6 DEF TypeInv, TypeOK
<1>2. TypeInv /\ [Next]_vars => TypeInv'
  <2> SUFFICES ASSUME TypeInv, [Next]_vars PROVE TypeInv'
    OBVIOUS
  <2>1. ASSUME NEW e \in Exec, Progress(e) \/ Faulty(e) PROVE TypeInv'
    BY <2>1, TypeStepBeforeLock, TypeStepCalls, TypeStepWrites, TypeStepEnds
       DEF Progress, Faulty
  <2>2. CASE Clocks \/ Users \/ \E m \in Msg : Beat(m) \/ \E e \in Exec : Deliver(e, m)
    BY <2>2, TypeStepOutside
  <2>3. CASE UNCHANGED vars
    BY <2>3 DEF vars, TypeInv, TypeOK, TaskIsMsg, CallsInBounds
  <2> QED BY <2>1, <2>2, <2>3 DEF Next, Pipeline
<1> QED BY <1>1, <1>2, PTL DEF Spec

\* Every variable of the pipeline keeps its type: no run makes more calls than
\* it has, no queue grows over its bound, no row gets a status of its own.
THEOREM TypeCorrect == Spec => []TypeOK
<1>1. TypeInv => TypeOK
  BY DEF TypeInv
<1> QED BY <1>1, TypeInvariant, PTL

-----------------------------------------------------------------------------
(***************************************************************************)
(* A working run holds the lock of its message.  The converse is not       *)
(* needed: a lock that names a slot which is gone only refuses newcomers.  *)
(***************************************************************************)
WorkingHoldsLock == \A e \in Exec : pc[e] \in Working => lock[task[e]] = e

\* A slot that is not working after the step, and that has not touched a lock
\* another slot holds, does not disturb the holders.
LEMMA HoldersUndisturbed ==
  ASSUME TypeInv, WorkingHoldsLock, NEW e \in Exec,
         \A f \in Exec \ {e} : pc'[f] = pc[f] /\ task'[f] = task[f],
         pc'[e] \in Working => pc[e] \in Working /\ task'[e] = task[e] /\ lock' = lock,
         \/ lock' = lock
         \/ /\ pc[e] # "idle" /\ lock[task[e]] = e
            /\ \E l : lock' = [lock EXCEPT ![task[e]] = l]
  PROVE  WorkingHoldsLock'
<1> SUFFICES ASSUME NEW f \in Exec, pc'[f] \in Working
             PROVE  lock'[task'[f]] = f
  BY DEF WorkingHoldsLock
<1>1. CASE f = e
  BY <1>1 DEF WorkingHoldsLock
<1>2. CASE f # e
  <2>1. pc[f] \in Working /\ task'[f] = task[f] /\ lock[task[f]] = f
    BY <1>2 DEF WorkingHoldsLock
  <2>2. task[f] \in Msg
    BY <2>1 DEF TypeInv, TaskIsMsg, Working
  <2>3. CASE lock' = lock
    BY <2>1, <2>3
  <2>4. ASSUME pc[e] # "idle", lock[task[e]] = e,
               NEW l, lock' = [lock EXCEPT ![task[e]] = l]
        PROVE  lock'[task'[f]] = f
    <3>1. task[f] # task[e]
      BY <1>2, <2>1, <2>4
    <3> QED BY <2>1, <2>2, <2>4, <3>1 DEF TypeInv, TypeOK
  <2> QED BY <2>3, <2>4
<1> QED BY <1>1, <1>2

\* The holders of the locks are the working runs in every reachable state.
LEMMA HolderInvariant == Spec => []WorkingHoldsLock
<1>1. Init => WorkingHoldsLock
  BY DEF Init, WorkingHoldsLock, Working
<1>2. TypeInv /\ WorkingHoldsLock /\ [Next]_vars => WorkingHoldsLock'
  <2> SUFFICES ASSUME TypeInv, WorkingHoldsLock, [Next]_vars
               PROVE  WorkingHoldsLock'
    OBVIOUS
  <2> USE DEF TypeInv, TypeOK
  <2>1. ASSUME NEW e \in Exec, AcquireLock(e) PROVE WorkingHoldsLock'
    <3>1. CASE lock[task[e]] = Free
      <4>1. /\ lock' = [lock EXCEPT ![task[e]] = e]
            /\ pc' = [pc EXCEPT ![e] = "insert"]
            /\ task' = task
        BY <2>1, <3>1 DEF AcquireLock, Goto
      <4>2. task[e] \in Msg
        BY <2>1, TaskParts DEF AcquireLock, At
      <4>3. \A f \in Exec \ {e} : pc[f] \in Working => task[f] # task[e]
        BY <3>1, MetaSyncAssumption DEF WorkingHoldsLock
      <4> QED BY <4>1, <4>2, <4>3 DEF WorkingHoldsLock
    <3>2. CASE lock[task[e]] # Free
      <4>1. Return(e) /\ lock' = lock
        BY <2>1, <3>2 DEF AcquireLock
      <4> QED
        BY <4>1, HoldersUndisturbed DEF Return, Goto, Working
    <3> QED BY <3>1, <3>2
  <2>2. ASSUME NEW e \in Exec,
               \/ ReadStructure(e) \/ ReadInsights(e) \/ GuardInsights(e)
               \/ ReadBreakdown(e) \/ Gate(e) \/ Kick(e) \/ KickFails(e)
        PROVE  WorkingHoldsLock'
    <3>1. /\ lock' = lock
          /\ \A f \in Exec \ {e} : pc'[f] = pc[f] /\ task'[f] = task[f]
          /\ pc'[e] \notin Working
      BY <2>2 DEF ReadStructure, ReadInsights, GuardInsights, ReadBreakdown,
                  Gate, Kick, KickFails, Return, Goto, Working
    <3> QED BY <3>1, HoldersUndisturbed
  <2>3. ASSUME NEW e \in Exec,
               \/ CreateJob(e) \/ Backoff(e) \/ CallOk(e) \/ CallRateLimited(e)
               \/ WriteStructure(e) \/ WriteMetrics(e) \/ WriteBreakdown(e)
               \/ Finish(e) \/ FinalizeSkipped(e) \/ FinalizeFailed(e)
               \/ Requeue(e) \/ PauseConnection(e) \/ RunFails(e) \/ HandlerFails(e)
        PROVE  WorkingHoldsLock'
    <3>1. pc[e] \in Working /\ task' = task /\ lock' = lock
      BY <2>3 DEF CreateJob, Backoff, CallOk, CallRateLimited, WriteStructure,
                  WriteMetrics, WriteBreakdown, Finish, FinalizeSkipped,
                  FinalizeFailed, Requeue, PauseConnection, RunFails,
                  HandlerFails, TryBody, Settle, At, Working
    <3>2. \E step : pc' = [pc EXCEPT ![e] = step]
      BY <2>3 DEF CreateJob, Backoff, CallOk, CallRateLimited, WriteStructure,
                  WriteMetrics, WriteBreakdown, Finish, FinalizeSkipped,
                  FinalizeFailed, Requeue, PauseConnection, RunFails,
                  HandlerFails, TryBody, Settle, Goto
    <3> QED BY <3>1, <3>2, HoldersUndisturbed
  <2>4. ASSUME NEW e \in Exec,
               \/ CreateJobFails(e) \/ ReleaseLock(e) \/ ReleaseFails(e) \/ Crash(e)
        PROVE  WorkingHoldsLock'
    <3>1. /\ \A f \in Exec \ {e} : pc'[f] = pc[f] /\ task'[f] = task[f]
          /\ pc'[e] \notin Working
          /\ pc[e] # "idle"
      BY <2>4 DEF CreateJobFails, ReleaseLock, ReleaseFails, LeaveTry, Crash, Return,
                  Goto, Working, At
    <3>2. \/ lock' = lock
          \/ /\ lock[task[e]] = e
             /\ \E l : lock' = [lock EXCEPT ![task[e]] = l]
      BY <2>4 DEF CreateJobFails, ReleaseLock, ReleaseFails, LeaveTry, Crash, At,
                  Working, WorkingHoldsLock
    <3> QED BY <3>1, <3>2, HoldersUndisturbed
  <2>5. ASSUME NEW m \in Msg, NEW e \in Exec, Deliver(e, m)
        PROVE  WorkingHoldsLock'
    <3>1. /\ lock' = lock
          /\ \A f \in Exec \ {e} : pc'[f] = pc[f] /\ task'[f] = task[f]
          /\ pc'[e] \notin Working
      BY <2>5 DEF Deliver, Goto, Working
    <3> QED BY <3>1, HoldersUndisturbed
  <2>6. ASSUME NEW m \in Msg, LockExpires(m) PROVE WorkingHoldsLock'
    <3>1. \A f \in Exec : pc[f] \in Working => task[f] # m
      BY <2>6, MetaSyncAssumption DEF LockExpires, WorkingHoldsLock
    <3> QED BY <2>6, <3>1 DEF LockExpires, WorkingHoldsLock, runVars
  <2>7. CASE UNCHANGED <<pc, task, lock>>
    BY <2>7 DEF WorkingHoldsLock
  <2>8. CASE \/ Users \/ PauseOver \/ UsageResets
             \/ \E m \in Msg : Beat(m) \/ CountdownOver(m) \/ GoStale(m)
             \/ \E a \in Account : Prune(a) \/ PctExpires(a)
    BY <2>7, <2>8 DEF Users, Disconnect, Reconnect, CampaignCreated, PauseOver,
       UsageResets, Beat, CountdownOver, GoStale, Prune, PctExpires, runVars
  <2>9. CASE UNCHANGED vars
    BY <2>7, <2>9 DEF vars
  <2> QED
    BY <2>1, <2>2, <2>3, <2>4, <2>5, <2>6, <2>8, <2>9
       DEF Next, Pipeline, Clocks, Progress, Faulty
<1> QED BY <1>1, <1>2, TypeInvariant, PTL DEF Spec

\* Two runs of one job for one account never work at the same time, for any
\* number of slots, accounts, errors and crashes, as the overlap guards in
\* structure.py and insights.py intend.
THEOREM OneRunPerJobHolds == Spec => []OneRunPerJob
<1>1. WorkingHoldsLock => OneRunPerJob
  BY DEF WorkingHoldsLock, OneRunPerJob
<1> QED BY <1>1, HolderInvariant, PTL

-----------------------------------------------------------------------------
(* The lock implements single flight *)

\* Nobody but a working run is named by a lock, and only by that of its message.
HolderWorks ==
  \A m \in Msg, e \in Exec : lock[m] = e => pc[e] \in Working /\ task[e] = m

\* What a step may do to the slots and the locks: a key expires, or one slot
\* stays outside, works on, takes the lock or goes.
LockMove ==
  \/ UNCHANGED <<pc, task, lock>>
  \/ /\ UNCHANGED <<pc, task>>
     /\ \E m \in Msg : lock[m] = Orphan /\ lock' = [lock EXCEPT ![m] = Free]
  \/ \E e \in Exec :
       /\ \A f \in Exec \ {e} : pc'[f] = pc[f] /\ task'[f] = task[f]
       /\ \/ pc[e] \notin Working /\ pc'[e] \notin Working /\ lock' = lock
          \/ pc[e] \in Working /\ pc'[e] \in Working /\ task'[e] = task[e] /\ lock' = lock
          \/ /\ pc[e] \notin Working /\ pc'[e] \in Working /\ task'[e] = task[e]
             /\ task[e] \in Msg /\ lock[task[e]] = Free
             /\ lock' = [lock EXCEPT ![task[e]] = e]
          \/ /\ pc[e] \in Working /\ pc'[e] \notin Working
             /\ \E l \in {Free, Orphan} : lock' = [lock EXCEPT ![task[e]] = l]

\* Every step is one of these.
LEMMA EveryStepIsLockMove ==
  ASSUME TypeInv, WorkingHoldsLock, HolderWorks, [Next]_vars
  PROVE  LockMove
<1> USE DEF TypeInv, TypeOK
<1>1. ASSUME NEW e \in Exec, AcquireLock(e) PROVE LockMove
  <2>1. task[e] \in Msg /\ pc[e] \notin Working
    BY <1>1, TaskParts DEF AcquireLock, At, Working
  <2>2. CASE lock[task[e]] = Free
    <3>1. /\ lock' = [lock EXCEPT ![task[e]] = e]
          /\ pc' = [pc EXCEPT ![e] = "insert"]
          /\ task' = task
      BY <1>1, <2>2 DEF AcquireLock, Goto
    <3>2. pc'[e] \in Working
      BY <3>1 DEF Working
    <3> QED BY <2>1, <2>2, <3>1, <3>2 DEF LockMove
  <2>3. CASE lock[task[e]] # Free
    <3>1. Return(e) /\ lock' = lock
      BY <1>1, <2>3 DEF AcquireLock
    <3> QED BY <2>1, <3>1 DEF Return, Goto, Working, LockMove
  <2> QED BY <2>2, <2>3
<1>2. ASSUME NEW e \in Exec,
             \/ ReadStructure(e) \/ ReadInsights(e) \/ GuardInsights(e)
             \/ ReadBreakdown(e) \/ Gate(e) \/ Kick(e) \/ KickFails(e)
      PROVE  LockMove
  <2>1. /\ lock' = lock
        /\ \A f \in Exec \ {e} : pc'[f] = pc[f] /\ task'[f] = task[f]
        /\ pc[e] \notin Working /\ pc'[e] \notin Working
    BY <1>2 DEF ReadStructure, ReadInsights, GuardInsights, ReadBreakdown,
                Gate, Kick, KickFails, Return, Goto, Working, At
  <2> QED BY <2>1 DEF LockMove
<1>3. ASSUME NEW e \in Exec,
             \/ CreateJob(e) \/ Backoff(e) \/ CallOk(e) \/ CallRateLimited(e)
             \/ WriteStructure(e) \/ WriteMetrics(e) \/ WriteBreakdown(e)
             \/ Finish(e) \/ FinalizeSkipped(e) \/ FinalizeFailed(e)
             \/ Requeue(e) \/ PauseConnection(e) \/ RunFails(e) \/ HandlerFails(e)
      PROVE  LockMove
  <2>1. pc[e] \in Working /\ task' = task /\ lock' = lock
    BY <1>3 DEF CreateJob, Backoff, CallOk, CallRateLimited, WriteStructure,
                WriteMetrics, WriteBreakdown, Finish, FinalizeSkipped,
                FinalizeFailed, Requeue, PauseConnection, RunFails,
                  HandlerFails, TryBody, Settle, At, Working
  <2>2. \E step \in Working : pc' = [pc EXCEPT ![e] = step]
    BY <1>3 DEF CreateJob, Backoff, CallOk, CallRateLimited, WriteStructure,
                WriteMetrics, WriteBreakdown, Finish, FinalizeSkipped,
                FinalizeFailed, Requeue, PauseConnection, RunFails,
                  HandlerFails, TryBody, Settle, Goto, Working
  <2> QED BY <2>1, <2>2 DEF LockMove
<1>4. ASSUME NEW e \in Exec,
               \/ CreateJobFails(e) \/ ReleaseLock(e) \/ ReleaseFails(e) \/ Crash(e)
      PROVE  LockMove
  <2>1. /\ \A f \in Exec \ {e} : pc'[f] = pc[f] /\ task'[f] = task[f]
        /\ pc'[e] \notin Working
        /\ task[e] \in Msg
    BY <1>4, TaskParts DEF CreateJobFails, ReleaseLock, ReleaseFails, LeaveTry,
                           Crash, Return, Goto, Working, At
  <2>2. CASE pc[e] \in Working
    <3>1. \E l \in {Free, Orphan} : lock' = [lock EXCEPT ![task[e]] = l]
      BY <1>4, <2>2 DEF CreateJobFails, ReleaseLock, ReleaseFails, LeaveTry, Crash,
                        WorkingHoldsLock
    <3> QED BY <2>1, <2>2, <3>1 DEF LockMove
  <2>3. CASE pc[e] \notin Working
    <3>1. lock' = lock
      BY <1>4, <2>1, <2>3 DEF CreateJobFails, ReleaseLock, ReleaseFails, LeaveTry,
                              Crash, HolderWorks, At, Working
    <3> QED BY <2>1, <2>3, <3>1 DEF LockMove
  <2> QED BY <2>2, <2>3
<1>5. ASSUME NEW m \in Msg, NEW e \in Exec, Deliver(e, m)
      PROVE  LockMove
  <2>1. /\ lock' = lock
        /\ \A f \in Exec \ {e} : pc'[f] = pc[f] /\ task'[f] = task[f]
        /\ pc[e] \notin Working /\ pc'[e] \notin Working
    BY <1>5 DEF Deliver, Goto, Working, At
  <2> QED BY <2>1 DEF LockMove
<1>6. ASSUME NEW m \in Msg, LockExpires(m) PROVE LockMove
  BY <1>6 DEF LockExpires, LockMove, runVars
<1>7. CASE UNCHANGED <<pc, task, lock>>
  BY <1>7 DEF LockMove
<1>8. CASE \/ Users \/ PauseOver \/ UsageResets
           \/ \E m \in Msg : Beat(m) \/ CountdownOver(m) \/ GoStale(m)
           \/ \E a \in Account : Prune(a) \/ PctExpires(a)
  BY <1>7, <1>8 DEF Users, Disconnect, Reconnect, CampaignCreated, PauseOver,
     UsageResets, Beat, CountdownOver, GoStale, Prune, PctExpires, runVars
<1>9. CASE UNCHANGED vars
  BY <1>7, <1>9 DEF vars
<1> QED
  BY <1>1, <1>2, <1>3, <1>4, <1>5, <1>6, <1>8, <1>9
     DEF Next, Pipeline, Clocks, Progress, Faulty

\* A lock names its holder as long as that works, and no longer.
LEMMA HolderWorksInvariant == Spec => []HolderWorks
<1>1. Init => HolderWorks
  BY MetaSyncAssumption DEF Init, HolderWorks
<1>2. TypeInv /\ WorkingHoldsLock /\ HolderWorks /\ [Next]_vars => HolderWorks'
  <2> SUFFICES ASSUME TypeInv, WorkingHoldsLock, HolderWorks, LockMove,
                      NEW m \in Msg, NEW f \in Exec, lock'[m] = f
               PROVE  pc'[f] \in Working /\ task'[f] = m
    BY EveryStepIsLockMove DEF HolderWorks
  <2> USE MetaSyncAssumption DEF TypeInv, TypeOK, HolderWorks
  <2>1. CASE UNCHANGED <<pc, task, lock>>
    BY <2>1
  <2>2. ASSUME UNCHANGED <<pc, task>>,
               NEW n \in Msg, lock[n] = Orphan, lock' = [lock EXCEPT ![n] = Free]
        PROVE  pc'[f] \in Working /\ task'[f] = m
    BY <2>2
  <2>3. ASSUME NEW e \in Exec,
               \A g \in Exec \ {e} : pc'[g] = pc[g] /\ task'[g] = task[g],
               lock' = lock,
               \/ pc[e] \notin Working
               \/ pc'[e] \in Working /\ task'[e] = task[e]
        PROVE  pc'[f] \in Working /\ task'[f] = m
    BY <2>3
  <2>4. ASSUME NEW e \in Exec,
               \A g \in Exec \ {e} : pc'[g] = pc[g] /\ task'[g] = task[g],
               pc[e] \notin Working, pc'[e] \in Working, task'[e] = task[e],
               task[e] \in Msg, lock' = [lock EXCEPT ![task[e]] = e]
        PROVE  pc'[f] \in Working /\ task'[f] = m
    BY <2>4
  <2>5. ASSUME NEW e \in Exec,
               \A g \in Exec \ {e} : pc'[g] = pc[g] /\ task'[g] = task[g],
               pc[e] \in Working,
               NEW l \in {Free, Orphan}, lock' = [lock EXCEPT ![task[e]] = l]
        PROVE  pc'[f] \in Working /\ task'[f] = m
    <3>1. task[e] \in Msg
      BY <2>5, TaskParts DEF Working
    <3>2. m # task[e] /\ lock[m] = f
      BY <2>5, <3>1
    <3> QED BY <2>5, <3>2
  <2> QED BY <2>1, <2>2, <2>3, <2>4, <2>5 DEF LockMove
<1> QED BY <1>1, <1>2, TypeInvariant, HolderInvariant, PTL DEF Spec

\* The lock of each message implements single flight, for any number of slots,
\* accounts, errors and crashes: what the pipeline takes for one variable is the
\* key of SyncLock as far as its runs can tell.
THEOREM ImplementsSingleFlight == Spec => LocksAreSingleFlight
<1>1. ASSUME Init, NEW m \in Msg PROVE RunLock(m)!Init
  BY <1>1, MetaSyncAssumption DEF Init, RunLock!Init, Runs, Working
<1>2. ASSUME TypeInv, WorkingHoldsLock, HolderWorks, WorkingHoldsLock', HolderWorks',
             LockMove, NEW m \in Msg
      PROVE  UNCHANGED RunLock(m)!lockVars \/ RunLock(m)!Next
  <2> USE <1>2, MetaSyncAssumption
  <2>1. Runs(m) = {e \in Exec : lock[m] = e} /\ Runs(m)' = {e \in Exec : lock'[m] = e}
    BY DEF Runs, WorkingHoldsLock, HolderWorks
  <2>2. \/ lock'[m] = lock[m]
        \/ lock[m] = Orphan /\ lock'[m] = Free
        \/ lock[m] = Free /\ lock'[m] \in Exec
        \/ lock[m] \in Exec /\ lock'[m] \in {Free, Orphan}
    <3>1. \A e \in Exec : pc[e] \in Working => task[e] \in Msg /\ lock[task[e]] = e
      BY TaskParts DEF WorkingHoldsLock, Working
    <3> QED BY <3>1 DEF LockMove, TypeInv, TypeOK
  <2>3. CASE lock'[m] = lock[m]
    BY <2>1, <2>3 DEF RunLock!lockVars
  <2>4. CASE lock[m] = Orphan /\ lock'[m] = Free
    BY <2>1, <2>4 DEF RunLock!Next, RunLock!Expire
  <2>5. CASE lock[m] = Free /\ lock'[m] \in Exec
    <3>1. Runs(m) = {} /\ Runs(m)' = {lock'[m]}
      BY <2>1, <2>5
    <3> QED BY <2>5, <3>1 DEF RunLock!Next, RunLock!Enter
  <2>6. CASE lock[m] \in Exec /\ lock'[m] \in {Free, Orphan}
    <3>1. Runs(m) = {lock[m]} /\ Runs(m)' = {}
      BY <2>1, <2>6
    <3> QED BY <2>6, <3>1 DEF RunLock!Next, RunLock!Leave
  <2> QED BY <2>2, <2>3, <2>4, <2>5, <2>6
<1>3. Init => \A m \in Msg : RunLock(m)!Init
  BY <1>1
<1>4. TypeInv /\ WorkingHoldsLock /\ HolderWorks /\ WorkingHoldsLock' /\ HolderWorks'
      /\ [Next]_vars
      => \A m \in Msg : UNCHANGED RunLock(m)!lockVars \/ RunLock(m)!Next
  BY <1>2, EveryStepIsLockMove
<1>5. TypeInv /\ WorkingHoldsLock /\ HolderWorks /\ WorkingHoldsLock' /\ HolderWorks'
      /\ [Next]_vars
      => [\A m \in Msg : UNCHANGED RunLock(m)!lockVars \/ RunLock(m)!Next]_<<pc, task, lock>>
  BY <1>4
<1> QED
  BY <1>3, <1>5, TypeInvariant, HolderInvariant, HolderWorksInvariant, PTL
     DEF Spec, LocksAreSingleFlight

-----------------------------------------------------------------------------
(***************************************************************************)
(* What a slot's row can say at the steps where the slot may let go of it: *)
(* only after a statement that finalizes it, and a skipped run that is     *)
(* about to release its lock has its message waiting for a countdown.      *)
(***************************************************************************)
RowFits ==
  \A e \in Exec :
    /\ pc[e] \in BeforeCalls => row[e] = "none"
    /\ pc[e] = "kick" => row[e] = "completed"
    /\ pc[e] = "requeue" => row[e] \in {"failed", "skipped"}
    /\ pc[e] = "release" => \/ row[e] \in {"completed", "failed"}
                            \/ row[e] = "skipped" /\ delayed[task[e]] > 0

\* The steps between which a run's row is open or its handler has raised.
Open == {"backoff", "call", "write", "finish", "fail", "pause", "skip", "abort"}

\* A slot that is not moved, and whose countdown is not over before it returns.
Waits(e) ==
  /\ pc'[e] = pc[e] /\ row'[e] = row[e] /\ task'[e] = task[e]
  /\ pc[e] = "release" /\ delayed[task[e]] > 0 => delayed'[task[e]] > 0

\* A slot that lets go of its message.
Leaves(e) ==
  /\ pc'[e] = "idle" /\ row'[e] = "none"
  /\ \/ pc[e] \in BeforeCalls \cup {"kick", "abort"}
     \/ faults' > faults
     \/ pc[e] = "release" /\ delayed' = delayed

\* A slot that goes from one step to another.
Moves(e) ==
  \/ pc[e] \in BeforeCalls /\ pc'[e] \in BeforeCalls /\ row'[e] = row[e]
  \/ pc'[e] \in Open /\ row'[e] \in {row[e], "running"}
  \/ pc'[e] = "requeue" /\ row'[e] \in {"failed", "skipped"}
  \/ pc'[e] = "release" /\ row'[e] \in {"completed", "failed"}
  \/ /\ pc[e] = "requeue" /\ pc'[e] = "release"
     /\ row'[e] = row[e] /\ delayed'[task'[e]] > 0
  \/ pc'[e] = "kick" /\ row[e] = "completed" /\ row'[e] = "completed"

\* Each step of a slot's own is one of these.
LEMMA OwnRowStep ==
  ASSUME TypeInv, NEW e \in Exec, Progress(e) \/ Faulty(e)
  PROVE  Leaves(e) \/ Moves(e)
<1> USE DEF TypeInv, TypeOK
<1>1. CASE \/ ReadStructure(e) \/ ReadInsights(e) \/ GuardInsights(e)
           \/ ReadBreakdown(e) \/ Gate(e) \/ AcquireLock(e)
  <2>1. pc[e] \in BeforeCalls
    BY <1>1 DEF ReadStructure, ReadInsights, GuardInsights, ReadBreakdown, Gate,
                AcquireLock, At, BeforeCalls
  <2>2. Return(e) \/ (row' = row /\ pc'[e] \in BeforeCalls)
    BY <1>1 DEF ReadStructure, ReadInsights, GuardInsights, ReadBreakdown, Gate,
                AcquireLock, Goto, BeforeCalls
  <2> QED BY <2>1, <2>2 DEF Leaves, Moves, Return, Goto
<1>2. CASE \/ CreateJob(e) \/ Backoff(e) \/ CallOk(e) \/ CallRateLimited(e)
           \/ PauseConnection(e) \/ WriteStructure(e) \/ WriteMetrics(e)
           \/ WriteBreakdown(e) \/ RunFails(e) \/ HandlerFails(e)
  <2>1. pc'[e] \in Open /\ row'[e] \in {row[e], "running"}
    BY <1>2 DEF CreateJob, Backoff, CallOk, CallRateLimited, PauseConnection,
                WriteStructure, WriteMetrics, WriteBreakdown, RunFails,
                HandlerFails, Settle, Goto, Open
  <2> QED BY <2>1 DEF Moves
<1>3. CASE Finish(e) \/ FinalizeSkipped(e) \/ FinalizeFailed(e)
  BY <1>3 DEF Finish, FinalizeSkipped, FinalizeFailed, Settle, Goto, Moves
<1>4. CASE Requeue(e)
  <2>1. task[e] \in Msg
    BY <1>4, TaskParts DEF Requeue, At
  <2>2. delayed'[task'[e]] > 0
    BY <1>4, <2>1, MetaSyncAssumption DEF Requeue, Enqueue
  <2> QED BY <1>4, <2>2 DEF Requeue, At, Goto, Moves
<1>5. CASE ReleaseLock(e)
  <2>1. delayed' = delayed /\ pc[e] \in {"release", "abort"}
    BY <1>5 DEF ReleaseLock, mqVars
  <2>2. Return(e) \/ (row[e] = "completed" /\ Goto(e, "kick") /\ row' = row)
    BY <1>5 DEF ReleaseLock, LeaveTry
  <2> QED BY <2>1, <2>2 DEF Leaves, Moves, Return, Goto
<1>6. CASE Kick(e)
  BY <1>6 DEF Kick, At, Return, Goto, Leaves
<1>7. CASE CreateJobFails(e) \/ ReleaseFails(e) \/ KickFails(e) \/ Crash(e)
  <2>1. faults' > faults
    BY <1>7, MetaSyncAssumption DEF CreateJobFails, ReleaseFails, KickFails, Crash, Fault
  <2>2. Return(e) \/ (row[e] = "completed" /\ Goto(e, "kick") /\ row' = row)
    BY <1>7 DEF CreateJobFails, ReleaseFails, LeaveTry, KickFails, Crash
  <2> QED BY <2>1, <2>2 DEF Leaves, Moves, Return, Goto
<1> QED BY <1>1, <1>2, <1>3, <1>4, <1>5, <1>6, <1>7 DEF Progress, Faulty

\* The steps of other slots, of the clocks and of the users leave it waiting.
LEMMA EveryStepIsRowStep ==
  ASSUME TypeInv, [Next]_vars, NEW e \in Exec
  PROVE  Waits(e) \/ Leaves(e) \/ Moves(e)
<1> USE MetaSyncAssumption DEF TypeInv, TypeOK
<1>1. ASSUME NEW f \in Exec, Progress(f) \/ Faulty(f), f # e PROVE Waits(e)
  <2>1. row'[e] = row[e] /\ pc'[e] = pc[e] /\ task'[e] = task[e]
    BY <1>1 DEF Progress, Faulty, ReadStructure, ReadInsights, GuardInsights,
       ReadBreakdown, Gate, AcquireLock, CreateJob, Backoff, CallOk,
       CallRateLimited, PauseConnection, WriteStructure, WriteMetrics,
       WriteBreakdown, Finish, FinalizeSkipped, FinalizeFailed, Requeue,
       ReleaseLock, LeaveTry, Kick, CreateJobFails, RunFails, HandlerFails,
       ReleaseFails, KickFails, Crash, Return, Settle, Goto
  <2>2. delayed' = delayed \/ delayed' = Enqueue(delayed, task[f])
    BY <1>1 DEF Progress, Faulty, ReadStructure, ReadInsights, GuardInsights,
       ReadBreakdown, Gate, AcquireLock, CreateJob, Backoff, CallOk,
       CallRateLimited, PauseConnection, WriteStructure, WriteMetrics,
       WriteBreakdown, Finish, FinalizeSkipped, FinalizeFailed, Requeue,
       ReleaseLock, Kick, CreateJobFails, RunFails, HandlerFails,
       ReleaseFails, KickFails, Crash, mqVars
  <2>3. ASSUME pc[e] = "release", delayed[task[e]] > 0 PROVE delayed'[task[e]] > 0
    <3>1. task[e] \in Msg
      BY <2>3, TaskParts
    <3> QED BY <2>2, <2>3, <3>1 DEF Enqueue
  <2> QED BY <2>1, <2>3 DEF Waits
<1>2. ASSUME NEW f \in Exec, NEW m \in Msg, Deliver(f, m) PROVE Waits(e) \/ Moves(e)
  <2>1. row' = row /\ delayed' = delayed
    BY <1>2 DEF Deliver
  <2>2. CASE f = e
    BY <1>2, <2>1, <2>2 DEF Deliver, Goto, At, Moves, BeforeCalls
  <2>3. CASE f # e
    BY <1>2, <2>1, <2>3 DEF Deliver, Goto, Waits
  <2> QED BY <2>2, <2>3
<1>3. ASSUME NEW m \in Msg, CountdownOver(m) PROVE Waits(e)
  <2>1. row' = row /\ pc' = pc /\ task' = task
    BY <1>3 DEF CountdownOver, runVars
  <2>2. ASSUME pc[e] = "release", delayed[task[e]] > 0 PROVE delayed'[task[e]] > 0
    <3>1. task[e] \in Msg /\ task[e] # m
      BY <1>3, <2>2, TaskParts DEF CountdownOver, At
    <3> QED BY <1>3, <2>2, <3>1 DEF CountdownOver
  <2> QED BY <2>1, <2>2 DEF Waits
<1>4. CASE \/ Users \/ PauseOver \/ UsageResets
           \/ \E m \in Msg : Beat(m) \/ LockExpires(m) \/ GoStale(m)
           \/ \E a \in Account : Prune(a) \/ PctExpires(a)
           \/ UNCHANGED vars
  <2>1. row' = row /\ pc' = pc /\ task' = task /\ delayed' = delayed
    BY <1>4 DEF Users, Disconnect, Reconnect, CampaignCreated, PauseOver,
       UsageResets, Beat, LockExpires, GoStale, Prune, PctExpires, runVars, mqVars, vars
  <2> QED BY <2>1 DEF Waits
<1>5. ASSUME NEW f \in Exec, Progress(f) \/ Faulty(f)
      PROVE  Waits(e) \/ Leaves(e) \/ Moves(e)
  BY <1>1, <1>5, OwnRowStep
<1> QED BY <1>2, <1>3, <1>4, <1>5 DEF Next, Pipeline, Clocks

\* What a slot's row says fits its step in every reachable state.
LEMMA RowInvariant == Spec => []RowFits
<1>1. Init => RowFits
  BY DEF Init, RowFits, BeforeCalls
<1>2. TypeInv /\ RowFits /\ [Next]_vars => RowFits'
  <2> SUFFICES ASSUME TypeInv, RowFits, [Next]_vars, NEW e \in Exec
               PROVE  /\ pc'[e] \in BeforeCalls => row'[e] = "none"
                      /\ pc'[e] = "kick" => row'[e] = "completed"
                      /\ pc'[e] = "requeue" => row'[e] \in {"failed", "skipped"}
                      /\ pc'[e] = "release" =>
                           \/ row'[e] \in {"completed", "failed"}
                           \/ row'[e] = "skipped" /\ delayed'[task'[e]] > 0
    BY DEF RowFits
  <2>1. CASE Waits(e)
    BY <2>1 DEF Waits, RowFits
  <2>2. CASE Leaves(e)
    BY <2>2 DEF Leaves
  <2>3. CASE Moves(e)
    BY <2>3 DEF Moves, RowFits, BeforeCalls, Open
  <2> QED BY <2>1, <2>2, <2>3, EveryStepIsRowStep
<1> QED BY <1>1, <1>2, TypeInvariant, PTL DEF Spec

\* When a run has gone its row is settled and a skipped run's message is on its
\* way, unless the run died or one of its except clauses raised: for any number
\* of slots, accounts and faults, and every order of the handlers' own steps.
THEOREM RowsAreSettledHolds == Spec => RowsAreSettled
<1>1. TypeInv /\ RowFits /\ [Next]_vars =>
        [\A e \in Exec, m \in Msg : task[e] = m /\ row[e] # "none" /\ row'[e] = "none" =>
           \/ row[e] \in {"completed", "failed"}
           \/ row[e] = "skipped" /\ Pending(m)'
           \/ At(e, "abort")
           \/ faults' > faults]_vars
  <2> SUFFICES ASSUME TypeInv, RowFits, [Next]_vars, NEW e \in Exec, NEW m \in Msg,
                      task[e] = m, row[e] # "none", row'[e] = "none"
               PROVE  \/ row[e] \in {"completed", "failed"}
                      \/ row[e] = "skipped" /\ Pending(m)'
                      \/ At(e, "abort")
                      \/ faults' > faults
    OBVIOUS
  <2>1. Leaves(e) \/ (pc[e] \in BeforeCalls /\ row'[e] = row[e])
    BY EveryStepIsRowStep DEF Waits, Moves
  <2>2. pc[e] \notin BeforeCalls
    BY DEF RowFits
  <2>3. CASE pc[e] = "kick" \/ pc[e] = "abort" \/ faults' > faults
    BY <2>3 DEF RowFits, At
  <2>4. CASE pc[e] = "release" /\ delayed' = delayed
    <3>1. \/ row[e] \in {"completed", "failed"}
          \/ row[e] = "skipped" /\ delayed'[m] > 0
      BY <2>4 DEF RowFits
    <3> QED BY <3>1 DEF Pending
  <2> QED BY <2>1, <2>2, <2>3, <2>4 DEF Leaves
<1> QED BY <1>1, TypeInvariant, RowInvariant, PTL DEF Spec, RowsAreSettled

-----------------------------------------------------------------------------
(***************************************************************************)
(* The calls that a slot has made in this pause, and those it can still    *)
(* make because it has passed the gate, are together at most Calls; and    *)
(* whoever caused the pause has one call of its run behind it.             *)
(***************************************************************************)
PastGate == {"lock", "insert", "backoff", "call"}

Remaining(e) == IF pc[e] \in PastGate THEN Calls - calls[e] ELSE 0

PauseBudget ==
  /\ \A e \in Exec : spent[e] + Remaining(e) <= Calls
  /\ paused => \E e \in Exec : spent[e] + Remaining(e) < Calls
  /\ ~paused => \A e \in Exec : spent[e] = 0

\* What is left of a run is between nothing and all of it.
LEMMA RemainingType ==
  ASSUME TypeInv, NEW e \in Exec
  PROVE  Remaining(e) \in 0..Calls
BY MetaSyncAssumption DEF TypeInv, TypeOK, Remaining

\* How a step changes a slot's account of calls.
BudgetStep(e) ==
  \/ spent'[e] = spent[e] /\ Remaining(e)' = Remaining(e)
  \/ spent'[e] = spent[e] /\ Remaining(e)' = 0
  \/ ~paused /\ spent'[e] = spent[e]
  \/ paused /\ spent'[e] <= spent[e] + 1 /\ Remaining(e)' + 1 <= Remaining(e)

\* Within a pause no step adds to a slot's account.
LEMMA EveryStepIsBudgetStep ==
  ASSUME TypeInv, TypeInv', [Next]_vars, ~PauseOver, NEW e \in Exec
  PROVE  BudgetStep(e)
<1> USE MetaSyncAssumption DEF TypeInv, TypeOK
<1>1. ASSUME NEW f \in Exec, Progress(f) \/ Faulty(f), f # e PROVE BudgetStep(e)
  <2>1. pc'[e] = pc[e] /\ calls'[e] = calls[e] /\ spent'[e] = spent[e]
    BY <1>1 DEF Progress, Faulty, ReadStructure, ReadInsights, GuardInsights,
       ReadBreakdown, Gate, AcquireLock, CreateJob, Backoff, CallOk,
       CallRateLimited, PauseConnection, WriteStructure, WriteMetrics, WriteBreakdown, Finish,
       FinalizeSkipped, FinalizeFailed, Requeue, ReleaseLock, LeaveTry, Kick, Return,
       CreateJobFails, RunFails, HandlerFails, ReleaseFails,
       KickFails, Crash, Settle, Goto, SpentAfterCall, rateVars
  <2> QED BY <2>1 DEF BudgetStep, Remaining
<1>2. CASE CallOk(e) \/ CallRateLimited(e)
  <2>1. /\ pc[e] = "call" /\ calls[e] \in 0..Calls /\ calls[e] < Calls
        /\ spent[e] \in 0..(Calls + 1)
    BY <1>2 DEF CallOk, CallRateLimited, At, CallsInBounds
  <2>2. spent'[e] = spent[e] \/ (paused /\ spent'[e] = spent[e] + 1)
    BY <1>2 DEF CallOk, CallRateLimited, SpentAfterCall
  <2>3. Remaining(e)' = Calls - (calls[e] + 1) \/ Remaining(e)' = 0
    BY <1>2 DEF CallOk, CallRateLimited, Goto, Remaining, PastGate
  <2>4. Remaining(e) = Calls - calls[e]
    BY <2>1 DEF Remaining, PastGate
  <2> QED BY <2>1, <2>2, <2>3, <2>4 DEF BudgetStep
<1>3. CASE Gate(e)
  <2>1. spent' = spent /\ (paused => pc'[e] = "idle")
    BY <1>3 DEF Gate, Return, Goto, rateVars
  <2> QED BY <2>1 DEF BudgetStep, Remaining, PastGate
<1>4. CASE AcquireLock(e) \/ CreateJob(e) \/ Backoff(e)
  <2>1. /\ spent' = spent
        /\ pc[e] \in PastGate
        /\ pc'[e] \notin PastGate \/ calls' = calls
        /\ pc'[e] \in PastGate \cup {"idle", "skip"}
    BY <1>4 DEF AcquireLock, CreateJob, Backoff, Return, Settle, Goto, At,
                PastGate, rateVars
  <2> QED BY <2>1 DEF BudgetStep, Remaining
<1>5. CASE \/ ReadStructure(e) \/ ReadInsights(e) \/ GuardInsights(e)
           \/ ReadBreakdown(e) \/ PauseConnection(e) \/ WriteStructure(e) \/ WriteMetrics(e)
           \/ WriteBreakdown(e) \/ Finish(e) \/ FinalizeSkipped(e)
           \/ FinalizeFailed(e) \/ Requeue(e) \/ ReleaseLock(e) \/ Kick(e)
           \/ Faulty(e)
  <2>1. spent' = spent /\ pc'[e] \notin PastGate
    BY <1>5 DEF ReadStructure, ReadInsights, GuardInsights, ReadBreakdown,
       PauseConnection, WriteStructure, WriteMetrics, WriteBreakdown, Finish, FinalizeSkipped,
       FinalizeFailed, Requeue, ReleaseLock, LeaveTry, Kick, Faulty, CreateJobFails,
       RunFails, HandlerFails, ReleaseFails,
       KickFails, Crash, Return, Settle, Goto, PastGate, rateVars
  <2> QED BY <2>1 DEF BudgetStep, Remaining
<1>6. ASSUME NEW f \in Exec, NEW m \in Msg, Deliver(f, m) PROVE BudgetStep(e)
  <2>1. /\ spent' = spent /\ calls' = calls
        /\ \/ pc'[e] = pc[e]
           \/ pc'[e] = "read"
    BY <1>6 DEF Deliver, Goto, rateVars
  <2> QED BY <2>1 DEF BudgetStep, Remaining, PastGate
<1>7. CASE \/ Clocks \/ Users \/ (\E m \in Msg : Beat(m)) \/ UNCHANGED vars
  <2>1. spent' = spent /\ pc' = pc /\ calls' = calls
    BY <1>7 DEF Clocks, Users, Disconnect, Reconnect, CampaignCreated,
       UsageResets, Beat, CountdownOver, LockExpires, GoStale, Prune, PctExpires,
       runVars, rateVars, vars
  <2> QED BY <2>1 DEF BudgetStep, Remaining
<1>8. ASSUME Progress(e) \/ Faulty(e) PROVE BudgetStep(e)
  BY <1>2, <1>3, <1>4, <1>5, <1>8 DEF Progress
<1> QED BY <1>1, <1>6, <1>7, <1>8 DEF Next, Pipeline

\* A pause begins with a run that has made a call or will make none.
LEMMA PauseHasACause ==
  ASSUME TypeInv, [Next]_vars, ~paused, paused', \A e \in Exec : spent[e] = 0
  PROVE  /\ \A e \in Exec : spent'[e] = 0
         /\ \E e \in Exec : Remaining(e)' < Calls
<1> USE MetaSyncAssumption DEF TypeInv, TypeOK
<1>1. PICK e \in Exec : Backoff(e) \/ CallOk(e) \/ PauseConnection(e)
  BY DEF Next, Pipeline, Progress, Faulty, ReadStructure, ReadInsights,
     GuardInsights, ReadBreakdown, Gate, AcquireLock, CreateJob, CallRateLimited,
     WriteStructure, WriteMetrics, WriteBreakdown, Finish,
     FinalizeSkipped, FinalizeFailed, Requeue, ReleaseLock, LeaveTry, Kick,
     CreateJobFails, RunFails, HandlerFails, ReleaseFails,
       KickFails, Crash, Deliver, Clocks, Users, Disconnect,
     Reconnect, CampaignCreated, PauseOver, UsageResets, Beat, CountdownOver,
     LockExpires, GoStale, Prune, PctExpires, rateVars, vars
<1>2. \A f \in Exec : spent'[f] = 0
  BY <1>1 DEF Backoff, CallOk, PauseConnection, SpentAfterCall, rateVars
<1>3. Remaining(e)' < Calls
  <2>1. CASE CallOk(e)
    BY <2>1 DEF CallOk, Goto, Remaining, At, CallsInBounds
  <2>2. CASE Backoff(e) \/ PauseConnection(e)
    <3>1. pc'[e] = "skip"
      BY <1>1, <2>2 DEF Backoff, PauseConnection, Goto
    <3> QED BY <3>1 DEF Remaining, PastGate
  <2> QED BY <1>1, <2>1, <2>2
<1> QED BY <1>2, <1>3

\* The account of calls balances in every reachable state.
LEMMA BudgetInvariant == Spec => []PauseBudget
<1> USE MetaSyncAssumption
<1>1. Init => PauseBudget
  BY DEF Init, PauseBudget, Remaining, PastGate
<1>2. TypeInv /\ TypeInv' /\ PauseBudget /\ [Next]_vars => PauseBudget'
  <2> SUFFICES ASSUME TypeInv, TypeInv', PauseBudget, [Next]_vars
               PROVE  PauseBudget'
    OBVIOUS
  <2>1. \A e \in Exec : /\ Remaining(e) \in 0..Calls /\ Remaining(e)' \in 0..Calls
                        /\ spent[e] \in Nat /\ spent'[e] \in Nat
    <3> SUFFICES ASSUME NEW e \in Exec
                 PROVE  /\ Remaining(e) \in 0..Calls /\ Remaining(e)' \in 0..Calls
                        /\ spent[e] \in Nat /\ spent'[e] \in Nat
      OBVIOUS
    <3>1. Remaining(e) \in 0..Calls
      BY RemainingType
    <3>2. Remaining(e)' \in 0..Calls
      BY DEF TypeInv, TypeOK, Remaining
    <3>3. spent[e] \in Nat /\ spent'[e] \in Nat
      BY DEF TypeInv, TypeOK
    <3> QED BY <3>1, <3>2, <3>3
  <2>2. CASE PauseOver
    <3>1. ~paused' /\ \A e \in Exec : spent'[e] = 0
      BY <2>2 DEF PauseOver
    <3> QED BY <2>1, <3>1 DEF PauseBudget
  <2>3. CASE ~PauseOver /\ paused /\ paused'
    <3>1. \A e \in Exec : spent'[e] + Remaining(e)' <= spent[e] + Remaining(e)
      BY <2>1, <2>3, EveryStepIsBudgetStep DEF BudgetStep
    <3> QED BY <2>1, <2>3, <3>1 DEF PauseBudget
  <2>4. CASE ~PauseOver /\ ~paused /\ paused'
    <3>1. \A e \in Exec : spent[e] = 0
      BY <2>4 DEF PauseBudget
    <3>2. /\ \A e \in Exec : spent'[e] = 0
          /\ \E e \in Exec : Remaining(e)' < Calls
      BY <2>4, <3>1, PauseHasACause
    <3> QED BY <2>1, <2>4, <3>2 DEF PauseBudget
  <2>5. CASE ~PauseOver /\ ~paused'
    <3>1. ~paused
      BY <2>5 DEF Next, Pipeline, Progress, Faulty, ReadStructure, ReadInsights,
         GuardInsights, ReadBreakdown, Gate, AcquireLock, CreateJob, Backoff,
         CallOk, CallRateLimited, PauseConnection, WriteStructure, WriteMetrics, WriteBreakdown,
         Finish, FinalizeSkipped, FinalizeFailed, Requeue, ReleaseLock, LeaveTry, Kick,
         CreateJobFails, RunFails, HandlerFails, ReleaseFails,
       KickFails, Crash, Deliver, Clocks, Users, Disconnect,
         Reconnect, CampaignCreated, UsageResets, Beat, CountdownOver,
         LockExpires, GoStale, Prune, PctExpires, rateVars, vars
    <3>2. \A e \in Exec : spent'[e] = 0
      BY <2>5, <3>1, EveryStepIsBudgetStep DEF BudgetStep, PauseBudget
    <3> QED BY <2>1, <2>5, <3>2 DEF PauseBudget
  <2>6. paused \in BOOLEAN /\ paused' \in BOOLEAN
    BY DEF TypeInv, TypeOK
  <2> QED BY <2>2, <2>3, <2>4, <2>5, <2>6
<1> QED BY <1>1, <1>2, TypeInvariant, PTL DEF Spec

\* The gate at task entry is enough to keep a paused connection's calls bounded
\* by the runs that were already past it, however many slots and calls there are.
THEOREM PauseBoundsCallsHolds == Spec => []PauseBoundsCalls
<1>1. TypeInv /\ PauseBudget => PauseBoundsCalls
  <2> SUFFICES ASSUME TypeInv, PauseBudget, paused
               PROVE  /\ \A e \in Exec : spent[e] <= Calls
                      /\ \E e \in Exec : spent[e] < Calls
    BY DEF PauseBoundsCalls
  <2>1. \A e \in Exec : Remaining(e) \in 0..Calls /\ spent[e] \in Nat
    BY RemainingType DEF TypeInv, TypeOK
  <2> QED BY <2>1, MetaSyncAssumption DEF PauseBudget
<1> QED BY <1>1, TypeInvariant, BudgetInvariant, PTL
=============================================================================
