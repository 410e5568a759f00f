---------------------------- MODULE PlatformSync ----------------------------
(***************************************************************************)
(* The TikTok and Google Ads sync of one ad account: the per-account tasks *)
(* of workers/tasks/tiktok_*.py and google_*.py, their Beat dispatchers,   *)
(* locks and sync_jobs rows.                                               *)
(*                                                                         *)
(* Both platforms run the same steps with four differences, which the      *)
(* actions keep apart: TikTok insights look at freshness before the lock   *)
(* and leave no row when fresh, everything else looks under the lock and   *)
(* leaves a skipped row; Google pauses the connection and reschedules on a *)
(* quota error, TikTok retries it like any error; and a breakdown run      *)
(* asks for rows of a job type nobody writes, so it never is fresh.        *)
(*                                                                         *)
(* Abstracted: a run's calls are one step and its upserts another (what    *)
(* stays written when a later level fails is an error after the upserts);  *)
(* creatives; and the age of rows (fresh or not).  The lock is the one     *)
(* that SyncLock justifies.                                                *)
(***************************************************************************)
EXTENDS Naturals

CONSTANTS
  Platform,    \* the platforms a behaviour may be about
  Job,         \* the job types modelled, a subset of AllJobs
  Exec,        \* worker slots
  NoJob,       \* what an idle slot executes
  Free,        \* a lock nobody holds
  Orphan,      \* a lock whose holder died, until its TTL is over
  MaxQueue,    \* bound: copies of one message that wait at a time
  MaxFaults    \* bound: crashes, errors and quota errors

AllJobs == {"structure", "insights_daily", "insights_historical", "breakdown"}

Insights == Job \cap {"insights_daily", "insights_historical"}

ASSUME PlatformSyncAssumption ==
  /\ Platform \subseteq {"tiktok", "google_ads"}
  /\ Job \subseteq AllJobs
  /\ "structure" \in Job
  /\ NoJob \notin AllJobs
  /\ Free # Orphan /\ Free \notin Exec /\ Orphan \notin Exec
  /\ MaxQueue \in Nat \ {0}
  /\ MaxFaults \in Nat

VARIABLES
  platform,    \* the platform of the account
  queue,       \* messages ready for delivery, per job type
  delayed,     \* messages whose countdown is running
  pc,          \* the step a slot is at
  task,        \* the job a slot executes
  mapped,      \* the slot's entity maps were loaded with the entities in them
  row,         \* status of the run's sync_jobs row
  lock,        \* the in-flight lock of each job
  fresh,       \* a completed row younger than the job's threshold exists
  entities,    \* campaigns, ad groups and ads are in the database
  metrics,     \* the insights jobs that have written metric rows
  enabled,     \* the account is not disabled
  paused,      \* the connection's pause key exists
  byHand,      \* history: a user has triggered a historical run
  faults       \* faults that have happened

vars == <<platform, queue, delayed, pc, task, mapped, row, lock, fresh,
          entities, metrics, enabled, paused, byHand, faults>>

runVars == <<pc, task, mapped, row>>
mqVars == <<queue, delayed>>
inputs == <<platform, byHand>>
dbVars == <<fresh, entities, metrics, enabled>>

Pc == {"idle", "check", "lock", "insert", "load", "call", "write", "finish",
       "kick", "kickHistory", "fail", "pause", "skip", "requeue", "release",
       "abort"}

\* The steps between acquire_lock and release_lock.
Working == Pc \ {"idle", "check", "lock"}

RowStatus == {"none", "running", "completed", "failed", "skipped"}

\* The account has campaigns at the platform and has just been imported, with
\* its first structure run enqueued.
Init ==
  /\ platform \in Platform
  /\ queue = [j \in Job |-> IF j = "structure" THEN 1 ELSE 0]
  /\ delayed = [j \in Job |-> 0]
  /\ pc = [e \in Exec |-> "idle"]
  /\ task = [e \in Exec |-> NoJob]
  /\ mapped = [e \in Exec |-> FALSE]
  /\ row = [e \in Exec |-> "none"]
  /\ lock = [j \in Job |-> Free]
  /\ fresh = [j \in Job |-> FALSE]
  /\ entities = FALSE
  /\ metrics = {}
  /\ enabled = TRUE
  /\ paused = FALSE
  /\ byHand = FALSE
  /\ faults = 0

At(e, step) == pc[e] = step
Goto(e, step) == pc' = [pc EXCEPT ![e] = step]
Enqueue(q, j) == [q EXCEPT ![j] = IF @ < MaxQueue THEN @ + 1 ELSE @]
Fault == faults < MaxFaults /\ faults' = faults + 1

\* The task function returns, or its process is gone.
Return(e) ==
  /\ Goto(e, "idle")
  /\ task' = [task EXCEPT ![e] = NoJob]
  /\ mapped' = [mapped EXCEPT ![e] = FALSE]
  /\ row' = [row EXCEPT ![e] = "none"]

\* A step that changes the slot's program counter and nothing else of the run.
Step(e, step) == Goto(e, step) /\ UNCHANGED <<task, mapped, row>>

\* Mutant: a status that the schema does not list.
SettlePartial(e, status, step) ==
  /\ row' = [row EXCEPT ![e] = IF status = "failed" THEN "partial" ELSE status]
  /\ Goto(e, step)
  /\ UNCHANGED <<task, mapped>>

\* finalize_sync_job, or create_sync_job for "running": in a transaction of its
\* own.
Settle(e, status, step) ==
  /\ row' = [row EXCEPT ![e] = status]
  /\ Goto(e, step)
  /\ UNCHANGED <<task, mapped>>

-----------------------------------------------------------------------------
(* Dispatch and delivery *)

\* Beat's dispatchers through stagger_dispatch: not for disabled accounts nor
\* for a paused connection, and none for insights_historical.
Beat(j) ==
  /\ j # "insights_historical"
  /\ enabled
  /\ ~paused
  /\ queue[j] < MaxQueue
  /\ queue' = Enqueue(queue, j)
  /\ UNCHANGED <<inputs, delayed, runVars, lock, dbVars, paused, faults>>

\* An owner triggers a sync: trigger_sync does not ask whether one is running.
Trigger(j) ==
  /\ queue[j] < MaxQueue
  /\ queue' = Enqueue(queue, j)
  /\ byHand' = (byHand \/ j = "insights_historical")
  /\ UNCHANGED <<platform, delayed, runVars, lock, dbVars, paused, faults>>

\* An idle slot takes a message off the queue.
Deliver(e, j) ==
  /\ At(e, "idle")
  /\ queue[j] > 0
  /\ queue' = [queue EXCEPT ![j] = @ - 1]
  /\ task' = [task EXCEPT ![e] = j]
  /\ Goto(e, IF platform = "tiktok" /\ j \in Insights THEN "check" ELSE "lock")
  /\ UNCHANGED <<inputs, delayed, mapped, row, lock, dbVars, paused, faults>>

\* A countdown is over.  All are longer than its sender takes to release.
CountdownOver(j) ==
  /\ delayed[j] > 0
  /\ ~ \E e \in Exec : task[e] = j /\ At(e, "release")
  /\ delayed' = [delayed EXCEPT ![j] = @ - 1]
  /\ queue' = Enqueue(queue, j)
  /\ UNCHANGED <<inputs, runVars, lock, dbVars, paused, faults>>

-----------------------------------------------------------------------------
(* The steps of a run *)

\* _is_stale asks for completed rows of "breakdowns", the runs write
\* "breakdown".
Stale(j) == j = "breakdown" \/ ~fresh[j]

\* TikTok insights: nothing to do and no row when fresh.
CheckFresh(e) ==
  /\ At(e, "check")
  /\ IF Stale(task[e]) THEN Step(e, "lock") ELSE Return(e)
  /\ UNCHANGED <<inputs, mqVars, lock, dbVars, paused, faults>>

\* Mutant: the lock's answer is ignored.
AcquireAnyLock(e) ==
  /\ At(e, "lock")
  /\ lock' = [lock EXCEPT ![task[e]] = e]
  /\ Step(e, "insert")
  /\ UNCHANGED <<inputs, mqVars, dbVars, paused, faults>>

\* Mutant: a lock without a live run is taken over.
AcquireOrphan(e) ==
  /\ At(e, "lock")
  /\ IF lock[task[e]] \in {Free, Orphan}
     THEN lock' = [lock EXCEPT ![task[e]] = e] /\ Step(e, "insert")
     ELSE Return(e) /\ UNCHANGED lock
  /\ UNCHANGED <<inputs, mqVars, dbVars, paused, faults>>

\* acquire_lock: whoever finds the lock taken drops its message.
AcquireLock(e) ==
  /\ At(e, "lock")
  /\ IF lock[task[e]] = Free
     THEN lock' = [lock EXCEPT ![task[e]] = e] /\ Step(e, "insert")
     ELSE Return(e) /\ UNCHANGED lock
  /\ UNCHANGED <<inputs, mqVars, dbVars, paused, faults>>

\* Mutant: the history is started with the row, ahead of the entities.
CreateJobAndKick(e) ==
  /\ At(e, "insert")
  /\ Settle(e, "running", "load")
  /\ queue' = IF task[e] = "structure" THEN Enqueue(queue, "insights_historical") ELSE queue
  /\ UNCHANGED <<inputs, delayed, lock, dbVars, paused, faults>>

\* create_sync_job commits the running row.
CreateJob(e) ==
  /\ At(e, "insert")
  /\ Settle(e, "running", "load")
  /\ UNCHANGED <<inputs, mqVars, lock, dbVars, paused, faults>>

\* create_sync_job raises outside the try: the task fails, the lock stays.
CreateJobFails(e) ==
  /\ At(e, "insert")
  /\ Fault
  /\ lock' = [lock EXCEPT ![task[e]] = Orphan]
  /\ Return(e)
  /\ UNCHANGED <<inputs, mqVars, dbVars, paused>>

\* Mutant: the maps are keyed by an id the platform does not report.
LoadEmptyMaps(e) ==
  /\ At(e, "load")
  /\ IF Stale(task[e]) \/ (platform = "tiktok" /\ task[e] \in Insights)
     THEN Step(e, "call")
     ELSE Settle(e, "skipped", "release")
  /\ UNCHANGED <<inputs, mqVars, lock, dbVars, paused, faults>>

\* The account's data and, for insights, the entity maps are read; fresh data
\* ends every run but those of TikTok insights with a skipped row.
Load(e) ==
  /\ At(e, "load")
  /\ IF Stale(task[e]) \/ (platform = "tiktok" /\ task[e] \in Insights)
     THEN /\ mapped' = [mapped EXCEPT ![e] = entities]
          /\ Goto(e, "call")
          /\ UNCHANGED <<task, row>>
     ELSE Settle(e, "skipped", "release")
  /\ UNCHANGED <<inputs, mqVars, lock, dbVars, paused, faults>>

\* The platform answers all calls of the run.
CallOk(e) ==
  /\ At(e, "call")
  /\ Step(e, "write")
  /\ UNCHANGED <<inputs, mqVars, lock, dbVars, paused, faults>>

\* Google answers with a quota error.
CallOverQuota(e) ==
  /\ At(e, "call")
  /\ platform = "google_ads"
  /\ Fault
  /\ Step(e, "pause")
  /\ UNCHANGED <<inputs, mqVars, lock, dbVars, paused>>

\* pause_connection in the except clause, before the row is finalized.
PauseConnection(e) ==
  /\ At(e, "pause")
  /\ paused' = TRUE
  /\ Step(e, "skip")
  /\ UNCHANGED <<inputs, mqVars, lock, dbVars, faults>>

\* Campaigns, ad groups, creatives and ads are upserted in one transaction.
WriteEntities(e) ==
  /\ At(e, "write")
  /\ task[e] = "structure"
  /\ entities' = TRUE
  /\ Step(e, "finish")
  /\ UNCHANGED <<inputs, mqVars, lock, fresh, metrics, enabled, paused, faults>>

\* Rows of entities that the maps do not know are passed over.
WriteMetrics(e) ==
  /\ At(e, "write")
  /\ task[e] \in Insights
  /\ metrics' = IF mapped[e] THEN metrics \cup {task[e]} ELSE metrics
  /\ Step(e, "finish")
  /\ UNCHANGED <<inputs, mqVars, lock, fresh, entities, enabled, paused, faults>>

\* Each breakdown type's rows are replaced in a transaction; no other run reads
\* them.
WriteBreakdown(e) ==
  /\ At(e, "write")
  /\ task[e] = "breakdown"
  /\ Step(e, "finish")
  /\ UNCHANGED <<inputs, mqVars, lock, dbVars, paused, faults>>

\* Mutant: an error goes past the handlers.
RunFailsUnhandled(e) ==
  /\ pc[e] \in {"load", "call", "write", "finish"}
  /\ Fault
  /\ Step(e, "release")
  /\ UNCHANGED <<inputs, mqVars, lock, dbVars, paused>>

\* Any other error of the try block's body; the soft time limit.
RunFails(e) ==
  /\ pc[e] \in {"load", "call", "write", "finish"}
  /\ Fault
  /\ Step(e, "fail")
  /\ UNCHANGED <<inputs, mqVars, lock, dbVars, paused>>

\* finalize_sync_job(job_id, "completed"); structure goes on inside the try.
Finish(e) ==
  /\ At(e, "finish")
  /\ Settle(e, "completed", IF task[e] = "structure" THEN "kick" ELSE "release")
  /\ fresh' = [fresh EXCEPT ![task[e]] = TRUE]
  /\ UNCHANGED <<inputs, mqVars, lock, entities, metrics, enabled, paused, faults>>

\* Mutant: the history is left to the user.
KickNoHistory(e) ==
  /\ At(e, "kickHistory")
  /\ Step(e, "release")
  /\ UNCHANGED <<inputs, mqVars, lock, dbVars, paused, faults>>

\* A completed structure run starts the daily insights, then the history.
Kick(e) ==
  /\ At(e, "kick")
  /\ queue' = IF "insights_daily" \in Job THEN Enqueue(queue, "insights_daily") ELSE queue
  /\ Step(e, "kickHistory")
  /\ UNCHANGED <<inputs, delayed, lock, dbVars, paused, faults>>

KickHistory(e) ==
  /\ At(e, "kickHistory")
  /\ queue' = IF "insights_historical" \in Job
              THEN Enqueue(queue, "insights_historical")
              ELSE queue
  /\ Step(e, "release")
  /\ UNCHANGED <<inputs, delayed, lock, dbVars, paused, faults>>

\* A .delay raises, or the soft time limit strikes now: the handlers that
\* follow treat the completed run as a failed one.
KickFails(e) ==
  /\ pc[e] \in {"kick", "kickHistory"}
  /\ Fault
  /\ Step(e, "fail")
  /\ UNCHANGED <<inputs, mqVars, lock, dbVars, paused>>

\* finalize_sync_job(job_id, "failed"), over a completed status too; then
\* self.retry, unless the soft time limit was hit or the retries are used up.
FinalizeFailed(e) ==
  /\ At(e, "fail")
  /\ \E step \in {"requeue", "release"} : Settle(e, "failed", step)
  /\ fresh' = IF row[e] = "completed" THEN [fresh EXCEPT ![task[e]] = FALSE] ELSE fresh
  /\ UNCHANGED <<inputs, mqVars, lock, entities, metrics, enabled, paused, faults>>

\* finalize_sync_job(job_id, "skipped") after a quota error.
FinalizeSkipped(e) ==
  /\ At(e, "skip")
  /\ Settle(e, "skipped", "requeue")
  /\ UNCHANGED <<inputs, mqVars, lock, dbVars, paused, faults>>

\* apply_async(countdown=300), or retry.
Requeue(e) ==
  /\ At(e, "requeue")
  /\ delayed' = Enqueue(delayed, task[e])
  /\ Step(e, "release")
  /\ UNCHANGED <<inputs, queue, lock, dbVars, paused, faults>>

\* An except clause raises itself: pause_connection, finalize_sync_job,
\* apply_async or retry cannot reach Redis, the database or the broker.
HandlerFails(e) ==
  /\ pc[e] \in {"pause", "skip", "fail", "requeue"}
  /\ Fault
  /\ Step(e, "abort")
  /\ UNCHANGED <<inputs, mqVars, lock, dbVars, paused>>

\* finally: release_lock, also with an exception on its way.
ReleaseLock(e) ==
  /\ pc[e] \in {"release", "abort"}
  /\ lock' = [lock EXCEPT ![task[e]] = Free]
  /\ Return(e)
  /\ UNCHANGED <<inputs, mqVars, dbVars, paused, faults>>

\* release_lock swallows an error of Redis: the key stays until it expires.
ReleaseFails(e) ==
  /\ pc[e] \in {"release", "abort"}
  /\ Fault
  /\ lock' = [lock EXCEPT ![task[e]] = Orphan]
  /\ Return(e)
  /\ UNCHANGED <<inputs, mqVars, dbVars, paused>>

-----------------------------------------------------------------------------
(* Failures and the environment *)

\* The process dies; a lost worker's message is delivered again, a lost pool
\* child's is not.
Crash(e) ==
  /\ ~At(e, "idle")
  /\ Fault
  /\ lock' = IF lock[task[e]] = e THEN [lock EXCEPT ![task[e]] = Orphan] ELSE lock
  /\ queue' \in {queue, Enqueue(queue, task[e])}
  /\ Return(e)
  /\ UNCHANGED <<inputs, delayed, dbVars, paused>>

\* Redis drops an orphaned key when LOCK_TTL is over.
LockExpires(j) ==
  /\ lock[j] = Orphan
  /\ lock' = [lock EXCEPT ![j] = Free]
  /\ UNCHANGED <<inputs, runVars, mqVars, dbVars, paused, faults>>

\* The last completed row gets older than the job's threshold.
GoStale(j) ==
  /\ fresh[j]
  /\ fresh' = [fresh EXCEPT ![j] = FALSE]
  /\ UNCHANGED <<inputs, runVars, mqVars, lock, entities, metrics, enabled, paused, faults>>

\* The pause key expires.
PauseOver ==
  /\ paused
  /\ paused' = FALSE
  /\ UNCHANGED <<inputs, runVars, mqVars, lock, dbVars, faults>>

\* The platform is disconnected, which disables its accounts, or connected
\* again, which imports them.
Disconnect ==
  /\ enabled
  /\ enabled' = FALSE
  /\ UNCHANGED <<inputs, runVars, mqVars, lock, fresh, entities, metrics, paused, faults>>

Reconnect ==
  /\ ~enabled
  /\ enabled' = TRUE
  /\ queue' = Enqueue(queue, "structure")
  /\ UNCHANGED <<inputs, runVars, delayed, lock, fresh, entities, metrics, paused, faults>>

-----------------------------------------------------------------------------
\* What a live process does on its own.
Progress(e) ==
  \/ CheckFresh(e) \/ AcquireLock(e) \/ CreateJob(e) \/ Load(e) \/ CallOk(e)
  \/ WriteEntities(e) \/ WriteMetrics(e) \/ WriteBreakdown(e)
  \/ Finish(e) \/ Kick(e) \/ KickHistory(e)
  \/ PauseConnection(e) \/ FinalizeSkipped(e) \/ FinalizeFailed(e) \/ Requeue(e)
  \/ ReleaseLock(e)

Faulty(e) ==
  \/ CreateJobFails(e) \/ CallOverQuota(e) \/ RunFails(e) \/ KickFails(e)
  \/ HandlerFails(e) \/ ReleaseFails(e) \/ Crash(e)

\* Everything but the users.
Pipeline ==
  \/ \E e \in Exec : Progress(e) \/ Faulty(e) \/ \E j \in Job : Deliver(e, j)
  \/ \E j \in Job : Beat(j) \/ CountdownOver(j) \/ LockExpires(j) \/ GoStale(j)
  \/ PauseOver

Next == Pipeline \/ Disconnect \/ Reconnect \/ \E j \in Job : Trigger(j)

Spec == Init /\ [][Next]_vars

\* Live processes make progress, no message is passed over forever, timers run
\* out, and Beat keeps dispatching.
Fairness ==
  /\ \A e \in Exec : WF_vars(Progress(e))
  /\ \A j \in Job : /\ SF_vars(\E e \in Exec : Deliver(e, j))
                    /\ SF_vars(Beat(j))
                    /\ WF_vars(CountdownOver(j))
                    /\ WF_vars(LockExpires(j))
                    /\ WF_vars(GoStale(j))
  /\ WF_vars(PauseOver)

\* The account stays connected and nobody triggers a sync by hand: what comes in
\* comes by itself.
AutomaticSpec == Init /\ [][Pipeline]_vars /\ Fairness

-----------------------------------------------------------------------------
\* Every variable has its type.
TypeOK ==
  /\ platform \in Platform
  /\ queue \in [Job -> 0..MaxQueue]
  /\ delayed \in [Job -> 0..MaxQueue]
  /\ pc \in [Exec -> Pc]
  /\ task \in [Exec -> Job \cup {NoJob}]
  /\ mapped \in [Exec -> BOOLEAN]
  /\ row \in [Exec -> RowStatus]
  /\ lock \in [Job -> Exec \cup {Free, Orphan}]
  /\ fresh \in [Job -> BOOLEAN]
  /\ entities \in BOOLEAN
  /\ metrics \in SUBSET Insights
  /\ enabled \in BOOLEAN
  /\ paused \in BOOLEAN
  /\ byHand \in BOOLEAN
  /\ faults \in 0..MaxFaults

\* Two runs of one job never work at the same time: the check for fresh data
\* that TikTok insights make before the lock does not stand in for it.
OneRunPerJob ==
  \A e, f \in Exec :
    pc[e] \in Working /\ pc[f] \in Working /\ task[e] = task[f] => e = f

\* The runs of one job, and the lock they take.
Runs(j) == {e \in Exec : pc[e] \in Working /\ task[e] = j}

RunLock(j) == INSTANCE SingleFlight WITH
  Slot <- Exec, active <- Runs(j), left <- (lock[j] = Orphan)

\* The runs of each job come in and go as the lock of SyncLock lets them: one
\* at a time, none while a dead run's key has not expired, whatever Beat, the
\* users and the runs of other jobs send.
LocksAreSingleFlight ==
  /\ \A j \in Job : RunLock(j)!Init
  /\ [][\A j \in Job : UNCHANGED RunLock(j)!lockVars \/ RunLock(j)!Next]_<<pc, task, lock>>

\* When a run has gone its row says completed, failed or skipped, whatever the
\* order of its handlers.  Only a run that dies, or whose except clause raises
\* itself, leaves it 'running'.
RowsAreSettled ==
  [][\A e \in Exec : row[e] = "running" /\ row'[e] = "none" =>
       At(e, "abort") \/ faults' > faults]_vars

\* Unless a user triggers it, the history is never marked fresh while it is
\* missing: structure starts it after its entities are committed, so no
\* historical run works with empty maps (for which it would rest six hours).
HistoryIsNotEmpty ==
  fresh["insights_historical"] => byHand \/ "insights_historical" \in metrics

\* The daily metrics arrive, though Beat's first run may complete with empty
\* maps and keep those after it away as fresh.
DailyArrives == <>("insights_daily" \in metrics)

\* The history arrives, which no Beat entry asks for.
HistoryArrives == <>("insights_historical" \in metrics)
=============================================================================
