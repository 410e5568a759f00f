------------------------------ MODULE MetaSync ------------------------------
(***************************************************************************)
(* The Meta sync pipeline of one platform connection: the Celery tasks     *)
(* sync_structure_for_account, sync_insights_for_account and               *)
(* sync_breakdowns_for_account (workers/tasks/structure.py, insights.py),  *)
(* the queue they are delivered from, the in-flight locks, the sync_jobs   *)
(* rows, the connection-wide pause and the rate-limit bookkeeping of       *)
(* workers/rate_limit.py.                                                  *)
(*                                                                         *)
(* A message is an <<account, job_type>> pair.  A slot executes one        *)
(* message at a time, one step per database transaction, Redis command or  *)
(* Meta call, so that runs interleave where the processes really do.       *)
(*                                                                         *)
(* The lock is the abstraction that SyncLock justifies: held by the run    *)
(* that took it, or orphaned by a dead one until its key expires.          *)
(*                                                                         *)
(* Abstracted: payloads (a Meta call only says how much of the app quota   *)
(* is used), the age of data (fresh or not), and the length of a countdown *)
(* (a countdown is over some time after its sender released the lock).     *)
(***************************************************************************)
EXTENDS Naturals

CONSTANTS
  Account,     \* ad accounts imported under the connection
  Job,         \* the job types modelled, a subset of AllJobs
  Exec,        \* worker slots
  NoTask,      \* what an idle slot executes
  Free,        \* a lock nobody holds
  Orphan,      \* a lock whose holder died, until its TTL is over
  Calls,       \* Meta calls of a run (with all their pages), one per apply_backoff
  Quota,       \* calls Meta grants the app per window; at Quota it is > 95% used
  SoftAt,      \* usage from which Meta reports more than 80%
  MaxQueue,    \* bound: copies of one message that wait at a time
  MaxFaults    \* bound: crashes and errors other than rate limits

AllJobs == {"structure", "insights_daily", "breakdown"}

ASSUME MetaSyncAssumption ==
  /\ Job \subseteq AllJobs
  /\ "structure" \in Job
  /\ Free # Orphan /\ Free \notin Exec /\ Orphan \notin Exec
  /\ NoTask \notin Account \X Job
  /\ Calls \in Nat \ {0}
  /\ Quota \in Nat \ {0}
  /\ SoftAt \in 1..Quota
  /\ MaxQueue \in Nat \ {0}
  /\ MaxFaults \in Nat

VARIABLES
  queue,       \* messages ready for delivery
  delayed,     \* messages whose countdown is running
  pc,          \* the step a slot is at
  task,        \* the message a slot executes
  calls,       \* Meta calls the slot's run has made
  row,         \* status of the run's sync_jobs row
  lock,        \* the in-flight lock of each message
  fresh,       \* a completed row younger than the job's TTL exists
  structureDone, \* a completed structure row exists
  camps,       \* the account has rows in campaigns
  remote,      \* the account has campaigns at Meta
  active,      \* the connection is active and its accounts are not disabled
  paused,      \* the connection's pause key exists
  pct,         \* the utilization stored for the account
  usage,       \* calls Meta has counted against the app in this window
  spent,       \* history: calls a slot has made during the current pause
  faults       \* faults that have happened

vars == <<queue, delayed, pc, task, calls, row, lock, fresh, structureDone,
          camps, remote, active, paused, pct, usage, spent, faults>>

runVars == <<pc, task, calls, row>>
mqVars == <<queue, delayed>>
dbVars == <<fresh, structureDone, camps, active>>
rateVars == <<paused, pct, spent>>
metaVars == <<remote, usage>>

Msg == Account \X Job

Pc == {"idle", "read", "guard", "gate", "lock", "insert", "backoff", "call",
       "write", "finish", "fail", "pause", "skip", "requeue", "release",
       "abort", "kick"}

\* The steps between acquire_lock and release_lock.
Working == {"insert", "backoff", "call", "write", "finish", "fail", "pause",
            "skip", "requeue", "release", "abort"}

RowStatus == {"none", "running", "completed", "failed", "skipped"}

\* MetaClient reports usage in the throttle header; RateLimitState keeps it.
Level(u) == IF u >= Quota THEN "hard" ELSE IF u >= SoftAt THEN "soft" ELSE "ok"

Enqueue(q, m) == [q EXCEPT ![m] = IF @ < MaxQueue THEN @ + 1 ELSE @]

AcctOf(e) == task[e][1]
JobOf(e) == task[e][2]

-----------------------------------------------------------------------------
\* The account was just imported: sync_accounts_for_connection has enqueued
\* its first runs.
Init ==
  /\ queue = [m \in Msg |-> 1]
  /\ delayed = [m \in Msg |-> 0]
  /\ pc = [e \in Exec |-> "idle"]
  /\ task = [e \in Exec |-> NoTask]
  /\ calls = [e \in Exec |-> 0]
  /\ row = [e \in Exec |-> "none"]
  /\ lock = [m \in Msg |-> Free]
  /\ fresh = [m \in Msg |-> FALSE]
  /\ structureDone = [a \in Account |-> FALSE]
  /\ camps = [a \in Account |-> FALSE]
  /\ remote \in [Account -> BOOLEAN]
  /\ active = TRUE
  /\ paused = FALSE
  /\ pct = [a \in Account |-> "ok"]
  /\ usage = 0
  /\ spent = [e \in Exec |-> 0]
  /\ faults = 0

Goto(e, step) == pc' = [pc EXCEPT ![e] = step]

At(e, step) == pc[e] = step

\* The task function returns (or its process is gone): the message is done.
Return(e) ==
  /\ Goto(e, "idle")
  /\ task' = [task EXCEPT ![e] = NoTask]
  /\ calls' = [calls EXCEPT ![e] = 0]
  /\ row' = [row EXCEPT ![e] = "none"]

\* Mutant: the status the docs draw, which the schema does not list.
SettleInProgress(e, status, step) ==
  /\ row' = [row EXCEPT ![e] = IF status = "running" THEN "in_progress" ELSE status]
  /\ Goto(e, step)
  /\ UNCHANGED <<task, calls>>

\* The run's sync_jobs row gets a status, in a transaction of its own.
Settle(e, status, step) ==
  /\ row' = [row EXCEPT ![e] = status]
  /\ Goto(e, step)
  /\ UNCHANGED <<task, calls>>

Fault == faults < MaxFaults /\ faults' = faults + 1

-----------------------------------------------------------------------------
(* Delivery *)

\* An idle slot takes a message off the queue.
Deliver(e, m) ==
  /\ At(e, "idle")
  /\ queue[m] > 0
  /\ queue' = [queue EXCEPT ![m] = @ - 1]
  /\ task' = [task EXCEPT ![e] = m]
  /\ Goto(e, "read")
  /\ UNCHANGED <<delayed, calls, row, lock, dbVars, rateVars, metaVars, faults>>

\* A countdown is over.  Every countdown is half a minute or more, its sender
\* releases the lock right after the enqueue.
CountdownOver(m) ==
  /\ delayed[m] > 0
  /\ ~ \E e \in Exec : task[e] = m /\ At(e, "release")
  /\ delayed' = [delayed EXCEPT ![m] = @ - 1]
  /\ queue' = Enqueue(queue, m)
  /\ UNCHANGED <<runVars, lock, dbVars, rateVars, metaVars, faults>>

\* Beat's dispatchers (sync_structure_all, sync_insights_daily_all,
\* sync_breakdowns_all) through stagger_dispatch: nothing for disabled
\* accounts, nothing for a paused connection.
Beat(m) ==
  /\ active
  /\ ~paused
  /\ queue[m] < MaxQueue
  /\ queue' = Enqueue(queue, m)
  /\ UNCHANGED <<delayed, runVars, lock, dbVars, rateVars, metaVars, faults>>

-----------------------------------------------------------------------------
(* The steps before the lock *)

\* Phase 1 of structure: fresh data or a dead connection end the run.
ReadStructure(e) ==
  /\ At(e, "read")
  /\ JobOf(e) = "structure"
  /\ IF fresh[task[e]] \/ ~active
     THEN Return(e)
     ELSE Goto(e, "gate") /\ UNCHANGED <<task, calls, row>>
  /\ UNCHANGED <<mqVars, lock, dbVars, rateVars, metaVars, faults>>

\* Mutant: no livelock guard.
ReadInsightsUnguarded(e) ==
  /\ At(e, "read")
  /\ JobOf(e) = "insights_daily"
  /\ IF fresh[task[e]] \/ ~active
     THEN Return(e)
     ELSE Goto(e, "gate") /\ UNCHANGED <<task, calls, row>>
  /\ UNCHANGED <<mqVars, lock, dbVars, rateVars, metaVars, faults>>

\* Phase 1 of insights reads the campaign map last; an empty one leads to the
\* livelock guard instead of to Meta.
ReadInsights(e) ==
  /\ At(e, "read")
  /\ JobOf(e) = "insights_daily"
  /\ IF fresh[task[e]] \/ ~active
     THEN Return(e)
     ELSE /\ Goto(e, IF camps[AcctOf(e)] THEN "gate" ELSE "guard")
          /\ UNCHANGED <<task, calls, row>>
  /\ UNCHANGED <<mqVars, lock, dbVars, rateVars, metaVars, faults>>

\* The livelock guard's second query, in a later snapshot than the first: no
\* completed structure row means that structure must run before insights.
GuardInsights(e) ==
  /\ At(e, "guard")
  /\ queue' = IF structureDone[AcctOf(e)]
              THEN queue
              ELSE Enqueue(queue, <<AcctOf(e), "structure">>)
  /\ Return(e)
  /\ UNCHANGED <<delayed, lock, dbVars, rateVars, metaVars, faults>>

\* Breakdowns have no staleness guard and need no campaigns.
ReadBreakdown(e) ==
  /\ At(e, "read")
  /\ JobOf(e) = "breakdown"
  /\ IF ~active
     THEN Return(e)
     ELSE Goto(e, "gate") /\ UNCHANGED <<task, calls, row>>
  /\ UNCHANGED <<mqVars, lock, dbVars, rateVars, metaVars, faults>>

\* Mutant: the pause is not looked at on entry.
GateIgnoresPause(e) ==
  /\ At(e, "gate")
  /\ Goto(e, "lock")
  /\ UNCHANGED <<task, calls, row, mqVars, lock, dbVars, rateVars, metaVars, faults>>

\* connection_paused_remaining: a paused connection reschedules the message.
Gate(e) ==
  /\ At(e, "gate")
  /\ IF paused
     THEN delayed' = Enqueue(delayed, task[e]) /\ Return(e)
     ELSE Goto(e, "lock") /\ UNCHANGED <<delayed, task, calls, row>>
  /\ UNCHANGED <<queue, lock, dbVars, rateVars, metaVars, faults>>

\* Mutant: the lock's answer is ignored.
AcquireAnyLock(e) ==
  /\ At(e, "lock")
  /\ lock' = [lock EXCEPT ![task[e]] = e]
  /\ Goto(e, "insert")
  /\ UNCHANGED <<task, calls, row, mqVars, dbVars, rateVars, metaVars, faults>>

\* acquire_lock: whoever finds the lock taken drops its message.
AcquireLock(e) ==
  /\ At(e, "lock")
  /\ IF lock[task[e]] = Free
     THEN /\ lock' = [lock EXCEPT ![task[e]] = e]
          /\ Goto(e, "insert")
          /\ UNCHANGED <<task, calls, row>>
     ELSE Return(e) /\ UNCHANGED lock
  /\ UNCHANGED <<mqVars, dbVars, rateVars, metaVars, faults>>

\* create_sync_job commits the 'running' row.
CreateJob(e) ==
  /\ At(e, "insert")
  /\ Settle(e, "running", "backoff")
  /\ UNCHANGED <<mqVars, lock, dbVars, rateVars, metaVars, faults>>

\* create_sync_job raises outside the try: the task fails, the lock stays.
CreateJobFails(e) ==
  /\ At(e, "insert")
  /\ Fault
  /\ lock' = [lock EXCEPT ![task[e]] = Orphan]
  /\ Return(e)
  /\ UNCHANGED <<mqVars, dbVars, rateVars, metaVars>>

-----------------------------------------------------------------------------
(* The steps under the lock *)

\* apply_backoff: a stored hard limit pauses the connection (again), a soft one
\* only this run; both raise RateLimitBackoff.
Backoff(e) ==
  /\ At(e, "backoff")
  /\ paused' = (paused \/ pct[AcctOf(e)] = "hard")
  /\ Goto(e, IF pct[AcctOf(e)] = "ok" THEN "call" ELSE "skip")
  /\ UNCHANGED <<task, calls, row, mqVars, lock, dbVars, pct, spent, metaVars, faults>>

\* Bounded one above what PauseBoundsCalls allows.
SpentAfterCall(e) ==
  [spent EXCEPT ![e] = IF paused /\ @ <= Calls THEN @ + 1 ELSE @]

\* Meta answers; update_from_headers stores the utilization and pauses the
\* connection when it is hard.
CallOk(e) ==
  /\ At(e, "call")
  /\ usage < Quota
  /\ usage' = usage + 1
  /\ pct' = [pct EXCEPT ![AcctOf(e)] = Level(usage')]
  /\ paused' = (paused \/ Level(usage') = "hard")
  /\ spent' = SpentAfterCall(e)
  /\ calls' = [calls EXCEPT ![e] = @ + 1]
  /\ Goto(e, IF calls[e] + 1 < Calls THEN "backoff" ELSE "write")
  /\ UNCHANGED <<task, row, mqVars, lock, dbVars, remote, faults>>

\* Meta answers with a rate-limit error code.
CallRateLimited(e) ==
  /\ At(e, "call")
  /\ usage >= Quota
  /\ spent' = SpentAfterCall(e)
  /\ Goto(e, "pause")
  /\ UNCHANGED <<task, calls, row, mqVars, lock, dbVars, paused, pct, metaVars, faults>>

\* pause_connection in the except clause, before the row is finalized.
PauseConnection(e) ==
  /\ At(e, "pause")
  /\ paused' = TRUE
  /\ Goto(e, "skip")
  /\ UNCHANGED <<task, calls, row, mqVars, lock, dbVars, pct, spent, metaVars, faults>>

\* The steps of the try block's body.
TryBody == {"backoff", "call", "write", "finish"}

\* Mutant: an error goes past the handler that finalizes the row.
RunFailsUnhandled(e) ==
  /\ pc[e] \in TryBody
  /\ Fault
  /\ Goto(e, "release")
  /\ UNCHANGED <<task, calls, row, mqVars, lock, dbVars, rateVars, metaVars>>

\* Any other error in the try block: of Redis in apply_backoff, of a call, of the
\* write transaction, which rolls back, or of finalize_sync_job.  The soft time
\* limit is raised the same way.
RunFails(e) ==
  /\ pc[e] \in TryBody
  /\ Fault
  /\ Goto(e, "fail")
  /\ UNCHANGED <<task, calls, row, mqVars, lock, dbVars, rateVars, metaVars>>

\* Campaigns, ad groups and ads are upserted in one transaction.
WriteStructure(e) ==
  /\ At(e, "write")
  /\ JobOf(e) = "structure"
  /\ camps' = [camps EXCEPT ![AcctOf(e)] = @ \/ remote[AcctOf(e)]]
  /\ Goto(e, "finish")
  /\ UNCHANGED <<task, calls, row, mqVars, lock, fresh, structureDone, active,
                 rateVars, metaVars, faults>>

\* Campaign rows, then ad group and ad rows, in transactions of their own.
\* Metrics steer no other run.
WriteMetrics(e) ==
  /\ At(e, "write")
  /\ JobOf(e) = "insights_daily"
  /\ Goto(e, "finish")
  /\ UNCHANGED <<task, calls, row, mqVars, lock, dbVars, rateVars, metaVars, faults>>

\* The transaction that is open around all breakdown calls commits; breakdown
\* rows steer no other run either.
WriteBreakdown(e) ==
  /\ At(e, "write")
  /\ JobOf(e) = "breakdown"
  /\ Goto(e, "finish")
  /\ UNCHANGED <<task, calls, row, mqVars, lock, dbVars, rateVars, metaVars, faults>>

\* finalize_sync_job(job_id, "completed").
Finish(e) ==
  /\ At(e, "finish")
  /\ Settle(e, "completed", "release")
  /\ fresh' = [fresh EXCEPT ![task[e]] = TRUE]
  /\ structureDone' = IF JobOf(e) = "structure"
                      THEN [structureDone EXCEPT ![AcctOf(e)] = TRUE]
                      ELSE structureDone
  /\ UNCHANGED <<mqVars, lock, camps, active, rateVars, metaVars, faults>>

\* finalize_sync_job(job_id, "skipped") in the rate-limit handlers.
FinalizeSkipped(e) ==
  /\ At(e, "skip")
  /\ Settle(e, "skipped", "requeue")
  /\ UNCHANGED <<mqVars, lock, dbVars, rateVars, metaVars, faults>>

\* finalize_sync_job(job_id, "failed"); then self.retry, unless the soft time
\* limit was hit or the retries are used up.
FinalizeFailed(e) ==
  /\ At(e, "fail")
  /\ \E step \in {"requeue", "release"} : Settle(e, "failed", step)
  /\ UNCHANGED <<mqVars, lock, dbVars, rateVars, metaVars, faults>>

\* apply_async(countdown) or retry.
Requeue(e) ==
  /\ At(e, "requeue")
  /\ delayed' = Enqueue(delayed, task[e])
  /\ Goto(e, "release")
  /\ UNCHANGED <<queue, task, calls, row, lock, dbVars, rateVars, metaVars, faults>>

\* An except clause raises itself: pause_connection, finalize_sync_job,
\* apply_async or retry cannot reach Redis, the database or the broker.  The
\* row stays as it is and the message is not sent again.
HandlerFails(e) ==
  /\ pc[e] \in {"pause", "skip", "fail", "requeue"}
  /\ Fault
  /\ Goto(e, "abort")
  /\ UNCHANGED <<task, calls, row, mqVars, lock, dbVars, rateVars, metaVars>>

\* What follows the try statement, unless an exception goes on.
LeaveTry(e) ==
  IF At(e, "release") /\ row[e] = "completed" /\ JobOf(e) = "structure"
  THEN Goto(e, "kick") /\ UNCHANGED <<task, calls, row>>
  ELSE Return(e)

\* finally: release_lock.
ReleaseLock(e) ==
  /\ pc[e] \in {"release", "abort"}
  /\ lock' = [lock EXCEPT ![task[e]] = Free]
  /\ LeaveTry(e)
  /\ UNCHANGED <<mqVars, dbVars, rateVars, metaVars, faults>>

\* release_lock swallows an error of Redis: the key stays until it expires.
ReleaseFails(e) ==
  /\ pc[e] \in {"release", "abort"}
  /\ Fault
  /\ lock' = [lock EXCEPT ![task[e]] = Orphan]
  /\ LeaveTry(e)
  /\ UNCHANGED <<mqVars, dbVars, rateVars, metaVars>>

\* A completed structure run starts what depends on it.
Kick(e) ==
  /\ At(e, "kick")
  /\ queue' = IF "insights_daily" \in Job
              THEN Enqueue(queue, <<AcctOf(e), "insights_daily">>)
              ELSE queue
  /\ Return(e)
  /\ UNCHANGED <<delayed, lock, dbVars, rateVars, metaVars, faults>>

\* A .delay raises after the finally: the task fails with the row completed.
KickFails(e) ==
  /\ At(e, "kick")
  /\ Fault
  /\ Return(e)
  /\ UNCHANGED <<mqVars, lock, dbVars, rateVars, metaVars>>

-----------------------------------------------------------------------------
(* Failures and the environment *)

\* The process executing the task dies.  task_acks_late: a lost worker's
\* message is delivered again, a lost pool child's message is not.
Crash(e) ==
  /\ ~At(e, "idle")
  /\ Fault
  /\ lock' = IF lock[task[e]] = e THEN [lock EXCEPT ![task[e]] = Orphan] ELSE lock
  /\ \/ queue' = Enqueue(queue, task[e])
     \/ UNCHANGED queue
  /\ Return(e)
  /\ UNCHANGED <<delayed, dbVars, rateVars, metaVars>>

\* Mutant: LOCK_TTL is shorter than a run may take.
LockExpiresEarly(m) ==
  /\ lock[m] # Free
  /\ lock' = [lock EXCEPT ![m] = Free]
  /\ UNCHANGED <<runVars, mqVars, dbVars, rateVars, metaVars, faults>>

\* Redis drops an orphaned key when LOCK_TTL is over.
LockExpires(m) ==
  /\ lock[m] = Orphan
  /\ lock' = [lock EXCEPT ![m] = Free]
  /\ UNCHANGED <<runVars, mqVars, dbVars, rateVars, metaVars, faults>>

\* The last completed row gets older than the job's TTL.
GoStale(m) ==
  /\ fresh[m]
  /\ fresh' = [fresh EXCEPT ![m] = FALSE]
  /\ UNCHANGED <<runVars, mqVars, lock, structureDone, camps, active, rateVars,
                 metaVars, faults>>

\* prune_sync_jobs deletes the rows of an account that has not completed a
\* structure run for a week.
Prune(a) ==
  /\ structureDone[a]
  /\ ~fresh[<<a, "structure">>]
  /\ structureDone' = [structureDone EXCEPT ![a] = FALSE]
  /\ UNCHANGED <<runVars, mqVars, lock, fresh, camps, active, rateVars,
                 metaVars, faults>>

\* The pause key expires.
PauseOver ==
  /\ paused
  /\ paused' = FALSE
  /\ spent' = [e \in Exec |-> 0]
  /\ UNCHANGED <<runVars, mqVars, lock, dbVars, pct, metaVars, faults>>

\* The account's rate-limit keys, stored for an hour, expire.
PctExpires(a) ==
  /\ pct[a] # "ok"
  /\ pct' = [pct EXCEPT ![a] = "ok"]
  /\ UNCHANGED <<runVars, mqVars, lock, dbVars, paused, spent, metaVars, faults>>

\* Meta starts a new window.
UsageResets ==
  /\ usage > 0
  /\ usage' = 0
  /\ UNCHANGED <<runVars, mqVars, lock, dbVars, rateVars, remote, faults>>

\* Somebody creates the account's first campaign at Meta.
CampaignCreated(a) ==
  /\ ~remote[a]
  /\ remote' = [remote EXCEPT ![a] = TRUE]
  /\ UNCHANGED <<runVars, mqVars, lock, dbVars, rateVars, usage, faults>>

\* A user disconnects the platform, or connects it again, which imports the
\* accounts anew and enqueues their first runs.
Disconnect ==
  /\ active
  /\ active' = FALSE
  /\ UNCHANGED <<runVars, mqVars, lock, fresh, structureDone, camps, rateVars,
                 metaVars, faults>>

Reconnect ==
  /\ ~active
  /\ active' = TRUE
  /\ queue' = [m \in Msg |-> IF queue[m] < MaxQueue THEN queue[m] + 1 ELSE queue[m]]
  /\ UNCHANGED <<runVars, delayed, lock, fresh, structureDone, camps, rateVars,
                 metaVars, faults>>

-----------------------------------------------------------------------------
\* What a live process does on its own.
Progress(e) ==
  \/ ReadStructure(e) \/ ReadInsights(e) \/ GuardInsights(e) \/ ReadBreakdown(e)
  \/ Gate(e) \/ AcquireLock(e) \/ CreateJob(e)
  \/ Backoff(e) \/ CallOk(e) \/ CallRateLimited(e) \/ PauseConnection(e)
  \/ WriteStructure(e) \/ WriteMetrics(e) \/ WriteBreakdown(e)
  \/ Finish(e) \/ FinalizeSkipped(e) \/ FinalizeFailed(e) \/ Requeue(e)
  \/ ReleaseLock(e) \/ Kick(e)

Faulty(e) ==
  \/ CreateJobFails(e) \/ RunFails(e) \/ HandlerFails(e) \/ ReleaseFails(e) \/ KickFails(e)
  \/ Crash(e)

Clocks ==
  \/ PauseOver
  \/ UsageResets
  \/ \E m \in Msg : CountdownOver(m) \/ LockExpires(m) \/ GoStale(m)
  \/ \E a \in Account : Prune(a) \/ PctExpires(a)

\* Everything but Beat and the users.
Pipeline ==
  \/ \E e \in Exec : Progress(e) \/ Faulty(e) \/ \E m \in Msg : Deliver(e, m)
  \/ Clocks

Users == Disconnect \/ Reconnect \/ \E a \in Account : CampaignCreated(a)

Next == Pipeline \/ Users \/ \E m \in Msg : Beat(m)

Spec == Init /\ [][Next]_vars

\* Live processes make progress, the broker's lists are first-in first-out so
\* no message is passed over forever, and every timer runs out.
Fairness ==
  /\ \A e \in Exec : WF_vars(Progress(e))
  /\ \A m \in Msg : /\ SF_vars(\E e \in Exec : Deliver(e, m))
                    /\ WF_vars(CountdownOver(m))
                    /\ WF_vars(LockExpires(m))
                    /\ WF_vars(GoStale(m))
  /\ \A a \in Account : WF_vars(PctExpires(a))
  /\ WF_vars(PauseOver)
  /\ WF_vars(UsageResets)

BeatFairness == \A m \in Msg : SF_vars(Beat(m))

\* The connection stays; Beat keeps dispatching.
ConnectedNext ==
  \/ Pipeline
  \/ \E m \in Msg : Beat(m)
  \/ \E a \in Account : CampaignCreated(a)

ConnectedSpec == Init /\ [][ConnectedNext]_vars /\ Fairness /\ BeatFairness

-----------------------------------------------------------------------------
\* Every variable has its type.
TypeOK ==
  /\ queue \in [Msg -> 0..MaxQueue]
  /\ delayed \in [Msg -> 0..MaxQueue]
  /\ pc \in [Exec -> Pc]
  /\ task \in [Exec -> Msg \cup {NoTask}]
  /\ calls \in [Exec -> 0..Calls]
  /\ row \in [Exec -> RowStatus]
  /\ lock \in [Msg -> Exec \cup {Free, Orphan}]
  /\ fresh \in [Msg -> BOOLEAN]
  /\ structureDone \in [Account -> BOOLEAN]
  /\ camps \in [Account -> BOOLEAN]
  /\ remote \in [Account -> BOOLEAN]
  /\ active \in BOOLEAN
  /\ paused \in BOOLEAN
  /\ pct \in [Account -> {"ok", "soft", "hard"}]
  /\ usage \in 0..Quota
  /\ spent \in [Exec -> 0..(Calls + 1)]
  /\ faults \in 0..MaxFaults

\* Two runs of one job for one account never work at the same time, in spite of
\* duplicate deliveries, crashes and reschedules (the overlap guards).
OneRunPerJob ==
  \A e, f \in Exec :
    pc[e] \in Working /\ pc[f] \in Working /\ task[e] = task[f] => e = f

\* The runs of one message, and the lock they take.
Runs(m) == {e \in Exec : pc[e] \in Working /\ task[e] = m}

RunLock(m) == INSTANCE SingleFlight WITH
  Slot <- Exec, active <- Runs(m), left <- (lock[m] = Orphan)

\* Every message's runs come in and go as the lock of SyncLock lets them: one at
\* a time, none while a dead run's key has not expired, whatever is redelivered,
\* rescheduled or sent by Beat or a user meanwhile.
LocksAreSingleFlight ==
  /\ \A m \in Msg : RunLock(m)!Init
  /\ [][\A m \in Msg : UNCHANGED RunLock(m)!lockVars \/ RunLock(m)!Next]_<<pc, task, lock>>

\* While a connection is paused, of the three tasks only the runs that passed the
\* gate before go on calling Meta, each to its end at most, and the run that
\* caused the pause short of it: neither redeliveries and countdowns nor Beat add
\* calls of their own (the gate is read once, at task entry).  The imports and
\* the polls and fetches of reports have no gate and are not counted here.
PauseBoundsCalls ==
  paused => /\ \A e \in Exec : spent[e] <= Calls
            /\ \E e \in Exec : spent[e] < Calls

Pending(m) == queue[m] > 0 \/ delayed[m] > 0 \/ \E e \in Exec : task[e] = m

\* What a run's sync_jobs row says when the run has gone: it has completed or
\* failed, or it was skipped and its message is still on its way.  Only a run
\* that dies, or whose except clause raises itself, leaves the row 'running' or
\* a skipped message unsent (the handlers of structure.py and insights.py).
RowsAreSettled ==
  [][\A e \in Exec, m \in Msg : task[e] = m /\ row[e] # "none" /\ row'[e] = "none" =>
       \/ row[e] \in {"completed", "failed"}
       \/ row[e] = "skipped" /\ Pending(m)'
       \/ At(e, "abort")
       \/ faults' > faults]_vars

\* Campaigns that exist at Meta get into the database in the end: insights runs
\* do not keep draining the app quota that structure needs (the livelock).
CampaignsArrive == \A a \in Account : remote[a] ~> camps[a]
=============================================================================
