----------------------------- MODULE AsyncJobs -----------------------------
(***************************************************************************)
(* Meta's 90-day reports of one account: submit_async_job_for_account,     *)
(* poll_async_jobs and fetch_async_results (workers/tasks/async_jobs.py)   *)
(* around the insights_async rows of sync_jobs, with the other writers of  *)
(* those rows: trigger_sync (app/services/sync.py) and prune_sync_jobs     *)
(* (workers/tasks/maintenance.py).                                         *)
(*                                                                         *)
(* A worker's session has autoflush off: what the poll task changes on its *)
(* rows reaches the database at the commit after its last Meta call, while *)
(* the messages it sends leave at once.  So the poll is a snapshot of      *)
(* rows, a step per row, and a commit.                                     *)
(*                                                                         *)
(* Abstracted: the report's contents, tokens and alerts, and the order of  *)
(* messages.  A countdown is a message that is delivered later.            *)
(***************************************************************************)
EXTENDS Naturals, FiniteSets

CONSTANTS
  Job,         \* ids of sync_jobs rows
  NoJob,       \* not a row
  Exec,        \* slots that execute submits and fetches
  MaxMessages, \* bound: copies of one message
  MaxFaults    \* bound: errors other than rate limits, polls that die

ASSUME AsyncJobsAssumption ==
  /\ NoJob \notin Job
  /\ MaxMessages \in Nat \ {0}
  /\ MaxFaults \in Nat

VARIABLES
  status,      \* sync_jobs.status; "none" where there is no row
  stored,      \* rows whose platform_job_id is set
  rows,        \* sync_jobs.rows_written
  recent,      \* rows completed less than six hours ago
  report,      \* what Meta says about the report posted for a row
  submits,     \* submit messages
  fetches,     \* fetch messages of each row
  pc,          \* the step of each slot
  job,         \* the row of the slot's run
  poll,        \* the step of the poll task
  todo,        \* rows of the poll's snapshot it has not asked Meta about
  progressed,  \* rows on which the poll has set rows_written, uncommitted
  dead,        \* rows the poll has set to 'failed', uncommitted
  trigger,     \* the row that a trigger_sync has not committed yet
  active,      \* the connection is active
  faults,      \* faults that have happened
  crashed      \* a slot has died (bound: one does)

vars == <<status, stored, rows, recent, report, submits, fetches, pc, job, poll,
          todo, progressed, dead, trigger, active, faults, crashed>>

rowVars == <<status, stored, rows, recent>>
mqVars == <<submits, fetches>>
slotVars == <<pc, job>>
envVars == <<trigger, active, crashed>>
pollVars == <<poll, todo, progressed, dead>>

Pc == {"idle", "check", "gate", "insert", "post", "store", "skip", "submitFail",
       "read", "fetch", "complete", "fetchFail"}

SubmitPc == {"check", "gate", "insert", "post", "store", "skip", "submitFail"}

Status == {"none", "pending", "running", "completed", "failed", "skipped"}

Bump(n) == IF n < MaxMessages THEN n + 1 ELSE n

At(e, step) == pc[e] = step

Goto(e, step) == pc' = [pc EXCEPT ![e] = step]

\* The task function returns, or its process is gone.
Return(e) ==
  /\ Goto(e, "idle")
  /\ job' = [job EXCEPT ![e] = NoJob]

Fault == faults < MaxFaults /\ faults' = faults + 1

Init ==
  /\ status = [j \in Job |-> "none"]
  /\ stored = {}
  /\ rows = [j \in Job |-> "null"]
  /\ recent = {}
  /\ report = [j \in Job |-> "none"]
  /\ submits = 0
  /\ fetches = [j \in Job |-> 0]
  /\ pc = [e \in Exec |-> "idle"]
  /\ job = [e \in Exec |-> NoJob]
  /\ poll = "idle"
  /\ todo = {}
  /\ progressed = {}
  /\ dead = {}
  /\ trigger = NoJob
  /\ active = TRUE
  /\ faults = 0
  /\ crashed = FALSE

\* Mutant: a status the schema does not list.
FinalizeUnlisted(j, s) ==
  status' = [status EXCEPT ![j] = IF @ = "none" THEN @ ELSE
                                  IF s = "skipped" THEN "retry" ELSE s]

\* finalize_sync_job, in a transaction of its own: whatever the row's status
\* was, and nothing if there is no row.
Finalize(j, s) ==
  status' = [status EXCEPT ![j] = IF @ = "none" THEN @ ELSE s]

-----------------------------------------------------------------------------
(* Where submits come from *)

\* Beat's submit_async_jobs, or a structure run that has completed.
Dispatch ==
  /\ submits < MaxMessages
  /\ active
  /\ submits' = submits + 1
  /\ UNCHANGED <<rowVars, report, fetches, slotVars, pollVars, envVars, faults>>

\* POST /sync/trigger for insights_async: the message leaves after the flush,
\* before the commit.
TriggerSend(j) ==
  /\ trigger = NoJob
  /\ status[j] = "none"
  /\ trigger' = j
  /\ submits' = Bump(submits)
  /\ UNCHANGED <<rowVars, report, fetches, slotVars, pollVars, active, crashed, faults>>

TriggerCommit ==
  /\ trigger # NoJob
  /\ status' = [status EXCEPT ![trigger] = "pending"]
  /\ trigger' = NoJob
  /\ UNCHANGED <<stored, rows, recent, report, mqVars, slotVars, pollVars, active, crashed, faults>>

-----------------------------------------------------------------------------
(* submit_async_job_for_account *)

StartSubmit(e) ==
  /\ At(e, "idle")
  /\ submits > 0
  /\ submits' = submits - 1
  /\ Goto(e, "check")
  /\ UNCHANGED <<rowVars, report, fetches, job, pollVars, envVars, faults>>

\* A row that counts as "already running/pending".
Blocks(j) == status[j] \in {"pending", "running"}

\* Completed within six hours.
Fresh == \E j \in recent : status[j] = "completed"

\* Phase 1: skip while a report is on its way or fresh, or without a connection.
Check(e) ==
  /\ At(e, "check")
  /\ IF (\E j \in Job : Blocks(j)) \/ Fresh \/ ~active
     THEN Return(e)
     ELSE Goto(e, "gate") /\ UNCHANGED job
  /\ UNCHANGED <<rowVars, report, mqVars, pollVars, envVars, faults>>

\* A paused connection reschedules the message, any other goes on.
Gate(e) ==
  /\ At(e, "gate")
  /\ \/ Goto(e, "insert") /\ UNCHANGED <<job, submits>>
     \/ Return(e) /\ submits' = Bump(submits)
  /\ UNCHANGED <<rowVars, report, fetches, pollVars, envVars, faults>>

\* create_sync_job commits a new 'running' row.
CreateJob(e) ==
  /\ At(e, "insert")
  /\ \E j \in Job \ {trigger} :
       /\ status[j] = "none"
       /\ status' = [status EXCEPT ![j] = "running"]
       /\ job' = [job EXCEPT ![e] = j]
  /\ Goto(e, "post")
  /\ UNCHANGED <<stored, rows, recent, report, mqVars, pollVars, envVars, faults>>

\* apply_backoff lets the call through and Meta accepts the report.
PostOk(e) ==
  /\ At(e, "post")
  /\ report' = [report EXCEPT ![job[e]] = "running"]
  /\ Goto(e, "store")
  /\ UNCHANGED <<rowVars, mqVars, job, pollVars, envVars, faults>>

\* apply_backoff raises, or Meta answers with a rate-limit code.
PostLimited(e) ==
  /\ At(e, "post")
  /\ Finalize(job[e], "skipped")
  /\ Goto(e, "skip")
  /\ UNCHANGED <<stored, rows, recent, report, mqVars, job, pollVars, envVars, faults>>

Reschedule(e) ==
  /\ At(e, "skip")
  /\ submits' = Bump(submits)
  /\ Return(e)
  /\ UNCHANGED <<rowVars, report, fetches, pollVars, envVars, faults>>

\* The report's id goes on the row, in a second transaction.
Store(e) ==
  /\ At(e, "store")
  /\ stored' = IF status[job[e]] = "none" THEN stored ELSE stored \cup {job[e]}
  /\ Return(e)
  /\ UNCHANGED <<status, rows, recent, report, mqVars, pollVars, envVars, faults>>

\* Mutant: the errors of a submit leave the row as it is.
SubmitFailsUnhandled(e) ==
  /\ pc[e] \in {"post", "store"}
  /\ Fault
  /\ Goto(e, "submitFail")
  /\ UNCHANGED <<rowVars, report, mqVars, job, pollVars, envVars>>

\* Any other error of the call, or of storing its answer.
SubmitFails(e) ==
  /\ pc[e] \in {"post", "store"}
  /\ Fault
  /\ Finalize(job[e], "failed")
  /\ Goto(e, "submitFail")
  /\ UNCHANGED <<stored, rows, recent, report, mqVars, job, pollVars, envVars>>

\* self.retry, until the retries are used up.
RetrySubmit(e) ==
  /\ At(e, "submitFail")
  /\ submits' \in {submits, Bump(submits)}
  /\ Return(e)
  /\ UNCHANGED <<rowVars, report, fetches, pollVars, envVars, faults>>

-----------------------------------------------------------------------------
(* poll_async_jobs *)

\* Beat's poll reads the rows it will ask about.
PollStart ==
  /\ poll = "idle"
  /\ poll' = "loop"
  /\ todo' = {j \in stored : status[j] = "running"}
  /\ UNCHANGED <<rowVars, report, mqVars, slotVars, progressed, dead, envVars, faults>>

\* Mutant: a finished report is not fetched.
PollOneWithoutFetch(j) ==
  /\ poll = "loop" /\ j \in todo
  /\ todo' = todo \ {j}
  /\ progressed' = progressed \cup {j}
  /\ dead' = IF report[j] = "failed" THEN dead \cup {j} ELSE dead
  /\ submits' = IF report[j] = "failed" THEN Bump(submits) ELSE submits
  /\ UNCHANGED <<rowVars, report, fetches, slotVars, poll, envVars, faults>>

\* Mutant: every answer starts a fetch, not only "Job Completed".
PollOneFetchesAll(j) ==
  /\ poll = "loop" /\ j \in todo
  /\ todo' = todo \ {j}
  /\ progressed' = progressed \cup {j}
  /\ fetches' = [fetches EXCEPT ![j] = Bump(@)]
  /\ UNCHANGED <<rowVars, report, submits, slotVars, poll, dead, envVars, faults>>

\* One row's answer: progress, a fetch for a finished report, a new submit for
\* a failed or expired one.
PollOne(j) ==
  /\ poll = "loop" /\ j \in todo
  /\ todo' = todo \ {j}
  /\ progressed' = progressed \cup {j}
  /\ dead' = IF report[j] = "failed" THEN dead \cup {j} ELSE dead
  /\ submits' = IF report[j] = "failed" THEN Bump(submits) ELSE submits
  /\ fetches' = IF report[j] = "completed"
                THEN [fetches EXCEPT ![j] = Bump(@)]
                ELSE fetches
  /\ UNCHANGED <<rowVars, report, slotVars, poll, envVars, faults>>

\* An error on one row does not stop the loop.
PollOneFails(j) ==
  /\ poll = "loop" /\ j \in todo
  /\ Fault
  /\ todo' = todo \ {j}
  /\ UNCHANGED <<rowVars, report, mqVars, slotVars, poll, progressed, dead, envVars>>

\* The session commits what the loop has set.
PollCommit ==
  /\ poll = "loop" /\ todo = {}
  /\ rows' = [j \in Job |-> IF j \in progressed THEN "percent" ELSE rows[j]]
  /\ status' = [j \in Job |-> IF j \in dead THEN "failed" ELSE status[j]]
  /\ poll' = "idle"
  /\ progressed' = {}
  /\ dead' = {}
  /\ UNCHANGED <<stored, recent, report, mqVars, slotVars, todo, envVars, faults>>

\* The process dies or the commit fails: the updates are lost, the messages are
\* not.
PollDies ==
  /\ poll = "loop"
  /\ Fault
  /\ poll' = "idle"
  /\ todo' = {}
  /\ progressed' = {}
  /\ dead' = {}
  /\ UNCHANGED <<rowVars, report, mqVars, slotVars, envVars>>

-----------------------------------------------------------------------------
(* fetch_async_results *)

StartFetch(e, j) ==
  /\ At(e, "idle")
  /\ fetches[j] > 0
  /\ fetches' = [fetches EXCEPT ![j] = @ - 1]
  /\ job' = [job EXCEPT ![e] = j]
  /\ Goto(e, "read")
  /\ UNCHANGED <<rowVars, report, submits, pollVars, envVars, faults>>

\* Only a row that is gone ends the run.
ReadRow(e) ==
  /\ At(e, "read")
  /\ IF status[job[e]] = "none" THEN Return(e) ELSE Goto(e, "fetch") /\ UNCHANGED job
  /\ UNCHANGED <<rowVars, report, mqVars, pollVars, envVars, faults>>

\* The result pages are read and upserted.
FetchOk(e) ==
  /\ At(e, "fetch")
  /\ Goto(e, "complete")
  /\ UNCHANGED <<rowVars, report, mqVars, job, pollVars, envVars, faults>>

Complete(e) ==
  /\ At(e, "complete")
  /\ Finalize(job[e], "completed")
  /\ rows' = [rows EXCEPT ![job[e]] = IF status[job[e]] = "none" THEN @ ELSE "total"]
  /\ recent' = recent \cup {job[e]}
  /\ Return(e)
  /\ UNCHANGED <<stored, report, mqVars, pollVars, envVars, faults>>

\* Any error of the pages, the upsert or the soft time limit.
FetchFails(e) ==
  /\ pc[e] \in {"fetch", "complete"}
  /\ Fault
  /\ Finalize(job[e], "failed")
  /\ Goto(e, "fetchFail")
  /\ UNCHANGED <<stored, rows, recent, report, mqVars, job, pollVars, envVars>>

\* self.retry, until the retries are used up.
RetryFetch(e) ==
  /\ At(e, "fetchFail")
  /\ \/ fetches' = [fetches EXCEPT ![job[e]] = Bump(@)]
     \/ UNCHANGED fetches
  /\ Return(e)
  /\ UNCHANGED <<rowVars, report, submits, pollVars, envVars, faults>>

-----------------------------------------------------------------------------
(* Failures and the environment *)

\* A slot's process dies, or the database fails its handler as well.
\* acks_late redelivers the message of a lost worker, no other.
Crash(e) ==
  /\ ~At(e, "idle")
  /\ ~crashed
  /\ crashed' = TRUE
  /\ \/ UNCHANGED mqVars
     \/ pc[e] \in SubmitPc /\ submits' = Bump(submits) /\ UNCHANGED fetches
     \/ /\ pc[e] \notin SubmitPc
        /\ fetches' = [fetches EXCEPT ![job[e]] = Bump(@)]
        /\ UNCHANGED submits
  /\ Return(e)
  /\ UNCHANGED <<rowVars, report, pollVars, trigger, active, faults>>

\* Meta finishes a report, or lets it fail or expire.
MetaFinishes(j) ==
  /\ report[j] = "running"
  /\ \E s \in {"completed", "failed"} : report' = [report EXCEPT ![j] = s]
  /\ UNCHANGED <<rowVars, mqVars, slotVars, pollVars, envVars, faults>>

\* Six hours after its completion a row is no longer fresh.
GoStale(j) ==
  /\ j \in recent
  /\ recent' = recent \ {j}
  /\ UNCHANGED <<status, stored, rows, report, mqVars, slotVars, pollVars, envVars, faults>>

\* prune_sync_jobs, a week later: nothing that happened to the row is still on
\* its way.  The id is free for a later row.
Quiet(j) ==
  /\ j \notin {job[e] : e \in Exec} \cup todo \cup progressed \cup recent
  /\ fetches[j] = 0

Prune(j) ==
  /\ status[j] # "none"
  /\ Quiet(j)
  /\ status' = [status EXCEPT ![j] = "none"]
  /\ stored' = stored \ {j}
  /\ rows' = [rows EXCEPT ![j] = "null"]
  /\ report' = [report EXCEPT ![j] = "none"]
  /\ UNCHANGED <<recent, mqVars, slotVars, pollVars, envVars, faults>>

\* A user disconnects Meta or connects it again.
SetActive ==
  /\ active' = ~active
  /\ UNCHANGED <<rowVars, report, mqVars, slotVars, pollVars, trigger, crashed, faults>>

-----------------------------------------------------------------------------
\* What a live slot does on its own.
Step(e) ==
  \/ Check(e) \/ Gate(e) \/ CreateJob(e) \/ PostOk(e) \/ PostLimited(e)
  \/ Reschedule(e) \/ Store(e) \/ RetrySubmit(e)
  \/ ReadRow(e) \/ FetchOk(e) \/ Complete(e) \/ RetryFetch(e)

SlotNext ==
  \E e \in Exec :
    \/ Step(e) \/ StartSubmit(e) \/ SubmitFails(e) \/ FetchFails(e) \/ Crash(e)
    \/ \E j \in Job : StartFetch(e, j)

PollNext ==
  \/ PollStart \/ PollCommit \/ PollDies
  \/ \E j \in Job : PollOne(j) \/ PollOneFails(j)

UserNext == (\E j \in Job : TriggerSend(j)) \/ TriggerCommit \/ SetActive

Clocks == \E j \in Job : MetaFinishes(j) \/ GoStale(j) \/ Prune(j)

Next == SlotNext \/ PollNext \/ UserNext \/ Clocks \/ Dispatch

Spec == Init /\ [][Next]_vars

\* Slots and the poll make progress, every message gets its turn, and Meta
\* finishes its reports.  Nobody owes a prune, a dispatch or a trigger.
Fairness ==
  /\ \A e \in Exec : WF_vars(Step(e))
  /\ \A j \in Job : /\ SF_vars(\E e \in Exec : StartFetch(e, j))
                    /\ WF_vars(MetaFinishes(j))
                    /\ WF_vars(PollOne(j))
  /\ WF_vars(PollStart)
  /\ WF_vars(PollCommit)

FairSpec == Spec /\ Fairness

-----------------------------------------------------------------------------
\* Every variable has its type.
TypeOK ==
  /\ status \in [Job -> Status]
  /\ stored \subseteq Job
  /\ rows \in [Job -> {"null", "percent", "total"}]
  /\ recent \subseteq Job
  /\ report \in [Job -> {"none", "running", "completed", "failed"}]
  /\ submits \in 0..MaxMessages
  /\ fetches \in [Job -> 0..MaxMessages]
  /\ pc \in [Exec -> Pc]
  /\ job \in [Exec -> Job \cup {NoJob}]
  /\ poll \in {"idle", "loop"}
  /\ todo \subseteq Job /\ progressed \subseteq Job /\ dead \subseteq progressed
  /\ trigger \in Job \cup {NoJob}
  /\ active \in BOOLEAN
  /\ faults \in 0..MaxFaults
  /\ crashed \in BOOLEAN

\* A 'running' row that no poll finds, because it has no report id, belongs to a
\* submit that is still at work; otherwise it would block every submit of the
\* account until it is pruned.  Only a process that died leaves one behind.
Unpollable(j) == status[j] = "running" /\ j \notin stored

UnpollableRowHasSubmit ==
  ~crashed => \A j \in Job : Unpollable(j) => \E e \in Exec : job[e] = j

\* Rows are completed with the results of reports that Meta has completed, and
\* the poll is about to fail only rows whose report failed, however old its
\* snapshot is by then.
RowsFollowReports ==
  \A j \in Job : /\ status[j] = "completed" => report[j] = "completed"
                 /\ j \in dead => report[j] = "failed"

\* A row with a report does not stay 'running': whatever dies or fails, some
\* poll and some fetch settle it.
ReportsSettle ==
  \A j \in Job : status[j] = "running" /\ j \in stored ~> status[j] # "running"
=============================================================================
