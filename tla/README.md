# Dashmet: specifications of the sync backend

Dashmet is an advertising dashboard. Its backend imports the ad accounts of an
organisation from Meta, TikTok and Google Ads, keeps their structure and
metrics in PostgreSQL with Celery tasks, and serves them through FastAPI. Hard to
get right are the tasks (many copies of the same job on many worker processes,
locks that expire, quotas shared by accounts that do not know of each other,
messages that are delivered twice or not at all, rows that several transactions
write), the requests that read and write beside them (invitations, grants, cached
narratives), and a dozen queries that must agree on the same numbers. This
directory specifies these parts in TLA+, checks them with TLC on small instances,
and proves their safety properties for all instances.

Paths below are relative to `src/backend/` unless they start with `docs/`.

## 1. The system and its parts

| Part | State | Operations | Talks to |
|---|---|---|---|
| In-flight lock: `workers/rate_limit.py:160-183`, limits in `workers/celery_app.py:5-15` | one Redis key per (job type, account), with an expiry | `acquire_lock` (SET NX EX with a fresh token), `release_lock` (Lua compare-and-delete) | every per-account sync task |
| Meta sync: `workers/tasks/structure.py`, `insights.py` | `sync_jobs`, campaigns, metrics | structure, daily and historical insights, breakdowns; Beat's dispatchers | Meta, the lock, rate limiting, each other by messages |
| Rate limiting: `workers/rate_limit.py` | a usage percentage per account, a pause key per connection | `update_from_headers`, `apply_backoff`, `pause_connection` | Meta sync and reports |
| Meta reports: `workers/tasks/async_jobs.py` | the `insights_async` rows of `sync_jobs` | submit, poll, fetch | Meta, `trigger_sync`, `prune_sync_jobs` |
| TikTok and Google sync: `workers/tasks/tiktok_*.py`, `google_*.py` | as Meta's | structure, insights, breakdowns per account | the platforms, the lock |
| Connections and import: `app/services/accounts.py`, `app/api/v1/endpoints/connections.py`, the `sync_*accounts_for_connection` tasks | `platform_connections`, `accounts` | connect, reconnect, disconnect, import | sync tasks by messages, token alerts |
| Token refresh: `workers/tasks/*_token_refresh.py` | tokens and expiries of connections | nightly renewal | the platforms, token alerts |
| Token alerts: `workers/token_alerts.py`, `app/services/notifications.py` | a notification per connection, `last_error` | record, clear, resolve on reconnect, mark read, email | every task that can meet an auth error; the API |
| Sync status and trigger: `app/services/sync.py` | reads and adds `sync_jobs` rows | `get_sync_status`, `trigger_sync` | API, tasks |
| Insight queries: `app/services/insights.py` | none of their own; they read `metrics_daily`, `metric_action_stats`, `metric_breakdowns`, statuses and configurations | overview, trend, table, entity trend, combined views, engagement, breakdowns | the upserts of the sync tasks (`workers/db_helpers.py`) |
| Summaries: `app/api/v1/endpoints/insights.py`, `app/services/ai_summary.py` | narratives in Redis, for 24 hours | summary, forced summary, peek, deck | the queries, OpenAI |
| Membership: `app/services/org.py` | `organization_memberships`, `membership_accounts` | invite, accept, remove, set accounts | sign-up, email |
| Creatives, platform clients, export, email, frontend | see section 8 | | |

The tasks meet in four places: messages (Celery with late acknowledgement, so a
lost worker's message comes again and a lost child's does not), Redis keys (lock,
pause, usage), the `sync_jobs` rows by which a run knows whether its data is
fresh, and the account and connection rows that runs read at their start and
users change meanwhile.

What is hard, and what correctness means:

* **Lock**: a lock with an expiry is a lock only while no run outlives it; a dead
  run must not block a job for ever. Runs of one job must not overlap.
* **Meta sync**: structure must get through although insights of the same account
  compete for the same quota; a pause must bound the calls of its runs; every
  return path must settle its row, and an except clause can itself raise.
* **Reports**: three tasks and an API request write one row in any order; a row
  must follow its report, get out of `running`, and have somebody who works on it.
* **TikTok and Google**: a run that starts before the structure is there works on
  nothing and is taken for fresh; data must arrive nevertheless.
* **Connections**: imports overlap with each other, with disconnects and with the
  runs that they start; the account must end up under the connection that works.
* **Queries**: the same number comes out of several queries with joins, groupings and
  filters of their own, over rows that are upserted in pieces; the card, the table and the
  trend must add up, and nothing may be counted twice or across currencies.
* **Summaries**: a narrative is stored after several statements and a model call; it must
  not be replayed to another question, nor to the same one after the numbers have changed.
* **Membership**: requests read statement by statement and write at their commit; an address
  must not get two pending rows, a member not lose his membership to a stale read, and
  grants be what was asked for.
* **Alerts**: recording and clearing overlap at READ COMMITTED; a failure on record
  must show, and transactions must not deadlock.

## 2. Modules

| Module | Models | Correspondence |
|---|---|---|
| `SingleFlight` | what the lock promises: at most one slot is past it, entered only when nobody is and nobody has left it behind | abstract; `active` the slots past the lock, `left` a lock whose run is gone |
| `SyncLock` | the Redis key, its expiry, and the task around it, for one (job, account) | `key`/`ttl` are the key and what is left of its expiry; `phase`, `held`, `age` a worker slot's step, `lock_token` and running time. One action per Redis command or way to end |
| `SyncLockProofs` | theorems about `SyncLock` | section 6 |
| `MetaSync` | structure, daily insights and breakdown tasks of the accounts of one Meta connection, their messages, rows, rate limits and pause | a slot's `pc` goes through the task one transaction, Redis command or Meta call at a time; `fresh`, `structureDone`, `camps` are what the task reads from the database, `remote`, `usage` are Meta's, `pct`, `paused` are Redis' |
| `MetaSyncProofs` | theorems about `MetaSync` | section 6 |
| `AsyncJobs` | submit, poll and fetch for one account, with `trigger_sync` and the prune | `status`, `stored`, `rows`, `recent` are the rows' columns; `todo`, `progressed`, `dead` the poll's session, which writes at its commit (autoflush is off) while its messages leave at once |
| `AsyncJobsProofs`, `TokenAlertsProofs`, `ConnectionsProofs`, `MembershipProofs` | theorems about the module of the name | section 6 |
| `DashboardProofs` | theorems about `Insights` and `SummaryCache`, and about sums over finite sets | section 6 |
| `TokenAlerts` | the alert of one connection | one action per SQL statement; writes and row locks belong to a transaction until `Commit` publishes them; `sawFailing` is what the ORM object has loaded |
| `PlatformSync` | the per-account tasks of TikTok and Google | as `MetaSync`, with `platform` chosen at the start, so the differences of the two stand beside each other in the actions |
| `PlatformSyncProofs` | theorems about `PlatformSync` | section 6 |
| `Connections` | connections of one organisation to one platform and an account under them, for all three platforms | `conn`, `account`, `owner` are committed rows; `import[c]` is the step of an import task and its transaction; `lock`, `queue`, `runs` are the account's structure job; `token`, `refresh` the nightly renewal |
| `Insights` | the metric tables, every query that adds them up, and the writers that move them | `metrics`, `actions`, `breakdowns` are the tables, keyed as their unique keys are; `status`, `primary` what filters and joins read; `open` is an upsert that has its `fetched_at` and has not committed. Each SQL statement is an operator named after its function; the calendar is a set of days with its months' first days |
| `SummaryCache` | the narrative cache, on top of `Insights` | a request's `pc` goes through `get_overview`'s statements, the look-up, the model call and the store; `cache` is the `aisum:v1` keys; `unmarked` is history: accounts that have changed without a newer `fetched_at` |
| `Membership` | the members of one organisation, as concurrent requests | `rows`, `grants` are the tables, `mails` the invitations delivered; `req` is what a request has read; locks and unique keys act at the statement or the commit at which PostgreSQL applies them; `last`, `outdated` are history |
| `MC*` | the symmetry sets and the functions for TLC | |

`SyncLock` implements `SingleFlight` (INSTANCE, with the set of slots past the lock and
the key that has no such slot as the refinement mapping). `MetaSync` and `PlatformSync` have
the lock as one variable that is free, held by a run, or orphaned until it expires; a live
run's lock does not expire. That this is no stronger than what the key gives is checked from
the other side: with the runs of a message as the active slots and its orphaned lock as the one
left behind, they implement the same `SingleFlight` (`LocksAreSingleFlight`). The lock of
`Connections` has the same three states, but TikTok's and Google's runs pass it and fail in
one step there. Each module has the messages of its tasks as
counters: four workers on one queue do not keep an order.

`SummaryCache` extends `Insights`: its requests call the same query operators, and a step of
the database is a step of `Insights`' writers. `Membership` stands alone: nothing but the
set of accessible accounts leaves it.

Names follow the source: `AcquireLock`, `CreateJob`, `Settle` (`finalize_sync_job`),
`Kick` (the `.delay` calls at the end of a run), `Requeue` (`apply_async` with a
countdown, or `retry`). Operators marked "Mutant" are faulty variants of the action
that follows them. They are in no specification; putting one in the place of its
action must make a run fail, which shows that the property depends on the code.

## 3. Runs

Every pass run checks all its properties on the whole reachable state space.

| Run | Question | Instance | Result |
|---|---|---|---|
| `sync_lock` | Does a key with an expiry implement single flight (`SingleFlightSpec`), with a live run's key its own (`LiveRunKeepsKey`, `MutualExclusion`), and does no death block the job for ever (`KeyIsFreed`)? | 2 slots, 3 tokens, limit 2, kill delay 1, TTL 4 | holds, 883 states |
| `meta_safety` | No overlap (`OneRunPerJob`), a pause bounds calls (`PauseBoundsCalls`), rows settled and skipped messages sent again unless a run dies or its except clause raises (`RowsAreSettled`), every message's lock is single flight (`LocksAreSingleFlight`) | 1 account, structure and breakdown, 2 slots, quota 2, 1 call per run, 2 faults | holds, 4.4 million |
| `meta_livelock` | Do campaigns arrive (`CampaignsArrive`) when one run uses up the quota and insights compete? | structure and insights, 2 slots, quota 1, no faults | holds, 574 thousand |
| `async` | Rows without a report id belong to a submit (`UnpollableRowHasSubmit`), rows follow their reports (`RowsFollowReports`), and every row with a report leaves `running` (`ReportsSettle`) | 2 rows, 1 slot and the poll, 2 copies of a message, 1 fault, 1 crash | holds, 606 thousand |
| `token_alerts` | Does a recorded failure open the alert in its own commit (`FailureOpensAlert`), is an email attempted for the first opening (`FirstOpeningIsEmailed`), do all transactions end (`TransactionsEnd`)? | 3 processes, any number of deaths | holds, 76 thousand |
| `platform_safety` | No overlap (`OneRunPerJob`), no history marked fresh while missing (`HistoryIsNotEmpty`), locks single flight (`LocksAreSingleFlight`) | structure, history, breakdown, 2 slots, 1 fault | holds, 3.1 million |
| `platform_arrives` | Do daily metrics and history arrive (`DailyArrives`, `HistoryArrives`), and are rows settled unless a run dies or its except clause raises (`RowsAreSettled`)? | structure, daily, history, 1 slot, 2 faults | holds, 260 thousand |
| `connections` | Does an account under a working connection get its structure (`FirstSyncArrives`), and does a sent import get the account unless it is dropped (`ImportRepoints`)? | 2 connections, 3 platforms, 2 faults | holds, 443 thousand |
| `reports` | Do card, table and top campaigns add up for every filter, and the trends for every filter they take (`ReportsAgree`), do combined views (`CombinedAgrees`), and is no spend (`SpendCountedOnce`) and no day of a breakdown (`BreakdownCountsOnce`) counted twice? | 3 accounts of 3 platforms and 2 currencies, 4 campaigns, 2 days across a month's end, 2 upserts, 2 edits, 3 changes in all | holds, 183 thousand |
| `dashboard` | Is a replayed narrative about what was asked (`ReplayAnswersRequest`) and, for explicit dates, about the sums just read (`ReplayIsCurrent`)? | 1 request at a time, 2 transactions, 2 periods, 2 filters, 2 stores, midnight | holds, 5.5 million |
| `summary_stale` | Is a stale narrative never served (`NarrativeIsNeverStale`)? | as `dashboard`, explicit dates only | **violated** |
| `membership` | Has an address at most one pending row and a user one row (`TypeOK`), are grants what was asked for (`GrantsAreAsked`), does an accepted membership stay with its user (`MembersStay`)? | 2 requests, 1 person besides the owner, 2 accounts, 2 rows, 3 tokens, 3 grant sets | holds, 5.5 million |

### Bounds, and why they are enough

* **Two slots** (`Slot`): overlap of two runs, and a message that waits while
  both are busy. The lock and both sync pipelines are proved for any number. `platform_arrives` has one slot:
  what it asks is about the order of runs, and `platform_safety` has two.
* **Three processes** on an alert: a waiter, a holder and a third that changes the row
  between them; a two-process deadlock with an observer.
* **Two connections, two report rows**: the smallest that tells "this one" from
  "another one".
* **`MaxQueue`, `MaxMessages` = 1**: copies of one message that wait. A second copy can
  be sent as soon as the first is delivered, so duplicates do run concurrently; only
  the length of the backlog is cut off (section 7). `async` has 2, for the poll sends
  a fetch on every tick.
* **One slot in `async`**: it runs beside the poll, triggers and the prune, which is where
  rows are shared; what two slots add is covered by the proof, which has any number.
* **Three accounts, two writes** in `reports`: one account for each platform, as their rows
  differ, two of them with one currency and a third with another; an account with two
  campaigns, for sums, rankings and filters that tell them apart. Two upserts are two rows,
  or one row twice. The month changes at midnight, so presets, whole months and rolling
  windows all move. It stops when its bounds are used up, so it does not check deadlock.
  Its reports are compared when no transaction is open (`Quiet`), for windows with numbers
  in or just before them (`WindowsOf`): what is not committed no report reads, and the abort of
  a transaction leaves the same tables behind, so nothing is left out. The theorems have
  neither restriction.
* **Two transactions and two narratives** in `dashboard`: the smallest in which a commit
  overtakes another, and in which one narrative is stored under the key of another.
* **Two requests** in `membership`: a stale read needs one other writer. The proof has any
  number of requests and people.
* **`MaxFaults`**: errors and deaths. Two in `meta_safety`, `platform_arrives` and
  `connections`: each error path from each step, and a fault in the recovery from a fault
  (a pause or a finalization that raises inside an except clause, a lock whose release
  fails after it). One in `platform_safety`, for size. None in `meta_livelock`: what it asks
  is whether the two jobs starve each other when nothing fails, and it shows nothing about
  errors. Meta's rate limits are not counted, they come from the quota; Google's quota
  error is one of the faults.
* **`Quota`, `SoftAt`, `Calls`**: a quota that two runs use up (safety) or that a
  single run does (livelock), with the 80 % and the 95 % level both reachable. `Calls`
  is 1; that `PauseBoundsCalls` holds for runs of any number of calls is proved.
* **`HardLimit` 2, `KillGrace` 1, `LockTTL` 4**: every age from start to kill, with the
  one unit of margin that `TTLOutlivesRun` asks for. In the code it is 3300, the
  pool's delay, and 3420 seconds.
* **Symmetry** only in runs without liveness.
* **A view** in `meta_safety`: `WithoutCampaigns` leaves `remote`, `camps` and `structureDone`
  out of what tells states apart. Only insights runs read these, and only the prune and
  the writes of campaigns change them, so with structure and breakdowns alone no other
  variable ever depends on them, and no property of that run but their types does.

### Fairness, and why the code justifies it

Weak fairness of a process's own steps: a process that neither dies nor waits goes
on, and a hung one is ended by Celery's time limit, which is a fault of the model.
Strong fairness of a message's delivery: four workers share a queue, and Redis lists
are first in, first out, so a message is not passed over for ever; weak fairness would
ask for a slot that stays idle. Weak fairness of timers (countdown, expiry of lock,
pause and usage, rows getting old, Meta's window): time passes. Fairness of Beat
where a property rests on it: its schedule is periodic. In `TokenAlerts` strong
fairness of a transaction's next statement: PostgreSQL's row locks are granted in
turn, so only a deadlock can stop it for good. In `SyncLock` only time and the
hard limit are fair. Nothing is assumed of users, crashes, errors, of Meta's answers
(apart from finishing reports), or of the prune.

Deadlock is checked in every run but `reports`. In `Insights`, `SummaryCache` and
`Membership` nothing is promised to happen, and no fairness is assumed.

## 4. What the violated run shows

`summary_stale`: `upsert_metrics_daily` takes `fetched_at` when it executes
(`workers/db_helpers.py:91`) and the rows appear when the transaction commits. Of two
syncs of one account, the one that upserts first and commits last changes the sums and
leaves their newest `fetched_at` as it was. That time is all that the narrative's key knows
of the data (`app/api/v1/endpoints/insights.py:204`), so the narrative of the old sums is
replayed, for up to 24 hours. The comment above the key (197) says that a stale narrative is
never served. `ReplayIsCurrent` says exactly how much of it is true: for explicit dates, and
as long as every change of an account's numbers leaves a newer `fetched_at`.

## 5. Known divergences without a run

These were met while translating the code. The models contain them (an action does what
the code does), or leave out the state concerned where this is said; no property is
stated over them because the code has nothing that would make one hold.

* Except clauses can raise: `finalize_sync_job`, or the `pause_connection` before it, while
  the database or Redis is down (`structure.py:503-529`, `insights.py:536-560` and `804-828`,
  `tiktok_structure.py:449-462`, `google_structure.py:495-519`). The `finally` then frees the
  lock, and a live process leaves the row `running` and sends no retry; nothing but the prune
  repairs the row. The models have it (`HandlerFails`), and `RowsAreSettled` excepts it.
* In the GMV Max view the card and the table are filtered by `platform_objective` and the
  trend is not: `get_timeseries` takes no such filter (`app/services/insights.py:669-682`),
  while `gmv-max-view.tsx:104-107` says that tiles, trend chart and table are all scoped to
  the same campaigns. `ReportsAgree` asks the trends for filters without an objective only.
* Two imports that overlap: the one that commits last keeps the account, which need not be
  the newest connection's. An import whose child is killed (`task_acks_late` without
  `task_reject_on_worker_lost`) or whose three retries are used up is dropped on every
  platform; nothing but a reconnect sends it again.
* The pause is asked for by Meta's sync tasks, creatives and the submit of a report. The poll
  and the fetch of reports and the account import call Meta on a paused connection too
  (`PauseBoundsCalls` counts the calls of the three tasks of `MetaSync` only).
* Narratives are also stale when a preset's window has moved at midnight (the key has the
  preset's name; the rows may be the same), after a sync of the prior window only (the token
  covers the current one), and after a change of a campaign's status or the account's
  conversion action, which leave no `fetched_at`. A narrative compares the overview read
  before other commits with the table and trend read after them. Two equal POSTs both call
  the model.
* Queries: with a TikTok account whose conversion action is `like` or `follow` the join
  meets two rows and doubles the spend; engagement sums all three levels, so it is up to three
  times the overview's count (docs/backend-api-spec.md:1461 and docs/prd.md:118 promise one
  value); the table leaves out campaigns that spent only in the prior window; below campaign level
  the entity trend drops the filter that the table applies to the entity's own status; the
  points of the prior window carry the current window's actions; the points of a window with a
  missing day are not aligned with those of the other (`insights.py:773` says they can be
  zipped); the table sorts NULLs first where the top campaigns have them last; ties have no
  order, so pages may overlap, and a page beyond the end has total 0; a change of the conversion
  action leaves the old conversions uncounted until the next sync; a whole-period breakdown is
  dated its first day and is outside every window that begins later.
* Meta may list two action types of one catalogue bucket: both become one key in one INSERT,
  which PostgreSQL refuses to update twice (`workers/tasks/insights.py:82`,
  `workers/db_helpers.py:123`; not modelled, the models' keys are sets).
* Membership: somebody who was invited, signed up, and is invited again is looked for by user,
  not by address, and the unique index makes the second invitation a 500 instead of a
  renewal (`org.py:141`; docs/backend-api-spec.md:413); an invitation that overlaps an
  acceptance writes a fresh token on an accepted row, or leaves a pending row whose
  acceptance is a 500; two overlapping PUTs leave the union of their sets
  (docs/backend-api-spec.md:501 says "Replace"), which is why `GrantsAreAsked` allows grants
  of a PUT that committed after the other's DELETE had begun; `accept_invite` overwrites an
  existing account's name and password, and for an unverified account it returns a token
  that the API refuses (not modelled: names, passwords and verification).
* `trigger_sync` makes a pending row for the report and sends a submit
  (`app/services/sync.py:264-274`); the submit counts that row as a job under way
  (`workers/tasks/async_jobs.py:79`) and returns. Nothing else looks at pending rows, and every
  later submit of the account skips until the weekly prune. `sync.py:132-134` says that such
  a row must not exist.
* `disconnect_connection` (`app/services/accounts.py:282-286`) disables all accounts of the
  organisation on the platform. A reconnect makes a new connection row, so disconnecting the
  old one switches off the accounts that the new one owns (docs/backend-api-spec.md:596).
* The refresh tasks load connections in a session that has been committed and closed when
  the loop reads them (`meta_token_refresh.py:50-77`, `db_helpers.py:30-39`). With SQLAlchemy's
  default `expire_on_commit` that raises `DetachedInstanceError`, in the `except` clause
  again; a token is selected night after night and never renewed.
* Reports: two submits pass the check before either commits its row, and post two
  reports (`async_jobs.py:69-125`); a duplicate fetch that fails turns a completed row to
  `failed` (326); the poll's commit overwrites a completed row's number of records with
  a percentage (210); the poll sends a resubmission before it commits `failed`, so the
  submit can find the row `running` and skip (220). Dispatch does not look at the
  platform (43): accounts of TikTok and Google get submits too (not modelled).
* Alerts: a reconnect or a recovery that overlaps a failure leaves `last_error` without
  an open alert, or an open alert without `last_error`, which no later success clears
  (`notifications.py:213`, `token_alerts.py:198`); `mark_read` opens an alert again that
  was resolved meanwhile (`notifications.py:275`); two failures at a time both email,
  and a failure that waited for a recovery does not (`token_alerts.py:82`); an email that
  cannot be sent is logged and not tried again (249).
* Locks: a failing `create_sync_job` leaves the lock for its whole TTL, because it is
  called before the `try` whose `finally` releases it (`structure.py:327` and its
  siblings). docs/sync-worker-spec.md:369 describes the release as unconditional.
* TikTok and Google: tasks look neither at the pause nor at `is_active` when they start,
  only Beat's dispatch does for the pause (docs/sync-worker-spec.md:365 gives the gate to all
  tasks); breakdown freshness asks for another job type than the one written
  (`tiktok_breakdowns.py:68`, `google_breakdowns.py:88`); a failing kick turns a
  completed structure row to `failed`; the import sends structure messages before its
  commit.
* A TikTok token lives 24 hours, the refresh runs once a day and selects tokens with
  less than two hours left, so most would expire unselected, and the new refresh token is
  not stored (not modelled, the loop is never completed).
* An import that read its connection before a disconnect enables the account again; an API
  process that dies after committing a connection leaves it without an import.

## 6. What is proved

`SyncLockProofs`, for any set of slots, any set of tokens and any limits:

* `TypeCorrect`: `Spec => []TypeOK`.
* `MutualExclusionHolds`: `TTLOutlivesRun => (Spec => []MutualExclusion)`.
* `LiveRunNeverLosesKey`: the same for `LiveRunKeepsKey`.
* `OnlyOwnerOrExpiryFreesHolds`: whatever the expiry, the key changes hands only by
  expiry or by its owner's release: the compare-and-delete never frees another run's lock.
* `ImplementsSingleFlight`: under `TTLOutlivesRun`, every behaviour is one of
  `SingleFlight`: initial states map to initial states, every step to `Enter`, `Leave`,
  `Expire` or a stutter.

They rest on `ConstantsAssumption` (the types of the constants), which TLC
evaluates, and on `TTLOutlivesRun`, which is a hypothesis of the theorems and not of
the module: `LOCK_TTL = HEAVY_TIME_LIMIT + 120`, so it says that the pool kills a child
less than 120 s after its limit.

The argument: mutual exclusion is not inductive. A step could let a second run in if
the first one's key had expired, and an expiry is just a `Tick`. `LockInv` therefore
says how long the key still lives: what is left of the expiry and the age of the run add
up to at least `LockTTL` (`KeyOutlivesRun`), because the key was set to live that long
by a run that had already been executing for some time, and time takes from one what
it gives to the other. An age is at most `MaxAge`, so before the expiry reaches zero the
run is gone. `TokenDiscipline` says that held tokens are non-empty exactly past the lock and
that no two slots hold the same one, and `KeyHasExpiry` that there is a key exactly while
its expiry runs. `OnlyOwnerOrExpiryFreesHolds` needs only types and `KeyHasExpiry`, so it
holds for short expiries too, where runs do outlive their key.

`MetaSyncProofs`, for any sets of accounts and slots, any quota, number of calls,
backlog and number of faults:

* `TypeCorrect`: `Spec => []TypeOK`.
* `OneRunPerJobHolds`: `Spec => []OneRunPerJob`.
* `RowsAreSettledHolds`: `Spec => RowsAreSettled`.
* `PauseBoundsCallsHolds`: `Spec => []PauseBoundsCalls`.
* `ImplementsSingleFlight`: `Spec => LocksAreSingleFlight`, for the lock of every message.

They rest on `MetaSyncAssumption` (the types of the constants) alone. Five invariants,
four of them proved on top of the first:

* `TypeInv` adds to `TypeOK` that a busy slot executes a message (`TaskIsMsg`) and that a
  slot before a call has a call left (`CallsInBounds`), else the call after the last would
  leave the type.
* `WorkingHoldsLock`: a run between `acquire_lock` and `release_lock` is named by the lock of
  its message. `OneRunPerJob` follows, because a lock names one slot; on its own it is not
  inductive, since a lock that had been freed under a run would let the next one in.
* `HolderWorks` is the converse: a slot that a lock names is at work on its message. With
  both, the runs past a lock are known from the lock alone, and `EveryStepIsLockMove` lists what a
  step can do to one: take it when it is free, give it back or leave it behind, and expire
  once it is left. These are the steps of `SingleFlight`, for each message by itself.
* `RowFits`: what a row can say at each step from which a slot may let go of its message: it
  has been finalized at `release` and `requeue`, and a skipped run at its `release` has its
  message waiting for the countdown, which is not over before. `EveryStepIsRowStep` says of
  each slot that it waits, moves or leaves (`Waits`, `Moves`, `Leaves`). What is left is the
  exception of `RowsAreSettled`: a step that is a fault, or a slot whose handler has raised.
* `PauseBudget`: the calls a slot has made in this pause and those it can still make because
  it has passed the gate add up to at most one run's, for the run that caused the pause to
  less. In a pause no step adds to a slot's account (`EveryStepIsBudgetStep`): a call takes
  from what is left what it adds to what is spent, and the gate, the one step that could
  open a new account, sends the message away.

`PlatformSyncProofs`, for either platform, any set of slots and any set of job types
that has structure in it:

* `TypeCorrect`, `OneRunPerJobHolds`, `RowsAreSettledHolds`: as above (for rows the invariant
  is `RunningIsUnsettled`: `running` only up to the statement that finalizes, or at the `abort`
  of a handler that raised).
* `HistoryIsNotEmptyHolds`: `Spec => []HistoryIsNotEmpty`, when historical runs are among
  the jobs.
* `ImplementsSingleFlight`: `Spec => LocksAreSingleFlight`, by the same two invariants.

They rest on `PlatformSyncAssumption`. What all runs have in common is proved once: every
step of a busy slot moves that slot and no other (`RunStep`, `EveryStepIsRunStep`). The
invariant behind `HistoryIsNotEmpty` follows the history back to where it comes from:
a historical message or run exists only when the entities do (`HistoryHasASource`: the one
step that brings a first one in is structure's last kick, which comes after its upserts), so
its maps are full when it loads them, so it has written when it finishes (`RunFactsStep`).
A user's trigger breaks the first link, which is why the property excepts it.

`AsyncJobsProofs`, for any sets of rows and slots, any number of copies of a message and of
faults:

* `TypeCorrect`; `UnpollableHasSubmit`: `Spec => []UnpollableRowHasSubmit`;
  `RowsFollow`: `Spec => []RowsFollowReports`.

A row's report is known to three tasks at different times, so the invariant follows it from
hand to hand: until the id is stored the row is one submit's alone and there is no report
before the POST (`PostsAreAlone`); from then on polls and fetches are about stored rows, and
fetches about reports that Meta has completed (`FetchesAreDue`), which is what lets `Complete`
settle the row; ids are free only when nothing of the row is left, in a message, in a slot or in
the poll's session (`FreeRowsAreQuiet`), or a new row would inherit an old one's fetch.

`TokenAlertsProofs`, for any number of workers and API requests:

* `TypeCorrect`; `FirstOpeningEmailed`: `Spec => []FirstOpeningIsEmailed`;
  `FailuresOpenTheAlert`: `Spec => FailureOpensAlert`; `NeverDeadlocked`:
  `Spec => []NoDeadlock`.

A failure that is committed has opened the alert because from its upsert on it holds the
notification's row lock, with an alert that is open or that it has written
(`RecordersHoldTheAlert`, on `WritersLock`): nobody else can resolve it before the commit. The
first opening's email is attempted because as long as the row is absent nobody can have found it, so
whoever is about to insert it has seen that there is none (`FirstIsNew`), and remembers it up
to the email (`NewIsOnTheWay`). `NoDeadlock` is the part of `TransactionsEnd` that needs no
fairness: the notification's row is locked before the connection's (`LockOrder`), so whoever
has the second is at its commit, and a chain of waiting transactions ends after at most two.

`MembershipProofs`, for any people, accounts and number of requests:

* `TypeCorrect`: `Spec => []TypeOK`, the unique keys included; `GrantsCorrect`:
  `Spec => []GrantsAreAsked`; `MembersStayMembers`: `Spec => MembersStay`.

What a request has read may be out of date; the invariant says what of it is not. Ids are not
used again, so the row of an acceptance is gone or still belongs to the person it was
read for (`AcceptInv`); a grant of the row that was stored before a PUT's DELETE began is one
that the DELETE removes, because grants are only ever added with a later number (`PutInv`).
`RowsInv` keeps the owner on row 0, so that a grant is never the owner's.

`ConnectionsProofs`, for any number of connections, on each platform and with any number of
faults:

* `TypeCorrect`: `Spec => []TypeOK`; `LifecycleHolds`: `Spec => []Lifecycle`.

`Lifecycle` says what the order of requests and imports leaves true: the account, and the
token of a run, belong to a connection whose import was sent (`OwnersHaveImported`); two
imports never have the account's row at once (`OneImportWrites`, from the row lock); Meta's
messages leave after the commit and the others' before it (`ImportOrder`). What follows from
that order is the last part, `MetaLockNeedsFault`: a Meta account's lock is left behind by a
fault only, while a TikTok or Google run that overtakes its import's commit leaves it without
any.

`DashboardProofs`, about the tables, for any accounts, campaigns and calendar and any number of
transactions:

* `TablesTypeCorrect`: `Spec => []TypeOK`; `SpendOnce`: `Spec => []SpendCountedOnce`;
  `BreakdownsOnce`: `Spec => []BreakdownCountsOnce`; `ReportsAgreeHolds`:
  `Spec => []ReportsAgree`; `CombinedAgreesHolds`: `Spec => []CombinedAgrees`.

The join with the conversion rows multiplies a row's spend when one action is in both
fields. The invariant (`TablesInv`) is that a purchase is in the field of its platform and in
no other (`PurchaseInOneField`), of the table and of every upsert that is still open
(`OpenRows`), since it is the open one that a commit adds: rows named after an earlier
conversion action stay in the table, and do no harm because the field is their platform's too. A
day is counted once because Meta's breakdown rows are dated the day they are about and there is
one aggregate of an account otherwise (`BreakdownRows`).

That the reports agree is a law of sums: `GroupsAddUp` says that the sum over any finite set
of rows is the sum of the sums of its groups, whatever the grouping, with PostgreSQL's NULL
for an empty SUM. The table groups a window's rows by campaign, the trend by period, the
combined views by account (`ByEntityAdds`, `ByPeriodAdds`, `AccountsAdd`, `PointsAdd`), so it
remains to show that each query's joins and filters select the rows the card sums
(`RowTypes`, `RowsAreMetrics`, `AgreeFor`), the trends' with the filter they are given
(`TrendFilter`). `GroupsAddUp` and the lemmas below it are inductions over data. The
library's induction theorems take an operator and cannot be used, but that strict
inclusion of finite sets is well founded is a theorem about sets, so each induction
is about a smallest counterexample (`SmallestSet`): first that the recursive function behind
the fold exists and is unique (`SumsExist`, `SumsAgree`), then that a sum may start with any
row (`PairSumAny`), then the law.

`DashboardProofs`, about the narratives, for any accounts, campaigns, transactions and requests:

* `ReplaysAnswer`: `SummarySpec => []ReplayAnswersRequest`; `ReplaysAreCurrent`:
  `SummarySpec => []ReplayIsCurrent`; `SummaryTypeCorrect`: `SummarySpec => []SummaryTypeOK`.
* `SummariesImplementInsights`: `SummarySpec => Spec`. Requests move no table, so what is
  proved of the tables holds under the cache; the types of the sums that requests carry come
  from there.

The freshness token is a maximum, and a maximum does not say which rows it was taken of.
It does here because of how `fetched_at` is given out: each is taken once and none lies in
the future (`StampsDiffer`, `StampsAreTaken`), and some row of any set is its newest
(`HasNewest`). A commit that leaves its account unmarked is newer than every row of the
account, so a window that it touches has a new token and every earlier reading of the window
is old. Hence every reading, in a request or behind a stored narrative, has either
seen what the database still holds or has a token older than the rows now
(`SeenOrOld`), and two readings of one window that have the same token are equal (`Agree`).

`MonthOf` and the presets have a value only if the calendar has the months they ask for.
`InsightsAssumption` therefore says that the calendar begins at least a month before the
first day of a behaviour; the Gregorian one does.

They rest on `AsyncJobsAssumption`, `TokenAlertsAssumption`, `ConnectionsAssumption`,
`InsightsAssumption`, `SummaryCacheAssumption` and `MembershipAssumption`, the types of their
constants. Each proof has one lemma per action or group of actions, and in it one step per
conjunct of the invariant.

**Only model-checked**: the liveness properties (`KeyIsFreed`, `CampaignsArrive`,
`ReportsSettle`, `TransactionsEnd`, `DailyArrives`, `HistoryArrives`, `FirstSyncArrives`,
`ImportRepoints`), because fairness is about ENABLED, which these provers do not have; and
`NarrativeIsNeverStale`, which does not hold. Every invariant and every safety
property of the steps that a passing run checks is proved.

## 7. What the models leave out

* Contents, in the task modules: rows, metrics, dates, messages' texts, and what is inside
  a run's upserts. A run's writes to a level are one step (a run that fails in the middle is an
  error before or after). `Insights` has the metric rows, a spend and counts of actions; ratios
  (CTR, ROAS, changes against the prior window), time zones and the order of rows are left out.
* Lengths of time: a countdown, pause or expiry ends at some time. `SyncLock` alone
  has a clock, because its correctness is about durations.
* Length of backlogs: that copies of one message stay few is not shown.
* The broker's visibility timeout (a second delivery while the first is still
  executing): its copy would meet the lock like any other duplicate.
* `sync_insights_historical_for_account` of Meta, creatives, and the parts of section 8.
* In `Membership`: names, passwords, a token's expiry, and organisations other than the one.
* In `SummaryCache`: the tenant check, the prompt, and what a model's text says.
* Redis or PostgreSQL losing committed data.

## 8. Not modelled, and the plan

Done, in the order of importance: the lock, Meta sync, reports, alerts, TikTok and
Google, connections, the queries over what the tasks have written, the narratives over the
queries, membership; the proofs of all of them, and the lock abstraction, which `SyncLock`
implements and the sync modules are shown to keep to. Next:

1. **The life of a `sync_jobs` row** as an abstract specification (pending, running, settled
   once) that `AsyncJobs`, `MetaSync` and `PlatformSync` are shown to implement, as they are the lock's.
2. **Meta's historical run** as a fourth job type of `MetaSync`.

Not planned, with the reason:

* `get_sync_status`: it reads rows whose histories the other modules have, and displays them.
* Creatives: best-effort updates of one row each, idempotent, with no lock and no state that
  another part reads.
* The HTTP clients: paging and error mapping; the outcomes that tasks tell apart are in
  the sync modules. TikTok's per-second window only makes a rate limit less likely.
* Export, email bodies, prompts, slides: formatting.
* Passwords, JWTs, cookies, verification and reset: library calls around one row.
* The frontend: a client with cached queries, on which no backend state depends.
