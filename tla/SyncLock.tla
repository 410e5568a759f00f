------------------------------ MODULE SyncLock ------------------------------
(***************************************************************************)
(* The in-flight lock that keeps two runs of one sync job for one account  *)
(* apart: one Redis key, set with SET NX EX and released by a Lua          *)
(* compare-and-delete (workers/rate_limit.py), under the hard time limit   *)
(* that Celery puts on the heavy tasks (workers/celery_app.py).            *)
(*                                                                         *)
(* Keys of different (job_type, account) pairs share nothing, so one key   *)
(* is modelled.  Every task that takes the lock has the same shape: reads  *)
(* that may return early, acquire_lock, create_sync_job, the body in a     *)
(* try, release_lock in its finally.  sync_structure_for_account stands    *)
(* for all of them.                                                        *)
(*                                                                         *)
(* Time is discrete and relative: ttl is what is left of the key's expiry  *)
(* and age is how long a slot has been executing its task, so the model    *)
(* needs no clock and no bound on the length of a behaviour.               *)
(***************************************************************************)
EXTENDS Naturals

CONSTANTS
  Slot,        \* worker slots (prefork children of the Celery workers)
  Token,       \* values uuid4().hex can return
  NoToken,     \* stands for "the key does not exist" and "no token"
  HardLimit,   \* HEAVY_TIME_LIMIT
  KillGrace,   \* longest delay between the hard limit and the death of the child
  LockTTL      \* LOCK_TTL

ASSUME ConstantsAssumption ==
  /\ NoToken \notin Token
  /\ HardLimit \in Nat
  /\ KillGrace \in Nat
  /\ LockTTL \in Nat \ {0}

VARIABLES
  key,         \* value of the Redis key, NoToken when it does not exist
  ttl,         \* time until Redis expires the key
  phase,       \* where the slot is in the task it executes
  held,        \* the slot's local variable lock_token
  age          \* how long the slot has been executing its task

vars == <<key, ttl, phase, held, age>>

Phase == {"idle", "entry", "locked", "running"}

MaxAge == HardLimit + KillGrace

\* LOCK_TTL = HEAVY_TIME_LIMIT + 120: the key outlives every run that set it.
TTLOutlivesRun == LockTTL > MaxAge

\* The slots that are past the lock.
Critical == {s \in Slot : phase[s] \in {"locked", "running"}}

\* uuid4 never returns a token that is still in use somewhere.
FreshToken == {t \in Token : t # key /\ \A s \in Slot : held[s] # t}

-----------------------------------------------------------------------------
Init ==
  /\ key = NoToken
  /\ ttl = 0
  /\ phase = [s \in Slot |-> "idle"]
  /\ held = [s \in Slot |-> NoToken]
  /\ age = [s \in Slot |-> 0]

\* The slot is done with its task, however that came about.
Stop(s) ==
  /\ phase' = [phase EXCEPT ![s] = "idle"]
  /\ held' = [held EXCEPT ![s] = NoToken]
  /\ age' = [age EXCEPT ![s] = 0]

\* Celery hands the slot a message; the task starts with its reads.
Begin(s) ==
  /\ phase[s] = "idle"
  /\ phase' = [phase EXCEPT ![s] = "entry"]
  /\ UNCHANGED <<key, ttl, held, age>>

\* Fresh data, no account, no active connection, or a paused connection.
ReturnEarly(s) ==
  /\ phase[s] = "entry"
  /\ Stop(s)
  /\ UNCHANGED <<key, ttl>>

\* Mutant: SET without NX.
AcquireUnconditionally(s) ==
  /\ phase[s] = "entry"
  /\ \E t \in FreshToken :
       /\ key' = t
       /\ held' = [held EXCEPT ![s] = t]
  /\ ttl' = LockTTL
  /\ phase' = [phase EXCEPT ![s] = "locked"]
  /\ UNCHANGED age

\* Mutant: the expiry is the task's time limit, without the margin.
AcquireForTimeLimit(s) ==
  /\ phase[s] = "entry"
  /\ key = NoToken
  /\ \E t \in FreshToken :
       /\ key' = t
       /\ held' = [held EXCEPT ![s] = t]
  /\ ttl' = HardLimit
  /\ phase' = [phase EXCEPT ![s] = "locked"]
  /\ UNCHANGED age

\* Mutant: SETNX, without EX.
AcquireForever(s) ==
  /\ phase[s] = "entry"
  /\ key = NoToken
  /\ \E t \in FreshToken :
       /\ key' = t
       /\ held' = [held EXCEPT ![s] = t]
  /\ phase' = [phase EXCEPT ![s] = "locked"]
  /\ UNCHANGED <<ttl, age>>

\* acquire_lock: SET key token NX EX ttl succeeded.
AcquireLock(s) ==
  /\ phase[s] = "entry"
  /\ key = NoToken
  /\ \E t \in FreshToken :
       /\ key' = t
       /\ held' = [held EXCEPT ![s] = t]
  /\ ttl' = LockTTL
  /\ phase' = [phase EXCEPT ![s] = "locked"]
  /\ UNCHANGED age

\* Mutant: SETNX and EXPIRE as two commands, the second whatever the first said.
LockBusyRenews(s) ==
  /\ phase[s] = "entry"
  /\ key # NoToken
  /\ ttl' = LockTTL
  /\ Stop(s)
  /\ UNCHANGED key

\* acquire_lock returned None: "already running - skip".
LockBusy(s) ==
  /\ phase[s] = "entry"
  /\ key # NoToken
  /\ Stop(s)
  /\ UNCHANGED <<key, ttl>>

\* create_sync_job committed the 'running' row; the try block is entered.
CreateJob(s) ==
  /\ phase[s] = "locked"
  /\ phase' = [phase EXCEPT ![s] = "running"]
  /\ UNCHANGED <<key, ttl, held, age>>

\* create_sync_job raised.  It is called between acquire_lock and the try, so
\* the finally that releases the lock is never reached.
CreateJobFails(s) ==
  /\ phase[s] = "locked"
  /\ Stop(s)
  /\ UNCHANGED <<key, ttl>>

\* finally: release_lock, which deletes the key only if it still holds our token.
ReleaseLock(s) ==
  /\ phase[s] = "running"
  /\ IF key = held[s]
     THEN key' = NoToken /\ ttl' = 0
     ELSE UNCHANGED <<key, ttl>>
  /\ Stop(s)

\* release_lock swallows the exception of an unreachable Redis.
ReleaseLost(s) ==
  /\ phase[s] = "running"
  /\ Stop(s)
  /\ UNCHANGED <<key, ttl>>

\* time_limit: the pool SIGKILLs a child that has reached its hard limit.
HardKill(s) ==
  /\ phase[s] # "idle"
  /\ age[s] >= HardLimit
  /\ Stop(s)
  /\ UNCHANGED <<key, ttl>>

\* The child or its whole worker dies for any other reason.
Crash(s) ==
  /\ phase[s] # "idle"
  /\ Stop(s)
  /\ UNCHANGED <<key, ttl>>

\* One unit of time.  No run gets older than MaxAge, and Redis drops the key
\* the moment its expiry is reached.
Tick ==
  /\ \A s \in Slot : phase[s] # "idle" => age[s] < MaxAge
  /\ age' = [s \in Slot |-> IF phase[s] = "idle" THEN 0 ELSE age[s] + 1]
  /\ ttl' = IF key = NoToken THEN 0 ELSE ttl - 1
  /\ key' = IF ttl' = 0 THEN NoToken ELSE key
  /\ UNCHANGED <<phase, held>>

Handler(s) ==
  \/ Begin(s)
  \/ ReturnEarly(s)
  \/ AcquireLock(s)
  \/ LockBusy(s)
  \/ CreateJob(s)
  \/ CreateJobFails(s)
  \/ ReleaseLock(s)

Failure(s) == ReleaseLost(s) \/ HardKill(s) \/ Crash(s)

Next == Tick \/ \E s \in Slot : Handler(s) \/ Failure(s)

Spec == Init /\ [][Next]_vars

\* Time passes and the pool enforces the hard limit; nothing else is owed.
Fairness == WF_vars(Tick) /\ \A s \in Slot : WF_vars(HardKill(s))

FairSpec == Spec /\ Fairness

-----------------------------------------------------------------------------
\* Every variable has its type.
TypeOK ==
  /\ key \in Token \cup {NoToken}
  /\ ttl \in 0..LockTTL
  /\ phase \in [Slot -> Phase]
  /\ held \in [Slot -> Token \cup {NoToken}]
  /\ age \in [Slot -> 0..MaxAge]

\* Two runs of one job for one account never overlap past the lock, whatever
\* dies and whenever the key expires (rate_limit.py acquire_lock, LOCK_TTL).
MutualExclusion == \A s, t \in Critical : s = t

\* A still-running task never loses its lock (celery_app.py, above LOCK_TTL):
\* as long as a run is past the lock the key holds that run's own token.
LiveRunKeepsKey == \A s \in Critical : key = held[s]

\* A step that takes the token out of the key is an expiry, or the release by
\* the run that set it.
FreedByOwnerOrExpiry ==
  key # NoToken /\ key' # key =>
     \/ ttl = 1
     \/ \E s \in Slot : /\ phase[s] = "running"
                        /\ held[s] = key
                        /\ phase'[s] = "idle"

\* The key leaves Redis only when it expires or when the run that set it
\* releases it: a late release never frees a lock that somebody else has taken
\* since, even where a run can outlive its key (release_lock's Lua script).
OnlyOwnerOrExpiryFrees == [][FreedByOwnerOrExpiry]_vars

\* A SIGKILLed task's lock always expires (no permanent block): every token
\* that gets into the key leaves it again (celery_app.py, above LOCK_TTL).
KeyIsFreed == \A t \in Token : key = t ~> key # t

\* The lock implements single flight: a key without a run has been left behind.
Abstract == INSTANCE SingleFlight WITH
  active <- Critical, left <- (key # NoToken /\ Critical = {})

SingleFlightSpec == Abstract!Spec
=============================================================================
