--------------------------- MODULE SyncLockProofs ---------------------------
(***************************************************************************)
(* Proofs about SyncLock, for any number of worker slots and any limits.   *)
(***************************************************************************)
EXTENDS SyncLock, TLAPS

(***************************************************************************)
(* The inductive invariant.  MutualExclusion alone is not inductive: it    *)
(* rests on the key still being there, and the key is still there because  *)
(* it was set with LockTTL to live by a run that was already executing, so *)
(* what is left of its expiry and the age of the run always add up to at   *)
(* least LockTTL.                                                          *)
(***************************************************************************)
TokenDiscipline ==
  /\ \A s \in Slot : held[s] # NoToken <=> s \in Critical
  /\ \A s, t \in Slot : held[s] = held[t] /\ held[s] # NoToken => s = t

KeyOutlivesRun == \A s \in Critical : ttl + age[s] >= LockTTL

KeyHasExpiry == key = NoToken <=> ttl = 0

LockInv ==
  /\ TypeOK
  /\ KeyHasExpiry
  /\ TokenDiscipline
  /\ LiveRunKeepsKey
  /\ KeyOutlivesRun

-----------------------------------------------------------------------------
\* TypeOK needs the bookkeeping of Redis to be inductive: ttl may only be
\* decremented while there is a key to expire.
LEMMA TypeAndExpiry == Spec => [](TypeOK /\ KeyHasExpiry)
<1> USE ConstantsAssumption DEF MaxAge
<1>1. Init => TypeOK /\ KeyHasExpiry
  BY DEF Init, TypeOK, Phase, KeyHasExpiry
<1>2. TypeOK /\ KeyHasExpiry /\ [Next]_vars => TypeOK' /\ KeyHasExpiry'
  <2> SUFFICES ASSUME TypeOK, KeyHasExpiry, [Next]_vars
               PROVE  TypeOK' /\ KeyHasExpiry'
    OBVIOUS
  <2> USE DEF TypeOK, KeyHasExpiry, Phase
  <2>1. CASE Tick
    <3>1. age' \in [Slot -> 0..MaxAge]
      BY <2>1 DEF Tick
    <3>2. ttl' \in 0..LockTTL /\ key' \in Token \cup {NoToken}
      BY <2>1 DEF Tick
    <3>3. KeyHasExpiry'
      BY <2>1 DEF Tick
    <3> QED BY <2>1, <3>1, <3>2, <3>3 DEF Tick
  <2>2. ASSUME NEW s \in Slot, Begin(s) PROVE TypeOK' /\ KeyHasExpiry'
    BY <2>2 DEF Begin
  <2>3. ASSUME NEW s \in Slot, AcquireLock(s) PROVE TypeOK' /\ KeyHasExpiry'
    BY <2>3 DEF AcquireLock, FreshToken
  <2>4. ASSUME NEW s \in Slot, CreateJob(s) PROVE TypeOK' /\ KeyHasExpiry'
    BY <2>4 DEF CreateJob
  <2>5. ASSUME NEW s \in Slot, ReleaseLock(s) PROVE TypeOK' /\ KeyHasExpiry'
    BY <2>5 DEF ReleaseLock, Stop
  <2>6. ASSUME NEW s \in Slot,
               \/ ReturnEarly(s)
               \/ LockBusy(s)
               \/ CreateJobFails(s)
               \/ Failure(s)
        PROVE  TypeOK' /\ KeyHasExpiry'
    <3>1. Stop(s) /\ UNCHANGED <<key, ttl>>
      BY <2>6 DEF ReturnEarly, LockBusy, CreateJobFails, Failure, ReleaseLost,
                  HardKill, Crash
    <3> QED BY <3>1 DEF Stop
  <2>7. CASE UNCHANGED vars
    BY <2>7 DEF vars
  <2> QED
    BY <2>1, <2>2, <2>3, <2>4, <2>5, <2>6, <2>7 DEF Next, Handler
<1> QED BY <1>1, <1>2, PTL DEF Spec

\* Every variable of the lock keeps its type, whatever the constants are.
THEOREM TypeCorrect == Spec => []TypeOK
BY TypeAndExpiry, PTL

\* A slot that ends its task leaves the lock invariant alone when the key is
\* either untouched or was the slot's own.
LEMMA StopKeepsLockInv ==
  ASSUME TTLOutlivesRun, LockInv, TypeOK', NEW s \in Slot, Stop(s),
         \/ UNCHANGED <<key, ttl>>
         \/ key = held[s] /\ held[s] # NoToken /\ key' = NoToken /\ ttl' = 0
  PROVE  LockInv'
<1> USE ConstantsAssumption DEF LockInv, TokenDiscipline, Critical, Stop
<1>1. Critical' = Critical \ {s}
  BY DEF TypeOK
<1>2. KeyHasExpiry'
  BY DEF KeyHasExpiry
<1>3. TokenDiscipline'
  BY <1>1 DEF TypeOK
<1>4. \A t \in Critical' : held'[t] = held[t] /\ age'[t] = age[t] /\ t # s
  BY <1>1 DEF TypeOK
<1>5. LiveRunKeepsKey' /\ KeyOutlivesRun'
  <2> SUFFICES ASSUME NEW t \in Critical'
               PROVE  key' = held'[t] /\ ttl' + age'[t] >= LockTTL
    BY DEF LiveRunKeepsKey, KeyOutlivesRun
  <2>1. t \in Critical /\ key = held[t] /\ ttl + age[t] >= LockTTL
    BY <1>1 DEF LiveRunKeepsKey, KeyOutlivesRun
  <2>2. UNCHANGED <<key, ttl>>
    BY <2>1, <1>4 DEF TypeOK
  <2> QED BY <2>1, <2>2, <1>4
<1> QED BY <1>2, <1>3, <1>5

\* The lock invariant holds for every number of slots as long as the key
\* outlives the longest run.
LEMMA LockInvariant ==
  ASSUME TTLOutlivesRun
  PROVE  Spec => []LockInv
<1> USE ConstantsAssumption
<1>1. Init => LockInv
  <2> SUFFICES ASSUME Init PROVE LockInv
    OBVIOUS
  <2>1. TypeOK
    BY DEF Init, TypeOK, Phase, MaxAge
  <2>2. Critical = {}
    BY DEF Init, Critical
  <2> QED
    BY <2>1, <2>2
       DEF Init, LockInv, KeyHasExpiry, TokenDiscipline, LiveRunKeepsKey,
           KeyOutlivesRun
<1>2. LockInv /\ TypeOK' /\ [Next]_vars => LockInv'
  <2> SUFFICES ASSUME LockInv, TypeOK', [Next]_vars
               PROVE  LockInv'
    OBVIOUS
  <2>1. CASE Tick
    <3>1. Critical' = Critical
      BY <2>1 DEF Tick, Critical
    <3>2. \A s \in Critical : age[s] < MaxAge /\ age'[s] = age[s] + 1
      BY <2>1 DEF Tick, Critical, LockInv, TypeOK
    <3>3. \A s \in Critical : key # NoToken /\ ttl' = ttl - 1 /\ ttl' > 0
      <4> SUFFICES ASSUME NEW s \in Critical
                   PROVE  key # NoToken /\ ttl' = ttl - 1 /\ ttl' > 0
        OBVIOUS
      <4>1. key # NoToken
        BY DEF LockInv, LiveRunKeepsKey, TokenDiscipline, Critical
      <4>2. ttl + age[s] >= LockTTL /\ age[s] < MaxAge /\ LockTTL > MaxAge
        BY <3>2 DEF LockInv, KeyOutlivesRun, TTLOutlivesRun
      <4>3. ttl \in Nat /\ age[s] \in Nat
        BY DEF LockInv, TypeOK, MaxAge, Critical
      <4> QED BY <2>1, <4>1, <4>2, <4>3 DEF Tick, MaxAge
    <3>4. KeyHasExpiry'
      BY <2>1 DEF Tick, LockInv, KeyHasExpiry, TypeOK
    <3>5. TokenDiscipline'
      BY <2>1, <3>1 DEF Tick, LockInv, TokenDiscipline
    <3>6. LiveRunKeepsKey'
      BY <2>1, <3>1, <3>3 DEF Tick, LockInv, LiveRunKeepsKey
    <3>7. KeyOutlivesRun'
      <4> SUFFICES ASSUME NEW s \in Critical
                   PROVE  ttl' + age'[s] >= LockTTL
        BY <3>1 DEF KeyOutlivesRun
      <4>1. ttl \in Nat /\ age[s] \in Nat
        BY DEF LockInv, TypeOK, MaxAge, Critical
      <4> QED BY <4>1, <3>2, <3>3 DEF LockInv, KeyOutlivesRun
    <3> QED BY <3>4, <3>5, <3>6, <3>7 DEF LockInv
  <2>2. ASSUME NEW s \in Slot, Begin(s) PROVE LockInv'
    <3>1. Critical' = Critical
      BY <2>2 DEF Begin, Critical, LockInv, TypeOK
    <3> QED
      BY <2>2, <3>1
         DEF Begin, LockInv, KeyHasExpiry, TokenDiscipline, LiveRunKeepsKey,
             KeyOutlivesRun
  <2>3. ASSUME NEW s \in Slot, AcquireLock(s) PROVE LockInv'
    <3>1. PICK t \in FreshToken : key' = t /\ held' = [held EXCEPT ![s] = t]
      BY <2>3 DEF AcquireLock
    <3>2. t # NoToken /\ \A u \in Slot : held[u] # t
      BY <3>1 DEF FreshToken
    <3>3. Critical = {}
      BY <2>3 DEF AcquireLock, LockInv, LiveRunKeepsKey, TokenDiscipline, Critical
    <3>4. Critical' = {s}
      BY <2>3, <3>3 DEF AcquireLock, Critical, LockInv, TypeOK
    <3>5. ttl' = LockTTL /\ ttl' # 0 /\ age'[s] \in Nat
      BY <2>3 DEF AcquireLock, LockInv, TypeOK, MaxAge
    <3>6. held'[s] = t /\ \A u \in Slot : u # s => held'[u] = held[u]
      BY <3>1 DEF LockInv, TypeOK
    <3>7. \A u \in Slot : u # s => held'[u] = NoToken
      BY <3>3, <3>6 DEF LockInv, TokenDiscipline
    <3>8. TokenDiscipline'
      BY <3>2, <3>4, <3>6, <3>7 DEF TokenDiscipline
    <3>9. LiveRunKeepsKey' /\ KeyOutlivesRun' /\ KeyHasExpiry'
      BY <3>1, <3>2, <3>4, <3>5, <3>6
         DEF LiveRunKeepsKey, KeyOutlivesRun, KeyHasExpiry
    <3> QED BY <3>8, <3>9 DEF LockInv
  <2>4. ASSUME NEW s \in Slot, CreateJob(s) PROVE LockInv'
    <3>1. Critical' = Critical
      BY <2>4 DEF CreateJob, Critical, LockInv, TypeOK
    <3> QED
      BY <2>4, <3>1
         DEF CreateJob, LockInv, KeyHasExpiry, TokenDiscipline, LiveRunKeepsKey,
             KeyOutlivesRun
  <2>5. ASSUME NEW s \in Slot, ReleaseLock(s) PROVE LockInv'
    <3>1. key = held[s] /\ held[s] # NoToken
      BY <2>5 DEF ReleaseLock, LockInv, LiveRunKeepsKey, TokenDiscipline, Critical
    <3> QED BY <2>5, <3>1, StopKeepsLockInv DEF ReleaseLock
  <2>6. ASSUME NEW s \in Slot,
               \/ ReturnEarly(s)
               \/ LockBusy(s)
               \/ CreateJobFails(s)
               \/ Failure(s)
        PROVE  LockInv'
    <3>1. Stop(s) /\ UNCHANGED <<key, ttl>>
      BY <2>6 DEF ReturnEarly, LockBusy, CreateJobFails, Failure, ReleaseLost,
                  HardKill, Crash
    <3> QED BY <3>1, StopKeepsLockInv
  <2>7. CASE UNCHANGED vars
    BY <2>7 DEF vars, LockInv, TypeOK, KeyHasExpiry, TokenDiscipline,
                LiveRunKeepsKey, KeyOutlivesRun, Critical
  <2> QED
    BY <2>1, <2>2, <2>3, <2>4, <2>5, <2>6, <2>7 DEF Next, Handler
<1> QED BY <1>1, <1>2, TypeCorrect, PTL DEF Spec

-----------------------------------------------------------------------------
\* With LOCK_TTL above the hard limit, no two runs of a job for one account are
\* ever past the lock together, whatever crashes (structure.py's overlap guard).
THEOREM MutualExclusionHolds ==
  ASSUME TTLOutlivesRun
  PROVE  Spec => []MutualExclusion
<1>1. LockInv => MutualExclusion
  BY DEF LockInv, LiveRunKeepsKey, TokenDiscipline, MutualExclusion, Critical
<1> QED BY <1>1, LockInvariant, PTL

\* With LOCK_TTL above the hard limit, a still-running task never loses its lock.
THEOREM LiveRunNeverLosesKey ==
  ASSUME TTLOutlivesRun
  PROVE  Spec => []LiveRunKeepsKey
<1>1. LockInv => LiveRunKeepsKey
  BY DEF LockInv
<1> QED BY <1>1, LockInvariant, PTL
\* The key leaves Redis only by expiry or by the release of the run that set
\* it.  No assumption on LOCK_TTL: this is what the compare-and-delete buys.
THEOREM OnlyOwnerOrExpiryFreesHolds == Spec => OnlyOwnerOrExpiryFrees
<1>1. TypeOK /\ [Next]_vars => [FreedByOwnerOrExpiry]_vars
  <2> SUFFICES ASSUME TypeOK, Next, key # NoToken, key' # key
               PROVE  FreedByOwnerOrExpiry
    BY DEF FreedByOwnerOrExpiry
  <2>1. CASE Tick
    <3>1. ttl' = 0 /\ ttl' = ttl - 1
      BY <2>1 DEF Tick
    <3> QED BY <3>1 DEF TypeOK, FreedByOwnerOrExpiry
  <2>2. ASSUME NEW s \in Slot, Handler(s) PROVE FreedByOwnerOrExpiry
    <3>1. ReleaseLock(s)
      BY <2>2 DEF Handler, Begin, ReturnEarly, AcquireLock, LockBusy, CreateJob,
                  CreateJobFails, Stop
    <3>2. phase[s] = "running" /\ held[s] = key
      BY <3>1 DEF ReleaseLock
    <3>3. phase'[s] = "idle"
      BY <3>1 DEF ReleaseLock, Stop, TypeOK
    <3> QED BY <3>2, <3>3 DEF FreedByOwnerOrExpiry
  <2>3. ASSUME NEW s \in Slot, Failure(s) PROVE FALSE
    BY <2>3 DEF Failure, ReleaseLost, HardKill, Crash
  <2> QED BY <2>1, <2>2, <2>3 DEF Next
<1> QED BY <1>1, TypeCorrect, PTL DEF Spec, OnlyOwnerOrExpiryFrees

\* With LOCK_TTL above the hard limit the lock implements single flight: each
\* step of SyncLock enters, leaves, lets a key that was left behind expire, or
\* touches neither the runs past the lock nor what is left of them.
THEOREM ImplementsSingleFlight ==
  ASSUME TTLOutlivesRun
  PROVE  Spec => SingleFlightSpec
<1> DEFINE left == key # NoToken /\ Critical = {}
<1>1. Init => Abstract!Init
  BY DEF Init, Abstract!Init, Critical
<1>2. LockInv /\ LockInv' /\ [Next]_vars => [Abstract!Next]_(Abstract!lockVars)
  <2> SUFFICES ASSUME LockInv, LockInv', [Next]_vars
               PROVE  Abstract!Next \/ UNCHANGED <<Critical, left>>
    BY DEF Abstract!lockVars
  <2> USE DEF LockInv, TypeOK
  <2>1. CASE UNCHANGED vars
    BY <2>1 DEF vars, Critical
  <2>2. CASE Tick
    <3>1. Critical' = Critical
      BY <2>2 DEF Tick, Critical
    <3>2. CASE Critical = {}
      <4>1. key' # key => key # NoToken /\ key' = NoToken
        BY <2>2 DEF Tick
      <4> QED BY <3>1, <3>2, <4>1 DEF Abstract!Next, Abstract!Expire
    <3>3. CASE Critical # {}
      BY <3>1, <3>3
    <3> QED BY <3>2, <3>3
  <2>3. ASSUME NEW s \in Slot, Begin(s) \/ CreateJob(s)
        PROVE  UNCHANGED <<Critical, left>>
    BY <2>3 DEF Begin, CreateJob, Critical
  <2>4. ASSUME NEW s \in Slot, AcquireLock(s) PROVE Abstract!Next
    <3>1. Critical = {} /\ ~left
      BY <2>4 DEF AcquireLock, LiveRunKeepsKey, TokenDiscipline, Critical
    <3>2. Critical' = {s}
      BY <2>4, <3>1 DEF AcquireLock, Critical
    <3> QED BY <3>1, <3>2 DEF Abstract!Next, Abstract!Enter
  <2>5. ASSUME NEW s \in Slot, Stop(s), s \in Critical
        PROVE  Abstract!Next
    <3>1. Critical = {s} /\ Critical' = {}
      BY <2>5 DEF Stop, LiveRunKeepsKey, TokenDiscipline, Critical
    <3> QED BY <3>1 DEF Abstract!Next, Abstract!Leave
  <2>6. ASSUME NEW s \in Slot, Stop(s), s \notin Critical, key' = key
        PROVE  UNCHANGED <<Critical, left>>
    BY <2>6 DEF Stop, Critical
  <2>7. ASSUME NEW s \in Slot,
               \/ ReturnEarly(s)
               \/ LockBusy(s)
               \/ CreateJobFails(s)
               \/ ReleaseLock(s)
               \/ Failure(s)
        PROVE  Stop(s) /\ (s \in Critical \/ key' = key)
    BY <2>7 DEF ReturnEarly, LockBusy, CreateJobFails, ReleaseLock, Failure,
                ReleaseLost, HardKill, Crash, Critical
  <2> HIDE DEF left, LockInv, TypeOK
  <2> QED
    BY <2>1, <2>2, <2>3, <2>4, <2>5, <2>6, <2>7 DEF Next, Handler
<1> QED
  BY <1>1, <1>2, LockInvariant, PTL DEF Spec, SingleFlightSpec, Abstract!Spec
=============================================================================
