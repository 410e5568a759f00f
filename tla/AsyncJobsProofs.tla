-------------------------- MODULE AsyncJobsProofs --------------------------
(***************************************************************************)
(* Proofs about AsyncJobs, for any number of sync_jobs rows, worker slots, *)
(* message copies and faults.                                              *)
(***************************************************************************)
EXTENDS AsyncJobs, TLAPS

FetchPc == {"read", "fetch", "complete", "fetchFail"}

\* A slot has a row from the commit of create_sync_job, or from the delivery of
\* a fetch, to the end of its run.
SlotsHaveRows ==
  \A e \in Exec :
    job[e] = NoJob <=> pc[e] \in {"idle", "check", "gate", "insert"}

\* Nothing of a row is left when its id is free: prune_sync_jobs deletes rows
\* that are a week old.
FreeRowsAreQuiet ==
  \A j \in Job : status[j] = "none" =>
    /\ Quiet(j)
    /\ j \notin stored
    /\ report[j] = "none"

\* Until its report's id is stored a row belongs to one submit, and no report
\* exists before the POST.
PostsAreAlone ==
  \A e \in Exec :
    /\ pc[e] \in {"post", "store"} =>
         /\ job[e] \notin stored
         /\ \A f \in Exec : job[f] = job[e] => f = e
    /\ pc[e] = "post" => report[job[e]] = "none"

\* Polls ask about reports that are stored, and results are only fetched of
\* reports that Meta has completed.
FetchesAreDue ==
  /\ todo \subseteq stored
  /\ \A j \in Job : fetches[j] > 0 => j \in stored /\ report[j] = "completed"
  /\ \A e \in Exec : pc[e] \in FetchPc => job[e] \in stored /\ report[job[e]] = "completed"

\* UnpollableRowHasSubmit is not inductive: the slot must be between the row and
\* the report's id, not at the end of some other run of the row.
UnpollableIsBeingPosted ==
  ~crashed => \A j \in Job : Unpollable(j) =>
                \E e \in Exec : job[e] = j /\ pc[e] \in {"post", "store"}

IInv ==
  /\ TypeOK
  /\ SlotsHaveRows
  /\ FreeRowsAreQuiet
  /\ PostsAreAlone
  /\ FetchesAreDue
  /\ RowsFollowReports
  /\ UnpollableIsBeingPosted

-----------------------------------------------------------------------------
\* Bump never goes past the bound on the copies of a message.
LEMMA BumpType ==
  ASSUME NEW n \in 0..MaxMessages
  PROVE  Bump(n) \in 0..MaxMessages /\ Bump(n) > 0
BY AsyncJobsAssumption DEF Bump

\* Rows and NoJob are different, and a slot with a row has one of Job.
LEMMA RowOfSlot ==
  ASSUME IInv, NEW e \in Exec, pc[e] \notin {"idle", "check", "gate", "insert"}
  PROVE  job[e] \in Job /\ status[job[e]] # "none"
BY AsyncJobsAssumption DEF IInv, TypeOK, SlotsHaveRows, FreeRowsAreQuiet, Quiet

\* The invariant holds before anything has happened.
LEMMA InitIInv == Init => IInv
<1> SUFFICES ASSUME Init PROVE IInv
  OBVIOUS
<1> USE AsyncJobsAssumption DEF Init
<1>1. TypeOK
  <2>1. status \in [Job -> Status] /\ pc \in [Exec -> Pc]
    BY DEF Status, Pc
  <2>2. submits \in 0..MaxMessages /\ fetches \in [Job -> 0..MaxMessages] /\ faults \in 0..MaxFaults
    OBVIOUS
  <2>3. active \in BOOLEAN /\ crashed \in BOOLEAN
    OBVIOUS
  <2>4. rows \in [Job -> {"null", "percent", "total"}]
    OBVIOUS
  <2>5. report \in [Job -> {"none", "running", "completed", "failed"}]
    OBVIOUS
  <2>6. job \in [Exec -> Job \cup {NoJob}] /\ trigger \in Job \cup {NoJob}
    OBVIOUS
  <2> QED BY <2>1, <2>2, <2>3, <2>4, <2>5, <2>6 DEF TypeOK
<1>2. \A j \in Job : Quiet(j)
  BY DEF Quiet
<1> QED
  BY <1>1, <1>2 DEF IInv, SlotsHaveRows, FreeRowsAreQuiet, PostsAreAlone, FetchesAreDue,
     FetchPc, RowsFollowReports, UnpollableIsBeingPosted, Unpollable

\* A submit that has no row yet changes nothing that the invariant is about.
LEMMA SubmitHead ==
  ASSUME IInv, NEW e \in Exec, StartSubmit(e) \/ Check(e) \/ Gate(e)
  PROVE  IInv'
<1>1. TypeOK'
  BY AsyncJobsAssumption, BumpType DEF IInv, TypeOK, StartSubmit, Check, Gate, Blocks, Fresh,
     Return, Goto, At, rowVars, mqVars, envVars, pollVars, Pc
<1>2. SlotsHaveRows'
  BY DEF IInv, TypeOK, SlotsHaveRows, StartSubmit, Check, Gate, Blocks, Fresh, Return, Goto,
     At, rowVars, mqVars, envVars, pollVars
<1>3. FreeRowsAreQuiet'
  BY DEF IInv, TypeOK, FreeRowsAreQuiet, StartSubmit, Check, Gate, Blocks, Fresh, Return, Goto,
     At, rowVars, mqVars, envVars, pollVars, Quiet, SlotsHaveRows
<1>4. PostsAreAlone'
  BY DEF IInv, TypeOK, PostsAreAlone, StartSubmit, Check, Gate, Blocks, Fresh, Return, Goto,
     At, rowVars, mqVars, envVars, pollVars, SlotsHaveRows
<1>5. FetchesAreDue'
  BY DEF IInv, TypeOK, FetchesAreDue, StartSubmit, Check, Gate, Blocks, Fresh, Return, Goto,
     At, rowVars, mqVars, envVars, pollVars, FetchPc
<1>6. RowsFollowReports'
  BY DEF IInv, TypeOK, RowsFollowReports, StartSubmit, Check, Gate, Blocks, Fresh, Return,
     Goto, At, rowVars, mqVars, envVars, pollVars
<1>7. UnpollableIsBeingPosted'
  BY DEF IInv, TypeOK, UnpollableIsBeingPosted, StartSubmit, Check, Gate, Blocks, Fresh,
     Return, Goto, At, rowVars, mqVars, envVars, pollVars, Unpollable
<1> QED BY <1>1, <1>2, <1>3, <1>4, <1>5, <1>6, <1>7 DEF IInv

\* Nor do Beat, the users and the passage of time; a triggered row is pending.
LEMMA EnvKeeps ==
  ASSUME IInv, Dispatch \/ (\E j \in Job : TriggerSend(j)) \/ TriggerCommit \/ SetActive
         \/ (\E j \in Job : GoStale(j))
  PROVE  IInv'
<1>1. TypeOK'
  <2>1. CASE Dispatch
    BY <2>1, AsyncJobsAssumption DEF Dispatch, IInv, TypeOK, rowVars, slotVars, pollVars, envVars
  <2>2. CASE \E j \in Job : TriggerSend(j)
    BY <2>2, BumpType DEF TriggerSend, IInv, TypeOK, rowVars, slotVars, pollVars
  <2>3. CASE TriggerCommit
    BY <2>3 DEF TriggerCommit, IInv, TypeOK, Status, mqVars, slotVars, pollVars
  <2>4. CASE SetActive
    BY <2>4 DEF SetActive, IInv, TypeOK, rowVars, mqVars, slotVars, pollVars
  <2>5. CASE \E j \in Job : GoStale(j)
    BY <2>5 DEF GoStale, IInv, TypeOK, mqVars, slotVars, pollVars, envVars
  <2> QED BY <2>1, <2>2, <2>3, <2>4, <2>5
<1>2. SlotsHaveRows'
  BY DEF IInv, TypeOK, SlotsHaveRows, Dispatch, TriggerSend, TriggerCommit, SetActive, GoStale,
     rowVars, mqVars, slotVars, envVars, pollVars
<1>3. FreeRowsAreQuiet'
  BY DEF IInv, TypeOK, FreeRowsAreQuiet, Dispatch, TriggerSend, TriggerCommit, SetActive,
     GoStale, rowVars, mqVars, slotVars, envVars, pollVars, Quiet
<1>4. PostsAreAlone'
  BY DEF IInv, TypeOK, PostsAreAlone, Dispatch, TriggerSend, TriggerCommit, SetActive, GoStale,
     rowVars, mqVars, slotVars, envVars, pollVars
<1>5. FetchesAreDue'
  BY DEF IInv, TypeOK, FetchesAreDue, Dispatch, TriggerSend, TriggerCommit, SetActive, GoStale,
     rowVars, mqVars, slotVars, envVars, pollVars
<1>6. RowsFollowReports'
  BY DEF IInv, TypeOK, RowsFollowReports, Dispatch, TriggerSend, TriggerCommit, SetActive,
     GoStale, rowVars, mqVars, slotVars, envVars, pollVars
<1>7. UnpollableIsBeingPosted'
  BY DEF IInv, TypeOK, UnpollableIsBeingPosted, Dispatch, TriggerSend, TriggerCommit,
     SetActive, GoStale, rowVars, mqVars, slotVars, envVars, pollVars, Unpollable
<1> QED BY <1>1, <1>2, <1>3, <1>4, <1>5, <1>6, <1>7 DEF IInv

\* create_sync_job takes an id of which nothing is left.
LEMMA CreateKeeps ==
  ASSUME IInv, NEW e \in Exec, CreateJob(e)
  PROVE  IInv'
<1>1. TypeOK'
  BY DEF IInv, TypeOK, CreateJob, Goto, At, mqVars, envVars, pollVars, Pc, Status
<1>2. SlotsHaveRows'
  BY AsyncJobsAssumption DEF IInv, TypeOK, SlotsHaveRows, CreateJob, Goto, At, mqVars, envVars,
     pollVars
<1>3. FreeRowsAreQuiet'
  BY DEF IInv, TypeOK, FreeRowsAreQuiet, CreateJob, Goto, At, mqVars, envVars, pollVars, Quiet
<1>4. PostsAreAlone'
  BY DEF IInv, TypeOK, PostsAreAlone, CreateJob, Goto, At, mqVars, envVars, pollVars,
     FreeRowsAreQuiet, Quiet
<1>5. FetchesAreDue'
  BY DEF IInv, TypeOK, FetchesAreDue, CreateJob, Goto, At, mqVars, envVars, pollVars, FetchPc
<1>6. RowsFollowReports'
  BY DEF IInv, TypeOK, RowsFollowReports, CreateJob, Goto, At, mqVars, envVars, pollVars
<1>7. UnpollableIsBeingPosted'
  BY DEF IInv, TypeOK, UnpollableIsBeingPosted, CreateJob, Goto, At, mqVars, envVars, pollVars,
     Unpollable
<1> QED BY <1>1, <1>2, <1>3, <1>4, <1>5, <1>6, <1>7 DEF IInv

\* The row that is posted had no report, so nobody was waiting for one.
LEMMA PostKeeps ==
  ASSUME IInv, NEW e \in Exec, PostOk(e)
  PROVE  IInv'
<1>1. TypeOK'
  BY DEF IInv, TypeOK, PostOk, Goto, At, rowVars, mqVars, envVars, pollVars, Pc
<1>2. SlotsHaveRows'
  BY DEF IInv, TypeOK, SlotsHaveRows, PostOk, Goto, At, rowVars, mqVars, envVars, pollVars
<1>3. FreeRowsAreQuiet'
  BY DEF IInv, TypeOK, FreeRowsAreQuiet, PostOk, Goto, At, rowVars, mqVars, envVars, pollVars,
     Quiet
<1>4. PostsAreAlone'
  BY DEF IInv, TypeOK, PostsAreAlone, PostOk, Goto, At, rowVars, mqVars, envVars, pollVars
<1>5. FetchesAreDue'
  BY DEF IInv, TypeOK, FetchesAreDue, PostOk, Goto, At, rowVars, mqVars, envVars, pollVars,
     FetchPc, PostsAreAlone
<1>6. RowsFollowReports'
  BY DEF IInv, TypeOK, RowsFollowReports, PostOk, Goto, At, rowVars, mqVars, envVars, pollVars,
     PostsAreAlone
<1>7. UnpollableIsBeingPosted'
  BY DEF IInv, TypeOK, UnpollableIsBeingPosted, PostOk, Goto, At, rowVars, mqVars, envVars,
     pollVars, Unpollable
<1> QED BY <1>1, <1>2, <1>3, <1>4, <1>5, <1>6, <1>7 DEF IInv

\* Every error settles the row of its run before the run ends.
LEMMA FinalizeKeeps ==
  ASSUME IInv, NEW e \in Exec, PostLimited(e) \/ SubmitFails(e) \/ FetchFails(e)
  PROVE  IInv'
<1>1. TypeOK'
  BY AsyncJobsAssumption DEF IInv, TypeOK, PostLimited, SubmitFails, FetchFails, Finalize,
     Fault, Goto, At, mqVars, envVars, pollVars, Pc, Status
<1>2. SlotsHaveRows'
  BY DEF IInv, TypeOK, SlotsHaveRows, PostLimited, SubmitFails, FetchFails, Finalize, Fault,
     Goto, At, mqVars, envVars, pollVars
<1>3. FreeRowsAreQuiet'
  BY DEF IInv, TypeOK, FreeRowsAreQuiet, PostLimited, SubmitFails, FetchFails, Finalize, Fault,
     Goto, At, mqVars, envVars, pollVars, Quiet
<1>4. PostsAreAlone'
  BY DEF IInv, TypeOK, PostsAreAlone, PostLimited, SubmitFails, FetchFails, Finalize, Fault,
     Goto, At, mqVars, envVars, pollVars
<1>5. FetchesAreDue'
  BY DEF IInv, TypeOK, FetchesAreDue, PostLimited, SubmitFails, FetchFails, Finalize, Fault,
     Goto, At, mqVars, envVars, pollVars, FetchPc
<1>6. RowsFollowReports'
  BY DEF IInv, TypeOK, RowsFollowReports, PostLimited, SubmitFails, FetchFails, Finalize,
     Fault, Goto, At, mqVars, envVars, pollVars
<1>7. UnpollableIsBeingPosted'
  BY DEF IInv, TypeOK, UnpollableIsBeingPosted, PostLimited, SubmitFails, FetchFails, Finalize,
     Fault, Goto, At, mqVars, envVars, pollVars, Unpollable
<1> QED BY <1>1, <1>2, <1>3, <1>4, <1>5, <1>6, <1>7 DEF IInv

\* The report's id turns the row over to the polls.
LEMMA StoreKeeps ==
  ASSUME IInv, NEW e \in Exec, Store(e)
  PROVE  IInv'
<1>1. TypeOK'
  BY RowOfSlot DEF IInv, TypeOK, Store, Return, Goto, At, mqVars, envVars, pollVars, Pc
<1>2. SlotsHaveRows'
  BY DEF IInv, TypeOK, SlotsHaveRows, Store, Return, Goto, At, mqVars, envVars, pollVars
<1>3. FreeRowsAreQuiet'
  BY AsyncJobsAssumption DEF IInv, TypeOK, FreeRowsAreQuiet, Store, Return, Goto, At, mqVars,
     envVars, pollVars, Quiet
<1>4. PostsAreAlone'
  BY DEF IInv, TypeOK, PostsAreAlone, Store, Return, Goto, At, mqVars, envVars, pollVars,
     SlotsHaveRows
<1>5. FetchesAreDue'
  BY DEF IInv, TypeOK, FetchesAreDue, Store, Return, Goto, At, mqVars, envVars, pollVars,
     FetchPc
<1>6. RowsFollowReports'
  BY DEF IInv, TypeOK, RowsFollowReports, Store, Return, Goto, At, mqVars, envVars, pollVars
<1>7. UnpollableIsBeingPosted'
  BY DEF IInv, TypeOK, UnpollableIsBeingPosted, Store, Return, Goto, At, mqVars, envVars,
     pollVars, Unpollable
<1> QED BY <1>1, <1>2, <1>3, <1>4, <1>5, <1>6, <1>7 DEF IInv

\* The ends of runs whose rows are settled.
LEMMA ReturnKeeps ==
  ASSUME IInv, NEW e \in Exec, Reschedule(e) \/ RetrySubmit(e) \/ RetryFetch(e)
  PROVE  IInv'
<1>1. TypeOK'
  BY BumpType DEF IInv, TypeOK, Reschedule, RetrySubmit, RetryFetch, Return, Goto, At, rowVars,
     envVars, pollVars, Pc
<1>2. SlotsHaveRows'
  BY DEF IInv, TypeOK, SlotsHaveRows, Reschedule, RetrySubmit, RetryFetch, Return, Goto, At,
     rowVars, envVars, pollVars
<1>3. FreeRowsAreQuiet'
  BY AsyncJobsAssumption DEF IInv, TypeOK, FreeRowsAreQuiet, Reschedule, RetrySubmit,
     RetryFetch, Return, Goto, At, rowVars, envVars, pollVars, Quiet
<1>4. PostsAreAlone'
  BY DEF IInv, TypeOK, PostsAreAlone, Reschedule, RetrySubmit, RetryFetch, Return, Goto, At,
     rowVars, envVars, pollVars, SlotsHaveRows
<1>5. FetchesAreDue'
  BY DEF IInv, TypeOK, FetchesAreDue, Reschedule, RetrySubmit, RetryFetch, Return, Goto, At,
     rowVars, envVars, pollVars, FetchPc
<1>6. RowsFollowReports'
  BY DEF IInv, TypeOK, RowsFollowReports, Reschedule, RetrySubmit, RetryFetch, Return, Goto,
     At, rowVars, envVars, pollVars
<1>7. UnpollableIsBeingPosted'
  BY DEF IInv, TypeOK, UnpollableIsBeingPosted, Reschedule, RetrySubmit, RetryFetch, Return,
     Goto, At, rowVars, envVars, pollVars, Unpollable
<1> QED BY <1>1, <1>2, <1>3, <1>4, <1>5, <1>6, <1>7 DEF IInv

\* A fetch before its last transaction.
LEMMA FetchKeeps ==
  ASSUME IInv, NEW e \in Exec, ReadRow(e) \/ FetchOk(e)
  PROVE  IInv'
<1>1. TypeOK'
  BY DEF IInv, TypeOK, ReadRow, FetchOk, Return, Goto, At, rowVars, mqVars, envVars, pollVars,
     Pc
<1>2. SlotsHaveRows'
  BY DEF IInv, TypeOK, SlotsHaveRows, ReadRow, FetchOk, Return, Goto, At, rowVars, mqVars,
     envVars, pollVars
<1>3. FreeRowsAreQuiet'
  BY DEF IInv, TypeOK, FreeRowsAreQuiet, ReadRow, FetchOk, Return, Goto, At, rowVars, mqVars,
     envVars, pollVars, Quiet
<1>4. PostsAreAlone'
  BY DEF IInv, TypeOK, PostsAreAlone, ReadRow, FetchOk, Return, Goto, At, rowVars, mqVars,
     envVars, pollVars, SlotsHaveRows
<1>5. FetchesAreDue'
  BY DEF IInv, TypeOK, FetchesAreDue, ReadRow, FetchOk, Return, Goto, At, rowVars, mqVars,
     envVars, pollVars, FetchPc
<1>6. RowsFollowReports'
  BY DEF IInv, TypeOK, RowsFollowReports, ReadRow, FetchOk, Return, Goto, At, rowVars, mqVars,
     envVars, pollVars
<1>7. UnpollableIsBeingPosted'
  BY DEF IInv, TypeOK, UnpollableIsBeingPosted, ReadRow, FetchOk, Return, Goto, At, rowVars,
     mqVars, envVars, pollVars, Unpollable
<1> QED BY <1>1, <1>2, <1>3, <1>4, <1>5, <1>6, <1>7 DEF IInv

\* The delivery of a fetch.
LEMMA StartFetchKeeps ==
  ASSUME IInv, NEW e \in Exec, NEW j \in Job, StartFetch(e, j)
  PROVE  IInv'
<1>1. TypeOK'
  BY AsyncJobsAssumption DEF IInv, TypeOK, StartFetch, Goto, At, rowVars, envVars, pollVars, Pc
<1>2. SlotsHaveRows'
  BY AsyncJobsAssumption DEF IInv, TypeOK, SlotsHaveRows, StartFetch, Goto, At, rowVars,
     envVars, pollVars
<1>3. FreeRowsAreQuiet'
  BY DEF IInv, TypeOK, FreeRowsAreQuiet, StartFetch, Goto, At, rowVars, envVars, pollVars, Quiet
<1>4. PostsAreAlone'
  BY DEF IInv, TypeOK, PostsAreAlone, StartFetch, Goto, At, rowVars, envVars, pollVars,
     FetchesAreDue
<1>5. FetchesAreDue'
  BY DEF IInv, TypeOK, FetchesAreDue, StartFetch, Goto, At, rowVars, envVars, pollVars
<1>6. RowsFollowReports'
  BY DEF IInv, TypeOK, RowsFollowReports, StartFetch, Goto, At, rowVars, envVars, pollVars
<1>7. UnpollableIsBeingPosted'
  BY DEF IInv, TypeOK, UnpollableIsBeingPosted, StartFetch, Goto, At, rowVars, envVars,
     pollVars, Unpollable
<1> QED BY <1>1, <1>2, <1>3, <1>4, <1>5, <1>6, <1>7 DEF IInv

\* A fetch completes a row whose report Meta has completed.
LEMMA CompleteKeeps ==
  ASSUME IInv, NEW e \in Exec, Complete(e)
  PROVE  IInv'
<1>1. TypeOK'
  BY RowOfSlot DEF IInv, TypeOK, Complete, Finalize, Return, Goto, At, mqVars, envVars,
     pollVars, Pc, Status
<1>2. SlotsHaveRows'
  BY DEF IInv, TypeOK, SlotsHaveRows, Complete, Finalize, Return, Goto, At, mqVars, envVars,
     pollVars
<1>3. FreeRowsAreQuiet'
  BY AsyncJobsAssumption DEF IInv, TypeOK, FreeRowsAreQuiet, Complete, Finalize, Return, Goto,
     At, mqVars, envVars, pollVars, Quiet
<1>4. PostsAreAlone'
  BY DEF IInv, TypeOK, PostsAreAlone, Complete, Finalize, Return, Goto, At, mqVars, envVars,
     pollVars, SlotsHaveRows
<1>5. FetchesAreDue'
  BY DEF IInv, TypeOK, FetchesAreDue, Complete, Finalize, Return, Goto, At, mqVars, envVars,
     pollVars, FetchPc
<1>6. RowsFollowReports'
  BY DEF IInv, TypeOK, RowsFollowReports, Complete, Finalize, Return, Goto, At, mqVars,
     envVars, pollVars, FetchesAreDue, FetchPc
<1>7. UnpollableIsBeingPosted'
  BY DEF IInv, TypeOK, UnpollableIsBeingPosted, Complete, Finalize, Return, Goto, At, mqVars,
     envVars, pollVars, Unpollable
<1> QED BY <1>1, <1>2, <1>3, <1>4, <1>5, <1>6, <1>7 DEF IInv

\* A redelivered fetch is as due as the one that died.
LEMMA CrashKeeps ==
  ASSUME IInv, NEW e \in Exec, Crash(e)
  PROVE  IInv'
<1>1. TypeOK'
  BY BumpType DEF IInv, TypeOK, Crash, Return, Goto, At, SubmitPc, rowVars, mqVars, pollVars, Pc
<1>2. SlotsHaveRows'
  BY DEF IInv, TypeOK, SlotsHaveRows, Crash, Return, Goto, At, SubmitPc, rowVars, mqVars,
     pollVars
<1>3. FreeRowsAreQuiet'
  BY AsyncJobsAssumption DEF IInv, TypeOK, FreeRowsAreQuiet, Crash, Return, Goto, At, SubmitPc,
     rowVars, mqVars, pollVars, Quiet
<1>4. PostsAreAlone'
  BY DEF IInv, TypeOK, PostsAreAlone, Crash, Return, Goto, At, SubmitPc, rowVars, mqVars,
     pollVars, SlotsHaveRows
<1>5. FetchesAreDue'
  <2>1. pc[e] \notin SubmitPc => pc[e] \in FetchPc
    BY DEF IInv, TypeOK, Crash, At, Pc, SubmitPc, FetchPc
  <2>2. \/ fetches' = fetches
        \/ pc[e] \in FetchPc /\ fetches' = [fetches EXCEPT ![job[e]] = Bump(@)]
    BY <2>1 DEF Crash, mqVars
  <2>3. UNCHANGED <<todo, stored, report>>
    BY DEF Crash, rowVars, pollVars
  <2>4. \A f \in Exec : pc'[f] \in FetchPc => pc[f] \in FetchPc /\ job'[f] = job[f]
    BY DEF IInv, TypeOK, Crash, Return, Goto, FetchPc
  <2> QED BY <2>2, <2>3, <2>4, BumpType, RowOfSlot DEF IInv, TypeOK, FetchesAreDue, FetchPc
<1>6. RowsFollowReports'
  BY DEF IInv, TypeOK, RowsFollowReports, Crash, Return, Goto, At, SubmitPc, rowVars, mqVars,
     pollVars
<1>7. UnpollableIsBeingPosted'
  BY DEF IInv, TypeOK, UnpollableIsBeingPosted, Crash, Return, Goto, At, SubmitPc, rowVars,
     mqVars, pollVars
<1> QED BY <1>1, <1>2, <1>3, <1>4, <1>5, <1>6, <1>7 DEF IInv

\* The poll sends fetches of completed reports and fails rows of failed ones.
LEMMA PollKeeps ==
  ASSUME IInv, PollStart \/ (\E j \in Job : PollOne(j) \/ PollOneFails(j)) \/ PollDies
  PROVE  IInv'
<1>1. TypeOK'
  BY AsyncJobsAssumption, BumpType DEF IInv, TypeOK, PollStart, PollOne, PollOneFails,
     PollDies, Fault, rowVars, mqVars, slotVars, envVars
<1>2. SlotsHaveRows'
  BY DEF IInv, TypeOK, SlotsHaveRows, PollStart, PollOne, PollOneFails, PollDies, Fault,
     rowVars, mqVars, slotVars, envVars
<1>3. FreeRowsAreQuiet'
  BY DEF IInv, TypeOK, FreeRowsAreQuiet, PollStart, PollOne, PollOneFails, PollDies, Fault,
     rowVars, mqVars, slotVars, envVars, Quiet
<1>4. PostsAreAlone'
  BY DEF IInv, TypeOK, PostsAreAlone, PollStart, PollOne, PollOneFails, PollDies, Fault,
     rowVars, mqVars, slotVars, envVars
<1>5. FetchesAreDue'
  BY DEF IInv, TypeOK, FetchesAreDue, PollStart, PollOne, PollOneFails, PollDies, Fault,
     rowVars, mqVars, slotVars, envVars
<1>6. RowsFollowReports'
  BY DEF IInv, TypeOK, RowsFollowReports, PollStart, PollOne, PollOneFails, PollDies, Fault,
     rowVars, mqVars, slotVars, envVars
<1>7. UnpollableIsBeingPosted'
  BY DEF IInv, TypeOK, UnpollableIsBeingPosted, PollStart, PollOne, PollOneFails, PollDies,
     Fault, rowVars, mqVars, slotVars, envVars, Unpollable
<1> QED BY <1>1, <1>2, <1>3, <1>4, <1>5, <1>6, <1>7 DEF IInv

\* What the poll has decided from its snapshot still holds when it commits: a
\* report that is completed or failed stays so.
LEMMA PollCommitKeeps ==
  ASSUME IInv, PollCommit
  PROVE  IInv'
<1>1. TypeOK'
  BY DEF IInv, TypeOK, PollCommit, mqVars, slotVars, envVars, Status
<1>2. SlotsHaveRows'
  BY DEF IInv, TypeOK, SlotsHaveRows, PollCommit, mqVars, slotVars, envVars
<1>3. FreeRowsAreQuiet'
  BY DEF IInv, TypeOK, FreeRowsAreQuiet, PollCommit, mqVars, slotVars, envVars, Quiet
<1>4. PostsAreAlone'
  BY DEF IInv, TypeOK, PostsAreAlone, PollCommit, mqVars, slotVars, envVars
<1>5. FetchesAreDue'
  BY DEF IInv, TypeOK, FetchesAreDue, PollCommit, mqVars, slotVars, envVars
<1>6. RowsFollowReports'
  BY DEF IInv, TypeOK, RowsFollowReports, PollCommit, mqVars, slotVars, envVars
<1>7. UnpollableIsBeingPosted'
  BY DEF IInv, TypeOK, UnpollableIsBeingPosted, PollCommit, mqVars, slotVars, envVars,
     Unpollable
<1> QED BY <1>1, <1>2, <1>3, <1>4, <1>5, <1>6, <1>7 DEF IInv

\* Meta's verdict on a report is final.
LEMMA MetaKeeps ==
  ASSUME IInv, NEW j \in Job, MetaFinishes(j)
  PROVE  IInv'
<1>1. TypeOK'
  BY DEF IInv, TypeOK, MetaFinishes, rowVars, mqVars, slotVars, envVars, pollVars
<1>2. SlotsHaveRows'
  BY DEF IInv, TypeOK, SlotsHaveRows, MetaFinishes, rowVars, mqVars, slotVars, envVars, pollVars
<1>3. FreeRowsAreQuiet'
  BY DEF IInv, TypeOK, FreeRowsAreQuiet, MetaFinishes, rowVars, mqVars, slotVars, envVars,
     pollVars, Quiet
<1>4. PostsAreAlone'
  BY DEF IInv, TypeOK, PostsAreAlone, MetaFinishes, rowVars, mqVars, slotVars, envVars, pollVars
<1>5. FetchesAreDue'
  BY DEF IInv, TypeOK, FetchesAreDue, MetaFinishes, rowVars, mqVars, slotVars, envVars, pollVars
<1>6. RowsFollowReports'
  BY DEF IInv, TypeOK, RowsFollowReports, MetaFinishes, rowVars, mqVars, slotVars, envVars,
     pollVars
<1>7. UnpollableIsBeingPosted'
  BY DEF IInv, TypeOK, UnpollableIsBeingPosted, MetaFinishes, rowVars, mqVars, slotVars,
     envVars, pollVars, Unpollable
<1> QED BY <1>1, <1>2, <1>3, <1>4, <1>5, <1>6, <1>7 DEF IInv

\* A pruned row leaves nothing behind.
LEMMA PruneKeeps ==
  ASSUME IInv, NEW j \in Job, Prune(j)
  PROVE  IInv'
<1>1. TypeOK'
  BY DEF IInv, TypeOK, Prune, mqVars, slotVars, envVars, pollVars, Status
<1>2. SlotsHaveRows'
  BY DEF IInv, TypeOK, SlotsHaveRows, Prune, mqVars, slotVars, envVars, pollVars
<1>3. FreeRowsAreQuiet'
  BY DEF IInv, TypeOK, FreeRowsAreQuiet, Prune, mqVars, slotVars, envVars, pollVars, Quiet
<1>4. PostsAreAlone'
  BY DEF IInv, TypeOK, PostsAreAlone, Prune, mqVars, slotVars, envVars, pollVars
<1>5. FetchesAreDue'
  BY DEF IInv, TypeOK, FetchesAreDue, Prune, mqVars, slotVars, envVars, pollVars, Quiet
<1>6. RowsFollowReports'
  BY DEF IInv, TypeOK, RowsFollowReports, Prune, mqVars, slotVars, envVars, pollVars, Quiet
<1>7. UnpollableIsBeingPosted'
  BY DEF IInv, TypeOK, UnpollableIsBeingPosted, Prune, mqVars, slotVars, envVars, pollVars,
     Unpollable
<1> QED BY <1>1, <1>2, <1>3, <1>4, <1>5, <1>6, <1>7 DEF IInv

\* The invariant is inductive.
LEMMA NextKeepsIInv ==
  ASSUME IInv, [Next]_vars
  PROVE  IInv'
<1>1. CASE UNCHANGED vars
  BY <1>1 DEF IInv, TypeOK, SlotsHaveRows, FreeRowsAreQuiet, Quiet, PostsAreAlone,
     FetchesAreDue, RowsFollowReports, UnpollableIsBeingPosted, Unpollable, vars
<1>2. CASE SlotNext
  <2>1. PICK e \in Exec :
          \/ Step(e) \/ StartSubmit(e) \/ SubmitFails(e) \/ FetchFails(e) \/ Crash(e)
          \/ \E j \in Job : StartFetch(e, j)
    BY <1>2 DEF SlotNext
  <2> QED
    BY <2>1, SubmitHead, CreateKeeps, PostKeeps, FinalizeKeeps, StoreKeeps, ReturnKeeps,
       FetchKeeps, StartFetchKeeps, CompleteKeeps, CrashKeeps DEF Step
<1>3. CASE PollNext
  BY <1>3, PollKeeps, PollCommitKeeps DEF PollNext
<1>4. CASE UserNext \/ Dispatch \/ Clocks
  BY <1>4, EnvKeeps, MetaKeeps, PruneKeeps DEF UserNext, Clocks
<1> QED BY <1>1, <1>2, <1>3, <1>4 DEF Next

\* It holds in every reachable state.
LEMMA InvariantHolds == Spec => []IInv
<1>1. IInv /\ [Next]_vars => IInv'
  BY NextKeepsIInv
<1> QED BY InitIInv, <1>1, PTL DEF Spec

\* Every variable keeps its type.
THEOREM TypeCorrect == Spec => []TypeOK
<1>1. IInv => TypeOK
  BY DEF IInv
<1> QED BY <1>1, InvariantHolds, PTL

\* A row that no poll can find has its submit, unless a process has died.
THEOREM UnpollableHasSubmit == Spec => []UnpollableRowHasSubmit
<1>1. IInv => UnpollableRowHasSubmit
  BY DEF IInv, UnpollableIsBeingPosted, UnpollableRowHasSubmit
<1> QED BY <1>1, InvariantHolds, PTL

\* Rows are completed, and about to be failed, only after their reports.
THEOREM RowsFollow == Spec => []RowsFollowReports
<1>1. IInv => RowsFollowReports
  BY DEF IInv
<1> QED BY <1>1, InvariantHolds, PTL
=============================================================================
