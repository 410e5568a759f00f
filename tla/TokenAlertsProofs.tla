------------------------- MODULE TokenAlertsProofs -------------------------
(***************************************************************************)
(* Proofs about TokenAlerts, for any number of workers and API requests.   *)
(***************************************************************************)
EXTENDS TokenAlerts, TLAPS

\* What a transaction has written is gone when it ends.
OthersHaveWrittenNothing ==
  \A p \in Proc :
    /\ pc[p] \notin {"stamp", "unstamp", "commit"} => setAlert[p] = "same"
    /\ pc[p] # "commit" => setFailing[p] = "same"

\* A written notification is locked by its writer.
WritersLock == \A p \in Proc : setAlert[p] # "same" => alertLock = p

\* From its upsert to its commit a failure holds the notification's lock, with an
\* alert that is open or that it is about to open.
RecordersHoldTheAlert ==
  \A p \in Proc : pc[p] = "stamp" \/ setFailing[p] = "set" =>
    /\ alertLock = p
    /\ setAlert[p] = "unread" \/ (setAlert[p] = "same" /\ alert \in Open)

\* is_new is remembered from the look-up to the email.
NewIsOnTheWay ==
  \A p \in Proc : isNew[p] => pc[p] \in {"upsert", "stamp", "commit", "email"}

\* Before the alert exists nobody reads or resolves it, and whoever is about to
\* open it has seen that there is none.
FirstIsNew ==
  alert = "absent" =>
    \A p \in Proc :
      /\ pc[p] \notin {"select", "markRead"}
      /\ pc[p] \in {"upsert", "stamp"} \/ setAlert[p] = "unread" => isNew[p]
      /\ setAlert[p] \notin {"read", "resolved"}

IInv ==
  /\ TypeOK
  /\ OthersHaveWrittenNothing
  /\ WritersLock
  /\ RecordersHoldTheAlert
  /\ NewIsOnTheWay
  /\ FirstIsNew
  /\ FirstOpeningIsEmailed

-----------------------------------------------------------------------------
\* The invariant holds before anything has happened.
LEMMA InitIInv == Init => IInv
BY TokenAlertsAssumption
   DEF Init, IInv, TypeOK, Pc, OthersHaveWrittenNothing, WritersLock,
       RecordersHoldTheAlert, NewIsOnTheWay, FirstIsNew, FirstOpeningIsEmailed

\* A transaction begins, and has written nothing yet.
LEMMA StartKeeps ==
  ASSUME IInv, NEW p \in Proc,
         RecordStart(p) \/ ClearStart(p) \/ ReconnectStart(p) \/ MarkReadStart(p)
  PROVE  IInv'
<1>1. TypeOK'
  BY DEF IInv, TypeOK, RecordStart, ClearStart, ReconnectStart, MarkReadStart, Start, Load, At,
     Goto, committedVars, lockVars, loadVars, localVars, mailVars, Pc
<1>2. OthersHaveWrittenNothing'
  BY DEF IInv, TypeOK, OthersHaveWrittenNothing, RecordStart, ClearStart, ReconnectStart,
     MarkReadStart, Start, Load, At, Goto, committedVars, lockVars, loadVars, localVars,
     mailVars
<1>3. WritersLock'
  BY DEF IInv, TypeOK, WritersLock, RecordStart, ClearStart, ReconnectStart, MarkReadStart,
     Start, Load, At, Goto, committedVars, lockVars, loadVars, localVars, mailVars
<1>4. RecordersHoldTheAlert'
  BY DEF IInv, TypeOK, RecordersHoldTheAlert, RecordStart, ClearStart, ReconnectStart,
     MarkReadStart, Start, Load, At, Goto, committedVars, lockVars, loadVars, localVars,
     mailVars
<1>5. NewIsOnTheWay'
  BY DEF IInv, TypeOK, NewIsOnTheWay, RecordStart, ClearStart, ReconnectStart, MarkReadStart,
     Start, Load, At, Goto, committedVars, lockVars, loadVars, localVars, mailVars
<1>6. FirstIsNew'
  BY DEF IInv, TypeOK, FirstIsNew, RecordStart, ClearStart, ReconnectStart, MarkReadStart,
     Start, Load, At, Goto, committedVars, lockVars, loadVars, localVars, mailVars
<1>7. FirstOpeningIsEmailed'
  BY DEF IInv, TypeOK, FirstOpeningIsEmailed, RecordStart, ClearStart, ReconnectStart,
     MarkReadStart, Start, Load, At, Goto, committedVars, lockVars, loadVars, localVars,
     mailVars
<1> QED BY <1>1, <1>2, <1>3, <1>4, <1>5, <1>6, <1>7 DEF IInv

\* The look-up finds an alert that is open, or none.
LEMMA LookKeeps ==
  ASSUME IInv, NEW p \in Proc, Look(p)
  PROVE  IInv'
<1>1. TypeOK'
  BY DEF IInv, TypeOK, Look, At, Goto, Open, committedVars, lockVars, mailVars, Pc
<1>2. OthersHaveWrittenNothing'
  BY DEF IInv, TypeOK, OthersHaveWrittenNothing, Look, At, Goto, Open, committedVars, lockVars,
     mailVars
<1>3. WritersLock'
  BY DEF IInv, TypeOK, WritersLock, Look, At, Goto, Open, committedVars, lockVars, mailVars
<1>4. RecordersHoldTheAlert'
  BY DEF IInv, TypeOK, RecordersHoldTheAlert, Look, At, Goto, committedVars, lockVars, mailVars
<1>5. NewIsOnTheWay'
  BY DEF IInv, TypeOK, NewIsOnTheWay, Look, At, Goto, Open, committedVars, lockVars, mailVars
<1>6. FirstIsNew'
  BY DEF IInv, TypeOK, FirstIsNew, Look, At, Goto, committedVars, lockVars, mailVars, Open
<1>7. FirstOpeningIsEmailed'
  BY DEF IInv, TypeOK, FirstOpeningIsEmailed, Look, At, Goto, Open, committedVars, lockVars,
     mailVars, NewIsOnTheWay
<1> QED BY <1>1, <1>2, <1>3, <1>4, <1>5, <1>6, <1>7 DEF IInv

\* The upsert locks the notification and opens it unless it is open.
LEMMA UpsertKeeps ==
  ASSUME IInv, NEW p \in Proc, Upsert(p)
  PROVE  IInv'
<1>1. TypeOK'
  BY DEF IInv, TypeOK, Upsert, LockAlert, At, Goto, Open, committedVars, loadVars, mailVars, Pc
<1>2. OthersHaveWrittenNothing'
  BY DEF IInv, TypeOK, OthersHaveWrittenNothing, Upsert, LockAlert, At, Goto, Open,
     committedVars, loadVars, mailVars
<1>3. WritersLock'
  BY TokenAlertsAssumption DEF IInv, TypeOK, WritersLock, Upsert, LockAlert, At, Goto, Open,
     committedVars, loadVars, mailVars
<1>4. RecordersHoldTheAlert'
  BY TokenAlertsAssumption DEF IInv, TypeOK, RecordersHoldTheAlert, Upsert, LockAlert, At,
     Goto, committedVars, loadVars, mailVars
<1>5. NewIsOnTheWay'
  BY DEF IInv, TypeOK, NewIsOnTheWay, Upsert, LockAlert, At, Goto, Open, committedVars,
     loadVars, mailVars
<1>6. FirstIsNew'
  BY DEF IInv, TypeOK, FirstIsNew, Upsert, LockAlert, At, Goto, committedVars, loadVars,
     mailVars
<1>7. FirstOpeningIsEmailed'
  BY DEF IInv, TypeOK, FirstOpeningIsEmailed, Upsert, LockAlert, At, Goto, Open, committedVars,
     loadVars, mailVars
<1> QED BY <1>1, <1>2, <1>3, <1>4, <1>5, <1>6, <1>7 DEF IInv

\* last_error is written after the notification.
LEMMA FlushKeeps ==
  ASSUME IInv, NEW p \in Proc, Stamp(p) \/ Unstamp(p)
  PROVE  IInv'
<1>1. TypeOK'
  BY DEF IInv, TypeOK, Stamp, Unstamp, LockConn, At, Goto, committedVars, loadVars, mailVars, Pc
<1>2. OthersHaveWrittenNothing'
  BY DEF IInv, TypeOK, OthersHaveWrittenNothing, Stamp, Unstamp, LockConn, At, Goto,
     committedVars, loadVars, mailVars
<1>3. WritersLock'
  BY DEF IInv, TypeOK, WritersLock, Stamp, Unstamp, LockConn, At, Goto, committedVars,
     loadVars, mailVars
<1>4. RecordersHoldTheAlert'
  BY DEF IInv, TypeOK, RecordersHoldTheAlert, Stamp, Unstamp, LockConn, At, Goto,
     committedVars, loadVars, mailVars
<1>5. NewIsOnTheWay'
  BY DEF IInv, TypeOK, NewIsOnTheWay, Stamp, Unstamp, LockConn, At, Goto, committedVars,
     loadVars, mailVars
<1>6. FirstIsNew'
  BY DEF IInv, TypeOK, FirstIsNew, Stamp, Unstamp, LockConn, At, Goto, committedVars, loadVars,
     mailVars
<1>7. FirstOpeningIsEmailed'
  BY DEF IInv, TypeOK, FirstOpeningIsEmailed, Stamp, Unstamp, LockConn, At, Goto,
     committedVars, loadVars, mailVars
<1> QED BY <1>1, <1>2, <1>3, <1>4, <1>5, <1>6, <1>7 DEF IInv

\* The email that was owed is sent.
LEMMA EmailKeeps ==
  ASSUME IInv, NEW p \in Proc, Email(p)
  PROVE  IInv'
<1>1. TypeOK'
  BY DEF IInv, TypeOK, Email, At, Goto, committedVars, lockVars, Pc
<1>2. OthersHaveWrittenNothing'
  BY DEF IInv, TypeOK, OthersHaveWrittenNothing, Email, At, Goto, committedVars, lockVars
<1>3. WritersLock'
  BY DEF IInv, TypeOK, WritersLock, Email, At, Goto, committedVars, lockVars
<1>4. RecordersHoldTheAlert'
  BY DEF IInv, TypeOK, RecordersHoldTheAlert, Email, At, Goto, committedVars, lockVars
<1>5. NewIsOnTheWay'
  BY DEF IInv, TypeOK, NewIsOnTheWay, Email, At, Goto, committedVars, lockVars
<1>6. FirstIsNew'
  BY DEF IInv, TypeOK, FirstIsNew, Email, At, Goto, committedVars, lockVars,
     OthersHaveWrittenNothing
<1>7. FirstOpeningIsEmailed'
  BY DEF IInv, TypeOK, FirstOpeningIsEmailed, Email, At, Goto, committedVars, lockVars
<1> QED BY <1>1, <1>2, <1>3, <1>4, <1>5, <1>6, <1>7 DEF IInv

\* A recovery or a reconnect resolves an open alert that nobody has locked.
LEMMA ResolveKeeps ==
  ASSUME IInv, NEW p \in Proc, Resolve(p)
  PROVE  IInv'
<1>1. TypeOK'
  BY DEF IInv, TypeOK, Resolve, ResolveAlert, LockAlert, At, Goto, Open, committedVars,
     loadVars, mailVars, Pc
<1>2. OthersHaveWrittenNothing'
  BY DEF IInv, TypeOK, OthersHaveWrittenNothing, Resolve, ResolveAlert, LockAlert, At, Goto,
     Open, committedVars, loadVars, mailVars
<1>3. WritersLock'
  BY TokenAlertsAssumption DEF IInv, TypeOK, WritersLock, Resolve, ResolveAlert, LockAlert, At,
     Goto, Open, committedVars, loadVars, mailVars
<1>4. RecordersHoldTheAlert'
  BY TokenAlertsAssumption DEF IInv, TypeOK, RecordersHoldTheAlert, Resolve, ResolveAlert,
     LockAlert, At, Goto, committedVars, loadVars, mailVars
<1>5. NewIsOnTheWay'
  BY DEF IInv, TypeOK, NewIsOnTheWay, Resolve, ResolveAlert, LockAlert, At, Goto, Open,
     committedVars, loadVars, mailVars
<1>6. FirstIsNew'
  BY DEF IInv, TypeOK, FirstIsNew, Resolve, ResolveAlert, LockAlert, At, Goto, committedVars,
     loadVars, mailVars, Open
<1>7. FirstOpeningIsEmailed'
  BY DEF IInv, TypeOK, FirstOpeningIsEmailed, Resolve, ResolveAlert, LockAlert, At, Goto, Open,
     committedVars, loadVars, mailVars
<1> QED BY <1>1, <1>2, <1>3, <1>4, <1>5, <1>6, <1>7 DEF IInv

\* A user's mark_read writes a notification that exists.
LEMMA MarkKeeps ==
  ASSUME IInv, NEW p \in Proc, Select(p) \/ MarkRead(p)
  PROVE  IInv'
<1>1. TypeOK'
  BY DEF IInv, TypeOK, Select, MarkRead, LockAlert, At, Goto, committedVars, lockVars,
     loadVars, localVars, mailVars, Pc
<1>2. OthersHaveWrittenNothing'
  BY DEF IInv, TypeOK, OthersHaveWrittenNothing, Select, MarkRead, LockAlert, At, Goto,
     committedVars, lockVars, loadVars, localVars, mailVars
<1>3. WritersLock'
  BY TokenAlertsAssumption DEF IInv, TypeOK, WritersLock, Select, MarkRead, LockAlert, At,
     Goto, committedVars, lockVars, loadVars, localVars, mailVars
<1>4. RecordersHoldTheAlert'
  BY TokenAlertsAssumption DEF IInv, TypeOK, RecordersHoldTheAlert, Select, MarkRead,
     LockAlert, At, Goto, committedVars, lockVars, loadVars, localVars, mailVars
<1>5. NewIsOnTheWay'
  BY DEF IInv, TypeOK, NewIsOnTheWay, Select, MarkRead, LockAlert, At, Goto, committedVars,
     lockVars, loadVars, localVars, mailVars
<1>6. FirstIsNew'
  BY DEF IInv, TypeOK, FirstIsNew, Select, MarkRead, LockAlert, At, Goto, committedVars,
     lockVars, loadVars, localVars, mailVars
<1>7. FirstOpeningIsEmailed'
  BY DEF IInv, TypeOK, FirstOpeningIsEmailed, Select, MarkRead, LockAlert, At, Goto,
     committedVars, lockVars, loadVars, localVars, mailVars
<1> QED BY <1>1, <1>2, <1>3, <1>4, <1>5, <1>6, <1>7 DEF IInv

\* Only the holder of the lock changes the alert, so what the others have built
\* on it stays true.
LEMMA CommitKeeps ==
  ASSUME IInv, NEW p \in Proc, Commit(p)
  PROVE  IInv'
<1>1. TypeOK'
  BY DEF IInv, TypeOK, Commit, Unlock, Forget, At, Goto, mailVars, Pc
<1>2. OthersHaveWrittenNothing'
  BY DEF IInv, TypeOK, OthersHaveWrittenNothing, Commit, Unlock, Forget, At, Goto, mailVars
<1>3. WritersLock'
  BY DEF IInv, TypeOK, WritersLock, Commit, Unlock, Forget, At, Goto, mailVars
<1>4. RecordersHoldTheAlert'
  BY DEF IInv, TypeOK, RecordersHoldTheAlert, Commit, Unlock, Forget, At, Goto, mailVars,
     WritersLock
<1>5. NewIsOnTheWay'
  BY DEF IInv, TypeOK, NewIsOnTheWay, Commit, Unlock, Forget, At, Goto, mailVars
<1>6. FirstIsNew'
  BY DEF IInv, TypeOK, FirstIsNew, Commit, Unlock, Forget, At, Goto, mailVars
<1>7. FirstOpeningIsEmailed'
  BY DEF IInv, TypeOK, FirstOpeningIsEmailed, Commit, Unlock, Forget, At, Goto, mailVars,
     FirstIsNew
<1> QED BY <1>1, <1>2, <1>3, <1>4, <1>5, <1>6, <1>7 DEF IInv

\* A transaction that is rolled back frees its locks.
LEMMA DieKeeps ==
  ASSUME IInv, NEW p \in Proc, Die(p)
  PROVE  IInv'
<1>1. TypeOK'
  BY DEF IInv, TypeOK, Die, Unlock, Forget, At, Goto, committedVars, Pc
<1>2. OthersHaveWrittenNothing'
  BY DEF IInv, TypeOK, OthersHaveWrittenNothing, Die, Unlock, Forget, At, Goto, committedVars
<1>3. WritersLock'
  BY DEF IInv, TypeOK, WritersLock, Die, Unlock, Forget, At, Goto, committedVars
<1>4. RecordersHoldTheAlert'
  BY DEF IInv, TypeOK, RecordersHoldTheAlert, Die, Unlock, Forget, At, Goto, committedVars
<1>5. NewIsOnTheWay'
  BY DEF IInv, TypeOK, NewIsOnTheWay, Die, Unlock, Forget, At, Goto, committedVars
<1>6. FirstIsNew'
  BY DEF IInv, TypeOK, FirstIsNew, Die, Unlock, Forget, At, Goto, committedVars
<1>7. FirstOpeningIsEmailed'
  BY DEF IInv, TypeOK, FirstOpeningIsEmailed, Die, Unlock, Forget, At, Goto, committedVars
<1> QED BY <1>1, <1>2, <1>3, <1>4, <1>5, <1>6, <1>7 DEF IInv

\* The invariant is inductive.
LEMMA NextKeepsIInv ==
  ASSUME IInv, [Next]_vars
  PROVE  IInv'
<1>1. CASE UNCHANGED vars
  BY <1>1 DEF IInv, TypeOK, OthersHaveWrittenNothing, WritersLock, RecordersHoldTheAlert,
     NewIsOnTheWay, FirstIsNew, FirstOpeningIsEmailed, vars
<1>2. CASE Next
  <2>1. PICK p \in Proc : Process(p) \/ ReconnectStart(p)
    BY <1>2 DEF Next
  <2> QED
    BY <2>1, StartKeeps, LookKeeps, UpsertKeeps, FlushKeeps, EmailKeeps, ResolveKeeps,
       MarkKeeps, CommitKeeps, DieKeeps
    DEF Process, Statement, WorkerStart
<1> QED BY <1>1, <1>2

\* It holds in every reachable state.
LEMMA InvariantHolds == Spec => []IInv
<1>1. IInv /\ [Next]_vars => IInv'
  BY NextKeepsIInv
<1> QED BY InitIInv, <1>1, PTL DEF Spec

\* Every variable keeps its type.
THEOREM TypeCorrect == Spec => []TypeOK
<1>1. IInv => TypeOK
  BY DEF IInv
<1> QED BY <1>1, InvariantHolds, PTL

\* For the alert's first opening an email has been attempted, or will be by a
\* process that is on its way to it, unless one has died.
THEOREM FirstOpeningEmailed == Spec => []FirstOpeningIsEmailed
<1>1. IInv => FirstOpeningIsEmailed
  BY DEF IInv
<1> QED BY <1>1, InvariantHolds, PTL

\* last_error comes on record with the commit of a failure, and that commit
\* leaves the alert open.
LEMMA RecordingStepOpens ==
  ASSUME IInv, [Next]_vars, ~failing, failing'
  PROVE  alert' \in Open
<1>1. failing' # failing
  OBVIOUS
<1>2. PICK p \in Proc : Commit(p)
  BY <1>1 DEF Next, Process, Statement, WorkerStart, RecordStart, ClearStart, ReconnectStart,
     MarkReadStart, Start, Load, Look, Upsert, Stamp, Email, Resolve, Unstamp, Select,
     MarkRead, Die, committedVars, vars
<1>3. setFailing[p] = "set"
  BY <1>2 DEF Commit
<1>4. setAlert[p] = "unread" \/ (setAlert[p] = "same" /\ alert \in Open)
  BY <1>3 DEF IInv, RecordersHoldTheAlert
<1> QED BY <1>2, <1>4 DEF Commit, Open

\* Every commit that puts a failure on record leaves the alert open.
THEOREM FailuresOpenTheAlert == Spec => FailureOpensAlert
<1>1. IInv /\ [Next]_vars => [~failing /\ failing' => alert' \in Open]_vars
  BY RecordingStepOpens
<1> QED BY <1>1, InvariantHolds, PTL DEF Spec, FailureOpensAlert

-----------------------------------------------------------------------------
(* The order of the row locks *)

\* The statements that wait for somebody who has locked the row they write.
WaitsForAlert(p) ==
  /\ \/ pc[p] \in {"upsert", "markRead"}
     \/ pc[p] = "resolve" /\ alert \in Open
  /\ alertLock # NoProc

WaitsForConn(p) == pc[p] \in {"stamp", "unstamp"} /\ connLock # NoProc

Waits(p) == WaitsForAlert(p) \/ WaitsForConn(p)

Blocker(p) == IF WaitsForConn(p) THEN connLock ELSE alertLock

\* The notification comes before the connection: whoever has the first has only
\* the second to write, and whoever has that is at its commit.
LockOrder ==
  /\ alertLock # NoProc => pc[alertLock] \in {"stamp", "unstamp", "commit"}
  /\ connLock # NoProc => pc[connLock] = "commit"

\* A transaction that waits does so for another one, which goes on, or waits
\* for a third that goes on.
NoDeadlock ==
  \A p \in Proc : Waits(p) =>
    /\ Blocker(p) \in Proc \ {p}
    /\ Waits(Blocker(p)) =>
         /\ Blocker(Blocker(p)) \in Proc \ {p, Blocker(p)}
         /\ ~Waits(Blocker(Blocker(p)))

\* Waiting is what the name says: a transaction that waits executes no statement.
LEMMA WaitingIsBlocked ==
  ASSUME NEW p \in Proc, Waits(p)
  PROVE  ~Statement(p)
BY DEF Waits, WaitsForAlert, WaitsForConn, Statement, Look, Upsert, Stamp, Email, Resolve,
       ResolveAlert, Unstamp, Select, MarkRead, Commit, LockAlert, LockConn, At

\* Statements lock in the order, and what ends a transaction frees its locks.
LEMMA StepKeepsLockOrder ==
  ASSUME TypeOK, LockOrder, [Next]_vars
  PROVE  LockOrder'
<1> USE TokenAlertsAssumption DEF TypeOK, LockOrder
<1>1. CASE UNCHANGED vars
  BY <1>1 DEF vars
<1>2. ASSUME NEW p \in Proc,
             \/ RecordStart(p) \/ ClearStart(p) \/ ReconnectStart(p) \/ MarkReadStart(p)
             \/ Look(p) \/ Email(p) \/ Select(p)
      PROVE  LockOrder'
  BY <1>2 DEF RecordStart, ClearStart, ReconnectStart, MarkReadStart, Start, Load, Look, Email,
     Select, At, Goto, lockVars
<1>3. ASSUME NEW p \in Proc, Upsert(p) \/ MarkRead(p) \/ Resolve(p)
      PROVE  LockOrder'
  BY <1>3 DEF Upsert, MarkRead, Resolve, ResolveAlert, LockAlert, At, Goto
<1>4. ASSUME NEW p \in Proc, Stamp(p) \/ Unstamp(p)
      PROVE  LockOrder'
  BY <1>4 DEF Stamp, Unstamp, LockConn, At, Goto
<1>5. ASSUME NEW p \in Proc, Commit(p) \/ Die(p)
      PROVE  LockOrder'
  <2>1. alertLock' \in {alertLock, NoProc} \ {p} /\ connLock' \in {connLock, NoProc} \ {p}
    BY <1>5 DEF Commit, Die, Unlock
  <2>2. \A q \in Proc \ {p} : pc'[q] = pc[q]
    BY <1>5 DEF Commit, Die, Goto
  <2> QED BY <2>1, <2>2
<1> QED BY <1>1, <1>2, <1>3, <1>4, <1>5 DEF Next, Process, WorkerStart, Statement

\* The transactions of failures, recoveries, reconnects and readers never wait
\* for each other in a circle, for any number of them: each takes the
\* notification's row before the connection's (create_notification and
\* resolve_notification execute before the flush of last_error).
THEOREM NeverDeadlocked == Spec => []NoDeadlock
<1>1. Init => LockOrder
  BY DEF Init, LockOrder
<1>2. TypeOK /\ LockOrder /\ [Next]_vars => LockOrder'
  BY StepKeepsLockOrder
<1>3. TypeOK /\ LockOrder => NoDeadlock
  <2> SUFFICES ASSUME TypeOK, LockOrder, NEW p \in Proc, Waits(p)
               PROVE  /\ Blocker(p) \in Proc \ {p}
                      /\ Waits(Blocker(p)) =>
                           /\ Blocker(Blocker(p)) \in Proc \ {p, Blocker(p)}
                           /\ ~Waits(Blocker(Blocker(p)))
    BY DEF NoDeadlock
  <2> USE DEF Waits, WaitsForAlert, WaitsForConn, LockOrder, TypeOK
  <2>1. CASE WaitsForConn(p)
    <3>1. Blocker(p) = connLock /\ connLock \in Proc /\ pc[connLock] = "commit"
      BY <2>1 DEF Blocker
    <3> QED BY <2>1, <3>1
  <2>2. CASE WaitsForAlert(p) /\ ~WaitsForConn(p)
    <3>1. /\ Blocker(p) = alertLock /\ alertLock \in Proc \ {p}
          /\ pc[alertLock] \in {"stamp", "unstamp", "commit"}
      BY <2>2 DEF Blocker
    <3>2. ASSUME Waits(alertLock)
          PROVE  /\ Blocker(alertLock) = connLock /\ connLock \in Proc \ {p, alertLock}
                 /\ ~Waits(connLock)
      BY <2>2, <3>1, <3>2 DEF Blocker
    <3> QED BY <3>1, <3>2
  <2> QED BY <2>1, <2>2
<1> QED BY <1>1, <1>2, <1>3, TypeCorrect, PTL DEF Spec
=============================================================================
