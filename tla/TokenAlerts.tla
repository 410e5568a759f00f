---------------------------- MODULE TokenAlerts ----------------------------
(***************************************************************************)
(* The token alert of one platform connection: the notification row with   *)
(* dedup key token_expired:{connection_id}, the connection's last_error,   *)
(* and the transactions of workers and users on the two                    *)
(* (workers/token_alerts.py, app/services/notifications.py).               *)
(*                                                                         *)
(* PostgreSQL runs them at READ COMMITTED: a statement sees what is        *)
(* committed when it starts, a write locks its row until the transaction   *)
(* ends, and a statement that waited for a row looks at it again.  A       *)
(* transaction is a sequence of statements; its writes are published, and  *)
(* its locks freed, by its commit.  The session has autoflush off, so the  *)
(* connection row is written by the first flush after the assignment,      *)
(* inside create_notification or resolve_notification.                     *)
(*                                                                         *)
(* Only token_expired is ever recorded; resolving the other two classes of *)
(* TOKEN_ALERT_TYPES matches no row.                                       *)
(***************************************************************************)
CONSTANTS
  Proc,        \* worker slots and API requests at work on the connection
  NoProc       \* nobody

ASSUME TokenAlertsAssumption == NoProc \notin Proc

VARIABLES
  alert,       \* committed status of the notification, "absent" without a row
  failing,     \* the connection's last_error is set, as committed
  alertLock,   \* who has written or locked the notification
  connLock,    \* who has written the connection
  pc,          \* the statement a process is at
  isNew,       \* _has_open_notification found nothing
  sawFailing,  \* last_error was set when the connection was loaded
  setAlert,    \* the status a transaction has written, "same" for none
  setFailing,  \* the last_error a transaction has written, "same" for none
  emailed,     \* history: sending an alert email has been attempted
  died         \* history: a process has died

vars == <<alert, failing, alertLock, connLock, pc, isNew, sawFailing, setAlert,
          setFailing, emailed, died>>

committedVars == <<alert, failing>>
lockVars == <<alertLock, connLock>>
loadVars == <<isNew, sawFailing>>
localVars == <<loadVars, setAlert, setFailing>>
mailVars == <<emailed, died>>

Pc == {"idle", "look", "upsert", "stamp", "resolve", "unstamp", "select",
       "markRead", "commit", "email"}

Open == {"unread", "read"}

At(p, step) == pc[p] = step

Goto(p, step) == pc' = [pc EXCEPT ![p] = step]

Init ==
  /\ alert = "absent"
  /\ failing = FALSE
  /\ alertLock = NoProc
  /\ connLock = NoProc
  /\ pc = [p \in Proc |-> "idle"]
  /\ isNew = [p \in Proc |-> FALSE]
  /\ sawFailing = [p \in Proc |-> FALSE]
  /\ setAlert = [p \in Proc |-> "same"]
  /\ setFailing = [p \in Proc |-> "same"]
  /\ emailed = FALSE
  /\ died = FALSE

Start(p, step) ==
  /\ At(p, "idle")
  /\ Goto(p, step)
  /\ UNCHANGED <<committedVars, lockVars, localVars, mailVars>>

LockAlert(p) == alertLock = NoProc /\ alertLock' = p

LockConn(p) == connLock = NoProc /\ connLock' = p

Unlock(p) ==
  /\ alertLock' = IF alertLock = p THEN NoProc ELSE alertLock
  /\ connLock' = IF connLock = p THEN NoProc ELSE connLock

Forget(p) ==
  /\ setAlert' = [setAlert EXCEPT ![p] = "same"]
  /\ setFailing' = [setFailing EXCEPT ![p] = "same"]

-----------------------------------------------------------------------------
(* A sync or a token refresh fails to authenticate: record_token_failure *)

RecordStart(p) == Start(p, "look")

\* _has_open_notification.
Look(p) ==
  /\ At(p, "look")
  /\ isNew' = [isNew EXCEPT ![p] = alert \notin Open]
  /\ Goto(p, "upsert")
  /\ UNCHANGED <<committedVars, lockVars, sawFailing, setAlert, setFailing, mailVars>>

\* Mutant: an alert that was seen open is not upserted.
UpsertIfNew(p) ==
  /\ At(p, "upsert")
  /\ IF isNew[p]
     THEN /\ LockAlert(p)
          /\ setAlert' = [setAlert EXCEPT ![p] = IF alert \in Open THEN "same" ELSE "unread"]
     ELSE UNCHANGED <<alertLock, setAlert>>
  /\ Goto(p, "stamp")
  /\ UNCHANGED <<committedVars, connLock, loadVars, setFailing, mailVars>>

\* Mutant: _has_open_notification is asked after the upsert.
UpsertThenLook(p) ==
  /\ At(p, "upsert")
  /\ LockAlert(p)
  /\ setAlert' = [setAlert EXCEPT ![p] = IF alert \in Open THEN "same" ELSE "unread"]
  /\ isNew' = [isNew EXCEPT ![p] = FALSE]
  /\ Goto(p, "stamp")
  /\ UNCHANGED <<committedVars, connLock, sawFailing, setFailing, mailVars>>

\* create_notification: INSERT ... ON CONFLICT waits for whoever has the row,
\* locks it, and writes it only if it is new or resolved.
Upsert(p) ==
  /\ At(p, "upsert")
  /\ LockAlert(p)
  /\ setAlert' = [setAlert EXCEPT ![p] = IF alert \in Open THEN "same" ELSE "unread"]
  /\ Goto(p, "stamp")
  /\ UNCHANGED <<committedVars, connLock, loadVars, setFailing, mailVars>>

\* The flush in create_notification writes last_error.
Stamp(p) ==
  /\ At(p, "stamp")
  /\ LockConn(p)
  /\ setFailing' = [setFailing EXCEPT ![p] = "set"]
  /\ Goto(p, "commit")
  /\ UNCHANGED <<committedVars, alertLock, loadVars, setAlert, mailVars>>

\* send_token_failure_email, after the commit and only if is_new.  An EmailError
\* is logged and swallowed: the attempt is all that is made.
Email(p) ==
  /\ At(p, "email")
  /\ emailed' = TRUE
  /\ isNew' = [isNew EXCEPT ![p] = FALSE]
  /\ Goto(p, "idle")
  /\ UNCHANGED <<committedVars, lockVars, sawFailing, setAlert, setFailing, died>>

-----------------------------------------------------------------------------
(* A sync or a token refresh succeeds: clear_token_failure.  A user          *)
(* reconnects the platform: resolve_platform_token_alerts.                   *)

Load(p, step) ==
  /\ At(p, "idle")
  /\ Goto(p, step)
  /\ sawFailing' = [sawFailing EXCEPT ![p] = failing]
  /\ UNCHANGED <<committedVars, lockVars, isNew, setAlert, setFailing, mailVars>>

\* clear_connection_token_failure does nothing for a healthy connection.
ClearStart(p) == failing /\ Load(p, "resolve")

\* The organisation's connections of the platform are loaded, healthy or not.
ReconnectStart(p) == Load(p, "resolve")

ResolveAlert(p) ==
  IF alert \in Open
  THEN LockAlert(p) /\ setAlert' = [setAlert EXCEPT ![p] = "resolved"]
  ELSE UNCHANGED <<alertLock, setAlert>>

\* Mutant: the connection is flushed before the alert is resolved.
FlushThenResolve(p) ==
  /\ At(p, "resolve")
  /\ IF setFailing[p] = "same"
     THEN /\ LockConn(p)
          /\ setFailing' = [setFailing EXCEPT ![p] = "clear"]
          /\ UNCHANGED <<alertLock, setAlert, pc>>
     ELSE /\ ResolveAlert(p)
          /\ Goto(p, "commit")
          /\ UNCHANGED <<connLock, setFailing>>
  /\ UNCHANGED <<committedVars, loadVars, mailVars>>

\* resolve_notification: an UPDATE of a row that is open when it starts; it waits
\* for the row's lock, not for a row that somebody is about to open.
Resolve(p) ==
  /\ At(p, "resolve")
  /\ ResolveAlert(p)
  /\ Goto(p, IF sawFailing[p] THEN "unstamp" ELSE "commit")
  /\ UNCHANGED <<committedVars, connLock, loadVars, setFailing, mailVars>>

\* The flush writes last_error = NULL, unless it was loaded as NULL: assigning
\* None again is no change to the ORM.
Unstamp(p) ==
  /\ At(p, "unstamp")
  /\ LockConn(p)
  /\ setFailing' = [setFailing EXCEPT ![p] = "clear"]
  /\ Goto(p, "commit")
  /\ UNCHANGED <<committedVars, alertLock, loadVars, setAlert, mailVars>>

-----------------------------------------------------------------------------
(* POST /notifications/{id}/read: mark_read *)

MarkReadStart(p) == alert # "absent" /\ Start(p, "select")

\* The row is loaded; one that is read already is left alone by the ORM.
Select(p) ==
  /\ At(p, "select")
  /\ Goto(p, IF alert = "read" THEN "commit" ELSE "markRead")
  /\ UNCHANGED <<committedVars, lockVars, localVars, mailVars>>

\* UPDATE ... SET status = 'read' WHERE id, whatever the status is by then.
MarkRead(p) ==
  /\ At(p, "markRead")
  /\ LockAlert(p)
  /\ setAlert' = [setAlert EXCEPT ![p] = "read"]
  /\ Goto(p, "commit")
  /\ UNCHANGED <<committedVars, connLock, loadVars, setFailing, mailVars>>

-----------------------------------------------------------------------------
\* Mutant: the commit writes every column, changed or not.
CommitEveryColumn(p) ==
  /\ At(p, "commit")
  /\ alert' = setAlert[p]
  /\ failing' = (setFailing[p] = "set")
  /\ Unlock(p)
  /\ Forget(p)
  /\ Goto(p, IF isNew[p] THEN "email" ELSE "idle")
  /\ UNCHANGED <<loadVars, mailVars>>

\* The transaction's writes are published and its locks are freed.
Commit(p) ==
  /\ At(p, "commit")
  /\ alert' = IF setAlert[p] = "same" THEN alert ELSE setAlert[p]
  /\ failing' = CASE setFailing[p] = "set" -> TRUE
                  [] setFailing[p] = "clear" -> FALSE
                  [] OTHER -> failing
  /\ Unlock(p)
  /\ Forget(p)
  /\ Goto(p, IF isNew[p] THEN "email" ELSE "idle")
  /\ sawFailing' = [sawFailing EXCEPT ![p] = FALSE]
  /\ UNCHANGED <<isNew, mailVars>>

\* The process dies, or the database ends the transaction: nothing is written.
Die(p) ==
  /\ ~At(p, "idle")
  /\ Unlock(p)
  /\ Forget(p)
  /\ isNew' = [isNew EXCEPT ![p] = FALSE]
  /\ sawFailing' = [sawFailing EXCEPT ![p] = FALSE]
  /\ Goto(p, "idle")
  /\ died' = TRUE
  /\ UNCHANGED <<committedVars, emailed>>

-----------------------------------------------------------------------------
Statement(p) ==
  \/ Look(p) \/ Upsert(p) \/ Stamp(p) \/ Email(p)
  \/ Resolve(p) \/ Unstamp(p)
  \/ Select(p) \/ MarkRead(p)
  \/ Commit(p)

WorkerStart(p) == RecordStart(p) \/ ClearStart(p)

Process(p) == Statement(p) \/ WorkerStart(p) \/ MarkReadStart(p) \/ Die(p)

Next == \E p \in Proc : Process(p) \/ ReconnectStart(p)

Spec == Init /\ [][Next]_vars

\* The database serves a statement that is not blocked for ever.
FairSpec == Spec /\ \A p \in Proc : SF_vars(Statement(p))

-----------------------------------------------------------------------------
\* Every variable has its type.
TypeOK ==
  /\ alert \in {"absent", "unread", "read", "resolved"}
  /\ failing \in BOOLEAN
  /\ alertLock \in Proc \cup {NoProc}
  /\ connLock \in Proc \cup {NoProc}
  /\ pc \in [Proc -> Pc]
  /\ isNew \in [Proc -> BOOLEAN]
  /\ sawFailing \in [Proc -> BOOLEAN]
  /\ setAlert \in [Proc -> {"same", "unread", "read", "resolved"}]
  /\ setFailing \in [Proc -> {"same", "set", "clear"}]
  /\ emailed \in BOOLEAN
  /\ died \in BOOLEAN

\* A failure that is newly on record is announced by the same commit, however
\* failures, recoveries, reconnects and mark-as-read interleave (P-2, "alarm when
\* not fine", notifications.py).
FailureOpensAlert == [][~failing /\ failing' => alert' \in Open]_vars

\* Recording and clearing take their row locks in an order that cannot deadlock:
\* every transaction ends.
TransactionsEnd == \A p \in Proc : ~At(p, "idle") ~> At(p, "idle")

\* The first time the alert opens an email is attempted: whoever opens it has
\* looked before there was a row, so the attempt is made or still owed, unless a
\* process has died (record_token_failure's is_new).  Later openings can go
\* without, and an attempt that fails is not repeated.
FirstOpeningIsEmailed ==
  alert # "absent" => emailed \/ died \/ \E p \in Proc : isNew[p]
=============================================================================
