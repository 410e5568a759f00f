----------------------------- MODULE Connections -----------------------------
(***************************************************************************)
(* The life of an organisation's connections to one platform and of an ad  *)
(* account under them: connecting and disconnecting                        *)
(* (app/api/v1/endpoints/connections.py, app/services/accounts.py), the    *)
(* import of accounts (sync_accounts_for_connection and its TikTok and     *)
(* Google siblings), the account's structure runs, and the nightly token   *)
(* refresh (workers/tasks/*_token_refresh.py).                             *)
(*                                                                         *)
(* A reconnect makes a new connection; the import moves the account to it. *)
(* TikTok and Google imports send the structure message before they        *)
(* commit, Meta's after.  TikTok and Google runs take the lock before they *)
(* find out whether the account exists, Meta's look first, and only Meta's *)
(* look at is_active.                                                      *)
(*                                                                         *)
(* Abstracted: a structure run is one that works or fails as a whole       *)
(* (MetaSync and PlatformSync have its steps), tokens are valid, near      *)
(* their expiry or dead, and Meta's own account statuses are not told      *)
(* apart.                                                                  *)
(***************************************************************************)
EXTENDS Naturals, FiniteSets

CONSTANTS
  Conn,        \* connection rows the organisation may create
  NoConn,      \* no connection
  Platform,    \* the platforms a behaviour may be about
  MaxQueue,    \* bound: structure messages of the account that wait
  MaxFaults    \* bound: deaths and failing calls, commits and inserts

ASSUME ConnectionsAssumption ==
  /\ NoConn \notin Conn
  /\ Platform \subseteq {"meta", "tiktok", "google_ads"}
  /\ MaxQueue \in Nat \ {0}
  /\ MaxFaults \in Nat

VARIABLES
  platform,    \* the platform of the behaviour
  conn,        \* a connection is not created yet, active or inactive
  token,       \* its access token
  api,         \* the step of the request that creates it
  import,      \* the step of its import task, "lost" if that ended uncommitted
  account,     \* the account's committed status, or "absent"
  owner,       \* the account's committed connection
  queue,       \* structure messages for the account
  lock,        \* the structure lock: free, held by a run, or left behind
  runs,        \* the connection whose token the run under the lock uses
  synced,      \* a structure run has completed
  refresh,     \* connections whose tokens the refresh task is about to renew
  faults       \* faults that have happened

vars == <<platform, conn, token, api, import, account, owner, queue, lock,
          runs, synced, refresh, faults>>

accountVars == <<account, owner>>
runVars == <<queue, lock, runs, synced>>

Init ==
  /\ platform \in Platform
  /\ conn = [c \in Conn |-> "none"]
  /\ token = [c \in Conn |-> "valid"]
  /\ api = [c \in Conn |-> "none"]
  /\ import = [c \in Conn |-> "none"]
  /\ account = "absent"
  /\ owner = NoConn
  /\ queue = 0
  /\ lock = "free"
  /\ runs = NoConn
  /\ synced = FALSE
  /\ refresh = {}
  /\ faults = 0

Fault == faults < MaxFaults /\ faults' = faults + 1

Send == queue' = IF queue < MaxQueue THEN queue + 1 ELSE queue

\* The transaction of an import has upserted the account and not ended yet: it
\* holds the row, and nobody else sees what it wrote.
RowLocked == \E c \in Conn : import[c] \in {"sending", "committing"}

-----------------------------------------------------------------------------
(* Connecting and disconnecting *)

\* create_connection and its siblings, committed: always a new row.
Connect(c) ==
  /\ conn[c] = "none"
  /\ conn' = [conn EXCEPT ![c] = "active"]
  /\ api' = [api EXCEPT ![c] = "saved"]
  /\ UNCHANGED <<platform, token, import, accountVars, runVars, refresh, faults>>

\* Once its alerts are resolved, the request sends the import.
SendImport(c) ==
  /\ api[c] = "saved"
  /\ api' = [api EXCEPT ![c] = "done"]
  /\ import' = [import EXCEPT ![c] = "queued"]
  /\ UNCHANGED <<platform, conn, token, accountVars, runVars, refresh, faults>>

\* The API process dies in between: the connection stays without an import.
ApiDies(c) ==
  /\ api[c] = "saved"
  /\ Fault
  /\ api' = [api EXCEPT ![c] = "done"]
  /\ UNCHANGED <<platform, conn, token, import, accountVars, runVars, refresh>>

\* Mutant: the accounts are written whether they have been imported or not.
DisconnectAny(c) ==
  /\ conn[c] # "none"
  /\ ~RowLocked
  /\ conn' = [conn EXCEPT ![c] = "inactive"]
  /\ account' = "disabled"
  /\ UNCHANGED <<platform, token, api, import, owner, runVars, refresh, faults>>

\* disconnect_connection: one transaction for the connection and for all the
\* accounts that the organisation has on the platform.
Disconnect(c) ==
  /\ conn[c] # "none"
  /\ account = "absent" \/ ~RowLocked
  /\ conn' = [conn EXCEPT ![c] = "inactive"]
  /\ account' = IF account = "absent" THEN "absent" ELSE "disabled"
  /\ UNCHANGED <<platform, token, api, import, owner, runVars, refresh, faults>>

-----------------------------------------------------------------------------
(* Import *)

\* The connection is looked at once, at the start.
ImportStart(c) ==
  /\ import[c] = "queued"
  /\ import' = [import EXCEPT ![c] = IF conn[c] = "active" THEN "fetching" ELSE "none"]
  /\ UNCHANGED <<platform, conn, token, api, accountVars, runVars, refresh, faults>>

\* The platform's accounts are fetched and upserted; another import's row lock
\* is waited for.
ImportUpsert(c) ==
  /\ import[c] = "fetching"
  /\ ~RowLocked
  /\ import' = [import EXCEPT ![c] = IF platform = "meta" THEN "committing" ELSE "sending"]
  /\ UNCHANGED <<platform, conn, token, api, accountVars, runVars, refresh, faults>>

\* TikTok and Google: structure_for_account.delay inside the transaction.
ImportSend(c) ==
  /\ import[c] = "sending"
  /\ Send
  /\ import' = [import EXCEPT ![c] = "committing"]
  /\ UNCHANGED <<platform, conn, token, api, accountVars, lock, runs, synced, refresh,
                 faults>>

\* Mutant: the conflict clause leaves the connection as it was.
ImportCommitKeepsOwner(c) ==
  /\ import[c] = "committing"
  /\ account' = "active"
  /\ owner' = IF owner = NoConn THEN c ELSE owner
  /\ import' = [import EXCEPT ![c] = IF platform = "meta" THEN "fanout" ELSE "none"]
  /\ UNCHANGED <<platform, conn, token, api, runVars, refresh, faults>>

\* The upsert takes effect: active again, and under this connection.
ImportCommit(c) ==
  /\ import[c] = "committing"
  /\ account' = "active"
  /\ owner' = c
  /\ import' = [import EXCEPT ![c] = IF platform = "meta" THEN "fanout" ELSE "none"]
  /\ UNCHANGED <<platform, conn, token, api, runVars, refresh, faults>>

\* Meta: sync_structure_all and the eager first sync, for accounts that are not
\* disabled.
ImportFanout(c) ==
  /\ import[c] = "fanout"
  /\ IF account = "active" THEN Send ELSE UNCHANGED queue
  /\ import' = [import EXCEPT ![c] = "none"]
  /\ UNCHANGED <<platform, conn, token, api, accountVars, lock, runs, synced, refresh,
                 faults>>

\* An error before the commit rolls back.  TikTok's and Google's tasks retry
\* whatever it is, Meta's errors of the Graph API only, until max_retries is used
\* up; what is not retried is lost.  An error after Meta's commit ends the task.
ImportFails(c) ==
  /\ import[c] \in {"fetching", "sending", "committing", "fanout"}
  /\ Fault
  /\ \E next \in {"queued", "lost", "none"} :
       /\ next = "queued" => import[c] # "fanout" /\ (import[c] = "fetching" \/ platform # "meta")
       /\ next = "none" <=> import[c] = "fanout"
       /\ import' = [import EXCEPT ![c] = next]
  /\ UNCHANGED <<platform, conn, token, api, accountVars, runVars, refresh>>

\* The process of an import dies, or is killed at the hard time limit, and its
\* transaction with it.  With task_acks_late a lost worker's message is delivered
\* again, a lost pool child's is not.
ImportDies(c) ==
  /\ import[c] \in {"fetching", "sending", "committing", "fanout"}
  /\ Fault
  /\ \E next \in {"queued", IF import[c] = "fanout" THEN "none" ELSE "lost"} :
       import' = [import EXCEPT ![c] = next]
  /\ UNCHANGED <<platform, conn, token, api, accountVars, runVars, refresh>>

-----------------------------------------------------------------------------
(* Structure runs *)

\* Mutant: the dispatcher asks for accounts that have been synced before.
BeatKnown ==
  /\ account = "active"
  /\ synced
  /\ queue < MaxQueue
  /\ Send
  /\ UNCHANGED <<platform, conn, token, api, import, accountVars, lock, runs, synced,
                 refresh, faults>>

\* The structure dispatchers: every account that is not disabled.
Beat ==
  /\ account = "active"
  /\ queue < MaxQueue
  /\ Send
  /\ UNCHANGED <<platform, conn, token, api, import, accountVars, lock, runs, synced,
                 refresh, faults>>

\* A Meta run whose account is missing or whose connection is inactive returns
\* before the lock.
Refused == platform = "meta" /\ (account = "absent" \/ conn[owner] # "active")

\* A run starts.  create_sync_job refuses a row whose account is not committed
\* (the foreign key of sync_jobs), and raises with the lock taken.
StartRun ==
  /\ queue > 0
  /\ queue' = queue - 1
  /\ IF Refused \/ lock # "free"
     THEN UNCHANGED <<lock, runs>>
     ELSE IF account = "absent"
          THEN lock' = "leaked" /\ UNCHANGED runs
          ELSE lock' = "held" /\ runs' = owner
  /\ UNCHANGED <<platform, conn, token, api, import, accountVars, synced, refresh, faults>>

\* The run completes, unless its token is dead, and gives the lock back.
EndRun ==
  /\ lock = "held"
  /\ lock' = "free"
  /\ runs' = NoConn
  /\ synced' = (synced \/ token[runs] # "dead")
  /\ UNCHANGED <<platform, conn, token, api, import, accountVars, queue, refresh, faults>>

\* The run's process dies, with or without its message.
RunDies ==
  /\ lock = "held"
  /\ Fault
  /\ lock' = "leaked"
  /\ runs' = NoConn
  /\ Send \/ UNCHANGED queue
  /\ UNCHANGED <<platform, conn, token, api, import, accountVars, synced, refresh>>

\* LOCK_TTL is over.
LockExpires ==
  /\ lock = "leaked"
  /\ lock' = "free"
  /\ UNCHANGED <<platform, conn, token, api, import, accountVars, queue, runs, synced,
                 refresh, faults>>

-----------------------------------------------------------------------------
(* Tokens *)

\* Google's access tokens are renewed by the SDK.
TokenAges(c) ==
  /\ platform # "google_ads"
  /\ conn[c] # "none"
  /\ token[c] # "dead"
  /\ token' = [token EXCEPT ![c] = IF @ = "valid" THEN "expiring" ELSE "dead"]
  /\ UNCHANGED <<platform, conn, api, import, accountVars, runVars, refresh, faults>>

Renewable(c) == conn[c] = "active" /\ token[c] # "valid"

\* The nightly task selects the active connections whose expiry is near or
\* past and closes the session it has loaded them in.
RefreshStart ==
  /\ refresh = {}
  /\ \E c \in Conn : Renewable(c)
  /\ refresh' = {c \in Conn : Renewable(c)}
  /\ UNCHANGED <<platform, conn, token, api, import, accountVars, runVars, faults>>

\* The commit that ended that session has expired the objects' attributes:
\* reading the first connection's token raises DetachedInstanceError, and so
\* does reading its id in the except clause.  The task ends there.
RefreshRaises ==
  /\ refresh # {}
  /\ refresh' = {}
  /\ UNCHANGED <<platform, conn, token, api, import, accountVars, runVars, faults>>

-----------------------------------------------------------------------------
Import(c) ==
  ImportStart(c) \/ ImportUpsert(c) \/ ImportSend(c) \/ ImportCommit(c) \/ ImportFanout(c)

Next ==
  \/ \E c \in Conn : \/ Connect(c) \/ SendImport(c) \/ ApiDies(c) \/ Disconnect(c)
                     \/ Import(c) \/ ImportFails(c) \/ ImportDies(c)
                     \/ TokenAges(c)
  \/ Beat \/ StartRun \/ EndRun \/ RunDies \/ LockExpires
  \/ RefreshStart \/ RefreshRaises

Spec == Init /\ [][Next]_vars

\* Requests and tasks go on, messages are delivered, the lock expires, Beat
\* dispatches.  An import that waits for a row lock gets it: the transaction
\* that holds it ends, and there is one import per connection.
Fairness ==
  /\ \A c \in Conn : WF_vars(Import(c)) /\ WF_vars(SendImport(c))
  /\ WF_vars(Beat) /\ WF_vars(StartRun) /\ WF_vars(EndRun) /\ WF_vars(LockExpires)
  /\ WF_vars(RefreshStart) /\ WF_vars(RefreshRaises)

FairSpec == Spec /\ Fairness

-----------------------------------------------------------------------------
\* Every variable has its type, and an account that exists has a connection.
TypeOK ==
  /\ platform \in Platform
  /\ conn \in [Conn -> {"none", "active", "inactive"}]
  /\ token \in [Conn -> {"valid", "expiring", "dead"}]
  /\ api \in [Conn -> {"none", "saved", "done"}]
  /\ import \in [Conn -> {"none", "queued", "fetching", "sending", "committing", "fanout",
                          "lost"}]
  /\ account \in {"absent", "active", "disabled"}
  /\ owner \in (IF account = "absent" THEN {NoConn} ELSE Conn)
  /\ queue \in 0..MaxQueue
  /\ lock \in {"free", "held", "leaked"}
  /\ runs \in (IF lock = "held" THEN Conn ELSE {NoConn})
  /\ synced \in BOOLEAN
  /\ refresh \subseteq Conn
  /\ faults \in 0..MaxFaults

Serviceable == account = "active" /\ conn[owner] = "active" /\ token[owner] # "dead"

\* An account that stays enabled, under an active connection with a token that
\* works, gets its structure, though the first run of a TikTok or Google
\* account can be lost to the import's own transaction and leave the lock
\* behind: Beat and the expiry make up for it.
FirstSyncArrives == Serviceable ~> synced \/ ~Serviceable

\* A connection whose import has been sent comes to own the account, however
\* imports of two connections overlap, fail, are retried and are delivered again:
\* unless it is disconnected, or its import is dropped before the commit (a killed
\* child, no retries left).  Which of two keeps the account is not said: the one
\* that commits last.
ImportRepoints ==
  \A c \in Conn : import[c] = "queued" ~>
    owner = c \/ conn[c] = "inactive" \/ import[c] = "lost"
=============================================================================
