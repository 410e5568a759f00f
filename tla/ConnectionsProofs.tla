-------------------------- MODULE ConnectionsProofs --------------------------
(***************************************************************************)
(* Proofs about Connections, for any number of connections, either order   *)
(* of their imports, every platform and any number of faults.              *)
(***************************************************************************)
EXTENDS Connections, TLAPS

\* What a behaviour starts with has its types.
LEMMA InitTypes == Init => TypeOK
<1> SUFFICES ASSUME Init PROVE TypeOK
  OBVIOUS
<1>1. /\ conn \in [Conn -> {"none", "active", "inactive"}]
      /\ token \in [Conn -> {"valid", "expiring", "dead"}]
      /\ api \in [Conn -> {"none", "saved", "done"}]
      /\ import \in [Conn -> {"none", "queued", "fetching", "sending", "committing",
                             "fanout", "lost"}]
  BY DEF Init
<1>2. queue \in 0..MaxQueue /\ faults \in 0..MaxFaults
  BY ConnectionsAssumption DEF Init
<1>3. owner \in (IF account = "absent" THEN {NoConn} ELSE Conn)
  BY DEF Init
<1>4. /\ runs \in (IF lock = "held" THEN Conn ELSE {NoConn})
      /\ lock \in {"free", "held", "leaked"}
  BY DEF Init
<1> QED BY <1>1, <1>2, <1>3, <1>4 DEF Init, TypeOK

\* Every step keeps the types: an import that commits makes its connection the
\* owner, a run that starts has the owner's, and no disconnect brings an account
\* into being.
LEMMA NextTypes ==
  ASSUME TypeOK, [Next]_vars
  PROVE  TypeOK'
<1> USE ConnectionsAssumption DEF TypeOK
<1>1. CASE UNCHANGED vars
  BY <1>1 DEF vars, accountVars, runVars
<1>2. ASSUME NEW c \in Conn, Connect(c) \/ SendImport(c) \/ ApiDies(c) \/ Disconnect(c)
      PROVE  TypeOK'
  BY <1>2 DEF Connect, SendImport, ApiDies, Disconnect, accountVars, runVars, Fault
<1>3. ASSUME NEW c \in Conn, Import(c) \/ ImportFails(c) \/ ImportDies(c)
      PROVE  TypeOK'
  BY <1>3 DEF Import, ImportStart, ImportUpsert, ImportSend, ImportCommit, ImportFanout,
     ImportFails, ImportDies, accountVars, runVars, Fault, Send
<1>4. ASSUME NEW c \in Conn, TokenAges(c)
      PROVE  TypeOK'
  BY <1>4 DEF TokenAges, accountVars, runVars
<1>5. CASE Beat \/ LockExpires \/ RefreshStart \/ RefreshRaises
  BY <1>5 DEF Beat, LockExpires, RefreshStart, RefreshRaises, accountVars, runVars, Send
<1>6. CASE StartRun
  BY <1>6 DEF StartRun, accountVars
<1>7. CASE EndRun
  <2>1. synced' \in BOOLEAN
    BY <1>7, Zenon DEF EndRun
  <2>2. /\ lock' = "free" /\ runs' = NoConn
        /\ UNCHANGED <<platform, conn, token, api, import, account, owner, queue, refresh,
                       faults>>
    BY <1>7 DEF EndRun, accountVars
  <2> QED BY <2>1, <2>2
<1>8. CASE RunDies
  BY <1>8 DEF RunDies, accountVars, Send, Fault
<1> QED BY <1>1, <1>2, <1>3, <1>4, <1>5, <1>6, <1>7, <1>8 DEF Next

\* Every variable keeps its type: an account that exists has a connection, and
\* so has a run.
THEOREM TypeCorrect == Spec => []TypeOK
BY InitTypes, NextTypes, PTL DEF Spec

-----------------------------------------------------------------------------
(* Who owns the account, and who holds the lock *)

\* A connection that has not been created has nothing, and one whose request is
\* not over has no import.
ConnectionsBegin ==
  \A c \in Conn : /\ conn[c] = "none" => api[c] = "none"
                  /\ api[c] # "done" => import[c] = "none"

\* The account belongs to a connection whose import has been sent, and so does
\* the token that a run uses.
OwnersHaveImported ==
  /\ owner # NoConn => api[owner] = "done" /\ conn[owner] # "none"
  /\ runs # NoConn => api[runs] = "done" /\ conn[runs] # "none"

Writing(c) == import[c] \in {"sending", "committing"}

\* The imports of two connections never have the account's row at the same time.
OneImportWrites == \A c, d \in Conn : Writing(c) /\ Writing(d) => c = d

\* Meta sends its messages after the commit, the others before it.
ImportOrder ==
  \A c \in Conn : /\ import[c] = "sending" => platform # "meta"
                  /\ import[c] = "fanout" => platform = "meta" /\ account # "absent"

\* The lock of a Meta account is left behind by a death only: its runs look for
\* the account before they take it, while a TikTok or Google run that overtakes
\* the commit of its import leaves it without any fault.
MetaLockNeedsFault == platform = "meta" /\ lock = "leaked" => faults > 0

Lifecycle ==
  /\ ConnectionsBegin
  /\ OwnersHaveImported
  /\ OneImportWrites
  /\ ImportOrder
  /\ MetaLockNeedsFault

\* Nothing has begun yet.
LEMMA InitLifecycle == Init => Lifecycle
BY ConnectionsAssumption
   DEF Init, Lifecycle, ConnectionsBegin, OwnersHaveImported, OneImportWrites, Writing,
       ImportOrder, MetaLockNeedsFault

\* The requests: a connection gets its import with the end of its request, and
\* none of them moves the account.
LEMMA RequestsKeepLifecycle ==
  ASSUME TypeOK, Lifecycle, NEW c \in Conn,
         Connect(c) \/ SendImport(c) \/ ApiDies(c) \/ Disconnect(c)
  PROVE  Lifecycle'
<1> USE ConnectionsAssumption DEF TypeOK, Lifecycle
<1>1. ConnectionsBegin'
  BY DEF ConnectionsBegin, Connect, SendImport, ApiDies, Disconnect
<1>2. OwnersHaveImported'
  BY DEF ConnectionsBegin, OwnersHaveImported, Connect, SendImport, ApiDies, Disconnect,
         accountVars, runVars
<1>3. OneImportWrites'
  BY DEF OneImportWrites, Writing, Connect, SendImport, ApiDies, Disconnect
<1>4. ImportOrder'
  BY DEF ImportOrder, Connect, SendImport, ApiDies, Disconnect, accountVars
<1>5. MetaLockNeedsFault'
  BY DEF MetaLockNeedsFault, Connect, SendImport, ApiDies, Disconnect, Fault, runVars
<1> QED BY <1>1, <1>2, <1>3, <1>4, <1>5

\* The imports: one takes the row only when no other has it, and the one that
\* commits belongs to a connection whose request is over.
LEMMA ImportsKeepLifecycle ==
  ASSUME TypeOK, Lifecycle, NEW c \in Conn, Import(c) \/ ImportFails(c) \/ ImportDies(c)
  PROVE  Lifecycle'
<1> USE ConnectionsAssumption DEF TypeOK, Lifecycle, Import
<1>1. api[c] = "done" /\ conn[c] # "none"
  BY DEF ConnectionsBegin, ImportStart, ImportUpsert, ImportSend, ImportCommit,
         ImportFanout,
         ImportFails, ImportDies
<1>2. ConnectionsBegin'
  BY <1>1 DEF ConnectionsBegin, ImportStart, ImportUpsert, ImportSend, ImportCommit,
     ImportFanout, ImportFails, ImportDies
<1>3. OwnersHaveImported'
  BY <1>1 DEF OwnersHaveImported, ImportStart, ImportUpsert, ImportSend, ImportCommit,
     ImportFanout, ImportFails, ImportDies, accountVars, runVars
<1>4. OneImportWrites'
  <2>1. CASE ImportUpsert(c)
    BY <2>1 DEF OneImportWrites, Writing, ImportUpsert, RowLocked
  <2>2. CASE ImportStart(c) \/ ImportSend(c) \/ ImportCommit(c) \/ ImportFanout(c)
             \/ ImportFails(c) \/ ImportDies(c)
    <3>1. \A d \in Conn : Writing(d)' => Writing(d)
      BY <2>2 DEF Writing, ImportStart, ImportSend, ImportCommit, ImportFanout,
                  ImportFails, ImportDies
    <3> QED BY <3>1 DEF OneImportWrites
  <2> QED BY <2>1, <2>2
<1>5. ImportOrder'
  BY DEF ImportOrder, ImportStart, ImportUpsert, ImportSend, ImportCommit, ImportFanout,
         ImportFails, ImportDies, accountVars
<1>6. MetaLockNeedsFault'
  BY DEF MetaLockNeedsFault, ImportStart, ImportUpsert, ImportSend, ImportCommit,
         ImportFanout,
         ImportFails, ImportDies, Fault, runVars
<1> QED BY <1>2, <1>3, <1>4, <1>5, <1>6

\* The runs: the one that starts works for the account's connection, and only
\* one that does not look for the account before the lock leaves it behind alive.
LEMMA RunsKeepLifecycle ==
  ASSUME TypeOK, Lifecycle, StartRun \/ EndRun \/ RunDies
  PROVE  Lifecycle'
<1> USE ConnectionsAssumption DEF TypeOK, Lifecycle
<1>1. UNCHANGED <<platform, conn, api, import, account, owner>>
  BY DEF StartRun, EndRun, RunDies, accountVars
<1>2. ConnectionsBegin' /\ OneImportWrites' /\ ImportOrder'
  BY <1>1 DEF ConnectionsBegin, OneImportWrites, Writing, ImportOrder
<1>3. runs' \in {runs, owner, NoConn}
  BY DEF StartRun, EndRun, RunDies
<1>4. OwnersHaveImported'
  BY <1>1, <1>3 DEF OwnersHaveImported
<1>5. MetaLockNeedsFault'
  <2>1. CASE StartRun
    BY <2>1 DEF StartRun, Refused, MetaLockNeedsFault
  <2>2. CASE EndRun
    BY <2>2 DEF EndRun, MetaLockNeedsFault
  <2>3. CASE RunDies
    BY <2>3 DEF RunDies, Fault, MetaLockNeedsFault
  <2> QED BY <2>1, <2>2, <2>3
<1> QED BY <1>2, <1>4, <1>5

\* Every step keeps the parts together; the dispatcher, the expiry and the
\* token tasks touch none of what they are about but the lock.
LEMMA NextLifecycle ==
  ASSUME TypeOK, Lifecycle, [Next]_vars
  PROVE  Lifecycle'
<1>1. ASSUME UNCHANGED <<platform, conn, api, import, account, owner, runs, faults>>,
             lock' \in {lock, "free"}
      PROVE  Lifecycle'
  BY <1>1 DEF Lifecycle, ConnectionsBegin, OwnersHaveImported, OneImportWrites, Writing,
     ImportOrder, MetaLockNeedsFault
<1>2. CASE UNCHANGED vars
  BY <1>1, <1>2 DEF vars, accountVars, runVars
<1>3. ASSUME NEW c \in Conn, Connect(c) \/ SendImport(c) \/ ApiDies(c) \/ Disconnect(c)
      PROVE  Lifecycle'
  BY <1>3, RequestsKeepLifecycle
<1>4. ASSUME NEW c \in Conn, Import(c) \/ ImportFails(c) \/ ImportDies(c)
      PROVE  Lifecycle'
  BY <1>4, ImportsKeepLifecycle
<1>5. ASSUME NEW c \in Conn, TokenAges(c)
      PROVE  Lifecycle'
  BY <1>1, <1>5 DEF TokenAges, accountVars, runVars
<1>6. CASE StartRun \/ EndRun \/ RunDies
  BY <1>6, RunsKeepLifecycle
<1>7. CASE Beat \/ LockExpires \/ RefreshStart \/ RefreshRaises
  BY <1>1, <1>7 DEF Beat, LockExpires, RefreshStart, RefreshRaises, accountVars, runVars
<1> QED BY <1>2, <1>3, <1>4, <1>5, <1>6, <1>7 DEF Next

\* The account is always under a connection whose import has been sent, and so
\* is the token of a run; two imports never have its row at once, and the lock of
\* a Meta account is never left behind by a run that lives.
THEOREM LifecycleHolds == Spec => []Lifecycle
<1>1. Init => TypeOK /\ Lifecycle
  BY InitTypes, InitLifecycle
<1>2. TypeOK /\ Lifecycle /\ [Next]_vars => (TypeOK /\ Lifecycle)'
  BY NextTypes, NextLifecycle
<1> QED BY <1>1, <1>2, PTL DEF Spec
=============================================================================
