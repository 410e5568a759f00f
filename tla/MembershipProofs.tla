-------------------------- MODULE MembershipProofs --------------------------
(***************************************************************************)
(* Proofs about Membership, for any people, accounts and number of         *)
(* requests, and whatever the bounds are.                                  *)
(***************************************************************************)
EXTENDS Membership, TLAPS

\* Row 0 is the owner's, and a row that has no user yet has an address.
RowsInv ==
  \A r \in DOMAIN rows :
    /\ rows[r].role = "member" <=> r # 0
    /\ rows[r].user = Null => rows[r].email # Null

\* What a request remembers of the database may be out of date, but not all of
\* it: primary keys are not used again, and the person of an invitation is the
\* one it was made for.
InviteInv(q) ==
  /\ pc[q] \in {"member", "pending", "insert"} =>
       req[q].person \in Person /\ req[q].user \in {req[q].person, Null}
  /\ pc[q] = "mail" => req[q].token \in 1 .. issued

AcceptInv(q) ==
  pc[q] \in {"account", "accept"} =>
    /\ req[q].row \in 0 .. inserted
    /\ req[q].person \in User
    /\ req[q].row \in DOMAIN rows =>
         \/ rows[req[q].row].user = req[q].person
         \/ rows[req[q].row].user = Null /\ rows[req[q].row].email = req[q].person

\* A grant of the row that was stored before the DELETE began is one that the
\* DELETE removes.
PutInv(q) ==
  /\ pc[q] \in {"delete", "lock", "put"} =>
       /\ req[q].row \in 1 .. inserted
       /\ req[q].asked \subseteq Account
  /\ pc[q] \in {"lock", "put"} => req[q].before \in 0 .. puts
  /\ pc[q] = "lock" =>
       \A g \in grants : g.row = req[q].row /\ g.put <= req[q].before => g \in req[q].seen
  /\ pc[q] = "lock" => \A g \in req[q].seen : g.row = req[q].row
  /\ pc[q] = "put" =>
       \A g \in grants : g.row = req[q].row /\ g.put <= req[q].before => g \in req[q].cleared
  /\ pc[q] = "put" => \A g \in req[q].cleared : g.row = req[q].row

RequestsInv ==
  /\ pc \in [Request -> {"idle", "member", "pending", "renew", "insert", "mail", "account",
                         "accept", "remove", "delete", "lock", "put"}]
  /\ DOMAIN req = Request
  /\ \A q \in Request : InviteInv(q) /\ AcceptInv(q) /\ PutInv(q)

\* GrantsAreAsked, for rows that are not accepted as well, and for rows that do
\* not exist yet.
GrantsInv ==
  /\ last \in [Row -> SUBSET Account]
  /\ outdated \in [Row -> SUBSET (1 .. puts)]
  /\ \A r \in Row : \A a \in last[r] : \E g \in grants : g.row = r /\ g.account = a
  /\ \A g \in grants : g.put <= puts /\ g.put \notin outdated[g.row]

IInv == TypeOK /\ RowsInv /\ RequestsInv /\ GrantsInv

-----------------------------------------------------------------------------
\* The invariant holds before anything has happened.
LEMMA InitIInv == Init => IInv
<1> SUFFICES ASSUME Init PROVE IInv
  OBVIOUS
<1> USE MembershipAssumption DEF Init
<1>1. TypeOK
  BY DEF TypeOK, KeysHold, MembershipRow, Grant, User, Row
<1>2. RowsInv
  BY DEF RowsInv
<1>3. RequestsInv
  BY DEF RequestsInv, InviteInv, AcceptInv, PutInv
<1>4. GrantsInv
  BY DEF GrantsInv, Row
<1> QED BY <1>1, <1>2, <1>3, <1>4 DEF IInv

\* An acceptance changes one row, and that only when the keys allow it.
LEMMA AcceptStep ==
  ASSUME IInv, NEW q \in Request, AcceptCommit(q)
  PROVE  /\ DOMAIN rows' = DOMAIN rows
         /\ \A s \in DOMAIN rows :
              \/ rows'[s] = rows[s]
              \/ /\ s = req[q].row /\ Acceptable(q)
                 /\ rows'[s] \in MembershipRow /\ rows'[s].role = rows[s].role
                 /\ rows'[s].user = req[q].person /\ rows'[s].accepted /\ rows'[s].email = Null
                 /\ rows'[s].user \in users' /\ rows'[s].user \in User
         /\ users \subseteq users' /\ users' \subseteq User
<1>1. req[q].person \in User
  BY DEF IInv, RequestsInv, AcceptInv, AcceptCommit, At
<1>2. CASE Acceptable(q)
  <2>1. req[q].row \in DOMAIN rows /\ rows[req[q].row] \in MembershipRow
    BY <1>2 DEF Acceptable, IInv, TypeOK
  <2>2. rows' = [rows EXCEPT ![req[q].row] =
                   [@ EXCEPT !.user = req[q].person, !.accepted = TRUE,
                             !.token = Null, !.email = Null]]
    BY <1>2 DEF AcceptCommit
  <2>3. /\ rows'[req[q].row] \in MembershipRow
        /\ rows'[req[q].row].role = rows[req[q].row].role
        /\ rows'[req[q].row].user = req[q].person
        /\ rows'[req[q].row].accepted /\ rows'[req[q].row].email = Null
    BY <1>1, <2>1, <2>2 DEF MembershipRow
  <2>4. users' = users \cup {req[q].person}
    BY <1>2 DEF AcceptCommit
  <2>5. DOMAIN rows' = DOMAIN rows /\ \A s \in DOMAIN rows \ {req[q].row} : rows'[s] = rows[s]
    BY <2>2
  <2>6. users \subseteq users' /\ users' \subseteq User /\ req[q].person \in users'
    BY <1>1, <2>4 DEF IInv, TypeOK
  <2> QED BY <1>1, <1>2, <2>3, <2>5, <2>6
<1>3. CASE ~Acceptable(q)
  BY <1>3 DEF AcceptCommit, IInv, TypeOK
<1> QED BY <1>2, <1>3

\* A PUT replaces the grants of its row that were there when its DELETE began.
LEMMA PutStep ==
  ASSUME IInv, NEW q \in Request, PutCommit(q)
  PROVE  /\ req[q].row \in Row \ {0} /\ req[q].asked \subseteq Account
         /\ puts \in Nat /\ puts + 1 \in 1 .. MaxPuts /\ puts' = puts + 1
         /\ grants' = (grants \ req[q].cleared)
                      \cup [row : {req[q].row}, account : req[q].asked, put : {puts + 1}]
         /\ \A g \in [row : {req[q].row}, account : req[q].asked, put : {puts + 1}] :
              g \in Grant /\ g.row = req[q].row /\ g.account \in req[q].asked /\ g.put = puts + 1
         /\ \A a \in req[q].asked : \E g \in grants' : g.row = req[q].row /\ g.account = a
<1>1. req[q].row \in 1 .. inserted /\ req[q].asked \subseteq Account
  BY DEF PutCommit, At, IInv, RequestsInv, PutInv
<1>2. req[q].row \in Row \ {0}
  BY <1>1, MembershipAssumption DEF IInv, TypeOK, Row
<1>3. puts \in Nat /\ puts + 1 \in 1 .. MaxPuts /\ puts' = puts + 1
  BY MembershipAssumption DEF PutCommit, IInv, TypeOK
<1>4. grants' = (grants \ req[q].cleared)
                \cup [row : {req[q].row}, account : req[q].asked, put : {puts + 1}]
  BY DEF PutCommit
<1>5. \A g \in [row : {req[q].row}, account : req[q].asked, put : {puts + 1}] :
        g \in Grant /\ g.row = req[q].row /\ g.account \in req[q].asked /\ g.put = puts + 1
  BY <1>1, <1>2, <1>3 DEF Grant
<1>6. ASSUME NEW a \in req[q].asked
      PROVE  \E g \in grants' : g.row = req[q].row /\ g.account = a
  <2>1. [row |-> req[q].row, account |-> a, put |-> puts + 1] \in grants'
    BY <1>4
  <2> QED BY <2>1
<1> QED BY <1>1, <1>2, <1>3, <1>4, <1>5, <1>6

\* A new account has no membership.
LEMMA SignUpKeeps ==
  ASSUME IInv, NEW p \in Person, SignUp(p)
  PROVE  IInv'
<1>1. TypeOK'
  BY DEF IInv, TypeOK, SignUp, grantVars, KeysHold, User
<1>2. RowsInv'
  BY DEF IInv, TypeOK, RowsInv, SignUp, grantVars
<1>3. RequestsInv'
  BY DEF IInv, TypeOK, RequestsInv, SignUp, grantVars, InviteInv, AcceptInv, PutInv
<1>4. GrantsInv'
  BY DEF IInv, TypeOK, GrantsInv, SignUp, grantVars
<1> QED BY <1>1, <1>2, <1>3, <1>4 DEF IInv

\* The look-ups of an invitation.
LEMMA InviteReadsKeep ==
  ASSUME IInv, NEW q \in Request,
         (\E p \in Person : InviteFindUser(q, p)) \/ InviteFindMember(q) \/ InviteFindPending(q)
  PROVE  IInv'
<1>1. TypeOK'
  BY DEF IInv, TypeOK, InviteFindUser, InviteFindMember, InviteFindPending, Renewable,
     memberVars, grantVars, At, Goto, Learn, Answer, NoRequest, KeysHold
<1>2. RowsInv'
  BY DEF IInv, TypeOK, RowsInv, InviteFindUser, InviteFindMember, InviteFindPending, Renewable,
     memberVars, grantVars, At, Goto, Learn, Answer, NoRequest
<1>3. RequestsInv'
  BY DEF IInv, TypeOK, RequestsInv, InviteFindUser, InviteFindMember, InviteFindPending,
     Renewable, memberVars, grantVars, At, Goto, Learn, Answer, NoRequest, InviteInv,
     AcceptInv, PutInv
<1>4. GrantsInv'
  BY MembershipAssumption DEF IInv, TypeOK, GrantsInv, InviteFindUser, InviteFindMember,
     InviteFindPending, Renewable, memberVars, grantVars, At, Goto, Learn, Answer, NoRequest
<1> QED BY <1>1, <1>2, <1>3, <1>4 DEF IInv

\* A renewal changes the token only.
LEMMA RenewKeeps ==
  ASSUME IInv, NEW q \in Request, InviteRenew(q)
  PROVE  IInv'
<1>1. TypeOK'
  <2>1. issued \in Nat /\ issued + 1 \in 1 .. MaxTokens
    BY MembershipAssumption DEF IInv, TypeOK, InviteRenew
  <2>2. UNCHANGED <<users, inserted, mails, grants, puts, DOMAIN rows>>
    BY DEF InviteRenew, grantVars
  <2>3. ASSUME NEW s \in DOMAIN rows
        PROVE  /\ rows'[s] \in MembershipRow
               /\ rows'[s].user = rows[s].user /\ rows'[s].email = rows[s].email
               /\ rows'[s].role = rows[s].role /\ rows'[s].accepted = rows[s].accepted
    BY <2>1 DEF IInv, TypeOK, InviteRenew, MembershipRow
  <2>4. issued' \in 0 .. MaxTokens /\ 1 .. issued \subseteq 1 .. issued'
    BY <2>1, MembershipAssumption DEF IInv, TypeOK, InviteRenew
  <2> QED BY <2>2, <2>3, <2>4 DEF IInv, TypeOK, KeysHold
<1>2. RowsInv'
  BY DEF IInv, TypeOK, RowsInv, InviteRenew, grantVars, At, Goto, Learn, Answer, NoRequest,
     MembershipRow
<1>3. RequestsInv'
  <2>1. issued \in Nat /\ (issued' = issued \/ issued' = issued + 1)
    BY DEF IInv, TypeOK, InviteRenew
  <2>2. UNCHANGED <<inserted, grants, puts, DOMAIN rows>>
    BY DEF InviteRenew, grantVars
  <2>3. \A s \in DOMAIN rows : rows'[s].user = rows[s].user /\ rows'[s].email = rows[s].email
    BY DEF IInv, TypeOK, InviteRenew, MembershipRow
  <2>4. \A o \in Request \ {q} : pc'[o] = pc[o] /\ req'[o] = req[o]
    BY DEF IInv, RequestsInv, InviteRenew, Answer, Goto, Learn
  <2>5. \/ pc'[q] = "idle"
        \/ pc'[q] = "mail" /\ req'[q].token = issued' /\ issued' = issued + 1
    BY DEF IInv, RequestsInv, InviteRenew, Answer, Goto, Learn
  <2>6. pc' \in [Request -> {"idle", "member", "pending", "renew", "insert", "mail", "account",
                            "accept", "remove", "delete", "lock", "put"}]
        /\ DOMAIN req' = Request
    BY DEF IInv, RequestsInv, InviteRenew, Answer, Goto, Learn
  <2>7. \A o \in Request : InviteInv(o)'
    BY <2>1, <2>4, <2>5 DEF IInv, RequestsInv, InviteInv
  <2>8. \A o \in Request : AcceptInv(o)'
    BY <2>2, <2>3, <2>4, <2>5 DEF IInv, RequestsInv, AcceptInv
  <2>9. \A o \in Request : PutInv(o)'
    BY <2>2, <2>4, <2>5 DEF IInv, RequestsInv, PutInv
  <2> QED BY <2>6, <2>7, <2>8, <2>9 DEF RequestsInv
<1>4. GrantsInv'
  BY DEF IInv, TypeOK, GrantsInv, InviteRenew, grantVars, At, Goto, Learn, Answer, NoRequest
<1> QED BY <1>1, <1>2, <1>3, <1>4 DEF IInv

\* The unique keys guard the INSERT, whatever was read before it.
LEMMA InsertKeeps ==
  ASSUME IInv, NEW q \in Request, InviteInsert(q)
  PROVE  IInv'
<1>1. TypeOK'
  BY MembershipAssumption DEF IInv, TypeOK, InviteInsert, Insert, KeysAllow, grantVars, At,
     Goto, Learn, KeysHold, MembershipRow, User, Row, RequestsInv, InviteInv
<1>2. RowsInv'
  <2>1. inserted \in Nat /\ inserted + 1 # 0
    BY MembershipAssumption DEF IInv, TypeOK, Row
  <2>2. req[q].person # Null
    BY MembershipAssumption DEF IInv, RequestsInv, InviteInv, InviteInsert, At
  <2>3. /\ DOMAIN rows' = DOMAIN rows \cup {inserted + 1}
        /\ \A r \in DOMAIN rows : rows'[r] = rows[r]
        /\ inserted + 1 \notin DOMAIN rows =>
             rows'[inserted + 1].role = "member" /\ rows'[inserted + 1].email = req[q].person
    BY DEF InviteInsert, Insert
  <2> QED BY <2>1, <2>2, <2>3 DEF IInv, RowsInv
<1>3. RequestsInv'
  BY DEF IInv, TypeOK, RequestsInv, InviteInsert, Insert, KeysAllow, grantVars, At, Goto,
     Learn, InviteInv, AcceptInv, PutInv, Row
<1>4. GrantsInv'
  BY DEF IInv, TypeOK, GrantsInv, InviteInsert, Insert, KeysAllow, grantVars, At, Goto, Learn
<1> QED BY <1>1, <1>2, <1>3, <1>4 DEF IInv

\* Requests that end without a commit.
LEMMA AnswersKeep ==
  ASSUME IInv, NEW q \in Request, InviteRefused(q) \/ InviteMail(q) \/ PutRefused(q) \/ Drop(q)
  PROVE  IInv'
<1>1. TypeOK'
  <2>1. \/ mails' = mails
        \/ mails' = mails \cup {req[q].token} /\ At(q, "mail")
    BY DEF InviteRefused, InviteMail, PutRefused, Drop, memberVars
  <2>2. mails' \subseteq 1 .. issued
    BY <2>1 DEF IInv, TypeOK, RequestsInv, InviteInv, At
  <2>3. UNCHANGED <<users, rows, inserted, issued, grants, puts>>
    BY DEF InviteRefused, InviteMail, PutRefused, Drop, memberVars, grantVars
  <2> QED BY <2>2, <2>3 DEF IInv, TypeOK, KeysHold
<1>2. RowsInv'
  BY DEF IInv, TypeOK, RowsInv, InviteRefused, InviteMail, PutRefused, Drop, memberVars,
     grantVars, At, Goto, Learn, Answer, NoRequest
<1>3. RequestsInv'
  BY DEF IInv, TypeOK, RequestsInv, InviteRefused, InviteMail, PutRefused, Drop, memberVars,
     grantVars, At, Goto, Learn, Answer, NoRequest, InviteInv, AcceptInv, PutInv
<1>4. GrantsInv'
  BY MembershipAssumption DEF IInv, TypeOK, GrantsInv, InviteRefused, InviteMail, PutRefused,
     Drop, memberVars, grantVars, At, Goto, Learn, Answer, NoRequest
<1> QED BY <1>1, <1>2, <1>3, <1>4 DEF IInv

\* The look-ups of an acceptance.
LEMMA AcceptReadsKeep ==
  ASSUME IInv, NEW q \in Request, (\E t \in mails : AcceptFind(q, t)) \/ AcceptFindAccount(q)
  PROVE  IInv'
<1>1. TypeOK'
  BY DEF IInv, TypeOK, AcceptFind, AcceptFindAccount, memberVars, grantVars, At, Goto, Learn,
     KeysHold
<1>2. RowsInv'
  BY DEF IInv, TypeOK, RowsInv, AcceptFind, AcceptFindAccount, memberVars, grantVars, At, Goto,
     Learn
<1>3. RequestsInv'
  <2>1. UNCHANGED <<rows, inserted, issued, grants, puts>>
    BY DEF AcceptFind, AcceptFindAccount, memberVars, grantVars
  <2>2. /\ pc' \in [Request -> {"idle", "member", "pending", "renew", "insert", "mail", "account",
                               "accept", "remove", "delete", "lock", "put"}]
        /\ DOMAIN req' = Request
    BY DEF IInv, RequestsInv, AcceptFind, AcceptFindAccount, Goto, Learn
  <2>3. \A o \in Request \ {q} : pc'[o] = pc[o] /\ req'[o] = req[o]
    BY DEF IInv, RequestsInv, AcceptFind, AcceptFindAccount, Goto, Learn
  <2>4. pc'[q] \in {"account", "accept"}
    BY DEF IInv, RequestsInv, AcceptFind, AcceptFindAccount, Goto
  <2>5. AcceptInv(q)'
    <3>1. ASSUME NEW t \in mails, AcceptFind(q, t) PROVE AcceptInv(q)'
      <4>1. PICK r \in DOMAIN rows :
              /\ req'[q].row = r
              /\ req'[q].person = IF rows[r].user = Null THEN rows[r].email ELSE rows[r].user
        BY <3>1 DEF AcceptFind, Learn, IInv, RequestsInv
      <4>2. req'[q].person \in User
        BY <4>1 DEF IInv, TypeOK, MembershipRow, RowsInv, User
      <4> QED BY <2>1, <4>1, <4>2 DEF AcceptInv, IInv, TypeOK
    <3>2. CASE AcceptFindAccount(q)
      <4>1. req'[q].row = req[q].row /\ req'[q].person = req[q].person /\ pc[q] = "account"
        BY <3>2 DEF AcceptFindAccount, At, IInv, RequestsInv
      <4> QED BY <2>1, <4>1 DEF AcceptInv, IInv, RequestsInv
    <3> QED BY <3>1, <3>2
  <2>6. \A o \in Request : InviteInv(o)'
    BY <2>1, <2>3, <2>4 DEF IInv, RequestsInv, InviteInv
  <2>7. \A o \in Request : AcceptInv(o)'
    BY <2>1, <2>3, <2>5 DEF IInv, RequestsInv, AcceptInv
  <2>8. \A o \in Request : PutInv(o)'
    BY <2>1, <2>3, <2>4 DEF IInv, RequestsInv, PutInv
  <2> QED BY <2>2, <2>6, <2>7, <2>8 DEF RequestsInv
<1>4. GrantsInv'
  BY MembershipAssumption DEF IInv, TypeOK, GrantsInv, AcceptFind, AcceptFindAccount,
     memberVars, grantVars, At, Goto, Learn
<1> QED BY <1>1, <1>2, <1>3, <1>4 DEF IInv

\* An acceptance gives the row to the person it was made for, who has no other.
LEMMA AcceptKeeps ==
  ASSUME IInv, NEW q \in Request, AcceptCommit(q)
  PROVE  IInv'
<1>1. TypeOK'
  <2>1. UNCHANGED <<inserted, issued, mails, grants, puts>>
    BY DEF AcceptCommit, grantVars
  <2>2. \A r \in DOMAIN rows : rows'[r] \in MembershipRow
    BY AcceptStep DEF IInv, TypeOK
  <2>3. \A r \in DOMAIN rows : /\ rows'[r].accepted => rows'[r].user \in users'
                              /\ rows'[r].email # Null => ~rows'[r].accepted
    BY AcceptStep DEF IInv, TypeOK
  <2>4. \A r, s \in DOMAIN rows : r # s =>
          /\ rows'[r].user # Null => rows'[r].user # rows'[s].user
          /\ rows'[r].email # Null => rows'[r].email # rows'[s].email
    BY AcceptStep DEF IInv, TypeOK, KeysHold, Acceptable
  <2>5. \A g \in grants : g.row \in DOMAIN rows' /\ rows'[g.row].role = "member"
    BY AcceptStep DEF IInv, TypeOK
  <2> QED BY AcceptStep, <2>1, <2>2, <2>3, <2>4, <2>5 DEF IInv, TypeOK, KeysHold
<1>2. RowsInv'
  <2>1. \A u \in User : u # Null
    BY MembershipAssumption DEF User
  <2> QED BY AcceptStep, <2>1 DEF IInv, RowsInv
<1>3. RequestsInv'
  <2>1. UNCHANGED <<inserted, issued, grants, puts>>
    BY DEF AcceptCommit, grantVars
  <2>2. /\ pc' \in [Request -> {"idle", "member", "pending", "renew", "insert", "mail", "account",
                               "accept", "remove", "delete", "lock", "put"}]
        /\ DOMAIN req' = Request
    BY DEF IInv, RequestsInv, AcceptCommit, Answer, Goto, Learn
  <2>3. pc'[q] = "idle" /\ \A o \in Request \ {q} : pc'[o] = pc[o] /\ req'[o] = req[o]
    BY DEF IInv, RequestsInv, AcceptCommit, Answer, Goto, Learn
  <2>4. \A o \in Request : InviteInv(o)' /\ PutInv(o)'
    BY <2>1, <2>3 DEF IInv, RequestsInv, InviteInv, PutInv
  <2>5. req[q].row \in DOMAIN rows =>
          \/ rows[req[q].row].user = req[q].person
          \/ rows[req[q].row].user = Null /\ rows[req[q].row].email = req[q].person
    BY DEF IInv, RequestsInv, AcceptInv, AcceptCommit, At
  <2>6. \A u \in User : u # Null
    BY MembershipAssumption DEF User
  <2>7. \A o \in Request : AcceptInv(o)'
    BY <2>1, <2>3, <2>5, <2>6, AcceptStep DEF IInv, RequestsInv, AcceptInv
  <2> QED BY <2>2, <2>4, <2>7 DEF RequestsInv
<1>4. GrantsInv'
  BY DEF IInv, TypeOK, GrantsInv, AcceptCommit, Acceptable, grantVars, At, Goto, Learn, Answer,
     NoRequest
<1> QED BY <1>1, <1>2, <1>3, <1>4 DEF IInv

\* The look-up of a removal.
LEMMA RemoveFindKeeps ==
  ASSUME IInv, NEW q \in Request, NEW r \in Row, RemoveFind(q, r)
  PROVE  IInv'
<1>1. TypeOK'
  BY DEF IInv, TypeOK, RemoveFind, memberVars, grantVars, At, Goto, Learn, KeysHold
<1>2. RowsInv'
  BY DEF IInv, TypeOK, RowsInv, RemoveFind, memberVars, grantVars, At, Goto, Learn
<1>3. RequestsInv'
  BY DEF IInv, TypeOK, RequestsInv, RemoveFind, memberVars, grantVars, At, Goto, Learn,
     InviteInv, AcceptInv, PutInv
<1>4. GrantsInv'
  BY DEF IInv, TypeOK, GrantsInv, RemoveFind, memberVars, grantVars, At, Goto, Learn
<1> QED BY <1>1, <1>2, <1>3, <1>4 DEF IInv

\* The grants go with their row.
LEMMA RemoveKeeps ==
  ASSUME IInv, NEW q \in Request, RemoveCommit(q)
  PROVE  IInv'
<1>1. TypeOK'
  BY DEF IInv, TypeOK, RemoveCommit, At, Goto, Learn, Answer, NoRequest, KeysHold
<1>2. RowsInv'
  BY DEF IInv, TypeOK, RowsInv, RemoveCommit, At, Goto, Learn, Answer, NoRequest
<1>3. RequestsInv'
  BY DEF IInv, TypeOK, RequestsInv, RemoveCommit, At, Goto, Learn, Answer, NoRequest,
     InviteInv, AcceptInv, PutInv
<1>4. GrantsInv'
  <2>1. /\ grants' = {g \in grants : g.row # req[q].row}
        /\ last' = [last EXCEPT ![req[q].row] = {}]
        /\ UNCHANGED <<puts, outdated>>
    BY DEF RemoveCommit
  <2>2. last' \in [Row -> SUBSET Account]
    BY <2>1 DEF IInv, GrantsInv
  <2>3. \A r \in Row : \A a \in last'[r] : \E g \in grants' : g.row = r /\ g.account = a
    BY <2>1 DEF IInv, GrantsInv
  <2> QED BY <2>1, <2>2, <2>3 DEF IInv, GrantsInv
<1> QED BY <1>1, <1>2, <1>3, <1>4 DEF IInv

\* The look-up and the snapshot of a PUT.
LEMMA PutReadsKeep ==
  ASSUME IInv, NEW q \in Request,
         (\E r \in Row, asked \in SUBSET Account : PutFind(q, r, asked)) \/ PutDelete(q)
  PROVE  IInv'
<1>1. TypeOK'
  BY DEF IInv, TypeOK, PutFind, PutDelete, memberVars, grantVars, At, Goto, Learn, KeysHold
<1>2. RowsInv'
  BY DEF IInv, TypeOK, RowsInv, PutFind, PutDelete, memberVars, grantVars, At, Goto, Learn
<1>3. RequestsInv'
  <2>1. UNCHANGED <<rows, inserted, issued, grants, puts>>
    BY DEF PutFind, PutDelete, memberVars, grantVars
  <2>2. /\ pc' \in [Request -> {"idle", "member", "pending", "renew", "insert", "mail", "account",
                               "accept", "remove", "delete", "lock", "put"}]
        /\ DOMAIN req' = Request
    BY DEF IInv, RequestsInv, PutFind, PutDelete, Goto, Learn
  <2>3. pc'[q] \in {"delete", "lock"} /\ \A o \in Request \ {q} : pc'[o] = pc[o] /\ req'[o] = req[o]
    BY DEF IInv, RequestsInv, PutFind, PutDelete, Goto, Learn
  <2>4. PutInv(q)'
    <3>1. ASSUME NEW r \in Row, NEW asked \in SUBSET Account, PutFind(q, r, asked) PROVE PutInv(q)'
      <4>1. r \in 1 .. inserted
        BY <3>1 DEF PutFind, IInv, TypeOK, RowsInv, Row, MembershipRow
      <4> QED BY <2>1, <3>1, <4>1 DEF PutFind, Learn, Goto, PutInv, IInv, RequestsInv
    <3>2. CASE PutDelete(q)
      <4>1. pc'[q] = "lock" /\ req'[q] = [op |-> "put", row |-> req[q].row, asked |-> req[q].asked,
               seen |-> {g \in grants : g.row = req[q].row}, before |-> puts]
        BY <3>2 DEF PutDelete, Goto, Learn, IInv, RequestsInv
      <4>2. req[q].row \in 1 .. inserted /\ req[q].asked \subseteq Account
        BY <3>2 DEF PutDelete, At, IInv, RequestsInv, PutInv
      <4>3. puts \in 0 .. puts
        BY DEF IInv, TypeOK
      <4> QED BY <2>1, <4>1, <4>2, <4>3 DEF PutInv
    <3> QED BY <3>1, <3>2
  <2>5. \A o \in Request : InviteInv(o)' /\ AcceptInv(o)'
    BY <2>1, <2>3 DEF IInv, RequestsInv, InviteInv, AcceptInv
  <2>6. \A o \in Request : PutInv(o)'
    BY <2>1, <2>3, <2>4 DEF IInv, RequestsInv, PutInv
  <2> QED BY <2>2, <2>5, <2>6 DEF RequestsInv
<1>4. GrantsInv'
  BY MembershipAssumption DEF IInv, TypeOK, GrantsInv, PutFind, PutDelete, memberVars,
     grantVars, At, Goto, Learn
<1> QED BY <1>1, <1>2, <1>3, <1>4 DEF IInv

\* What the DELETE has seen and is gone by now needs no deleting.
LEMMA PutLockKeeps ==
  ASSUME IInv, NEW q \in Request, PutLock(q)
  PROVE  IInv'
<1>1. TypeOK'
  BY DEF IInv, TypeOK, PutLock, memberVars, grantVars, At, Goto, Learn, KeysHold
<1>2. RowsInv'
  BY DEF IInv, TypeOK, RowsInv, PutLock, memberVars, grantVars, At, Goto, Learn
<1>3. RequestsInv'
  BY DEF IInv, TypeOK, RequestsInv, PutLock, memberVars, grantVars, At, Goto, Learn, InviteInv,
     AcceptInv, PutInv
<1>4. GrantsInv'
  BY DEF IInv, TypeOK, GrantsInv, PutLock, memberVars, grantVars, At, Goto, Learn
<1> QED BY <1>1, <1>2, <1>3, <1>4 DEF IInv

\* The keys guard the INSERTs.
LEMMA PutKeeps ==
  ASSUME IInv, NEW q \in Request, PutCommit(q)
  PROVE  IInv'
<1>1. TypeOK'
  <2>1. UNCHANGED <<users, rows, inserted, issued, mails>>
    BY DEF PutCommit, memberVars
  <2>2. grants' \subseteq Grant
    BY PutStep DEF IInv, TypeOK
  <2>3. ASSUME NEW g \in grants' PROVE g.row \in DOMAIN rows /\ rows[g.row].role = "member"
    <3>1. CASE g \in grants
      BY <3>1 DEF IInv, TypeOK
    <3>2. CASE g \notin grants
      <4>1. g.row = req[q].row /\ req[q].asked # {} /\ req[q].row # 0
        BY <3>2, PutStep
      <4> QED BY <4>1 DEF PutCommit, Storable, IInv, RowsInv
    <3> QED BY <3>1, <3>2
  <2>4. \A g, h \in grants' : g.row = h.row /\ g.account = h.account => g = h
    <3> DEFINE New == [row : {req[q].row}, account : req[q].asked, put : {puts + 1}]
    <3>1. ASSUME NEW g \in grants \ req[q].cleared, NEW h \in New
          PROVE  ~(g.row = h.row /\ g.account = h.account)
      <4>1. h.row = req[q].row /\ h.account \in req[q].asked
        BY PutStep
      <4> QED BY <4>1 DEF PutCommit, Storable
    <3>2. \A g, h \in New : g.account = h.account => g = h
      OBVIOUS
    <3>3. \A g, h \in grants : g.row = h.row /\ g.account = h.account => g = h
      BY DEF IInv, TypeOK, KeysHold
    <3>4. grants' = (grants \ req[q].cleared) \cup New
      BY PutStep
    <3> HIDE DEF New
    <3> QED BY <3>1, <3>2, <3>3, <3>4
  <2>5. puts' \in 0 .. MaxPuts
    BY PutStep
  <2> QED BY <2>1, <2>2, <2>3, <2>4, <2>5 DEF IInv, TypeOK, KeysHold
<1>2. RowsInv'
  BY DEF IInv, TypeOK, RowsInv, PutCommit, Storable, memberVars, At, Goto, Learn, Answer,
     NoRequest
<1>3. RequestsInv'
  BY DEF IInv, TypeOK, RequestsInv, PutCommit, Storable, memberVars, At, Goto, Learn, Answer,
     NoRequest, InviteInv, AcceptInv, PutInv
<1>4. GrantsInv'
  <2>1. /\ last' = [last EXCEPT ![req[q].row] = req[q].asked]
        /\ outdated' = [outdated EXCEPT ![req[q].row] = @ \cup 1 .. req[q].before]
    BY DEF PutCommit
  <2>2. /\ req[q].before \in 0 .. puts
        /\ \A g \in grants : g.row = req[q].row /\ g.put <= req[q].before => g \in req[q].cleared
        /\ \A g \in req[q].cleared : g.row = req[q].row
    BY DEF PutCommit, At, IInv, RequestsInv, PutInv
  <2>3. last' \in [Row -> SUBSET Account]
    BY <2>1, PutStep DEF IInv, GrantsInv
  <2>4. outdated' \in [Row -> SUBSET (1 .. puts')]
    BY <2>1, <2>2, PutStep DEF IInv, GrantsInv
  <2>5. ASSUME NEW r \in Row, NEW a \in last'[r]
        PROVE  \E g \in grants' : g.row = r /\ g.account = a
    <3>1. CASE r = req[q].row
      BY <2>1, <3>1, PutStep DEF IInv, GrantsInv
    <3>2. CASE r # req[q].row
      <4>1. PICK g \in grants : g.row = r /\ g.account = a
        BY <2>1, <3>2 DEF IInv, GrantsInv
      <4>2. g \in grants'
        BY <2>2, <3>2, <4>1, PutStep
      <4> QED BY <4>1, <4>2
    <3> QED BY <3>1, <3>2
  <2>6. ASSUME NEW g \in grants' PROVE g.put <= puts' /\ g.put \notin outdated'[g.row]
    <3>1. CASE g \in grants /\ g \notin req[q].cleared
      <4>1. g.put \in 1 .. MaxPuts /\ g.row \in Row /\ g.put <= puts /\ g.put \notin outdated[g.row]
        BY <3>1 DEF IInv, TypeOK, Grant, GrantsInv
      <4>2. g.row = req[q].row => g.put \notin 1 .. req[q].before
        BY <2>2, <3>1
      <4> QED BY <2>1, <4>1, <4>2, PutStep DEF IInv, GrantsInv
    <3>2. CASE ~(g \in grants /\ g \notin req[q].cleared)
      <4>1. g.row = req[q].row /\ g.put = puts + 1
        BY <3>2, PutStep
      <4>2. outdated'[req[q].row] \subseteq 1 .. puts
        BY <2>1, <2>2, PutStep DEF IInv, GrantsInv
      <4> QED BY <4>1, <4>2, PutStep
    <3> QED BY <3>1, <3>2
  <2> QED BY <2>3, <2>4, <2>5, <2>6 DEF GrantsInv
<1> QED BY <1>1, <1>2, <1>3, <1>4 DEF IInv

\* The invariant is inductive.
LEMMA NextKeepsIInv ==
  ASSUME IInv, [Next]_vars
  PROVE  IInv'
<1>1. CASE UNCHANGED vars
  BY <1>1 DEF IInv, TypeOK, KeysHold, RowsInv, RequestsInv, InviteInv, AcceptInv, PutInv,
     GrantsInv, vars, memberVars, grantVars
<1>2. CASE \E p \in Person : SignUp(p)
  BY <1>2, SignUpKeeps
<1>3. CASE \E q \in Request : \/ \E p \in Person : InviteFindUser(q, p)
                              \/ InviteFindMember(q) \/ InviteFindPending(q)
                              \/ InviteRenew(q) \/ InviteInsert(q)
                              \/ InviteRefused(q) \/ InviteMail(q)
  BY <1>3, InviteReadsKeep, RenewKeeps, InsertKeeps, AnswersKeep
<1>4. CASE \E q \in Request : \/ \E t \in mails : AcceptFind(q, t)
                              \/ AcceptFindAccount(q) \/ AcceptCommit(q)
                              \/ \E r \in Row : RemoveFind(q, r)
                              \/ RemoveCommit(q)
  BY <1>4, AcceptReadsKeep, AcceptKeeps, RemoveFindKeeps, RemoveKeeps
<1>5. CASE \E q \in Request : \/ \E r \in Row, asked \in SUBSET Account : PutFind(q, r, asked)
                              \/ PutDelete(q) \/ PutLock(q) \/ PutCommit(q)
                              \/ PutRefused(q) \/ Drop(q)
  BY <1>5, PutReadsKeep, PutLockKeeps, PutKeeps, AnswersKeep
<1> QED BY <1>1, <1>2, <1>3, <1>4, <1>5 DEF Next

\* It holds in every reachable state.
LEMMA InvariantHolds == Spec => []IInv
<1>1. IInv /\ [Next]_vars => IInv'
  BY NextKeepsIInv
<1> QED BY InitIInv, <1>1, PTL DEF Spec

\* Rows and grants are well formed and the keys of the tables hold: an address
\* has one pending row at most and a user one row, whatever requests run at the
\* same time.
THEOREM TypeCorrect == Spec => []TypeOK
<1>1. IInv => TypeOK
  BY DEF IInv
<1> QED BY <1>1, InvariantHolds, PTL

\* An accepted member sees everything that the last PUT to commit has asked for,
\* and no set that was there when its DELETE began.
THEOREM GrantsCorrect == Spec => []GrantsAreAsked
<1>1. ASSUME IInv PROVE GrantsAreAsked
  <2>1. ASSUME NEW r \in DOMAIN rows, rows[r].accepted, NEW a \in last[r]
        PROVE  a \in AccessibleAccounts(rows[r].user)
    <3>1. r \in Row
      BY <1>1, MembershipAssumption DEF IInv, TypeOK, Row
    <3>2. PICK g \in grants : g.row = r /\ g.account = a
      BY <1>1, <3>1 DEF IInv, GrantsInv
    <3> QED BY <2>1, <3>2 DEF AccessibleAccounts
  <2> QED BY <1>1, <2>1 DEF GrantsAreAsked, IInv, GrantsInv
<1> QED BY <1>1, InvariantHolds, PTL

\* An accepted membership stays with its user until it is removed.
LEMMA StepKeepsMembers ==
  ASSUME IInv, [Next]_vars, NEW r \in DOMAIN rows, rows[r].accepted
  PROVE  \/ r \in DOMAIN rows' /\ rows'[r].accepted /\ rows'[r].user = rows[r].user
         \/ \E q \in Request : At(q, "remove") /\ req[q].row = r /\ pc'[q] = "idle"
<1>1. CASE UNCHANGED rows
  BY <1>1
<1>2. CASE \E q \in Request : InviteRenew(q)
  BY <1>2 DEF InviteRenew, IInv, TypeOK, MembershipRow
<1>3. CASE \E q \in Request : InviteInsert(q)
  BY <1>3 DEF InviteInsert, Insert
<1>4. ASSUME NEW q \in Request, AcceptCommit(q)
      PROVE  r \in DOMAIN rows' /\ rows'[r].accepted /\ rows'[r].user = rows[r].user
  <2>1. rows[r].user # Null
    BY MembershipAssumption DEF IInv, TypeOK, User
  <2>2. r = req[q].row => rows[r].user = req[q].person
    BY <1>4, <2>1 DEF IInv, RequestsInv, AcceptInv, AcceptCommit, At
  <2> QED BY <1>4, <2>2, AcceptStep
<1>5. ASSUME NEW q \in Request, RemoveCommit(q), r # req[q].row
      PROVE  r \in DOMAIN rows' /\ rows'[r] = rows[r]
  BY <1>5 DEF RemoveCommit
<1>6. ASSUME NEW q \in Request, RemoveCommit(q)
      PROVE  At(q, "remove") /\ pc'[q] = "idle"
  BY <1>6 DEF RemoveCommit, Answer, Goto, IInv, RequestsInv
<1>7. \/ UNCHANGED rows
      \/ \E q \in Request : InviteRenew(q) \/ InviteInsert(q) \/ AcceptCommit(q) \/ RemoveCommit(q)
  BY DEF Next, vars, memberVars, SignUp, InviteFindUser, InviteFindMember, InviteFindPending,
     InviteRefused, InviteMail, AcceptFind, AcceptFindAccount, RemoveFind, PutFind,
     PutDelete, PutLock, PutCommit, PutRefused, Drop
<1> QED BY <1>1, <1>2, <1>3, <1>4, <1>5, <1>6, <1>7

\* Whoever has accepted stays a member until he is removed.
THEOREM MembersStayMembers == Spec => MembersStay
<1>1. IInv /\ [Next]_vars =>
        [\A r \in DOMAIN rows :
           rows[r].accepted =>
             \/ r \in DOMAIN rows' /\ rows'[r].accepted /\ rows'[r].user = rows[r].user
             \/ \E q \in Request : At(q, "remove") /\ req[q].row = r /\ pc'[q] = "idle"]_vars
  BY StepKeepsMembers
<1> QED BY <1>1, InvariantHolds, PTL DEF Spec, MembersStay
=============================================================================
