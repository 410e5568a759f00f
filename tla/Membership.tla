----------------------------- MODULE Membership -----------------------------
(***************************************************************************)
(* The members of one organisation (app/services/org.py, behind            *)
(* app/api/v1/endpoints/org.py): invitations, their acceptance, removals   *)
(* and the accounts a member is granted, as requests that run at the same  *)
(* time, each in a transaction at READ COMMITTED and without autoflush: a  *)
(* request reads statement by statement, and what it adds or changes is    *)
(* written, against the unique keys of models/auth.py, when it commits.    *)
(* Only the DELETE of set_member_accounts is executed, and locks its rows, *)
(* before that.                                                            *)
(*                                                                         *)
(* A person stands for an email address.  The organisation has the owner   *)
(* who signed it up, on row 0; everybody invited is a "member".  Names,    *)
(* passwords, the expiry of a token (which only turns an acceptance away)  *)
(* and the accounts of another organisation are left out.                  *)
(***************************************************************************)
EXTENDS Integers

CONSTANTS
  Person,      \* people who may be invited
  Owner,       \* the owner
  Account,     \* the organisation's accounts
  Request,     \* requests being served
  Null,        \* SQL's NULL
  MaxRows,     \* bound: invitations inserted
  MaxTokens,   \* bound: tokens written
  MaxPuts      \* bound: grant sets stored

ASSUME MembershipAssumption ==
  /\ Owner \notin Person
  /\ Null \notin Person \cup {Owner} \cup Int
  /\ MaxRows \in Nat /\ MaxTokens \in Nat /\ MaxPuts \in Nat

VARIABLES
  users,       \* people who have a user account
  rows,        \* organization_memberships, by primary key
  inserted,    \* the last primary key given out
  issued,      \* the last token written
  mails,       \* tokens that have reached their mailbox
  grants,      \* membership_accounts: [row, account, put]
  puts,        \* grant sets stored so far
  pc,          \* the step of a request
  req,         \* what it has been asked and has read
  last,        \* history: the set stored last for a row
  outdated     \* history: puts that a later one of the row has replaced

memberVars == <<users, rows, inserted, issued, mails>>
grantVars == <<grants, puts, last, outdated>>
vars == <<memberVars, grantVars, pc, req>>

Row == 0 .. MaxRows
User == Person \cup {Owner}
NoRequest == [op |-> "none"]

MembershipRow == [user : User \cup {Null}, email : Person \cup {Null},
                  role : {"owner", "member"}, token : 1 .. MaxTokens \cup {Null},
                  accepted : BOOLEAN]
Grant == [row : Row, account : Account, put : 1 .. MaxPuts]

At(q, step) == pc[q] = step
Goto(q, step) == pc' = [pc EXCEPT ![q] = step]
Learn(q, r) == req' = [req EXCEPT ![q] = r]

\* The response is sent; without a commit before it, the session rolls back.
Answer(q) == Goto(q, "idle") /\ Learn(q, NoRequest)

Init ==
  /\ users = {Owner}
  /\ rows = [r \in {0} |-> [user |-> Owner, email |-> Null, role |-> "owner",
                            token |-> Null, accepted |-> TRUE]]
  /\ inserted = 0
  /\ issued = 0
  /\ mails = {}
  /\ grants = {}
  /\ puts = 0
  /\ pc = [q \in Request |-> "idle"]
  /\ req = [q \in Request |-> NoRequest]
  /\ last = [r \in Row |-> {}]
  /\ outdated = [r \in Row |-> {}]

\* create_user_and_org, as far as this organisation can tell: the address has
\* an account from now on.
SignUp(p) ==
  /\ p \notin users
  /\ users' = users \cup {p}
  /\ UNCHANGED <<rows, inserted, issued, mails, grantVars, pc, req>>

-----------------------------------------------------------------------------
(* POST /org/members/invite *)

InviteFindUser(q, p) ==
  /\ At(q, "idle")
  /\ Learn(q, [op |-> "invite", person |-> p, user |-> IF p \in users THEN p ELSE Null])
  /\ Goto(q, IF p \in users THEN "member" ELSE "pending")
  /\ UNCHANGED <<memberVars, grantVars>>

\* 409 for somebody who is a member already.
InviteFindMember(q) ==
  /\ At(q, "member")
  /\ IF \E r \in DOMAIN rows : rows[r].user = req[q].user /\ rows[r].accepted
     THEN Answer(q)
     ELSE Goto(q, "pending") /\ UNCHANGED req
  /\ UNCHANGED <<memberVars, grantVars>>

\* The row to renew: by user, whether accepted or not, where there was a user;
\* otherwise the pending one of the address.
Renewable(r, q) ==
  IF req[q].user # Null THEN rows[r].user = req[q].user
  ELSE rows[r].email = req[q].person /\ ~rows[r].accepted

InviteFindPending(q) ==
  /\ At(q, "pending")
  /\ \/ \E r \in DOMAIN rows :
          /\ Renewable(r, q)
          /\ Learn(q, [op |-> "invite", person |-> req[q].person, user |-> req[q].user,
                       row |-> r, read |-> rows[r]])
          /\ Goto(q, "renew")
     \/ /\ ~ \E r \in DOMAIN rows : Renewable(r, q)
        /\ Goto(q, "insert")
        /\ UNCHANGED req
  /\ UNCHANGED <<memberVars, grantVars>>

\* Mutant: the UPDATE writes the whole row that was read.
InviteRenewWholeRow(q) ==
  /\ At(q, "renew")
  /\ issued < MaxTokens
  /\ IF req[q].row \in DOMAIN rows
     THEN /\ rows' = [rows EXCEPT ![req[q].row] = [req[q].read EXCEPT !.token = issued + 1]]
          /\ issued' = issued + 1
          /\ Learn(q, [op |-> "mail", token |-> issued + 1])
          /\ Goto(q, "mail")
     ELSE Answer(q) /\ UNCHANGED <<rows, issued>>
  /\ UNCHANGED <<users, inserted, mails, grantVars>>

\* The UPDATE names the changed columns only; a row that is gone is a 500.
InviteRenew(q) ==
  /\ At(q, "renew")
  /\ issued < MaxTokens
  /\ IF req[q].row \in DOMAIN rows
     THEN /\ rows' = [rows EXCEPT ![req[q].row].token = issued + 1]
          /\ issued' = issued + 1
          /\ Learn(q, [op |-> "mail", token |-> issued + 1])
          /\ Goto(q, "mail")
     ELSE Answer(q) /\ UNCHANGED <<rows, issued>>
  /\ UNCHANGED <<users, inserted, mails, grantVars>>

\* The unique keys of organization_memberships: one row for each user, and one
\* that still has the address.
KeysAllow(q) ==
  \A r \in DOMAIN rows : /\ req[q].user = Null \/ rows[r].user # req[q].user
                         /\ rows[r].email # req[q].person

Insert(q) ==
  /\ inserted < MaxRows /\ issued < MaxTokens
  /\ inserted' = inserted + 1
  /\ issued' = issued + 1
  /\ rows' = [r \in DOMAIN rows \cup {inserted + 1} |->
                IF r \in DOMAIN rows THEN rows[r]
                ELSE [user |-> req[q].user, email |-> req[q].person, role |-> "member",
                      token |-> issued + 1, accepted |-> FALSE]]
  /\ Learn(q, [op |-> "mail", token |-> issued + 1])
  /\ Goto(q, "mail")
  /\ UNCHANGED <<users, mails, grantVars>>

\* Mutant: the partial index on the address is missing.
InviteInsertUnkeyed(q) ==
  /\ At(q, "insert")
  /\ \A r \in DOMAIN rows : req[q].user = Null \/ rows[r].user # req[q].user
  /\ Insert(q)

InviteInsert(q) ==
  /\ At(q, "insert")
  /\ KeysAllow(q)
  /\ Insert(q)

\* IntegrityError: nothing catches it.
InviteRefused(q) ==
  /\ At(q, "insert")
  /\ ~KeysAllow(q)
  /\ Answer(q)
  /\ UNCHANGED <<memberVars, grantVars>>

\* After the commit; a transport that fails leaves the invitation as it is.
InviteMail(q) ==
  /\ At(q, "mail")
  /\ \/ mails' = mails \cup {req[q].token}
     \/ UNCHANGED mails
  /\ Answer(q)
  /\ UNCHANGED <<users, rows, inserted, issued, grantVars>>

-----------------------------------------------------------------------------
(* POST /org/members/accept-invite *)

AcceptFind(q, t) ==
  /\ At(q, "idle")
  /\ \E r \in DOMAIN rows :
       /\ rows[r].token = t
       /\ Learn(q, [op |-> "accept", row |-> r, create |-> FALSE,
                    person |-> IF rows[r].user = Null THEN rows[r].email ELSE rows[r].user])
       /\ Goto(q, IF rows[r].user = Null THEN "account" ELSE "accept")
  /\ UNCHANGED <<memberVars, grantVars>>

\* An account of the address is used where there is one by now.
AcceptFindAccount(q) ==
  /\ At(q, "account")
  /\ req' = [req EXCEPT ![q].create = req[q].person \notin users]
  /\ Goto(q, "accept")
  /\ UNCHANGED <<memberVars, grantVars>>

\* users.email and (organization_id, user_id) are unique; a removed row is not
\* updated.  Any of them is a 500.
Acceptable(q) ==
  /\ req[q].row \in DOMAIN rows
  /\ req[q].create => req[q].person \notin users
  /\ \A r \in DOMAIN rows \ {req[q].row} : rows[r].user # req[q].person

AcceptCommit(q) ==
  /\ At(q, "accept")
  /\ IF Acceptable(q)
     THEN /\ users' = users \cup {req[q].person}
          /\ rows' = [rows EXCEPT ![req[q].row] =
                        [@ EXCEPT !.user = req[q].person, !.accepted = TRUE,
                                  !.token = Null, !.email = Null]]
     ELSE UNCHANGED <<users, rows>>
  /\ Answer(q)
  /\ UNCHANGED <<inserted, issued, mails, grantVars>>

-----------------------------------------------------------------------------
(* DELETE /org/members/{membership_id} *)

\* The owner cannot remove himself.
RemoveFind(q, r) ==
  /\ At(q, "idle")
  /\ r \in DOMAIN rows
  /\ rows[r].user # Owner
  /\ Learn(q, [op |-> "remove", row |-> r])
  /\ Goto(q, "remove")
  /\ UNCHANGED <<memberVars, grantVars>>

\* Grants that a transaction has deleted and still holds the locks of.
Locked(q) == IF At(q, "put") THEN req[q].cleared ELSE {}

\* The grants go with the row, whoever has just added them.
RemoveCommit(q) ==
  /\ At(q, "remove")
  /\ \A o \in Request : \A g \in Locked(o) : g.row # req[q].row
  /\ rows' = [r \in DOMAIN rows \ {req[q].row} |-> rows[r]]
  /\ grants' = {g \in grants : g.row # req[q].row}
  /\ last' = [last EXCEPT ![req[q].row] = {}]
  /\ Answer(q)
  /\ UNCHANGED <<users, inserted, issued, mails, puts, outdated>>

-----------------------------------------------------------------------------
(* PUT /org/members/{membership_id}/accounts *)

\* 409 for the owner.
PutFind(q, r, asked) ==
  /\ At(q, "idle")
  /\ r \in DOMAIN rows
  /\ rows[r].role # "owner"
  /\ Learn(q, [op |-> "put", row |-> r, asked |-> asked])
  /\ Goto(q, "delete")
  /\ UNCHANGED <<memberVars, grantVars>>

\* The DELETE starts: it will see the grants that are committed now.
PutDelete(q) ==
  /\ At(q, "delete")
  /\ Learn(q, [op |-> "put", row |-> req[q].row, asked |-> req[q].asked,
               seen |-> {g \in grants : g.row = req[q].row}, before |-> puts])
  /\ Goto(q, "lock")
  /\ UNCHANGED <<memberVars, grantVars>>

\* Mutant: the old grants are kept.
PutLockNothing(q) ==
  /\ At(q, "lock")
  /\ Learn(q, [op |-> "put", row |-> req[q].row, asked |-> req[q].asked,
               before |-> req[q].before, cleared |-> {}])
  /\ Goto(q, "put")
  /\ UNCHANGED <<memberVars, grantVars>>

\* It waits for a transaction that has deleted one of them, and passes over
\* those that are gone by then.
PutLock(q) ==
  /\ At(q, "lock")
  /\ \A o \in Request : Locked(o) \cap req[q].seen = {}
  /\ Learn(q, [op |-> "put", row |-> req[q].row, asked |-> req[q].asked,
               before |-> req[q].before, cleared |-> req[q].seen \cap grants])
  /\ Goto(q, "put")
  /\ UNCHANGED <<memberVars, grantVars>>

\* The INSERTs meet the key (membership_id, account_id) and the foreign key.
Storable(q) ==
  /\ req[q].asked # {} => req[q].row \in DOMAIN rows
  /\ \A g \in grants \ req[q].cleared : g.row = req[q].row => g.account \notin req[q].asked

PutCommit(q) ==
  /\ At(q, "put")
  /\ Storable(q)
  /\ puts < MaxPuts
  /\ puts' = puts + 1
  /\ grants' = (grants \ req[q].cleared)
               \cup [row : {req[q].row}, account : req[q].asked, put : {puts + 1}]
  /\ last' = [last EXCEPT ![req[q].row] = req[q].asked]
  /\ outdated' = [outdated EXCEPT ![req[q].row] = @ \cup 1 .. req[q].before]
  /\ Answer(q)
  /\ UNCHANGED memberVars

PutRefused(q) ==
  /\ At(q, "put")
  /\ ~Storable(q)
  /\ Answer(q)
  /\ UNCHANGED <<memberVars, grantVars>>

\* The process dies or the database connection breaks: a rollback, or after
\* the commit an email that is not sent.
Drop(q) ==
  /\ pc[q] # "idle"
  /\ Answer(q)
  /\ UNCHANGED <<memberVars, grantVars>>

-----------------------------------------------------------------------------
Next ==
  \/ \E p \in Person : SignUp(p)
  \/ \E q \in Request :
       \/ \E p \in Person : InviteFindUser(q, p)
       \/ InviteFindMember(q) \/ InviteFindPending(q) \/ InviteRenew(q)
       \/ InviteInsert(q) \/ InviteRefused(q) \/ InviteMail(q)
       \/ \E t \in mails : AcceptFind(q, t)
       \/ AcceptFindAccount(q) \/ AcceptCommit(q)
       \/ \E r \in Row : RemoveFind(q, r)
       \/ RemoveCommit(q)
       \/ \E r \in Row, asked \in SUBSET Account : PutFind(q, r, asked)
       \/ PutDelete(q) \/ PutLock(q) \/ PutCommit(q) \/ PutRefused(q)
       \/ Drop(q)

Spec == Init /\ [][Next]_vars

-----------------------------------------------------------------------------
(* Properties *)

\* The unique keys of the tables.
KeysHold ==
  /\ \A r, s \in DOMAIN rows :
       r # s => /\ rows[r].user # Null => rows[r].user # rows[s].user
                /\ rows[r].email # Null => rows[r].email # rows[s].email
  /\ \A g, h \in grants : g.row = h.row /\ g.account = h.account => g = h

\* Rows and grants are well formed, a grant is on the row of somebody who is
\* not the owner, an address has at most one pending row and a user at most one
\* row, however many requests invite the address at once and whatever account it
\* gets meanwhile ("no duplicate pending rows").  A pending row may stand beside
\* the accepted one of the same person, which has no address.
TypeOK ==
  /\ users \subseteq User
  /\ DOMAIN rows \subseteq 0 .. inserted
  /\ \A r \in DOMAIN rows : /\ rows[r] \in MembershipRow
                            /\ rows[r].accepted => rows[r].user \in users
                            /\ rows[r].email # Null => ~rows[r].accepted
  /\ inserted \in Row /\ issued \in 0 .. MaxTokens /\ puts \in 0 .. MaxPuts
  /\ mails \subseteq 1 .. issued
  /\ grants \subseteq Grant
  /\ \A g \in grants : g.row \in DOMAIN rows /\ rows[g.row].role = "member"
  /\ KeysHold

\* get_accessible_account_ids of a member.
AccessibleAccounts(p) ==
  {g.account : g \in {g \in grants : /\ rows[g.row].accepted
                                     /\ rows[g.row].user = p}}

\* A PUT replaces the set: everything that the last one to commit has asked for
\* is granted, and of the sets before it only one whose PUT committed after
\* this one's DELETE had begun may still show.
GrantsAreAsked ==
  /\ \A r \in DOMAIN rows :
       rows[r].accepted => last[r] \subseteq AccessibleAccounts(rows[r].user)
  /\ \A g \in grants : g.put \notin outdated[g.row]

\* Whatever requests run at the same time on stale reads, a membership once
\* accepted stays accepted, and with the same user, until the owner removes it.
MembersStay ==
  [][\A r \in DOMAIN rows :
       rows[r].accepted =>
         \/ r \in DOMAIN rows' /\ rows'[r].accepted /\ rows'[r].user = rows[r].user
         \/ \E q \in Request : At(q, "remove") /\ req[q].row = r /\ pc'[q] = "idle"]_vars
=============================================================================
