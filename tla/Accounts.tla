------------------------------- MODULE Accounts -------------------------------
(***************************************************************************)
(* Local accounts and sessions: the users table (store.py), the handlers   *)
(* of routes_admin that create and change accounts, login and logout       *)
(* (routes_auth), and the in-memory SessionStore (auth.py).                *)
(*                                                                         *)
(* All handlers run in pool threads.  One checks and then writes in two    *)
(* transactions, and a login reads the account and then opens a session,   *)
(* so the steps of two requests interleave.  A request goes on with the    *)
(* session it resolved at its start.  What a form says and is not looked   *)
(* at before the write is chosen at the write.  Time goes in ticks.        *)
(***************************************************************************)
EXTENDS Naturals, Sequences

CONSTANTS
    Names, Passwords, Branches,
    Uids,     \* what forms give as a teacher's uid: a number, or Nil for none
    Nil,
    TTL,      \* session lifetime, in ticks
    Threads,  \* requests that can run at once
    Slots,    \* bound: sessions held at once
    MaxUsers  \* bound: accounts

ASSUME AccountAssumption ==
    /\ TTL \in Nat
    /\ MaxUsers \in Nat
    /\ Nil \notin Branches

Roles == {"owner", "manager", "teacher"}

VARIABLES
    users,    \* id -> [name, password, role, branch, uid, active, maker]; maker
              \* (history) is the session of the request that made it
    sessions, \* token -> [who, used, age]: who.user 0 came in with the server's
              \* own password, used (history) is the password given
    req       \* thread -> the request it runs

vars == <<users, sessions, req>>

(* Whom a session is for, and how far it reaches (scope_for): an owner to  *)
(* everything, a manager to the branch, a teacher to what uid teaches.     *)
Who ==
    [user : 0..MaxUsers, role : Roles, branch : Branches \union {Nil}, uid : Uids \union {Nil}]
Account ==
    [name : Names, password : Passwords, role : Roles, branch : Branches \union {Nil},
     uid : Uids, active : BOOLEAN, maker : Who]

NoWho == [user |-> 0, role |-> "owner", branch |-> Nil, uid |-> Nil]
NoReq == [pc |-> "idle", by |-> NoWho, name |-> Nil, user |-> 0, used |-> Nil]
Ids == DOMAIN users

TypeOK ==
    /\ users \in Seq(Account)
    /\ Len(users) <= MaxUsers
    /\ DOMAIN sessions \subseteq Slots
    /\ \A s \in DOMAIN sessions :
          sessions[s].who.user \in Ids \union {0} /\ sessions[s].age \in 0..(TTL + 1)
    /\ \A t \in Threads :
          /\ req[t].pc \in {"idle", "insert", "write", "open"}
          /\ req[t].user \in Ids \union {0}

Init ==
    /\ users = <<>>
    /\ sessions = <<>>
    /\ req = [t \in Threads |-> NoReq]

-----------------------------------------------------------------------------
(* Sessions.                                                               *)

WhoIs(u) ==
    [user |-> u, role |-> users[u].role, branch |-> users[u].branch, uid |-> users[u].uid]

(* create: under a token nobody has seen.                                  *)
OpenAs(who, used) ==
    \E s \in Slots \ DOMAIN sessions :
        sessions' = [x \in DOMAIN sessions \union {s} |->
                        IF x = s THEN [who |-> who, used |-> used, age |-> 0] ELSE sessions[x]]

(* destroy, and what resolve does with a session that has expired.         *)
Close(s) == sessions' = [x \in DOMAIN sessions \ {s} |-> sessions[x]]

(* Mutant of Live: resolve does not look at the time.                      *)
LiveForever(s) == s \in DOMAIN sessions

Live(s) == s \in DOMAIN sessions /\ sessions[s].age <= TTL

(* A page that only reads; resolving a session does not prolong it.        *)
Browse(s) ==
    /\ Live(s)
    /\ UNCHANGED vars

Expire(s) ==
    /\ s \in DOMAIN sessions
    /\ ~Live(s)
    /\ Close(s)
    /\ UNCHANGED <<users, req>>

Logout(s) ==
    /\ s \in DOMAIN sessions
    /\ Close(s)
    /\ UNCHANGED <<users, req>>

(* The server's own password, or ClassIn credentials: an owner's session.  *)
Bootstrap ==
    /\ OpenAs(NoWho, Nil)
    /\ UNCHANGED <<users, req>>

(* Mutant of ReadAccount: the account need not be active.                  *)
ReadAccountInactive(t, n, p) ==
    /\ req[t].pc = "idle"
    /\ \E u \in Ids :
          /\ users[u].name = n /\ users[u].password = p
          /\ req' = [req EXCEPT ![t] = [NoReq EXCEPT !.pc = "open", !.by = WhoIs(u),
                                                     !.user = u, !.used = p]]
    /\ UNCHANGED <<users, sessions>>

(* login_submit for a local account: the row is read and the password      *)
(* compared with it ...                                                    *)
ReadAccount(t, n, p) ==
    /\ req[t].pc = "idle"
    /\ \E u \in Ids :
          /\ users[u].name = n /\ users[u].active /\ users[u].password = p
          /\ req' = [req EXCEPT ![t] = [NoReq EXCEPT !.pc = "open", !.by = WhoIs(u),
                                                     !.user = u, !.used = p]]
    /\ UNCHANGED <<users, sessions>>

(* ... and the session is opened with what the row said.                   *)
OpenSession(t) ==
    /\ req[t].pc = "open"
    /\ OpenAs(req[t].by, req[t].used)
    /\ req' = [req EXCEPT ![t] = NoReq]
    /\ UNCHANGED users

-----------------------------------------------------------------------------
(* Accounts.                                                               *)

(* _guard: the page is for owners and managers.                            *)
Admin(s) == Live(s) /\ sessions[s].who.role \in {"owner", "manager"}

(* admin_user_create: the name is looked up ...                            *)
CheckName(t, s, n) ==
    /\ req[t].pc = "idle"
    /\ Admin(s)
    /\ \A u \in Ids : users[u].name # n
    /\ req' = [req EXCEPT ![t] = [NoReq EXCEPT !.pc = "insert", !.by = sessions[s].who,
                                               !.name = n]]
    /\ UNCHANGED <<users, sessions>>

(* Mutant of May: the branch of a manager's form is not replaced.          *)
MayAnyBranch(by, role, branch) == by.role = "manager" => role = "teacher"

(* A manager makes teachers, and in the manager's own branch.              *)
May(by, role, branch) ==
    by.role = "manager" => role = "teacher" /\ branch = by.branch

(* ... and the row is inserted, if nobody has been faster, with the uid    *)
(* that was posted, which nothing ties to the branch,                      *)
InsertUser(t, p, role, branch, uid) ==
    /\ req[t].pc = "insert"
    /\ Len(users) < MaxUsers
    /\ May(req[t].by, role, branch)
    /\ \A u \in Ids : users[u].name # req[t].name
    /\ users' = Append(users, [name |-> req[t].name, password |-> p, role |-> role,
                               branch |-> branch, uid |-> uid, active |-> TRUE,
                               maker |-> req[t].by])
    /\ req' = [req EXCEPT ![t] = NoReq]
    /\ UNCHANGED sessions

(* or an IntegrityError ends the request.                                  *)
InsertRefused(t) ==
    /\ req[t].pc = "insert"
    /\ \E u \in Ids : users[u].name = req[t].name
    /\ req' = [req EXCEPT ![t] = NoReq]
    /\ UNCHANGED <<users, sessions>>

(* Mutant of Managed: the role of the account is not looked at.            *)
ManagedAnyRole(who, u) == who.role = "owner" \/ users[u].branch = who.branch

(* _managed_user.                                                          *)
Managed(who, u) ==
    \/ who.role = "owner"
    \/ users[u].role = "teacher" /\ users[u].branch = who.branch

(* admin_user_active and admin_user_password: the account is looked up ... *)
FindAccount(t, s, u) ==
    /\ req[t].pc = "idle"
    /\ Admin(s)
    /\ u \in Ids
    /\ Managed(sessions[s].who, u)
    /\ req' = [req EXCEPT ![t] = [NoReq EXCEPT !.pc = "write", !.by = sessions[s].who,
                                               !.user = u]]
    /\ UNCHANGED <<users, sessions>>

(* ... and changed.                                                        *)
SetActive(t, active) ==
    /\ req[t].pc = "write"
    /\ users' = [users EXCEPT ![req[t].user].active = active]
    /\ req' = [req EXCEPT ![t] = NoReq]
    /\ UNCHANGED sessions

SetPassword(t, p) ==
    /\ req[t].pc = "write"
    /\ users' = [users EXCEPT ![req[t].user].password = p]
    /\ req' = [req EXCEPT ![t] = NoReq]
    /\ UNCHANGED sessions

-----------------------------------------------------------------------------
Tick ==
    /\ \E s \in DOMAIN sessions : Live(s)
    /\ sessions' = [s \in DOMAIN sessions |->
                      [sessions[s] EXCEPT !.age = IF Live(s) THEN @ + 1 ELSE @]]
    /\ UNCHANGED <<users, req>>

(* The process dies, or is stopped, and is started again.                  *)
Restart ==
    /\ sessions' = <<>>
    /\ req' = [t \in Threads |-> NoReq]
    /\ UNCHANGED users

Next ==
    \/ \E s \in Slots : Browse(s) \/ Expire(s) \/ Logout(s)
    \/ Bootstrap
    \/ \E t \in Threads :
          \/ \E n \in Names, p \in Passwords : ReadAccount(t, n, p)
          \/ OpenSession(t)
          \/ \E s \in Slots, n \in Names : CheckName(t, s, n)
          \/ \E p \in Passwords, role \in Roles, branch \in Branches \union {Nil},
                uid \in Uids : InsertUser(t, p, role, branch, uid)
          \/ InsertRefused(t)
          \/ \E s \in Slots, u \in Ids : FindAccount(t, s, u)
          \/ \E active \in BOOLEAN : SetActive(t, active)
          \/ \E p \in Passwords : SetPassword(t, p)
    \/ Tick
    \/ Restart

Spec == Init /\ [][Next]_vars

(* Time passes; nobody has to browse, log out or come back.                *)
FairSpec == Spec /\ WF_vars(Tick)

-----------------------------------------------------------------------------
(* Properties.                                                             *)

(* What managers make are teachers' accounts, listed with the manager's    *)
(* own branch as its row has it, and teachers make nothing.  It says       *)
(* nothing of what such an account may read: that goes by the uid posted   *)
(* for it, which may be of any branch's teacher.                           *)
MakersOutrank ==
    \A u \in Ids :
        LET m == users[u].maker
        IN  /\ m.role # "teacher"
            /\ m.role = "manager" =>
                  /\ users[u].role = "teacher"
                  /\ users[u].branch = users[m.user].branch

(* An account is only changed by an owner's request or by one of a manager *)
(* of its branch, who changes teachers and never a manager or an owner.    *)
ChangedByRightful ==
    [][\A u \in Ids : users'[u] # users[u] =>
          \E t \in Threads :
              /\ req[t].pc = "write" /\ req[t].user = u
              /\ \/ req[t].by.role = "owner"
                 \/ /\ users[req[t].by.user].role = "manager"
                    /\ users[req[t].by.user].branch = users[u].branch
                    /\ users[u].role = "teacher"]_vars

CanEnter(u, p) == u \in Ids /\ users[u].active /\ users[u].password = p
In(u, p) == \E s \in Slots : Live(s) /\ sessions[s].who.user = u /\ sessions[s].used = p

(* Who can no longer log in, because the account was deactivated or its    *)
(* password replaced, is out in the end: the sessions that a deactivation  *)
(* leaves alone, and those of logins under way, do not outlive their TTL.  *)
ShutOut ==
    \A u \in 1..MaxUsers, p \in Passwords :
        <>[]~CanEnter(u, p) => <>[]~In(u, p)
=============================================================================
