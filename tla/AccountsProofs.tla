---------------------------- MODULE AccountsProofs ----------------------------
(***************************************************************************)
(* Proofs about Accounts, for every number of accounts, sessions and       *)
(* requests at once.                                                       *)
(***************************************************************************)
EXTENDS Accounts, SequenceTheorems, TLAPS

USE AccountAssumption

Session == [who : Who, used : Passwords \union {Nil}, age : 0..(TTL + 1)]
Request ==
    [pc : {"idle", "insert", "write", "open"}, by : Who, name : Names \union {Nil},
     user : 0..MaxUsers, used : Passwords \union {Nil}]

(* What TypeOK leaves open: sessions and requests are records.             *)
Typed ==
    /\ users \in Seq(Account)
    /\ Len(users) <= MaxUsers
    /\ DOMAIN sessions \subseteq Slots
    /\ \A s \in DOMAIN sessions : sessions[s] \in Session
    /\ req \in [Threads -> Request]
    /\ \A t \in Threads : req[t].pc = "insert" => req[t].name \in Names

(* A copy of an account agrees with its row: the account is there, with    *)
(* this role, branch and uid, or it is the server's own owner.             *)
Agrees(who, rows) ==
    \/ who = NoWho
    \/ /\ who.user \in DOMAIN rows
       /\ who.role = rows[who.user].role
       /\ who.branch = rows[who.user].branch
       /\ who.uid = rows[who.user].uid

(* All copies do: of sessions, of requests under way, of makers.           *)
CopiesAgree ==
    /\ \A s \in DOMAIN sessions : Agrees(sessions[s].who, users)
    /\ \A t \in Threads : Agrees(req[t].by, users)
    /\ \A u \in Ids : Agrees(users[u].maker, users)

(* What a request has established when it goes on to write.                *)
RequestKnows ==
    \A t \in Threads :
        /\ req[t].user \in Ids \union {0}
        /\ req[t].pc \in {"insert", "write"} => req[t].by.role # "teacher"
        /\ req[t].pc = "write" => req[t].user \in Ids /\ Managed(req[t].by, req[t].user)

(* The inductive invariant.                                                *)
IInv == Typed /\ CopiesAgree /\ RequestKnows /\ MakersOutrank

(* An account, once made, keeps its id, its role, branch, uid and maker.   *)
Kept ==
    /\ Ids \subseteq Ids'
    /\ \A u \in Ids : /\ users'[u].role = users[u].role
                      /\ users'[u].branch = users[u].branch
                      /\ users'[u].uid = users[u].uid
                      /\ users'[u].maker = users[u].maker

(* Nobody is there at first.                                               *)
LEMMA InitInv == Init => IInv
  BY DEF Init, IInv, Typed, CopiesAgree, RequestKnows, MakersOutrank, Agrees, Ids, NoReq, NoWho,
         Who, Roles, Request

(* The ids are the numbers up to the number of accounts, and each is of an *)
(* account.                                                                *)
LEMMA Rows ==
  ASSUME Typed
  PROVE  /\ Ids = 1..Len(users) /\ Len(users) \in Nat
         /\ \A u \in Ids : users[u] \in Account
  BY LenProperties, ElementOfSeq DEF Typed, Ids

(* A changed account has the role, branch, uid and maker it had.           *)
LEMMA AccountChanged ==
  ASSUME NEW r \in Account, NEW row,
         \/ \E active \in BOOLEAN : row = [r EXCEPT !.active = active]
         \/ \E p \in Passwords : row = [r EXCEPT !.password = p]
  PROVE  /\ row \in Account /\ row.role = r.role /\ row.branch = r.branch
         /\ row.uid = r.uid /\ row.maker = r.maker
  BY DEF Account

(* Every copy stays right while the accounts are kept.                     *)
LEMMA AgreesKept ==
  ASSUME Kept, NEW who, Agrees(who, users)
  PROVE  Agrees(who, users')
  BY DEF Kept, Agrees, NoWho, Ids

(* If the accounts are as they were, and each session and request is one   *)
(* that was there, or one that knows what it should, all stays well.       *)
LEMMA OnlySessions ==
  ASSUME IInv, UNCHANGED users,
         DOMAIN sessions' \subseteq Slots,
         \A s \in DOMAIN sessions' : sessions'[s] \in Session /\ Agrees(sessions'[s].who, users),
         req' \in [Threads -> Request],
         \A t \in Threads :
            \/ req'[t] = req[t]
            \/ /\ Agrees(req'[t].by, users) /\ req'[t].user \in Ids \union {0}
               /\ req'[t].pc = "insert" => req'[t].name \in Names
               /\ req'[t].pc \in {"insert", "write"} => req'[t].by.role # "teacher"
               /\ req'[t].pc = "write" =>
                     req'[t].user \in Ids /\ Managed(req'[t].by, req'[t].user)
  PROVE  IInv'
<1>1. Kept
  BY DEF Kept, Ids
<1>2. Typed'
  BY DEF IInv, Typed
<1>4. CopiesAgree'
  BY DEF IInv, CopiesAgree, Ids
<1>5. RequestKnows'
  BY DEF IInv, RequestKnows, Ids, Managed
<1>6. MakersOutrank'
  BY DEF IInv, MakersOutrank, Ids
<1> QED
  BY <1>2, <1>4, <1>5, <1>6 DEF IInv

(* No step breaks it.                                                      *)
LEMMA NextInv == IInv /\ [Next]_vars => IInv'
<1> SUFFICES ASSUME IInv, [Next]_vars PROVE IInv'
  OBVIOUS
<1>a. /\ Ids = 1..Len(users) /\ Len(users) \in Nat
      /\ \A u \in Ids : users[u] \in Account
  BY Rows DEF IInv
<1>b. NoWho \in Who /\ NoReq \in Request /\ Agrees(NoWho, users) /\ NoReq.pc = "idle" /\ NoReq.user = 0
      /\ NoReq.by = NoWho
  BY DEF NoWho, NoReq, Who, Roles, Request, Agrees
<1>c. /\ DOMAIN sessions \subseteq Slots
      /\ \A s \in DOMAIN sessions : sessions[s] \in Session /\ Agrees(sessions[s].who, users)
      /\ req \in [Threads -> Request]
      /\ \A t \in Threads : Agrees(req[t].by, users)
  BY DEF IInv, Typed, CopiesAgree
<1>1. ASSUME NEW s \in Slots, Browse(s) \/ Expire(s) \/ Logout(s) PROVE IInv'
  <2>1. CASE Browse(s)
    BY <2>1, <1>c, OnlySessions DEF Browse, vars
  <2>2. CASE Expire(s) \/ Logout(s)
    BY <2>2, <1>c, OnlySessions DEF Expire, Logout, Close
  <2> QED
    BY <1>1, <2>1, <2>2
<1>2. CASE Bootstrap
  <2>1. \A who \in Who, used \in Passwords \union {Nil} :
           [who |-> who, used |-> used, age |-> 0] \in Session
    BY DEF Session
  <2> QED
    BY <1>2, <2>1, <1>b, <1>c, OnlySessions DEF Bootstrap, OpenAs
<1>3. ASSUME NEW t \in Threads, NEW n \in Names, NEW p \in Passwords, ReadAccount(t, n, p)
      PROVE  IInv'
  <2>1. PICK u \in Ids : req' = [req EXCEPT ![t] = [NoReq EXCEPT !.pc = "open", !.by = WhoIs(u),
                                                     !.user = u, !.used = p]]
    BY <1>3 DEF ReadAccount
  <2>2. WhoIs(u) \in Who /\ Agrees(WhoIs(u), users)
    BY <1>a DEF WhoIs, Who, Account, Agrees, IInv, Typed
  <2> DEFINE q == [NoReq EXCEPT !.pc = "open", !.by = WhoIs(u), !.user = u, !.used = p]
  <2>a. u \in 0..MaxUsers
    BY <1>a DEF IInv, Typed
  <2>3. q \in Request /\ q.pc = "open" /\ q.by = WhoIs(u) /\ q.user = u
    BY <2>2, <2>a, <1>b DEF Request
  <2>4. req' = [req EXCEPT ![t] = q]
    BY <2>1
  <2> HIDE DEF q
  <2>5. UNCHANGED <<users, sessions>>
    BY <1>3 DEF ReadAccount
  <2> QED
    BY <2>2, <2>3, <2>4, <2>5, <1>c, OnlySessions
<1>4. ASSUME NEW t \in Threads, OpenSession(t) PROVE IInv'
  <2>1. [who |-> req[t].by, used |-> req[t].used, age |-> 0] \in Session
    BY <1>c DEF Session, Request
  <2>2. req' \in [Threads -> Request]
    BY <1>4, <1>b, <1>c DEF OpenSession
  <2> QED
    BY <1>4, <2>1, <2>2, <1>b, <1>c, OnlySessions DEF OpenSession, OpenAs
<1>5. ASSUME NEW t \in Threads, NEW s \in Slots, NEW n \in Names, CheckName(t, s, n)
      PROVE  IInv'
  <2>1. s \in DOMAIN sessions /\ sessions[s].who.role \in {"owner", "manager"}
    BY <1>5 DEF CheckName, Admin, Live
  <2> DEFINE q == [NoReq EXCEPT !.pc = "insert", !.by = sessions[s].who, !.name = n]
  <2>2. sessions[s].who \in Who
    BY <2>1, <1>c DEF Session
  <2>3. q \in Request /\ q.pc = "insert" /\ q.by = sessions[s].who /\ q.name = n /\ q.user = 0
    BY <2>2, <1>b DEF Request
  <2>4. req' = [req EXCEPT ![t] = q] /\ UNCHANGED <<users, sessions>>
    BY <1>5 DEF CheckName
  <2> HIDE DEF q
  <2> QED
    BY <2>1, <2>3, <2>4, <1>c, OnlySessions
<1>6. ASSUME NEW t \in Threads, NEW p \in Passwords, NEW role \in Roles,
             NEW branch \in Branches \union {Nil}, NEW uid \in Uids,
             InsertUser(t, p, role, branch, uid)
      PROVE  IInv'
  <2> DEFINE row == [name |-> req[t].name, password |-> p, role |-> role, branch |-> branch,
                     uid |-> uid, active |-> TRUE, maker |-> req[t].by]
  <2>1. row \in Account
    BY <1>6, <1>c DEF InsertUser, Account, Request, IInv, Typed
  <2> HIDE DEF row
  <2>2. /\ users' = Append(users, row) /\ Len(users) < MaxUsers
        /\ req' = [req EXCEPT ![t] = NoReq] /\ sessions' = sessions
    BY <1>6 DEF InsertUser, row
  <2>3. /\ users' \in Seq(Account) /\ Len(users') = Len(users) + 1
        /\ \A u \in Ids : users'[u] = users[u]
        /\ users'[Len(users) + 1] = row
    BY <2>1, <2>2, <1>a, AppendProperties DEF IInv, Typed
  <2>4. Ids' = Ids \union {Len(users) + 1}
    BY <2>3, <1>a, LenProperties DEF Ids
  <2>5. Kept
    BY <2>3, <2>4 DEF Kept
  <2>6. Typed'
    BY <2>2, <2>3, <1>b, <1>a DEF IInv, Typed
  <2>7. CopiesAgree'
    <3>1. \A who : Agrees(who, users) => Agrees(who, users')
      BY <2>5, AgreesKept
    <3>2. Agrees(users'[Len(users) + 1].maker, users')
      BY <2>3, <3>1, <1>c DEF row
    <3>3. \A u \in Ids' : Agrees(users'[u].maker, users')
      BY <2>3, <2>4, <3>1, <3>2 DEF IInv, CopiesAgree
    <3>4. \A x \in Threads : Agrees(req'[x].by, users')
      BY <2>2, <3>1, <1>b, <1>c
    <3> QED
      BY <2>2, <3>1, <3>3, <3>4, <1>c DEF CopiesAgree
  <2>8. RequestKnows'
    BY <2>2, <2>4, <2>3, <1>b, <1>c, <1>a DEF IInv, RequestKnows, Managed
  <2>9. MakersOutrank'
    <3>1. /\ row.maker.role # "teacher" /\ Agrees(row.maker, users)
          /\ row.maker.role = "manager" => row.role = "teacher" /\ row.branch = row.maker.branch
      BY <1>6, <1>c DEF InsertUser, May, row, IInv, RequestKnows
    <3>2. row.maker.role = "manager" =>
             row.maker.user \in Ids /\ users[row.maker.user].branch = row.maker.branch
      BY <3>1 DEF Agrees, NoWho, Ids
    <3>3. \A u \in Ids : users[u].maker.role = "manager" => users[u].maker.user \in Ids
      BY DEF IInv, CopiesAgree, Agrees, NoWho, Ids
    <3> QED
      BY <2>3, <2>4, <3>1, <3>2, <3>3 DEF IInv, MakersOutrank
  <2> QED
    BY <2>6, <2>7, <2>8, <2>9 DEF IInv
<1>7. ASSUME NEW t \in Threads, InsertRefused(t) PROVE IInv'
  <2>1. req' \in [Threads -> Request]
    BY <1>7, <1>b, <1>c DEF InsertRefused
  <2> QED
    BY <1>7, <2>1, <1>b, <1>c, OnlySessions DEF InsertRefused
<1>8. ASSUME NEW t \in Threads, NEW s \in Slots, NEW u \in Ids, FindAccount(t, s, u)
      PROVE  IInv'
  <2>1. s \in DOMAIN sessions /\ sessions[s].who.role \in {"owner", "manager"}
    BY <1>8 DEF FindAccount, Admin, Live
  <2> DEFINE q == [NoReq EXCEPT !.pc = "write", !.by = sessions[s].who, !.user = u]
  <2>2. sessions[s].who \in Who /\ u \in 0..MaxUsers
    BY <2>1, <1>a, <1>c DEF Session, IInv, Typed
  <2>3. q \in Request /\ q.pc = "write" /\ q.by = sessions[s].who /\ q.user = u
    BY <2>2, <1>b DEF Request
  <2>4. /\ req' = [req EXCEPT ![t] = q] /\ UNCHANGED <<users, sessions>>
        /\ Managed(sessions[s].who, u)
    BY <1>8 DEF FindAccount
  <2> HIDE DEF q
  <2> QED
    BY <2>1, <2>3, <2>4, <1>c, OnlySessions
<1>9. ASSUME NEW t \in Threads,
             (\E active \in BOOLEAN : SetActive(t, active)) \/ (\E p \in Passwords : SetPassword(t, p))
      PROVE  IInv'
  <2> DEFINE u == req[t].user
  <2>1. u \in Ids
    BY <1>9 DEF SetActive, SetPassword, IInv, RequestKnows
  <2>2. PICK row : /\ row \in Account /\ row.role = users[u].role
                   /\ row.branch = users[u].branch /\ row.uid = users[u].uid
                   /\ row.maker = users[u].maker
                   /\ users' = [users EXCEPT ![u] = row]
    <3>1. PICK row : /\ \/ \E active \in BOOLEAN : row = [users[u] EXCEPT !.active = active]
                        \/ \E p \in Passwords : row = [users[u] EXCEPT !.password = p]
                     /\ users' = [users EXCEPT ![u] = row]
      <4>1. ASSUME NEW active \in BOOLEAN, SetActive(t, active)
            PROVE  users' = [users EXCEPT ![u] = [users[u] EXCEPT !.active = active]]
        BY <4>1 DEF SetActive
      <4>2. ASSUME NEW p \in Passwords, SetPassword(t, p)
            PROVE  users' = [users EXCEPT ![u] = [users[u] EXCEPT !.password = p]]
        BY <4>2 DEF SetPassword
      <4> QED
        BY <1>9, <4>1, <4>2, Zenon
    <3>2. users[u] \in Account
      BY <2>1, <1>a
    <3> QED
      BY <3>1, <3>2, AccountChanged, Zenon
  <2>3. /\ users' \in Seq(Account) /\ Len(users') = Len(users)
        /\ \A x \in Ids : users'[x] = IF x = u THEN row ELSE users[x]
    BY <2>1, <2>2, <1>a, ExceptSeq DEF IInv, Typed
  <2>4. Ids' = Ids
    BY <2>3, <1>a, LenProperties DEF Ids
  <2>5. Kept
    BY <2>2, <2>3, <2>4 DEF Kept
  <2>6. req' = [req EXCEPT ![t] = NoReq] /\ sessions' = sessions
    BY <1>9 DEF SetActive, SetPassword
  <2>7. Typed'
    BY <2>3, <2>6, <1>b DEF IInv, Typed
  <2>8. CopiesAgree'
    <3>1. \A who : Agrees(who, users) => Agrees(who, users')
      BY <2>5, AgreesKept
    <3>2. \A x \in Ids' : Agrees(users'[x].maker, users')
      BY <2>4, <2>5, <3>1 DEF IInv, CopiesAgree, Kept
    <3>3. \A x \in Threads : Agrees(req'[x].by, users')
      BY <2>6, <3>1, <1>b, <1>c
    <3> QED
      BY <2>6, <3>1, <3>2, <3>3, <1>c DEF CopiesAgree
  <2>9. RequestKnows'
    BY <2>4, <2>5, <2>6, <1>b, <1>c DEF IInv, RequestKnows, Managed, Kept
  <2>10. MakersOutrank'
    <3>1. \A x \in Ids : users[x].maker.role = "manager" => users[x].maker.user \in Ids
      BY DEF IInv, CopiesAgree, Agrees, NoWho, Ids
    <3> QED
      BY <2>4, <2>5, <3>1 DEF IInv, MakersOutrank, Kept
  <2> QED
    BY <2>7, <2>8, <2>9, <2>10 DEF IInv
<1>10. CASE Tick
  <2>1. \A s \in DOMAIN sessions : sessions'[s] \in Session /\ sessions'[s].who = sessions[s].who
    BY <1>10, <1>c DEF Tick, Session, Live
  <2> QED
    BY <1>10, <2>1, <1>c, OnlySessions DEF Tick
<1>11. CASE Restart
  BY <1>11, <1>b, <1>c, OnlySessions DEF Restart
<1>12. CASE UNCHANGED vars
  BY <1>12, <1>c, OnlySessions DEF vars
<1> QED
  BY <1>1, <1>2, <1>3, <1>4, <1>5, <1>6, <1>7, <1>8, <1>9, <1>10, <1>11, <1>12 DEF Next

(* So it holds always.                                                     *)
LEMMA InvAlways == Spec => []IInv
  BY InitInv, NextInv, PTL DEF Spec

-----------------------------------------------------------------------------
(* Every account, session and request keeps its type.                      *)
THEOREM TypeCorrect == Spec => []TypeOK
<1>1. IInv => TypeOK
  <2> SUFFICES ASSUME IInv PROVE TypeOK
    OBVIOUS
  <2>1. \A s \in DOMAIN sessions :
           sessions[s].who.user \in Ids \union {0} /\ sessions[s].age \in 0..(TTL + 1)
    BY DEF IInv, Typed, CopiesAgree, Agrees, NoWho, Session, Ids
  <2> QED
    BY <2>1 DEF IInv, Typed, RequestKnows, TypeOK, Request
<1> QED
  BY <1>1, InvAlways, PTL

(* The role, branch and uid that a session, a request or a maker goes by   *)
(* are those of the account's row, although they were copied at the login: *)
(* no handler changes them, and no account is ever deleted.                *)
THEOREM CopiesAgreeAlways == Spec => []CopiesAgree
<1>1. IInv => CopiesAgree
  BY DEF IInv
<1> QED
  BY <1>1, InvAlways, PTL

(* Managers' accounts are teachers of the manager's branch, as it is in    *)
(* the manager's row, and no teacher ever made one.                        *)
THEOREM NobodyOutranksMaker == Spec => []MakersOutrank
<1>1. IInv => MakersOutrank
  BY DEF IInv
<1> QED
  BY <1>1, InvAlways, PTL

(* An account is changed by rightful requests only, though their rights    *)
(* were looked up two transactions before.                                 *)
THEOREM ChangesAreRightful == Spec => ChangedByRightful
<1> DEFINE Rightful(u) ==
      \E t \in Threads :
              /\ req[t].pc = "write" /\ req[t].user = u
              /\ \/ req[t].by.role = "owner"
                 \/ /\ users[req[t].by.user].role = "manager"
                    /\ users[req[t].by.user].branch = users[u].branch
                    /\ users[u].role = "teacher"
<1>1. IInv /\ [Next]_vars => [\A u \in Ids : users'[u] # users[u] => Rightful(u)]_vars
  <2> SUFFICES ASSUME IInv, Next, NEW u \in Ids, users'[u] # users[u]
               PROVE  Rightful(u)
    OBVIOUS
  <2>1. users' # users
    OBVIOUS
  <2>2. PICK t \in Threads :
          \/ \E p \in Passwords, role \in Roles, branch \in Branches \union {Nil},
                uid \in Uids : InsertUser(t, p, role, branch, uid)
          \/ \E active \in BOOLEAN : SetActive(t, active)
          \/ \E p \in Passwords : SetPassword(t, p)
    BY <2>1 DEF Next, vars, Browse, Expire, Logout, Bootstrap, ReadAccount, OpenSession, CheckName,
                InsertRefused, FindAccount, Tick, Restart
  <2>3. ~\E p \in Passwords, role \in Roles, branch \in Branches \union {Nil},
            uid \in Uids : InsertUser(t, p, role, branch, uid)
    <3> SUFFICES ASSUME NEW p \in Passwords, NEW role \in Roles,
                        NEW branch \in Branches \union {Nil}, NEW uid \in Uids,
                        InsertUser(t, p, role, branch, uid)
                 PROVE  FALSE
      OBVIOUS
    <3> DEFINE row == [name |-> req[t].name, password |-> p, role |-> role, branch |-> branch,
                       uid |-> uid, active |-> TRUE, maker |-> req[t].by]
    <3>1. row \in Account
      BY DEF InsertUser, Account, Request, IInv, Typed
    <3>2. users' = Append(users, row)
      BY DEF InsertUser
    <3>3. Ids = 1..Len(users)
      BY Rows DEF IInv
    <3> HIDE DEF row
    <3> QED
      BY <3>1, <3>2, <3>3, AppendProperties DEF IInv, Typed
  <2>4. req[t].pc = "write" /\ req[t].user = u
    <3>1. ASSUME NEW active \in BOOLEAN, SetActive(t, active)
          PROVE  \E row : users' = [users EXCEPT ![req[t].user] = row]
      BY <3>1 DEF SetActive
    <3>2. ASSUME NEW p \in Passwords, SetPassword(t, p)
          PROVE  \E row : users' = [users EXCEPT ![req[t].user] = row]
      BY <3>2 DEF SetPassword
    <3>3. PICK row : users' = [users EXCEPT ![req[t].user] = row]
      BY <2>2, <2>3, <3>1, <3>2
    <3>4. req[t].pc = "write"
      BY <2>2, <2>3 DEF SetActive, SetPassword
    <3> QED
      BY <3>3, <3>4 DEF Ids
  <2>5. Managed(req[t].by, u) /\ req[t].by.role # "teacher" /\ Agrees(req[t].by, users)
    BY <2>4 DEF IInv, RequestKnows, CopiesAgree
  <2>6. req[t].by.role \in Roles
    BY DEF IInv, Typed, Request, Who
  <2> QED
    BY <2>4, <2>5, <2>6 DEF Managed, Agrees, NoWho, Roles
<1> QED
  BY <1>1, InvAlways, PTL DEF Spec, ChangedByRightful
=============================================================================
