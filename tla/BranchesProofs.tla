---------------------------- MODULE BranchesProofs ----------------------------
(***************************************************************************)
(* Proofs about Branches, for any number of branches, courses, teachers    *)
(* and accounts, whatever ClassIn lists.                                   *)
(***************************************************************************)
EXTENDS Branches, TLAPS

Course == [branch : Branch, teacher : Teachers \union {Nil}]
Sync ==
    [pc : {"idle", "client", "list", "tag"}, branch : Branch, account : Ids \union {School},
     left : SUBSET Courses, course : Courses \union {Nil}]

(* What TypeOK leaves open.                                                *)
Typed ==
    /\ lastId \in 0..MaxBranches
    /\ DOMAIN branches \subseteq 1..lastId
    /\ courses \in [DOMAIN courses -> Course] /\ DOMAIN courses \subseteq Courses
    /\ teachers \in [DOMAIN teachers -> Branch] /\ DOMAIN teachers \subseteq Teachers
    /\ homes \subseteq Branch
    /\ taught \subseteq (Courses \union {Nil}) \X (Teachers \union {Nil})
    /\ DOMAIN form \subseteq Courses \union Teachers
    /\ filter \in Branch
    /\ sync \in Sync
    /\ stale \subseteq Courses \union Teachers \union Ids
    /\ DOMAIN pulled \subseteq DOMAIN courses

Given == 1..lastId \union {Nil}

(* Whatever is taken for a branch id was given out as one: in the tables,  *)
(* on a page, in a session and in a running sync.                          *)
IdsAreGiven ==
    /\ \A c \in DOMAIN courses : courses[c].branch \in Given
    /\ \A t \in DOMAIN teachers : teachers[t] \in Given
    /\ homes \subseteq Given
    /\ \A x \in DOMAIN form : form[x] \in Given
    /\ filter \in Given
    /\ sync.branch \in Given

(* A sync tags with the branch whose account it lists, or lists the        *)
(* school's; it tags a course that has a row.                              *)
SyncFits ==
    /\ sync.pc \in {"list", "tag"} => sync.account \in {School, sync.branch}
    /\ sync.pc = "tag" => sync.course \in DOMAIN courses

(* The inductive invariant.                                                *)
IInv == Typed /\ IdsAreGiven /\ SyncFits /\ DanglingIsStale /\ PulledIsTagged

-----------------------------------------------------------------------------
(* A changed row has the other field as it was.                            *)
LEMMA RowChanged ==
  ASSUME NEW r \in Course, NEW q
  PROVE  /\ \A b \in Branch : q = [r EXCEPT !.branch = b] =>
               q \in Course /\ q.branch = b /\ q.teacher = r.teacher
         /\ \A t \in Teachers : q = [r EXCEPT !.teacher = t] =>
               q \in Course /\ q.branch = r.branch /\ q.teacher = t
  BY DEF Course

(* A row that arrives leaves the branch as it was: a new course has none.  *)
LEMMA RowArrives ==
  ASSUME Typed, NEW c \in Courses, NEW t \in Teachers \union {Nil}
  PROVE  /\ CourseRow(c, t) \in Course
         /\ CourseRow(c, t).branch = IF c \in DOMAIN courses THEN courses[c].branch ELSE Nil
<1> DEFINE new == [branch |-> Nil, teacher |-> t]
<1>1. new \in Course /\ new.branch = Nil
  BY DEF Course, Branch
<1> HIDE DEF new
<1>2. c \in DOMAIN courses => courses[c] \in Course
  BY DEF Typed
<1>3. CASE c \notin DOMAIN courses
  <2>1. CourseRow(c, t) = new
    BY <1>3 DEF CourseRow, new
  <2> QED
    BY <1>1, <1>3, <2>1
<1>4. CASE c \in DOMAIN courses /\ t = Nil
  BY <1>2, <1>4 DEF CourseRow
<1>5. CASE c \in DOMAIN courses /\ t # Nil
  <2>1. CourseRow(c, t) = [courses[c] EXCEPT !.teacher = t]
    BY <1>5 DEF CourseRow
  <2> QED
    BY <1>2, <1>5, <2>1, RowChanged
<1> QED
  BY <1>3, <1>4, <1>5

(* Nobody has a branch at first.                                           *)
LEMMA InitInv == Init => IInv
<1>1. NoSync \in Sync /\ NoSync.pc = "idle" /\ NoSync.branch = Nil
  BY DEF NoSync, Sync, Branch
<1>2. \A f : f = <<>> => DOMAIN f = {} /\ f = [x \in {} |-> x]
  OBVIOUS
<1> QED
  BY <1>1, <1>2, BranchAssumption DEF Init, IInv, Typed, IdsAreGiven, SyncFits, DanglingIsStale,
     PulledIsTagged, Branch, Given

(* As long as the branches are as they were, rows that arrive leave the    *)
(* branches of others alone, and pages, sessions and syncs hold given ids, *)
(* all stays well.                                                         *)
LEMMA RowsArrive ==
  ASSUME IInv, UNCHANGED <<branches, lastId, homes, history>>,
         courses' \in [DOMAIN courses' -> Course],
         DOMAIN courses \subseteq DOMAIN courses', DOMAIN courses' \subseteq Courses,
         \A c \in DOMAIN courses' :
            courses'[c].branch = IF c \in DOMAIN courses THEN courses[c].branch ELSE Nil,
         teachers' \in [DOMAIN teachers' -> Branch],
         DOMAIN teachers \subseteq DOMAIN teachers', DOMAIN teachers' \subseteq Teachers,
         \A t \in DOMAIN teachers' :
            teachers'[t] = IF t \in DOMAIN teachers THEN teachers[t] ELSE Nil,
         taught' \subseteq (Courses \union {Nil}) \X (Teachers \union {Nil}),
         DOMAIN form' \subseteq Courses \union Teachers, \A x \in DOMAIN form' : form'[x] \in Given,
         filter' \in Given, sync' \in Sync, sync'.branch \in Given, SyncFits'
  PROVE  IInv'
<1>0. /\ DOMAIN branches \subseteq 1..lastId /\ lastId \in 0..MaxBranches /\ MaxBranches \in Nat
      /\ UNCHANGED <<branches, lastId, homes, stale, pulled>>
  BY BranchAssumption DEF IInv, Typed, history
<1>1. filter' \in Branch
  BY <1>0 DEF Given, Branch, Ids
<1>2. Typed'
  BY <1>0, <1>1 DEF IInv, Typed
<1>3. IdsAreGiven'
  BY <1>0 DEF IInv, IdsAreGiven, Given
<1>4. DanglingIsStale'
  BY <1>0 DEF IInv, DanglingIsStale, Exists
<1>5. PulledIsTagged'
  BY <1>0 DEF IInv, Typed, PulledIsTagged
<1> QED
  BY <1>2, <1>3, <1>4, <1>5 DEF IInv

(* No step breaks it.                                                      *)
LEMMA NextInv == IInv /\ [Next]_vars => IInv'
<1> SUFFICES ASSUME IInv, [Next]_vars PROVE IInv'
  OBVIOUS
<1>a. /\ lastId \in 0..MaxBranches /\ MaxBranches \in Nat
      /\ courses \in [DOMAIN courses -> Course] /\ DOMAIN courses \subseteq Courses
      /\ teachers \in [DOMAIN teachers -> Branch] /\ DOMAIN teachers \subseteq Teachers
      /\ taught \subseteq (Courses \union {Nil}) \X (Teachers \union {Nil})
      /\ sync \in Sync /\ DOMAIN form \subseteq Courses \union Teachers
  BY BranchAssumption DEF IInv, Typed
<1>b. /\ \A x \in DOMAIN form : form[x] \in Given
      /\ filter \in Given /\ sync.branch \in Given
  BY DEF IInv, IdsAreGiven
<1>c. SyncFits
  BY DEF IInv
<1>d. Given \subseteq Branch
  BY <1>a DEF Given, Branch, Ids
<1>1. ASSUME NEW own \in BOOLEAN, AddBranch(own) PROVE IInv'
  <2>1. /\ DOMAIN branches' = DOMAIN branches \union {lastId + 1} /\ lastId' = lastId + 1
        /\ UNCHANGED <<courses, teachers, homes, taught, form, filter, sync, stale, pulled>>
        /\ lastId < MaxBranches
    BY <1>1 DEF AddBranch, NextId, Put, history
  <2>2. Typed'
    BY <2>1, <1>a DEF IInv, Typed
  <2>3. Given \subseteq Given'
    BY <2>1, <1>a DEF Given
  <2>4. IdsAreGiven'
    BY <2>1, <2>3 DEF IInv, IdsAreGiven
  <2>5. SyncFits' /\ PulledIsTagged'
    BY <2>1 DEF IInv, SyncFits, PulledIsTagged
  <2>6. DanglingIsStale'
    BY <2>1 DEF IInv, DanglingIsStale, Exists
  <2> QED
    BY <2>2, <2>4, <2>5, <2>6 DEF IInv
<1>2. ASSUME NEW b \in Ids, GiveCredentials(b) PROVE IInv'
  <2>1. /\ DOMAIN branches' = DOMAIN branches
        /\ UNCHANGED <<lastId, courses, teachers, homes, taught, form, filter, sync, stale, pulled>>
    BY <1>2 DEF GiveCredentials, history
  <2>2. Typed' /\ IdsAreGiven' /\ SyncFits' /\ PulledIsTagged'
    BY <2>1 DEF IInv, Typed, IdsAreGiven, Given, SyncFits, PulledIsTagged
  <2>3. DanglingIsStale'
    BY <2>1 DEF IInv, DanglingIsStale, Exists
  <2> QED
    BY <2>2, <2>3 DEF IInv
<1>3. ASSUME NEW b \in Ids, DeleteBranch(b) PROVE IInv'
  <2>1. /\ DOMAIN branches' = DOMAIN branches \ {b}
        /\ UNCHANGED <<lastId, courses, teachers, homes, taught, form, filter, sync, stale, pulled>>
    BY <1>3 DEF DeleteBranch, Without, history
  <2>2. Typed' /\ IdsAreGiven' /\ SyncFits' /\ PulledIsTagged'
    BY <2>1 DEF IInv, Typed, IdsAreGiven, Given, SyncFits, PulledIsTagged
  <2>3. DanglingIsStale'
    BY <1>3, <2>1 DEF DeleteBranch, InUse, IInv, DanglingIsStale, Exists
  <2> QED
    BY <2>2, <2>3 DEF IInv
<1>4. ASSUME NEW b \in Ids, CreateUser(b) PROVE IInv'
  <2>1. /\ b \in 1..lastId /\ homes' = homes \union {b}
        /\ stale' = IF Exists(b) \/ b \in homes THEN stale ELSE stale \union {b}
        /\ UNCHANGED <<branches, lastId, courses, teachers, taught, form, filter, sync, pulled>>
    BY <1>4 DEF CreateUser
  <2>2. Typed'
    BY <2>1 DEF IInv, Typed, Branch
  <2>3. IdsAreGiven'
    BY <2>1 DEF IInv, IdsAreGiven, Given
  <2>4. SyncFits' /\ PulledIsTagged'
    BY <2>1 DEF IInv, SyncFits, PulledIsTagged
  <2>5. DanglingIsStale'
    BY <2>1 DEF IInv, DanglingIsStale, Exists
  <2> QED
    BY <2>2, <2>3, <2>4, <2>5 DEF IInv
<1>5. ASSUME NEW f \in Forms(DOMAIN courses) \union Forms(DOMAIN teachers), SubmitForm(f)
      PROVE  IInv'
  <2>1. form' = f /\ UNCHANGED <<tables, filter, sync, history>>
    BY <1>5 DEF SubmitForm
  <2>2. DOMAIN f \subseteq Courses \union Teachers /\ \A x \in DOMAIN f : f[x] \in Given
    BY <1>a DEF Forms, Given
  <2>3. SyncFits'
    BY <1>c, <2>1 DEF SyncFits, tables
  <2> QED
    BY <2>1, <2>2, <2>3, <1>a, <1>b, RowsArrive DEF tables
<1>6. ASSUME NEW c \in Courses, AssignCourse(c) PROVE IInv'
  <2>1. /\ c \in DOMAIN form
        /\ courses' = [courses EXCEPT ![c] = [courses[c] EXCEPT !.branch = form[c]]]
        /\ stale' = IF Exists(form[c]) THEN stale \ {c} ELSE stale \union {c}
        /\ pulled' = [x \in DOMAIN pulled \ {c} |-> pulled[x]]
        /\ form' = [x \in DOMAIN form \ {c} |-> form[x]]
        /\ UNCHANGED <<branches, lastId, teachers, homes, taught, filter, sync>>
    BY <1>6 DEF AssignCourse, Mark, Without
  <2>2. form[c] \in Given /\ form[c] \in Branch
    BY <2>1, <1>b, <1>d
  <2>3. PICK row : row = [courses[c] EXCEPT !.branch = form[c]]
    OBVIOUS
  <2>4. courses' = [courses EXCEPT ![c] = row]
    BY <2>1, <2>3
  <2>5. c \in DOMAIN courses => row \in Course /\ row.branch = form[c]
    BY <2>2, <2>3, <1>a, RowChanged
  <2>6. courses' \in [DOMAIN courses -> Course] /\ DOMAIN courses' = DOMAIN courses
    BY <2>4, <2>5, <1>a
  <2>7. \A x \in DOMAIN courses :
           courses'[x].branch = IF x = c THEN form[c] ELSE courses[x].branch
    BY <2>4, <2>5, <1>a
  <2>8. Typed'
    BY <2>1, <2>6 DEF IInv, Typed
  <2>9. IdsAreGiven'
    BY <2>1, <2>2, <2>6, <2>7 DEF IInv, IdsAreGiven, Given
  <2>10. SyncFits' /\ PulledIsTagged'
    BY <2>1, <2>6, <2>7 DEF IInv, Typed, SyncFits, PulledIsTagged
  <2>11. DanglingIsStale'
    <3>1. c \notin DOMAIN teachers /\ c \notin Ids
      BY <1>a, BranchAssumption
    <3>2. \A b \in homes : Exists(b)' \/ b \in stale'
      BY <2>1, <3>1, <1>d, BranchAssumption DEF IInv, IdsAreGiven, DanglingIsStale, Exists, Branch
    <3> QED
      BY <2>1, <2>6, <2>7, <3>1, <3>2 DEF IInv, DanglingIsStale, Exists
  <2> QED
    BY <2>8, <2>9, <2>10, <2>11 DEF IInv
<1>7. ASSUME NEW t \in Teachers, AssignTeacher(t) PROVE IInv'
  <2>1. /\ t \in DOMAIN form
        /\ teachers' = [teachers EXCEPT ![t] = form[t]]
        /\ stale' = IF Exists(form[t]) THEN stale \ {t} ELSE stale \union {t}
        /\ form' = [x \in DOMAIN form \ {t} |-> form[x]]
        /\ UNCHANGED <<branches, lastId, courses, homes, taught, filter, sync, pulled>>
    BY <1>7 DEF AssignTeacher, Mark, Without
  <2>2. form[t] \in Given /\ form[t] \in Branch
    BY <2>1, <1>b, <1>d
  <2>3. Typed'
    BY <2>1, <2>2, <1>a DEF IInv, Typed
  <2>4. IdsAreGiven'
    BY <2>1, <2>2 DEF IInv, IdsAreGiven, Given
  <2>5. SyncFits' /\ PulledIsTagged'
    BY <2>1 DEF IInv, SyncFits, PulledIsTagged
  <2>6. DanglingIsStale'
    <3>1. t \notin DOMAIN courses /\ t \notin Ids
      BY <1>a, BranchAssumption
    <3>2. \A b \in homes : Exists(b)' \/ b \in stale'
      BY <2>1, <3>1, <1>d, BranchAssumption DEF IInv, IdsAreGiven, DanglingIsStale, Exists, Branch
    <3> QED
      BY <2>1, <3>1, <3>2 DEF IInv, DanglingIsStale, Exists
  <2> QED
    BY <2>3, <2>4, <2>5, <2>6 DEF IInv
<1>8. ASSUME NEW b \in Branch, SetFilter(b) PROVE IInv'
  <2>1. filter' \in Given /\ UNCHANGED <<tables, form, sync, history>>
    BY <1>8 DEF SetFilter, Given
  <2>2. SyncFits'
    BY <1>c, <2>1 DEF SyncFits, tables
  <2> QED
    BY <2>1, <2>2, <1>a, <1>b, RowsArrive DEF tables
<1>9. ASSUME NEW c \in Courses \union {Nil}, NEW t \in Teachers \union {Nil}, Attend(c, t)
      PROVE  IInv'
  <2>1. UNCHANGED <<branches, lastId, homes, form, filter, sync, history>>
    BY <1>9 DEF Attend
  <2>2. taught' \subseteq (Courses \union {Nil}) \X (Teachers \union {Nil})
    BY <1>9, <1>a DEF Attend, Written
  <2>3. /\ courses' \in [DOMAIN courses' -> Course]
        /\ DOMAIN courses \subseteq DOMAIN courses' /\ DOMAIN courses' \subseteq Courses
        /\ \A x \in DOMAIN courses' :
              courses'[x].branch = IF x \in DOMAIN courses THEN courses[x].branch ELSE Nil
    <3>1. CASE c = Nil
      BY <3>1, <1>9, <1>a DEF Attend
    <3>2. CASE c # Nil
      <4> DEFINE row == CourseRow(c, Nil)
      <4>1. /\ c \in Courses /\ row \in Course
            /\ row.branch = IF c \in DOMAIN courses THEN courses[c].branch ELSE Nil
        BY <3>2, RowArrives DEF IInv
      <4>2. courses' = [z \in DOMAIN courses \union {c} |-> IF z = c THEN row ELSE courses[z]]
        BY <3>2, <1>9 DEF Attend, Put
      <4> HIDE DEF row
      <4> QED
        BY <4>1, <4>2, <1>a
    <3> QED
      BY <3>1, <3>2
  <2>4. /\ teachers' \in [DOMAIN teachers' -> Branch]
        /\ DOMAIN teachers \subseteq DOMAIN teachers' /\ DOMAIN teachers' \subseteq Teachers
        /\ \A x \in DOMAIN teachers' :
              teachers'[x] = IF x \in DOMAIN teachers THEN teachers[x] ELSE Nil
    BY <1>9, <1>a DEF Attend, Put, TeacherRow, Branch
  <2>5. SyncFits'
    BY <1>c, <2>1, <2>3 DEF SyncFits
  <2> QED
    BY <2>1, <2>2, <2>3, <2>4, <2>5, <1>a, <1>b, RowsArrive
<1>10. ASSUME NEW c \in Courses \union {Nil}, Patch(c) PROVE IInv'
  <2>1. UNCHANGED <<branches, lastId, homes, form, filter, sync, history, courses, teachers>>
    BY <1>10 DEF Patch
  <2>2. taught' \subseteq (Courses \union {Nil}) \X (Teachers \union {Nil})
    <3>1. PICK t \in { old[2] : old \in taught } \union {Nil} :
             taught' \in Written({ old \in taught : old[2] = t }, <<c, t>>)
      BY <1>10 DEF Patch
    <3>2. t \in Teachers \union {Nil}
      BY <3>1, <1>a
    <3>3. <<c, t>> \in (Courses \union {Nil}) \X (Teachers \union {Nil})
      BY <3>2
    <3> QED
      BY <3>1, <3>3, <1>a DEF Written
  <2>3. SyncFits'
    BY <1>c, <2>1 DEF SyncFits
  <2> QED
    BY <2>1, <2>2, <2>3, <1>a, <1>b, RowsArrive
<1>e. NoSync \in Sync /\ NoSync.pc = "idle" /\ NoSync.branch = Nil /\ Nil \in Given
  BY DEF NoSync, Sync, Branch, Given
<1>11. CASE StartSync
  <2>1. UNCHANGED <<tables, form, filter, history>>
    BY <1>11 DEF StartSync
  <2>2. sync' \in Sync /\ sync'.pc = "client" /\ sync'.branch = filter
    BY <1>11, <1>b, <1>d, <1>e DEF StartSync, Sync
  <2>3. SyncFits'
    BY <2>2 DEF SyncFits
  <2> QED
    BY <2>1, <2>2, <2>3, <1>a, <1>b, RowsArrive DEF tables
<1>12. CASE ChooseAccount
  <2>1. UNCHANGED <<tables, form, filter, history>>
    BY <1>12 DEF ChooseAccount
  <2> DEFINE a == IF sync.branch \in DOMAIN branches /\ branches[sync.branch]
                  THEN sync.branch ELSE School
  <2>2. a \in Ids \union {School} /\ a \in {School, sync.branch}
    <3>1. DOMAIN branches \subseteq Ids
      BY <1>a DEF IInv, Typed, Ids
    <3> QED
      BY <3>1
  <2>3. sync' = [sync EXCEPT !.pc = "list", !.account = a, !.left = Hosted[a]]
    BY <1>12 DEF ChooseAccount
  <2> HIDE DEF a
  <2>4. Hosted[a] \in SUBSET Courses
    BY <2>2, BranchAssumption
  <2>5. sync' \in Sync /\ sync'.pc = "list" /\ sync'.account = a /\ sync'.branch = sync.branch
    BY <2>2, <2>3, <2>4, <1>a DEF Sync
  <2>6. SyncFits'
    BY <2>2, <2>5 DEF SyncFits
  <2> QED
    BY <2>1, <2>5, <2>6, <1>a, <1>b, RowsArrive DEF tables
<1>13. ASSUME NEW c \in Courses, SyncCourse(c) PROVE IInv'
  <2>1. UNCHANGED <<branches, lastId, teachers, homes, taught, form, filter, history>>
    BY <1>13 DEF SyncCourse
  <2> DEFINE row == CourseRow(c, Main[c])
             p == IF sync.branch = Nil THEN "list" ELSE "tag"
             l == sync.left \ {c}
  <2>2. /\ row \in Course
        /\ row.branch = IF c \in DOMAIN courses THEN courses[c].branch ELSE Nil
    BY RowArrives, BranchAssumption DEF IInv
  <2>3. courses' = [z \in DOMAIN courses \union {c} |-> IF z = c THEN row ELSE courses[z]]
    BY <1>13 DEF SyncCourse, Put
  <2>4. sync' = [sync EXCEPT !.pc = p, !.left = l, !.course = c] /\ sync.pc = "list"
    BY <1>13 DEF SyncCourse
  <2>5. p \in {"list", "tag"} /\ l \in SUBSET Courses
    BY <1>a DEF Sync
  <2> HIDE DEF row, p, l
  <2>6. /\ courses' \in [DOMAIN courses' -> Course] /\ c \in DOMAIN courses'
        /\ DOMAIN courses \subseteq DOMAIN courses' /\ DOMAIN courses' \subseteq Courses
        /\ \A x \in DOMAIN courses' :
              courses'[x].branch = IF x \in DOMAIN courses THEN courses[x].branch ELSE Nil
    BY <2>2, <2>3, <1>a
  <2>7. /\ sync' \in Sync /\ sync'.pc = p /\ sync'.account = sync.account
        /\ sync'.branch = sync.branch /\ sync'.course = c
    BY <2>4, <2>5, <1>a DEF Sync
  <2>8. SyncFits'
    BY <2>4, <2>6, <2>7, <1>c DEF SyncFits
  <2> QED
    BY <2>1, <2>6, <2>7, <2>8, <1>a, <1>b, RowsArrive
<1>14. CASE TagCourse
  <2> DEFINE c == sync.course
             b == sync.branch
  <2>1. /\ courses' = [courses EXCEPT ![c] = [courses[c] EXCEPT !.branch = b]]
        /\ stale' = IF Exists(b) THEN stale \ {c} ELSE stale \union {c}
        /\ pulled' = [z \in DOMAIN pulled \union {c} |-> IF z = c THEN sync.account ELSE pulled[z]]
        /\ sync' = [sync EXCEPT !.pc = "list"]
        /\ UNCHANGED <<branches, lastId, teachers, homes, taught, form, filter>>
        /\ sync.pc = "tag"
    BY <1>14 DEF TagCourse, Mark, Put
  <2>2. /\ c \in DOMAIN courses /\ c \in Courses /\ courses[c] \in Course
        /\ b \in Given /\ b \in Branch /\ sync.account \in {School, b}
    BY <2>1, <1>a, <1>b, <1>c, <1>d DEF SyncFits
  <2>3. /\ sync' \in Sync /\ sync'.pc = "list" /\ sync'.account = sync.account
        /\ sync'.branch = b
    BY <2>1, <1>a DEF Sync
  <2>4. PICK row : row = [courses[c] EXCEPT !.branch = b] /\ courses' = [courses EXCEPT ![c] = row]
    BY <2>1
  <2> HIDE DEF c, b
  <2>5. row \in Course /\ row.branch = b
    BY <2>2, <2>4, RowChanged
  <2>6. /\ courses' \in [DOMAIN courses -> Course] /\ DOMAIN courses' = DOMAIN courses
        /\ \A x \in DOMAIN courses : courses'[x].branch = IF x = c THEN b ELSE courses[x].branch
    BY <2>2, <2>4, <2>5, <1>a
  <2>7. Typed'
    BY <2>1, <2>2, <2>3, <2>6 DEF IInv, Typed
  <2>8. IdsAreGiven'
    BY <2>1, <2>2, <2>3, <2>6 DEF IInv, IdsAreGiven, Given
  <2>9. SyncFits'
    BY <2>2, <2>3 DEF SyncFits
  <2>10. PulledIsTagged'
    BY <2>1, <2>2, <2>6 DEF IInv, Typed, PulledIsTagged
  <2>11. DanglingIsStale'
    <3>1. c \notin DOMAIN teachers /\ c \notin Ids
      BY <2>2, <1>a, BranchAssumption
    <3>2. \A x \in homes : Exists(x)' \/ x \in stale'
      BY <2>1, <2>2, <3>1, <1>d, BranchAssumption
         DEF IInv, IdsAreGiven, DanglingIsStale, Exists, Branch
    <3> QED
      BY <2>1, <2>6, <3>1, <3>2 DEF IInv, DanglingIsStale, Exists
  <2> QED
    BY <2>7, <2>8, <2>9, <2>10, <2>11 DEF IInv
<1>15. ASSUME NEW t \in Teachers, SyncTeacher(t) PROVE IInv'
  <2>1. UNCHANGED <<branches, lastId, courses, homes, taught, form, filter, sync, history>>
    BY <1>15 DEF SyncTeacher
  <2>2. /\ teachers' \in [DOMAIN teachers' -> Branch]
        /\ DOMAIN teachers \subseteq DOMAIN teachers' /\ DOMAIN teachers' \subseteq Teachers
        /\ \A x \in DOMAIN teachers' :
              teachers'[x] = IF x \in DOMAIN teachers THEN teachers[x] ELSE Nil
    BY <1>15, <1>a DEF SyncTeacher, Put, TeacherRow, Branch
  <2>3. SyncFits'
    BY <1>c, <2>1 DEF SyncFits
  <2> QED
    BY <2>1, <2>2, <2>3, <1>a, <1>b, RowsArrive
<1>16. CASE EndSync \/ Restart
  <2>1. /\ sync' = NoSync /\ UNCHANGED <<tables, history>>
        /\ form' = form \/ form' = <<>>
        /\ filter' = filter \/ filter' = Nil
    BY <1>16 DEF EndSync, Restart
  <2>2. DOMAIN form' \subseteq Courses \union Teachers /\ \A x \in DOMAIN form' : form'[x] \in Given
    BY <2>1, <1>a, <1>b
  <2>3. SyncFits'
    BY <2>1, <1>e DEF SyncFits
  <2> QED
    BY <2>1, <2>2, <2>3, <1>a, <1>b, <1>e, RowsArrive DEF tables
<1>17. CASE UNCHANGED vars
  <2>1. SyncFits'
    BY <1>c, <1>17 DEF SyncFits, vars, tables
  <2> QED
    BY <2>1, <1>17, <1>a, <1>b, RowsArrive DEF vars, tables
<1> QED
  BY <1>1, <1>2, <1>3, <1>4, <1>5, <1>6, <1>7, <1>8, <1>9, <1>10, <1>11, <1>12, <1>13, <1>14,
     <1>15, <1>16, <1>17 DEF Next

(* So it holds always.                                                     *)
LEMMA InvAlways == Spec => []IInv
  BY InitInv, NextInv, PTL DEF Spec

-----------------------------------------------------------------------------
(* Tables, pages, sessions and syncs keep their types.                     *)
THEOREM TypeCorrect == Spec => []TypeOK
<1>1. IInv => TypeOK
  BY DEF IInv, Typed, TypeOK, Course, Sync
<1> QED
  BY <1>1, InvAlways, PTL

(* No deletion pulls a branch from under a row, in any order of the pages' *)
(* and syncs' store calls.                                                 *)
THEOREM DeletionIsSafe == Spec => []DanglingIsStale
<1>1. IInv => DanglingIsStale
  BY DEF IInv
<1> QED
  BY <1>1, InvAlways, PTL

(* A course pulled with a branch's credentials is that branch's.           *)
THEOREM PulledAreTagged == Spec => []PulledIsTagged
<1>1. IInv => PulledIsTagged
  BY DEF IInv
<1> QED
  BY <1>1, InvAlways, PTL

(* What is seen in a list opens: the course of a record is in the scope    *)
(* that the record is in.                                                  *)
THEOREM SeenOpens == Spec => []SeenCoursesOpen
<1>1. IInv => SeenCoursesOpen
  <2> SUFFICES ASSUME IInv, NEW row \in taught, row[1] # Nil, NEW ts, row[2] \in ts
               PROVE  row[1] \in TaughtBy(ts)
    BY DEF SeenCoursesOpen, InScope, CoursesOfBranch, CoursesOfTeacher
  <2>1. row = <<row[1], row[2]>> /\ row[1] \in Courses
    BY DEF IInv, Typed
  <2> QED
    BY <2>1 DEF TaughtBy
<1> QED
  BY <1>1, InvAlways, PTL

(* The id of a new branch has never been in use: no row, page, session or  *)
(* sync that a deleted branch left behind comes to mean the new one.       *)
THEOREM NewIdIsNew == Spec => NewBranchIsEmpty
<1>1. IInv /\ [Next]_vars =>
         [\A b \in DOMAIN branches' \ DOMAIN branches :
             /\ ~InUse(b)
             /\ filter # b
             /\ sync.branch # b
             /\ \A x \in DOMAIN form : form[x] # b]_vars
  <2> SUFFICES ASSUME IInv, Next, NEW b \in DOMAIN branches', b \notin DOMAIN branches
               PROVE  /\ ~InUse(b)
                      /\ filter # b
                      /\ sync.branch # b
                      /\ \A x \in DOMAIN form : form[x] # b
    OBVIOUS
  <2>1. PICK own \in BOOLEAN : AddBranch(own)
    <3>1. ASSUME ~\E own \in BOOLEAN : AddBranch(own) PROVE DOMAIN branches' \subseteq DOMAIN branches
      BY <3>1 DEF Next, GiveCredentials, DeleteBranch, Without, CreateUser, SubmitForm,
         AssignCourse, SyncCourse, Patch, AssignTeacher, SyncTeacher, SetFilter, Attend, StartSync,
         ChooseAccount, TagCourse, EndSync, Restart, tables
    <3>2. DOMAIN branches' \subseteq DOMAIN branches \/ \E own \in BOOLEAN : AddBranch(own)
      BY <3>1
    <3> QED
      BY <3>2
  <2>2. b = lastId + 1 /\ b \in Ids
    <3>1. DOMAIN branches' = DOMAIN branches \union {lastId + 1} /\ lastId < MaxBranches
      BY <2>1 DEF AddBranch, NextId, Put
    <3>2. lastId \in Nat /\ MaxBranches \in Nat
      BY BranchAssumption DEF IInv, Typed
    <3> QED
      BY <3>1, <3>2 DEF Ids
  <2>3. b \notin Given
    BY <2>2, BranchAssumption DEF Given, IInv, Typed
  <2> QED
    BY <2>3 DEF InUse, IInv, IdsAreGiven
<1> QED
  BY <1>1, InvAlways, PTL DEF Spec, NewBranchIsEmpty
=============================================================================
