------------------------------- MODULE Branches -------------------------------
(***************************************************************************)
(* Branches (ADR-0005): the branches table and the branch_id columns that  *)
(* refer to it, the admin page's handlers that write them (routes_admin),  *)
(* the sync that tags courses (routes_dashboard.dashboard_sync and         *)
(* reads.sync_masters), and the scope a page is read under (scope.py and   *)
(* the scope functions of store.py).                                       *)
(*                                                                         *)
(* The bulk assignment handlers run on the event loop, the others and the  *)
(* sync in pool threads.  Every store call is a transaction of its own, so *)
(* the calls of two requests interleave.  A form carries ids from the time *)
(* its page was rendered: any id given out so far.  The handlers take any  *)
(* number; one typed into a request by hand, of no branch yet, is left out. *)
(***************************************************************************)
EXTENDS Naturals

CONSTANTS
    Courses, Teachers,
    School,     \* the ClassIn account of the server's own settings
    Hosted,     \* Hosted[a]: courses that account a lists, a branch id or School
    Main,       \* Main[c]: the teacher ClassIn lists for course c, or Nil
    Nil,
    MaxBranches \* bound: branches ever added

Ids == 1..MaxBranches

ASSUME BranchAssumption ==
    /\ MaxBranches \in Nat
    /\ Hosted \in [Ids \union {School} -> SUBSET Courses]
    /\ Main \in [Courses -> Teachers \union {Nil}]
    /\ Courses \intersect Teachers = {}
    /\ Ids \intersect (Courses \union Teachers) = {}
    /\ Nil \notin Ids \union Courses \union Teachers
    /\ School \notin Ids \union {Nil}

VARIABLES
    branches, \* branches table: id -> whether it has an SID/secret of its own
    lastId,   \* the last id AUTOINCREMENT gave out
    courses,  \* courses table: id -> [branch, teacher]
    teachers, \* teachers table: uid -> branch
    homes,    \* the branch ids of the accounts in the users table
    taught,   \* <<course, teacher>> of the lesson_records, each maybe NULL
    form,     \* what the bulk assignment has left: course or uid -> branch
    filter,   \* the owner's session.branch_filter
    sync,     \* the running sync: [pc, branch, account, left, course]
    stale,    \* history: rows given the id of a branch that did not exist
    pulled    \* history: course -> account whose sync gave it its branch

tables == <<branches, lastId, courses, teachers, homes, taught>>
history == <<stale, pulled>>
vars == <<tables, form, filter, sync, history>>

Branch == Ids \union {Nil}
NoSync == [pc |-> "idle", branch |-> Nil, account |-> School, left |-> {}, course |-> Nil]

TypeOK ==
    /\ DOMAIN branches \subseteq 1..lastId
    /\ lastId \in 0..MaxBranches
    /\ DOMAIN courses \subseteq Courses
    /\ \A c \in DOMAIN courses :
          courses[c] \in [branch : Branch, teacher : Teachers \union {Nil}]
    /\ teachers \in [DOMAIN teachers -> Branch]
    /\ homes \subseteq Branch
    /\ taught \subseteq (Courses \union {Nil}) \X (Teachers \union {Nil})
    /\ DOMAIN form \subseteq Courses \union Teachers
    /\ filter \in Branch
    /\ sync.left \subseteq Courses
    /\ stale \subseteq Courses \union Teachers \union Ids
    /\ DOMAIN pulled \subseteq Courses

Init ==
    /\ branches = <<>>
    /\ lastId = 0
    /\ courses = <<>>
    /\ teachers = <<>>
    /\ homes = {}
    /\ taught = {}
    /\ form = <<>>
    /\ filter = Nil
    /\ sync = NoSync
    /\ stale = {}
    /\ pulled = <<>>

Put(f, x, y) == [z \in DOMAIN f \union {x} |-> IF z = x THEN y ELSE f[z]]
Without(f, x) == [z \in DOMAIN f \ {x} |-> f[z]]
Exists(b) == b = Nil \/ b \in DOMAIN branches

(* A row x is given branch b; only a branch that is gone makes it stale.   *)
Mark(x, b) == stale' = IF Exists(b) THEN stale \ {x} ELSE stale \union {x}

-----------------------------------------------------------------------------
(* The branches and what refers to them.                                   *)

(* Mutant of NextId: ids are not AUTOINCREMENT, the highest is reused.     *)
NextIdReused ==
    CHOOSE n \in Ids :
        /\ \A b \in DOMAIN branches : b < n
        /\ n = 1 \/ n - 1 \in DOMAIN branches

NextId == lastId + 1

(* upsert_branch with a name that is not there yet.                        *)
AddBranch(own) ==
    /\ lastId < MaxBranches
    /\ branches' = Put(branches, NextId, own)
    /\ lastId' = NextId
    /\ UNCHANGED <<courses, teachers, homes, taught, form, filter, sync, history>>

(* Mutant of GiveCredentials: the name need not be there.                  *)
GiveCredentialsAnyway(b) ==
    /\ branches' = Put(branches, b, TRUE)
    /\ UNCHANGED <<lastId, courses, teachers, homes, taught, form, filter, sync, history>>

(* ... and with one that is: COALESCE, so credentials are never taken away. *)
GiveCredentials(b) ==
    /\ b \in DOMAIN branches
    /\ branches' = [branches EXCEPT ![b] = TRUE]
    /\ UNCHANGED <<lastId, courses, teachers, homes, taught, form, filter, sync, history>>

(* Mutant of InUse: the accounts are forgotten.                            *)
InUseNoAccounts(b) ==
    \/ \E c \in DOMAIN courses : courses[c].branch = b
    \/ \E t \in DOMAIN teachers : teachers[t] = b

InUse(b) ==
    \/ \E c \in DOMAIN courses : courses[c].branch = b
    \/ \E t \in DOMAIN teachers : teachers[t] = b
    \/ b \in homes

(* delete_branch: the check and the deletion are one transaction.          *)
DeleteBranch(b) ==
    /\ b \in DOMAIN branches
    /\ ~InUse(b)
    /\ branches' = Without(branches, b)
    /\ UNCHANGED <<lastId, courses, teachers, homes, taught, form, filter, sync, history>>

(* create_user: branch_id is taken from the form as it is.                 *)
CreateUser(b) ==
    /\ b \in 1..lastId
    /\ homes' = homes \union {b}
    /\ stale' = IF Exists(b) \/ b \in homes THEN stale ELSE stale \union {b}
    /\ UNCHANGED <<branches, lastId, courses, teachers, taught, form, filter, sync, pulled>>

(* Bulk assignment of courses or teachers: one field for every row of the  *)
(* page, one store call for every field.                                   *)
SubmitForm(f) ==
    /\ form = <<>>
    /\ form' = f
    /\ UNCHANGED <<tables, filter, sync, history>>

AssignCourse(c) ==
    /\ c \in DOMAIN form \intersect Courses
    /\ courses' = [courses EXCEPT ![c].branch = form[c]]
    /\ Mark(c, form[c])
    /\ pulled' = Without(pulled, c)
    /\ form' = Without(form, c)
    /\ UNCHANGED <<branches, lastId, teachers, homes, taught, filter, sync>>

AssignTeacher(t) ==
    /\ t \in DOMAIN form \intersect Teachers
    /\ teachers' = [teachers EXCEPT ![t] = form[t]]
    /\ Mark(t, form[t])
    /\ form' = Without(form, t)
    /\ UNCHANGED <<branches, lastId, courses, homes, taught, filter, sync, pulled>>

(* set_branch_scope: the owner picks a branch in the top bar, or all.      *)
SetFilter(b) ==
    /\ b \in 1..lastId \union {Nil}
    /\ filter' = b
    /\ UNCHANGED <<tables, form, sync, history>>

-----------------------------------------------------------------------------
(* Rows that arrive.  A known row keeps what the new one leaves out.       *)

CourseRow(c, teacher) ==
    IF c \notin DOMAIN courses THEN [branch |-> Nil, teacher |-> teacher]
    ELSE IF teacher = Nil THEN courses[c]
    ELSE [courses[c] EXCEPT !.teacher = teacher]

TeacherRow(t) == IF t \in DOMAIN teachers THEN teachers[t] ELSE Nil

(* A lesson record is written, a new row or over one of the rows olds: the *)
(* pairs there may be then.  Other rows may hold the pair of the old one.  *)
Written(olds, new) ==
    { taught \union {new} } \union { (taught \ {old}) \union {new} : old \in olds }

(* An Attendance event (call by call in LessonRecords): its course, its    *)
(* teacher and a student's lesson record, of which it writes both columns. *)
Attend(c, t) ==
    /\ c # Nil \/ t # Nil
    /\ courses' = IF c = Nil THEN courses ELSE Put(courses, c, CourseRow(c, Nil))
    /\ teachers' = IF t = Nil THEN teachers ELSE Put(teachers, t, TeacherRow(t))
    /\ taught' \in Written(taught, <<c, t>>)
    /\ UNCHANGED <<branches, lastId, homes, form, filter, sync, history>>

(* An End or homework event: a record of a course that may have no row, or *)
(* over the course of a record, NULL if the event has none.  Rows without  *)
(* course and teacher are in no scope, here and in Attend.                 *)
Patch(c) ==
    /\ \E t \in { old[2] : old \in taught } \union {Nil} :
          /\ c # Nil \/ t # Nil
          /\ taught' \in Written({ old \in taught : old[2] = t }, <<c, t>>)
    /\ UNCHANGED <<branches, lastId, courses, teachers, homes, form, filter, sync, history>>

-----------------------------------------------------------------------------
(* The sync.                                                               *)

(* dashboard_sync reads the session's filter, once.                        *)
StartSync ==
    /\ sync.pc = "idle"
    /\ sync' = [NoSync EXCEPT !.pc = "client", !.branch = filter]
    /\ UNCHANGED <<tables, form, filter, history>>

(* client_for: the credentials of the branch, if it is there and has some. *)
ChooseAccount ==
    /\ sync.pc = "client"
    /\ sync' =
          LET account == IF sync.branch \in DOMAIN branches /\ branches[sync.branch]
                         THEN sync.branch ELSE School
          IN  [sync EXCEPT !.pc = "list", !.account = account, !.left = Hosted[account]]
    /\ UNCHANGED <<tables, form, filter, history>>

SyncCourse(c) ==
    /\ sync.pc = "list"
    /\ c \in sync.left
    /\ courses' = Put(courses, c, CourseRow(c, Main[c]))
    /\ sync' = [sync EXCEPT !.pc = IF sync.branch = Nil THEN "list" ELSE "tag",
                            !.left = @ \ {c}, !.course = c]
    /\ UNCHANGED <<branches, lastId, teachers, homes, taught, form, filter, history>>

(* Mutant of TagCourse: the session's filter is looked up for each course. *)
TagCourseNow ==
    /\ sync.pc = "tag"
    /\ courses' = [courses EXCEPT ![sync.course].branch = filter]
    /\ Mark(sync.course, filter)
    /\ pulled' = Put(pulled, sync.course, sync.account)
    /\ sync' = [sync EXCEPT !.pc = "list"]
    /\ UNCHANGED <<branches, lastId, teachers, homes, taught, form, filter>>

TagCourse ==
    /\ sync.pc = "tag"
    /\ courses' = [courses EXCEPT ![sync.course].branch = sync.branch]
    /\ Mark(sync.course, sync.branch)
    /\ pulled' = Put(pulled, sync.course, sync.account)
    /\ sync' = [sync EXCEPT !.pc = "list"]
    /\ UNCHANGED <<branches, lastId, teachers, homes, taught, form, filter>>

(* The teacher list comes after the courses, or instead, if they are refused. *)
SyncTeacher(t) ==
    /\ sync.pc = "list"
    /\ teachers' = Put(teachers, t, TeacherRow(t))
    /\ UNCHANGED <<branches, lastId, courses, homes, taught, form, filter, sync, history>>

(* The list is through, was refused, or an error ended the request.        *)
EndSync ==
    /\ sync.pc # "idle"
    /\ sync' = NoSync
    /\ UNCHANGED <<tables, form, filter, history>>

(* The process dies and is started again: tables stay, sessions do not.    *)
Restart ==
    /\ form' = <<>>
    /\ filter' = Nil
    /\ sync' = NoSync
    /\ UNCHANGED <<tables, history>>

-----------------------------------------------------------------------------
Forms(rows) == [rows -> 1..lastId \union {Nil}]

Next ==
    \/ \E own \in BOOLEAN : AddBranch(own)
    \/ \E b \in Ids : GiveCredentials(b) \/ DeleteBranch(b) \/ CreateUser(b)
    \/ \E f \in Forms(DOMAIN courses) \union Forms(DOMAIN teachers) : SubmitForm(f)
    \/ \E c \in Courses : AssignCourse(c) \/ SyncCourse(c)
    \/ \E c \in Courses \union {Nil} : Patch(c)
    \/ \E t \in Teachers : AssignTeacher(t) \/ SyncTeacher(t)
    \/ \E b \in Branch : SetFilter(b)
    \/ \E c \in Courses \union {Nil}, t \in Teachers \union {Nil} : Attend(c, t)
    \/ StartSync
    \/ ChooseAccount
    \/ TagCourse
    \/ EndSync
    \/ Restart

Spec == Init /\ [][Next]_vars

-----------------------------------------------------------------------------
(* Scopes: [branch] or [teacher]; the scope of everything is not one.      *)

TeachersOf(b) == { t \in DOMAIN teachers : teachers[t] = b /\ b # Nil }

(* Mutant of TaughtBy: only the teacher of the course's row counts.        *)
TaughtByNobody(uids) == {}

TaughtBy(uids) == { c \in Courses : \E t \in uids : <<c, t>> \in taught }

LedBy(uids) == { c \in DOMAIN courses : courses[c].teacher \in uids }

(* course_ids_in_scope of a branch and of a teacher.                       *)
CoursesOfBranch(b) ==
    { c \in DOMAIN courses : courses[c].branch = b /\ b # Nil }
        \union LedBy(TeachersOf(b)) \union TaughtBy(TeachersOf(b))
CoursesOfTeacher(t) == LedBy({t}) \union TaughtBy({t})

(* _row_in_scope, for the lesson records.                                  *)
InScope(row, cs, ts) == row[1] \in cs \/ row[2] \in ts

-----------------------------------------------------------------------------
(* Properties.                                                             *)

(* A row names a branch that is gone only if it was given that id when the *)
(* branch was gone already, by a page or a sync begun earlier: no deletion *)
(* pulls a branch from under a course, a teacher or an account.            *)
DanglingIsStale ==
    /\ \A c \in DOMAIN courses : Exists(courses[c].branch) \/ c \in stale
    /\ \A t \in DOMAIN teachers : Exists(teachers[t]) \/ t \in stale
    /\ \A b \in homes : Exists(b) \/ b \in stale

(* A new branch is nobody's yet: no course, teacher, account or filter, no *)
(* page and no sync still under way, that was left over from a deleted     *)
(* branch comes to mean the new one.                                       *)
NewBranchIsEmpty ==
    [][\A b \in DOMAIN branches' \ DOMAIN branches :
          /\ ~InUse(b)
          /\ filter # b
          /\ sync.branch # b
          /\ \A x \in DOMAIN form : form[x] # b]_vars

(* A course pulled from ClassIn with a branch's credentials belongs to     *)
(* that branch, until it is assigned elsewhere by hand or pulled again:    *)
(* the owner's switching the filter meanwhile sends it nowhere else.       *)
PulledIsTagged ==
    \A c \in DOMAIN pulled : pulled[c] # School => courses[c].branch = pulled[c]

(* A lesson record a manager or teacher sees is of a course they see, so   *)
(* the course it links to opens (course_detail), although the record may   *)
(* be seen for its teacher alone.                                          *)
SeenCoursesOpen ==
    \A row \in taught : row[1] # Nil =>
        /\ \A b \in Ids :
              InScope(row, CoursesOfBranch(b), TeachersOf(b)) => row[1] \in CoursesOfBranch(b)
        /\ \A t \in Teachers :
              InScope(row, CoursesOfTeacher(t), {t}) => row[1] \in CoursesOfTeacher(t)

=============================================================================
