---------------------------- MODULE CourseCreation ----------------------------
(***************************************************************************)
(* POST /create/execute: web/routes_create.py creates at ClassIn what an   *)
(* approved plan lists, call by call, and records the ids that come back.  *)
(*                                                                         *)
(* ClassIn (external) may refuse any call (ClassInError, which the handler *)
(* reports and passes over).  client.py makes the same error of an HTTP    *)
(* status of 400 and more and of a reply that is no JSON, so a call that   *)
(* was refused may have taken effect all the same.  A timeout or a broken  *)
(* connection is no ClassInError: it ends the request wherever it is,      *)
(* after the call took effect or before, and so does the end of the        *)
(* process (Abort).  The user may then submit the same preview again.  The *)
(* handler does not yield, so submissions do not interleave.               *)
(***************************************************************************)
EXTENDS Naturals, Sequences, FiniteSets

CONSTANTS
    Plan,       \* the approved courses, see PlanType
    Teachers,   \* teacher uids
    Sessions,   \* who may submit, see SessionType
    Nil,
    MaxSubmits, \* bound: submissions of the plan
    MaxUntold   \* bound: calls that took effect without the handler knowing

Roles == {"owner", "manager", "teacher"}

(* existing: the id of a course to reuse; homework: per lesson, whether it *)
(* has one.  An identity is the digest of a course's name and first start. *)
PlanType ==
    [identity : Nat, teacher : Teachers \union {Nil}, existing : Nat \union {Nil},
     homework : Seq(BOOLEAN)]

Reused == { Plan[i].existing : i \in DOMAIN Plan } \ {Nil}

(* team: the teachers of a manager's branch.                               *)
SessionType ==
    [role : Roles, teacher : Teachers \union {Nil}, team : SUBSET Teachers]

ASSUME PlanAssumption ==
    /\ Plan \in Seq(PlanType)
    /\ Sessions \subseteq SessionType
    /\ MaxSubmits \in Nat /\ MaxUntold \in Nat
    /\ Reused = 1..Cardinality(Reused)
    /\ Nil \notin Teachers \union Nat

Items == UNION { {i} \X DOMAIN Plan[i].homework : i \in DOMAIN Plan }

VARIABLES
    rCourses,  \* ClassIn: course id -> identity (Nil if not made by a plan)
    rUnits,    \* ClassIn: unit id -> course id
    rClasses,  \* ClassIn: class id -> [course, teacher, item, by]
    rWorks,    \* ClassIn: homework id -> [course, unit, item]
    lost,      \* history: classes whose id no reply brought
    courses,   \* store: course id -> its teacher, or Nil without a row
    lessons,   \* store: class id -> [course, homework], or Nil
    pc, who, plan,             \* the request: its session, and the plan with
    blocked,                   \* teachers settled; the courses not allowed
    ci, li, course, unit, class, \* its local variables
    errors,    \* what is reported: <<kind, course, lesson>>
    made,      \* history: items whose class this request has created
    submits,
    broken,    \* history: submissions that broke off
    untold     \* calls that took effect without the handler knowing

remote == <<rCourses, rUnits, rClasses, rWorks, lost>>
store == <<courses, lessons>>
request == <<who, plan, blocked, ci, li, course, unit, class, errors, made>>
tally == <<submits, broken, untold>>
vars == <<remote, store, pc, request, tally>>

TypeOK ==
    /\ pc \in {"idle", "course", "add", "record", "unit", "class", "keep", "work", "done"}
    /\ rUnits \in Seq(DOMAIN rCourses)
    /\ \A n \in DOMAIN rClasses :
          rClasses[n].course \in DOMAIN rCourses /\ rClasses[n].teacher \in Teachers
    /\ \A n \in DOMAIN rWorks : rWorks[n].unit \in DOMAIN rUnits
    /\ lost \subseteq DOMAIN rClasses
    /\ made \subseteq Items
    /\ submits \in 0..MaxSubmits
    /\ broken \in 0..submits
    /\ untold \in 0..MaxUntold

Init ==
    /\ rCourses = [i \in 1..Cardinality(Reused) |-> Nil]
    /\ rUnits = <<>>
    /\ rClasses = <<>>
    /\ rWorks = <<>>
    /\ lost = {}
    /\ courses = <<>>
    /\ lessons = <<>>
    /\ pc = "idle"
    /\ who = Nil
    /\ plan = Plan
    /\ blocked = {}
    /\ ci = 1 /\ li = 1
    /\ course = Nil /\ unit = Nil /\ class = Nil
    /\ errors = {}
    /\ made = {}
    /\ submits = 0
    /\ broken = 0
    /\ untold = 0

-----------------------------------------------------------------------------
(* _apply_teacher_overrides: a choice on the preview page wins.            *)
Overridden(choice) ==
    [i \in DOMAIN Plan |->
        IF choice[i] # Nil THEN [Plan[i] EXCEPT !.teacher = choice[i]] ELSE Plan[i]]

(* Mutant of Enforced: a teacher's plan is taken as it is.                 *)
EnforcedNot(s, p) == p

(* _enforce_teacher_scope, first case: what a teacher creates is under the *)
(* teacher's own uid.                                                      *)
Enforced(s, p) ==
    IF s.role = "teacher" /\ s.teacher # Nil
    THEN [i \in DOMAIN p |-> [p[i] EXCEPT !.teacher = s.teacher]]
    ELSE p

(* ... and the cases that set a blocked_reason.                            *)
Blocked(s, p) ==
    IF s.role = "teacher" THEN IF s.teacher = Nil THEN DOMAIN p ELSE {}
    ELSE IF s.role = "manager"
    THEN { i \in DOMAIN p : p[i].teacher \notin s.team \union {Nil} }
    ELSE {}

Submit(s, choice) ==
    /\ pc \in {"idle", "done"}
    /\ submits < MaxSubmits
    /\ submits' = submits + 1
    /\ who' = s
    /\ plan' = Enforced(s, Overridden(choice))
    /\ blocked' = Blocked(s, Enforced(s, Overridden(choice)))
    /\ pc' = "course"
    /\ ci' = 1 /\ li' = 1
    /\ course' = Nil /\ unit' = Nil /\ class' = Nil
    /\ errors' = {}
    /\ made' = {}
    /\ UNCHANGED <<remote, store, broken, untold>>

Here == plan[ci]
Untold == untold < MaxUntold /\ untold' = untold + 1
Report(e) == errors' = errors \union {e}

(* The loop goes on to the next course.                                    *)
Advance ==
    /\ ci' = ci + 1
    /\ li' = 1
    /\ pc' = "course"
    /\ UNCHANGED <<who, plan, blocked, made>>

Skip ==
    /\ pc = "course"
    /\ ci \in DOMAIN plan
    /\ ci \in blocked \/ Here.teacher = Nil
    /\ Report(<<"course", ci, 0>>)
    /\ Advance
    /\ UNCHANGED <<remote, store, course, unit, class, tally>>

(* Mutant of Take: a course without a teacher is not skipped.              *)
TakeTeacherless ==
    /\ pc = "course"
    /\ ci \in DOMAIN plan
    /\ ci \notin blocked
    /\ course' = Here.existing
    /\ pc' = IF Here.existing = Nil THEN "add" ELSE "record"
    /\ UNCHANGED <<remote, store, who, plan, blocked, ci, li, unit, class, errors, made,
                   tally>>

(* An existing course is reused, any other is to be added.                 *)
Take ==
    /\ pc = "course"
    /\ ci \in DOMAIN plan
    /\ ci \notin blocked /\ Here.teacher # Nil
    /\ course' = Here.existing
    /\ pc' = IF Here.existing = Nil THEN "add" ELSE "record"
    /\ UNCHANGED <<remote, store, who, plan, blocked, ci, li, unit, class, errors, made,
                   tally>>

End ==
    /\ pc = "course"
    /\ ci \notin DOMAIN plan
    /\ pc' = "done"
    /\ UNCHANGED <<remote, store, request, tally>>

-----------------------------------------------------------------------------
(* Mutant of AddCourse: no unique_identity is sent.                        *)
AddCourseAnew ==
    /\ pc = "add"
    /\ rCourses' = Append(rCourses, Here.identity)
    /\ course' = Len(rCourses) + 1
    /\ pc' = "record"
    /\ UNCHANGED <<rUnits, rClasses, rWorks, lost, store, who, plan, blocked, ci, li, unit,
                   class, errors, made, tally>>

(* addCourse: an identity ClassIn has seen gets the course it got before.  *)
CourseAt(id) ==
    \/ id \in DOMAIN rCourses /\ rCourses[id] = Here.identity /\ UNCHANGED rCourses
    \/ /\ \A n \in DOMAIN rCourses : rCourses[n] # Here.identity
       /\ rCourses' = Append(rCourses, Here.identity)
       /\ id = Len(rCourses) + 1

AddCourse ==
    /\ pc = "add"
    /\ \E id \in 1..Len(rCourses) + 1 : CourseAt(id) /\ course' = id
    /\ pc' = "record"
    /\ UNCHANGED <<rUnits, rClasses, rWorks, lost, store, who, plan, blocked, ci, li, unit,
                   class, errors, made, tally>>

AddCourseRefused ==
    /\ pc = "add"
    /\ \/ UNCHANGED <<rCourses, untold>>
       \/ Untold /\ \E id \in 1..Len(rCourses) + 1 : CourseAt(id)
    /\ Report(<<"course", ci, 0>>)
    /\ Advance
    /\ UNCHANGED <<rUnits, rClasses, rWorks, lost, store, course, unit, class, submits, broken>>

Put(f, x, y) == [z \in DOMAIN f \union {x} |-> IF z = x THEN y ELSE f[z]]

(* Mutant of RecordCourse: unit_id is not reset for the next course.       *)
RecordCourseKeepUnit ==
    /\ pc = "record"
    /\ courses' = Put(courses, course, Here.teacher)
    /\ UNCHANGED unit
    /\ IF Here.homework = <<>> THEN Advance
       ELSE pc' = "unit" /\ UNCHANGED <<who, plan, blocked, made, ci, li>>
    /\ UNCHANGED <<remote, lessons, course, class, errors, tally>>

(* The course's row, whose teacher becomes the one of this plan; then the  *)
(* course starts without a unit.                                           *)
RecordCourse ==
    /\ pc = "record"
    /\ courses' = Put(courses, course, Here.teacher)
    /\ unit' = Nil
    /\ IF Here.homework = <<>> THEN Advance
       ELSE pc' = "unit" /\ UNCHANGED <<who, plan, blocked, made, ci, li>>
    /\ UNCHANGED <<remote, lessons, course, class, errors, tally>>

CreateUnit ==
    /\ pc = "unit"
    /\ rUnits' = Append(rUnits, course)
    /\ unit' = Len(rUnits) + 1
    /\ pc' = "class"
    /\ UNCHANGED <<rCourses, rClasses, rWorks, lost, store, who, plan, blocked, ci, li,
                   course, class, errors, made, tally>>

CreateUnitRefused ==
    /\ pc = "unit"
    /\ \/ UNCHANGED <<rUnits, untold>>
       \/ Untold /\ rUnits' = Append(rUnits, course)
    /\ Report(<<"unit", ci, 0>>)
    /\ pc' = "class"
    /\ UNCHANGED <<rCourses, rClasses, rWorks, lost, store, who, plan, blocked, ci, li,
                   course, unit, class, made, submits, broken>>

(* The loop goes on to the next lesson, or leaves the course.              *)
NextLesson ==
    IF li < Len(Here.homework)
    THEN li' = li + 1 /\ pc' = "class" /\ UNCHANGED <<who, plan, blocked, ci, made>>
    ELSE Advance

(* No identity is sent: a class submitted again is a class made again.     *)
ClassMade ==
    rClasses' = Append(rClasses, [course |-> course, teacher |-> Here.teacher,
                                  item |-> <<ci, li>>, by |-> who])
IdLost == Untold /\ lost' = lost \union {Len(rClasses) + 1}

(* The handler takes a reply without the id of the class for a success too. *)
CreateClassroom ==
    /\ pc = "class"
    /\ ClassMade
    /\ \/ class' = Len(rClasses) + 1 /\ UNCHANGED <<lost, untold>>
       \/ class' = Nil /\ IdLost
    /\ made' = made \union {<<ci, li>>}
    /\ pc' = "keep"
    /\ UNCHANGED <<rCourses, rUnits, rWorks, store, who, plan, blocked, ci, li, course, unit,
                   errors, submits, broken>>

(* Mutant of CreateClassroomRefused: the error is logged, not reported.    *)
CreateClassroomSilent ==
    /\ pc = "class"
    /\ NextLesson
    /\ UNCHANGED <<remote, store, course, unit, class, errors, tally>>

CreateClassroomRefused ==
    /\ pc = "class"
    /\ \/ UNCHANGED <<rClasses, lost, untold>>
       \/ ClassMade /\ IdLost
    /\ Report(<<"class", ci, li>>)
    /\ NextLesson
    /\ UNCHANGED <<rCourses, rUnits, rWorks, store, course, unit, class, submits, broken>>

(* Mutant of KeepLesson: the row is only written with its homework.        *)
KeepLessonLater ==
    /\ pc = "keep"
    /\ lessons' = IF class = Nil \/ (Here.homework[li] /\ unit # Nil) THEN lessons
                  ELSE Put(lessons, class, [course |-> course, homework |-> Nil])
    /\ IF Here.homework[li] /\ unit # Nil THEN pc' = "work" /\ UNCHANGED request
       ELSE NextLesson /\ UNCHANGED <<course, unit, class, errors>>
    /\ UNCHANGED <<remote, courses, tally>>

(* Without an id there is no row, but the request goes on.                 *)
KeepLesson ==
    /\ pc = "keep"
    /\ lessons' = IF class = Nil THEN lessons
                  ELSE Put(lessons, class, [course |-> course, homework |-> Nil])
    /\ IF Here.homework[li] /\ unit # Nil THEN pc' = "work" /\ UNCHANGED request
       ELSE NextLesson /\ UNCHANGED <<course, unit, class, errors>>
    /\ UNCHANGED <<remote, courses, tally>>

WorkMade == rWorks' = Append(rWorks, [course |-> course, unit |-> unit, item |-> <<ci, li>>])

(* createActivityNoClass, and the row's homework_activity_id after it.     *)
CreateHomework ==
    /\ pc = "work"
    /\ WorkMade
    /\ lessons' = IF class = Nil THEN lessons
                  ELSE [lessons EXCEPT ![class].homework = Len(rWorks) + 1]
    /\ NextLesson
    /\ UNCHANGED <<rCourses, rUnits, rClasses, lost, courses, course, unit, class, errors,
                   tally>>

CreateHomeworkRefused ==
    /\ pc = "work"
    /\ \/ UNCHANGED <<rWorks, untold>>
       \/ Untold /\ WorkMade
    /\ Report(<<"work", ci, li>>)
    /\ NextLesson
    /\ UNCHANGED <<rCourses, rUnits, rClasses, lost, store, course, unit, class, submits, broken>>

(* An exception that is no ClassInError, or the end of the process; for    *)
(* CreateHomework, also between the call and the row.                      *)
Abort ==
    /\ pc \notin {"idle", "done"}
    /\ UNCHANGED rWorks \/ (pc = "work" /\ WorkMade)
    /\ pc' = "idle"
    /\ broken' = broken + 1
    /\ UNCHANGED <<rCourses, rUnits, rClasses, lost, store, request, submits, untold>>

Next ==
    \/ \E s \in Sessions, choice \in [DOMAIN Plan -> Teachers \union {Nil}] :
          Submit(s, choice)
    \/ Skip \/ Take \/ End
    \/ AddCourse \/ AddCourseRefused \/ RecordCourse
    \/ CreateUnit \/ CreateUnitRefused
    \/ CreateClassroom \/ CreateClassroomRefused \/ KeepLesson
    \/ CreateHomework \/ CreateHomeworkRefused
    \/ Abort

Spec == Init /\ [][Next]_vars

-----------------------------------------------------------------------------
(* A course of the plan is one course at ClassIn, however often the plan   *)
(* is submitted and wherever a submission broke off.                       *)
OneCoursePerIdentity ==
    \A i, j \in DOMAIN rCourses :
        rCourses[i] = rCourses[j] /\ rCourses[i] # Nil => i = j

(* Homework is filed in a unit of its own course, although a unit may be   *)
(* refused and the variable that holds it is shared by all courses; and    *)
(* the row of a class has the class's course and homework of its lesson,   *)
(* although the reply for a class may have been without an id.             *)
HomeworkInOwnCourse ==
    /\ \A n \in DOMAIN rWorks : rUnits[rWorks[n].unit] = rWorks[n].course
    /\ \A c \in DOMAIN lessons :
          /\ lessons[c].course = rClasses[c].course
          /\ lessons[c].homework # Nil =>
                /\ rWorks[lessons[c].homework].course = lessons[c].course
                /\ rWorks[lessons[c].homework].item = rClasses[c].item

(* A class at ClassIn whose id came back is without a row only if its      *)
(* request broke off just then, so at most one for each submission that    *)
(* did: the ids, which no list call returns, are kept as they come and not *)
(* at the end.  Of a class whose id no reply brought (lost) there is no    *)
(* row, and no submission need have broken off.                            *)
ClassesAreKept ==
    Cardinality((DOMAIN rClasses \ DOMAIN lessons) \ lost)
        <= broken + (IF pc = "keep" /\ class # Nil THEN 1 ELSE 0)

(* A submission that comes to its end has made, or reported, everything    *)
(* the plan lists: each class, and each class's homework.                  *)
NothingSilent ==
    pc = "done" =>
        \A it \in Items :
            \/ <<"course", it[1], 0>> \in errors
            \/ <<"class", it[1], it[2]>> \in errors
            \/ /\ it \in made
               /\ Plan[it[1]].homework[it[2]] =>
                     \/ <<"unit", it[1], 0>> \in errors
                     \/ <<"work", it[1], it[2]>> \in errors
                     \/ \E n \in DOMAIN rWorks : rWorks[n].item = it

(* What a teacher creates is under the teacher's uid, what a manager       *)
(* creates under one of the branch's teachers.                             *)
OwnTeachersOnly ==
    \A n \in DOMAIN rClasses :
        LET s == rClasses[n].by
        IN  /\ s.role = "teacher" => rClasses[n].teacher = s.teacher
            /\ s.role = "manager" => rClasses[n].teacher \in s.team
=============================================================================
