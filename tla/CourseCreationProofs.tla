------------------------- MODULE CourseCreationProofs -------------------------
(***************************************************************************)
(* Proofs about CourseCreation, for every plan, every team and any number  *)
(* of submissions, broken off anywhere.                                    *)
(***************************************************************************)
EXTENDS CourseCreation, SequenceTheorems, FiniteSetTheorems, TLAPS

USE PlanAssumption

InLesson == {"class", "keep", "work"}
InCourse == {"add", "record", "unit"} \union InLesson

Class == [course : Nat, teacher : Teachers, item : Items, by : Sessions]
Work == [course : Nat, unit : Nat, item : Items]
Row == [course : Nat, homework : Nat \union {Nil}]

(* What TypeOK leaves open.  The plan of the request is the approved one,  *)
(* its teachers apart.                                                     *)
Typed ==
    /\ pc \in {"idle", "course", "done"} \union InCourse
    /\ rCourses \in Seq(Nat \union {Nil})
    /\ rUnits \in Seq(Nat)
    /\ rClasses \in Seq(Class)
    /\ rWorks \in Seq(Work)
    /\ plan \in [DOMAIN Plan -> PlanType]
    /\ \A i \in DOMAIN Plan :
          /\ plan[i].identity = Plan[i].identity
          /\ plan[i].existing = Plan[i].existing
          /\ plan[i].homework = Plan[i].homework
    /\ ci \in Nat \ {0} /\ li \in Nat \ {0}
    /\ made \subseteq Items
    /\ submits \in 0..MaxSubmits
    /\ broken \in Nat
    /\ broken + (IF pc \in {"idle", "done"} THEN 0 ELSE 1) <= submits
    /\ untold \in 0..MaxUntold

(* Every id refers to something that is there.                             *)
Refers ==
    /\ Reused \subseteq DOMAIN rCourses
    /\ \A n \in DOMAIN rUnits : rUnits[n] \in DOMAIN rCourses
    /\ \A n \in DOMAIN rClasses : rClasses[n].course \in DOMAIN rCourses
    /\ \A n \in DOMAIN rWorks : rWorks[n].unit \in DOMAIN rUnits
    /\ lost \subseteq DOMAIN rClasses
    /\ DOMAIN lessons \subseteq DOMAIN rClasses
    /\ \A c \in DOMAIN lessons : lessons[c] \in Row
    /\ \A c \in DOMAIN lessons :
          lessons[c].homework # Nil => lessons[c].homework \in DOMAIN rWorks

(* What the handler's local variables hold at each point of its loops.     *)
Placed ==
    /\ pc \in InCourse => ci \in DOMAIN Plan /\ ci \notin blocked /\ plan[ci].teacher # Nil
    /\ pc \in {"course", "add", "record", "unit"} => li = 1
    /\ pc = "unit" => plan[ci].homework # <<>> /\ unit = Nil
    /\ pc \in {"record", "unit"} \union InLesson => course \in DOMAIN rCourses
    /\ pc \in InLesson =>
          /\ li \in DOMAIN plan[ci].homework
          /\ IF unit = Nil THEN <<"unit", ci, 0>> \in errors
             ELSE unit \in DOMAIN rUnits /\ rUnits[unit] = course
    /\ pc \in {"keep", "work"} =>
          /\ class # Nil => /\ class \in DOMAIN rClasses
                            /\ rClasses[class].course = course
                            /\ rClasses[class].item = <<ci, li>>
          /\ <<ci, li>> \in made
    /\ pc = "keep" /\ class # Nil => class \notin DOMAIN lessons \union lost
    /\ pc = "work" => unit # Nil /\ (class # Nil => class \in DOMAIN lessons)
    /\ pc = "done" => ci \notin DOMAIN Plan

(* What the role of who submitted has settled for each course.             *)
TeachersSettled ==
    pc # "idle" =>
        /\ who \in Sessions
        /\ \A i \in DOMAIN Plan \ blocked :
              /\ who.role = "teacher" => who.teacher # Nil /\ plan[i].teacher = who.teacher
              /\ who.role = "manager" => plan[i].teacher \in who.team \union {Nil}

(* A lesson that has been made or reported, and its homework.              *)
Settled(i, l) ==
    \/ <<"course", i, 0>> \in errors
    \/ <<"class", i, l>> \in errors
    \/ /\ <<i, l>> \in made
       /\ Plan[i].homework[l] =>
             \/ <<"unit", i, 0>> \in errors
             \/ <<"work", i, l>> \in errors
             \/ \E n \in DOMAIN rWorks : rWorks[n].item = <<i, l>>

(* The loops leave nothing behind that is not.                             *)
PassedSettled ==
    pc # "idle" =>
        \A i \in DOMAIN Plan : \A l \in DOMAIN Plan[i].homework :
            i < ci \/ (i = ci /\ l < li) => Settled(i, l)

(* The inductive invariant.                                                *)
IInv ==
    /\ Typed /\ Refers /\ Placed
    /\ OneCoursePerIdentity /\ HomeworkInOwnCourse /\ ClassesAreKept
    /\ TeachersSettled /\ OwnTeachersOnly
    /\ PassedSettled

-----------------------------------------------------------------------------
(* Lemmas about the operators of the model.                                *)

(* Appending keeps what is there and adds one element, under a new number. *)
LEMMA Appended ==
  ASSUME NEW S, NEW s \in Seq(S), NEW x \in S
  PROVE  /\ Append(s, x) \in Seq(S)
         /\ Len(s) \in Nat /\ DOMAIN s = 1..Len(s)
         /\ DOMAIN Append(s, x) = DOMAIN s \union {Len(s) + 1}
         /\ Len(s) + 1 \notin DOMAIN s
         /\ \A i \in DOMAIN s : Append(s, x)[i] = s[i]
         /\ Append(s, x)[Len(s) + 1] = x
<1>1. /\ Append(s, x) \in Seq(S) /\ Len(Append(s, x)) = Len(s) + 1
      /\ \A i \in 1..Len(s) : Append(s, x)[i] = s[i]
      /\ Append(s, x)[Len(s) + 1] = x
  BY AppendProperties
<1>2. /\ Len(s) \in Nat /\ DOMAIN s = 1..Len(s)
      /\ DOMAIN Append(s, x) = 1..Len(Append(s, x))
  BY <1>1, LenProperties
<1> QED
  BY <1>1, <1>2

(* A table that is as it was, or has one row more.                         *)
Extends(s, t) == DOMAIN s \subseteq DOMAIN t /\ \A n \in DOMAIN s : t[n] = s[n]

LEMMA Longer ==
  ASSUME NEW S, NEW s \in Seq(S), NEW t, t = s \/ \E x \in S : t = Append(s, x)
  PROVE  t \in Seq(S) /\ Extends(s, t)
  BY Appended DEF Extends

(* The approved courses are numbered from 1, and so are their lessons; the *)
(* reused ones are finitely many.                                          *)
LEMMA PlanFacts ==
  /\ Len(Plan) \in Nat /\ DOMAIN Plan = 1..Len(Plan)
  /\ \A i \in DOMAIN Plan :
        /\ Plan[i] \in PlanType
        /\ Plan[i].homework \in Seq(BOOLEAN) /\ Len(Plan[i].homework) \in Nat
        /\ DOMAIN Plan[i].homework = 1..Len(Plan[i].homework)
        /\ \A l \in DOMAIN Plan[i].homework : <<i, l>> \in Items
        /\ Plan[i].existing # Nil => Plan[i].existing \in Reused
  /\ Cardinality(Reused) \in Nat
<1>1. Len(Plan) \in Nat /\ DOMAIN Plan = 1..Len(Plan)
  BY LenProperties
<1>2. \A i \in DOMAIN Plan : Plan[i] \in PlanType
  BY <1>1, ElementOfSeq
<1>3. \A i \in DOMAIN Plan : Plan[i].homework \in Seq(BOOLEAN)
  BY <1>2 DEF PlanType
<1>4. \A i \in DOMAIN Plan :
         /\ Len(Plan[i].homework) \in Nat
         /\ DOMAIN Plan[i].homework = 1..Len(Plan[i].homework)
  BY <1>3, LenProperties
<1>5. IsFiniteSet(Reused)
  <2> DEFINE f == [i \in DOMAIN Plan |-> Plan[i].existing]
             T == { Plan[i].existing : i \in DOMAIN Plan }
  <2>1. IsFiniteSet(DOMAIN Plan)
    BY <1>1, FS_Interval
  <2>2. f \in Surjection(DOMAIN Plan, T)
    BY DEF Surjection
  <2>3. IsFiniteSet(T)
    BY <2>1, <2>2, FS_Surjection
  <2> QED
    BY <2>3, FS_Subset DEF Reused
<1>6. Cardinality(Reused) \in Nat
  BY <1>5, FS_CardinalityType
<1>7. ASSUME NEW i \in DOMAIN Plan
      PROVE  /\ \A l \in DOMAIN Plan[i].homework : <<i, l>> \in Items
             /\ Plan[i].existing # Nil => Plan[i].existing \in Reused
  BY DEF Items, Reused
<1> QED
  BY <1>1, <1>2, <1>3, <1>4, <1>6, <1>7

(* A course of a plan under another teacher.                               *)
LEMMA TeacherChanged ==
  ASSUME NEW r \in PlanType, NEW t \in Teachers \union {Nil}, NEW q,
         q = [r EXCEPT !.teacher = t]
  PROVE  /\ q \in PlanType
         /\ q.teacher = t
         /\ q.identity = r.identity
         /\ q.existing = r.existing
         /\ q.homework = r.homework
  BY DEF PlanType

(* The plan a submission goes by lists what the approved one lists, under  *)
(* the teachers its user may give it or else blocked, whatever was chosen  *)
(* on the page.                                                            *)
LEMMA PlanOfSubmission ==
  ASSUME NEW s \in Sessions, NEW choice \in [DOMAIN Plan -> Teachers \union {Nil}]
  PROVE  LET p == Enforced(s, Overridden(choice))
         IN  /\ p \in [DOMAIN Plan -> PlanType]
             /\ \A i \in DOMAIN Plan :
                   /\ p[i].identity = Plan[i].identity
                   /\ p[i].existing = Plan[i].existing
                   /\ p[i].homework = Plan[i].homework
             /\ \A i \in DOMAIN Plan \ Blocked(s, p) :
                   /\ s.role = "teacher" => s.teacher # Nil /\ p[i].teacher = s.teacher
                   /\ s.role = "manager" => p[i].teacher \in s.team \union {Nil}
<1> DEFINE o == Overridden(choice)
           p == Enforced(s, o)
           AsApproved(q, i) == /\ q[i].identity = Plan[i].identity
                               /\ q[i].existing = Plan[i].existing
                               /\ q[i].homework = Plan[i].homework
<1>1. s \in SessionType
  OBVIOUS
<1>2. o \in [DOMAIN Plan -> PlanType] /\ \A i \in DOMAIN Plan : AsApproved(o, i)
  <2>1. ASSUME NEW i \in DOMAIN Plan
        PROVE  o[i] \in PlanType /\ AsApproved(o, i)
    <3>1. Plan[i] \in PlanType
      BY PlanFacts
    <3>2. choice[i] # Nil => o[i] = [Plan[i] EXCEPT !.teacher = choice[i]]
      BY DEF Overridden
    <3>3. choice[i] = Nil => o[i] = Plan[i]
      BY DEF Overridden
    <3> QED
      BY <3>1, <3>2, <3>3, TeacherChanged
  <2> QED
    BY <2>1 DEF Overridden
<1> HIDE DEF o
<1>3. CASE s.role = "teacher" /\ s.teacher # Nil
  <2>1. p = [i \in DOMAIN Plan |-> [o[i] EXCEPT !.teacher = s.teacher]]
    BY <1>2, <1>3 DEF Enforced
  <2>2. s.teacher \in Teachers \union {Nil}
    BY <1>1 DEF SessionType
  <2>3. ASSUME NEW i \in DOMAIN Plan
        PROVE  p[i] \in PlanType /\ AsApproved(p, i) /\ p[i].teacher = s.teacher
    <3>1. o[i] \in PlanType /\ AsApproved(o, i)
      BY <1>2
    <3>2. p[i] = [o[i] EXCEPT !.teacher = s.teacher]
      BY <2>1
    <3> HIDE DEF p
    <3> QED
      BY <3>1, <3>2, <2>2, TeacherChanged
  <2> QED
    BY <1>3, <2>1, <2>3 DEF o
<1>4. CASE ~(s.role = "teacher" /\ s.teacher # Nil)
  <2>1. p = o
    BY <1>4 DEF Enforced
  <2> QED
    BY <1>2, <1>4, <2>1 DEF Blocked, o
<1> QED
  BY <1>3, <1>4

-----------------------------------------------------------------------------
(* Nothing is there at first but the courses to be reused.                 *)
LEMMA InitInv == Init => IInv
<1> SUFFICES ASSUME Init PROVE IInv
  OBVIOUS
<1>1. rCourses \in Seq(Nat \union {Nil}) /\ DOMAIN rCourses = 1..Cardinality(Reused)
  BY PlanFacts, SeqDef DEF Init
<1>2. Typed
  <2>1. \A S : <<>> \in Seq(S)
    BY EmptySeq
  <2>2. Plan \in [DOMAIN Plan -> PlanType]
    BY PlanFacts, LenProperties
  <2> QED
    BY <1>1, <2>1, <2>2 DEF Init, Typed
<1>3. /\ DOMAIN rUnits = {} /\ DOMAIN rClasses = {} /\ DOMAIN rWorks = {} /\ DOMAIN lessons = {}
      /\ lost = {}
  BY DEF Init
<1>6. Refers /\ HomeworkInOwnCourse /\ OwnTeachersOnly
  BY <1>1, <1>3 DEF Refers, HomeworkInOwnCourse, OwnTeachersOnly
<1>7. Placed /\ TeachersSettled /\ PassedSettled
  BY DEF Init, Placed, TeachersSettled, PassedSettled, InCourse, InLesson
<1>4. OneCoursePerIdentity
  BY DEF Init, OneCoursePerIdentity
<1>5. ClassesAreKept
  <2>1. (DOMAIN rClasses \ DOMAIN lessons) \ lost = {}
    BY DEF Init
  <2> QED
    BY <2>1, FS_EmptySet DEF Init, ClassesAreKept
<1> QED
  BY <1>2, <1>4, <1>5, <1>6, <1>7 DEF IInv

(* What the handler works on inside a course.                              *)
LEMMA InsideCourse ==
  ASSUME IInv, pc \in InCourse
  PROVE  /\ ci \in DOMAIN Plan /\ ci \notin blocked /\ Here \in PlanType
         /\ Here.teacher \in Teachers /\ who \in Sessions
         /\ Here.identity = Plan[ci].identity /\ Here.identity \in Nat
         /\ Here.existing = Plan[ci].existing
         /\ Here.homework = Plan[ci].homework
         /\ pc \in InLesson => <<ci, li>> \in Items
         /\ pc # "add" => course \in DOMAIN rCourses
<1>1. ci \in DOMAIN Plan /\ ci \notin blocked /\ Here.teacher # Nil
  BY DEF IInv, Placed, Here
<1>2. Here \in PlanType /\ Here.identity = Plan[ci].identity /\ Here.existing = Plan[ci].existing
      /\ Here.homework = Plan[ci].homework
  BY <1>1 DEF IInv, Typed, Here
<1>3. who \in Sessions
  BY DEF IInv, TeachersSettled, InCourse, InLesson
<1>4. pc \in InLesson => li \in DOMAIN Here.homework
  BY DEF IInv, Placed, Here
<1>5. pc # "add" => course \in DOMAIN rCourses
  BY DEF IInv, Placed, InCourse
<1> QED
  BY <1>1, <1>2, <1>3, <1>4, <1>5, PlanFacts DEF PlanType

(* At ClassIn and in the store things are added and stay: what a step adds *)
(* to each table, if it adds anything.                                     *)
LEMMA WhatIsAdded ==
  ASSUME IInv, Next
  PROVE  /\ \/ UNCHANGED rCourses
            \/ /\ pc = "add" /\ Here.identity \in Nat
               /\ rCourses' = Append(rCourses, Here.identity)
               /\ \A id \in DOMAIN rCourses : rCourses[id] # Here.identity
         /\ \/ UNCHANGED rUnits
            \/ pc = "unit" /\ course \in DOMAIN rCourses /\ rUnits' = Append(rUnits, course)
         /\ \/ UNCHANGED rClasses
            \/ /\ pc = "class"
               /\ rClasses' = Append(rClasses, [course |-> course, teacher |-> Here.teacher,
                                                item |-> <<ci, li>>, by |-> who])
         /\ \/ UNCHANGED lost
            \/ /\ pc = "class" /\ lost' = lost \union {Len(rClasses) + 1}
               /\ rClasses' = Append(rClasses, [course |-> course, teacher |-> Here.teacher,
                                                item |-> <<ci, li>>, by |-> who])
         /\ \/ UNCHANGED rWorks
            \/ pc = "work" /\ WorkMade
         /\ \/ UNCHANGED lessons
            \/ /\ pc = "keep" /\ class # Nil
               /\ lessons' = Put(lessons, class, [course |-> course, homework |-> Nil])
            \/ /\ pc = "work" /\ class # Nil /\ WorkMade
               /\ lessons' = [lessons EXCEPT ![class].homework = Len(rWorks) + 1]
<1>1. pc \in {"add", "unit"} => Here.identity \in Nat /\ (pc = "unit" => course \in DOMAIN rCourses)
  BY InsideCourse DEF InCourse
<1>2. ASSUME NEW s \in Sessions, NEW choice \in [DOMAIN Plan -> Teachers \union {Nil}],
             Submit(s, choice)
      PROVE  UNCHANGED <<rCourses, rUnits, rClasses, lost, rWorks, lessons>>
  BY <1>2 DEF Submit, remote, store
<1>3. CASE Skip \/ Take \/ End \/ RecordCourse
  BY <1>3 DEF Skip, Take, End, RecordCourse, remote, store
<1>4. CASE AddCourse \/ AddCourseRefused
  <2>1. /\ UNCHANGED <<rUnits, rClasses, rWorks, lost, lessons>> /\ pc = "add"
        /\ UNCHANGED rCourses \/ \E id \in 1..Len(rCourses) + 1 : CourseAt(id)
    BY <1>4 DEF AddCourse, AddCourseRefused, store
  <2> QED
    BY <1>1, <2>1 DEF CourseAt
<1>5. CASE CreateUnit \/ CreateUnitRefused
  BY <1>1, <1>5 DEF CreateUnit, CreateUnitRefused, store
<1>6. CASE CreateClassroom \/ CreateClassroomRefused
  BY <1>6 DEF CreateClassroom, CreateClassroomRefused, ClassMade, IdLost, store
<1>7. CASE KeepLesson
  BY <1>7 DEF KeepLesson, remote
<1>8. CASE CreateHomework \/ CreateHomeworkRefused
  BY <1>8 DEF CreateHomework, CreateHomeworkRefused, store
<1>9. CASE Abort
  BY <1>9 DEF Abort, store
<1> QED
  BY <1>2, <1>3, <1>4, <1>5, <1>6, <1>7, <1>8, <1>9 DEF Next

(* So the tables keep their types and what they have.                      *)
LEMMA TablesGrow ==
  ASSUME IInv, Next
  PROVE  /\ rCourses' \in Seq(Nat \union {Nil}) /\ Extends(rCourses, rCourses')
         /\ rUnits' \in Seq(Nat) /\ Extends(rUnits, rUnits')
         /\ rClasses' \in Seq(Class) /\ Extends(rClasses, rClasses')
         /\ rWorks' \in Seq(Work) /\ Extends(rWorks, rWorks')
<1> DEFINE class1 == [course |-> course, teacher |-> Here.teacher, item |-> <<ci, li>>, by |-> who]
           work1 == [course |-> course, unit |-> unit, item |-> <<ci, li>>]
<1>1. DOMAIN rCourses \subseteq Nat /\ DOMAIN rUnits \subseteq Nat /\ DOMAIN rClasses \subseteq Nat
  BY LenProperties DEF IInv, Typed
<1>2. rCourses' = rCourses \/ \E x \in Nat \union {Nil} : rCourses' = Append(rCourses, x)
  BY WhatIsAdded
<1>3. rUnits' = rUnits \/ \E x \in Nat : rUnits' = Append(rUnits, x)
  BY <1>1, WhatIsAdded
<1>4. pc = "class" => class1 \in Class
  BY <1>1, InsideCourse DEF Class, InCourse, InLesson
<1>5. rClasses' = rClasses \/ (pc = "class" /\ rClasses' = Append(rClasses, class1))
  BY WhatIsAdded
<1>6. pc = "work" => work1 \in Work
  <2> SUFFICES ASSUME pc = "work" PROVE work1 \in Work
    OBVIOUS
  <2>1. course \in DOMAIN rCourses /\ <<ci, li>> \in Items
    BY InsideCourse DEF InCourse, InLesson
  <2>2. unit \in DOMAIN rUnits
    BY DEF IInv, Placed, InLesson
  <2> QED
    BY <1>1, <2>1, <2>2 DEF Work
<1>7. rWorks' = rWorks \/ (pc = "work" /\ rWorks' = Append(rWorks, work1))
  BY WhatIsAdded DEF WorkMade
<1> HIDE DEF class1, work1
<1>8. /\ rCourses \in Seq(Nat \union {Nil}) /\ rUnits \in Seq(Nat)
      /\ rClasses \in Seq(Class) /\ rWorks \in Seq(Work)
  BY DEF IInv, Typed
<1>9. rCourses' \in Seq(Nat \union {Nil}) /\ Extends(rCourses, rCourses')
  BY <1>2, <1>8, Longer
<1>10. rUnits' \in Seq(Nat) /\ Extends(rUnits, rUnits')
  BY <1>3, <1>8, Longer
<1>11. rClasses' \in Seq(Class) /\ Extends(rClasses, rClasses')
  BY <1>4, <1>5, <1>8, Longer
<1>12. rWorks' \in Seq(Work) /\ Extends(rWorks, rWorks')
  BY <1>6, <1>7, <1>8, Longer
<1> QED
  BY <1>9, <1>10, <1>11, <1>12

-----------------------------------------------------------------------------
(* Every step preserves each part of the invariant.                        *)

(* A lesson's end: the next lesson, or the next course.                    *)
LEMMA AfterLesson ==
  ASSUME IInv, pc \in InLesson, NextLesson
  PROVE  /\ UNCHANGED <<who, plan, blocked, made>>
         /\ \/ /\ li < Len(Here.homework) /\ li' = li + 1 /\ pc' = "class" /\ ci' = ci
            \/ /\ ~(li < Len(Here.homework)) /\ li' = 1 /\ pc' = "course" /\ ci' = ci + 1
  BY DEF NextLesson, Advance

(* What the handler changes keeps its type.                                *)
LEMMA TypedNext == ASSUME IInv, Next PROVE Typed'
<1> DEFINE At == /\ pc \in {"idle", "course", "done"} \union InCourse
                 /\ ci \in Nat \ {0} /\ li \in Nat \ {0}
                 /\ made \subseteq Items
           Counts == /\ submits \in 0..MaxSubmits
                     /\ broken \in Nat
                     /\ broken + (IF pc \in {"idle", "done"} THEN 0 ELSE 1) <= submits
                     /\ untold \in 0..MaxUntold
           AsApproved == /\ plan \in [DOMAIN Plan -> PlanType]
                         /\ \A i \in DOMAIN Plan :
                               /\ plan[i].identity = Plan[i].identity
                               /\ plan[i].existing = Plan[i].existing
                               /\ plan[i].homework = Plan[i].homework
<1> SUFFICES At' /\ Counts' /\ AsApproved'
  BY TablesGrow DEF Typed
<1>a. At /\ Counts /\ AsApproved
  BY DEF IInv, Typed
<1>b. UNCHANGED plan => AsApproved'
  BY <1>a
<1>c. /\ pc \notin {"idle", "done"} /\ UNCHANGED tally => Counts'
      /\ pc \notin {"idle", "done"} /\ UNCHANGED <<submits, broken>> /\ (UNCHANGED untold \/ Untold)
            => Counts'
  BY <1>a DEF tally, Untold
<1>1. ASSUME NEW s \in Sessions, NEW choice \in [DOMAIN Plan -> Teachers \union {Nil}],
             Submit(s, choice)
      PROVE  At' /\ Counts' /\ AsApproved'
  <2>1. AsApproved'
    BY <1>1, PlanOfSubmission DEF Submit
  <2> HIDE DEF AsApproved
  <2> QED
    BY <1>1, <1>a, <2>1 DEF Submit
<1> HIDE DEF AsApproved
<1>2. CASE Skip \/ AddCourseRefused
  BY <1>2, <1>a, <1>b, <1>c DEF Skip, AddCourseRefused, Advance, tally
<1>3. CASE Take \/ AddCourse \/ CreateUnit \/ CreateUnitRefused
  BY <1>3, <1>a, <1>b, <1>c DEF Take, AddCourse, CreateUnit, CreateUnitRefused, InCourse, InLesson
<1>4. CASE RecordCourse
  BY <1>4, <1>a, <1>b, <1>c DEF RecordCourse, Advance, InCourse, InLesson
<1>5. CASE End \/ Abort
  BY <1>5, <1>a, <1>b DEF End, Abort, request, tally, InCourse, InLesson
<1>6. CASE CreateClassroom
  <2>1. <<ci, li>> \in Items
    BY <1>6, InsideCourse DEF CreateClassroom, InCourse, InLesson
  <2>2. UNCHANGED untold \/ Untold
    BY <1>6 DEF CreateClassroom, IdLost
  <2> QED
    BY <1>6, <1>a, <1>b, <1>c, <2>1, <2>2 DEF CreateClassroom, InCourse, InLesson
<1>7. CASE \/ CreateClassroomRefused \/ CreateHomework \/ CreateHomeworkRefused
           \/ KeepLesson /\ NextLesson
  <2>1. /\ pc \in InLesson /\ NextLesson
        /\ UNCHANGED <<submits, broken>> /\ (UNCHANGED untold \/ Untold)
    BY <1>7 DEF CreateClassroomRefused, CreateHomework, CreateHomeworkRefused, KeepLesson, InLesson,
                IdLost, tally
  <2>2. pc' \in {"class", "course"} /\ ci' \in {ci, ci + 1} /\ li' \in {1, li + 1}
        /\ UNCHANGED <<plan, made>>
    BY <2>1, AfterLesson
  <2> QED
    BY <2>1, <2>2, <1>a, <1>b, <1>c DEF InCourse, InLesson
<1>8. CASE KeepLesson /\ pc' = "work" /\ UNCHANGED request
  BY <1>8, <1>a, <1>b, <1>c DEF KeepLesson, request, InCourse, InLesson
<1>9. KeepLesson => NextLesson \/ (pc' = "work" /\ UNCHANGED request)
  BY DEF KeepLesson
<1> HIDE DEF At, Counts
<1> QED
  BY <1>1, <1>2, <1>3, <1>4, <1>5, <1>6, <1>7, <1>8, <1>9 DEF Next

(* A class that is made is the last one, of the course and lesson in hand. *)
LEMMA NewClass ==
  ASSUME IInv, pc = "class", ClassMade
  PROVE  LET n == Len(rClasses) + 1
         IN  /\ DOMAIN rClasses' = DOMAIN rClasses \union {n} /\ n \notin DOMAIN rClasses
             /\ \A m \in DOMAIN rClasses : rClasses'[m] = rClasses[m]
             /\ rClasses'[n].course = course /\ rClasses'[n].item = <<ci, li>>
             /\ rClasses'[n].teacher = Here.teacher /\ rClasses'[n].by = who
             /\ n \in Nat
<1> DEFINE new == [course |-> course, teacher |-> Here.teacher, item |-> <<ci, li>>, by |-> who]
<1>1. /\ Here.teacher \in Teachers /\ who \in Sessions
      /\ course \in DOMAIN rCourses /\ <<ci, li>> \in Items
  BY InsideCourse DEF InCourse, InLesson
<1>2. DOMAIN rCourses \subseteq Nat
  BY LenProperties DEF IInv, Typed
<1>3. /\ new \in Class /\ new.course = course /\ new.item = <<ci, li>>
      /\ new.teacher = Here.teacher /\ new.by = who
  BY <1>1, <1>2 DEF Class
<1>4. rClasses' = Append(rClasses, new) /\ rClasses \in Seq(Class)
  BY DEF ClassMade, IInv, Typed
<1> HIDE DEF new
<1> QED
  BY <1>3, <1>4, Appended

(* Homework that is made is the last one, of the course, unit and lesson   *)
(* in hand.                                                                *)
LEMMA NewWork ==
  ASSUME IInv, pc = "work", WorkMade
  PROVE  LET n == Len(rWorks) + 1
         IN  /\ DOMAIN rWorks' = DOMAIN rWorks \union {n} /\ n \notin DOMAIN rWorks
             /\ \A m \in DOMAIN rWorks : rWorks'[m] = rWorks[m]
             /\ rWorks'[n].course = course /\ rWorks'[n].unit = unit
             /\ rWorks'[n].item = <<ci, li>>
             /\ unit \in DOMAIN rUnits /\ rUnits[unit] = course
             /\ n \in Nat
<1> DEFINE new == [course |-> course, unit |-> unit, item |-> <<ci, li>>]
<1>1. course \in DOMAIN rCourses /\ <<ci, li>> \in Items
  BY InsideCourse DEF InCourse, InLesson
<1>2. unit \in DOMAIN rUnits /\ rUnits[unit] = course
  BY DEF IInv, Placed, InLesson
<1>3. DOMAIN rCourses \subseteq Nat /\ DOMAIN rUnits \subseteq Nat
  BY LenProperties DEF IInv, Typed
<1>4. /\ new \in Work /\ new.course = course /\ new.unit = unit /\ new.item = <<ci, li>>
  BY <1>1, <1>2, <1>3 DEF Work
<1>5. rWorks' = Append(rWorks, new) /\ rWorks \in Seq(Work)
  BY DEF WorkMade, IInv, Typed
<1> HIDE DEF new
<1> QED
  BY <1>2, <1>4, <1>5, Appended

(* A row of lessons that is written: that of the class in hand, with its   *)
(* course, and with homework only when it was just made.                   *)
NewRow(c) ==
    /\ c = class /\ c \in DOMAIN rClasses
    /\ rClasses[c].course = course /\ rClasses[c].item = <<ci, li>>
    /\ DOMAIN lessons' = DOMAIN lessons \union {c}
    /\ \A k \in DOMAIN lessons \ {c} : lessons'[k] = lessons[k]
    /\ lessons'[c] \in Row /\ lessons'[c].course = course
    /\ \/ lessons'[c].homework = Nil
       \/ /\ lessons'[c].homework = Len(rWorks) + 1
          /\ Len(rWorks) + 1 \in DOMAIN rWorks'
          /\ rWorks'[Len(rWorks) + 1].course = course
          /\ rWorks'[Len(rWorks) + 1].item = <<ci, li>>

LEMMA RowsNext ==
  ASSUME IInv, Next, lessons' # lessons
  PROVE  \E c : NewRow(c)
<1>1. pc \in InLesson => course \in Nat
  <2>1. pc \in InLesson => course \in DOMAIN rCourses
    BY InsideCourse DEF InCourse, InLesson
  <2> QED
    BY <2>1, LenProperties DEF IInv, Typed
<1>2. PICK c : c = class
  OBVIOUS
<1>3. CASE /\ pc = "keep" /\ class # Nil
           /\ lessons' = Put(lessons, class, [course |-> course, homework |-> Nil])
  <2> DEFINE row == [course |-> course, homework |-> Nil]
  <2>1. row \in Row /\ row.course = course /\ row.homework = Nil
    BY <1>1, <1>3 DEF Row, InLesson
  <2>2. lessons' = Put(lessons, c, row)
    BY <1>2, <1>3
  <2> HIDE DEF row
  <2>3. /\ DOMAIN lessons' = DOMAIN lessons \union {c} /\ lessons'[c] = row
        /\ \A k \in DOMAIN lessons \ {c} : lessons'[k] = lessons[k]
    BY <2>2 DEF Put
  <2>4. c \in DOMAIN rClasses /\ rClasses[c].course = course /\ rClasses[c].item = <<ci, li>>
    BY <1>2, <1>3 DEF IInv, Placed
  <2> QED
    BY <1>2, <2>1, <2>3, <2>4 DEF NewRow
<1>4. CASE /\ pc = "work" /\ class # Nil /\ WorkMade
           /\ lessons' = [lessons EXCEPT ![class].homework = Len(rWorks) + 1]
  <2>1. c \in DOMAIN rClasses /\ rClasses[c].course = course /\ rClasses[c].item = <<ci, li>>
    BY <1>2, <1>4 DEF IInv, Placed
  <2>2. c \in DOMAIN lessons
    BY <1>2, <1>4 DEF IInv, Placed
  <2>3. lessons[c] \in Row /\ lessons[c].course = course
    BY <2>1, <2>2 DEF IInv, Refers, HomeworkInOwnCourse
  <2> DEFINE row == [lessons[c] EXCEPT !.homework = Len(rWorks) + 1]
  <2>4. Len(rWorks) + 1 \in Nat
    BY <1>4, NewWork
  <2>5. row \in Row /\ row.course = course /\ row.homework = Len(rWorks) + 1
    BY <2>3, <2>4 DEF Row
  <2>6. lessons' = [lessons EXCEPT ![c] = row]
    BY <1>2, <1>4
  <2> HIDE DEF row
  <2>7. /\ DOMAIN lessons' = DOMAIN lessons \union {c} /\ lessons'[c] = row
        /\ \A k \in DOMAIN lessons \ {c} : lessons'[k] = lessons[k]
    BY <2>2, <2>6
  <2>8. /\ Len(rWorks) + 1 \in DOMAIN rWorks'
        /\ rWorks'[Len(rWorks) + 1].course = course
        /\ rWorks'[Len(rWorks) + 1].item = <<ci, li>>
    BY <1>4, NewWork
  <2> QED
    BY <1>2, <2>1, <2>5, <2>7, <2>8 DEF NewRow
<1> QED
  BY <1>3, <1>4, WhatIsAdded

(* A row is added with ids that are there, and none is ever taken away.    *)
LEMMA RefersNext == ASSUME IInv, Next PROVE Refers'
<1>1. /\ rUnits \in Seq(Nat) /\ rClasses \in Seq(Class) /\ rWorks \in Seq(Work)
      /\ DOMAIN rCourses \subseteq Nat /\ DOMAIN rUnits \subseteq Nat /\ DOMAIN rClasses \subseteq Nat
  BY LenProperties DEF IInv, Typed
<1>2. Reused \subseteq DOMAIN rCourses'
  BY TablesGrow DEF IInv, Refers, Extends
<1>3. \A n \in DOMAIN rUnits' : rUnits'[n] \in DOMAIN rCourses'
  <2>1. CASE UNCHANGED rUnits
    BY <2>1, TablesGrow DEF IInv, Refers, Extends
  <2>2. CASE course \in DOMAIN rCourses /\ rUnits' = Append(rUnits, course)
    BY <2>2, <1>1, TablesGrow, Appended DEF IInv, Refers, Extends
  <2> QED
    BY <2>1, <2>2, WhatIsAdded
<1>4. \A n \in DOMAIN rClasses' : rClasses'[n].course \in DOMAIN rCourses'
  <2> DEFINE new == [course |-> course, teacher |-> Here.teacher, item |-> <<ci, li>>, by |-> who]
  <2>1. CASE UNCHANGED rClasses
    BY <2>1, TablesGrow DEF IInv, Refers, Extends
  <2>2. CASE pc = "class" /\ rClasses' = Append(rClasses, new)
    <3>1. new \in Class /\ new.course \in DOMAIN rCourses
      BY <2>2, <1>1, InsideCourse DEF Class, InCourse, InLesson
    <3> HIDE DEF new
    <3> QED
      BY <2>2, <3>1, <1>1, TablesGrow, Appended DEF IInv, Refers, Extends
  <2> QED
    BY <2>1, <2>2, WhatIsAdded
<1>5. \A n \in DOMAIN rWorks' : rWorks'[n].unit \in DOMAIN rUnits'
  <2>1. CASE UNCHANGED rWorks
    BY <2>1, TablesGrow DEF IInv, Refers, Extends
  <2>2. CASE pc = "work" /\ WorkMade
    <3>1. \A n \in DOMAIN rWorks' : rWorks'[n].unit \in DOMAIN rUnits
      BY <2>2, NewWork DEF IInv, Refers
    <3> QED
      BY <3>1, TablesGrow DEF Extends
  <2> QED
    BY <2>1, <2>2, WhatIsAdded
<1>6. /\ DOMAIN lessons' \subseteq DOMAIN rClasses'
      /\ \A c \in DOMAIN lessons' : lessons'[c] \in Row
      /\ \A c \in DOMAIN lessons' :
            lessons'[c].homework # Nil => lessons'[c].homework \in DOMAIN rWorks'
  <2>1. CASE UNCHANGED lessons
    BY <2>1, TablesGrow DEF IInv, Refers, Extends
  <2>2. CASE lessons' # lessons
    <3>1. PICK c : NewRow(c)
      BY <2>2, RowsNext
    <3> QED
      BY <3>1, TablesGrow DEF IInv, Refers, Extends, NewRow
  <2> QED
    BY <2>1, <2>2
<1>7. lost' \subseteq DOMAIN rClasses'
  <2> DEFINE new == [course |-> course, teacher |-> Here.teacher, item |-> <<ci, li>>, by |-> who]
  <2>1. CASE UNCHANGED lost
    BY <2>1, TablesGrow DEF IInv, Refers, Extends
  <2>2. CASE pc = "class" /\ lost' = lost \union {Len(rClasses) + 1} /\ rClasses' = Append(rClasses, new)
    BY <2>2, NewClass, TablesGrow DEF IInv, Refers, Extends
  <2> QED
    BY <2>1, <2>2, WhatIsAdded
<1> QED
  BY <1>2, <1>3, <1>4, <1>5, <1>6, <1>7 DEF Refers

(* The reused ones are courses of no plan; a new one has a new identity.   *)
LEMMA CoursesNext == ASSUME IInv, Next PROVE OneCoursePerIdentity'
<1>1. rCourses \in Seq(Nat \union {Nil})
  BY DEF IInv, Typed
<1>2. CASE UNCHANGED rCourses
  BY <1>2 DEF IInv, OneCoursePerIdentity
<1>3. CASE /\ Here.identity \in Nat /\ rCourses' = Append(rCourses, Here.identity)
           /\ \A id \in DOMAIN rCourses : rCourses[id] # Here.identity
  BY <1>1, <1>3, Appended DEF IInv, OneCoursePerIdentity
<1> QED
  BY <1>2, <1>3, WhatIsAdded

(* The homework a request makes is in its unit, and for the class in hand; *)
(* both are of its course.                                                 *)
LEMMA HomeworkNext == ASSUME IInv, Next PROVE HomeworkInOwnCourse'
<1>1. \A n \in DOMAIN rWorks' : rUnits'[rWorks'[n].unit] = rWorks'[n].course
  <2>1. \A n \in DOMAIN rWorks : rUnits'[rWorks[n].unit] = rWorks[n].course
    BY TablesGrow DEF IInv, Refers, HomeworkInOwnCourse, Extends
  <2>2. CASE UNCHANGED rWorks
    BY <2>1, <2>2
  <2>3. CASE pc = "work" /\ WorkMade
    <3>1. rUnits'[unit] = course
      BY <2>3, NewWork, TablesGrow DEF Extends
    <3> QED
      BY <2>1, <2>3, <3>1, NewWork
  <2> QED
    BY <2>2, <2>3, WhatIsAdded
<1>2. ASSUME NEW c \in DOMAIN lessons, NEW row, row = lessons[c]
      PROVE  /\ row.course = rClasses'[c].course
             /\ row.homework # Nil =>
                   /\ rWorks'[row.homework].course = row.course
                   /\ rWorks'[row.homework].item = rClasses'[c].item
  BY <1>2, TablesGrow DEF IInv, Refers, HomeworkInOwnCourse, Extends
<1>3. CASE UNCHANGED lessons
  BY <1>1, <1>2, <1>3 DEF HomeworkInOwnCourse
<1>4. CASE lessons' # lessons
  <2>1. PICK c : NewRow(c)
    BY <1>4, RowsNext
  <2>2. rClasses'[c].course = course /\ rClasses'[c].item = <<ci, li>>
    BY <2>1, TablesGrow DEF NewRow, Extends
  <2>3. ASSUME NEW k \in DOMAIN lessons', k # c
        PROVE  k \in DOMAIN lessons /\ lessons'[k] = lessons[k]
    BY <2>1, <2>3 DEF NewRow
  <2>4. /\ lessons'[c].course = rClasses'[c].course
        /\ lessons'[c].homework # Nil =>
              /\ rWorks'[lessons'[c].homework].course = lessons'[c].course
              /\ rWorks'[lessons'[c].homework].item = rClasses'[c].item
    BY <2>1, <2>2 DEF NewRow
  <2> QED
    BY <1>1, <1>2, <2>3, <2>4 DEF HomeworkInOwnCourse
<1> QED
  BY <1>3, <1>4

(* Who submitted, and what the plan and the blocked courses are, stays     *)
(* until the next submission.                                              *)
LEMMA TeachersNext == ASSUME IInv, Next PROVE TeachersSettled'
<1>1. ASSUME NEW s \in Sessions, NEW choice \in [DOMAIN Plan -> Teachers \union {Nil}],
             Submit(s, choice)
      PROVE  TeachersSettled'
  BY <1>1, PlanOfSubmission DEF Submit, TeachersSettled
<1>2. CASE UNCHANGED <<who, plan, blocked>> /\ pc # "idle"
  BY <1>2 DEF IInv, TeachersSettled
<1>3. CASE Skip \/ Take \/ AddCourse \/ AddCourseRefused \/ RecordCourse \/ CreateUnit \/ CreateUnitRefused
           \/ CreateClassroom \/ CreateClassroomRefused \/ CreateHomework \/ CreateHomeworkRefused
  <2>1. UNCHANGED <<who, plan, blocked>> /\ pc # "idle"
    BY <1>3 DEF Skip, Take, AddCourse, AddCourseRefused, RecordCourse, CreateUnit,
                CreateUnitRefused, CreateClassroom, CreateClassroomRefused, CreateHomework,
                CreateHomeworkRefused, NextLesson, Advance
  <2> QED
    BY <1>2, <2>1
<1>4. CASE End \/ KeepLesson
  <2>1. UNCHANGED <<who, plan, blocked>> /\ pc # "idle"
    BY <1>4 DEF End, KeepLesson, NextLesson, Advance, request
  <2> QED
    BY <1>2, <2>1
<1>5. CASE Abort
  BY <1>5 DEF Abort, TeachersSettled
<1> QED
  BY <1>1, <1>3, <1>4, <1>5 DEF Next

(* A class is made under the teacher that was settled for its course.      *)
LEMMA OwnTeachersNext == ASSUME IInv, Next PROVE OwnTeachersOnly'
<1> DEFINE new == [course |-> course, teacher |-> Here.teacher, item |-> <<ci, li>>, by |-> who]
<1>1. CASE UNCHANGED rClasses
  BY <1>1 DEF IInv, OwnTeachersOnly
<1>2. CASE pc = "class" /\ rClasses' = Append(rClasses, new)
  <2>1. /\ ci \in DOMAIN Plan \ blocked /\ Here.teacher \in Teachers /\ who \in Sessions
        /\ course \in DOMAIN rCourses /\ <<ci, li>> \in Items
    BY <1>2, InsideCourse DEF InCourse, InLesson
  <2>2. DOMAIN rCourses \subseteq Nat
    BY LenProperties DEF IInv, Typed
  <2>3. new \in Class /\ new.by = who /\ new.teacher = Here.teacher
    BY <2>1, <2>2 DEF Class
  <2>4. /\ who.role = "teacher" => Here.teacher = who.teacher
        /\ who.role = "manager" => Here.teacher \in who.team
    BY <1>2, <2>1, PlanAssumption DEF IInv, TeachersSettled, Here
  <2> HIDE DEF new
  <2>5. /\ DOMAIN rClasses' = DOMAIN rClasses \union {Len(rClasses) + 1}
        /\ \A n \in DOMAIN rClasses : rClasses'[n] = rClasses[n]
        /\ rClasses'[Len(rClasses) + 1] = new
    BY <1>2, <2>3, Appended DEF IInv, Typed
  <2> QED
    BY <2>3, <2>4, <2>5 DEF IInv, OwnTeachersOnly
<1> QED
  BY <1>1, <1>2, WhatIsAdded

(* A class whose id comes back is made without a row, gets its row in the  *)
(* next step, or the request breaks off in between.                        *)
LEMMA ClassesNext == ASSUME IInv, Next PROVE ClassesAreKept'
<1> DEFINE Unkept == (DOMAIN rClasses \ DOMAIN lessons) \ lost
           Mine == IF pc = "keep" /\ class # Nil THEN 1 ELSE 0
<1>1. IsFiniteSet(Unkept) /\ Cardinality(Unkept) \in Nat /\ broken \in Nat
      /\ Cardinality(Unkept) <= broken + Mine
  <2>1. Len(rClasses) \in Nat /\ DOMAIN rClasses = 1..Len(rClasses)
    BY LenProperties DEF IInv, Typed
  <2>2. IsFiniteSet(DOMAIN rClasses)
    BY <2>1, FS_Interval
  <2>3. IsFiniteSet(Unkept)
    BY <2>2, FS_Subset
  <2> QED
    BY <2>3, FS_CardinalityType DEF IInv, Typed, ClassesAreKept
<1> SUFFICES Cardinality(Unkept') <= broken' + Mine'
  BY DEF ClassesAreKept
<1>2. CASE CreateClassroom /\ class' = Len(rClasses) + 1 /\ UNCHANGED lost
  <2>1. /\ pc = "class" /\ pc' = "keep" /\ UNCHANGED <<lessons, lost, broken>> /\ ClassMade
        /\ class' = Len(rClasses) + 1
    BY <1>2 DEF CreateClassroom, store
  <2>2. DOMAIN rClasses' = DOMAIN rClasses \union {Len(rClasses) + 1}
        /\ Len(rClasses) + 1 \notin DOMAIN rClasses
        /\ class' # Nil
    BY <2>1, NewClass, PlanAssumption
  <2>3. Unkept' = Unkept \union {Len(rClasses) + 1} /\ Len(rClasses) + 1 \notin Unkept
    BY <2>1, <2>2 DEF IInv, Refers
  <2>4. Mine = 0 /\ Mine' = 1
    BY <2>1, <2>2
  <2> HIDE DEF Unkept, Mine
  <2>5. Cardinality(Unkept') = Cardinality(Unkept) + 1
    BY <2>3, <1>1, FS_AddElement
  <2> QED
    BY <2>1, <2>4, <2>5, <1>1
<1>3. CASE /\ pc = "class" /\ ClassMade /\ lost' = lost \union {Len(rClasses) + 1}
           /\ UNCHANGED <<lessons, broken>>
  <2>1. DOMAIN rClasses' = DOMAIN rClasses \union {Len(rClasses) + 1}
        /\ Len(rClasses) + 1 \notin DOMAIN rClasses
    BY <1>3, NewClass
  <2>2. Unkept' = Unkept
    BY <1>3, <2>1
  <2>3. Mine = 0 /\ Mine' \in {0, 1}
    BY <1>3
  <2> HIDE DEF Unkept, Mine
  <2> QED
    BY <1>3, <2>2, <2>3, <1>1
<1>4. CASE KeepLesson /\ class # Nil
  <2>1. pc = "keep" /\ UNCHANGED <<rClasses, lost>> /\ DOMAIN lessons' = DOMAIN lessons \union {class}
        /\ broken' = broken /\ pc' # "keep"
    BY <1>4, AfterLesson DEF KeepLesson, Put, remote, tally, InLesson
  <2>2. class \in Unkept
    BY <1>4, <2>1 DEF IInv, Placed
  <2>3. Unkept' = Unkept \ {class}
    BY <2>1
  <2>4. Mine = 1 /\ Mine' = 0
    BY <1>4, <2>1
  <2> HIDE DEF Unkept, Mine
  <2>5. Cardinality(Unkept') = Cardinality(Unkept) - 1
    BY <2>2, <2>3, <1>1, FS_RemoveElement
  <2> QED
    BY <2>1, <2>4, <2>5, <1>1
<1>5. CASE Abort
  <2>1. UNCHANGED <<rClasses, lost, lessons>> /\ broken' = broken + 1 /\ pc' = "idle"
    BY <1>5 DEF Abort, store
  <2>2. Unkept' = Unkept /\ Mine' = 0 /\ Mine \in {0, 1}
    BY <2>1
  <2> HIDE DEF Unkept, Mine
  <2> QED
    BY <2>1, <2>2, <1>1
<1>6. CASE /\ UNCHANGED <<rClasses, lost>> /\ DOMAIN lessons' = DOMAIN lessons
           /\ broken' = broken /\ (pc # "keep" \/ class = Nil)
  <2>1. Unkept' = Unkept
    BY <1>6
  <2>2. Mine = 0 /\ Mine' \in {0, 1}
    BY <1>6
  <2> HIDE DEF Unkept, Mine
  <2> QED
    BY <2>1, <2>2, <1>6, <1>1
<1>7. CASE Skip \/ Take \/ End \/ AddCourse \/ AddCourseRefused \/ RecordCourse \/ CreateUnit
           \/ CreateUnitRefused \/ CreateHomework \/ CreateHomeworkRefused
  <2>1. /\ UNCHANGED <<rClasses, lost>> /\ DOMAIN lessons' = DOMAIN lessons
        /\ broken' = broken /\ pc # "keep"
    BY <1>7 DEF Skip, Take, End, AddCourse, AddCourseRefused, RecordCourse, CreateUnit,
                CreateUnitRefused, CreateHomework, CreateHomeworkRefused,
                remote, store, tally
  <2> QED
    BY <1>6, <2>1
<1>8. CASE KeepLesson /\ class = Nil
  <2>1. UNCHANGED <<rClasses, lost, lessons, broken>>
    BY <1>8 DEF KeepLesson, remote, tally
  <2> QED
    BY <1>6, <1>8, <2>1
<1>9. CASE CreateClassroomRefused \/ (CreateClassroom /\ IdLost)
  <2>1. /\ pc = "class" /\ UNCHANGED <<lessons, broken>>
        /\ \/ UNCHANGED <<rClasses, lost>>
           \/ ClassMade /\ lost' = lost \union {Len(rClasses) + 1}
    BY <1>9 DEF CreateClassroomRefused, CreateClassroom, IdLost, store
  <2> QED
    BY <1>3, <1>6, <2>1
<1>10. ASSUME NEW s \in Sessions, NEW choice \in [DOMAIN Plan -> Teachers \union {Nil}],
              Submit(s, choice)
       PROVE  UNCHANGED <<rClasses, lost, lessons, broken>> /\ pc # "keep"
  BY <1>10 DEF Submit, remote, store
<1>11. CreateClassroom => IdLost \/ (class' = Len(rClasses) + 1 /\ UNCHANGED lost)
  BY DEF CreateClassroom
<1> HIDE DEF Unkept, Mine
<1> QED
  BY <1>2, <1>4, <1>5, <1>6, <1>7, <1>8, <1>9, <1>10, <1>11 DEF Next

(* Each step leaves the local variables as the next one expects them.      *)
LEMMA PlacedNext == ASSUME IInv, Next PROVE Placed'
<1>a. /\ pc \in InCourse => ci \in DOMAIN Plan /\ ci \notin blocked /\ plan[ci].teacher # Nil
      /\ DOMAIN plan = DOMAIN Plan
      /\ Extends(rCourses, rCourses') /\ Extends(rUnits, rUnits') /\ Extends(rClasses, rClasses')
  BY TablesGrow DEF IInv, Placed, Typed
<1>b. pc \in InCourse => /\ plan[ci].homework \in Seq(BOOLEAN) /\ Len(plan[ci].homework) \in Nat
                         /\ DOMAIN plan[ci].homework = 1..Len(plan[ci].homework)
  BY <1>a, PlanFacts DEF IInv, Typed
<1>1. ASSUME NEW s \in Sessions, NEW choice \in [DOMAIN Plan -> Teachers \union {Nil}],
             Submit(s, choice)
      PROVE  Placed'
  BY <1>1 DEF Submit, Placed, InCourse, InLesson
<1>2. CASE Skip \/ AddCourseRefused
  BY <1>2 DEF Skip, AddCourseRefused, Advance, Placed, InCourse, InLesson
<1>3. CASE Take
  <2>1. Here.existing # Nil => Here.existing \in DOMAIN rCourses
    BY <1>3, <1>a, PlanFacts DEF Take, Here, IInv, Typed, Refers
  <2> QED
    BY <1>3, <1>a, <2>1 DEF Take, Here, IInv, Placed, InCourse, InLesson, remote
<1>4. CASE End
  BY <1>4, <1>a DEF End, request, Placed, InCourse, InLesson
<1>5. CASE AddCourse
  <2>1. course' \in DOMAIN rCourses'
    <3>1. CASE course' \in DOMAIN rCourses /\ UNCHANGED rCourses
      BY <3>1
    <3>2. CASE rCourses' = Append(rCourses, Here.identity) /\ course' = Len(rCourses) + 1
      BY <3>2, <1>5, InsideCourse, Appended DEF AddCourse, IInv, Typed, InCourse
    <3> QED
      BY <1>5, <3>1, <3>2 DEF AddCourse, CourseAt
  <2> QED
    BY <1>5, <1>a, <2>1 DEF AddCourse, IInv, Placed, InCourse, InLesson
<1>6. CASE RecordCourse
  BY <1>6, <1>a DEF RecordCourse, Advance, Here, remote, IInv, Placed, InCourse, InLesson
<1>7. CASE CreateUnit
  <2>1. course \in DOMAIN rCourses /\ DOMAIN rCourses \subseteq Nat
    BY <1>7, InsideCourse, LenProperties DEF CreateUnit, InCourse, IInv, Typed
  <2>2. unit' \in DOMAIN rUnits' /\ rUnits'[unit'] = course /\ unit' # Nil
    BY <1>7, <2>1, Appended, PlanAssumption DEF CreateUnit, IInv, Typed
  <2>3. li = 1 /\ plan[ci].homework # <<>>
    BY <1>7 DEF CreateUnit, IInv, Placed
  <2>4. li \in DOMAIN plan[ci].homework
    BY <1>7, <1>b, <2>3, EmptySeq DEF CreateUnit, InCourse
  <2> QED
    BY <1>7, <1>a, <2>1, <2>2, <2>4 DEF CreateUnit, Placed, InCourse, InLesson
<1>8. CASE CreateUnitRefused
  <2>1. li = 1 /\ plan[ci].homework # <<>> /\ unit = Nil /\ course \in DOMAIN rCourses
    BY <1>8 DEF CreateUnitRefused, IInv, Placed
  <2>2. li \in DOMAIN plan[ci].homework
    BY <1>8, <1>b, <2>1, EmptySeq DEF CreateUnitRefused, InCourse
  <2> QED
    BY <1>8, <1>a, <2>1, <2>2 DEF CreateUnitRefused, Report, Placed, InCourse, InLesson
<1>9. CASE CreateClassroom
  <2>1. pc = "class" /\ ClassMade /\ course \in DOMAIN rCourses
    BY <1>9, InsideCourse DEF CreateClassroom, InCourse, InLesson
  <2>2. class' # Nil => class' = Len(rClasses) + 1 /\ UNCHANGED lost
    BY <1>9 DEF CreateClassroom
  <2>3. class' # Nil => /\ class' \in DOMAIN rClasses'
                        /\ rClasses'[class'].course = course /\ rClasses'[class'].item = <<ci, li>>
                        /\ class' \notin DOMAIN rClasses
    BY <2>1, <2>2, NewClass
  <2>4. class' # Nil => class' \notin DOMAIN lessons' \union lost'
    BY <1>9, <2>2, <2>3 DEF CreateClassroom, store, IInv, Refers
  <2>5. /\ li \in DOMAIN plan[ci].homework
        /\ IF unit = Nil THEN <<"unit", ci, 0>> \in errors
           ELSE unit \in DOMAIN rUnits /\ rUnits[unit] = course
    BY <2>1 DEF IInv, Placed, InLesson
  <2> QED
    BY <1>9, <1>a, <2>1, <2>3, <2>4, <2>5 DEF CreateClassroom, Placed, InCourse, InLesson
<1>10. CASE /\ pc \in InLesson /\ NextLesson /\ errors \subseteq errors'
            /\ UNCHANGED <<rCourses, rUnits, course, unit>>
  <2>1. CASE li' = li + 1 /\ li < Len(Here.homework) /\ pc' = "class" /\ ci' = ci
    <3>1. li' \in DOMAIN plan[ci].homework
      BY <1>10, <2>1, <1>b DEF Here, InCourse, IInv, Typed
    <3>2. IF unit = Nil THEN <<"unit", ci, 0>> \in errors
          ELSE unit \in DOMAIN rUnits /\ rUnits[unit] = course
      BY <1>10 DEF IInv, Placed
    <3>3. course \in DOMAIN rCourses
      BY <1>10 DEF IInv, Placed
    <3> QED
      BY <1>10, <1>a, <2>1, <3>1, <3>2, <3>3, AfterLesson DEF Placed, InCourse, InLesson
  <2>2. CASE li' = 1 /\ pc' = "course"
    BY <2>2 DEF Placed, InCourse, InLesson
  <2> QED
    BY <1>10, <2>1, <2>2, AfterLesson
<1>11. CASE \/ CreateClassroomRefused \/ CreateHomework \/ CreateHomeworkRefused
            \/ KeepLesson /\ NextLesson /\ UNCHANGED <<course, unit, class, errors>>
  <2>1. /\ pc \in InLesson /\ NextLesson /\ errors \subseteq errors'
        /\ UNCHANGED <<rCourses, rUnits, course, unit>>
    BY <1>11 DEF CreateClassroomRefused, CreateHomework, CreateHomeworkRefused, KeepLesson,
                 InLesson, Report, remote
  <2> QED
    BY <1>10, <2>1
<1>12. CASE KeepLesson /\ Here.homework[li] /\ unit # Nil /\ pc' = "work" /\ UNCHANGED request
  <2>1. class # Nil => class \in DOMAIN lessons'
    BY <1>12 DEF KeepLesson, Put
  <2> QED
    BY <2>1, <1>12, <1>a DEF KeepLesson, IInv, Placed, remote, request, InCourse, InLesson
<1>13. KeepLesson => \/ NextLesson /\ UNCHANGED <<course, unit, class, errors>>
                     \/ Here.homework[li] /\ unit # Nil /\ pc' = "work" /\ UNCHANGED request
  BY DEF KeepLesson
<1>14. CASE Abort
  BY <1>14 DEF Abort, Placed, InCourse, InLesson
<1> QED
  BY <1>1, <1>2, <1>3, <1>4, <1>5, <1>6, <1>7, <1>8, <1>9, <1>11, <1>12, <1>13, <1>14 DEF Next

(* What is settled stays so during a submission.                           *)
LEMMA SettledStays ==
  ASSUME IInv, Next, errors \subseteq errors', made \subseteq made',
         NEW i, NEW l, Settled(i, l)
  PROVE  Settled(i, l)'
<1>1. \A n \in DOMAIN rWorks : n \in DOMAIN rWorks' /\ rWorks'[n] = rWorks[n]
  BY TablesGrow DEF Extends
<1> QED
  BY <1>1 DEF Settled

(* The lesson a request leaves is settled, and so is, with the last one,   *)
(* its course.                                                             *)
LEMMA LessonLeft ==
  ASSUME IInv, Next, errors \subseteq errors', made \subseteq made',
         pc \in InLesson, NextLesson, \A i, l : i = ci /\ l = li => Settled(i, l)'
  PROVE  PassedSettled'
<1> SUFFICES ASSUME NEW i \in DOMAIN Plan, NEW l \in DOMAIN Plan[i].homework,
                    i < ci' \/ (i = ci' /\ l < li')
             PROVE  Settled(i, l)'
  BY DEF PassedSettled
<1>a. ci \in DOMAIN Plan /\ Here.homework = Plan[ci].homework
  BY InsideCourse DEF InCourse
<1>1. /\ ci \in Nat /\ li \in Nat /\ i \in Nat /\ l \in Nat
      /\ Len(Here.homework) \in Nat /\ DOMAIN Plan[ci].homework = 1..Len(Here.homework)
  BY <1>a, PlanFacts DEF IInv, Typed
<1>b. i = ci => l <= Len(Here.homework)
  BY <1>1
<1>2. (i < ci \/ (i = ci /\ l < li)) \/ (i = ci /\ l = li)
  <2>1. CASE ci' = ci /\ li' = li + 1
    BY <1>1, <2>1
  <2>2. CASE ~(li < Len(Here.homework)) /\ li' = 1 /\ ci' = ci + 1
    <3>1. l \in Nat \ {0}
      BY PlanFacts
    <3> QED
      BY <1>1, <1>b, <2>2, <3>1
  <2> QED
    BY <2>1, <2>2, AfterLesson
<1>3. pc # "idle"
  BY DEF InLesson
<1>4. i < ci \/ (i = ci /\ l < li) => Settled(i, l)
  BY <1>3 DEF IInv, PassedSettled
<1>5. Settled(i, l) => Settled(i, l)'
  BY SettledStays
<1> QED
  BY <1>2, <1>4, <1>5

(* The loops pass a lesson or a course only once it is settled.            *)
LEMMA PassedNext == ASSUME IInv, Next PROVE PassedSettled'
<1>a. /\ ci \in Nat \ {0} /\ li \in Nat \ {0} /\ DOMAIN Plan \subseteq Nat \ {0}
      /\ \A i \in DOMAIN Plan : DOMAIN Plan[i].homework \subseteq Nat \ {0}
  BY PlanFacts DEF IInv, Typed
<1>1. ASSUME NEW s \in Sessions, NEW choice \in [DOMAIN Plan -> Teachers \union {Nil}],
             Submit(s, choice)
      PROVE  PassedSettled'
  BY <1>1, <1>a DEF Submit, PassedSettled
<1>2. CASE /\ ci' = ci /\ li' = li /\ errors \subseteq errors' /\ made \subseteq made'
           /\ pc # "idle"
  BY <1>2, SettledStays DEF IInv, PassedSettled
<1>3. CASE Take \/ End \/ AddCourse \/ CreateUnit \/ CreateUnitRefused \/ CreateClassroom
  <2>1. /\ ci' = ci /\ li' = li /\ errors \subseteq errors' /\ made \subseteq made' /\ pc # "idle"
    BY <1>3 DEF Take, End, AddCourse, CreateUnit, CreateUnitRefused, CreateClassroom, Report,
                request
  <2> QED
    BY <1>2, <2>1
<1>4. CASE /\ ci' = ci + 1 /\ li' = 1 /\ errors \subseteq errors' /\ made \subseteq made'
           /\ pc \in {"course", "add", "record"}
           /\ <<"course", ci, 0>> \in errors' \/ DOMAIN Plan[ci].homework = {}
  <2> SUFFICES ASSUME NEW i \in DOMAIN Plan, NEW l \in DOMAIN Plan[i].homework,
                      i < ci' \/ (i = ci' /\ l < li')
               PROVE  Settled(i, l)'
    BY DEF PassedSettled
  <2>1. i < ci \/ i = ci
    BY <1>4, <1>a
  <2>2. i < ci => Settled(i, l)
    BY <1>4 DEF IInv, PassedSettled
  <2>3. i = ci => Settled(i, l)'
    BY <1>4 DEF Settled
  <2> QED
    BY <1>4, <2>1, <2>2, <2>3, SettledStays
<1>5. CASE Skip \/ AddCourseRefused
  BY <1>4, <1>5 DEF Skip, AddCourseRefused, Advance, Report
<1>6. CASE RecordCourse
  <2>1. CASE Here.homework = <<>>
    <3>1. DOMAIN Plan[ci].homework = {}
      BY <1>6, <2>1, InsideCourse DEF RecordCourse, InCourse
    <3> QED
      BY <1>4, <1>6, <2>1, <3>1 DEF RecordCourse, Advance
  <2>2. CASE Here.homework # <<>>
    BY <1>2, <1>6, <2>2 DEF RecordCourse
  <2> QED
    BY <2>1, <2>2
<1>7. CASE CreateClassroomRefused
  <2>1. /\ pc \in InLesson /\ NextLesson /\ errors \subseteq errors'
        /\ <<"class", ci, li>> \in errors'
    BY <1>7 DEF CreateClassroomRefused, Report, InLesson
  <2>2. made \subseteq made'
    BY <2>1, AfterLesson
  <2>3. \A i, l : i = ci /\ l = li => Settled(i, l)'
    BY <2>1 DEF Settled
  <2> QED
    BY <2>1, <2>2, <2>3, LessonLeft
<1>b. pc \in {"keep", "work"} =>
         /\ pc \in InLesson /\ <<ci, li>> \in made /\ Here.homework = Plan[ci].homework
         /\ unit = Nil => <<"unit", ci, 0>> \in errors
  BY InsideCourse DEF IInv, Placed, InCourse, InLesson
<1>8. CASE KeepLesson /\ ~(Here.homework[li] /\ unit # Nil)
  <2>1. pc = "keep" /\ NextLesson /\ errors' = errors
    BY <1>8 DEF KeepLesson
  <2>2. made' = made
    BY <1>b, <2>1, AfterLesson
  <2>3. \A i, l : i = ci /\ l = li => Settled(i, l)'
    BY <1>8, <1>b, <2>1, <2>2 DEF Settled
  <2> QED
    BY <1>b, <2>1, <2>2, <2>3, LessonLeft
<1>9. CASE KeepLesson /\ Here.homework[li] /\ unit # Nil
  <2>1. UNCHANGED <<ci, li, errors, made>> /\ pc # "idle"
    BY <1>9 DEF KeepLesson, request
  <2> QED
    BY <1>2, <2>1
<1>10. CASE CreateHomework
  <2>1. pc = "work" /\ NextLesson /\ errors' = errors /\ WorkMade
    BY <1>10 DEF CreateHomework
  <2>2. made' = made
    BY <1>b, <2>1, AfterLesson
  <2>3. \E n \in DOMAIN rWorks' : rWorks'[n].item = <<ci, li>>
    BY <2>1, NewWork
  <2>4. \A i, l : i = ci /\ l = li => Settled(i, l)'
    BY <1>b, <2>1, <2>2, <2>3 DEF Settled
  <2> QED
    BY <1>b, <2>1, <2>2, <2>4, LessonLeft
<1>11. CASE CreateHomeworkRefused
  <2>1. /\ pc = "work" /\ NextLesson /\ errors \subseteq errors'
        /\ <<"work", ci, li>> \in errors'
    BY <1>11 DEF CreateHomeworkRefused, Report
  <2>2. made' = made
    BY <1>b, <2>1, AfterLesson
  <2>3. \A i, l : i = ci /\ l = li => Settled(i, l)'
    BY <1>b, <2>1, <2>2 DEF Settled
  <2> QED
    BY <1>b, <2>1, <2>2, <2>3, LessonLeft
<1>12. CASE Abort
  BY <1>12 DEF Abort, PassedSettled
<1> QED
  BY <1>1, <1>3, <1>5, <1>6, <1>7, <1>8, <1>9, <1>10, <1>11, <1>12 DEF Next

(* No step breaks the invariant.                                           *)
LEMMA NextInv == IInv /\ [Next]_vars => IInv'
<1>1. IInv /\ Next => IInv'
  BY TypedNext, RefersNext, PlacedNext, CoursesNext, HomeworkNext, ClassesNext, TeachersNext,
     OwnTeachersNext, PassedNext DEF IInv
<1>2. IInv /\ UNCHANGED vars => IInv'
  <2> SUFFICES ASSUME IInv, UNCHANGED vars PROVE IInv'
    OBVIOUS
  <2>1. UNCHANGED <<rCourses, rUnits, rClasses, rWorks, lost, lessons, pc, plan, ci, li, made,
                    class, submits, broken, untold>>
    BY DEF vars, remote, store, request, tally
  <2>2. UNCHANGED <<who, blocked, course, unit, class, errors>>
    BY DEF vars, remote, store, request, tally
  <2>3. Typed'
    BY <2>1 DEF IInv, Typed
  <2>4. Refers' /\ OneCoursePerIdentity' /\ HomeworkInOwnCourse' /\ ClassesAreKept'
    BY <2>1 DEF IInv, Refers, OneCoursePerIdentity, HomeworkInOwnCourse, ClassesAreKept
  <2>5. Placed' /\ TeachersSettled' /\ OwnTeachersOnly'
    BY <2>1, <2>2 DEF IInv, Placed, TeachersSettled, OwnTeachersOnly
  <2>6. PassedSettled'
    BY <2>1, <2>2 DEF IInv, PassedSettled, Settled
  <2> QED
    BY <2>3, <2>4, <2>5, <2>6 DEF IInv
<1> QED
  BY <1>1, <1>2

(* So it holds always.                                                     *)
LEMMA InvAlways == Spec => []IInv
  BY InitInv, NextInv, PTL DEF Spec

-----------------------------------------------------------------------------
(* Ids refer to what is there, and counters stay in their bounds.          *)
THEOREM TypeCorrect == Spec => []TypeOK
<1>1. IInv => TypeOK
  <2> SUFFICES ASSUME IInv PROVE TypeOK
    OBVIOUS
  <2>1. rUnits \in Seq(DOMAIN rCourses)
    <3>1. /\ Len(rUnits) \in Nat /\ DOMAIN rUnits = 1..Len(rUnits)
          /\ rUnits \in [1..Len(rUnits) -> Nat]
      BY LenProperties DEF IInv, Typed
    <3>2. rUnits \in [1..Len(rUnits) -> DOMAIN rCourses]
      BY <3>1 DEF IInv, Refers
    <3> QED
      BY <3>1, <3>2, SeqDef
  <2>2. \A n \in DOMAIN rClasses : rClasses[n].teacher \in Teachers
    <3>1. rClasses \in Seq(Class)
      BY DEF IInv, Typed
    <3>2. rClasses \in [DOMAIN rClasses -> Class]
      BY <3>1, LenProperties
    <3> QED
      BY <3>2 DEF Class
  <2>3. broken \in 0..submits
    BY DEF IInv, Typed
  <2> QED
    BY <2>1, <2>2, <2>3 DEF IInv, Typed, Refers, TypeOK, InCourse, InLesson
<1> QED
  BY <1>1, InvAlways, PTL

(* A course of the plan is made once at ClassIn, however often the plan is *)
(* submitted and wherever a submission broke off.                          *)
THEOREM OneCourseEach == Spec => []OneCoursePerIdentity
<1>1. IInv => OneCoursePerIdentity
  BY DEF IInv
<1> QED
  BY <1>1, InvAlways, PTL

(* Homework is filed in a unit of its own course, and the row of a class   *)
(* has the class's course and homework of its lesson.                      *)
THEOREM HomeworkFiledRight == Spec => []HomeworkInOwnCourse
<1>1. IInv => HomeworkInOwnCourse
  BY DEF IInv
<1> QED
  BY <1>1, InvAlways, PTL

(* Of the classes whose id came back, at most one has no row for each      *)
(* submission that broke off.                                              *)
THEOREM ClassesKept == Spec => []ClassesAreKept
<1>1. IInv => ClassesAreKept
  BY DEF IInv
<1> QED
  BY <1>1, InvAlways, PTL

(* No class is ever made under a teacher its submitter may not act for.    *)
THEOREM OwnTeachers == Spec => []OwnTeachersOnly
<1>1. IInv => OwnTeachersOnly
  BY DEF IInv
<1> QED
  BY <1>1, InvAlways, PTL

(* A submission that comes to its end has made, or reported, everything    *)
(* the plan lists.                                                         *)
THEOREM NothingIsSilent == Spec => []NothingSilent
<1>1. IInv => NothingSilent
  <2> SUFFICES ASSUME IInv, pc = "done" PROVE NothingSilent
    BY DEF NothingSilent
  <2>1. ci \in Nat \ {0} /\ ci \notin DOMAIN Plan
    BY DEF IInv, Typed, Placed
  <2>2. ASSUME NEW i \in DOMAIN Plan, NEW l \in DOMAIN Plan[i].homework
        PROVE  Settled(i, l)
    <3>1. i < ci
      BY <2>1, PlanFacts
    <3> QED
      BY <3>1 DEF IInv, PassedSettled
  <2>3. ASSUME NEW it \in Items
        PROVE  \E i \in DOMAIN Plan : \E l \in DOMAIN Plan[i].homework : it = <<i, l>>
    BY DEF Items
  <2>4. ASSUME NEW it \in Items
        PROVE  it = <<it[1], it[2]>> /\ Settled(it[1], it[2])
    BY <2>2, <2>3
  <2> QED
    BY <2>4 DEF NothingSilent, Settled
<1> QED
  BY <1>1, InvAlways, PTL
=============================================================================
