--------------------------- MODULE MCCourseCreation ---------------------------
(* Two courses, the first new, the second reused; three classes, two with  *)
(* homework.                                                               *)
EXTENDS CourseCreation

CONSTANTS t1, t2

MCTeachers == {t1, t2}

MCPlan ==
    << [identity |-> 1, teacher |-> t1, existing |-> Nil, homework |-> <<TRUE, FALSE>>],
       [identity |-> 2, teacher |-> Nil, existing |-> 1, homework |-> <<TRUE>>] >>

Manager == [role |-> "manager", teacher |-> Nil, team |-> {t2}]
Teacher == [role |-> "teacher", teacher |-> t2, team |-> {}]
Unlinked == [role |-> "teacher", teacher |-> Nil, team |-> {}]

(* An owner's plan is taken as a manager's of own teachers is.             *)
Restricted == {Manager, Teacher, Unlinked}
=============================================================================
