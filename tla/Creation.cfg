SPECIFICATION Spec
CHECK_DEADLOCK FALSE
CONSTANTS
    t1 = t1
    t2 = t2
    Nil = Nil
    Plan <- MCPlan
    Teachers <- MCTeachers
    Sessions <- Restricted
    MaxSubmits = 2
    MaxUntold = 1
INVARIANTS TypeOK OneCoursePerIdentity HomeworkInOwnCourse ClassesAreKept NothingSilent OwnTeachersOnly
