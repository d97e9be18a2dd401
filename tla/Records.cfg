SPECIFICATION Spec
CONSTANTS
    s1 = s1
    s2 = s2
    t1 = t1
    c1 = c1
    k1 = k1
    k2 = k2
    a1 = a1
    Nil = Nil
    Unknown = Unknown
    Students <- MCStudents
    Teachers <- MCTeachers
    Courses <- MCCourses
    Classes <- MCClasses
    Activities <- MCActivities
    Dates <- MCDates
    Recent <- MCRecent
    Scores <- MCScores
    Events <- MCEvents
    Console <- MCConsole
    Synced <- MCSynced
    MaxCrashes = 1
INVARIANTS TypeOK NothingOverwritten CourseKept
PROPERTIES OnlySubmittingClears
