SPECIFICATION Spec
CONSTANTS
    c1 = c1
    t1 = t1
    Nil = Nil
    School = School
    Courses <- MCCourses
    Teachers <- MCTeachers
    Hosted <- MCHosted
    Main <- MCMain
    MaxBranches = 2
INVARIANTS TypeOK DanglingIsStale PulledIsTagged SeenCoursesOpen
PROPERTIES NewBranchIsEmpty
