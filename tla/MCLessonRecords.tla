--------------------------- MODULE MCLessonRecords ---------------------------
(* One class (k1) with every kind of event, a console lesson and a sync on  *)
(* it: attended, and once more for another date out of the window, scored   *)
(* with and without a percentage; and one (k2) whose End has no CourseID.   *)
EXTENDS LessonRecords

CONSTANTS s1, s2, t1, c1, k1, k2, a1

MCStudents == {s1, s2}
MCTeachers == {t1}
MCCourses == {c1}
MCClasses == {k1, k2}
MCActivities == {a1}
MCDates == {"old", "new"}
MCRecent == {"new"}
MCScores == {"high"}

MemberOf(u, r, l) == [uid |-> u, role |-> r, label |-> l]

Attended(date, members) ==
    [kind |-> "Attendance", class |-> k1, course |-> c1, date |-> date, members |-> members]
Ended(k, c, us) == [kind |-> "End", class |-> k, course |-> c, uids |-> us]
Submitted(k, u) ==
    [kind |-> "HomeworkSubmit", class |-> k, course |-> c1, activity |-> a1, uid |-> u]
Scored(score) ==
    [kind |-> "HomeworkScore", class |-> k1, course |-> c1, activity |-> a1, uid |-> s1,
     score |-> score]

MCEvents ==
    { Attended("new", << MemberOf(s1, "student", "present"), MemberOf(t1, "teacher", "present"),
                         MemberOf(s2, "student", "absent") >>),
      Attended("old", << MemberOf(s1, "student", "late") >>),
      Ended(k1, c1, {s1}), Ended(k2, Nil, {s2}),
      Submitted(k1, s1), Submitted(Nil, s2), Scored("high"), Scored(Nil) }

MCConsole == { [class |-> k1, course |-> c1, teacher |-> t1, homework |-> a1] }

(* Of what a sync calls, the lesson: no other row depends on the rest.     *)
MCSynced == << LessonCall(k1, c1, t1, Nil) >>
=============================================================================
