----------------------------- MODULE ScopedReads -----------------------------
(***************************************************************************)
(* What a page shows of the store: the scoped queries of store.py that the *)
(* pages of routes_dashboard, routes_notify and routes_create call.        *)
(*                                                                         *)
(* Branches says what a scope allows at one moment.  A page has no such    *)
(* moment: its rows, the courses, the teachers and who taught what are     *)
(* read one after the other, each in a transaction of its own, in a pool   *)
(* thread.  Meanwhile the event loop runs webhooks and assignments, and a  *)
(* sync another thread.  Here a page is read step by step between them.    *)
(***************************************************************************)
EXTENDS Naturals, Sequences, FiniteSets

CONSTANTS
    Nil,
    Courses, Teachers, Students, Branches, Lessons,
    Scopes,    \* the scopes of the sessions, see ScopeType
    Fresh,     \* rows the webhook may add, to records and to events
    Sheets,    \* what an Attendance may write over a record, see SheetType
    Limit,     \* the limit of a list
    Scan,      \* notification_history: the rows it reads for a scope
    MaxWrites, \* bound: writes to the tables while a page is read
    MaxPages   \* bound: pages opened

(* scope_for: one branch, one teacher or everything.  An id may be Nil (a  *)
(* manager without a branch, a teacher without a uid): nothing matches.    *)
ScopeType == [kind : {"all", "branch", "teacher"}, id : Branches \union Teachers \union {Nil}]

Kinds == {"records", "missing", "events", "counts", "history"}

(* lesson_records.  recent: lesson_date is in the window of missing        *)
(* homework (a row without a date is not).  A submission writes            *)
(* homework_submitted and homework_activity_id together.  events has rows  *)
(* of this shape, whose lesson, submission and date no query looks at.     *)
RowType ==
    [lesson : Lessons, course : Courses \union {Nil}, teacher : Teachers \union {Nil},
     student : Students, submitted : BOOLEAN, recent : BOOLEAN]

(* lessons, with a homework_activity_id or not yet.                        *)
LessonType == [course : Courses \union {Nil}, teacher : Teachers \union {Nil}, homework : BOOLEAN]

(* The rows of courses and teachers.                                       *)
CourseTable == [Courses -> [branch : Branches \union {Nil}, teacher : Teachers \union {Nil}]]
TeacherTable == [Teachers -> Branches \union {Nil}]

(* What an Attendance says of a class: its course, its teacher, its date.  *)
SheetType == [course : Courses \union {Nil}, teacher : Teachers \union {Nil}, recent : BOOLEAN]

ASSUME ReadAssumption ==
    /\ Scopes \subseteq ScopeType
    /\ Fresh \subseteq RowType
    /\ Sheets \subseteq SheetType
    /\ {Limit, Scan, MaxWrites, MaxPages} \subseteq Nat
    /\ MaxWrites # 0
    /\ Limit <= Scan
    /\ Nil \notin Courses \union Teachers \union Branches \union Kinds

VARIABLES
    courses,  \* courses table: id -> [branch, teacher]
    teachers, \* teachers table: uid -> branch
    lessons,  \* lessons table
    records,  \* lesson_records
    events,   \* events, oldest first
    notes,    \* notify_history, oldest first
    page,     \* the page being read, with what it has read
    writes,   \* history: writes to the tables since it was opened
    ever, always, \* history: the facts, see Facts, of some moment, of every moment since
    pages

tables == <<courses, teachers, lessons, records, events>>
vars == <<tables, notes, page, writes, ever, always, pages>>

-----------------------------------------------------------------------------
(* The scope functions of store.py, over what was read of the tables.      *)

TeamOf(scope, teacherRows) ==
    IF scope.kind = "teacher" THEN {scope.id} \ {Nil}
    ELSE { t \in Teachers : teacherRows[t] = scope.id /\ scope.id # Nil }

(* Mutant of TaughtBy: a lesson without a teacher counts as taught.        *)
TaughtByNobody(team, rows) ==
    { c \in Courses : \E i \in DOMAIN rows :
        rows[i].course = c /\ rows[i].teacher \in team \union {Nil} }

TaughtBy(team, rows) ==
    { c \in Courses : \E i \in DOMAIN rows : rows[i].course = c /\ rows[i].teacher \in team }

CourseIds(scope, courseRows, team, taught) ==
    { c \in Courses :
        \/ scope.kind = "branch" /\ courseRows[c].branch = scope.id /\ scope.id # Nil
        \/ courseRows[c].teacher \in team
        \/ c \in taught }

(* _row_in_scope                                                           *)
InScope(row, ids, uids) == row.course \in ids \/ row.teacher \in uids

(* What a scope is, of one moment, which no page has: its teachers; their  *)
(* rows; the rows of the branch's courses, of the courses they lead and of *)
(* the courses they taught a lesson of.                                    *)
OwnTeacher(scope, t) ==
    /\ t # Nil
    /\ \/ scope.kind = "teacher" /\ t = scope.id
       \/ scope.kind = "branch" /\ teachers[t] = scope.id /\ scope.id # Nil

OwnCourse(scope, c) ==
    /\ c # Nil
    /\ \/ scope.kind = "branch" /\ courses[c].branch = scope.id /\ scope.id # Nil
       \/ OwnTeacher(scope, courses[c].teacher)
       \/ \E i \in DOMAIN records : records[i].course = c /\ OwnTeacher(scope, records[i].teacher)

RowsNow(scope, rows) ==
    { i \in DOMAIN rows :
        scope.kind = "all" \/ OwnTeacher(scope, rows[i].teacher) \/ OwnCourse(scope, rows[i].course) }

(* What was so at one moment, for a page: the rows of its table in its     *)
(* scope.  For missing homework also which records are open, recent and    *)
(* not submitted, whoever's they are; and what tells of homework: a record *)
(* in the scope that is submitted, a lesson in the scope that has some.    *)
Facts(p) ==
    LET mine == RowsNow(p.scope, records)
        missing == p.kind = "missing"
    IN  [rows |-> CASE p.kind = "history" ->
                         { i \in DOMAIN notes : \/ p.scope.kind = "all"
                                                \/ \E j \in mine : records[j].student = notes[i].student }
                    [] p.kind \in {"events", "counts"} -> RowsNow(p.scope, events)
                    [] OTHER -> mine,
         open |-> { i \in DOMAIN records : missing /\ records[i].recent /\ ~records[i].submitted },
         told |-> { i \in mine : missing /\ records[i].submitted },
         homework |-> { l \in RowsNow(p.scope, lessons) : missing /\ lessons[l].homework }]

NoFacts == [rows |-> {}, open |-> {}, told |-> {}, homework |-> {}]

Either(f, g) ==
    [rows |-> f.rows \union g.rows, open |-> f.open \union g.open,
     told |-> f.told \union g.told, homework |-> f.homework \union g.homework]

Both(f, g) ==
    [rows |-> f.rows \intersect g.rows, open |-> f.open \intersect g.open,
     told |-> f.told \intersect g.told, homework |-> f.homework \intersect g.homework]

(* What a page of this kind should show by these facts.                    *)
Due(kind, f) ==
    IF kind # "missing" THEN f.rows
    ELSE { i \in f.rows \intersect f.open :
             records[i].lesson \in f.homework \union { records[j].lesson : j \in f.told } }

-----------------------------------------------------------------------------
NoPage ==
    [kind |-> Nil, scope |-> Nil, pc |-> "closed", query |-> 1, rows |-> <<>>, courses |-> Nil,
     team |-> {}, taught |-> {}, uids |-> {}, kept |-> {}, due |-> {}, shown |-> {}]

Steps == {"rows", "courses", "team", "taught", "uids", "notes"}

PageTypeOK ==
    /\ courses \in CourseTable
    /\ teachers \in TeacherTable
    /\ lessons \in [Lessons -> LessonType]
    /\ records \in Seq(RowType)
    /\ events \in Seq(RowType)
    /\ \A i \in DOMAIN notes : notes[i].student \in Students
    /\ page.pc \in Steps \union {"closed", "shown"}
    /\ page.query \in 1..3 /\ (page.query > 1 => page.kind = "missing")
    /\ page.kept \subseteq DOMAIN records /\ page.due \subseteq Lessons
    /\ page.shown \subseteq 1..(Len(records) + Len(events) + Len(notes))
    /\ writes \in 0..(MaxWrites + 1)
    /\ always.rows \subseteq ever.rows
    /\ pages \in 0..MaxPages

(* Every step of the page's time adds to ever and takes from always.       *)
Watch ==
    /\ ever' = Either(ever, Facts(page)')
    /\ always' = Both(always, Facts(page)')

OpenPage(kind, scope) ==
    /\ page.pc \in {"closed", "shown"}
    /\ pages < MaxPages
    /\ pages' = pages + 1
    /\ page' = [NoPage EXCEPT !.kind = kind, !.scope = scope,
                    !.pc = IF kind = "counts" /\ scope.kind # "all" THEN "courses" ELSE "rows"]
    /\ writes' = 0
    /\ ever' = Facts(page')
    /\ always' = ever'
    /\ UNCHANGED <<tables, notes>>

Reading(pc, next) ==
    /\ page.pc = pc
    /\ page' = next
    /\ UNCHANGED <<tables, notes, writes, pages>>
    /\ Watch

(* The last n rows of a table, by their numbers.                           *)
Newest(rows, n) == { i \in DOMAIN rows : i + n > Len(rows) }

(* The numbers of the rows that the page's query returned: lesson_records  *)
(* has no limit, events has it before the scope is looked at.              *)
Fetched(p) == IF p.kind = "events" THEN Newest(p.rows, Limit) ELSE DOMAIN p.rows

(* _row_in_scope with the keys the page has read.                          *)
Filtered(p) ==
    LET ids == CourseIds(p.scope, p.courses, p.team, p.taught)
    IN  { i \in Fetched(p) : InScope(p.rows[i], ids, p.uids) }

Show(p, rows) == [p EXCEPT !.pc = "shown", !.shown = rows]

(* missing_homework_rows asks for the records of its window, for all the   *)
(* records and for the lessons, each under the scope and with its keys     *)
(* read anew (and for the students, for their names): submitted is looked  *)
(* up in what the first query returned, homework in the two others.        *)
Queried(p) ==
    IF p.kind \in {"events", "counts"} THEN events
    ELSE IF p.query = 3 THEN lessons ELSE records

NextQuery(p) ==
    [NoPage EXCEPT !.kind = p.kind, !.scope = p.scope, !.pc = "rows", !.query = p.query + 1,
                   !.kept = p.kept, !.due = p.due]

Answer(p, found) ==
    IF p.kind # "missing" THEN Show(p, found)
    ELSE IF p.query = 1
    THEN NextQuery([p EXCEPT !.kept =
                      { i \in found : p.rows[i].recent /\ ~p.rows[i].submitted }])
    ELSE IF p.query = 2
    THEN NextQuery([p EXCEPT !.due = { p.rows[i].lesson : i \in { j \in found : p.rows[j].submitted } }])
    ELSE LET due == p.due \union { l \in found : p.rows[l].homework }
         IN  Show(p, { i \in p.kept : records[i].lesson \in due })

(* The owner's queries look at no scope: the rows are the page.            *)
ReadRows ==
    LET p == [page EXCEPT !.rows = Queried(page)]
        scoped == page.scope.kind # "all"
    IN  Reading("rows",
          IF scoped /\ page.kind # "counts" THEN [p EXCEPT !.pc = "courses"]
          ELSE IF page.kind = "history" THEN [p EXCEPT !.pc = "notes"]
          ELSE Answer(p, IF scoped THEN Filtered(p) ELSE Fetched(p)))

ReadCourses ==
    Reading("courses",
      IF page.scope.kind = "branch" THEN [page EXCEPT !.courses = courses, !.pc = "team"]
      ELSE [page EXCEPT !.courses = courses, !.team = {page.scope.id} \ {Nil}, !.pc = "taught"])

ReadTeam == Reading("team", [page EXCEPT !.team = TeamOf(page.scope, teachers), !.pc = "taught"])

ReadTaught == Reading("taught", [page EXCEPT !.taught = TaughtBy(page.team, records), !.pc = "uids"])

(* teacher_uids_in_scope is asked again, for the rows' own teacher.        *)
ReadUids ==
    LET p == [page EXCEPT !.uids = TeamOf(page.scope, teachers)]
    IN  Reading("uids",
          IF page.kind = "counts" THEN [p EXCEPT !.pc = "rows"]
          ELSE IF page.kind = "history" THEN [p EXCEPT !.pc = "notes"]
          ELSE Answer(p, Filtered(p)))

(* The newest Limit of a set of row numbers.                               *)
Top(s) == { i \in s : Cardinality({ j \in s : j > i }) < Limit }

(* Mutant of ShownNotes: a scope gets no more rows to look through.        *)
ShownNotesOfLimit(p) ==
    { i \in Newest(notes, Limit) :
        p.scope.kind = "all" \/ notes[i].student \in { p.rows[j].student : j \in Filtered(p) } }

(* notification_history: of the last Scan rows those of students who have  *)
(* a record in scope, the newest Limit of them.                            *)
ShownNotes(p) ==
    IF p.scope.kind = "all" THEN Newest(notes, Limit)
    ELSE LET people == { p.rows[j].student : j \in Filtered(p) }
         IN  Top({ i \in Newest(notes, Scan) : notes[i].student \in people })

ReadNotes == Reading("notes", Show(page, ShownNotes(page)))

-----------------------------------------------------------------------------
(* Writers, each a transaction, of one row.                                *)

(* ... counted to one more than the tables' bound: a notice is a write too. *)
CountWrite == IF writes > MaxWrites THEN writes ELSE writes + 1

Write ==
    /\ page.pc \in Steps
    /\ writes < MaxWrites
    /\ writes' = CountWrite
    /\ UNCHANGED <<notes, page, pages>>
    /\ Watch

(* Assignment page: set_course_branch and set_teacher_branch.  A sync of a *)
(* branch assigns courses too.                                             *)
AssignCourse(c, b) ==
    /\ courses' = [courses EXCEPT ![c].branch = b]
    /\ UNCHANGED <<teachers, lessons, records, events>>
    /\ Write

AssignTeacher(t, b) ==
    /\ teachers' = [teachers EXCEPT ![t] = b]
    /\ UNCHANGED <<courses, lessons, records, events>>
    /\ Write

(* A sync: upsert_course with the main teacher ClassIn names.              *)
Lead(c, t) ==
    /\ courses' = [courses EXCEPT ![c].teacher = t]
    /\ UNCHANGED <<teachers, lessons, records, events>>
    /\ Write

(* upsert_lesson, which keeps what it is not given: an Attendance and a    *)
(* sync give the course, course creation the course and its teacher ...    *)
HoldLesson(l, c, t) ==
    /\ lessons' = [lessons EXCEPT ![l].course = c, ![l].teacher = IF t = Nil THEN @ ELSE t]
    /\ UNCHANGED <<courses, teachers, records, events>>
    /\ Write

(* ... and then the homework it made.                                      *)
GiveHomework(l) ==
    /\ lessons' = [lessons EXCEPT ![l].homework = TRUE]
    /\ UNCHANGED <<courses, teachers, records, events>>
    /\ Write

(* Webhooks: insert_event; upsert_lesson_record, of a lesson and a student *)
(* without a record, or over theirs.  Each writes the course its event     *)
(* names, or none; an Attendance the teacher, or none, and the date, and a *)
(* HomeworkSubmit the submission too.                                      *)
InsertEvent(row) ==
    /\ events' = Append(events, row)
    /\ UNCHANGED <<courses, teachers, lessons, records>>
    /\ Write

AddRecord(row) ==
    /\ \A i \in DOMAIN records : <<records[i].lesson, records[i].student>> # <<row.lesson, row.student>>
    /\ records' = Append(records, row)
    /\ UNCHANGED <<courses, teachers, lessons, events>>
    /\ Write

Overwrite(i, row) ==
    /\ records' = [records EXCEPT ![i] = row]
    /\ UNCHANGED <<courses, teachers, lessons, events>>
    /\ Write

Attend(i, sheet) ==
    Overwrite(i, [records[i] EXCEPT !.course = sheet.course, !.teacher = sheet.teacher,
                                    !.recent = sheet.recent])

Submit(i, c) == Overwrite(i, [records[i] EXCEPT !.course = c, !.submitted = TRUE])

(* End and HomeworkScore.                                                  *)
Patch(i, c) == Overwrite(i, [records[i] EXCEPT !.course = c])

LoopWrites ==
    \/ \E t \in Teachers, b \in Branches \union {Nil} : AssignTeacher(t, b)
    \/ \E l \in Lessons, c \in Courses, t \in Teachers \union {Nil} : HoldLesson(l, c, t)
    \/ \E l \in Lessons : GiveHomework(l)
    \/ \E row \in Fresh : InsertEvent(row) \/ AddRecord(row)
    \/ \E i \in DOMAIN records :
          \/ \E sheet \in Sheets : Attend(i, sheet)
          \/ \E c \in Courses \union {Nil} : Submit(i, c) \/ Patch(i, c)

PoolSteps ==
    \/ \E kind \in Kinds, scope \in Scopes : OpenPage(kind, scope)
    \/ ReadRows \/ ReadCourses \/ ReadTeam \/ ReadTaught \/ ReadUids \/ ReadNotes
    \/ \E c \in Courses, t \in Teachers : Lead(c, t)
    \/ \E c \in Courses, b \in Branches \union {Nil} : AssignCourse(c, b)

-----------------------------------------------------------------------------
(* Properties of a page that is shown.                                     *)

(* If no more than one row of the tables was written while it was read, a  *)
(* page shows nothing that was not in its scope at some moment meanwhile.  *)
(* With two it may: the lesson that made a course the teacher's loses it,  *)
(* then a row of that course comes.  A recorded notice is a write as well. *)
(* A row of missing homework was also open at some moment, and something   *)
(* told the scope of its lesson's homework at some moment; these moments   *)
(* need not be one: the queries are not.                                   *)
ShownWasInScope ==
    page.pc = "shown" /\ writes <= 1 => page.shown \subseteq Due(page.kind, ever)

(* ... and it hides nothing that was in its scope all the while, but for   *)
(* its limits: an event with Limit newer events, of whatever scope; a      *)
(* notice with Scan newer ones, or with Limit newer ones on the page.      *)
(* Missing homework is shown if the row was open all the while and the     *)
(* same record, or the lesson, told of the homework; with one that told    *)
(* before the write and another after it, the row may be hidden.           *)
InScopeIsShown ==
    page.pc = "shown" /\ writes <= 1 =>
    \A i \in Due(page.kind, always) \ page.shown :
        \/ page.kind = "events" /\ Len(events) - i >= Limit
        \/ /\ page.kind = "history"
           /\ \/ Cardinality({ j \in page.shown : j > i }) >= Limit
              \/ page.scope.kind # "all" /\ Len(notes) - i >= Scan
=============================================================================
