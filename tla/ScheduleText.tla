----------------------------- MODULE ScheduleText -----------------------------
(***************************************************************************)
(* intelligence/schedule_parser.py: from what a teacher pastes to the plan *)
(* that CourseCreation executes (smart_parse, on POST /create/parse).      *)
(*                                                                         *)
(* A line is what the regular expressions recognise in it, so the model    *)
(* begins where they end: which weekdays, clock readings, dates and counts *)
(* a line carries is data, what the code makes of them is modelled.  Days  *)
(* are counted from a Monday, moments in minutes, all in KST.              *)
(***************************************************************************)
EXTENDS Integers, Sequences, FiniteSets, SequencesExt

CONSTANTS
    Nil,
    Today,      \* the day of the request
    MonthStart, \* the days on which the months of today's year begin
    Texts,      \* what may be pasted, see TextType
    Answers,    \* course lists Claude may answer with
    Teams,      \* what teacher uids may be in the session's scope
    Existing,   \* the courses in its scope, newest first: [id, leader]
    Alike,      \* Alike[name][uid]: likeness of two teacher names, in percent
    Same        \* Same[name][i]: likeness of a name and of Existing[i]'s

(* The names that occur, of courses and of teachers.                       *)
Names == DOMAIN Same
TeacherNames == DOMAIN Alike

(* "19:30" and "7시 30분" are clock readings, "7시" is an hour, "7" is bare: *)
(* the last two have no minutes.                                           *)
Reading ==
    { r \in [h : 0..99, m : 0..99, form : {"clock", "hour", "bare"}, am : BOOLEAN, pm : BOOLEAN] :
        r.form = "clock" \/ r.m = 0 }

(* A range: "19:00-21:00" is in clock form, "7-9시" in hours.               *)
Span == [from : (0..99) \X (0..99), to : (0..99) \X (0..99), form : {"clock", "hours"},
         am : BOOLEAN]

CourseLine ==
    [kind : {"course"}, name : Names, teacher : TeacherNames \union {Nil},
     days : SUBSET (0..6), span : Span \union {Nil}, date : Int \union {Nil},
     nth : ((0..99) \union {Nil}) \X (1..5) \union {Nil},
     week : {"none", "next", "this"}, weeks : Nat \union {Nil}, sessions : Nat \union {Nil}]

(* due: the days of "이틀 뒤" and the like.                                  *)
HomeworkLine == [kind : {"homework"}, due : Nat \union {Nil}]

Row ==
    [kind : {"row"}, course_name : Names \union {Nil}, teacher : TeacherNames \union {Nil},
     date : Int \union {Nil}, slot : Span \union {Nil},
     start : Reading \union {Nil}, end : Reading \union {Nil},
     homework_title : BOOLEAN, homework_due : [day : Int, at : Reading \union {Nil}] \union {Nil}]

(* detect_format: a header of two known columns, one of which says what    *)
(* the row is of, and at least a row.                                      *)
Tabular(t) ==
    /\ Len(t.lines) >= 1
    /\ Cardinality(t.header) >= 2
    /\ t.header \intersect {"date", "course_name"} # {}

(* What is no table is read as free text.                                  *)
TextType ==
    { t \in [header : SUBSET {"course_name", "teacher", "date", "start", "end", "homework_title",
                              "homework_due"},
              lines : Seq(CourseLine \union HomeworkLine \union Row)] :
        \A j \in DOMAIN t.lines :
            t.lines[j] \in IF Tabular(t) THEN Row ELSE CourseLine \union HomeworkLine }

(* Of what was pasted, a lesson and its homework keep the line they are from. *)
Homework == [line : Nat, due : Int \union {Nil}]
Lesson == [line : Nat, start : Int, end : Int, homework : Homework \union {Nil}]
Course == [name : Names, teacher : TeacherNames \union {Nil}, line : Nat, lessons : Seq(Lesson)]

ASSUME ScheduleAssumption ==
    /\ Today \in Int
    /\ MonthStart \in [1..12 -> Int]
    /\ \A m \in 1..11 : MonthStart[m + 1] - MonthStart[m] \in 28..31
    /\ MonthStart[1] <= Today
    /\ Texts \subseteq TextType
    /\ \A a \in Answers : a \in Seq(Course) /\ \A i \in DOMAIN a : a[i].line = 0
    /\ \A t \in Teams : IsFiniteSet(t) /\ Nil \notin t
    /\ \A name \in TeacherNames, t \in Teams : \A u \in t : Alike[name][u] \in Int
    /\ Existing \in Seq([id : Int, leader : Int \union {Nil}])
    /\ "unnamed" \in Names
    /\ Nil \notin Int /\ Nil \notin Homework

Day == 24 * 60
Moment(day, minute) == day * Day + minute
DayOf(moment) == moment \div Day
Weekday(day) == day % 7
Monday(day) == day - Weekday(day)
ThisMonth == CHOOSE m \in 1..12 :
    MonthStart[m] <= Today /\ \A n \in 1..12 : MonthStart[n] <= Today => n <= m

-----------------------------------------------------------------------------
(* Clock readings.                                                         *)

(* Mutant of AcademyTime: nine o'clock is taken as it stands.              *)
AcademyTimeToEight(h, m, shift) ==
    ((IF shift /\ h \in 1..8 THEN h + 12 ELSE h) % 24) * 60 + m

(* "1~9시 with no am/pm marker means evening in an academy timetable."      *)
AcademyTime(h, m, shift) ==
    ((IF shift /\ h \in 1..9 THEN h + 12 ELSE h) % 24) * 60 + m

(* The ends of a range are moved one by one; academy_shift is only asked   *)
(* about the clock form.                                                   *)
Moved(span, academyShift) == ~span.am /\ (span.form = "clock" => academyShift)
TimeRange(span, academyShift) ==
    [from |-> AcademyTime(span.from[1], span.from[2], Moved(span, academyShift)),
     to   |-> AcademyTime(span.to[1], span.to[2], Moved(span, academyShift))]

(* _parse_clock without academy_shift, the way the table reader calls it.  *)
Clock(r) == AcademyTime(r.h, r.m, r.pm \/ (r.form = "hour" /\ ~r.am))

(* time(hour, minute) raises, and nobody catches it below create_parse.    *)
BadMinute(span) == span # Nil /\ (span.from[2] > 59 \/ span.to[2] > 59)

-----------------------------------------------------------------------------
(* Dates of a line of free text.                                           *)

(* Mutant of NthWeekMonday: a month that begins on a Monday loses a week.  *)
NthWeekMondayLate(month, n) ==
    MonthStart[month] + (7 - Weekday(MonthStart[month])) + 7 * (n - 1)

NthWeekMonday(month, n) ==
    MonthStart[month] + ((7 - Weekday(MonthStart[month])) % 7) + 7 * (n - 1)

Anchor(l) ==
    IF l.nth # Nil
    THEN NthWeekMonday(IF l.nth[1] = Nil THEN ThisMonth ELSE l.nth[1], l.nth[2])
    ELSE IF l.date # Nil THEN Monday(l.date)
    ELSE IF l.week = "this" THEN Monday(Today)
    ELSE Monday(Today) + 7

Weeks(l) ==
    IF l.weeks # Nil THEN l.weeks
    ELSE IF l.sessions # Nil THEN -((-l.sessions) \div Cardinality(l.days))
    ELSE 4

(* sorted(set(weekdays))                                                   *)
Ascending(days) ==
    CHOOSE s \in [1..Cardinality(days) -> days] : \A j, k \in DOMAIN s : j < k => s[j] < s[k]

LessonDates(l) ==
    IF l.days = {} THEN IF l.date # Nil THEN <<l.date>> ELSE <<>>
    ELSE
      LET days == Ascending(l.days)
          n == Len(days)
          dates == [k \in 1..(Weeks(l) * n) |->
                      Anchor(l) + 7 * ((k - 1) \div n) + days[((k - 1) % n) + 1]]
      IN  IF l.weeks = Nil /\ l.sessions # Nil THEN SubSeq(dates, 1, l.sessions) ELSE dates

(* date(year, month, 1) raises for a month that is none.                   *)
BadMonth(l) == l.days # {} /\ l.nth # Nil /\ l.nth[1] \notin (1..12) \union {Nil}

-----------------------------------------------------------------------------
VARIABLES
    text,      \* what was pasted
    key,       \* whether an Anthropic key is configured
    team,      \* the teacher uids in the session's scope
    pc,
    at,        \* lines or courses gone through
    courses,   \* the courses found: [name, teacher, line, lessons]
    homework,  \* homework_lines: per course, the numbers of its lines
    source,    \* source_format
    uids, reused, \* the plan: per course the teacher and the existing course, or Nil
    asked      \* needs_confirm: [subject, candidates]

vars == <<text, key, team, pc, at, courses, homework, source, uids, reused, asked>>

Columns == text.header
Lines == text.lines

TypeOK ==
    /\ pc \in {"detect", "table", "ai", "lines", "plan", "teacher", "done", "refused"}
    /\ at \in 0..Len(Lines) \union 0..Len(courses)
    /\ Len(homework) = Len(courses)
    /\ \A i \in DOMAIN courses :
          /\ courses[i].line \in 0..Len(Lines)
          /\ \A k \in DOMAIN courses[i].lessons : courses[i].lessons[k] \in Lesson
    /\ source \in {"csv", "text-ai", "text-heuristic"}
    /\ Len(reused) \in {Len(uids), Len(uids) + 1}
    /\ Len(uids) <= Len(courses)

Init ==
    /\ text \in Texts
    /\ key \in BOOLEAN
    /\ team \in Teams
    /\ pc = "detect"
    /\ at = 0
    /\ courses = <<>>
    /\ homework = <<>>
    /\ source = "text-heuristic"
    /\ uids = <<>>
    /\ reused = <<>>
    /\ asked = <<>>

plan == <<uids, reused, asked>>
Goto(label) == pc' = label /\ UNCHANGED <<text, key, team, plan>>

Detect ==
    /\ pc = "detect"
    /\ Goto(IF Tabular(text) THEN "table" ELSE IF key THEN "ai" ELSE "lines")
    /\ source' = IF Tabular(text) THEN "csv" ELSE source
    /\ UNCHANGED <<at, courses, homework>>

-----------------------------------------------------------------------------
(* parse_table: rows are grouped by the name of their course.              *)

(* The values of a row under the columns that were recognised.             *)
Cell(row, column) == IF column \in Columns THEN row[column] ELSE Nil

(* A range in the date or the start cell, or a start and maybe an end; or  *)
(* two hours, which may run into the next day.                             *)
RowTimes(row) ==
    LET day == Cell(row, "date")
        start == Moment(day, Clock(Cell(row, "start")))
    IN  IF row.slot # Nil
        THEN [start |-> Moment(day, TimeRange(row.slot, FALSE).from),
              end   |-> Moment(day, TimeRange(row.slot, FALSE).to)]
        ELSE [start |-> start,
              end   |-> IF Cell(row, "end") = Nil THEN start + 120
                        ELSE Moment(day, Clock(Cell(row, "end")))]

HasHomework(row) == "homework_title" \in Columns /\ row.homework_title

RowHomework(row, j) ==
    LET due == Cell(row, "homework_due")
    IN  IF ~HasHomework(row) THEN Nil
        ELSE [line |-> j,
              due  |-> IF due = Nil THEN Nil
                       ELSE Moment(due.day, IF due.at = Nil THEN Day - 1 ELSE Clock(due.at))]

RowLesson(row, j) ==
    [line |-> j, start |-> RowTimes(row).start, end |-> RowTimes(row).end,
     homework |-> RowHomework(row, j)]

RowName(row) == IF Cell(row, "course_name") = Nil THEN "unnamed" ELSE row.course_name

(* Without a date or a time a row is passed over.                          *)
Usable(row) ==
    /\ Cell(row, "date") # Nil
    /\ row.slot # Nil \/ Cell(row, "start") # Nil

BadClock(r) == r # Nil /\ r.form = "clock" /\ r.m > 59
RowRaises(row) ==
    /\ Usable(row)
    /\ \/ BadMinute(row.slot)
       \/ row.slot = Nil /\ (BadClock(row.start) \/ BadClock(Cell(row, "end")))
       \/ /\ HasHomework(row)
          /\ Cell(row, "homework_due") # Nil /\ BadClock(row.homework_due.at)

AddRow(row) ==
    LET i == SelectInSeq(courses, LAMBDA c : c.name = RowName(row))
        teacher == Cell(row, "teacher")
    IN  IF i = 0
        THEN /\ courses' = Append(courses, [name |-> RowName(row), teacher |-> teacher,
                                            line |-> at', lessons |-> <<RowLesson(row, at')>>])
             /\ homework' = Append(homework, <<>>)
        ELSE /\ courses' = [courses EXCEPT
                    ![i].teacher = IF @ = Nil THEN teacher ELSE @,
                    ![i].lessons = Append(@, RowLesson(row, at'))]
             /\ UNCHANGED homework

ReadRow ==
    /\ pc = "table"
    /\ at < Len(Lines)
    /\ at' = at + 1
    /\ LET row == Lines[at'] IN
          IF RowRaises(row) THEN pc' = "refused" /\ UNCHANGED <<courses, homework>>
          ELSE /\ IF Usable(row) THEN AddRow(row) ELSE UNCHANGED <<courses, homework>>
               /\ UNCHANGED pc
    /\ UNCHANGED <<text, key, team, source, plan>>

-----------------------------------------------------------------------------
(* _free_text_courses: Claude, and the rules when it fails or finds none.  *)

AskClaude ==
    /\ pc = "ai"
    /\ \/ Goto("lines") /\ UNCHANGED <<at, courses, homework, source>>
       \/ \E answer \in Answers \ {<<>>} :
             /\ courses' = answer
             /\ homework' = [i \in DOMAIN answer |-> <<>>]
             /\ source' = "text-ai"
             /\ at' = 0
             /\ Goto("plan")

(* heuristic_parse.  A line with no weekday, range or date is passed over. *)
Telling(l) == l.days # {} \/ l.span # Nil \/ l.date # Nil

LineRaises(l) == Telling(l) /\ (BadMinute(l.span) \/ BadMonth(l))

LineTimes(l) ==
    IF l.span = Nil THEN [from |-> 19 * 60, to |-> 21 * 60] ELSE TimeRange(l.span, TRUE)

LineLessons(l, j) ==
    [k \in DOMAIN LessonDates(l) |->
        [line  |-> j,
         start |-> Moment(LessonDates(l)[k], LineTimes(l).from),
         end   |-> Moment(LessonDates(l)[k], LineTimes(l).to),
         homework |-> Nil]]

(* Mutant of NoteHomework: a line of homework waits for the next course.   *)
NoteHomeworkAhead(j) ==
    homework' = [i \in DOMAIN courses |->
        IF i = Len(courses) - 1 THEN Append(homework[i], j) ELSE homework[i]]

(* A line of homework is the last course's, if there is one.               *)
NoteHomework(j) ==
    homework' = [i \in DOMAIN courses |->
        IF i = Len(courses) THEN Append(homework[i], j) ELSE homework[i]]

(* Mutant of AddCourse: the course gets no entry for its homework.         *)
AddCourseOnly(l) ==
    /\ courses' = Append(courses, [name |-> l.name, teacher |-> l.teacher, line |-> at',
                                   lessons |-> LineLessons(l, at')])
    /\ UNCHANGED homework

AddCourse(l) ==
    /\ courses' = Append(courses, [name |-> l.name, teacher |-> l.teacher, line |-> at',
                                   lessons |-> LineLessons(l, at')])
    /\ homework' = Append(homework, <<>>)

ReadLine ==
    /\ pc = "lines"
    /\ at < Len(Lines)
    /\ at' = at + 1
    /\ LET l == Lines[at'] IN
          \/ /\ l.kind = "homework"
             /\ NoteHomework(at')
             /\ UNCHANGED <<pc, courses>>
          \/ /\ l.kind = "course" /\ LineRaises(l)
             /\ pc' = "refused"
             /\ UNCHANGED <<courses, homework>>
          \/ /\ l.kind = "course" /\ ~LineRaises(l)
             /\ IF Telling(l) /\ LessonDates(l) # <<>> THEN AddCourse(l)
                ELSE UNCHANGED <<courses, homework>>
             /\ UNCHANGED pc
    /\ UNCHANGED <<text, key, team, source, plan>>

(* _homework_from, for a lesson's end: 23:59 on the n-th day after it.     *)
HomeworkFrom(j, end) ==
    [line |-> j,
     due  |-> IF Lines[j].due = Nil THEN Nil ELSE Moment(DayOf(end) + Lines[j].due, Day - 1)]

(* Every line of homework goes to every lesson: the last one stays.        *)
WithHomework(i) ==
    IF homework[i] = <<>> THEN courses[i]
    ELSE [courses[i] EXCEPT !.lessons =
            [k \in DOMAIN @ |-> [@[k] EXCEPT !.homework =
                HomeworkFrom(Last(homework[i]), courses[i].lessons[k].end)]]]

EndOfText ==
    /\ pc \in {"table", "lines"}
    /\ at = Len(Lines)
    /\ courses' = [i \in DOMAIN courses |-> WithHomework(i)]
    /\ at' = 0
    /\ Goto(IF courses = <<>> THEN "refused" ELSE "plan")
    /\ UNCHANGED <<homework, source>>

-----------------------------------------------------------------------------
(* resolve_entities: course by course, first the course, then its teacher. *)

(* The first of the most alike, from 85 percent on.  Nobody is asked.      *)
BestExisting(name) ==
    LET best == { i \in DOMAIN Existing :
                    /\ Same[name][i] >= 85
                    /\ \A j \in DOMAIN Existing : Same[name][j] <= Same[name][i] }
    IN  IF best = {} THEN Nil ELSE CHOOSE i \in best : \A j \in best : i <= j

ResolveCourse ==
    /\ pc = "plan"
    /\ at < Len(courses)
    /\ at' = at + 1
    /\ reused' = Append(reused, BestExisting(courses[at'].name))
    /\ pc' = "teacher"
    /\ UNCHANGED <<text, key, team, courses, homework, source, uids, asked>>

(* Exact is 100, a prefix 90, less than 75 is no match.                    *)
Scored(name) == { u \in team : Alike[name][u] >= 75 }

(* Mutant of Winners: the first of the best is taken for the only one.     *)
WinnersFirst(name) ==
    LET best == { u \in Scored(name) : \A v \in Scored(name) : Alike[name][v] <= Alike[name][u] }
    IN  { u \in best : \A v \in best : u <= v }

Winners(name) ==
    { u \in Scored(name) : \A v \in Scored(name) : Alike[name][v] <= Alike[name][u] }

Assign(uid) == uids' = Append(uids, uid) /\ UNCHANGED asked
Ask(subject, candidates) ==
    /\ uids' = Append(uids, Nil)
    /\ asked' = Append(asked, [subject |-> subject, candidates |-> candidates])

(* Leader of the existing course, if that one has a teacher.               *)
Leader(i) == IF reused[i] = Nil THEN Nil ELSE Existing[reused[i]].leader

ResolveTeacher ==
    /\ pc = "teacher"
    /\ LET c == courses[at] IN
          \/ c.teacher = Nil /\ Leader(at) # Nil /\ Assign(Leader(at))
          \/ /\ c.teacher = Nil /\ Leader(at) = Nil
             /\ IF Cardinality(team) = 1 THEN Assign(CHOOSE u \in team : TRUE)
                ELSE Ask(c.name, team)
          \/ /\ c.teacher # Nil
             /\ IF Scored(c.teacher) = {} THEN Ask(c.teacher, team)
                ELSE IF Cardinality(Winners(c.teacher)) = 1
                THEN Assign(CHOOSE u \in Winners(c.teacher) : TRUE)
                ELSE Ask(c.teacher, Winners(c.teacher))
    /\ pc' = "plan"
    /\ UNCHANGED <<text, key, team, at, courses, homework, source, reused>>

Show ==
    /\ pc = "plan"
    /\ at = Len(courses)
    /\ pc' = "done"
    /\ UNCHANGED <<text, key, team, at, courses, homework, source, plan>>

Next ==
    \/ Detect \/ ReadRow \/ AskClaude \/ ReadLine \/ EndOfText
    \/ ResolveCourse \/ ResolveTeacher \/ Show

Spec == Init /\ [][Next]_vars

-----------------------------------------------------------------------------
(* Properties, of what the rules made and was not read by Claude.          *)

Ruled(i) == source = "text-heuristic" /\ i \in DOMAIN courses
LineOf(i) == Lines[courses[i].line]

(* The week a line means, counted on the calendar: the n-th Monday of a    *)
(* month, the Monday at or before a date, or one of the next two.          *)
IsFirstMonday(monday, l) ==
    /\ Weekday(monday) = 0
    /\ IF l.nth # Nil
       THEN LET month == IF l.nth[1] = Nil THEN ThisMonth ELSE l.nth[1]
            IN  Cardinality({ d \in MonthStart[month]..monday : Weekday(d) = 0 }) = l.nth[2]
       ELSE IF l.date # Nil THEN monday \in (l.date - 6)..l.date
       ELSE IF l.week = "this" THEN monday \in (Today - 6)..Today
       ELSE monday \in (Today + 1)..(Today + 7)

(* A course has the lessons its line asks for: every listed weekday from   *)
(* the Monday of its first week on, none left out, none twice, for the     *)
(* weeks or up to the number of sessions it says; and a lesson lies in the *)
(* past only if the line says when it starts.                              *)
LessonsAsAsked ==
    \A i \in DOMAIN courses : Ruled(i) /\ LineOf(i).days # {} =>
        LET l == LineOf(i)
            days == [k \in DOMAIN courses[i].lessons |-> DayOf(courses[i].lessons[k].start)]
            last == days[Len(days)]
            first == Monday(days[1])
            weeks == IF l.weeks # Nil THEN l.weeks ELSE 4
        IN  /\ IsFirstMonday(first, l)
            /\ ToSet(days) = { d \in first..last : Weekday(d) \in l.days }
            /\ \A j, k \in DOMAIN days : j < k => days[j] < days[k]
            /\ IF l.weeks = Nil /\ l.sessions # Nil THEN Len(days) = l.sessions
               ELSE { d \in first..(first + 7 * weeks - 1) : Weekday(d) \in l.days } = ToSet(days)
            /\ days[1] < Today => l.nth # Nil \/ l.date # Nil \/ l.week = "this"

(* Whether a reading of a cell is moved to the afternoon, from what is     *)
(* written: 1 to 9 o'clock, with a 오후, or with a 시 and no 오전.           *)
InAfternoon(r) == r.h \in 1..9 /\ (r.pm \/ (r.form = "hour" /\ ~r.am))

(* A range that is written forwards, and ends before midnight, turns into  *)
(* a lesson that ends after it starts, but for the ones that are torn: the *)
(* start is taken to the evening and the end stays behind.  On a line that *)
(* is a start at 1 to 9 without a 오전, and an end from 10 o'clock to twelve *)
(* hours later; in a table, also cells that are not written alike.         *)
BackwardExactly ==
    source # "text-ai" =>
    \A i \in DOMAIN courses : \A k \in DOMAIN courses[i].lessons :
        LET lesson == courses[i].lessons[k]
            l == Lines[lesson.line]
            backward == lesson.end <= lesson.start
            InOrder(from, to) == from < to /\ to < Day
        IN  /\ l.kind = "course" /\ l.span # Nil =>
                  LET from == 60 * l.span.from[1] + l.span.from[2]
                      to == 60 * l.span.to[1] + l.span.to[2]
                  IN  InOrder(from, to) =>
                        (backward <=> ~l.span.am /\ from \in 60..599 /\ to \in 600..(from + 720))
            /\ l.kind = "row" /\ l.slot = Nil =>
                  IF Cell(l, "end") = Nil THEN ~backward
                  ELSE LET from == 60 * l.start.h + l.start.m
                           to == 60 * l.end.h + l.end.m
                       IN  InOrder(from, to) =>
                             (backward <=> InAfternoon(l.start) /\ ~InAfternoon(l.end)
                                             /\ to <= from + 720)

(* Homework belongs to the course it is written under: the last line of    *)
(* homework before the next course counts, for every lesson, and is due    *)
(* after the lesson has ended.                                             *)
HomeworkUnderItsCourse ==
    pc \in {"plan", "teacher", "done"} =>
    \A i \in DOMAIN courses : Ruled(i) =>
        LET next == IF i = Len(courses) THEN Len(Lines) + 1 ELSE courses[i + 1].line
            under == { j \in (courses[i].line + 1)..(next - 1) : Lines[j].kind = "homework" }
        IN  \A k \in DOMAIN courses[i].lessons :
              LET h == courses[i].lessons[k].homework
              IN  /\ (h = Nil) <=> (under = {})
                  /\ h # Nil => /\ h.line \in under
                                /\ \A j \in under : j <= h.line
                                /\ h.due # Nil => h.due >= courses[i].lessons[k].end

(* In a plan that is shown every course has its teacher or a question, one *)
(* for each course without: a teacher who is named is only taken if nobody *)
(* is as like, and a course that is reused is only taken from its teacher  *)
(* when the text names one.                                                *)
TeacherKnownOrAsked ==
    pc = "done" =>
    /\ Len(asked) = Cardinality({ i \in DOMAIN courses : uids[i] = Nil })
    /\ \A i \in DOMAIN courses :
          LET c == courses[i] IN
          /\ uids[i] = Nil =>
                \E q \in ToSet(asked) : q.subject \in {c.name, c.teacher} /\ q.candidates \subseteq team
          /\ uids[i] # Nil /\ c.teacher # Nil =>
                /\ uids[i] \in team
                /\ \A u \in team \ {uids[i]} : Alike[c.teacher][u] < Alike[c.teacher][uids[i]]
          /\ reused[i] # Nil /\ Leader(i) \notin {Nil, uids[i]} => c.teacher # Nil
=============================================================================
