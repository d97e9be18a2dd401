---------------------------- MODULE LessonRecords ----------------------------
(***************************************************************************)
(* What a webhook event becomes in the store: the _ingest_* handlers of    *)
(* ingest.py as sequences of store calls, the upserts of store.py they     *)
(* call, and the missing-homework list of metrics.py that reads the result. *)
(*                                                                         *)
(* WebhookIngest says when, and how often, a message is normalised; here   *)
(* it is what the writes do to each other.  Two threads write: the event   *)
(* loop, which runs a webhook event or a console request to its end, and a *)
(* pool thread that runs "sync".  Each call commits on its own, so the     *)
(* calls of the two threads interleave and a crash falls between any two.  *)
(* Events arrive in any order, each at most once.                          *)
(***************************************************************************)
EXTENDS Naturals, Sequences, SequencesExt

CONSTANTS
    Nil,       \* SQL NULL, an absent JSON field
    Unknown,   \* the lesson key "unknown"
    Students, Teachers, Courses, Classes, Activities,
    Dates,     \* when lessons may start
    Recent,    \* the dates in the missing-homework window
    Scores,    \* percentages
    Events,    \* the webhook events, see EventType
    Console,   \* lessons the console creates: [class, course, teacher, homework]
    Synced,    \* the calls of a sync, see SyncCalls
    MaxCrashes \* bound: process deaths

(* _lesson_key: an event without ClassID is filed under its activity.      *)
Keys == Classes \union Activities \union {Unknown}
People == Students \union Teachers
Labels == {"present", "late", "absent"}
Kinds == {"Attendance", "End", "HomeworkSubmit", "HomeworkScore"}

LessonKey(class, activity) ==
    IF class # Nil THEN class
    ELSE IF activity # Nil THEN activity ELSE Unknown

Member ==
    [uid : Students, role : {"student"}, label : Labels]
    \union [uid : Teachers, role : {"teacher"}, label : Labels]
    \union [uid : People, role : {"other"}, label : Labels]

EventType ==
    [kind : {"Attendance"}, class : Classes \union {Nil}, course : Courses \union {Nil},
     date : Dates \union {Nil}, members : Seq(Member)]
    \union
    [kind : {"End"}, class : Classes \union {Nil}, course : Courses \union {Nil},
     uids : SUBSET People]
    \union
    [kind : {"HomeworkSubmit"}, class : Classes \union {Nil},
     course : Courses \union {Nil}, activity : Activities,
     uid : Students \union {Nil}]
    \union
    [kind : {"HomeworkScore"}, class : Classes \union {Nil},
     course : Courses \union {Nil}, activity : Activities,
     uid : Students \union {Nil}, score : Scores \union {Nil}]

(* A payload lists a finite number of people; None is no value.            *)
ASSUME EventAssumption ==
    /\ Events \subseteq EventType
    /\ \A e \in Events : e.kind = "End" => IsFiniteSet(e.uids)
    /\ Console \subseteq [class : Classes, course : Courses \union {Nil},
                         teacher : Teachers \union {Nil}, homework : Activities \union {Nil}]
    /\ Nil \notin Events /\ Nil \notin Console
    /\ Nil \notin Activities \union Labels \union People \union Dates
    /\ Recent \subseteq Dates
    /\ Classes \intersect Activities = {}
    /\ MaxCrashes \in Nat

-----------------------------------------------------------------------------
(* Rows are functions from the columns that were written; the empty one is *)
(* no row.  The names of people and courses are only known or not.         *)

NoRow == [c \in {} |-> Nil]
Col(row, c) == IF c \in DOMAIN row THEN row[c] ELSE Nil
Exists(row) == DOMAIN row # {}

(* Mutant of Overwrite: the row is replaced, as INSERT OR REPLACE would.   *)
Replace(row, new) == new

(* ON CONFLICT DO UPDATE SET c = excluded.c: a NULL overwrites too.        *)
Overwrite(row, new) ==
    [c \in DOMAIN row \union DOMAIN new |-> IF c \in DOMAIN new THEN new[c] ELSE row[c]]

(* ... SET c = COALESCE(excluded.c, c): a NULL leaves the column alone.    *)
Coalesce(row, new) ==
    [c \in DOMAIN row \union DOMAIN new |->
        IF Col(new, c) # Nil THEN new[c] ELSE Col(row, c)]

-----------------------------------------------------------------------------
(* The store calls an event, a console request or a sync makes, in order.  *)

CourseCall(id, name, teacher) ==
    [op |-> "upsert_course", key |-> id, set |-> [name |-> name, teacher |-> teacher]]
LessonCall(id, course, teacher, homework) ==
    [op |-> "upsert_lesson", key |-> id,
     set |-> [course |-> course, teacher |-> teacher, homework |-> homework]]
StudentCall(uid) == [op |-> "ensure_student", key |-> uid, set |-> NoRow]
TeacherCall(uid) == [op |-> "upsert_teacher", key |-> uid, set |-> [name |-> "known"]]
RecordCall(id, uid, set) ==
    [op |-> "upsert_lesson_record", key |-> <<id, uid>>, set |-> set]

(* next(...): the first teacher among the members, if any.                 *)
TeacherOf(members) ==
    LET i == SelectInSeq(members, LAMBDA x : x.role = "teacher")
    IN  IF i = 0 THEN Nil ELSE members[i].uid

MemberCalls(e, m) ==
    IF m.role = "teacher" THEN <<TeacherCall(m.uid)>>
    ELSE IF m.role = "other" THEN <<>>
    ELSE << StudentCall(m.uid),
            RecordCall(LessonKey(e.class, Nil), m.uid,
                [course |-> e.course, attendance |-> m.label, date |-> e.date,
                 teacher |-> TeacherOf(e.members)]) >>

AttendanceCalls(e) ==
    (IF e.course # Nil THEN <<CourseCall(e.course, "known", Nil)>> ELSE <<>>)
    \o <<LessonCall(LessonKey(e.class, Nil), e.course, Nil, Nil)>>
    \o FlattenSeq([i \in DOMAIN e.members |-> MemberCalls(e, e.members[i])])

(* Every uid of any section gets a row, whoever it is.                     *)
EndCalls(e) ==
    SetToSeq({ RecordCall(LessonKey(e.class, Nil), u,
                   [course |-> e.course, hands |-> "raised"]) : u \in e.uids })

(* Mutant of SubmitCalls: the course of the event is not written.          *)
SubmitCallsNoCourse(e) ==
    IF e.uid = Nil THEN <<>>
    ELSE << StudentCall(e.uid),
            RecordCall(LessonKey(e.class, e.activity), e.uid,
                [submitted |-> 1, activity |-> e.activity]) >>

SubmitCalls(e) ==
    IF e.uid = Nil THEN <<>>
    ELSE << StudentCall(e.uid),
            RecordCall(LessonKey(e.class, e.activity), e.uid,
                [course |-> e.course, submitted |-> 1, activity |-> e.activity]) >>

(* Mutant of ScoreCalls: a score is taken for a submission not yet seen.   *)
ScoreCallsUnsubmitted(e) ==
    IF e.uid = Nil THEN <<>>
    ELSE << RecordCall(LessonKey(e.class, e.activity), e.uid,
                [course |-> e.course, score |-> e.score, submitted |-> 0]) >>

(* score_percent is None when the event has neither a rate nor a score.    *)
ScoreCalls(e) ==
    IF e.uid = Nil THEN <<>>
    ELSE << RecordCall(LessonKey(e.class, e.activity), e.uid,
                [course |-> e.course, score |-> e.score]) >>

KeyOf(e) ==
    LessonKey(e.class, IF e.kind \in {"HomeworkSubmit", "HomeworkScore"} THEN e.activity ELSE Nil)

EventCalls(e) ==
    CASE e.kind = "Attendance"     -> AttendanceCalls(e)
      [] e.kind = "End"            -> EndCalls(e)
      [] e.kind = "HomeworkSubmit" -> SubmitCalls(e)
      [] e.kind = "HomeworkScore"  -> ScoreCalls(e)

(* What a sync calls: upserts of master data, none of lesson_records.      *)
SyncCalls ==
    [op : {"upsert_course"}, key : Courses,
     set : [name : {"known", Nil}, teacher : Teachers \union {Nil}]]
    \union
    [op : {"upsert_lesson"}, key : Keys,
     set : [course : Courses \union {Nil}, teacher : Teachers \union {Nil},
            homework : Activities \union {Nil}]]
    \union { StudentCall(u) : u \in People }
    \union { TeacherCall(t) : t \in Teachers }

ASSUME SyncAssumption == Synced \in Seq(SyncCalls)

(* create_execute records a lesson, then the homework it attached to it.   *)
ConsoleCalls(c) ==
    << LessonCall(c.class, c.course, c.teacher, Nil) >>
    \o IF c.homework = Nil THEN <<>>
       ELSE << LessonCall(c.class, Nil, Nil, c.homework) >>

(* What an event tells of person u, but for the course, as columns.  An    *)
(* Attendance may list somebody twice.                                     *)
Tells(e, u) ==
    CASE e.kind = "Attendance" ->
            { [attendance |-> m.label, date |-> e.date, teacher |-> TeacherOf(e.members)] :
                m \in { x \in ToSet(e.members) : x.role = "student" /\ x.uid = u } }
      [] e.kind = "End" ->
            { [hands |-> "raised"] : x \in e.uids \intersect {u} }
      [] e.kind = "HomeworkSubmit" ->
            { [submitted |-> 1, activity |-> e.activity] : x \in {e.uid} \intersect {u} }
      [] e.kind = "HomeworkScore" ->
            { [score |-> e.score] : x \in {e.uid} \intersect {u} }

-----------------------------------------------------------------------------
VARIABLES
    courses, lessons, teachers, \* key -> row
    students,                   \* the registered student uids
    records,                    \* <<key, uid>> -> row of lesson_records
    loop,                       \* calls the event loop's job has left
    job,                        \* the event or console lesson it runs, or Nil
    pool,                       \* calls the sync thread has left
    done,                       \* jobs run to their end
    begun,                      \* jobs begun; events are deduped on _id
    last,                       \* history: <<kind, key, uid>> -> the event of that
                                \* kind begun last that tells of the row, or Nil
    crashes

store == <<courses, lessons, teachers, students, records>>
vars == <<store, loop, job, pool, done, begun, last, crashes>>

Jobs == Events \union Console

TypeOK ==
    /\ students \subseteq People
    /\ \A k \in Keys : DOMAIN lessons[k] \subseteq {"course", "teacher", "homework"}
    /\ \A r \in Keys \X People :
          /\ Col(records[r], "attendance") \in Labels \union {Nil}
          /\ Col(records[r], "submitted") \in {1, Nil}
          /\ Col(records[r], "course") \in Courses \union {Nil}
          /\ Col(records[r], "teacher") \in Teachers \union {Nil}
          /\ Col(records[r], "date") \in Dates \union {Nil}
    /\ done \subseteq begun
    /\ begun \subseteq Jobs
    /\ last \in [Kinds \X Keys \X People -> Events \union {Nil}]
    /\ crashes \in 0..MaxCrashes

Init ==
    /\ courses = [c \in Courses |-> NoRow]
    /\ lessons = [k \in Keys |-> NoRow]
    /\ teachers = [t \in Teachers |-> NoRow]
    /\ students = {}
    /\ records = [r \in Keys \X People |-> NoRow]
    /\ loop = <<>>
    /\ job = Nil
    /\ pool = <<>>
    /\ done = {}
    /\ begun = {}
    /\ last = [r \in Kinds \X Keys \X People |-> Nil]
    /\ crashes = 0

(* One store call: an atomic, committed transaction.                       *)
UpsertCourse(c) ==
    /\ c.op = "upsert_course"
    /\ courses' = [courses EXCEPT ![c.key] = Coalesce(@, c.set)]
    /\ UNCHANGED <<lessons, teachers, students, records>>

UpsertLesson(c) ==
    /\ c.op = "upsert_lesson"
    /\ lessons' = [lessons EXCEPT ![c.key] = Coalesce(@, c.set)]
    /\ UNCHANGED <<courses, teachers, students, records>>

UpsertTeacher(c) ==
    /\ c.op = "upsert_teacher"
    /\ teachers' = [teachers EXCEPT ![c.key] = Coalesce(@, c.set)]
    /\ UNCHANGED <<courses, lessons, students, records>>

EnsureStudent(c) ==
    /\ c.op = "ensure_student"
    /\ students' = students \union {c.key}
    /\ UNCHANGED <<courses, lessons, teachers, records>>

UpsertLessonRecord(c) ==
    /\ c.op = "upsert_lesson_record"
    /\ records' = [records EXCEPT ![c.key] = Overwrite(@, c.set)]
    /\ UNCHANGED <<courses, lessons, teachers, students>>

Do(c) ==
    \/ UpsertCourse(c) \/ UpsertLesson(c) \/ UpsertTeacher(c)
    \/ EnsureStudent(c) \/ UpsertLessonRecord(c)

(* The loop takes up an event that has not been seen, or a console request. *)
Begin(j) ==
    /\ job = Nil
    /\ j \notin begun
    /\ job' = j
    /\ begun' = begun \union {j}
    /\ last' = [r \in Kinds \X Keys \X People |->
                  IF j \in Events /\ r[1] = j.kind /\ r[2] = KeyOf(j) /\ Tells(j, r[3]) # {}
                  THEN j ELSE last[r]]
    /\ loop' = IF j \in Events THEN EventCalls(j) ELSE ConsoleCalls(j)
    /\ UNCHANGED <<store, pool, done, crashes>>

LoopCall ==
    /\ loop # <<>>
    /\ Do(Head(loop))
    /\ loop' = Tail(loop)
    /\ UNCHANGED <<job, pool, done, begun, last, crashes>>

Finish ==
    /\ job # Nil
    /\ loop = <<>>
    /\ job' = Nil
    /\ done' = done \union {job}
    /\ UNCHANGED <<store, loop, pool, begun, last, crashes>>

(* An operator presses "sync"; it can be pressed again when it is through. *)
BeginSync ==
    /\ pool = <<>>
    /\ pool' = Synced
    /\ UNCHANGED <<store, loop, job, done, begun, last, crashes>>

PoolCall ==
    /\ pool # <<>>
    /\ Do(Head(pool))
    /\ pool' = Tail(pool)
    /\ UNCHANGED <<loop, job, done, begun, last, crashes>>

(* What was begun is not begun again: its _id is in the events table.      *)
Crash ==
    /\ crashes < MaxCrashes
    /\ crashes' = crashes + 1
    /\ loop' = <<>>
    /\ job' = Nil
    /\ pool' = <<>>
    /\ UNCHANGED <<store, done, begun, last>>

Next ==
    \/ \E j \in Jobs : Begin(j)
    \/ LoopCall
    \/ Finish
    \/ BeginSync
    \/ PoolCall
    \/ Crash

Spec == Init /\ [][Next]_vars

-----------------------------------------------------------------------------
(* metrics.missing_homework_rows, for a scope that sees everything.        *)

HasHomework ==
    { k \in Keys :
        \/ \E u \in People : Col(records[<<k, u>>], "activity") # Nil
        \/ Col(lessons[k], "homework") # Nil }

(* Students of lessons in the window (lesson_date >= since, for one since) *)
(* that have homework, who are not known to have submitted any.            *)
Missing ==
    { r \in Keys \X People :
        /\ Col(records[r], "date") \in Recent
        /\ r[1] \in HasHomework
        /\ Col(records[r], "submitted") # 1 }

-----------------------------------------------------------------------------
(* Properties.                                                             *)

Holds(row, said) == \A c \in DOMAIN said : Col(row, c) = said[c]

(* What an event told of a student stays in the row, whatever events of    *)
(* other kinds, syncs and console requests come before or after it, until  *)
(* another event of its kind tells of the same student and class: then the *)
(* row holds all of what one of these events told, and of the one taken up *)
(* last, unless a crash cut that one off.  A NULL replaces a score too.    *)
NothingOverwritten ==
    \A e \in done \intersect Events, u \in People :
        Tells(e, u) # {} =>
            \E f \in begun \intersect Events :
                /\ f.kind = e.kind /\ KeyOf(f) = KeyOf(e)
                /\ last[<<e.kind, KeyOf(e), u>>] \in done => f = last[<<e.kind, KeyOf(e), u>>]
                /\ \E said \in Tells(f, u) : Holds(records[<<KeyOf(e), u>>], said)

(* A row is off its lesson's course only if an event without CourseID for  *)
(* the lesson was taken up: nothing else takes a row out of the scope of   *)
(* those who may see the course.                                           *)
CourseKept ==
    \A k \in Keys, u \in People :
        Exists(records[<<k, u>>]) /\ Col(records[<<k, u>>], "course") = Nil =>
            \E e \in begun \intersect Events : KeyOf(e) = k /\ e.course = Nil

(* A student once listed as missing homework is taken off the list by a    *)
(* submission of the student's own, or by an Attendance that gives the     *)
(* lesson a date out of the window (the passing of time does the same);    *)
(* never by a score, the end of a class, a sync or a crash.                *)
OnlySubmittingClears ==
    [][\A r \in Missing : r \notin Missing' =>
          /\ job \in Events /\ KeyOf(job) = r[1] /\ Tells(job, r[2]) # {}
          /\ \/ job.kind = "HomeworkSubmit"
             \/ job.kind = "Attendance" /\ job.date \notin Recent]_vars

=============================================================================
