-------------------------- MODULE ScheduleTextProofs --------------------------
(***************************************************************************)
(* Proofs about ScheduleText, for every text, table and answer of Claude,  *)
(* every calendar and every team.                                          *)
(***************************************************************************)
EXTENDS ScheduleText, SequenceTheorems, FiniteSetTheorems, WellFoundedInduction, TLAPS

(* The ranges that are torn: the start is taken to the evening, the end is *)
(* not, and is not far enough.                                             *)
Torn(am, from, to) == ~am /\ from \in 60..599 /\ to \in 600..(from + 720)

(* The days of lessons.                                                    *)
DaysOf(lessons) == [k \in DOMAIN lessons |-> DayOf(lessons[k].start)]

(* What BackwardExactly says of a line's lesson, and of a lesson of a text. *)
LineRight(header, l, backward) ==
    LET InOrder(from, to) == from < to /\ to < Day
    IN  /\ l.kind = "course" /\ l.span # Nil =>
              LET from == 60 * l.span.from[1] + l.span.from[2]
                  to == 60 * l.span.to[1] + l.span.to[2]
              IN  InOrder(from, to) =>
                    (backward <=> Torn(l.span.am, from, to))
        /\ l.kind = "row" /\ l.slot = Nil =>
              IF "end" \notin header \/ l.end = Nil THEN ~backward
              ELSE LET from == 60 * l.start.h + l.start.m
                       to == 60 * l.end.h + l.end.m
                   IN  InOrder(from, to) =>
                         (backward <=> InAfternoon(l.start) /\ ~InAfternoon(l.end)
                                         /\ to <= from + 720)
Right(t, lesson) == LineRight(t.header, t.lines[lesson.line], lesson.end <= lesson.start)

(* What LessonsAsAsked says of the days of a course's lessons.             *)
AsAsked(l, days) ==
    LET last == days[Len(days)]
        first == Monday(days[1])
        weeks == IF l.weeks # Nil THEN l.weeks ELSE 4
    IN  /\ IsFirstMonday(first, l)
        /\ ToSet(days) = { d \in first..last : Weekday(d) \in l.days }
        /\ \A j, k \in DOMAIN days : j < k => days[j] < days[k]
        /\ IF l.weeks = Nil /\ l.sessions # Nil THEN Len(days) = l.sessions
           ELSE { d \in first..(first + 7 * weeks - 1) : Weekday(d) \in l.days } = ToSet(days)
        /\ days[1] < Today => l.nth # Nil \/ l.date # Nil \/ l.week = "this"

-----------------------------------------------------------------------------
(* The inductive invariant.                                                *)

HomeworkLines(t) == { j \in DOMAIN t.lines : t.lines[j].kind = "homework" }

(* What the variables hold.                                                *)
Typed ==
    /\ text \in Texts
    /\ key \in BOOLEAN
    /\ team \in Teams
    /\ courses \in Seq(Course)
    /\ \A i \in DOMAIN courses : courses[i].line \in 0..Len(Lines)
    /\ homework \in Seq(Seq(HomeworkLines(text)))
    /\ Len(homework) = Len(courses)
    /\ uids \in Seq((UNION Teams) \union Int \union {Nil})
    /\ reused \in Seq(DOMAIN Existing \union {Nil})
    /\ asked \in Seq([subject : Names \union TeacherNames, candidates : SUBSET UNION Teams])

(* How far the request has come.                                           *)
Progress ==
    /\ pc \in {"detect", "table", "ai", "lines", "plan", "teacher", "done", "refused"}
    /\ source \in {"csv", "text-ai", "text-heuristic"}
    /\ pc \in {"detect", "ai"} => courses = <<>>
    /\ pc \in {"detect", "ai", "lines"} => source = "text-heuristic"
    /\ pc = "table" => source = "csv" /\ Tabular(text)
    /\ pc \in {"ai", "lines"} => ~Tabular(text)
    /\ pc \in {"detect", "table", "ai", "lines", "refused"} =>
          /\ at \in 0..Len(Lines)
          /\ uids = <<>> /\ reused = <<>> /\ asked = <<>>
    /\ pc \in {"plan", "done"} => Len(uids) = at /\ Len(reused) = at /\ at \in 0..Len(courses)
    /\ pc = "teacher" => Len(uids) = at - 1 /\ Len(reused) = at /\ at \in 1..Len(courses)
    /\ pc = "done" => at = Len(courses)

(* What LessonsAsAsked says, of the line a course is from.                 *)
DaysAsAsked ==
    source = "text-heuristic" =>
        \A i \in DOMAIN courses :
            text.lines[courses[i].line].days # {} =>
                AsAsked(text.lines[courses[i].line], DaysOf(courses[i].lessons))

(* Every lesson read from the text ends before it starts exactly if its    *)
(* line says so.                                                           *)
LessonsRight ==
    source # "text-ai" =>
        \A i \in DOMAIN courses : \A k \in DOMAIN courses[i].lessons :
            Right(text, courses[i].lessons[k])

(* The lines of homework under the i-th of the courses, of the first n.    *)
Under(t, cs, i, n) ==
    { j \in (cs[i].line + 1)..(IF i = Len(cs) THEN n ELSE cs[i + 1].line - 1) :
        t.lines[j].kind = "homework" }

(* The notes are of these lines, and the last of them is noted last.       *)
Noted(notes, under) ==
    /\ notes = <<>> <=> under = {}
    /\ notes # <<>> => Last(notes) \in under /\ \A j \in under : j <= Last(notes)

(* While lines are read the notes of a course are the lines of homework    *)
(* between it and the next.                                                *)
NotedUnderIts ==
    pc = "lines" =>
        /\ \A i \in DOMAIN courses : courses[i].line \in 1..at
        /\ \A i, j \in DOMAIN courses : i < j => courses[i].line < courses[j].line
        /\ \A i \in DOMAIN courses :
              /\ Noted(homework[i], Under(text, courses, i, at))
              /\ \A k \in DOMAIN courses[i].lessons : courses[i].lessons[k].homework = Nil

(* What HomeworkUnderItsCourse says of a lesson.                           *)
HomeworkFits(lesson, under) ==
    /\ (lesson.homework = Nil) <=> (under = {})
    /\ lesson.homework # Nil =>
          /\ lesson.homework.line \in under
          /\ \A j \in under : j <= lesson.homework.line
          /\ lesson.homework.due # Nil => lesson.homework.due >= lesson.end

HomeworkInPlace ==
    pc \in {"plan", "teacher", "done"} /\ source = "text-heuristic" =>
        \A i \in DOMAIN courses : \A k \in DOMAIN courses[i].lessons :
            HomeworkFits(courses[i].lessons[k], Under(text, courses, i, Len(text.lines)))

LeaderOf(index) == IF index = Nil THEN Nil ELSE Existing[index].leader

(* What TeacherKnownOrAsked says of a course.                              *)
Settled(c, uid, index, leader, questions, scope) ==
    /\ uid = Nil =>
          \E q \in ToSet(questions) : q.subject \in {c.name, c.teacher} /\ q.candidates \subseteq scope
    /\ uid # Nil /\ c.teacher # Nil =>
          /\ uid \in scope
          /\ \A u \in scope \ {uid} : Alike[c.teacher][u] < Alike[c.teacher][uid]
    /\ index # Nil /\ leader \notin {Nil, uid} => c.teacher # Nil

(* So far every course has its teacher or a question.                      *)
SettledSoFar ==
    /\ Len(asked) = Cardinality({ i \in DOMAIN uids : uids[i] = Nil })
    /\ \A i \in DOMAIN uids : Settled(courses[i], uids[i], reused[i], LeaderOf(reused[i]), asked, team)

IInv ==
    /\ Typed /\ Progress
    /\ DaysAsAsked /\ LessonsRight
    /\ NotedUnderIts /\ HomeworkInPlace
    /\ SettledSoFar

-----------------------------------------------------------------------------
(* Clock readings.                                                         *)

(* A reading is a minute of the day, as far as its minutes are.            *)
LEMMA AcademyTimeType ==
  ASSUME NEW h \in 0..99, NEW m \in 0..99, NEW shift \in BOOLEAN
  PROVE  /\ AcademyTime(h, m, shift) \in Nat
         /\ m <= 59 => AcademyTime(h, m, shift) \in 0..(Day - 1)
BY DEF AcademyTime, Day

(* What the evening rule does to an hour before midnight.                  *)
LEMMA AcademyTimeOfDay ==
  ASSUME NEW h \in 0..23, NEW m \in 0..59, NEW shift \in BOOLEAN
  PROVE  AcademyTime(h, m, shift) =
           IF shift /\ 60 * h + m \in 60..599 THEN 60 * h + m + 720 ELSE 60 * h + m
<1>1. (60 * h + m \in 60..599) <=> (h \in 1..9)
  OBVIOUS
<1> QED BY <1>1 DEF AcademyTime

(* The ends of a range written forwards change their order exactly then.   *)
LEMMA RangeBackward ==
  ASSUME NEW span \in Span, ~BadMinute(span), span # Nil, NEW from, NEW to,
         from = 60 * span.from[1] + span.from[2], to = 60 * span.to[1] + span.to[2],
         from < to, to < Day
  PROVE  TimeRange(span, TRUE).to <= TimeRange(span, TRUE).from <=> Torn(span.am, from, to)
<1> DEFINE fh == span.from[1]  fm == span.from[2]  th == span.to[1]  tm == span.to[2]
           evening == ~span.am
<1>1. /\ fh \in 0..99 /\ fm \in 0..59 /\ th \in 0..99 /\ tm \in 0..59 /\ evening \in BOOLEAN
  BY DEF Span, BadMinute
<1>2. Moved(span, TRUE) = evening
  BY <1>1 DEF Moved
<1>3. /\ TimeRange(span, TRUE).from = AcademyTime(fh, fm, evening)
      /\ TimeRange(span, TRUE).to = AcademyTime(th, tm, evening)
  BY <1>2 DEF TimeRange
<1> HIDE DEF fh, fm, th, tm, evening
<1>4. 60 * fh + fm < 60 * th + tm /\ 60 * th + tm < 1440
  BY DEF fh, fm, th, tm, Day
<1>5. fh \in 0..23 /\ th \in 0..23
  BY <1>1, <1>4
<1>6. /\ AcademyTime(fh, fm, evening) =
           IF evening /\ 60 * fh + fm \in 60..599 THEN 60 * fh + fm + 720 ELSE 60 * fh + fm
      /\ AcademyTime(th, tm, evening) =
           IF evening /\ 60 * th + tm \in 60..599 THEN 60 * th + tm + 720 ELSE 60 * th + tm
  BY <1>1, <1>5, AcademyTimeOfDay
<1>7. AcademyTime(th, tm, evening) <= AcademyTime(fh, fm, evening) <=>
        /\ evening /\ 60 * fh + fm \in 60..599
        /\ 60 * th + tm \in 600..(60 * fh + fm + 720)
  BY <1>1, <1>4, <1>6
<1> QED BY <1>3, <1>7 DEF fh, fm, th, tm, evening, Torn

(* The same of two cells, each with marks of its own.                      *)
LEMMA CellsBackward ==
  ASSUME NEW a \in Reading, NEW b \in Reading, ~BadClock(a), ~BadClock(b), a # Nil, b # Nil,
         60 * a.h + a.m < 60 * b.h + b.m, 60 * b.h + b.m < Day
  PROVE  Clock(b) <= Clock(a) <=>
           InAfternoon(a) /\ ~InAfternoon(b) /\ 60 * b.h + b.m <= 60 * a.h + a.m + 720
<1> DEFINE fh == a.h  fm == a.m  th == b.h  tm == b.m
           fs == a.pm \/ (a.form = "hour" /\ ~a.am)
           ts == b.pm \/ (b.form = "hour" /\ ~b.am)
<1>1. /\ fh \in 0..99 /\ fm \in 0..59 /\ th \in 0..99 /\ tm \in 0..59
      /\ fs \in BOOLEAN /\ ts \in BOOLEAN
  BY DEF Reading, BadClock
<1>2. Clock(a) = AcademyTime(fh, fm, fs) /\ Clock(b) = AcademyTime(th, tm, ts)
  BY DEF Clock
<1>3. /\ InAfternoon(a) <=> (fh \in 1..9 /\ fs)
      /\ InAfternoon(b) <=> (th \in 1..9 /\ ts)
  BY DEF InAfternoon
<1>4. 60 * fh + fm < 60 * th + tm /\ 60 * th + tm < 1440
  BY DEF Day
<1> HIDE DEF fh, fm, th, tm, fs, ts
<1>5. fh \in 0..23 /\ th \in 0..23
  BY <1>1, <1>4
<1>6. /\ AcademyTime(fh, fm, fs) =
           IF fs /\ 60 * fh + fm \in 60..599 THEN 60 * fh + fm + 720 ELSE 60 * fh + fm
      /\ AcademyTime(th, tm, ts) =
           IF ts /\ 60 * th + tm \in 60..599 THEN 60 * th + tm + 720 ELSE 60 * th + tm
  BY <1>1, <1>5, AcademyTimeOfDay
<1>7. /\ (60 * fh + fm \in 60..599) <=> (fh \in 1..9)
      /\ (60 * th + tm \in 60..599) <=> (th \in 1..9)
  BY <1>1
<1>8. AcademyTime(th, tm, ts) <= AcademyTime(fh, fm, fs) <=>
        (fh \in 1..9 /\ fs) /\ ~(th \in 1..9 /\ ts) /\ 60 * th + tm <= 60 * fh + fm + 720
  BY <1>1, <1>4, <1>6, <1>7
<1> QED BY <1>2, <1>3, <1>8 DEF fh, fm, th, tm

-----------------------------------------------------------------------------
(* Induction, by sets of natural numbers.                                  *)

(* Every set of natural numbers but the empty one has a least element.     *)
LEMMA Least ==
  ASSUME NEW S \in SUBSET Nat, S # {}
  PROVE  \E n \in S : \A m \in S : n <= m
<1> DEFINE R == {ss \in Nat \X Nat : ss[1] < ss[2]}
<1>1. IsWellFoundedOn(R, Nat)
  BY NatLessThanWellFounded DEF OpToRel
<1> HIDE DEF R
<1>2. \E x \in S : \A y \in S : ~ (<<y, x>> \in R)
  BY <1>1, WFMin
<1>3. ASSUME NEW x \in S, NEW y \in S, <<y, x>> \notin R
      PROVE  x <= y
  BY <1>3 DEF R
<1> QED BY <1>2, <1>3

(* A set that holds 0 and the successor of what it holds has all of Nat.   *)
LEMMA SetInduction ==
  ASSUME NEW S, 0 \in S, \A n \in Nat : n \in S => n + 1 \in S
  PROVE  Nat \subseteq S
<1> SUFFICES ASSUME Nat \ S # {} PROVE FALSE
  OBVIOUS
<1>1. PICK n \in Nat \ S : \A m \in Nat \ S : n <= m
  BY Least
<1>2. n - 1 \in Nat /\ n - 1 \in S
  BY <1>1
<1> QED BY <1>2, (n - 1) + 1 = n

-----------------------------------------------------------------------------
(* Weekdays in order.                                                      *)

(* A set of weekdays can be sorted, and is exactly what the sorted list    *)
(* has: sorted(set(weekdays)).                                             *)
LEMMA Ascends ==
  ASSUME NEW days \in SUBSET (0..6), days # {}
  PROVE  /\ Cardinality(days) \in 1..7
         /\ Ascending(days) \in [1..Cardinality(days) -> days]
         /\ \A j, k \in 1..Cardinality(days) : j < k => Ascending(days)[j] < Ascending(days)[k]
         /\ \A d \in days : \E k \in 1..Cardinality(days) : Ascending(days)[k] = d
<1> DEFINE Sorts(s, S) == /\ s \in [1..Cardinality(S) -> S]
                          /\ \A j, k \in DOMAIN s : j < k => s[j] < s[k]
           K == { k \in Nat : \A S \in SUBSET (0..(k - 1)) : \E s : Sorts(s, S) }
<1>1. 0 \in K
  <2> SUFFICES ASSUME NEW S \in SUBSET (0..(0 - 1)) PROVE \E s : Sorts(s, S)
    OBVIOUS
  <2>1. S = {}
    OBVIOUS
  <2>2. Cardinality(S) = 0
    BY <2>1, FS_EmptySet
  <2>3. Sorts([i \in 1..0 |-> i], S)
    BY <2>1, <2>2
  <2> QED BY <2>3
<1>2. ASSUME NEW k \in Nat, k \in K PROVE k + 1 \in K
  <2> SUFFICES ASSUME NEW S \in SUBSET (0..k) PROVE \E s : Sorts(s, S)
    <3> HIDE DEF Sorts
    <3>1. (k + 1) - 1 = k /\ k + 1 \in Nat
      OBVIOUS
    <3> QED BY <3>1
  <2> DEFINE T == S \ {k}
  <2>1. T \in SUBSET (0..(k - 1))
    OBVIOUS
  <2>2. PICK t : Sorts(t, T)
    BY <1>2, <2>1
  <2>3. CASE k \notin S
    <3>1. T = S
      BY <2>3
    <3> HIDE DEF T, Sorts
    <3> QED BY <2>2, <3>1
  <2>4. CASE k \in S
    <3> DEFINE n == Cardinality(T)
               u == [i \in 1..(n + 1) |-> IF i <= n THEN t[i] ELSE k]
    <3>1. IsFiniteSet(S)
      <4>1. k \in Int /\ 0 \in Int
        OBVIOUS
      <4>2. IsFiniteSet(0..k)
        BY <4>1, FS_Interval
      <4>3. S \subseteq 0..k
        OBVIOUS
      <4> QED BY <4>2, <4>3, FS_Subset
    <3>2. IsFiniteSet(T) /\ Cardinality(S) = n + 1 /\ n \in Nat
      <4>1. IsFiniteSet(T) /\ Cardinality(T) = Cardinality(S) - 1
        BY <2>4, <3>1, FS_RemoveElement
      <4>2. Cardinality(S) \in Nat /\ Cardinality(T) \in Nat
        BY <3>1, <4>1, FS_CardinalityType
      <4> QED BY <4>1, <4>2
    <3>3. t \in [1..n -> T] /\ \A i, j \in 1..n : i < j => t[i] < t[j]
      BY <2>2
    <3> HIDE DEF n
    <3>4. \A i \in 1..n : t[i] \in S /\ t[i] < k
      <4> SUFFICES ASSUME NEW i \in 1..n PROVE t[i] \in S /\ t[i] < k
        OBVIOUS
      <4>1. t[i] \in T
        BY <3>3
      <4>2. t[i] \in 0..(k - 1)
        BY <2>1, <4>1
      <4> QED BY <4>1, <4>2
    <3>5. u \in [1..(n + 1) -> S]
      BY <2>4, <3>2, <3>4
    <3>6. \A i, j \in 1..(n + 1) : i < j => u[i] < u[j]
      BY <3>2, <3>3, <3>4
    <3> HIDE DEF u
    <3>7. Sorts(u, S)
      BY <3>2, <3>5, <3>6
    <3> QED BY <3>7
  <2> QED BY <2>3, <2>4
<1>3. Nat \subseteq K
  <2> HIDE DEF K
  <2> QED BY <1>1, <1>2, SetInduction
<1>4. \E s : Sorts(s, days)
  <2>1. 7 \in K
    BY <1>3
  <2>2. days \in SUBSET (0..(7 - 1))
    OBVIOUS
  <2> HIDE DEF Sorts
  <2> QED BY <2>1, <2>2
<1> DEFINE n == Cardinality(days)
           s == Ascending(days)
<1>5. Sorts(s, days)
  BY <1>4 DEF Ascending
<1>6. IsFiniteSet(days) /\ n \in 1..7
  <2>1. IsFiniteSet(0..6) /\ (0 > 6 \/ Cardinality(0..6) = 6 - 0 + 1)
    BY FS_Interval, 0 \in Int, 6 \in Int
  <2>2. Cardinality(0..6) = 7
    BY <2>1
  <2>3. IsFiniteSet(days) /\ n <= 7
    BY <2>1, <2>2, FS_Subset
  <2>4. n \in Nat /\ n # 0
    BY <2>3, FS_CardinalityType, FS_EmptySet
  <2> QED BY <2>3, <2>4
<1> HIDE DEF s
<1>7. s \in [1..n -> days] /\ \A j, k \in 1..n : j < k => s[j] < s[k]
  BY <1>5
<1>8. \A d \in days : \E k \in 1..n : s[k] = d
  <2>1. \A a, b \in 1..n : s[a] = s[b] => a = b
    <3> SUFFICES ASSUME NEW a \in 1..n, NEW b \in 1..n, s[a] = s[b], a < b \/ b < a PROVE FALSE
      <4>1. \A a, b \in 1..n : a < b \/ b < a \/ a = b
        BY <1>6
      <4> QED BY <4>1
    <3>1. s[a] \in days /\ s[b] \in days
      BY <1>7
    <3>2. s[a] \in Int /\ s[b] \in Int
      <4>1. days \subseteq 0..6
        OBVIOUS
      <4>2. days \subseteq Int
        BY <4>1
      <4> QED BY <3>1, <4>2
    <3>3. s[a] < s[b] \/ s[b] < s[a]
      BY <1>7
    <3> HIDE DEF n
    <3> QED BY <3>2, <3>3
  <2>2. s \in Injection(1..n, days)
    BY <1>7, <2>1 DEF Injection, IsInjective
  <2>3. IsFiniteSet(1..n) /\ Cardinality(1..n) = n
    BY <1>6, FS_Interval
  <2>4. s \in Surjection(1..n, days)
    BY <1>6, <2>2, <2>3, FS_Injection
  <2> QED BY <2>4 DEF Surjection
<1> QED BY <1>6, <1>7, <1>8 DEF s
-----------------------------------------------------------------------------
(* Dates.                                                                  *)

(* Counting in weeks of n days, as exactly as seven weekdays need it.      *)
LEMMA Weekwise ==
  ASSUME NEW n \in 1..7, NEW k \in Nat
  PROVE  /\ k \div n \in Nat
         /\ k % n \in 0..(n - 1)
         /\ k = (k \div n) * n + (k % n)
<1> DEFINE P(m) == /\ k \div m \in Nat
                   /\ k % m \in 0..(m - 1)
                   /\ k = (k \div m) * m + (k % m)
<1>1. P(1) OBVIOUS
<1>2. P(2) OBVIOUS
<1>3. P(3) OBVIOUS
<1>4. P(4) OBVIOUS
<1>5. P(5) OBVIOUS
<1>6. P(6) OBVIOUS
<1>7. P(7) OBVIOUS
<1> HIDE DEF P
<1>8. P(n)
  BY <1>1, <1>2, <1>3, <1>4, <1>5, <1>6, <1>7
<1> QED BY <1>8 DEF P

(* Whole weeks come first.                                                 *)
LEMMA WeeksFirst ==
  ASSUME NEW n \in 1..7, NEW q \in Nat, NEW p \in Nat, NEW i \in 0..(n - 1), NEW j \in 0..(n - 1)
  PROVE  /\ q * n \in Nat
         /\ q < p => q * n + i < p * n
         /\ q * n + i < p * n => q < p
         /\ q * n + i < p * n + j <=> q < p \/ (q = p /\ i < j)
<1> DEFINE P(m) == \A x, y \in 0..(m - 1) :
                     /\ q * m \in Nat
                     /\ q < p => q * m + x < p * m
                     /\ q * m + x < p * m => q < p
                     /\ q * m + x < p * m + y <=> q < p \/ (q = p /\ x < y)
<1>1. P(1) OBVIOUS
<1>2. P(2) OBVIOUS
<1>3. P(3) OBVIOUS
<1>4. P(4) OBVIOUS
<1>5. P(5) OBVIOUS
<1>6. P(6) OBVIOUS
<1>7. P(7) OBVIOUS
<1> HIDE DEF P
<1>8. P(n)
  BY <1>1, <1>2, <1>3, <1>4, <1>5, <1>6, <1>7
<1> QED BY <1>8 DEF P

(* So many sessions take so many weeks of n days, rounded up.              *)
LEMMA RoundedUp ==
  ASSUME NEW n \in 1..7, NEW s \in Nat
  PROVE  /\ -((-s) \div n) \in Nat
         /\ s <= (-((-s) \div n)) * n
<1> DEFINE P(m) == /\ -((-s) \div m) \in Nat
                   /\ s <= (-((-s) \div m)) * m
<1>1. P(1) OBVIOUS
<1>2. P(2) OBVIOUS
<1>3. P(3) OBVIOUS
<1>4. P(4) OBVIOUS
<1>5. P(5) OBVIOUS
<1>6. P(6) OBVIOUS
<1>7. P(7) OBVIOUS
<1> HIDE DEF P
<1>8. P(n)
  BY <1>1, <1>2, <1>3, <1>4, <1>5, <1>6, <1>7
<1> QED BY <1>8 DEF P

(* Today lies in a month.                                                  *)
LEMMA ThisMonthType == ThisMonth \in 1..12
<1> DEFINE S == { k \in Nat : k <= 11 /\ MonthStart[12 - k] <= Today }
<1>1. 11 \in S
  BY ScheduleAssumption
<1>2. PICK k \in S : \A j \in S : k <= j
  BY <1>1, Least
<1>3. 12 - k \in 1..12 /\ MonthStart[12 - k] <= Today
  BY <1>2
<1>4. ASSUME NEW n \in 1..12, MonthStart[n] <= Today PROVE n <= 12 - k
  <2>1. 12 - n \in Nat /\ 12 - n <= 11 /\ 12 - (12 - n) = n
    OBVIOUS
  <2>2. 12 - n \in S
    <3>1. MonthStart[12 - (12 - n)] <= Today
      BY <1>4, <2>1
    <3> QED BY <2>1, <3>1
  <2>3. k <= 12 - n /\ k \in Nat
    BY <1>2, <2>2
  <2> QED BY <2>3
<1>5. \E m \in 1..12 :
         MonthStart[m] <= Today /\ \A n \in 1..12 : MonthStart[n] <= Today => n <= m
  BY <1>3, <1>4
<1> QED BY <1>5 DEF ThisMonth

(* The n-th Monday of a month is a Monday, and n Mondays of that month are *)
(* no later.                                                               *)
LEMMA NthMonday ==
  ASSUME NEW month \in 1..12, NEW n \in 1..5
  PROVE  LET monday == NthWeekMonday(month, n) IN
         /\ monday \in Int
         /\ Weekday(monday) = 0
         /\ Cardinality({ d \in MonthStart[month]..monday : Weekday(d) = 0 }) = n
<1> DEFINE first == MonthStart[month] + ((7 - Weekday(MonthStart[month])) % 7)
           monday == first + 7 * (n - 1)
           Mondays == { d \in MonthStart[month]..monday : Weekday(d) = 0 }
           nth == [i \in 1..n |-> first + 7 * (i - 1)]
<1>1. MonthStart[month] \in Int
  BY ScheduleAssumption
<1>2. first \in Int /\ first % 7 = 0 /\ MonthStart[month] <= first /\ first <= MonthStart[month] + 6
  <2> DEFINE start == MonthStart[month]
  <2>1. start % 7 \in 0..6 /\ (start - (start % 7)) % 7 = 0
    BY <1>1
  <2>2. start \in Int
    BY <1>1
  <2>6. first = start + ((7 - (start % 7)) % 7)
    BY DEF Weekday
  <2> HIDE DEF start
  <2>3. start + ((7 - (start % 7)) % 7) = IF start % 7 = 0 THEN start ELSE start - (start % 7) + 7
    BY <2>1, <2>2
  <2> HIDE DEF first
  <2>5. first \in Int /\ first % 7 = 0 /\ start <= first /\ first <= start + 6
    BY <2>1, <2>2, <2>3, <2>6
  <2> QED BY <2>5 DEF start
<1>3. NthWeekMonday(month, n) = monday
  BY DEF NthWeekMonday
<1> HIDE DEF first
<1>4. monday \in Int /\ monday % 7 = 0
  BY <1>2
<1>5. nth \in Bijection(1..n, Mondays)
  <2>1. \A i \in 1..n : nth[i] \in Mondays
    BY <1>1, <1>2 DEF Weekday
  <2>2. \A i, j \in 1..n : nth[i] = nth[j] => i = j
    BY <1>2
  <2>3. \A d \in Mondays : \E i \in 1..n : nth[i] = d
    <3> SUFFICES ASSUME NEW d \in Mondays PROVE \E i \in 1..n : nth[i] = d
      OBVIOUS
    <3>1. d \in Int /\ d % 7 = 0 /\ MonthStart[month] <= d /\ d <= monday
      BY <1>1, <1>4 DEF Weekday
    <3>2. first <= d
      BY <1>1, <1>2, <3>1
    <3> DEFINE i == ((d - first) \div 7) + 1
    <3>3. i \in 1..n /\ first + 7 * (i - 1) = d
      BY <1>2, <3>1, <3>2
    <3> QED BY <3>3
  <2> HIDE DEF Mondays
  <2>4. nth \in [1..n -> Mondays]
    BY <2>1
  <2> QED BY <2>2, <2>3, <2>4 DEF Bijection, Injection, Surjection, IsInjective
<1>6. IsFiniteSet(1..n) /\ Cardinality(1..n) = n
  <2>1. \A m \in Int : IsFiniteSet(1..m) /\ (1 > m \/ Cardinality(1..m) = m - 1 + 1)
    BY FS_Interval, 1 \in Int
  <2> HIDE DEF monday, Mondays, nth
  <2>2. n \in Int /\ n - 1 + 1 = n /\ ~ (1 > n)
    OBVIOUS
  <2> QED BY <2>1, <2>2
<1>7. Cardinality(Mondays) = n
  <2> HIDE DEF Mondays, nth
  <2>1. ExistsBijection(1..n, Mondays)
    BY <1>5 DEF ExistsBijection
  <2> QED BY <1>6, <2>1, FS_Bijection
<1> HIDE DEF monday
<1>8. Weekday(monday) = 0
  BY <1>4 DEF Weekday
<1> QED BY <1>3, <1>4, <1>7, <1>8
(* The first Monday of the lessons is the one the line means, and is yet   *)
(* to come unless the line says otherwise.                                 *)
LEMMA AnchorIs ==
  ASSUME NEW l \in CourseLine, l.days # {}, ~BadMonth(l)
  PROVE  /\ Anchor(l) \in Int
         /\ Weekday(Anchor(l)) = 0
         /\ IsFirstMonday(Anchor(l), l)
         /\ l.nth # Nil \/ l.date # Nil \/ l.week = "this" \/ Today < Anchor(l)
<1>1. ASSUME NEW d \in Int
      PROVE  /\ Monday(d) \in Int /\ Weekday(Monday(d)) = 0 /\ Weekday(Monday(d) + 7) = 0
             /\ Monday(d) \in (d - 6)..d
  BY <1>1 DEF Monday, Weekday
<1>2. Today \in Int
  BY ScheduleAssumption
<1>3. CASE l.nth # Nil
  <2> DEFINE month == IF l.nth[1] = Nil THEN ThisMonth ELSE l.nth[1]
  <2>1. l.nth[2] \in 1..5 /\ l.nth[1] \in (0..99) \union {Nil}
    BY <1>3 DEF CourseLine
  <2>2. month \in 1..12
    BY <1>3, ThisMonthType DEF BadMonth
  <2> HIDE DEF month
  <2>3. LET monday == NthWeekMonday(month, l.nth[2]) IN
         /\ monday \in Int
         /\ Weekday(monday) = 0
         /\ Cardinality({ d \in MonthStart[month]..monday : Weekday(d) = 0 }) = l.nth[2]
    BY <2>1, <2>2, NthMonday
  <2>4. Anchor(l) = NthWeekMonday(month, l.nth[2])
    BY <1>3 DEF Anchor, month
  <2>5. IsFirstMonday(Anchor(l), l)
    BY <1>3, <2>3, <2>4 DEF IsFirstMonday, month
  <2> QED BY <1>3, <2>3, <2>4, <2>5
<1>4. CASE l.nth = Nil /\ l.date # Nil
  <2>1. l.date \in Int /\ Anchor(l) = Monday(l.date)
    BY <1>4 DEF CourseLine, Anchor
  <2> QED BY <1>1, <1>4, <2>1 DEF IsFirstMonday
<1>5. CASE l.nth = Nil /\ l.date = Nil /\ l.week = "this"
  BY <1>1, <1>2, <1>5 DEF Anchor, IsFirstMonday
<1>6. CASE l.nth = Nil /\ l.date = Nil /\ l.week # "this"
  <2>1. Anchor(l) = Monday(Today) + 7
    BY <1>6 DEF Anchor
  <2>2. Anchor(l) \in Int /\ Anchor(l) \in (Today + 1)..(Today + 7) /\ Weekday(Anchor(l)) = 0
    BY <1>1, <1>2, <2>1
  <2>3. IsFirstMonday(Anchor(l), l)
    BY <1>6, <2>2 DEF IsFirstMonday
  <2> QED BY <1>2, <2>2, <2>3
<1> QED BY <1>3, <1>4, <1>5, <1>6

(* The k-th date a line of weekdays asks for.                              *)
Date(l, k) ==
    Anchor(l) + 7 * ((k - 1) \div Cardinality(l.days))
              + Ascending(l.days)[((k - 1) % Cardinality(l.days)) + 1]

(* How many it asks for.                                                   *)
Sessions(l) ==
    IF l.weeks = Nil /\ l.sessions # Nil THEN l.sessions ELSE Weeks(l) * Cardinality(l.days)

(* The lessons are on these dates.                                         *)
LEMMA DatesAre ==
  ASSUME NEW l \in CourseLine, l.days # {}
  PROVE  /\ Weeks(l) \in Nat
         /\ Sessions(l) \in Nat
         /\ LessonDates(l) = [k \in 1..Sessions(l) |-> Date(l, k)]
<1> DEFINE n == Cardinality(l.days)
           days == Ascending(l.days)
           all == [k \in 1..(Weeks(l) * n) |->
                      Anchor(l) + 7 * ((k - 1) \div n) + days[((k - 1) % n) + 1]]
<1>1. l.days \in SUBSET (0..6) /\ l.weeks \in Nat \union {Nil} /\ l.sessions \in Nat \union {Nil}
  BY DEF CourseLine
<1>2. n \in 1..7 /\ days \in [1..n -> l.days]
  BY <1>1, Ascends
<1>3. Len(days) = n
  BY <1>2
<1>4. LessonDates(l) = IF l.weeks = Nil /\ l.sessions # Nil THEN SubSeq(all, 1, l.sessions) ELSE all
  BY <1>3 DEF LessonDates
<1> HIDE DEF n, days
<1>5. Nil \notin Int
  BY ScheduleAssumption
<1>6. Weeks(l) \in Nat /\ (l.weeks = Nil /\ l.sessions # Nil => l.sessions <= Weeks(l) * n)
  <2>1. CASE l.weeks # Nil
    BY <1>1, <2>1 DEF Weeks
  <2>2. CASE l.weeks = Nil /\ l.sessions = Nil
    BY <2>2 DEF Weeks
  <2>3. CASE l.weeks = Nil /\ l.sessions # Nil
    <3>1. l.sessions \in Nat
      BY <1>1, <2>3
    <3>2. Weeks(l) = -((-l.sessions) \div n)
      BY <2>3 DEF Weeks, n
    <3> QED BY <1>2, <3>1, <3>2, RoundedUp
  <2> QED BY <2>1, <2>2, <2>3
<1>7. Weeks(l) * n \in Nat
  BY <1>2, <1>6, WeeksFirst
<1>8. all = [k \in 1..(Weeks(l) * n) |-> Date(l, k)]
  BY DEF Date, n, days
<1> HIDE DEF all
<1>9. CASE l.weeks = Nil /\ l.sessions # Nil
  <2>1. l.sessions \in Nat /\ Sessions(l) = l.sessions /\ l.sessions <= Weeks(l) * n
    BY <1>1, <1>6, <1>9 DEF Sessions
  <2>2. SubSeq(all, 1, l.sessions) = [k \in 1..l.sessions |-> all[k]]
    BY <2>1
  <2>3. \A k \in 1..l.sessions : all[k] = Date(l, k)
    BY <1>7, <1>8, <2>1
  <2> QED BY <1>4, <1>6, <1>9, <2>1, <2>2, <2>3
<1>10. CASE ~ (l.weeks = Nil /\ l.sessions # Nil)
  <2>1. Sessions(l) = Weeks(l) * n
    BY <1>10 DEF Sessions, n
  <2> QED BY <1>4, <1>6, <1>7, <1>8, <1>10, <2>1
<1> QED BY <1>9, <1>10

(* A date is one of the weekdays, so many whole weeks after the first      *)
(* Monday.                                                                 *)
LEMMA DateFalls ==
  ASSUME NEW l \in CourseLine, l.days # {}, ~BadMonth(l), NEW k \in Nat \ {0}
  PROVE  LET n == Cardinality(l.days)
             d == Ascending(l.days)[((k - 1) % n) + 1]
             q == (k - 1) \div n
         IN  /\ q \in Nat
             /\ d \in l.days /\ d \in 0..6
             /\ Date(l, k) = Anchor(l) + 7 * q + d
             /\ Date(l, k) \in Int
             /\ Weekday(Date(l, k)) = d
             /\ Anchor(l) % 7 = 0 /\ Anchor(l) \in Int
<1> DEFINE n == Cardinality(l.days)
           d == Ascending(l.days)[((k - 1) % n) + 1]
           q == (k - 1) \div n
<1>1. l.days \in SUBSET (0..6)
  BY DEF CourseLine
<1>2. n \in 1..7 /\ Ascending(l.days) \in [1..n -> l.days]
  BY <1>1, Ascends
<1>3. Anchor(l) \in Int /\ Anchor(l) % 7 = 0
  BY AnchorIs DEF Weekday
<1>4. Date(l, k) = Anchor(l) + 7 * q + d
  BY DEF Date
<1> HIDE DEF n
<1>5. k - 1 \in Nat
  OBVIOUS
<1>6. q \in Nat /\ ((k - 1) % n) \in 0..(n - 1)
  BY <1>2, <1>5, Weekwise
<1>7. ((k - 1) % n) + 1 \in 1..n
  BY <1>2, <1>6
<1>8. d \in l.days
  BY <1>2, <1>7
<1>9. d \in 0..6
  BY <1>1, <1>8
<1> HIDE DEF q, d
<1>10. Date(l, k) \in Int /\ Date(l, k) % 7 = d
  BY <1>3, <1>4, <1>6, <1>9
<1> QED BY <1>3, <1>4, <1>6, <1>8, <1>9, <1>10 DEF Weekday, q, d, n

(* The dates ascend.                                                       *)
LEMMA DatesAscend ==
  ASSUME NEW l \in CourseLine, l.days # {}, ~BadMonth(l),
         NEW j \in Nat \ {0}, NEW k \in Nat \ {0}, j < k
  PROVE  Date(l, j) < Date(l, k)
<1> DEFINE n == Cardinality(l.days)
           s == Ascending(l.days)
           i == (j - 1) % n
           h == (k - 1) % n
           p == (j - 1) \div n
           q == (k - 1) \div n
<1>1. l.days \in SUBSET (0..6)
  BY DEF CourseLine
<1>2. /\ n \in 1..7
      /\ \A a, b \in 1..n : a < b => s[a] < s[b]
  BY <1>1, Ascends
<1>3. /\ p \in Nat /\ s[i + 1] \in 0..6 /\ Date(l, j) = Anchor(l) + 7 * p + s[i + 1]
      /\ q \in Nat /\ s[h + 1] \in 0..6 /\ Date(l, k) = Anchor(l) + 7 * q + s[h + 1]
      /\ Anchor(l) \in Int
  BY DateFalls
<1> HIDE DEF n, s
<1>4. j - 1 \in Nat /\ k - 1 \in Nat /\ j - 1 < k - 1
  OBVIOUS
<1>5. /\ i \in 0..(n - 1) /\ j - 1 = p * n + i
      /\ h \in 0..(n - 1) /\ k - 1 = q * n + h
  BY <1>2, <1>4, Weekwise
<1> HIDE DEF i, h, p, q
<1>6. p < q \/ (p = q /\ i < h)
  <2>1. p * n + i < q * n + h
    BY <1>4, <1>5
  <2> QED BY <1>2, <1>3, <1>5, <2>1, WeeksFirst
<1>7. p = q /\ i < h => s[i + 1] < s[h + 1]
  BY <1>2, <1>5
<1> QED BY <1>3, <1>6, <1>7

(* No listed weekday is left out: it is the date of a lesson, in the week  *)
(* it lies in.                                                             *)
LEMMA DatesComplete ==
  ASSUME NEW l \in CourseLine, l.days # {}, ~BadMonth(l),
         NEW x \in Int, Anchor(l) <= x, Weekday(x) \in l.days
  PROVE  \E k \in Nat \ {0} :
            Date(l, k) = x /\ (k - 1) \div Cardinality(l.days) = (x - Anchor(l)) \div 7
<1> DEFINE n == Cardinality(l.days)
           s == Ascending(l.days)
           a == Anchor(l)
           q == (x - a) \div 7
<1>1. l.days \in SUBSET (0..6)
  BY DEF CourseLine
<1>2. /\ n \in 1..7
      /\ \A d \in l.days : \E i \in 1..n : s[i] = d
  BY <1>1, Ascends
<1>3. a \in Int /\ a % 7 = 0
  BY AnchorIs DEF Weekday
<1> HIDE DEF n, s, a
<1>4. a <= x
  BY DEF a
<1>5. q \in Nat /\ x = a + 7 * q + (x % 7)
  BY <1>3, <1>4
<1> HIDE DEF q
<1>6. PICK i \in 1..n : s[i] = x % 7
  BY <1>2 DEF Weekday
<1> DEFINE k == q * n + i
<1>7. q * n \in Nat /\ i - 1 \in 0..(n - 1)
  BY <1>2, <1>5, WeeksFirst
<1>8. k \in Nat \ {0} /\ k - 1 = q * n + (i - 1) /\ k - 1 \in Nat
  BY <1>7
<1> HIDE DEF k
<1> DEFINE p == (k - 1) \div n
           h == (k - 1) % n
<1>9. p \in Nat /\ h \in 0..(n - 1) /\ k - 1 = p * n + h
  BY <1>2, <1>8, Weekwise
<1> HIDE DEF p, h
<1>10. p = q /\ h = i - 1
  <2>1. ~ (p * n + h < q * n + (i - 1)) /\ ~ (q * n + (i - 1) < p * n + h)
    BY <1>7, <1>8, <1>9
  <2>2. ~ (p < q \/ (p = q /\ h < i - 1)) /\ ~ (q < p \/ (q = p /\ i - 1 < h))
    BY <1>2, <1>5, <1>7, <1>9, <2>1, WeeksFirst
  <2> QED BY <1>5, <1>7, <1>9, <2>2
<1>11. Date(l, k) = a + 7 * p + s[h + 1]
  BY DEF Date, a, p, h, s, n
<1>12. Date(l, k) = x
  <2>1. h + 1 = i
    BY <1>10
  <2> QED BY <1>5, <1>6, <1>10, <1>11, <2>1
<1> QED BY <1>8, <1>10, <1>12 DEF p, q, a, n
-----------------------------------------------------------------------------
(* The lessons of a line.                                                  *)

(* The dates are those the line asks for: none left out, none twice.       *)
LEMMA DatesAsAsked ==
  ASSUME NEW l \in CourseLine, l.days # {}, ~BadMonth(l), LessonDates(l) # <<>>
  PROVE  AsAsked(l, LessonDates(l))
<1> DEFINE N == Sessions(l)
           D == LessonDates(l)
           a == Anchor(l)
           n == Cardinality(l.days)
<1>1. N \in Nat /\ Weeks(l) \in Nat /\ D = [k \in 1..N |-> Date(l, k)]
  BY DatesAre
<1>2. N # 0
  <2>1. N = 0 => D = <<>>
    BY <1>1
  <2> QED BY <2>1
<1>3. /\ a \in Int /\ Weekday(a) = 0 /\ IsFirstMonday(a, l)
      /\ l.nth # Nil \/ l.date # Nil \/ l.week = "this" \/ Today < a
  BY AnchorIs
<1>4. a % 7 = 0
  BY <1>3 DEF Weekday
<1>5. n \in 1..7
  <2>1. l.days \in SUBSET (0..6)
    BY DEF CourseLine
  <2> QED BY <2>1, Ascends
<1>6. ASSUME NEW k \in Nat \ {0}
      PROVE  /\ (k - 1) \div n \in Nat
             /\ Date(l, k) \in Int /\ Weekday(Date(l, k)) \in l.days
             /\ Date(l, k) - a \in (7 * ((k - 1) \div n))..(7 * ((k - 1) \div n) + 6)
  <2> DEFINE d == Ascending(l.days)[((k - 1) % n) + 1]
             q == (k - 1) \div n
  <2>1. /\ q \in Nat /\ d \in l.days /\ d \in 0..6
        /\ Date(l, k) = a + 7 * q + d /\ Date(l, k) \in Int /\ Weekday(Date(l, k)) = d
    BY DateFalls
  <2> HIDE DEF d, q, a, n
  <2>2. Date(l, k) - a \in (7 * q)..(7 * q + 6)
    BY <1>3, <2>1
  <2> QED BY <2>1, <2>2 DEF q
<1>7. \A j, k \in Nat \ {0} : j < k => Date(l, j) < Date(l, k)
  BY DatesAscend
<1>8. ASSUME NEW x \in Int, a <= x, Weekday(x) \in l.days
      PROVE  \E k \in Nat \ {0} : Date(l, k) = x /\ (k - 1) \div n = (x - a) \div 7
  BY <1>8, DatesComplete
<1>9. l.weeks = Nil /\ l.sessions # Nil => N = l.sessions
  BY DEF Sessions
<1>10. ~ (l.weeks = Nil /\ l.sessions # Nil) =>
          N = Weeks(l) * n /\ Weeks(l) = IF l.weeks # Nil THEN l.weeks ELSE 4
  BY DEF Sessions, Weeks
<1> HIDE DEF N, D, a, n
<1>11. Len(D) = N /\ DOMAIN D = 1..N /\ \A k \in 1..N : D[k] = Date(l, k)
  BY <1>1
<1>12. Monday(D[1]) = a
  <2> DEFINE q == (1 - 1) \div n
  <2>1. D[1] = Date(l, 1) /\ 1 - 1 = 0
    BY <1>1, <1>2, <1>11
  <2>2. q = 0
    <3>1. q \in Nat /\ 0 = q * n + (0 % n) /\ (0 % n) \in 0..(n - 1)
      BY <1>5, Weekwise
    <3> HIDE DEF q
    <3>2. ~ (0 < q)
      <4>1. 0 < q => 0 * n + 0 < q * n
        BY <1>5, <3>1, WeeksFirst, 0 \in Nat, 0 \in 0..(n - 1)
      <4>2. 0 * n + 0 = 0
        BY <1>5
      <4>3. q * n \in Nat
        BY <1>5, <3>1, WeeksFirst
      <4>4. q * n = 0
        BY <1>5, <3>1, <4>3
      <4> QED BY <4>1, <4>2, <4>4
    <3> QED BY <3>1, <3>2
  <2>3. Date(l, 1) - a \in (7 * q)..(7 * q + 6) /\ Date(l, 1) \in Int
    BY <1>6
  <2> HIDE DEF q
  <2>4. Date(l, 1) \in a..(a + 6)
    BY <1>3, <2>2, <2>3
  <2> QED BY <1>3, <1>4, <2>1, <2>4 DEF Monday, Weekday
<1>13. ToSet(D) = { Date(l, k) : k \in 1..N }
  BY <1>11 DEF ToSet
<1>14. D[N] = Date(l, N) /\ Date(l, N) \in Int
  BY <1>1, <1>2, <1>6, <1>11
<1>15. ToSet(D) = { d \in a..D[N] : Weekday(d) \in l.days }
  <2>1. ASSUME NEW k \in 1..N
        PROVE  Date(l, k) \in a..D[N] /\ Weekday(Date(l, k)) \in l.days
    <3> DEFINE q == (k - 1) \div n
    <3>3. k \in Nat \ {0}
      BY <1>1
    <3>4. /\ q \in Nat /\ Date(l, k) \in Int /\ Weekday(Date(l, k)) \in l.days
          /\ Date(l, k) - a \in (7 * q)..(7 * q + 6)
      BY <1>6, <3>3
    <3> HIDE DEF q
    <3>1. Date(l, k) \in Int /\ a <= Date(l, k) /\ Weekday(Date(l, k)) \in l.days
      BY <1>3, <3>4
    <3>2. k = N \/ Date(l, k) < Date(l, N)
      BY <1>1, <1>2, <1>7
    <3> QED BY <1>3, <1>14, <3>1, <3>2
  <2>2. ASSUME NEW x \in a..D[N], Weekday(x) \in l.days
        PROVE  \E k \in 1..N : x = Date(l, k)
    <3>1. x \in Int /\ a <= x /\ x <= Date(l, N)
      BY <1>3, <1>14
    <3>2. PICK k \in Nat \ {0} : Date(l, k) = x
      BY <1>8, <2>2, <3>1
    <3>3. ~ (N < k)
      BY <1>1, <1>2, <1>7, <1>14, <3>1, <3>2
    <3> QED BY <1>1, <3>2, <3>3
  <2> QED BY <1>13, <2>1, <2>2
<1>16. ~ (l.weeks = Nil /\ l.sessions # Nil) =>
         { d \in a..(a + 7 * Weeks(l) - 1) : Weekday(d) \in l.days } = ToSet(D)
  <2> SUFFICES ASSUME N = Weeks(l) * n
               PROVE  { d \in a..(a + 7 * Weeks(l) - 1) : Weekday(d) \in l.days } = ToSet(D)
    BY <1>10
  <2>1. ASSUME NEW k \in Nat \ {0}
        PROVE  k <= N <=> (k - 1) \div n < Weeks(l)
    <3> DEFINE q == (k - 1) \div n
               i == (k - 1) % n
    <3>1. q \in Nat /\ i \in 0..(n - 1) /\ k - 1 = q * n + i
      BY <1>5, Weekwise, k - 1 \in Nat
    <3> HIDE DEF q, i
    <3>2. q < Weeks(l) <=> q * n + i < Weeks(l) * n
      BY <1>1, <1>5, <3>1, WeeksFirst, 0 \in 0..(n - 1)
    <3>3. q < Weeks(l) <=> k - 1 < N
      BY <3>1, <3>2
    <3> QED BY <1>1, <3>3 DEF q
  <2>2. ASSUME NEW k \in 1..N
        PROVE  Date(l, k) \in a..(a + 7 * Weeks(l) - 1) /\ Weekday(Date(l, k)) \in l.days
    <3> DEFINE q == (k - 1) \div n
    <3>3. k \in Nat \ {0}
      BY <1>1
    <3>1. /\ q \in Nat /\ Date(l, k) \in Int /\ Weekday(Date(l, k)) \in l.days
          /\ Date(l, k) - a \in (7 * q)..(7 * q + 6)
      BY <1>6, <3>3
    <3>2. q < Weeks(l)
      <4>1. k <= N
        BY <1>1
      <4> QED BY <2>1, <3>3, <4>1
    <3> HIDE DEF q
    <3> QED BY <1>1, <1>3, <3>1, <3>2
  <2>3. ASSUME NEW x \in a..(a + 7 * Weeks(l) - 1), Weekday(x) \in l.days
        PROVE  \E k \in 1..N : x = Date(l, k)
    <3>1. x \in Int /\ a <= x /\ (x - a) \div 7 < Weeks(l)
      BY <1>1, <1>3
    <3>2. PICK k \in Nat \ {0} : Date(l, k) = x /\ (k - 1) \div n = (x - a) \div 7
      BY <1>8, <2>3, <3>1
    <3>3. k <= N
      BY <2>1, <3>1, <3>2
    <3> QED BY <1>1, <3>2, <3>3
  <2> QED BY <1>13, <2>2, <2>3
<1>17. \A j, k \in DOMAIN D : j < k => D[j] < D[k]
  BY <1>1, <1>7, <1>11
<1>18. D[1] < Today => l.nth # Nil \/ l.date # Nil \/ l.week = "this"
  <2>1. D[1] \in a..D[N]
    BY <1>1, <1>2, <1>11, <1>13, <1>15
  <2>2. Today \in Int
    BY ScheduleAssumption
  <2> QED BY <1>3, <1>14, <2>1, <2>2
<1>19. AsAsked(l, D)
  BY <1>3, <1>9, <1>10, <1>11, <1>12, <1>15, <1>16, <1>17, <1>18 DEF AsAsked
<1> QED BY <1>19 DEF D
(* A moment of a day lies on that day, and minutes order the moments of it. *)
LEMMA Moments ==
  ASSUME NEW d \in Int, NEW m \in Int, NEW n \in Int
  PROVE  /\ Moment(d, m) \in Int
         /\ m \in 0..(Day - 1) => DayOf(Moment(d, m)) = d
         /\ Moment(d, m) <= Moment(d, n) <=> m <= n
         /\ ~ (Moment(d, m) + 120 <= Moment(d, m))
BY DEF Moment, DayOf, Day

(* Minutes of the day are integers.                                        *)
LEMMA Minutes == \A m \in Nat \union 0..(Day - 1) : m \in Int
BY DEF Day

(* A line's lessons are within one day.                                    *)
LEMMA TimesOfLine ==
  ASSUME NEW l \in CourseLine, ~BadMinute(l.span)
  PROVE  LineTimes(l).from \in 0..(Day - 1) /\ LineTimes(l).to \in 0..(Day - 1)
<1>1. CASE l.span = Nil
  BY <1>1 DEF LineTimes, Day
<1>2. CASE l.span # Nil
  <2> DEFINE s == l.span
             moved == Moved(s, TRUE)
  <2>1. s \in Span
    BY <1>2 DEF CourseLine
  <2>2. /\ s.from[1] \in 0..99 /\ s.from[2] \in 0..59
        /\ s.to[1] \in 0..99 /\ s.to[2] \in 0..59
    BY <1>2, <2>1 DEF Span, BadMinute
  <2>3. moved \in BOOLEAN
    BY DEF Moved
  <2>4. /\ LineTimes(l).from = AcademyTime(s.from[1], s.from[2], moved)
        /\ LineTimes(l).to = AcademyTime(s.to[1], s.to[2], moved)
    BY <1>2 DEF LineTimes, TimeRange
  <2> HIDE DEF moved, s
  <2>5. /\ AcademyTime(s.from[1], s.from[2], moved) \in 0..(Day - 1)
        /\ AcademyTime(s.to[1], s.to[2], moved) \in 0..(Day - 1)
    <3>1. \A h \in 0..99, m \in 0..59, shift \in BOOLEAN : AcademyTime(h, m, shift) \in 0..(Day - 1)
      <4> SUFFICES ASSUME NEW h \in 0..99, NEW m \in 0..59, NEW shift \in BOOLEAN
                   PROVE  AcademyTime(h, m, shift) \in 0..(Day - 1)
        OBVIOUS
      <4>1. m \in 0..99 /\ m <= 59
        OBVIOUS
      <4> QED BY <4>1, AcademyTimeType
    <3> QED BY <2>2, <2>3, <3>1
  <2> QED BY <2>4, <2>5
<1> QED BY <1>1, <1>2

(* A line that tells something becomes lessons on its dates.               *)
LEMMA LineLessonsAre ==
  ASSUME NEW l \in CourseLine, Telling(l), ~LineRaises(l), NEW j \in Nat
  PROVE  /\ LineLessons(l, j) \in Seq(Lesson)
         /\ \A k \in DOMAIN LineLessons(l, j) :
               /\ LineLessons(l, j)[k].line = j
               /\ LineLessons(l, j)[k].homework = Nil
               /\ \E d \in Int : /\ LineLessons(l, j)[k].start = Moment(d, LineTimes(l).from)
                                 /\ LineLessons(l, j)[k].end = Moment(d, LineTimes(l).to)
         /\ DaysOf(LineLessons(l, j)) = LessonDates(l)
<1> DEFINE D == LessonDates(l)
           L == LineLessons(l, j)
<1>1. D \in Seq(Int)
  <2>1. CASE l.days = {}
    <3>1. l.date \in Int \union {Nil}
      BY DEF CourseLine
    <3> QED BY <2>1, <3>1 DEF LessonDates
  <2>2. CASE l.days # {}
    <3>1. Sessions(l) \in Nat /\ D = [k \in 1..Sessions(l) |-> Date(l, k)]
      BY <2>2, DatesAre
    <3>2. ~BadMonth(l)
      BY DEF LineRaises
    <3>3. \A k \in 1..Sessions(l) : k \in Nat \ {0}
      BY <3>1
    <3>4. \A k \in 1..Sessions(l) : Date(l, k) \in Int
      BY <2>2, <3>2, <3>3, DateFalls
    <3> QED BY <3>1, <3>4
  <2> QED BY <2>1, <2>2
<1>2. LineTimes(l).from \in 0..(Day - 1) /\ LineTimes(l).to \in 0..(Day - 1)
  BY TimesOfLine DEF LineRaises
<1>3. /\ DOMAIN L = DOMAIN D
      /\ \A k \in DOMAIN D :
            L[k] = [line |-> j, start |-> Moment(D[k], LineTimes(l).from),
                    end |-> Moment(D[k], LineTimes(l).to), homework |-> Nil]
  BY DEF LineLessons
<1>4. L = [k \in DOMAIN D |-> L[k]]
  BY DEF LineLessons
<1> HIDE DEF L, D
<1>5. ASSUME NEW k \in DOMAIN D
      PROVE  /\ L[k] \in Lesson /\ L[k].line = j /\ L[k].homework = Nil
             /\ D[k] \in Int
             /\ L[k].start = Moment(D[k], LineTimes(l).from)
             /\ L[k].end = Moment(D[k], LineTimes(l).to)
             /\ DayOf(L[k].start) = D[k]
  <2>1. D[k] \in Int
    BY <1>1
  <2>2. /\ Moment(D[k], LineTimes(l).from) \in Int /\ Moment(D[k], LineTimes(l).to) \in Int
        /\ DayOf(Moment(D[k], LineTimes(l).from)) = D[k]
    <3>1. LineTimes(l).from \in Int /\ LineTimes(l).to \in Int
      BY <1>2, Minutes
    <3> QED BY <1>2, <2>1, <3>1, Moments
  <2> QED BY <1>3, <2>1, <2>2 DEF Lesson
<1>6. L \in Seq(Lesson)
  <2>1. Len(D) \in Nat /\ DOMAIN D = 1..Len(D)
    BY <1>1
  <2> QED BY <1>3, <1>4, <1>5, <2>1
<1>7. DaysOf(L) = D
  <2>1. DaysOf(L) = [k \in DOMAIN D |-> D[k]]
    BY <1>3, <1>5 DEF DaysOf
  <2> QED BY <1>1, <2>1
<1> QED BY <1>3, <1>5, <1>6, <1>7 DEF L, D

(* They are torn exactly where the line's range is.                        *)
LEMMA LineLessonsRight ==
  ASSUME NEW t, NEW j \in Nat, t.lines[j] \in CourseLine,
         Telling(t.lines[j]), ~LineRaises(t.lines[j]),
         NEW k \in DOMAIN LineLessons(t.lines[j], j)
  PROVE  Right(t, LineLessons(t.lines[j], j)[k])
<1> DEFINE l == t.lines[j]
           x == LineLessons(l, j)[k]
<1> SUFFICES Right(t, x)
  OBVIOUS
<1>1. PICK d \in Int : /\ x.start = Moment(d, LineTimes(l).from)
                       /\ x.end = Moment(d, LineTimes(l).to)
  BY LineLessonsAre
<1>2. x.line = j
  BY LineLessonsAre
<1>3. LineTimes(l).from \in 0..(Day - 1) /\ LineTimes(l).to \in 0..(Day - 1)
  BY TimesOfLine DEF LineRaises
<1>4. l.kind = "course" /\ l.span \in Span \union {Nil} /\ ~BadMinute(l.span)
  BY DEF CourseLine, LineRaises
<1> HIDE DEF x, l
<1>5. x.end <= x.start <=> LineTimes(l).to <= LineTimes(l).from
  <2>1. LineTimes(l).from \in Int /\ LineTimes(l).to \in Int
    BY <1>3, Minutes
  <2> DEFINE from == LineTimes(l).from
             to == LineTimes(l).to
  <2>2. /\ x.start = Moment(d, from) /\ x.end = Moment(d, to)
        /\ from \in Int /\ to \in Int
    BY <1>1, <2>1
  <2> HIDE DEF from, to
  <2>3. Moment(d, to) <= Moment(d, from) <=> to <= from
    BY <2>2, Moments
  <2> QED BY <2>2, <2>3 DEF from, to
<1>6. t.lines[x.line] = l
  BY <1>2 DEF l
<1>7. CASE l.span = Nil
  <2>1. LineRight(t.header, l, x.end <= x.start)
    BY <1>4, <1>7 DEF LineRight
  <2> QED BY <1>6, <2>1 DEF Right
<1>8. CASE l.span # Nil
  <2> DEFINE span == l.span
             from == 60 * span.from[1] + span.from[2]
             to == 60 * span.to[1] + span.to[2]
             backward == x.end <= x.start
  <2>1. span \in Span /\ span # Nil /\ ~BadMinute(span) /\ span = l.span
    BY <1>4, <1>8
  <2>2. LineTimes(l) = TimeRange(span, TRUE)
    BY <1>8 DEF LineTimes
  <2>7. from = 60 * span.from[1] + span.from[2] /\ to = 60 * span.to[1] + span.to[2]
    OBVIOUS
  <2> HIDE DEF span, from, to
  <2>3. ASSUME from < to, to < Day
        PROVE  TimeRange(span, TRUE).to <= TimeRange(span, TRUE).from <=> Torn(span.am, from, to)
    BY <2>1, <2>3, <2>7, RangeBackward
  <2>4. backward <=> TimeRange(span, TRUE).to <= TimeRange(span, TRUE).from
    BY <1>5, <2>2
  <2> HIDE DEF backward
  <2>5. ASSUME from < to, to < Day
        PROVE  backward <=> Torn(span.am, from, to)
    BY <2>3, <2>4, <2>5
  <2>6. LineRight(t.header, l, backward)
    <3>1. l.kind # "row"
      BY <1>4
    <3>2. from < to /\ to < Day => (backward <=> Torn(span.am, from, to))
      BY <2>5
    <3> QED BY <2>1, <3>1, <3>2 DEF LineRight, from, to
  <2> QED BY <1>6, <2>6 DEF Right, backward
<1> QED BY <1>7, <1>8

-----------------------------------------------------------------------------
(* The lessons of a table.                                                 *)

(* A row with a date and a time becomes a lesson, torn where its cells are. *)
LEMMA RowLessonIs ==
  ASSUME NEW j \in Nat, Lines[j] \in Row, Usable(Lines[j]), ~RowRaises(Lines[j])
  PROVE  /\ RowLesson(Lines[j], j) \in Lesson
         /\ RowLesson(Lines[j], j).line = j
         /\ Right(text, RowLesson(Lines[j], j))
<1> DEFINE row == Lines[j]
           x == RowLesson(row, j)
           day == Cell(row, "date")
<1>1. day \in Int
  BY DEF Usable, Cell, Row
<1>2. /\ x.line = j /\ x.start = RowTimes(row).start /\ x.end = RowTimes(row).end
      /\ x.homework = RowHomework(row, j)
      /\ x = [line |-> x.line, start |-> x.start, end |-> x.end, homework |-> x.homework]
  BY DEF RowLesson
<1>3. RowHomework(row, j) \in Homework \union {Nil}
  <2> DEFINE due == Cell(row, "homework_due")
  <2>1. CASE ~HasHomework(row)
    BY <2>1 DEF RowHomework
  <2>2. CASE HasHomework(row) /\ due = Nil
    BY <2>2 DEF RowHomework, Homework
  <2>3. CASE HasHomework(row) /\ due # Nil
    <3>1. due \in [day : Int, at : Reading \union {Nil}]
      BY <2>3 DEF Cell, Row
    <3>2. due.day \in Int /\ due.at \in Reading \union {Nil}
      BY <3>1
    <3>3. due.at # Nil => Clock(due.at) \in Nat
      <4> SUFFICES ASSUME due.at \in Reading PROVE Clock(due.at) \in Nat
        BY <3>2
      <4>1. due.at.h \in 0..99 /\ due.at.m \in 0..99
        BY DEF Reading
      <4>2. (due.at.pm \/ (due.at.form = "hour" /\ ~due.at.am)) \in BOOLEAN
        BY DEF Reading
      <4> HIDE DEF due
      <4> QED BY <4>1, <4>2, AcademyTimeType DEF Clock
    <3>4. RowHomework(row, j) = [line |-> j, due |-> Moment(due.day,
                                   IF due.at = Nil THEN Day - 1 ELSE Clock(due.at))]
      BY <2>3 DEF RowHomework
    <3> HIDE DEF due
    <3>5. Moment(due.day, IF due.at = Nil THEN Day - 1 ELSE Clock(due.at)) \in Int
      BY <3>2, <3>3 DEF Moment, Day
    <3> QED BY <3>4, <3>5 DEF Homework
  <2> QED BY <2>1, <2>2, <2>3
<1>4. ASSUME NEW r \in Reading PROVE Clock(r) \in Nat
  <2>1. r.h \in 0..99 /\ r.m \in 0..99 /\ (r.pm \/ (r.form = "hour" /\ ~r.am)) \in BOOLEAN
    BY DEF Reading
  <2> QED BY <2>1, AcademyTimeType DEF Clock
<1>5. row.kind = "row" /\ text.lines[j] = row
  BY DEF Row, Lines
<1>6. CASE row.slot # Nil
  <2>1. row.slot \in Span
    BY <1>6 DEF Row
  <2>2. TimeRange(row.slot, FALSE).from \in Nat /\ TimeRange(row.slot, FALSE).to \in Nat
    <3>1. /\ row.slot.from[1] \in 0..99 /\ row.slot.from[2] \in 0..99
          /\ row.slot.to[1] \in 0..99 /\ row.slot.to[2] \in 0..99
      BY <2>1 DEF Span
    <3>2. Moved(row.slot, FALSE) \in BOOLEAN
      BY DEF Moved
    <3> HIDE DEF row
    <3> QED BY <3>1, <3>2, AcademyTimeType DEF TimeRange
  <2>3. /\ RowTimes(row).start = Moment(day, TimeRange(row.slot, FALSE).from)
        /\ RowTimes(row).end = Moment(day, TimeRange(row.slot, FALSE).to)
    BY <1>6 DEF RowTimes
  <2> HIDE DEF row, x, day
  <2>4. RowTimes(row).start \in Int /\ RowTimes(row).end \in Int
    <3>1. TimeRange(row.slot, FALSE).from \in Int /\ TimeRange(row.slot, FALSE).to \in Int
      BY <2>2, Minutes
    <3> DEFINE from == TimeRange(row.slot, FALSE).from
               to == TimeRange(row.slot, FALSE).to
    <3>2. from \in Int /\ to \in Int
      BY <3>1
    <3>3. RowTimes(row).start = Moment(day, from) /\ RowTimes(row).end = Moment(day, to)
      BY <2>3
    <3> HIDE DEF from, to
    <3>4. Moment(day, from) \in Int /\ Moment(day, to) \in Int
      BY <1>1, <3>2, Moments
    <3> QED BY <3>3, <3>4
  <2>5. x \in Lesson
    BY <1>2, <1>3, <2>4 DEF Lesson
  <2>6. Right(text, x)
    <3>1. LineRight(text.header, row, x.end <= x.start)
      BY <1>5, <1>6 DEF LineRight
    <3> QED BY <1>2, <1>5, <3>1 DEF Right
  <2> QED BY <1>2, <2>5, <2>6 DEF x, row
<1>7. CASE row.slot = Nil
  <2> DEFINE from == 60 * row.start.h + row.start.m
             to == 60 * row.end.h + row.end.m
             late == "end" \notin text.header \/ row.end = Nil
  <2>1. row.start \in Reading /\ row.start # Nil /\ Cell(row, "start") = row.start /\ ~BadClock(row.start)
    BY <1>7 DEF Usable, RowRaises, Cell, Row
  <2>2. RowTimes(row).start = Moment(day, Clock(row.start))
    BY <1>7, <2>1 DEF RowTimes
  <2>3. ~late => row.end \in Reading /\ row.end # Nil /\ Cell(row, "end") = row.end /\ ~BadClock(row.end)
    BY <1>7 DEF RowRaises, Cell, Columns, Row
  <2>4. late => Cell(row, "end") = Nil
    BY DEF Cell, Columns
  <2>5. RowTimes(row).end = IF late THEN Moment(day, Clock(row.start)) + 120
                            ELSE Moment(day, Clock(row.end))
    BY <1>7, <2>1, <2>3, <2>4 DEF RowTimes
  <2>6. ~late /\ from < to /\ to < Day =>
          (Clock(row.end) <= Clock(row.start) <=>
             InAfternoon(row.start) /\ ~InAfternoon(row.end) /\ to <= from + 720)
    BY <2>1, <2>3, CellsBackward
  <2>7. Clock(row.start) \in Nat /\ (~late => Clock(row.end) \in Nat)
    BY <1>4, <2>1, <2>3
  <2> HIDE DEF row, x, day, late, from, to
  <2>8. x.start \in Int /\ x.end \in Int
    BY <1>1, <1>2, <2>2, <2>5, <2>7 DEF Moment, Day
  <2>9. x \in Lesson
    BY <1>2, <1>3, <2>8 DEF Lesson
  <2>10. /\ late => ~ (x.end <= x.start)
         /\ ~late => (x.end <= x.start <=> Clock(row.end) <= Clock(row.start))
    BY <1>1, <1>2, <2>2, <2>5, <2>7 DEF Moment, Day
  <2>11. ~late /\ from < to /\ to < Day =>
          (x.end <= x.start <=>
             InAfternoon(row.start) /\ ~InAfternoon(row.end) /\ to <= from + 720)
    BY <2>6, <2>10
  <2>12. text.lines[x.line] = row
    BY <1>2, <1>5
  <2>13. Right(text, x)
    <3> DEFINE backward == x.end <= x.start
    <3>1. /\ late => ~backward
          /\ ~late => (from < to /\ to < Day =>
                (backward <=> InAfternoon(row.start) /\ ~InAfternoon(row.end) /\ to <= from + 720))
      BY <2>10, <2>11
    <3> HIDE DEF backward
    <3>2. LineRight(text.header, row, backward)
      BY <1>5, <3>1 DEF LineRight, from, to, late
    <3> QED BY <2>12, <3>2 DEF Right, backward
  <2> QED BY <1>2, <2>9, <2>13 DEF x, row
<1> QED BY <1>6, <1>7
-----------------------------------------------------------------------------
(* The invariant gives what the runs check.                                *)

(* The invariant implies the five properties.                              *)
LEMMA InvImplies ==
  ASSUME IInv
  PROVE  /\ TypeOK /\ LessonsAsAsked /\ BackwardExactly /\ HomeworkUnderItsCourse
         /\ TeacherKnownOrAsked
<1>1. TypeOK
  <2>1. Typed /\ Progress
    BY DEF IInv
  <2>2. /\ Len(courses) \in Nat /\ DOMAIN courses = 1..Len(courses)
        /\ \A i \in DOMAIN courses : courses[i] \in Course
    BY <2>1 DEF Typed
  <2>3. \A i \in DOMAIN courses : \A k \in DOMAIN courses[i].lessons : courses[i].lessons[k] \in Lesson
    <3> SUFFICES ASSUME NEW i \in DOMAIN courses, NEW k \in DOMAIN courses[i].lessons
                 PROVE  courses[i].lessons[k] \in Lesson
      OBVIOUS
    <3>1. courses[i].lessons \in Seq(Lesson)
      BY <2>2 DEF Course
    <3> QED BY <3>1
  <2>4. /\ at \in 0..Len(Lines) \union 0..Len(courses)
        /\ Len(reused) \in {Len(uids), Len(uids) + 1}
        /\ Len(uids) <= Len(courses)
    <3>1. CASE pc \in {"detect", "table", "ai", "lines", "refused"}
      BY <2>1, <2>2, <3>1 DEF Progress
    <3>2. CASE pc \in {"plan", "done"}
      BY <2>1, <2>2, <3>2 DEF Progress
    <3>3. CASE pc = "teacher"
      BY <2>1, <2>2, <3>3 DEF Progress
    <3> QED BY <2>1, <3>1, <3>2, <3>3 DEF Progress
  <2> QED BY <2>1, <2>3, <2>4 DEF TypeOK, Typed, Progress
<1>2. LessonsAsAsked
  BY DEF IInv, DaysAsAsked, AsAsked, DaysOf, LessonsAsAsked, Ruled, LineOf, Lines
<1>3. BackwardExactly
  <2>1. LessonsRight
    BY DEF IInv
  <2> SUFFICES ASSUME source # "text-ai",
                      NEW i \in DOMAIN courses, NEW k \in DOMAIN courses[i].lessons
               PROVE  LET lesson == courses[i].lessons[k]
                          l == Lines[lesson.line]
                          backward == lesson.end <= lesson.start
                          InOrder(from, to) == from < to /\ to < Day
                      IN  /\ l.kind = "course" /\ l.span # Nil =>
                                LET from == 60 * l.span.from[1] + l.span.from[2]
                                    to == 60 * l.span.to[1] + l.span.to[2]
                                IN  InOrder(from, to) =>
                                      (backward <=> ~l.span.am /\ from \in 60..599 /\ to \in 600..(from + 720))
                          /\ l.kind = "row" /\ l.slot = Nil =>
                                IF Cell(l, "end") = Nil THEN ~backward
                                ELSE LET from == 60 * l.start.h + l.start.m
                                         to == 60 * l.end.h + l.end.m
                                     IN  InOrder(from, to) =>
                                           (backward <=> InAfternoon(l.start) /\ ~InAfternoon(l.end)
                                                           /\ to <= from + 720)
    BY DEF BackwardExactly
  <2>2. Right(text, courses[i].lessons[k])
    BY <2>1 DEF LessonsRight
  <2> QED BY <2>2 DEF Right, LineRight, Torn, Cell, Columns, Lines
<1>4. HomeworkUnderItsCourse
  BY DEF IInv, HomeworkInPlace, HomeworkFits, Under, HomeworkUnderItsCourse, Ruled, Lines
<1>5. TeacherKnownOrAsked
  <2> SUFFICES ASSUME pc = "done" PROVE TeacherKnownOrAsked
    BY DEF TeacherKnownOrAsked
  <2>1. DOMAIN uids = DOMAIN courses
    BY DEF IInv, Typed, Progress
  <2>2. SettledSoFar
    BY DEF IInv
  <2> QED BY <2>1, <2>2 DEF SettledSoFar, Settled, TeacherKnownOrAsked, Leader, LeaderOf
<1> QED BY <1>1, <1>2, <1>3, <1>4, <1>5

-----------------------------------------------------------------------------
(* The steps.                                                              *)

(* The lines of a table are rows, other lines are of courses or homework.  *)
LEMMA LinesType ==
  ASSUME NEW t \in Texts
  PROVE  /\ Len(t.lines) \in Nat /\ DOMAIN t.lines = 1..Len(t.lines)
         /\ \A j \in 1..Len(t.lines) :
               IF Tabular(t) THEN t.lines[j] \in Row
               ELSE /\ t.lines[j] \in CourseLine \union HomeworkLine
                    /\ t.lines[j].kind = "course" => t.lines[j] \in CourseLine
                    /\ t.lines[j].kind = "homework" => t.lines[j] \in HomeworkLine
         /\ HomeworkLines(t) \subseteq Nat
         /\ \A j \in HomeworkLines(t) : t.lines[j].due \in Nat \union {Nil}
<1>1. t \in TextType
  BY ScheduleAssumption
<1>2. t.lines \in Seq(CourseLine \union HomeworkLine \union Row)
  BY <1>1 DEF TextType
<1>3. /\ \A l \in CourseLine : l.kind = "course"
      /\ \A l \in HomeworkLine : l.kind = "homework" /\ l.due \in Nat \union {Nil}
      /\ \A l \in Row : l.kind = "row"
  BY DEF CourseLine, HomeworkLine, Row
<1>4. Len(t.lines) \in Nat /\ DOMAIN t.lines = 1..Len(t.lines)
  BY <1>2
<1>5. \A j \in 1..Len(t.lines) :
         IF Tabular(t) THEN t.lines[j] \in Row ELSE t.lines[j] \in CourseLine \union HomeworkLine
  BY <1>1, <1>4 DEF TextType
<1>6. \A j \in HomeworkLines(t) : t.lines[j].due \in Nat \union {Nil}
  BY <1>3, <1>4, <1>5 DEF HomeworkLines
<1>7. HomeworkLines(t) \subseteq Nat
  BY <1>4 DEF HomeworkLines
<1> QED BY <1>3, <1>4, <1>5, <1>6, <1>7

(* The existing courses are a list.                                        *)
LEMMA ExistingType ==
  /\ DOMAIN Existing \subseteq Nat
  /\ \A i \in DOMAIN Existing : Existing[i].leader \in Int \union {Nil}
<1> DEFINE Old == [id : Int, leader : Int \union {Nil}]
<1>1. Existing \in Seq(Old)
  BY ScheduleAssumption
<1>2. \A e \in Old : e.leader \in Int \union {Nil}
  OBVIOUS
<1> HIDE DEF Old
<1>3. Len(Existing) \in Nat /\ DOMAIN Existing = 1..Len(Existing)
  BY <1>1
<1>4. \A i \in DOMAIN Existing : Existing[i] \in Old
  BY <1>1, <1>3
<1> QED BY <1>2, <1>3, <1>4

(* A request begins in the invariant.                                      *)
LEMMA InitInv == ASSUME Init PROVE IInv
<1>1. Len(Lines) \in Nat
  BY LinesType DEF Init, Lines
<1>2. courses = <<>> /\ homework = <<>> /\ uids = <<>> /\ reused = <<>> /\ asked = <<>> /\ pc = "detect"
  BY DEF Init
<1>3. Typed
  BY <1>2 DEF Init, Typed
<1>4. Progress
  BY <1>1, <1>2 DEF Init, Progress
<1>5. SettledSoFar
  <2>1. { i \in DOMAIN uids : uids[i] = Nil } = {} /\ DOMAIN uids = {} /\ Len(asked) = 0
    BY <1>2
  <2> QED BY <2>1, FS_EmptySet DEF SettledSoFar
<1>6. DaysAsAsked /\ LessonsRight /\ NotedUnderIts /\ HomeworkInPlace
  BY <1>2 DEF DaysAsAsked, LessonsRight, NotedUnderIts, HomeworkInPlace
<1> QED BY <1>3, <1>4, <1>5, <1>6 DEF IInv
(* What was read stays right while the courses stay.                       *)
LEMMA Kept ==
  ASSUME IInv, UNCHANGED <<text, courses, source>>
  PROVE  DaysAsAsked' /\ LessonsRight'
BY DEF IInv, DaysAsAsked, LessonsRight

(* The format is found.                                                    *)
LEMMA DetectKeeps == ASSUME IInv, Detect PROVE IInv'
<1>1. /\ UNCHANGED <<text, key, team, at, courses, homework, uids, reused, asked>>
      /\ pc = "detect" /\ courses = <<>>
      /\ pc' \in {"table", "ai", "lines"}
      /\ pc' = "table" <=> Tabular(text)
      /\ source' = IF Tabular(text) THEN "csv" ELSE source
  BY DEF IInv, Progress, Detect, Goto, plan
<1>2. Typed'
  BY <1>1 DEF IInv, Typed, Lines
<1>3. Progress'
  BY <1>1 DEF IInv, Progress, Lines
<1>4. SettledSoFar'
  BY <1>1 DEF IInv, SettledSoFar
<1>5. DaysAsAsked' /\ LessonsRight' /\ NotedUnderIts' /\ HomeworkInPlace'
  BY <1>1 DEF DaysAsAsked, LessonsRight, NotedUnderIts, HomeworkInPlace
<1> QED BY <1>2, <1>3, <1>4, <1>5 DEF IInv

(* Claude answers, or does not.                                            *)
LEMMA AskClaudeKeeps == ASSUME IInv, AskClaude PROVE IInv'
<1>1. /\ UNCHANGED <<text, key, team, uids, reused, asked>>
      /\ pc = "ai" /\ courses = <<>> /\ at \in 0..Len(Lines) /\ ~Tabular(text)
      /\ uids = <<>> /\ reused = <<>> /\ asked = <<>>
      /\ source = "text-heuristic"
  BY DEF IInv, Progress, AskClaude, Goto, plan
<1>2. SettledSoFar'
  BY <1>1 DEF IInv, SettledSoFar
<1>3. CASE pc' = "lines" /\ UNCHANGED <<at, courses, homework, source>>
  <2>1. Typed' /\ Progress'
    BY <1>1, <1>3 DEF IInv, Typed, Progress, Lines
  <2>2. DaysAsAsked' /\ LessonsRight' /\ NotedUnderIts' /\ HomeworkInPlace'
    BY <1>1, <1>3 DEF DaysAsAsked, LessonsRight, NotedUnderIts, HomeworkInPlace
  <2> QED BY <1>2, <2>1, <2>2 DEF IInv
<1>4. ASSUME NEW answer \in Answers, courses' = answer, homework' = [i \in DOMAIN answer |-> <<>>],
             source' = "text-ai", at' = 0, pc' = "plan"
      PROVE  IInv'
  <2>1. /\ answer \in Seq(Course)
        /\ \A i \in DOMAIN answer : answer[i].line = 0
    BY ScheduleAssumption
  <2>2. /\ homework' \in Seq(Seq(HomeworkLines(text))) /\ Len(homework') = Len(answer)
    <3>1. Len(answer) \in Nat /\ DOMAIN answer = 1..Len(answer)
      BY <2>1
    <3> QED BY <1>4, <3>1
  <2>3. Typed'
    <3>1. Len(Lines) \in Nat /\ Lines' = Lines
      BY <1>1, LinesType DEF IInv, Typed, Lines
    <3> QED BY <1>1, <1>4, <2>1, <2>2, <3>1 DEF IInv, Typed
  <2>4. Progress'
    BY <1>1, <1>4, <2>1 DEF Progress
  <2>5. DaysAsAsked' /\ LessonsRight' /\ NotedUnderIts' /\ HomeworkInPlace'
    BY <1>4 DEF DaysAsAsked, LessonsRight, NotedUnderIts, HomeworkInPlace
  <2> QED BY <1>2, <2>3, <2>4, <2>5 DEF IInv
<1> QED BY <1>3, <1>4 DEF AskClaude, Goto

(* The course is looked for among the existing ones.                       *)
LEMMA ResolveCourseKeeps == ASSUME IInv, ResolveCourse PROVE IInv'
<1> DEFINE found == BestExisting(courses[at + 1].name)
<1>1. /\ UNCHANGED <<text, key, team, courses, homework, source, uids, asked>>
      /\ pc = "plan" /\ pc' = "teacher" /\ at' = at + 1 /\ at < Len(courses)
      /\ reused' = Append(reused, found)
      /\ Len(uids) = at /\ Len(reused) = at /\ at \in 0..Len(courses) /\ Len(courses) \in Nat
  BY DEF IInv, Typed, Progress, ResolveCourse
<1>2. found \in DOMAIN Existing \union {Nil}
  <2> DEFINE name == courses[at + 1].name
             best == { i \in DOMAIN Existing :
                         /\ Same[name][i] >= 85
                         /\ \A j \in DOMAIN Existing : Same[name][j] <= Same[name][i] }
  <2>1. found = IF best = {} THEN Nil ELSE CHOOSE i \in best : \A j \in best : i <= j
    BY DEF BestExisting
  <2>2. best \in SUBSET Nat
    BY ExistingType
  <2>3. best \subseteq DOMAIN Existing
    OBVIOUS
  <2> HIDE DEF found, best
  <2>4. best # {} => \E i \in best : \A j \in best : i <= j
    BY <2>2, Least
  <2> QED BY <2>1, <2>3, <2>4
<1> HIDE DEF found
<1>3. /\ reused' \in Seq(DOMAIN Existing \union {Nil}) /\ Len(reused') = Len(reused) + 1
      /\ \A i \in 1..Len(uids) : reused'[i] = reused[i]
  BY <1>1, <1>2 DEF IInv, Typed
<1>4. Typed'
  BY <1>1, <1>3 DEF IInv, Typed, Lines
<1>5. Progress'
  BY <1>1, <1>3 DEF IInv, Progress
<1>6. SettledSoFar'
  <2>1. DOMAIN uids = 1..Len(uids)
    BY DEF IInv, Typed
  <2> QED BY <1>1, <1>3, <2>1 DEF IInv, SettledSoFar
<1>7. NotedUnderIts' /\ HomeworkInPlace'
  BY <1>1 DEF IInv, NotedUnderIts, HomeworkInPlace
<1> QED BY <1>1, <1>4, <1>5, <1>6, <1>7, Kept DEF IInv

(* The only one of the most alike is more alike than anybody else.         *)
LEMMA OnlyWinner ==
  ASSUME team \in Teams, NEW name \in TeacherNames, Cardinality(Winners(name)) = 1,
         NEW w, w = CHOOSE u \in Winners(name) : TRUE
  PROVE  w \in team /\ \A u \in team \ {w} : Alike[name][u] < Alike[name][w]
<1>1. IsFiniteSet(team) /\ \A u \in team : Alike[name][u] \in Int
  BY ScheduleAssumption
<1>2. Winners(name) \subseteq Scored(name) /\ Scored(name) \subseteq team
  BY DEF Winners, Scored
<1>3. IsFiniteSet(Winners(name))
  BY <1>1, <1>2, FS_Subset
<1>4. PICK x : Winners(name) = {x}
  BY <1>3, FS_Singleton
<1>5. w = x /\ w \in Winners(name)
  BY <1>4
<1>6. w \in Scored(name) /\ \A v \in Scored(name) : Alike[name][v] <= Alike[name][w]
  BY <1>5 DEF Winners
<1>7. w \in team /\ Alike[name][w] >= 75
  BY <1>6 DEF Scored
<1>8. ASSUME NEW u \in team \ {w} PROVE Alike[name][u] < Alike[name][w]
  <2>1. Alike[name][u] \in Int /\ Alike[name][w] \in Int
    BY <1>1, <1>7
  <2>2. CASE u \notin Scored(name)
    <3>1. ~ (Alike[name][u] >= 75)
      BY <2>2 DEF Scored
    <3> QED BY <1>7, <2>1, <3>1
  <2>3. CASE u \in Scored(name)
    <3>1. u \notin Winners(name)
      BY <1>4, <1>5
    <3>2. PICK v \in Scored(name) : ~ (Alike[name][v] <= Alike[name][u])
      BY <2>3, <3>1 DEF Winners
    <3>3. v \in team
      BY <1>2
    <3>4. Alike[name][v] \in Int /\ Alike[name][v] <= Alike[name][w]
      BY <1>1, <1>6, <3>3
    <3> QED BY <2>1, <3>2, <3>4
  <2> QED BY <2>2, <2>3
<1> QED BY <1>7, <1>8

(* What becomes of the course at hand: a teacher, or a question.           *)
LEMMA TeacherResolved ==
  ASSUME IInv, ResolveTeacher
  PROVE  \E uid \in (UNION Teams) \union Int \union {Nil} :
            /\ uids' = Append(uids, uid)
            /\ IF uid = Nil
               THEN \E q \in [subject : Names \union TeacherNames, candidates : SUBSET UNION Teams] :
                       /\ asked' = Append(asked, q)
                       /\ q.subject \in {courses[at].name, courses[at].teacher}
                       /\ q.candidates \subseteq team
               ELSE asked' = asked
            /\ uid # Nil /\ courses[at].teacher # Nil =>
                  /\ uid \in team
                  /\ \A u \in team \ {uid} :
                        Alike[courses[at].teacher][u] < Alike[courses[at].teacher][uid]
            /\ courses[at].teacher = Nil /\ LeaderOf(reused[at]) # Nil => uid = LeaderOf(reused[at])
<1> DEFINE c == courses[at]
           leader == LeaderOf(reused[at])
           Question == [subject : Names \union TeacherNames, candidates : SUBSET UNION Teams]
<1>1. at \in 1..Len(courses) /\ Len(reused) = at
  BY DEF IInv, Progress, ResolveTeacher
<1>2. c \in Course /\ reused[at] \in DOMAIN Existing \union {Nil}
  BY <1>1 DEF IInv, Typed
<1>3. c.name \in Names /\ c.teacher \in TeacherNames \union {Nil}
  BY <1>2 DEF Course
<1>4. leader \in Int \union {Nil}
  <2>1. CASE reused[at] = Nil
    BY <2>1 DEF LeaderOf
  <2>2. CASE reused[at] # Nil
    <3>1. reused[at] \in DOMAIN Existing
      BY <1>2, <2>2
    <3> QED BY <2>2, <3>1, ExistingType DEF LeaderOf
  <2> QED BY <2>1, <2>2
<1>5. team \in Teams /\ team \subseteq UNION Teams /\ IsFiniteSet(team) /\ Nil \notin team
  BY ScheduleAssumption DEF IInv, Typed
<1>6. Winners(c.teacher) \subseteq team
  BY DEF Winners, Scored
<1>7. Leader(at) = leader
  BY DEF Leader, LeaderOf
<1> HIDE DEF c, leader
<1>8. ASSUME NEW subject \in {c.name, c.teacher}, subject # Nil, NEW candidates \in SUBSET team,
             Ask(subject, candidates)
      PROVE  /\ uids' = Append(uids, Nil)
             /\ \E q \in Question : /\ asked' = Append(asked, q)
                                    /\ q.subject \in {c.name, c.teacher} /\ q.candidates \subseteq team
  <2> DEFINE q == [subject |-> subject, candidates |-> candidates]
  <2>1. q \in Question /\ q.subject \in {c.name, c.teacher} /\ q.candidates \subseteq team
    BY <1>3, <1>5, <1>8
  <2>2. uids' = Append(uids, Nil) /\ asked' = Append(asked, q)
    BY <1>8 DEF Ask
  <2> QED BY <2>1, <2>2
<1>9. CASE c.teacher = Nil /\ leader # Nil
  <2>1. Assign(leader)
    BY <1>7, <1>9 DEF ResolveTeacher, c
  <2>2. uids' = Append(uids, leader) /\ asked' = asked
    BY <2>1 DEF Assign
  <2> QED BY <1>4, <1>9, <2>2 DEF c, leader
<1>10. CASE c.teacher = Nil /\ leader = Nil
  <2>1. CASE Cardinality(team) = 1
    <3>1. PICK x : team = {x}
      BY <1>5, <2>1, FS_Singleton
    <3>2. (CHOOSE u \in team : TRUE) = x
      BY <3>1
    <3>3. Assign(x)
      BY <1>7, <1>10, <2>1, <3>2 DEF ResolveTeacher, c
    <3>4. uids' = Append(uids, x) /\ asked' = asked /\ x # Nil /\ x \in UNION Teams
      BY <1>5, <3>1, <3>3 DEF Assign
    <3> QED BY <1>10, <3>4 DEF c, leader
  <2>2. CASE Cardinality(team) # 1
    <3>1. Ask(c.name, team)
      BY <1>7, <1>10, <2>2 DEF ResolveTeacher, c
    <3>2. CASE c.name # Nil
      BY <1>8, <1>10, <3>1, <3>2 DEF c, leader
    <3>3. CASE c.name = Nil
      <4> DEFINE q == [subject |-> c.name, candidates |-> team]
      <4>1. q \in Question /\ q.subject \in {c.name, c.teacher} /\ q.candidates \subseteq team
        BY <1>3, <1>5
      <4>2. uids' = Append(uids, Nil) /\ asked' = Append(asked, q)
        BY <3>1 DEF Ask
      <4> QED BY <1>10, <4>1, <4>2 DEF c, leader
    <3> QED BY <3>2, <3>3
  <2> QED BY <2>1, <2>2
<1>11. CASE c.teacher # Nil
  <2>1. CASE Scored(c.teacher) # {} /\ Cardinality(Winners(c.teacher)) = 1
    <3>1. PICK w : w = CHOOSE u \in Winners(c.teacher) : TRUE
      OBVIOUS
    <3>2. c.teacher \in TeacherNames
      BY <1>3, <1>11
    <3>3. w \in team /\ \A u \in team \ {w} : Alike[c.teacher][u] < Alike[c.teacher][w]
      BY <1>5, <2>1, <3>1, <3>2, OnlyWinner
    <3>4. Assign(w)
      BY <1>11, <2>1, <3>1 DEF ResolveTeacher, c
    <3>5. uids' = Append(uids, w) /\ asked' = asked /\ w # Nil /\ w \in UNION Teams
      BY <1>5, <3>3, <3>4 DEF Assign
    <3> QED BY <1>11, <3>3, <3>5 DEF c, leader
  <2>2. CASE ~ (Scored(c.teacher) # {} /\ Cardinality(Winners(c.teacher)) = 1)
    <3>1. Ask(c.teacher, team) \/ Ask(c.teacher, Winners(c.teacher))
      BY <1>11, <2>2 DEF ResolveTeacher, c
    <3>2. /\ uids' = Append(uids, Nil)
          /\ \E q \in Question : /\ asked' = Append(asked, q)
                                 /\ q.subject \in {c.name, c.teacher} /\ q.candidates \subseteq team
      BY <1>6, <1>8, <1>11, <3>1
    <3> QED BY <1>11, <3>2 DEF c, leader
  <2> QED BY <2>1, <2>2
<1> QED BY <1>9, <1>10, <1>11
(* The course at hand gets a teacher, or a question.                       *)
LEMMA ResolveTeacherKeeps == ASSUME IInv, ResolveTeacher PROVE IInv'
<1> DEFINE Question == [subject : Names \union TeacherNames, candidates : SUBSET UNION Teams]
           c == courses[at]
           n == Len(uids)
<1>1. /\ UNCHANGED <<text, key, team, at, courses, homework, source, reused>>
      /\ pc = "teacher" /\ pc' = "plan"
      /\ Len(uids) = at - 1 /\ Len(reused) = at /\ at \in 1..Len(courses) /\ Len(courses) \in Nat
  BY DEF IInv, Typed, Progress, ResolveTeacher
<1>2. PICK uid \in (UNION Teams) \union Int \union {Nil} :
        /\ uids' = Append(uids, uid)
        /\ IF uid = Nil
           THEN \E q \in Question : /\ asked' = Append(asked, q)
                                    /\ q.subject \in {c.name, c.teacher}
                                    /\ q.candidates \subseteq team
           ELSE asked' = asked
        /\ uid # Nil /\ c.teacher # Nil =>
              uid \in team /\ \A u \in team \ {uid} : Alike[c.teacher][u] < Alike[c.teacher][uid]
        /\ c.teacher = Nil /\ LeaderOf(reused[at]) # Nil => uid = LeaderOf(reused[at])
  BY TeacherResolved
<1>3. uids \in Seq((UNION Teams) \union Int \union {Nil}) /\ asked \in Seq(Question)
  BY DEF IInv, Typed
<1>4. /\ uids' \in Seq((UNION Teams) \union Int \union {Nil})
      /\ n \in Nat /\ n + 1 = at /\ DOMAIN uids = 1..n /\ DOMAIN uids' = 1..(n + 1)
      /\ uids'[n + 1] = uid /\ \A i \in 1..n : uids'[i] = uids[i]
      /\ Len(uids') = n + 1
  BY <1>1, <1>2, <1>3
<1>5. /\ asked' \in Seq(Question)
      /\ Len(asked) \in Nat
      /\ Len(asked') = IF uid = Nil THEN Len(asked) + 1 ELSE Len(asked)
      /\ ToSet(asked) \subseteq ToSet(asked')
      /\ uid = Nil => \E q \in ToSet(asked') : q.subject \in {c.name, c.teacher}
                                                  /\ q.candidates \subseteq team
  <2> HIDE DEF Question, c
  <2>1. CASE uid # Nil
    BY <1>2, <1>3, <2>1
  <2>2. CASE uid = Nil
    <3>1. PICK q \in Question : /\ asked' = Append(asked, q)
                                /\ q.subject \in {c.name, c.teacher}
                                /\ q.candidates \subseteq team
      BY <1>2, <2>2
    <3>2. /\ asked' \in Seq(Question) /\ Len(asked) \in Nat /\ Len(asked') = Len(asked) + 1
          /\ DOMAIN asked = 1..Len(asked) /\ DOMAIN asked' = 1..(Len(asked) + 1)
          /\ asked'[Len(asked) + 1] = q
          /\ \A i \in 1..Len(asked) : asked'[i] = asked[i]
      BY <1>3, <3>1
    <3>3. q \in ToSet(asked') /\ ToSet(asked) \subseteq ToSet(asked')
      BY <3>2 DEF ToSet
    <3> QED BY <2>2, <3>1, <3>2, <3>3
  <2> QED BY <2>1, <2>2
<1>6. Typed'
  BY <1>1, <1>4, <1>5 DEF IInv, Typed, Lines
<1>7. Progress'
  BY <1>1, <1>4 DEF IInv, Progress
<1>8. Len(asked') = Cardinality({ i \in DOMAIN uids' : uids'[i] = Nil })
  <2> DEFINE S == { i \in 1..n : uids[i] = Nil }
             T == { i \in 1..(n + 1) : uids'[i] = Nil }
  <2>1. Len(asked) = Cardinality(S)
    BY <1>4 DEF IInv, SettledSoFar
  <2>2. IsFiniteSet(S) /\ n + 1 \notin S
    <3>1. IsFiniteSet(1..n)
      BY <1>4, FS_Interval, 1 \in Int, n \in Int
    <3>2. S \subseteq 1..n
      OBVIOUS
    <3>3. n + 1 \notin 1..n
      BY <1>4
    <3> QED BY <3>1, <3>2, <3>3, FS_Subset
  <2>3. T = IF uid = Nil THEN S \union {n + 1} ELSE S
    <3>1. \A i : i \in T <=> i \in S \/ (i = n + 1 /\ uid = Nil)
      BY <1>4
    <3> HIDE DEF S, T
    <3> QED BY <3>1
  <2> HIDE DEF S
  <2>4. Cardinality(T) = IF uid = Nil THEN Cardinality(S) + 1 ELSE Cardinality(S)
    BY <2>2, <2>3, FS_AddElement
  <2>5. T = { i \in DOMAIN uids' : uids'[i] = Nil }
    BY <1>4
  <2> QED BY <1>5, <2>1, <2>4, <2>5
<1>9. ASSUME NEW i \in DOMAIN uids'
      PROVE  Settled(courses[i], uids'[i], reused[i], LeaderOf(reused[i]), asked', team)
  <2>1. CASE i \in 1..n
    <3>1. Settled(courses[i], uids[i], reused[i], LeaderOf(reused[i]), asked, team) /\ uids'[i] = uids[i]
      BY <1>4, <2>1 DEF IInv, SettledSoFar
    <3> QED BY <1>5, <3>1 DEF Settled
  <2>2. CASE i = n + 1
    <3>1. courses[i] = c /\ uids'[i] = uid /\ reused[i] = reused[at]
      BY <1>4, <2>2
    <3>2. Settled(c, uid, reused[at], LeaderOf(reused[at]), asked', team)
      BY <1>2, <1>5 DEF Settled
    <3> QED BY <3>1, <3>2
  <2> QED BY <1>4, <2>1, <2>2
<1>10. SettledSoFar'
  BY <1>1, <1>8, <1>9 DEF SettledSoFar
<1>11. NotedUnderIts' /\ HomeworkInPlace'
  BY <1>1 DEF IInv, NotedUnderIts, HomeworkInPlace
<1> QED BY <1>1, <1>6, <1>7, <1>10, <1>11, Kept DEF IInv

(* The plan is shown.                                                      *)
LEMMA ShowKeeps == ASSUME IInv, Show PROVE IInv'
<1>1. /\ UNCHANGED <<text, key, team, at, courses, homework, source, uids, reused, asked>>
      /\ pc = "plan" /\ pc' = "done" /\ at = Len(courses)
  BY DEF Show, plan
<1>2. Typed'
  BY <1>1 DEF IInv, Typed, Lines
<1>3. Progress'
  BY <1>1 DEF IInv, Progress
<1>4. SettledSoFar' /\ NotedUnderIts' /\ HomeworkInPlace'
  BY <1>1 DEF IInv, SettledSoFar, NotedUnderIts, HomeworkInPlace
<1> QED BY <1>1, <1>2, <1>3, <1>4, Kept DEF IInv

(* Nothing changes.                                                        *)
LEMMA StutterKeeps == ASSUME IInv, UNCHANGED vars PROVE IInv'
<1>1. UNCHANGED <<text, key, team, pc, at, courses, homework, source, uids, reused, asked>>
  BY DEF vars
<1>2. Typed' /\ Progress'
  BY <1>1 DEF IInv, Typed, Progress, Lines
<1>3. SettledSoFar' /\ NotedUnderIts' /\ HomeworkInPlace'
  BY <1>1 DEF IInv, SettledSoFar, NotedUnderIts, HomeworkInPlace
<1> QED BY <1>1, <1>2, <1>3, Kept DEF IInv

-----------------------------------------------------------------------------
(* Homework goes to the lessons when the text ends.                        *)

(* Homework is due after the lesson has ended.                             *)
LEMMA HomeworkFromIs ==
  ASSUME text \in Texts, NEW j \in HomeworkLines(text), NEW end \in Int
  PROVE  /\ HomeworkFrom(j, end) \in Homework
         /\ HomeworkFrom(j, end) # Nil
         /\ HomeworkFrom(j, end).line = j
         /\ HomeworkFrom(j, end).due # Nil => HomeworkFrom(j, end).due >= end
<1> DEFINE d == text.lines[j].due
<1>1. j \in Nat /\ d \in Nat \union {Nil}
  BY LinesType
<1>2. HomeworkFrom(j, end) =
        [line |-> j, due |-> IF d = Nil THEN Nil ELSE Moment(DayOf(end) + d, Day - 1)]
  BY DEF HomeworkFrom, Lines
<1> HIDE DEF d
<1>3. d # Nil => /\ Moment(DayOf(end) + d, Day - 1) \in Int
                 /\ Moment(DayOf(end) + d, Day - 1) >= end
  BY <1>1 DEF Moment, DayOf, Day
<1>4. Nil \notin Homework
  BY ScheduleAssumption
<1>5. HomeworkFrom(j, end) \in Homework
  BY <1>1, <1>2, <1>3 DEF Homework
<1> QED BY <1>2, <1>3, <1>4, <1>5

(* Only the homework of the lessons changes.                               *)
LEMMA WithHomeworkIs ==
  ASSUME Typed, NEW i \in DOMAIN courses
  PROVE  LET old == courses[i].lessons
             new == WithHomework(i).lessons
         IN  /\ WithHomework(i) \in Course
             /\ WithHomework(i).line = courses[i].line
             /\ DOMAIN new = DOMAIN old
             /\ \A k \in DOMAIN old :
                   /\ new[k].line = old[k].line
                   /\ new[k].start = old[k].start
                   /\ new[k].end = old[k].end
                   /\ homework[i] = <<>> => new[k].homework = old[k].homework
                   /\ homework[i] # <<>> =>
                         /\ Last(homework[i]) \in HomeworkLines(text)
                         /\ old[k].end \in Int
                         /\ new[k].homework = HomeworkFrom(Last(homework[i]), old[k].end)
<1> DEFINE c == courses[i]
           old == c.lessons
           h == homework[i]
           j == Last(h)
<1>1. c \in Course
  BY DEF Typed
<1>2. old \in Seq(Lesson)
  BY <1>1 DEF Course
<1>3. CASE h = <<>>
  BY <1>1, <1>3 DEF WithHomework
<1>4. CASE h # <<>>
  <2> DEFINE row(k) == [old[k] EXCEPT !.homework = HomeworkFrom(j, old[k].end)]
             new == [k \in DOMAIN old |-> row(k)]
  <2>1. j \in HomeworkLines(text)
    <3>1. h \in Seq(HomeworkLines(text))
      BY DEF Typed
    <3>2. Len(h) \in Nat /\ Len(h) # 0
      BY <1>4, <3>1
    <3> HIDE DEF h
    <3>3. Len(h) \in 1..Len(h) /\ DOMAIN h = 1..Len(h)
      BY <3>1, <3>2
    <3> QED BY <3>1, <3>3 DEF Last
  <2>2. WithHomework(i) = [c EXCEPT !.lessons = new]
    BY <1>4 DEF WithHomework
  <2> HIDE DEF c, j, old
  <2>3. ASSUME NEW k \in DOMAIN old
        PROVE  /\ old[k].end \in Int
               /\ row(k) \in Lesson
               /\ row(k).line = old[k].line /\ row(k).start = old[k].start /\ row(k).end = old[k].end
               /\ row(k).homework = HomeworkFrom(j, old[k].end)
    <3>1. PICK r : r = old[k]
      OBVIOUS
    <3>2. r \in Lesson
      BY <1>2, <3>1
    <3>3. r.end \in Int
      BY <3>2 DEF Lesson
    <3>4. HomeworkFrom(j, r.end) \in Homework
      BY <2>1, <3>3, HomeworkFromIs DEF Typed
    <3>5. PICK w : w = HomeworkFrom(j, r.end)
      OBVIOUS
    <3>6. PICK q : q = [r EXCEPT !.homework = w]
      OBVIOUS
    <3>7. q \in Lesson /\ q.line = r.line /\ q.start = r.start /\ q.end = r.end /\ q.homework = w
      BY <3>2, <3>4, <3>5, <3>6 DEF Lesson
    <3>8. row(k) = q
      BY <3>1, <3>5, <3>6
    <3> QED BY <3>1, <3>3, <3>5, <3>7, <3>8
  <2>4. /\ DOMAIN new = DOMAIN old /\ \A k \in DOMAIN old : new[k] = row(k)
    OBVIOUS
  <2>5. new \in Seq(Lesson)
    <3>1. Len(old) \in Nat /\ DOMAIN old = 1..Len(old)
      BY <1>2
    <3>2. \A k \in 1..Len(old) : row(k) \in Lesson
      BY <2>3, <3>1
    <3> HIDE DEF row
    <3>3. new \in [1..Len(old) -> Lesson]
      BY <3>1, <3>2
    <3> HIDE DEF new
    <3> QED BY <3>1, <3>3
  <2> HIDE DEF row, new
  <2>6. PICK q : q = [c EXCEPT !.lessons = new]
    OBVIOUS
  <2>7. q \in Course /\ q.line = c.line /\ q.lessons = new
    BY <1>1, <2>5, <2>6 DEF Course
  <2>8. q = WithHomework(i)
    BY <2>2, <2>6
  <2> QED BY <1>4, <2>1, <2>3, <2>4, <2>7, <2>8 DEF c, j, old, h
<1> QED BY <1>3, <1>4
(* The lines under a course depend on where the courses are.               *)
LEMMA SameLines ==
  ASSUME NEW t, NEW cs, NEW ds, Len(ds) = Len(cs), Len(cs) \in Nat,
         \A i \in 1..Len(cs) : ds[i].line = cs[i].line
  PROVE  \A i \in 1..Len(cs) : \A n : Under(t, ds, i, n) = Under(t, cs, i, n)
<1> SUFFICES ASSUME NEW i \in 1..Len(cs), NEW n PROVE Under(t, ds, i, n) = Under(t, cs, i, n)
  OBVIOUS
<1>1. CASE i = Len(cs)
  <2>1. ds[i].line = cs[i].line
    OBVIOUS
  <2> QED BY <1>1, <2>1 DEF Under
<1>2. CASE i # Len(cs)
  <2>1. i + 1 \in 1..Len(cs)
    BY <1>2
  <2>2. ds[i].line = cs[i].line /\ ds[i + 1].line = cs[i + 1].line
    BY <2>1
  <2> QED BY <1>2, <2>2 DEF Under
<1> QED BY <1>1, <1>2

(* The text has been read.                                                 *)
LEMMA EndOfTextKeeps == ASSUME IInv, EndOfText PROVE IInv'
<1> DEFINE N == Len(courses)
           L == Len(text.lines)
<1>1. /\ UNCHANGED <<text, key, team, homework, source, uids, reused, asked>>
      /\ pc \in {"table", "lines"} /\ at = L /\ at' = 0
      /\ courses' = [i \in DOMAIN courses |-> WithHomework(i)]
      /\ pc' = IF courses = <<>> THEN "refused" ELSE "plan"
      /\ uids = <<>> /\ reused = <<>> /\ asked = <<>>
  BY DEF IInv, Progress, EndOfText, Goto, plan, Lines
<1>2. Typed
  BY DEF IInv
<1>3. L \in Nat /\ N \in Nat /\ DOMAIN courses = 1..N
  BY <1>2, LinesType DEF Typed
<1>4. ASSUME NEW i \in 1..N
      PROVE  LET old == courses[i].lessons
                 new == courses'[i].lessons
             IN  /\ courses'[i] \in Course
                 /\ courses'[i].line = courses[i].line
                 /\ DOMAIN new = DOMAIN old
                 /\ \A k \in DOMAIN old :
                       /\ new[k].line = old[k].line
                       /\ new[k].start = old[k].start
                       /\ new[k].end = old[k].end
                       /\ homework[i] = <<>> => new[k].homework = old[k].homework
                       /\ homework[i] # <<>> =>
                             /\ Last(homework[i]) \in HomeworkLines(text)
                             /\ old[k].end \in Int
                             /\ new[k].homework = HomeworkFrom(Last(homework[i]), old[k].end)
  <2>1. i \in DOMAIN courses /\ courses'[i] = WithHomework(i)
    BY <1>1, <1>3
  <2> QED BY <1>2, <2>1, WithHomeworkIs
<1>5. courses' \in Seq(Course) /\ Len(courses') = N /\ DOMAIN courses' = 1..N
  <2>1. courses' = [i \in 1..N |-> courses'[i]]
    BY <1>1, <1>3
  <2>2. \A i \in 1..N : courses'[i] \in Course
    BY <1>4
  <2> QED BY <1>3, <2>1, <2>2
<1>6. Typed'
  BY <1>1, <1>3, <1>4, <1>5 DEF IInv, Typed, Lines
<1>7. Progress'
  BY <1>1, <1>3, <1>5 DEF IInv, Progress, Lines
<1>8. SettledSoFar'
  BY <1>1 DEF IInv, SettledSoFar
<1>9. DaysAsAsked'
  <2> SUFFICES ASSUME source = "text-heuristic", NEW i \in 1..N,
                      text.lines[courses[i].line].days # {}
               PROVE  AsAsked(text.lines[courses[i].line], DaysOf(courses'[i].lessons))
    BY <1>1, <1>4, <1>5 DEF DaysAsAsked
  <2>1. AsAsked(text.lines[courses[i].line], DaysOf(courses[i].lessons))
    BY <1>3 DEF IInv, DaysAsAsked
  <2>2. DaysOf(courses'[i].lessons) = DaysOf(courses[i].lessons)
    BY <1>4 DEF DaysOf
  <2> QED BY <2>1, <2>2
<1>10. LessonsRight'
  <2> SUFFICES ASSUME source # "text-ai", NEW i \in 1..N, NEW k \in DOMAIN courses[i].lessons
               PROVE  Right(text, courses'[i].lessons[k])
    BY <1>1, <1>4, <1>5 DEF LessonsRight
  <2>1. Right(text, courses[i].lessons[k])
    BY <1>3 DEF IInv, LessonsRight
  <2>2. /\ courses'[i].lessons[k].line = courses[i].lessons[k].line
        /\ courses'[i].lessons[k].start = courses[i].lessons[k].start
        /\ courses'[i].lessons[k].end = courses[i].lessons[k].end
    BY <1>4
  <2> QED BY <2>1, <2>2 DEF Right
<1>11. NotedUnderIts'
  BY <1>1 DEF NotedUnderIts
<1>12. HomeworkInPlace'
  <2> SUFFICES ASSUME source = "text-heuristic", NEW i \in 1..N, NEW k \in DOMAIN courses[i].lessons
               PROVE  HomeworkFits(courses'[i].lessons[k], Under(text, courses', i, L))
    BY <1>1, <1>4, <1>5 DEF HomeworkInPlace
  <2> DEFINE under == Under(text, courses, i, L)
             h == homework[i]
             x == courses'[i].lessons[k]
             end == courses[i].lessons[k].end
  <2>1. Under(text, courses', i, L) = under
    <3>1. Len(courses') = Len(courses) /\ \A m \in 1..N : courses'[m].line = courses[m].line
      BY <1>4, <1>5
    <3> QED BY <1>3, <3>1, SameLines
  <2> SUFFICES HomeworkFits(x, under)
    BY <2>1
  <2>2. pc = "lines"
    BY <1>1 DEF IInv, Progress
  <2>3. Noted(h, under) /\ courses[i].lessons[k].homework = Nil
    BY <1>1, <1>3, <2>2 DEF IInv, NotedUnderIts
  <2>4. /\ h = <<>> => x.homework = Nil
        /\ h # <<>> => /\ Last(h) \in HomeworkLines(text) /\ end \in Int
                       /\ x.homework = HomeworkFrom(Last(h), end)
        /\ x.end = end
    BY <1>4, <2>3
  <2> HIDE DEF under, h, x, end
  <2>5. CASE h = <<>>
    BY <2>3, <2>4, <2>5 DEF Noted, HomeworkFits
  <2>6. CASE h # <<>>
    <3> DEFINE w == HomeworkFrom(Last(h), end)
    <3>1. w # Nil /\ w.line = Last(h) /\ (w.due # Nil => w.due >= end)
      BY <1>2, <2>4, <2>6, HomeworkFromIs DEF Typed
    <3>2. x.homework = w /\ x.end = end
      BY <2>4, <2>6
    <3> HIDE DEF w
    <3> QED BY <2>3, <2>6, <3>1, <3>2 DEF Noted, HomeworkFits
  <2> QED BY <2>5, <2>6
<1> QED BY <1>6, <1>7, <1>8, <1>9, <1>10, <1>11, <1>12 DEF IInv

-----------------------------------------------------------------------------
(* Rows and lines.                                                         *)

(* A row's lesson is added to a course, or to a new one of its own.        *)
LEMMA AddRowIs ==
  ASSUME Typed, at' \in Nat, NEW row \in Row, AddRow(row), NEW x, x = RowLesson(row, at'), x \in Lesson
  PROVE  /\ courses' \in Seq(Course)
         /\ homework' \in Seq(Seq(HomeworkLines(text))) /\ Len(homework') = Len(courses')
         /\ \A i \in DOMAIN courses' :
               /\ courses'[i].line \in {at'} \union { courses[m].line : m \in DOMAIN courses }
               /\ \A k \in DOMAIN courses'[i].lessons :
                     \/ courses'[i].lessons[k] = x
                     \/ /\ i \in DOMAIN courses /\ k \in DOMAIN courses[i].lessons
                        /\ courses'[i].lessons[k] = courses[i].lessons[k]
<1> DEFINE N == Len(courses)
           I == { m \in 1..N : courses[m].name = RowName(row) }
           s == SelectInSeq(courses, LAMBDA c : c.name = RowName(row))
           teacher == Cell(row, "teacher")
<1>1. N \in Nat /\ DOMAIN courses = 1..N /\ \A m \in 1..N : courses[m] \in Course
  BY DEF Typed
<1>2. teacher \in TeacherNames \union {Nil}
  BY DEF Cell, Row
<1>3. RowName(row) \in Names
  <2>1. row.course_name \in Names \union {Nil}
    BY DEF Row
  <2> QED BY <2>1, ScheduleAssumption DEF RowName, Cell
<1>4. CASE s = 0
  <2> DEFINE q == [name |-> RowName(row), teacher |-> teacher, line |-> at', lessons |-> <<x>>]
  <2>1. courses' = Append(courses, q) /\ homework' = Append(homework, <<>>)
    BY <1>4 DEF AddRow
  <2>2. <<x>> \in Seq(Lesson) /\ DOMAIN <<x>> = {1} /\ <<x>>[1] = x
    OBVIOUS
  <2>3. q \in Course /\ q.line = at' /\ q.lessons = <<x>>
    BY <1>2, <1>3, <2>2 DEF Course
  <2> HIDE DEF q
  <2>4. courses' \in Seq(Course) /\ Len(courses') = N + 1 /\ DOMAIN courses' = 1..(N + 1)
        /\ courses'[N + 1] = q /\ \A m \in 1..N : courses'[m] = courses[m]
    BY <1>1, <2>1, <2>3 DEF Typed
  <2>5. homework' \in Seq(Seq(HomeworkLines(text))) /\ Len(homework') = N + 1
    BY <1>1, <2>1 DEF Typed
  <2>6. ASSUME NEW i \in 1..(N + 1)
        PROVE  /\ courses'[i].line \in {at'} \union { courses[m].line : m \in DOMAIN courses }
               /\ \A k \in DOMAIN courses'[i].lessons :
                     \/ courses'[i].lessons[k] = x
                     \/ /\ i \in DOMAIN courses /\ k \in DOMAIN courses[i].lessons
                        /\ courses'[i].lessons[k] = courses[i].lessons[k]
    <3>1. CASE i \in 1..N
      BY <1>1, <2>4, <3>1
    <3>2. CASE i = N + 1
      BY <2>2, <2>3, <2>4, <3>2
    <3> QED BY <1>1, <3>1, <3>2
  <2> QED BY <2>4, <2>5, <2>6
<1>5. CASE s # 0
  <2>1. s \in 1..N
    <3>1. s = IF I # {} THEN Min(I) ELSE 0
      BY DEF SelectInSeq
    <3>2. I # {} => Min(I) \in I
      <4>1. I \in SUBSET Nat
        BY <1>1
      <4> HIDE DEF I
      <4> QED BY <4>1, Least DEF Min
    <3> HIDE DEF s
    <3> QED BY <1>5, <3>1, <3>2
  <2> HIDE DEF s
  <2>2. PICK c : c = courses[s]
    OBVIOUS
  <2>3. c \in Course /\ c.lessons \in Seq(Lesson)
    BY <1>1, <2>1, <2>2 DEF Course
  <2>4. PICK q : q = [c EXCEPT !.teacher = IF @ = Nil THEN teacher ELSE @, !.lessons = Append(@, x)]
    OBVIOUS
  <2>5. Append(c.lessons, x) \in Seq(Lesson)
    BY <2>3
  <2>6. q \in Course /\ q.line = c.line /\ q.lessons = Append(c.lessons, x)
    BY <1>2, <2>3, <2>4, <2>5 DEF Course
  <2>7. courses' = [courses EXCEPT ![s] = q] /\ homework' = homework
    BY <1>1, <1>5, <2>1, <2>2, <2>4 DEF AddRow, s
  <2>8. /\ courses' \in Seq(Course) /\ Len(courses') = N /\ DOMAIN courses' = 1..N
        /\ courses'[s] = q /\ \A m \in 1..N : m # s => courses'[m] = courses[m]
    BY <1>1, <2>1, <2>6, <2>7 DEF Typed
  <2>9. /\ Len(c.lessons) \in Nat /\ DOMAIN c.lessons = 1..Len(c.lessons)
        /\ DOMAIN q.lessons = 1..(Len(c.lessons) + 1)
        /\ \A k \in 1..Len(c.lessons) : q.lessons[k] = c.lessons[k]
        /\ q.lessons[Len(c.lessons) + 1] = x
    BY <2>3, <2>6
  <2>10. ASSUME NEW i \in 1..N
        PROVE  /\ courses'[i].line \in {at'} \union { courses[m].line : m \in DOMAIN courses }
               /\ \A k \in DOMAIN courses'[i].lessons :
                     \/ courses'[i].lessons[k] = x
                     \/ /\ i \in DOMAIN courses /\ k \in DOMAIN courses[i].lessons
                        /\ courses'[i].lessons[k] = courses[i].lessons[k]
    <3>1. CASE i # s
      BY <1>1, <2>8, <3>1
    <3>2. CASE i = s
      BY <1>1, <2>1, <2>2, <2>6, <2>8, <2>9, <3>2
    <3> QED BY <3>1, <3>2
  <2>11. homework' \in Seq(Seq(HomeworkLines(text))) /\ Len(homework') = N
    BY <1>1, <2>7 DEF Typed
  <2> QED BY <2>8, <2>10, <2>11
<1> QED BY <1>4, <1>5

(* A row of a table is read.                                               *)
LEMMA ReadRowKeeps == ASSUME IInv, ReadRow PROVE IInv'
<1> DEFINE j == at + 1
           row == Lines[j]
           L == Len(text.lines)
<1>1. /\ UNCHANGED <<text, key, team, source, uids, reused, asked>>
      /\ pc = "table" /\ at < L /\ at' = j
      /\ source = "csv" /\ Tabular(text) /\ at \in 0..L
      /\ uids = <<>> /\ reused = <<>> /\ asked = <<>>
  BY DEF IInv, Progress, ReadRow, plan, Lines
<1>2. Typed /\ text \in Texts
  BY DEF IInv, Typed
<1>3. L \in Nat /\ j \in 1..L /\ j \in Nat
  BY <1>1, <1>2, LinesType
<1>4. row \in Row
  BY <1>1, <1>2, <1>3, LinesType DEF Lines
<1>5. SettledSoFar'
  BY <1>1 DEF IInv, SettledSoFar
<1>6. pc' \in {"table", "refused"} /\ UNCHANGED <<text, source>>
  BY <1>1 DEF ReadRow
<1>7. Progress'
  BY <1>1, <1>3, <1>6 DEF IInv, Progress, Lines
<1>8. DaysAsAsked' /\ NotedUnderIts' /\ HomeworkInPlace'
  BY <1>1, <1>6 DEF DaysAsAsked, NotedUnderIts, HomeworkInPlace
<1>9. Typed' /\ LessonsRight'
  <2>1. CASE UNCHANGED <<courses, homework>>
    <3>1. Typed'
      BY <1>1, <2>1 DEF IInv, Typed, Lines
    <3> QED BY <1>1, <2>1, <3>1, Kept
  <2>2. CASE ~RowRaises(row) /\ Usable(row) /\ AddRow(row)
    <3>1. PICK x : x = RowLesson(row, j)
      OBVIOUS
    <3>2. x \in Lesson /\ Right(text, x)
      BY <1>3, <1>4, <2>2, <3>1, RowLessonIs
    <3>3. x = RowLesson(row, at')
      BY <1>1, <3>1
    <3>4. /\ courses' \in Seq(Course)
          /\ homework' \in Seq(Seq(HomeworkLines(text))) /\ Len(homework') = Len(courses')
          /\ \A i \in DOMAIN courses' :
                /\ courses'[i].line \in {at'} \union { courses[m].line : m \in DOMAIN courses }
                /\ \A k \in DOMAIN courses'[i].lessons :
                      \/ courses'[i].lessons[k] = x
                      \/ /\ i \in DOMAIN courses /\ k \in DOMAIN courses[i].lessons
                         /\ courses'[i].lessons[k] = courses[i].lessons[k]
      <4>1. at' \in Nat
        BY <1>1, <1>3
      <4> HIDE DEF row
      <4> QED BY <1>2, <1>4, <2>2, <3>2, <3>3, <4>1, AddRowIs
    <3>5. \A i \in DOMAIN courses' : courses'[i].line \in 0..Len(Lines)
      <4>1. \A m \in DOMAIN courses : courses[m].line \in 0..L
        BY <1>2 DEF Typed, Lines
      <4>2. at' \in 0..L
        BY <1>1, <1>3
      <4> QED BY <3>4, <4>1, <4>2 DEF Lines
    <3>6. Typed'
      BY <1>1, <1>2, <3>4, <3>5 DEF Typed, Lines
    <3>7. LessonsRight'
      BY <1>1, <3>2, <3>4 DEF IInv, LessonsRight
    <3> QED BY <3>6, <3>7
  <2> QED BY <1>1, <2>1, <2>2 DEF ReadRow
<1> QED BY <1>5, <1>7, <1>8, <1>9 DEF IInv
(* A line further on belongs to the last course, if it is of homework.     *)
LEMMA UnderGrows ==
  ASSUME NEW t, NEW cs, NEW i, NEW n \in Nat, cs[i].line \in 1..n
  PROVE  Under(t, cs, i, n + 1) =
           IF i = Len(cs) /\ t.lines[n + 1].kind = "homework"
           THEN Under(t, cs, i, n) \union {n + 1} ELSE Under(t, cs, i, n)
<1>1. CASE i = Len(cs)
  <2> DEFINE from == cs[i].line + 1
             Before == { j \in from..n : t.lines[j].kind = "homework" }
             After == { j \in from..(n + 1) : t.lines[j].kind = "homework" }
  <2>1. Under(t, cs, i, n) = Before /\ Under(t, cs, i, n + 1) = After
    BY <1>1 DEF Under
  <2>2. from \in Int /\ from <= n + 1
    OBVIOUS
  <2> HIDE DEF from
  <2>3. \A j : j \in After <=> j \in Before \/ (j = n + 1 /\ t.lines[n + 1].kind = "homework")
    BY <2>2
  <2> HIDE DEF Before, After
  <2> QED BY <1>1, <2>1, <2>3
<1>2. CASE i # Len(cs)
  BY <1>2 DEF Under
<1> QED BY <1>1, <1>2

(* The lines under a course come after it.                                 *)
LEMMA UnderType ==
  ASSUME NEW t, NEW cs, NEW i, NEW n \in Nat, i = Len(cs), cs[i].line \in 1..n
  PROVE  Under(t, cs, i, n) \subseteq 1..n
BY DEF Under

(* A further line is noted last.                                           *)
LEMMA NotedMore ==
  ASSUME NEW S, NEW notes \in Seq(S), NEW n \in Nat, NEW under \in SUBSET (1..n), Noted(notes, under)
  PROVE  Noted(Append(notes, n + 1), under \union {n + 1})
<1>1. /\ Append(notes, n + 1) # <<>>
      /\ Last(Append(notes, n + 1)) = n + 1
  BY DEF Last
<1>2. \A j \in under \union {n + 1} : j <= n + 1
  OBVIOUS
<1> HIDE DEF Last
<1> QED BY <1>1, <1>2 DEF Noted

(* A new course has no lines under it yet, and ends those of the one before. *)
LEMMA UnderNext ==
  ASSUME NEW S, NEW t, NEW cs \in Seq(S), NEW c \in S, NEW n \in Nat, c.line = n + 1,
         \A i \in 1..Len(cs) : cs[i].line \in 1..n
  PROVE  /\ \A i \in 1..Len(cs) : Under(t, Append(cs, c), i, n + 1) = Under(t, cs, i, n)
         /\ Under(t, Append(cs, c), Len(cs) + 1, n + 1) = {}
<1> DEFINE N == Len(cs)
           ds == Append(cs, c)
<1>1. N \in Nat /\ Len(ds) = N + 1 /\ ds[N + 1] = c /\ \A i \in 1..N : ds[i] = cs[i]
  OBVIOUS
<1> HIDE DEF ds, N
<1>2. Under(t, ds, N + 1, n + 1) = {}
  <2>1. Under(t, ds, N + 1, n + 1) =
          { j \in (c.line + 1)..(n + 1) : t.lines[j].kind = "homework" }
    BY <1>1 DEF Under
  <2>2. (c.line + 1)..(n + 1) = {}
    OBVIOUS
  <2> QED BY <2>1, <2>2
<1>3. ASSUME NEW i \in 1..N PROVE Under(t, ds, i, n + 1) = Under(t, cs, i, n)
  <2>1. i # N + 1 /\ ds[i] = cs[i]
    BY <1>1
  <2>2. Under(t, ds, i, n + 1) =
          { j \in (cs[i].line + 1)..(ds[i + 1].line - 1) : t.lines[j].kind = "homework" }
    BY <1>1, <2>1 DEF Under
  <2>3. CASE i = N
    <3>1. ds[i + 1].line - 1 = n
      <4>1. ds[i + 1] = c
        BY <1>1, <2>3
      <4>2. c.line - 1 = n
        <5>1. \A m : m = n + 1 => m - 1 = n
          OBVIOUS
        <5> QED BY <5>1
      <4> QED BY <4>1, <4>2, Zenon
    <3>2. Under(t, cs, i, n) = { j \in (cs[i].line + 1)..n : t.lines[j].kind = "homework" }
      BY <2>3 DEF Under, N
    <3> QED BY <2>2, <3>1, <3>2
  <2>4. CASE i # N
    <3>1. i + 1 \in 1..N
      BY <1>1, <2>4
    <3>2. ds[i + 1] = cs[i + 1]
      BY <1>1, <3>1
    <3>3. Under(t, cs, i, n) =
            { j \in (cs[i].line + 1)..(cs[i + 1].line - 1) : t.lines[j].kind = "homework" }
      BY <2>4 DEF Under, N
    <3> QED BY <2>2, <3>2, <3>3
  <2> QED BY <2>3, <2>4
<1> QED BY <1>2, <1>3 DEF ds, N

(* A line of homework is read.                                             *)
LEMMA NoteKeeps ==
  ASSUME IInv, ReadLine, Lines[at + 1].kind = "homework"
  PROVE  Typed' /\ NotedUnderIts'
<1> DEFINE N == Len(courses)
           j == at + 1
<1>1. /\ UNCHANGED <<text, key, team, pc, courses, source, uids, reused, asked>>
      /\ pc = "lines" /\ at' = j /\ at < Len(text.lines) /\ at \in 0..Len(text.lines)
      /\ homework' = [i \in DOMAIN courses |-> IF i = N THEN Append(homework[i], j) ELSE homework[i]]
  BY DEF IInv, Progress, ReadLine, NoteHomework, plan, Lines
<1>2. Typed /\ Len(text.lines) \in Nat /\ DOMAIN text.lines = 1..Len(text.lines)
  BY LinesType DEF IInv, Typed
<1>3. N \in Nat /\ DOMAIN courses = 1..N /\ Len(homework) = N
  BY <1>2 DEF Typed
<1>4. j \in HomeworkLines(text) /\ at \in Nat
  BY <1>1, <1>2 DEF HomeworkLines, Lines
<1>5. \A i \in 1..N : homework[i] \in Seq(HomeworkLines(text))
  BY <1>2, <1>3 DEF Typed
<1>6. \A i \in 1..N : homework'[i] = IF i = N THEN Append(homework[i], j) ELSE homework[i]
  BY <1>1, <1>3
<1>7. homework' \in Seq(Seq(HomeworkLines(text))) /\ Len(homework') = N
  <2>1. homework' = [i \in 1..N |-> homework'[i]]
    BY <1>1, <1>3
  <2>2. ASSUME NEW i \in 1..N PROVE homework'[i] \in Seq(HomeworkLines(text))
    <3>1. \A S, h, x : h \in Seq(S) /\ x \in S => Append(h, x) \in Seq(S)
      OBVIOUS
    <3>2. Append(homework[i], j) \in Seq(HomeworkLines(text))
      BY <1>4, <1>5, <3>1
    <3> QED BY <1>5, <1>6, <3>2
  <2> QED BY <1>3, <2>1, <2>2
<1>8. Typed'
  BY <1>1, <1>2, <1>7 DEF Typed, Lines
<1>9. /\ \A i \in 1..N : courses[i].line \in 1..at
      /\ \A i, m \in 1..N : i < m => courses[i].line < courses[m].line
      /\ \A i \in 1..N :
            /\ Noted(homework[i], Under(text, courses, i, at))
            /\ \A k \in DOMAIN courses[i].lessons : courses[i].lessons[k].homework = Nil
  BY <1>1, <1>3 DEF IInv, NotedUnderIts
<1>10. ASSUME NEW i \in 1..N PROVE Noted(homework'[i], Under(text, courses, i, j))
  <2> DEFINE under == Under(text, courses, i, at)
  <2>1. Under(text, courses, i, j) = IF i = N THEN under \union {j} ELSE under
    <3>1. courses[i].line \in 1..at /\ text.lines[at + 1].kind = "homework"
      BY <1>9 DEF Lines
    <3>2. Under(text, courses, i, at + 1) =
            IF i = Len(courses) /\ text.lines[at + 1].kind = "homework"
            THEN Under(text, courses, i, at) \union {at + 1} ELSE Under(text, courses, i, at)
      BY <1>4, <3>1, UnderGrows
    <3> QED BY <3>1, <3>2
  <2>2. Noted(homework[i], under)
    BY <1>9
  <2>3. CASE i # N
    BY <1>6, <2>1, <2>2, <2>3
  <2>4. CASE i = N
    <3>1. under \in SUBSET (1..at)
      BY <1>4, <1>9, <2>4, UnderType
    <3> HIDE DEF under
    <3>2. Noted(Append(homework[i], at + 1), under \union {at + 1})
      BY <1>4, <1>5, <2>2, <3>1, NotedMore
    <3> QED BY <1>6, <2>1, <2>4, <3>2
  <2> QED BY <2>3, <2>4
<1>11. NotedUnderIts'
  <2>1. \A i \in 1..N : courses[i].line \in 1..j
    BY <1>4, <1>9
  <2> QED BY <1>1, <1>3, <1>9, <1>10, <2>1 DEF NotedUnderIts
<1> QED BY <1>8, <1>11

(* A line that tells of a course is read.                                  *)
LEMMA AddCourseKeeps ==
  ASSUME IInv, ReadLine, NEW l, l = Lines[at + 1], l \in CourseLine,
         Telling(l), ~LineRaises(l), LessonDates(l) # <<>>, AddCourse(l), pc' = pc
  PROVE  Typed' /\ DaysAsAsked' /\ LessonsRight' /\ NotedUnderIts'
<1> DEFINE N == Len(courses)
           j == at + 1
           lessons == LineLessons(l, j)
           c == [name |-> l.name, teacher |-> l.teacher, line |-> j, lessons |-> lessons]
<1>1. /\ UNCHANGED <<text, key, team, pc, source, uids, reused, asked>>
      /\ pc = "lines" /\ at' = j /\ at < Len(text.lines) /\ at \in 0..Len(text.lines)
      /\ source = "text-heuristic"
      /\ courses' = Append(courses, c) /\ homework' = Append(homework, <<>>)
  BY DEF IInv, Progress, ReadLine, AddCourse, plan, Lines
<1>2. Typed /\ Len(text.lines) \in Nat
  BY LinesType DEF IInv, Typed
<1>3. N \in Nat /\ DOMAIN courses = 1..N /\ Len(homework) = N
  BY <1>2 DEF Typed
<1>4. j \in 1..Len(text.lines) /\ at \in Nat /\ j \in Nat /\ l = text.lines[j]
  BY <1>1, <1>2 DEF Lines
<1>5. /\ lessons \in Seq(Lesson)
      /\ \A k \in DOMAIN lessons : lessons[k].homework = Nil /\ Right(text, lessons[k])
      /\ DaysOf(lessons) = LessonDates(l)
  <2>1. \A k \in DOMAIN lessons : Right(text, lessons[k])
    BY <1>4, LineLessonsRight
  <2> QED BY <1>4, <2>1, LineLessonsAre
<1>6. c \in Course /\ c.line = j /\ c.lessons = lessons
  <2>1. l.name \in Names /\ l.teacher \in TeacherNames \union {Nil}
    BY DEF CourseLine
  <2> HIDE DEF lessons
  <2> QED BY <1>4, <1>5, <2>1 DEF Course
<1> HIDE DEF c, lessons
<1>7. /\ courses' \in Seq(Course) /\ Len(courses') = N + 1 /\ DOMAIN courses' = 1..(N + 1)
      /\ courses'[N + 1] = c /\ \A i \in 1..N : courses'[i] = courses[i]
  BY <1>1, <1>2, <1>3, <1>6 DEF Typed
<1>8. /\ homework' \in Seq(Seq(HomeworkLines(text))) /\ Len(homework') = N + 1
      /\ homework'[N + 1] = <<>> /\ \A i \in 1..N : homework'[i] = homework[i]
  BY <1>1, <1>2, <1>3 DEF Typed
<1>9. Typed'
  <2>1. \A i \in DOMAIN courses' : courses'[i].line \in 0..Len(Lines)
    <3> SUFFICES ASSUME NEW i \in 1..(N + 1) PROVE courses'[i].line \in 0..Len(Lines)
      BY <1>7
    <3>1. CASE i = N + 1
      BY <1>2, <1>4, <1>6, <1>7, <3>1 DEF Lines
    <3>2. CASE i # N + 1
      <4>1. i \in 1..N
        BY <1>3, <3>2
      <4> QED BY <1>2, <1>3, <1>7, <4>1 DEF Typed
    <3> QED BY <3>1, <3>2
  <2> QED BY <1>1, <1>2, <1>7, <1>8, <2>1 DEF Typed, Lines
<1>10. DaysAsAsked'
  <2> SUFFICES ASSUME NEW i \in 1..(N + 1), text.lines[courses'[i].line].days # {}
               PROVE  AsAsked(text.lines[courses'[i].line], DaysOf(courses'[i].lessons))
    BY <1>1, <1>7 DEF DaysAsAsked
  <2>1. CASE i = N + 1
    <3>1. l.days # {} /\ ~BadMonth(l)
      BY <1>4, <1>6, <1>7, <2>1 DEF LineRaises
    <3>2. AsAsked(l, LessonDates(l))
      BY <3>1, DatesAsAsked
    <3> QED BY <1>4, <1>5, <1>6, <1>7, <2>1, <3>2
  <2>2. CASE i # N + 1
    <3>1. i \in 1..N /\ courses'[i] = courses[i]
      BY <1>3, <1>7, <2>2
    <3> QED BY <1>1, <1>3, <3>1 DEF IInv, DaysAsAsked
  <2> QED BY <2>1, <2>2
<1>11. LessonsRight'
  <2> SUFFICES ASSUME NEW i \in 1..(N + 1), NEW k \in DOMAIN courses'[i].lessons
               PROVE  Right(text, courses'[i].lessons[k])
    BY <1>1, <1>7 DEF LessonsRight
  <2>1. CASE i = N + 1
    BY <1>5, <1>6, <1>7, <2>1
  <2>2. CASE i # N + 1
    <3>1. i \in 1..N /\ courses'[i] = courses[i]
      BY <1>3, <1>7, <2>2
    <3> QED BY <1>1, <1>3, <3>1 DEF IInv, LessonsRight
  <2> QED BY <2>1, <2>2
<1>12. /\ \A i \in 1..N : courses[i].line \in 1..at
       /\ \A i, m \in 1..N : i < m => courses[i].line < courses[m].line
       /\ \A i \in 1..N :
             /\ Noted(homework[i], Under(text, courses, i, at))
             /\ \A k \in DOMAIN courses[i].lessons : courses[i].lessons[k].homework = Nil
  BY <1>1, <1>3 DEF IInv, NotedUnderIts
<1>13. /\ \A i \in 1..N : Under(text, courses', i, j) = Under(text, courses, i, at)
       /\ Under(text, courses', N + 1, j) = {}
  <2>1. courses \in Seq(Course)
    BY <1>2 DEF Typed
  <2>2. c.line = at + 1
    BY <1>6
  <2>3. /\ \A i \in 1..Len(courses) : Under(text, Append(courses, c), i, at + 1) = Under(text, courses, i, at)
        /\ Under(text, Append(courses, c), Len(courses) + 1, at + 1) = {}
    BY <1>4, <1>6, <1>12, <2>1, <2>2, UnderNext
  <2> QED BY <1>1, <2>3
<1>14. NotedUnderIts'
  <2>1. \A i \in 1..(N + 1) : courses'[i].line \in 1..j
    <3> SUFFICES ASSUME NEW i \in 1..(N + 1) PROVE courses'[i].line \in 1..j
      OBVIOUS
    <3>1. CASE i = N + 1
      BY <1>4, <1>6, <1>7, <3>1
    <3>2. CASE i # N + 1
      <4>1. i \in 1..N /\ courses'[i] = courses[i]
        BY <1>3, <1>7, <3>2
      <4> QED BY <1>4, <1>12, <4>1
    <3> QED BY <3>1, <3>2
  <2>2. \A i, m \in 1..(N + 1) : i < m => courses'[i].line < courses'[m].line
    <3> SUFFICES ASSUME NEW i \in 1..(N + 1), NEW m \in 1..(N + 1), i < m
                 PROVE  courses'[i].line < courses'[m].line
      OBVIOUS
    <3>1. i \in 1..N /\ courses'[i] = courses[i]
      BY <1>3, <1>7
    <3>2. CASE m = N + 1
      <4>1. courses[i].line \in 1..at /\ courses'[m].line = j
        BY <1>6, <1>7, <1>12, <3>1, <3>2
      <4> QED BY <1>4, <3>1, <4>1
    <3>3. CASE m # N + 1
      <4>1. m \in 1..N /\ courses'[m] = courses[m]
        BY <1>3, <1>7, <3>3
      <4> QED BY <1>12, <3>1, <4>1
    <3> QED BY <3>2, <3>3
  <2>3. ASSUME NEW i \in 1..(N + 1)
        PROVE  /\ Noted(homework'[i], Under(text, courses', i, j))
               /\ \A k \in DOMAIN courses'[i].lessons : courses'[i].lessons[k].homework = Nil
    <3>1. CASE i = N + 1
      <4>1. Noted(<<>>, {})
        BY DEF Noted
      <4> QED BY <1>5, <1>6, <1>7, <1>8, <1>13, <3>1, <4>1
    <3>2. CASE i # N + 1
      <4>1. i \in 1..N /\ courses'[i] = courses[i] /\ homework'[i] = homework[i]
        BY <1>3, <1>7, <1>8, <3>2
      <4> QED BY <1>12, <1>13, <4>1
    <3> QED BY <3>1, <3>2
  <2> QED BY <1>1, <1>7, <2>1, <2>2, <2>3 DEF NotedUnderIts
<1> QED BY <1>9, <1>10, <1>11, <1>14

(* A line is read.                                                         *)
LEMMA ReadLineKeeps == ASSUME IInv, ReadLine PROVE IInv'
<1> DEFINE l == Lines[at + 1]
           L == Len(text.lines)
<1>1. /\ UNCHANGED <<text, key, team, source, uids, reused, asked>>
      /\ pc = "lines" /\ at' = at + 1 /\ at < L /\ at \in 0..L
      /\ source = "text-heuristic" /\ ~Tabular(text)
      /\ pc' \in {"lines", "refused"}
  BY DEF IInv, Progress, ReadLine, plan, Lines
<1>2. Typed /\ L \in Nat
  BY LinesType DEF IInv, Typed
<1>3. at \in Nat /\ at + 1 \in 1..L
  BY <1>1, <1>2
<1>4. l.kind = "course" => l \in CourseLine
  BY <1>1, <1>2, <1>3, LinesType DEF Lines, Typed
<1>5. Progress'
  BY <1>1, <1>2, <1>3 DEF IInv, Progress, Lines
<1>6. SettledSoFar'
  <2>1. uids = <<>> /\ asked = <<>> /\ DOMAIN uids = {}
    BY <1>1 DEF IInv, Progress
  <2>2. { i \in DOMAIN uids : uids[i] = Nil } = {} /\ Len(asked) = 0
    BY <2>1
  <2> QED BY <1>1, <2>1, <2>2, FS_EmptySet DEF SettledSoFar
<1>7. HomeworkInPlace'
  BY <1>1 DEF HomeworkInPlace
<1>8. CASE l.kind = "homework"
  <2>1. UNCHANGED <<text, courses, source>>
    BY <1>8 DEF ReadLine
  <2> QED BY <1>5, <1>6, <1>7, <1>8, <2>1, NoteKeeps, Kept DEF IInv
<1>9. CASE l.kind = "course" /\ UNCHANGED <<courses, homework>>
  <2>1. Typed'
    BY <1>1, <1>2, <1>9 DEF Typed, Lines
  <2>2. NotedUnderIts'
    <3>1. CASE pc' = "refused"
      BY <3>1 DEF NotedUnderIts
    <3>2. CASE pc' = "lines"
      <4>1. DOMAIN courses = 1..Len(courses) /\ Len(courses) \in Nat
        BY <1>2 DEF Typed
      <4>2. /\ \A i \in DOMAIN courses : courses[i].line \in 1..at
            /\ \A i, m \in DOMAIN courses : i < m => courses[i].line < courses[m].line
            /\ \A i \in DOMAIN courses :
                  /\ Noted(homework[i], Under(text, courses, i, at))
                  /\ \A k \in DOMAIN courses[i].lessons : courses[i].lessons[k].homework = Nil
        BY <1>1 DEF IInv, NotedUnderIts
      <4>3. text.lines[at + 1].kind # "homework"
        BY <1>9 DEF Lines
      <4>4. \A i \in DOMAIN courses : Under(text, courses, i, at + 1) = Under(text, courses, i, at)
        BY <1>3, <4>2, <4>3, UnderGrows
      <4>5. \A i \in DOMAIN courses : courses[i].line \in 1..(at + 1)
        BY <1>3, <4>2
      <4> QED BY <1>1, <1>9, <4>2, <4>4, <4>5 DEF NotedUnderIts
    <3> QED BY <1>1, <3>1, <3>2
  <2> QED BY <1>1, <1>5, <1>6, <1>7, <1>9, <2>1, <2>2, Kept DEF IInv
<1>10. CASE l.kind = "course" /\ ~LineRaises(l) /\ Telling(l) /\ LessonDates(l) # <<>> /\ AddCourse(l) /\ pc' = pc
  <2>1. Typed' /\ DaysAsAsked' /\ LessonsRight' /\ NotedUnderIts'
    <3>1. PICK x : x = l
      OBVIOUS
    <3>2. x \in CourseLine /\ Telling(x) /\ ~LineRaises(x) /\ LessonDates(x) # <<>> /\ AddCourse(x)
      BY <1>4, <1>10, <3>1
    <3> QED BY <1>10, <3>1, <3>2, AddCourseKeeps
  <2> QED BY <1>5, <1>6, <1>7, <2>1 DEF IInv
<1>11. \/ l.kind = "homework"
       \/ l.kind = "course" /\ UNCHANGED <<courses, homework>>
       \/ l.kind = "course" /\ ~LineRaises(l) /\ Telling(l) /\ LessonDates(l) # <<>> /\ AddCourse(l) /\ pc' = pc
  BY DEF ReadLine
<1> QED BY <1>8, <1>9, <1>10, <1>11

-----------------------------------------------------------------------------
(* The theorems.                                                           *)

(* The invariant is inductive.                                             *)
LEMMA Invariance == Spec => []IInv
<1>1. Init => IInv
  BY InitInv
<1>2. IInv /\ [Next]_vars => IInv'
  BY DetectKeeps, ReadRowKeeps, AskClaudeKeeps, ReadLineKeeps, EndOfTextKeeps, ResolveCourseKeeps,
     ResolveTeacherKeeps, ShowKeeps, StutterKeeps DEF Next
<1> QED BY <1>1, <1>2, PTL DEF Spec

(* The variables keep their types.                                         *)
THEOREM TypeCorrect == Spec => []TypeOK
<1>1. IInv => TypeOK
  BY InvImplies
<1> QED BY <1>1, Invariance, PTL

(* smart_parse, heuristic_parse: whatever line of weekdays was read, the   *)
(* course has exactly the lessons it asks for.                             *)
THEOREM LessonsAreAsked == Spec => []LessonsAsAsked
<1>1. IInv => LessonsAsAsked
  BY InvImplies
<1> QED BY <1>1, Invariance, PTL

(* A lesson ends before it starts exactly for the torn ranges and cells.   *)
THEOREM TornExactly == Spec => []BackwardExactly
<1>1. IInv => BackwardExactly
  BY InvImplies
<1> QED BY <1>1, Invariance, PTL

(* The homework of a course is the last line of homework under it, and is  *)
(* due after each lesson.                                                  *)
THEOREM HomeworkInItsPlace == Spec => []HomeworkUnderItsCourse
<1>1. IInv => HomeworkUnderItsCourse
  BY InvImplies
<1> QED BY <1>1, Invariance, PTL

(* A plan that is shown has a teacher or a question for every course, and  *)
(* the teachers are the right ones.                                        *)
THEOREM TeachersSettled == Spec => []TeacherKnownOrAsked
<1>1. IInv => TeacherKnownOrAsked
  BY InvImplies
<1> QED BY <1>1, Invariance, PTL
=============================================================================
