--------------------------- MODULE MCScheduleText ---------------------------
(* The calendar of 2026, days counted from Monday 2025-12-29, and a request *)
(* on Wednesday 2026-04-01.  One family of texts for each question.         *)
EXTENDS ScheduleText

MCToday == 93
MCMonthStart == <<3, 34, 62, 93, 123, 154, 184, 215, 246, 276, 307, 337>>

Plain ==
    [kind |-> "course", name |-> "math", teacher |-> Nil, days |-> {1, 3}, span |-> Nil,
     date |-> Nil, nth |-> Nil, week |-> "none", weeks |-> 1, sessions |-> Nil]
Text(lines) == [header |-> {}, lines |-> lines]
Hours(a, b, form, am) == [from |-> <<a, 0>>, to |-> <<b, 0>>, form |-> form, am |-> am]

(* Every range of full hours, in either form; and one with a bad minute.    *)
Ranges ==
    { Text(<<[Plain EXCEPT !.days = {0}, !.span = Hours(a, b, f, am)]>>) :
        a \in 0..24, b \in 0..24, f \in {"clock", "hours"}, am \in BOOLEAN }
    \union { Text(<<[Plain EXCEPT !.span = [Hours(19, 21, "clock", FALSE) EXCEPT !.to[2] = m]]>>) :
        m \in {30, 75} }

(* Every way to say when a course starts and how long it is.  May begins on *)
(* a Friday, June on a Monday; 13 is no month.                              *)
Starts ==
    { [Plain EXCEPT !.nth = <<m, n>>] : m \in {Nil, 5, 6, 13}, n \in 1..5 }
    \union { [Plain EXCEPT !.date = d] : d \in {90, 93, 98, 103} }
    \union { [Plain EXCEPT !.week = w] : w \in {"none", "next", "this"} }
Terms ==
    { Text(<<[l EXCEPT !.days = ds, !.weeks = w, !.sessions = s]>>) :
        l \in Starts, ds \in {{}, {0}, {1, 3}, {0, 2, 6}}, w \in {Nil, 0, 1, 3},
        s \in {Nil, 0, 1, 3, 4} }

(* Up to four lines of courses, of homework, of a course of no lessons and  *)
(* of one in which nothing is recognised.                                   *)
Pieces ==
    { Plain, [Plain EXCEPT !.name = "eng", !.weeks = 2, !.span = Hours(22, 23, "hours", FALSE)],
      [Plain EXCEPT !.weeks = 0], [Plain EXCEPT !.days = {}],
      [kind |-> "homework", due |-> 2], [kind |-> "homework", due |-> Nil] }
Pastes == { Text(lines) : lines \in UNION { [1..n -> Pieces] : n \in 1..4 } }

(* Tables, with and without the columns that make them one.                 *)
At(h, form, pm) == [h |-> h, m |-> 0, form |-> form, am |-> FALSE, pm |-> pm]
PlainRow ==
    [kind |-> "row", course_name |-> "math", teacher |-> Nil, date |-> 100, slot |-> Nil,
     start |-> At(7, "hour", FALSE), end |-> At(9, "clock", FALSE), homework_title |-> TRUE,
     homework_due |-> [day |-> 101, at |-> Nil]]
Rows ==
    { PlainRow, [PlainRow EXCEPT !.end = Nil, !.teacher = "lee"],
      [PlainRow EXCEPT !.date = Nil], [PlainRow EXCEPT !.course_name = "eng"],
      [PlainRow EXCEPT !.slot = Hours(7, 9, "hours", FALSE), !.course_name = Nil],
      [PlainRow EXCEPT !.start = [At(7, "clock", TRUE) EXCEPT !.m = 60]],
      [PlainRow EXCEPT !.homework_due = [day |-> 90, at |-> At(9, "hour", FALSE)]] }
Headers ==
    { {"course_name", "teacher", "date", "start", "end", "homework_title", "homework_due"},
      {"date", "start"}, {"course_name", "teacher"} }
Tables ==
    { [header |-> h, lines |-> rows] : h \in Headers, rows \in UNION { [1..n -> Rows] : n \in 1..3 } }

(* A start and an end, each in any form.                                    *)
Readings ==
    { At(h, f, FALSE) : h \in {0, 1, 7, 9, 10, 12, 13, 21}, f \in {"clock", "hour", "bare"} }
    \union { At(h, f, TRUE) : h \in {1, 7, 9, 10, 12}, f \in {"clock", "hour"} }
    \union { [At(h, "hour", FALSE) EXCEPT !.am = TRUE] : h \in {7, 10} }
Slots ==
    { [header |-> {"course_name", "date", "start", "end"},
       lines |-> <<[PlainRow EXCEPT !.start = a, !.end = b]>>] : a \in Readings, b \in Readings }

(* Who teaches what: two teachers alike, one alone, a stranger, nobody.     *)
Named ==
    { Text(<<[Plain EXCEPT !.name = c, !.teacher = t], [Plain EXCEPT !.name = d, !.teacher = u]>>) :
        c \in {"math", "eng", "art"}, d \in {"math", "art"},
        t \in {Nil, "kim", "lee", "park"}, u \in {Nil, "kim"} }

MCTexts == Ranges \union Terms \union Pastes \union Tables \union Slots \union Named
MCTeams == { {1, 2}, {2} }
MCAlike ==
    [kim |-> <<90, 90>>, lee |-> <<80, 100>>, park |-> <<0, 60>>]
MCExisting == << [id |-> 8, leader |-> 3], [id |-> 7, leader |-> Nil] >>
MCSame == [math |-> <<85, 85>>, eng |-> <<84, 100>>, art |-> <<0, 0>>, unnamed |-> <<0, 0>>]

(* Claude may answer with anything that fits the schema.                    *)
MCAnswers ==
    { <<>>,
      << [name |-> "art", teacher |-> "kim", line |-> 0,
          lessons |-> << [line |-> 0, start |-> 144000, end |-> 143000, homework |-> Nil] >>],
         [name |-> "math", teacher |-> Nil, line |-> 0, lessons |-> <<>>] >> }
=============================================================================
