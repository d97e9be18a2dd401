--------------------------- MODULE MCNotifications ---------------------------
(* One course and lesson, two teachers, two students; a row for each thing  *)
(* a query tells apart.                                                     *)
EXTENDS Notifications

CONSTANTS c1, l1, t1, t2, s1, s2, b1

Row(c, t, s, d) ==
    [lesson |-> l1, course |-> c, teacher |-> t, student |-> s, submitted |-> d, recent |-> TRUE]

Lesson(c, t, h) == l1 :> [course |-> c, teacher |-> t, homework |-> h]

(* A teacher, one without a uid, a manager, one without a branch, the owner. *)
MCScopes ==
    { [kind |-> "teacher", id |-> t1], [kind |-> "teacher", id |-> Nil],
      [kind |-> "branch", id |-> b1],
      [kind |-> "branch", id |-> Nil], [kind |-> "all", id |-> Nil] }

MCFresh == { Row(c1, Nil, s2, TRUE), Row(Nil, t1, s2, FALSE) }

Sheet(c, t, r) == [course |-> c, teacher |-> t, recent |-> r]

MCSheets == { Sheet(c1, t1, FALSE), Sheet(Nil, t2, TRUE) }

(* None, and some or all of the form, or others, in whatever order.         *)
MCPosts == { <<>>, <<s2>>, <<s2, s1>> }

Told(s, b) == [student |-> s, status |-> "dry_run", batch |-> b]

Sent(messages, at, missed) ==
    [messages |-> messages, live |-> FALSE, at |-> at, delivered |-> {}, status |-> "dry_run",
     missed |-> missed, sure |-> TRUE, pc |-> IF at > Len(messages) THEN "done" ELSE "cut"]

(* Courses and teachers of a branch or of none, tables for a page, and a    *)
(* form to compose from it, after one that was sent; the last has a student *)
(* without a record.                                                        *)
Unread ==
    [courses : [{c1} -> [branch : {b1, Nil}, teacher : {t2, Nil}]],
     teachers : { t1 :> b1 @@ t2 :> b1, t1 :> b1 @@ t2 :> Nil },
     lessons : { Lesson(c1, Nil, TRUE), Lesson(Nil, t1, FALSE) },
     records : { <<Row(c1, t2, s1, FALSE), Row(Nil, t1, s2, FALSE)>>,
                 <<Row(c1, t1, s1, FALSE), Row(c1, Nil, s2, FALSE)>>,
                 <<Row(c1, t1, s1, TRUE)>> },
     events : { <<Row(c1, Nil, s1, FALSE), Row(Nil, t1, s2, FALSE)>> },
     notes : { <<Told(s1, 0), Told(s2, 0), Told(s2, 1)>> },
     form : {NoForm}, sends : { << Sent(<<s2>>, 2, {s2}) >> }]

(* A form whose batch was cut, to be sent again while pages are read.       *)
Cut ==
    [courses |-> (c1 :> [branch |-> Nil, teacher |-> t1]),
     teachers |-> (t1 :> b1 @@ t2 :> Nil),
     lessons |-> Lesson(c1, t1, TRUE),
     records |-> <<Row(c1, t1, s2, FALSE)>>,
     events |-> <<>>,
     notes |-> << Told(s2, 0) >>,
     form |-> [students |-> <<s2>>, missed |-> {s2}, sure |-> TRUE],
     sends |-> << Sent(<<s2>>, 1, {s2}) >>]

MCFirst == Unread \union {Cut}
=============================================================================
