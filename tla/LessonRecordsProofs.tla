-------------------------- MODULE LessonRecordsProofs --------------------------
(***************************************************************************)
(* Proofs about LessonRecords, for every set of events, console lessons    *)
(* and sync, in every order and broken off anywhere.                       *)
(***************************************************************************)
EXTENDS LessonRecords, SequenceTheorems, FunctionTheorems, FiniteSetTheorems,
        WellFoundedInduction, TLAPS

-----------------------------------------------------------------------------
(* The inductive invariant.                                                *)

JobCalls(j) == IF j \in Events THEN EventCalls(j) ELSE ConsoleCalls(j)

(* The rows of lesson_records an event tells of.                           *)
Said(e) ==
    IF e.kind = "Attendance"
    THEN { RecordCall(LessonKey(e.class, Nil), e.members[i].uid,
              [course |-> e.course, attendance |-> e.members[i].label, date |-> e.date,
               teacher |-> TeacherOf(e.members)]) :
             i \in { k \in DOMAIN e.members : e.members[k].role = "student" } }
    ELSE IF e.kind = "End"
    THEN { RecordCall(LessonKey(e.class, Nil), u,
              [course |-> e.course, hands |-> "raised"]) : u \in e.uids }
    ELSE IF e.uid = Nil THEN {}
    ELSE { RecordCall(LessonKey(e.class, e.activity), e.uid,
             IF e.kind = "HomeworkSubmit"
             THEN [course |-> e.course, submitted |-> 1, activity |-> e.activity]
             ELSE [course |-> e.course, score |-> e.score]) }

(* The columns that only events of a kind write.                           *)
Columns(kind) ==
    CASE kind = "Attendance" -> {"attendance", "date", "teacher"}
      [] kind = "End" -> {"hands"}
      [] kind = "HomeworkSubmit" -> {"submitted", "activity"}
      [] kind = "HomeworkScore" -> {"score"}

(* Two events whose rows are of one kind and one class.                    *)
Alike(e, f) == f.kind = e.kind /\ KeyOf(f) = KeyOf(e)

(* The row of u holds what event e tells of u.                             *)
Held(e, u) == \E said \in Tells(e, u) : Holds(records[<<KeyOf(e), u>>], said)

(* The loop has yet to write what its job tells of u.                      *)
Pending(u) ==
    \E c \in ToSet(loop) : c \in Said(job) /\ c.key = <<KeyOf(job), u>>

(* The event begun last of those that tell what e tells of u.              *)
LastOf(e, u) == last[<<e.kind, KeyOf(e), u>>]

Typed ==
    /\ TypeOK
    /\ DOMAIN records = Keys \X People
    /\ DOMAIN lessons = Keys
    /\ job \in Jobs \union {Nil}
    /\ pool \in Seq(SyncCalls)

(* The loop has calls of its job left to make, and of no other.            *)
LoopIsOfJob ==
    /\ job = Nil => loop = <<>>
    /\ job # Nil => job \in begun \ done /\ loop \in Seq(ToSet(JobCalls(job)))

(* What is known of each event begun that tells of u: a last one there is;  *)
(* when it is done, the row holds what one of them told, and what it told  *)
(* itself if it is the last; and while it runs it is the last.             *)
LastKnown(e, u) ==
    LastOf(e, u) \in begun \intersect Events /\ Alike(e, LastOf(e, u)) /\ Tells(LastOf(e, u), u) # {}
OneHeld(e, u) == \E f \in begun \intersect Events : Alike(e, f) /\ Held(f, u)
LastHeld(e, u) == LastOf(e, u) = e => Held(e, u)
Running(u) == LastOf(job, u) = job /\ (Held(job, u) \/ Pending(u))

SaidStands ==
    /\ \A e \in begun \intersect Events, u \in People : Tells(e, u) # {} => LastKnown(e, u)
    /\ \A e \in done \intersect Events, u \in People :
          Tells(e, u) # {} => OneHeld(e, u) /\ LastHeld(e, u)
    /\ job \in Events => \A u \in People : Tells(job, u) # {} => Running(u)

IInv ==
    /\ Typed
    /\ LoopIsOfJob
    /\ CourseKept
    /\ SaidStands

-----------------------------------------------------------------------------
(* Induction over data, by sets of natural numbers.                        *)

(* Every set of natural numbers but the empty one has a least element.     *)
LEMMA Least ==
  ASSUME NEW S \in SUBSET Nat, S # {}
  PROVE  \E n \in S : \A m \in S : n <= m
<1> DEFINE R == {ss \in Nat \X Nat : ss[1] < ss[2]}
<1>1. IsWellFoundedOn(R, Nat)
  BY NatLessThanWellFounded DEF OpToRel
<1> HIDE DEF R
<1>2. \E x \in S : \A y \in S : ~ (<<y, x>> \in R)
  BY <1>1, WFMin
<1>3. ASSUME NEW x \in S, NEW y \in S, <<y, x>> \notin R
      PROVE  x <= y
  BY <1>3 DEF R
<1> QED BY <1>2, <1>3

(* A set that holds 0 and the successor of what it holds has all of Nat.   *)
LEMMA SetInduction ==
  ASSUME NEW S, 0 \in S, \A n \in Nat : n \in S => n + 1 \in S
  PROVE  Nat \subseteq S
<1> SUFFICES ASSUME Nat \ S # {} PROVE FALSE
  OBVIOUS
<1>1. PICK n \in Nat \ S : \A m \in Nat \ S : n <= m
  BY Least
<1>2. n - 1 \in Nat /\ n - 1 \in S
  BY <1>1
<1> QED BY <1>2, (n - 1) + 1 = n

(* A concatenation has the elements of its two parts.                      *)
LEMMA ConcatElements ==
  ASSUME NEW S, NEW s \in Seq(S), NEW t \in Seq(S)
  PROVE  ToSet(s \o t) = ToSet(s) \union ToSet(t)
<1> DEFINE m == Len(s)
           n == Len(t)
<1>1. /\ m \in Nat /\ n \in Nat /\ DOMAIN s = 1..m /\ DOMAIN t = 1..n
      /\ DOMAIN (s \o t) = 1..(m + n)
      /\ \A i \in 1..(m + n) : (s \o t)[i] = IF i <= m THEN s[i] ELSE t[i - m]
  BY LenProperties, ConcatProperties
<1>2. ASSUME NEW i \in 1..m PROVE s[i] = (s \o t)[i] /\ i \in 1..(m + n)
  BY <1>1
<1>3. ASSUME NEW i \in 1..n PROVE t[i] = (s \o t)[i + m] /\ i + m \in 1..(m + n)
  BY <1>1
<1>4. ASSUME NEW i \in 1..(m + n)
      PROVE  (s \o t)[i] \in ToSet(s) \union ToSet(t)
  <2>1. CASE i <= m
    BY <2>1, <1>1 DEF ToSet
  <2>2. CASE i > m
    <3>1. i - m \in 1..n
      BY <2>2, <1>1
    <3> QED BY <2>2, <3>1, <1>1 DEF ToSet
  <2> QED BY <2>1, <2>2, <1>1
<1>5. \A x : x \in ToSet(s \o t) => x \in ToSet(s) \union ToSet(t)
  BY <1>1, <1>4 DEF ToSet
<1>6. \A x : x \in ToSet(s) => x \in ToSet(s \o t)
  BY <1>1, <1>2 DEF ToSet
<1>7. \A x : x \in ToSet(t) => x \in ToSet(s \o t)
  <2> HIDE DEF m, n
  <2> DEFINE u == s \o t
  <2>1. DOMAIN u = 1..(m + n) /\ \A i \in 1..n : t[i] = u[i + m] /\ i + m \in 1..(m + n)
    BY <1>1, <1>3
  <2> HIDE DEF u
  <2>2. \A x : x \in ToSet(t) => x \in ToSet(u)
    BY <1>1, <2>1 DEF ToSet
  <2> QED BY <2>2 DEF u
<1> QED BY <1>5, <1>6, <1>7

(* FlattenSeq has the elements of the sequences in it.                     *)
LEMMA FlattenElements ==
  ASSUME NEW S, NEW ss \in Seq(Seq(S))
  PROVE  /\ FlattenSeq(ss) \in Seq(S)
         /\ ToSet(FlattenSeq(ss)) = UNION { ToSet(ss[i]) : i \in DOMAIN ss }
<1> DEFINE n == Len(ss)
<1>1. n \in Nat /\ DOMAIN ss = 1..n /\ \A i \in 1..n : ss[i] \in Seq(S)
  BY LenProperties, ElementOfSeq
<1>2. CASE n = 0
  <2>1. FlattenSeq(ss) = ss /\ ss = <<>>
    BY <1>2, EmptySeq DEF FlattenSeq
  <2> QED BY <2>1, <1>1, <1>2, EmptySeq DEF ToSet
<1>3. CASE n # 0
  <2> DEFINE Is(f, k) == f = [i \in 1..k |-> IF i = 1 THEN ss[i] ELSE f[i - 1] \o ss[i]]
             flatten == CHOOSE f : Is(f, n)
             K == { k \in Nat : \E f : Is(f, k) }
  <2>1. 0 \in K
    <3>1. Is([i \in 1..0 |-> ss[i]], 0)
      OBVIOUS
    <3> QED BY <3>1
  <2>2. ASSUME NEW k \in Nat, k \in K PROVE k + 1 \in K
    <3>1. PICK f : Is(f, k)
      BY <2>2
    <3> DEFINE g == [i \in 1..(k + 1) |->
                       IF i = 1 THEN ss[i] ELSE f[i - 1] \o ss[i]]
    <3>2. \A i \in 1..k : f[i] = IF i = 1 THEN ss[i] ELSE f[i - 1] \o ss[i]
      <4> DEFINE h == [i \in 1..k |-> IF i = 1 THEN ss[i] ELSE f[i - 1] \o ss[i]]
      <4>1. f = h
        BY <3>1
      <4>2. \A i \in 1..k : h[i] = IF i = 1 THEN ss[i] ELSE f[i - 1] \o ss[i]
        OBVIOUS
      <4> HIDE DEF h
      <4> QED BY <4>1, <4>2
    <3>3. \A i \in 1..k : g[i] = f[i]
      BY <3>2
    <3>4. \A i \in 1..(k + 1) : i # 1 => g[i - 1] = f[i - 1]
      <4>1. \A i \in 1..(k + 1) : i # 1 => i - 1 \in 1..k
        OBVIOUS
      <4> HIDE DEF g
      <4> QED BY <3>3, <4>1
    <3> DEFINE rest == [i \in 1..(k + 1) |-> IF i = 1 THEN ss[i] ELSE g[i - 1] \o ss[i]]
    <3>5. \A i \in 1..(k + 1) : g[i] = rest[i]
      BY <3>4, Zenon
    <3>6. g = rest
      BY <3>5, Zenon
    <3>7. Is(g, k + 1)
      BY <3>6
    <3> HIDE DEF Is, g
    <3> QED BY <3>7
  <2>3. Nat \subseteq K
    <3> HIDE DEF K
    <3> QED BY <2>1, <2>2, SetInduction
  <2>4. \E f : Is(f, n)
    BY <2>3, <1>1
  <2>5. Is(flatten, n)
    <3> HIDE DEF Is
    <3> QED BY <2>4
  <2>6. FlattenSeq(ss) = flatten[n]
    BY <1>3 DEF FlattenSeq
  <2> HIDE DEF flatten
  <2>7. \A i \in 1..n : flatten[i] = IF i = 1 THEN ss[i] ELSE flatten[i - 1] \o ss[i]
    BY <2>5
  <2> DEFINE Good(i) == /\ flatten[i] \in Seq(S)
                        /\ ToSet(flatten[i]) = UNION { ToSet(ss[j]) : j \in 1..i }
             G == { k \in Nat : k \in 1..n => Good(k) }
  <2>8. 0 \in G
    OBVIOUS
  <2>9. ASSUME NEW k \in Nat, k \in G PROVE k + 1 \in G
    <3> SUFFICES ASSUME k + 1 \in 1..n PROVE Good(k + 1)
      OBVIOUS
    <3>1. CASE k = 0
      <4>1. flatten[1] = ss[1] /\ 1 \in 1..n
        BY <2>7, <3>1, <1>1
      <4>2. UNION { ToSet(ss[j]) : j \in 1..1 } = ToSet(ss[1])
        OBVIOUS
      <4> QED BY <4>1, <4>2, <1>1, <3>1
    <3>2. CASE k # 0
      <4>1. Good(k) /\ k \in 1..n
        BY <2>9, <3>2, <1>1
      <4>2. flatten[k + 1] = flatten[k] \o ss[k + 1]
        BY <2>7, <3>2, k + 1 # 1, (k + 1) - 1 = k
      <4>3. ss[k + 1] \in Seq(S)
        BY <1>1
      <4>4. flatten[k + 1] \in Seq(S)
        BY <4>1, <4>2, <4>3, ConcatProperties
      <4>5. ToSet(flatten[k + 1]) = ToSet(flatten[k]) \union ToSet(ss[k + 1])
        BY <4>1, <4>2, <4>3, ConcatElements
      <4>6. UNION { ToSet(ss[j]) : j \in 1..(k + 1) }
              = (UNION { ToSet(ss[j]) : j \in 1..k }) \union ToSet(ss[k + 1])
        <5>1. 1..(k + 1) = (1..k) \union {k + 1}
          OBVIOUS
        <5> QED BY <5>1
      <4> QED BY <4>1, <4>4, <4>5, <4>6
    <3> QED BY <3>1, <3>2
  <2>10. n \in G
    <3> HIDE DEF G
    <3> QED BY <2>8, <2>9, SetInduction, <1>1
  <2> QED BY <2>10, <2>6, <1>1, <1>3
<1> QED BY <1>2, <1>3

(* SetToSeq lists a finite set.                                            *)
LEMMA SetToSeqElements ==
  ASSUME NEW S, IsFiniteSet(S)
  PROVE  SetToSeq(S) \in Seq(S) /\ ToSet(SetToSeq(S)) = S
<1> DEFINE n == Cardinality(S)
           Is(f) == f \in [1..n -> S] /\ IsInjective(f)
<1>1. n \in Nat /\ ExistsBijection(1..n, S)
  BY FS_CardinalityType
<1>2. \E f : Is(f)
  <2>1. PICK f : f \in Bijection(1..n, S)
    BY <1>1 DEF ExistsBijection
  <2>2. Is(f)
    BY <2>1 DEF Bijection, Injection, IsInjective
  <2> QED BY <2>2
<1>3. Is(SetToSeq(S))
  BY <1>2 DEF SetToSeq
<1>4. SetToSeq(S) \in Injection(1..n, S)
  BY <1>3 DEF Injection, IsInjective
<1>5. IsFiniteSet(1..n) /\ Cardinality(1..n) = n
  BY <1>1, FS_Interval
<1>6. SetToSeq(S) \in Surjection(1..n, S)
  BY <1>4, <1>5, FS_Injection
<1> DEFINE s == SetToSeq(S)
<1>7. s \in [1..n -> S] /\ \A x \in S : \E i \in 1..n : s[i] = x
  BY <1>6 DEF Surjection
<1> HIDE DEF s
<1>8. s \in Seq(S)
  BY <1>7, <1>1, SeqDef
<1>9. ToSet(s) = S
  BY <1>7 DEF ToSet
<1> QED BY <1>8, <1>9 DEF s

-----------------------------------------------------------------------------
(* Rows.                                                                   *)

(* What a column holds after either of the upserts.                        *)
LEMMA ColOverwrite ==
  \A row, new, col :
     Col(Overwrite(row, new), col) = IF col \in DOMAIN new THEN new[col] ELSE Col(row, col)
BY DEF Col, Overwrite

LEMMA ColCoalesce ==
  \A row, new, col :
     Col(Coalesce(row, new), col) =
        IF Col(new, col) # Nil THEN Col(new, col) ELSE Col(row, col)
BY DEF Col, Coalesce

-----------------------------------------------------------------------------
(* The calls of an event.                                                  *)

(* The first teacher of an attendance, if any, is a teacher.               *)
LEMMA TeacherOfType ==
  ASSUME NEW members \in Seq(Member)
  PROVE  TeacherOf(members) \in Teachers \union {Nil}
<1> DEFINE I == { i \in 1..Len(members) : members[i].role = "teacher" }
<1>1. I \subseteq Nat
  OBVIOUS
<1>2. CASE I = {}
  BY <1>2 DEF TeacherOf, SelectInSeq
<1>3. CASE I # {}
  <2>1. Min(I) \in I
    BY <1>1, <1>3, Least DEF Min
  <2>2. TeacherOf(members) = members[Min(I)].uid
    <3>1. SelectInSeq(members, LAMBDA x : x.role = "teacher") = Min(I)
      BY <1>3 DEF SelectInSeq
    <3>2. Min(I) # 0
      BY <2>1
    <3> HIDE DEF I
    <3> QED BY <3>1, <3>2 DEF TeacherOf
  <2>3. Min(I) \in 1..Len(members) /\ members[Min(I)].role = "teacher"
    BY <2>1
  <2>4. members[Min(I)] \in Member
    BY <2>3, ElementOfSeq
  <2> HIDE DEF I
  <2> QED BY <2>2, <2>3, <2>4 DEF Member
<1> QED BY <1>2, <1>3

(* What an event carries, by its kind.                                     *)
LEMMA EventFacts ==
  ASSUME NEW e \in Events
  PROVE  /\ e.kind \in {"Attendance", "End", "HomeworkSubmit", "HomeworkScore"}
         /\ e.class \in Classes \union {Nil}
         /\ e.course \in Courses \union {Nil}
         /\ e.kind = "Attendance" => e.members \in Seq(Member) /\ e.date \in Dates \union {Nil}
         /\ e.kind = "End" => e.uids \subseteq People /\ IsFiniteSet(e.uids)
         /\ e.kind \in {"HomeworkSubmit", "HomeworkScore"} =>
               e.activity \in Activities /\ e.uid \in Students \union {Nil}
         /\ KeyOf(e) \in Keys
<1>1. e \in EventType /\ (e.kind = "End" => IsFiniteSet(e.uids))
  BY EventAssumption
<1>2. /\ e.kind \in {"Attendance", "End", "HomeworkSubmit", "HomeworkScore"}
      /\ e.class \in Classes \union {Nil}
      /\ e.course \in Courses \union {Nil}
      /\ e.kind = "Attendance" => e.members \in Seq(Member) /\ e.date \in Dates \union {Nil}
      /\ e.kind = "End" => e.uids \subseteq People
      /\ e.kind \in {"HomeworkSubmit", "HomeworkScore"} =>
            e.activity \in Activities /\ e.uid \in Students \union {Nil}
  BY <1>1 DEF EventType
<1>3. KeyOf(e) \in Keys
  BY <1>2 DEF KeyOf, LessonKey, Keys
<1> QED BY <1>1, <1>2, <1>3

(* What an event tells of a person, by its kind.                           *)
LEMMA TellsFacts ==
  ASSUME NEW e \in Events, NEW u \in People, NEW said \in Tells(e, u)
  PROVE  /\ DOMAIN said = Columns(e.kind)
         /\ e.kind = "Attendance" =>
               /\ said["attendance"] \in Labels
               /\ said["date"] = e.date
               /\ said["teacher"] \in Teachers \union {Nil}
         /\ e.kind = "HomeworkSubmit" => said["submitted"] = 1 /\ said["activity"] \in Activities
<1>1. CASE e.kind = "Attendance"
  <2>1. PICK m \in ToSet(e.members) :
           said = [attendance |-> m.label, date |-> e.date, teacher |-> TeacherOf(e.members)]
    BY <1>1 DEF Tells
  <2>2. m \in Member
    BY <1>1, EventFacts, ElementOfSeq, LenProperties DEF ToSet
  <2>3. m.label \in Labels
    BY <2>2 DEF Member
  <2>4. TeacherOf(e.members) \in Teachers \union {Nil}
    BY <1>1, EventFacts, TeacherOfType
  <2> QED BY <1>1, <2>1, <2>3, <2>4 DEF Columns
<1>2. CASE e.kind = "End"
  BY <1>2 DEF Tells, Columns
<1>3. CASE e.kind = "HomeworkSubmit"
  <2>1. said = [submitted |-> 1, activity |-> e.activity] /\ e.activity \in Activities
    BY <1>3, EventFacts DEF Tells
  <2> QED BY <1>3, <2>1 DEF Columns
<1>4. CASE e.kind = "HomeworkScore"
  BY <1>4 DEF Tells, Columns
<1> QED BY <1>1, <1>2, <1>3, <1>4, EventFacts

(* A row that an event writes is what the event tells of one person, and   *)
(* its course.                                                             *)
LEMMA SaidFacts ==
  ASSUME NEW e \in Events, NEW c \in Said(e)
  PROVE  /\ c.op = "upsert_lesson_record"
         /\ "course" \in DOMAIN c.set /\ c.set["course"] = e.course
         /\ \E u \in People : \E said \in Tells(e, u) :
               /\ c.key = <<KeyOf(e), u>>
               /\ DOMAIN c.set = DOMAIN said \union {"course"}
               /\ \A col \in DOMAIN said : c.set[col] = said[col]
<1>1. CASE e.kind = "Attendance"
  <2>1. PICK i \in DOMAIN e.members :
          /\ e.members[i].role = "student"
          /\ c = RecordCall(LessonKey(e.class, Nil), e.members[i].uid,
                     [course |-> e.course, attendance |-> e.members[i].label, date |-> e.date,
                      teacher |-> TeacherOf(e.members)])
    BY <1>1 DEF Said
  <2>2. e.members[i] \in Member
    BY <1>1, EventFacts, ElementOfSeq, LenProperties
  <2>3. e.members[i].uid \in People
    BY <2>2 DEF Member, People
  <2>4. KeyOf(e) = LessonKey(e.class, Nil)
    BY <1>1 DEF KeyOf
  <2> DEFINE said == [attendance |-> e.members[i].label, date |-> e.date,
                      teacher |-> TeacherOf(e.members)]
  <2>5. said \in Tells(e, e.members[i].uid)
    BY <1>1, <2>1 DEF Tells, ToSet
  <2>6. /\ c.op = "upsert_lesson_record" /\ c.key = <<KeyOf(e), e.members[i].uid>>
        /\ c.set = [course |-> e.course, attendance |-> e.members[i].label, date |-> e.date,
                    teacher |-> TeacherOf(e.members)]
    BY <2>1, <2>4 DEF RecordCall
  <2>7. /\ DOMAIN c.set = DOMAIN said \union {"course"} /\ c.set["course"] = e.course
        /\ \A col \in DOMAIN said : c.set[col] = said[col]
    BY <2>6
  <2> HIDE DEF said
  <2> QED BY <2>3, <2>5, <2>6, <2>7
<1>2. CASE e.kind = "End"
  <2>1. PICK u \in e.uids :
          c = RecordCall(LessonKey(e.class, Nil), u, [course |-> e.course, hands |-> "raised"])
    BY <1>2 DEF Said
  <2>2. u \in People
    BY <1>2, EventFacts
  <2>3. KeyOf(e) = LessonKey(e.class, Nil)
    BY <1>2 DEF KeyOf
  <2> DEFINE said == [hands |-> "raised"]
  <2>4. said \in Tells(e, u)
    BY <1>2 DEF Tells
  <2>5. /\ c.op = "upsert_lesson_record" /\ c.key = <<KeyOf(e), u>>
        /\ DOMAIN c.set = DOMAIN said \union {"course"} /\ c.set["course"] = e.course
        /\ \A col \in DOMAIN said : c.set[col] = said[col]
    BY <2>1, <2>3 DEF RecordCall
  <2> HIDE DEF said
  <2> QED BY <2>2, <2>4, <2>5
<1>3. CASE e.kind = "HomeworkSubmit"
  <2>1. /\ e.uid # Nil
        /\ c = RecordCall(LessonKey(e.class, e.activity), e.uid,
                  [course |-> e.course, submitted |-> 1, activity |-> e.activity])
    BY <1>3 DEF Said
  <2>2. e.uid \in People
    BY <1>3, <2>1, EventFacts DEF People
  <2>3. KeyOf(e) = LessonKey(e.class, e.activity)
    BY <1>3 DEF KeyOf
  <2> DEFINE said == [submitted |-> 1, activity |-> e.activity]
  <2>4. said \in Tells(e, e.uid)
    BY <1>3 DEF Tells
  <2>5. /\ c.op = "upsert_lesson_record" /\ c.key = <<KeyOf(e), e.uid>>
        /\ DOMAIN c.set = DOMAIN said \union {"course"} /\ c.set["course"] = e.course
        /\ \A col \in DOMAIN said : c.set[col] = said[col]
    BY <2>1, <2>3 DEF RecordCall
  <2> HIDE DEF said
  <2> QED BY <2>2, <2>4, <2>5
<1>4. CASE e.kind = "HomeworkScore"
  <2>1. /\ e.uid # Nil
        /\ c = RecordCall(LessonKey(e.class, e.activity), e.uid,
                  [course |-> e.course, score |-> e.score])
    BY <1>4 DEF Said
  <2>2. e.uid \in People
    BY <1>4, <2>1, EventFacts DEF People
  <2>3. KeyOf(e) = LessonKey(e.class, e.activity)
    BY <1>4 DEF KeyOf
  <2> DEFINE said == [score |-> e.score]
  <2>4. said \in Tells(e, e.uid)
    BY <1>4 DEF Tells
  <2>5. /\ c.op = "upsert_lesson_record" /\ c.key = <<KeyOf(e), e.uid>>
        /\ DOMAIN c.set = DOMAIN said \union {"course"} /\ c.set["course"] = e.course
        /\ \A col \in DOMAIN said : c.set[col] = said[col]
    BY <2>1, <2>3 DEF RecordCall
  <2> HIDE DEF said
  <2> QED BY <2>2, <2>4, <2>5
<1> QED BY <1>1, <1>2, <1>3, <1>4, EventFacts

(* ... and what an event tells of a person is in a row that it writes.     *)
LEMMA TellsSaid ==
  ASSUME NEW e \in Events, NEW u \in People, Tells(e, u) # {}
  PROVE  \E c \in Said(e) : c.key = <<KeyOf(e), u>>
<1>1. CASE e.kind = "Attendance"
  <2>1. PICK m \in ToSet(e.members) : m.role = "student" /\ m.uid = u
    BY <1>1 DEF Tells
  <2>2. PICK i \in DOMAIN e.members : e.members[i] = m
    BY <2>1 DEF ToSet
  <2>3. RecordCall(LessonKey(e.class, Nil), e.members[i].uid,
           [course |-> e.course, attendance |-> e.members[i].label, date |-> e.date,
            teacher |-> TeacherOf(e.members)]) \in Said(e)
    BY <1>1, <2>1, <2>2 DEF Said
  <2> QED BY <1>1, <2>1, <2>2, <2>3 DEF RecordCall, KeyOf
<1>2. CASE e.kind = "End"
  <2>1. u \in e.uids
    <3>1. Tells(e, u) = { [hands |-> "raised"] : x \in e.uids \intersect {u} }
      BY <1>2 DEF Tells
    <3> QED BY <3>1
  <2>2. RecordCall(LessonKey(e.class, Nil), u, [course |-> e.course, hands |-> "raised"]) \in Said(e)
    BY <1>2, <2>1 DEF Said
  <2> QED BY <1>2, <2>2 DEF RecordCall, KeyOf
<1>3. CASE e.kind \in {"HomeworkSubmit", "HomeworkScore"}
  <2>1. e.uid = u /\ e.uid # Nil
    BY <1>3, EventAssumption DEF Tells
  <2> QED BY <1>3, <2>1 DEF Said, RecordCall, KeyOf
<1> QED BY <1>1, <1>2, <1>3, EventFacts

(* The values of a row are of its columns.                                 *)
LEMMA SaidValues ==
  ASSUME NEW e \in Events, NEW c \in Said(e)
  PROVE  /\ "attendance" \in DOMAIN c.set => c.set["attendance"] \in Labels
         /\ "teacher" \in DOMAIN c.set => c.set["teacher"] \in Teachers \union {Nil}
         /\ "date" \in DOMAIN c.set =>
               e.kind = "Attendance" /\ c.set["date"] = e.date /\ e.date \in Dates \union {Nil}
         /\ "submitted" \in DOMAIN c.set => e.kind = "HomeworkSubmit" /\ c.set["submitted"] = 1
         /\ "activity" \in DOMAIN c.set => c.set["activity"] \in Activities
<1>1. PICK u \in People, said \in UNION { Tells(e, v) : v \in People } :
         /\ said \in Tells(e, u)
         /\ DOMAIN c.set = DOMAIN said \union {"course"}
         /\ \A col \in DOMAIN said : c.set[col] = said[col]
  BY SaidFacts
<1>2. DOMAIN said = Columns(e.kind)
  BY <1>1, TellsFacts
<1>3. CASE e.kind = "Attendance"
  <2>1. DOMAIN said = {"attendance", "date", "teacher"}
    BY <1>2, <1>3 DEF Columns
  <2> QED BY <1>1, <1>3, <2>1, TellsFacts, EventFacts
<1>4. CASE e.kind = "End"
  <2>1. DOMAIN said = {"hands"}
    BY <1>2, <1>4 DEF Columns
  <2> QED BY <1>1, <2>1
<1>5. CASE e.kind = "HomeworkSubmit"
  <2>1. DOMAIN said = {"submitted", "activity"}
    BY <1>2, <1>5 DEF Columns
  <2> QED BY <1>1, <1>5, <2>1, TellsFacts
<1>6. CASE e.kind = "HomeworkScore"
  <2>1. DOMAIN said = {"score"}
    BY <1>2, <1>6 DEF Columns
  <2> QED BY <1>1, <2>1
<1> QED BY <1>3, <1>4, <1>5, <1>6, EventFacts

(* Events of different kinds have no columns in common.                    *)
LEMMA OwnColumns ==
  ASSUME NEW e \in Events, NEW f \in Events, e.kind # f.kind
  PROVE  /\ "course" \notin Columns(e.kind)
         /\ Columns(e.kind) \intersect Columns(f.kind) = {}
<1>1. /\ e.kind \in {"Attendance", "End", "HomeworkSubmit", "HomeworkScore"}
      /\ f.kind \in {"Attendance", "End", "HomeworkSubmit", "HomeworkScore"}
  BY EventFacts
<1> QED BY <1>1 DEF Columns

(* A sequence is one of its own elements.                                  *)
LEMMA SeqOfElements ==
  ASSUME NEW S, NEW s \in Seq(S)
  PROVE  s \in Seq(ToSet(s))
<1>1. Len(s) \in Nat /\ s \in [1..Len(s) -> S]
  BY LenProperties
<1>2. s \in [1..Len(s) -> ToSet(s)]
  BY <1>1 DEF ToSet
<1> QED BY <1>1, <1>2, SeqDef

(* A lesson's call is one that a sync could make.                          *)
LEMMA LessonCallType ==
  ASSUME NEW k \in Keys, NEW c \in Courses \union {Nil},
         NEW t \in Teachers \union {Nil}, NEW h \in Activities \union {Nil}
  PROVE  LessonCall(k, c, t, h) \in SyncCalls
BY DEF LessonCall, SyncCalls

(* A job calls for the rows its event tells of, and for master data.       *)
LEMMA JobCallsAre ==
  ASSUME NEW j \in Jobs
  PROVE  /\ JobCalls(j) \in Seq(ToSet(JobCalls(j)))
         /\ j \in Events => /\ ToSet(JobCalls(j)) \subseteq SyncCalls \union Said(j)
                            /\ Said(j) \subseteq ToSet(JobCalls(j))
         /\ j \notin Events => ToSet(JobCalls(j)) \subseteq SyncCalls
<1>1. ASSUME NEW e \in Events, e.kind = "Attendance"
      PROVE  /\ EventCalls(e) \in Seq(SyncCalls \union Said(e))
             /\ Said(e) \subseteq ToSet(EventCalls(e))
  <2> DEFINE U == SyncCalls \union Said(e)
             key == LessonKey(e.class, Nil)
             first == IF e.course # Nil THEN <<CourseCall(e.course, "known", Nil)>> ELSE <<>>
             second == <<LessonCall(key, e.course, Nil, Nil)>>
             parts == [i \in DOMAIN e.members |-> MemberCalls(e, e.members[i])]
  <2>1. /\ e.members \in Seq(Member) /\ Len(e.members) \in Nat
        /\ DOMAIN e.members = 1..Len(e.members)
        /\ \A i \in DOMAIN e.members : e.members[i] \in Member
    BY <1>1, EventFacts, LenProperties, ElementOfSeq
  <2>2. key \in Keys /\ e.course \in Courses \union {Nil}
    BY <1>1, EventFacts DEF KeyOf
  <2>3. first \in Seq(U)
    <3>1. CASE e.course # Nil
      <4>1. CourseCall(e.course, "known", Nil) \in U
        BY <3>1, <2>2 DEF CourseCall, SyncCalls
      <4> HIDE DEF U
      <4> QED BY <4>1, <3>1
    <3>2. CASE e.course = Nil
      BY <3>2, EmptySeq
    <3> QED BY <3>1, <3>2
  <2>4. second \in Seq(U)
    <3>1. LessonCall(key, e.course, Nil, Nil) \in U
      <4> HIDE DEF key
      <4> QED BY <2>2, LessonCallType
    <3> HIDE DEF U, key
    <3> QED BY <3>1
  <2>5. ASSUME NEW i \in DOMAIN e.members
        PROVE  /\ MemberCalls(e, e.members[i]) \in Seq(U)
               /\ e.members[i].role = "student" =>
                    \E k \in DOMAIN MemberCalls(e, e.members[i]) :
                      MemberCalls(e, e.members[i])[k] =
                        RecordCall(key, e.members[i].uid,
                          [course |-> e.course, attendance |-> e.members[i].label,
                           date |-> e.date, teacher |-> TeacherOf(e.members)])
    <3> DEFINE m == e.members[i]
               row == RecordCall(key, m.uid,
                        [course |-> e.course, attendance |-> m.label, date |-> e.date,
                         teacher |-> TeacherOf(e.members)])
    <3>1. m \in Member
      BY <2>1
    <3>2. CASE m.role = "teacher"
      <4>1. TeacherCall(m.uid) \in U
        BY <3>1, <3>2 DEF Member, SyncCalls
      <4>2. MemberCalls(e, m) = <<TeacherCall(m.uid)>>
        BY <3>2 DEF MemberCalls
      <4> HIDE DEF U, m
      <4> QED BY <4>1, <4>2, <3>2 DEF m
    <3>3. CASE m.role = "other"
      BY <3>3, EmptySeq DEF MemberCalls
    <3>4. CASE m.role = "student"
      <4>1. StudentCall(m.uid) \in U
        BY <3>1, <3>4 DEF Member, SyncCalls, People
      <4>2. row \in U
        BY <3>4, <1>1 DEF Said
      <4>3. MemberCalls(e, m) = <<StudentCall(m.uid), row>>
        BY <3>4 DEF MemberCalls
      <4> HIDE DEF U, m, row
      <4>4. /\ <<StudentCall(m.uid), row>> \in Seq(U)
            /\ 2 \in DOMAIN <<StudentCall(m.uid), row>>
            /\ <<StudentCall(m.uid), row>>[2] = row
        BY <4>1, <4>2
      <4>5. MemberCalls(e, m) \in Seq(U) /\ \E k \in DOMAIN MemberCalls(e, m) : MemberCalls(e, m)[k] = row
        BY <4>3, <4>4
      <4> QED BY <4>5 DEF m, row
    <3> QED BY <3>1, <3>2, <3>3, <3>4 DEF Member
  <2>6. parts \in Seq(Seq(U))
    <3> HIDE DEF U
    <3>1. parts \in [1..Len(e.members) -> Seq(U)]
      BY <2>1, <2>5
    <3> QED BY <3>1, <2>1, SeqDef
  <2>7. /\ FlattenSeq(parts) \in Seq(U)
        /\ ToSet(FlattenSeq(parts)) = UNION { ToSet(parts[i]) : i \in DOMAIN parts }
    BY <2>6, FlattenElements
  <2>8. EventCalls(e) = (first \o second) \o FlattenSeq(parts)
    BY <1>1 DEF EventCalls, AttendanceCalls
  <2>9. Said(e) \subseteq ToSet(FlattenSeq(parts))
    <3> SUFFICES ASSUME NEW c \in Said(e) PROVE c \in ToSet(FlattenSeq(parts))
      OBVIOUS
    <3>1. PICK i \in DOMAIN e.members :
            /\ e.members[i].role = "student"
            /\ c = RecordCall(key, e.members[i].uid,
                      [course |-> e.course, attendance |-> e.members[i].label,
                       date |-> e.date, teacher |-> TeacherOf(e.members)])
      BY <1>1 DEF Said
    <3>2. \E k \in DOMAIN MemberCalls(e, e.members[i]) : MemberCalls(e, e.members[i])[k] = c
      BY <2>5, <3>1
    <3>3. c \in ToSet(parts[i]) /\ i \in DOMAIN parts
      BY <3>2 DEF ToSet
    <3> HIDE DEF parts
    <3> QED BY <3>3, <2>7
  <2>10. first \o second \in Seq(U)
    <3> HIDE DEF U, first, second
    <3> QED BY <2>3, <2>4, ConcatProperties
  <2> HIDE DEF U, first, second, parts
  <2>11. /\ EventCalls(e) \in Seq(U)
         /\ ToSet(EventCalls(e)) = ToSet(first \o second) \union ToSet(FlattenSeq(parts))
    <3>1. FlattenSeq(parts) \in Seq(U)
      BY <2>7
    <3> DEFINE start == first \o second
               rest == FlattenSeq(parts)
    <3>2. start \in Seq(U) /\ rest \in Seq(U) /\ EventCalls(e) = start \o rest
      BY <2>10, <3>1, <2>8
    <3> HIDE DEF start, rest
    <3>3. /\ start \o rest \in Seq(U)
          /\ ToSet(start \o rest) = ToSet(start) \union ToSet(rest)
      BY <3>2, ConcatProperties, ConcatElements
    <3> QED BY <3>2, <3>3 DEF start, rest
  <2> QED BY <2>11, <2>9 DEF U
<1>2. ASSUME NEW e \in Events, e.kind = "End"
      PROVE  /\ EventCalls(e) \in Seq(SyncCalls \union Said(e))
             /\ Said(e) \subseteq ToSet(EventCalls(e))
  <2>1. EventCalls(e) = SetToSeq(Said(e))
    BY <1>2 DEF EventCalls, EndCalls, Said
  <2>2. IsFiniteSet(Said(e))
    <3> DEFINE Call(u) == RecordCall(LessonKey(e.class, Nil), u,
                            [course |-> e.course, hands |-> "raised"])
               g == [u \in e.uids |-> Call(u)]
    <3>1. IsFiniteSet(e.uids) /\ Said(e) = { Call(u) : u \in e.uids }
      BY <1>2, EventFacts DEF Said
    <3>2. g \in Surjection(e.uids, Said(e))
      <4> HIDE DEF Call
      <4> QED BY <3>1 DEF Surjection
    <3> QED BY <3>1, <3>2, FS_Surjection
  <2>3. SetToSeq(Said(e)) \in Seq(Said(e)) /\ ToSet(SetToSeq(Said(e))) = Said(e)
    BY <2>2, SetToSeqElements
  <2>4. SetToSeq(Said(e)) \in Seq(SyncCalls \union Said(e))
    BY <2>3, SeqMonotonic
  <2> QED BY <2>1, <2>3, <2>4
<1>3. ASSUME NEW e \in Events, e.kind \in {"HomeworkSubmit", "HomeworkScore"}
      PROVE  /\ EventCalls(e) \in Seq(SyncCalls \union Said(e))
             /\ Said(e) \subseteq ToSet(EventCalls(e))
  <2> DEFINE U == SyncCalls \union Said(e)
             row == RecordCall(LessonKey(e.class, e.activity), e.uid,
                      IF e.kind = "HomeworkSubmit"
                      THEN [course |-> e.course, submitted |-> 1, activity |-> e.activity]
                      ELSE [course |-> e.course, score |-> e.score])
  <2>1. EventCalls(e) = IF e.kind = "HomeworkSubmit" THEN SubmitCalls(e) ELSE ScoreCalls(e)
    BY <1>3 DEF EventCalls
  <2>2. CASE e.uid = Nil
    <3>1. EventCalls(e) = <<>> /\ Said(e) = {}
      BY <1>3, <2>1, <2>2 DEF SubmitCalls, ScoreCalls, Said
    <3> QED BY <3>1, EmptySeq
  <2>3. CASE e.uid # Nil
    <3>1. Said(e) = {row} /\ row \in U
      BY <1>3, <2>3 DEF Said
    <3>2. StudentCall(e.uid) \in U
      BY <1>3, <2>3, EventFacts DEF SyncCalls, People
    <3>3. EventCalls(e) = IF e.kind = "HomeworkSubmit" THEN <<StudentCall(e.uid), row>>
                          ELSE <<row>>
      BY <1>3, <2>1, <2>3 DEF SubmitCalls, ScoreCalls
    <3> HIDE DEF U, row
    <3>4. <<StudentCall(e.uid), row>> \in Seq(U) /\ <<row>> \in Seq(U)
      BY <3>1, <3>2
    <3>5. row \in ToSet(<<StudentCall(e.uid), row>>) /\ row \in ToSet(<<row>>)
      <4>1. DOMAIN <<StudentCall(e.uid), row>> = 1..2 /\ DOMAIN <<row>> = 1..1
        OBVIOUS
      <4>2. <<StudentCall(e.uid), row>>[2] = row /\ <<row>>[1] = row
        OBVIOUS
      <4> QED BY <4>1, <4>2 DEF ToSet
    <3> QED BY <3>1, <3>3, <3>4, <3>5 DEF U
  <2> QED BY <2>2, <2>3
<1>4. ASSUME NEW c \in Console
      PROVE  ConsoleCalls(c) \in Seq(SyncCalls)
  <2>1. c \in [class : Classes, course : Courses \union {Nil},
              teacher : Teachers \union {Nil}, homework : Activities \union {Nil}]
    BY EventAssumption
  <2> DEFINE kept == LessonCall(c.class, c.course, c.teacher, Nil)
             told == LessonCall(c.class, Nil, Nil, c.homework)
  <2>2. kept \in SyncCalls /\ told \in SyncCalls
    <3>1. c.class \in Keys
      BY <2>1 DEF Keys
    <3> QED BY <2>1, <3>1, LessonCallType
  <2>3. ConsoleCalls(c) = <<kept>> \o IF c.homework = Nil THEN <<>> ELSE <<told>>
    BY DEF ConsoleCalls
  <2> HIDE DEF kept, told
  <2> QED BY <2>2, <2>3
<1>5. CASE j \in Events
  <2>1. /\ JobCalls(j) \in Seq(SyncCalls \union Said(j))
        /\ Said(j) \subseteq ToSet(JobCalls(j))
    BY <1>5, <1>1, <1>2, <1>3, EventFacts DEF JobCalls
  <2>2. ToSet(JobCalls(j)) \subseteq SyncCalls \union Said(j)
    BY <2>1, ElementOfSeq, LenProperties DEF ToSet
  <2> QED BY <1>5, <2>1, <2>2, SeqOfElements
<1>6. CASE j \notin Events
  <2>1. JobCalls(j) \in Seq(SyncCalls)
    BY <1>6, <1>4 DEF JobCalls, Jobs
  <2>2. ToSet(JobCalls(j)) \subseteq SyncCalls
    BY <2>1, ElementOfSeq, LenProperties DEF ToSet
  <2> QED BY <1>6, <2>1, <2>2, SeqOfElements
<1> QED BY <1>5, <1>6

(* The head of a sequence and its tail have all its elements.              *)
LEMMA HeadTailElements ==
  ASSUME NEW S, NEW s \in Seq(S), s # <<>>
  PROVE  /\ Head(s) \in ToSet(s)
         /\ Tail(s) \in Seq(S)
         /\ \A x \in ToSet(s) : x = Head(s) \/ x \in ToSet(Tail(s))
<1> DEFINE n == Len(s)
           t == Tail(s)
<1>1. n \in Nat \ {0} /\ DOMAIN s = 1..n /\ Head(s) = s[1]
  BY EmptySeq, LenProperties
<1>2. /\ t \in Seq(S) /\ Len(t) = n - 1
      /\ \A i \in 1..(n - 1) : t[i] = s[i + 1]
  BY HeadTailProperties
<1>3. DOMAIN t = 1..(n - 1)
  BY <1>2, LenProperties
<1> HIDE DEF t, n
<1>4. ASSUME NEW i \in 1..n, i # 1 PROVE s[i] \in ToSet(t)
  <2>1. i - 1 \in 1..(n - 1) /\ s[i] = t[i - 1]
    BY <1>1, <1>2, <1>4
  <2> QED BY <2>1, <1>3 DEF ToSet
<1>5. \A x \in ToSet(s) : x = Head(s) \/ x \in ToSet(t)
  BY <1>1, <1>4 DEF ToSet
<1>6. Head(s) \in ToSet(s)
  BY <1>1 DEF ToSet
<1> QED BY <1>2, <1>5, <1>6 DEF t

-----------------------------------------------------------------------------
(* What a call does.                                                       *)

(* A call of a sync leaves lesson_records alone, and the homework of a     *)
(* lesson stays known.                                                     *)
LEMMA SyncCallDoes ==
  ASSUME Typed, NEW c \in SyncCalls, Do(c)
  PROVE  /\ records' = records
         /\ students' \subseteq People
         /\ DOMAIN lessons' = Keys
         /\ \A k \in Keys :
               /\ DOMAIN lessons'[k] \subseteq {"course", "teacher", "homework"}
               /\ Col(lessons[k], "homework") # Nil => Col(lessons'[k], "homework") # Nil
<1>1. /\ students \subseteq People /\ DOMAIN lessons = Keys
      /\ \A k \in Keys : DOMAIN lessons[k] \subseteq {"course", "teacher", "homework"}
  BY DEF Typed, TypeOK
<1>2. c.op \in {"upsert_course", "upsert_lesson", "upsert_teacher", "ensure_student"}
  BY DEF SyncCalls, StudentCall, TeacherCall
<1>3. CASE c.op = "upsert_course"
  BY <1>1, <1>3 DEF Do, UpsertCourse, UpsertLesson, UpsertTeacher, EnsureStudent, UpsertLessonRecord
<1>4. CASE c.op = "upsert_teacher"
  BY <1>1, <1>4 DEF Do, UpsertCourse, UpsertLesson, UpsertTeacher, EnsureStudent, UpsertLessonRecord
<1>5. CASE c.op = "ensure_student"
  <2>1. c.key \in People
    BY <1>5 DEF SyncCalls, StudentCall, TeacherCall
  <2> QED BY <1>1, <1>5, <2>1 DEF Do, UpsertCourse, UpsertLesson, UpsertTeacher, EnsureStudent, UpsertLessonRecord
<1>6. CASE c.op = "upsert_lesson"
  <2>1. /\ lessons' = [lessons EXCEPT ![c.key] = Coalesce(@, c.set)]
        /\ UNCHANGED <<courses, teachers, students, records>>
    BY <1>6 DEF Do, UpsertCourse, UpsertLesson, UpsertTeacher, EnsureStudent, UpsertLessonRecord
  <2>2. c.key \in Keys /\ DOMAIN c.set \subseteq {"course", "teacher", "homework"}
    BY <1>6 DEF SyncCalls, StudentCall, TeacherCall
  <2> DEFINE new == Coalesce(lessons[c.key], c.set)
  <2>3. /\ DOMAIN lessons' = Keys
        /\ lessons'[c.key] = new
        /\ \A k \in Keys \ {c.key} : lessons'[k] = lessons[k]
    <3> HIDE DEF new
    <3>1. lessons' = [lessons EXCEPT ![c.key] = new]
      BY <2>1 DEF new
    <3> QED BY <1>1, <2>2, <3>1
  <2>4. DOMAIN new \subseteq {"course", "teacher", "homework"}
    BY <1>1, <2>2 DEF Coalesce
  <2>5. Col(lessons[c.key], "homework") # Nil => Col(new, "homework") # Nil
    BY ColCoalesce
  <2> HIDE DEF new
  <2> QED BY <1>1, <2>1, <2>2, <2>3, <2>4, <2>5
<1> QED BY <1>2, <1>3, <1>4, <1>5, <1>6

(* A call of an event's row writes its columns of that row.                *)
LEMMA RecordCallDoes ==
  ASSUME Typed, NEW e \in Events, NEW c \in Said(e), Do(c)
  PROVE  /\ UNCHANGED <<courses, lessons, teachers, students>>
         /\ c.key \in Keys \X People
         /\ DOMAIN records' = Keys \X People
         /\ \A r \in Keys \X People : \A col :
               Col(records'[r], col) =
                  IF r = c.key /\ col \in DOMAIN c.set THEN c.set[col] ELSE Col(records[r], col)
         /\ \A r \in Keys \X People : r # c.key => records'[r] = records[r]
<1>1. c.op = "upsert_lesson_record" /\ c.key \in Keys \X People
  <2>1. c.op = "upsert_lesson_record" /\ \E u \in People : c.key = <<KeyOf(e), u>>
    BY SaidFacts
  <2>2. KeyOf(e) \in Keys
    BY EventFacts
  <2> QED BY <2>1, <2>2
<1>2. /\ records' = [records EXCEPT ![c.key] = Overwrite(@, c.set)]
      /\ UNCHANGED <<courses, lessons, teachers, students>>
  BY <1>1 DEF Do, UpsertCourse, UpsertLesson, UpsertTeacher, EnsureStudent, UpsertLessonRecord
<1> DEFINE new == Overwrite(records[c.key], c.set)
<1>3. records' = [records EXCEPT ![c.key] = new]
  BY <1>2
<1>4. \A col : Col(new, col) = IF col \in DOMAIN c.set THEN c.set[col] ELSE Col(records[c.key], col)
  BY ColOverwrite
<1> HIDE DEF new
<1>5. DOMAIN records = Keys \X People
  BY DEF Typed
<1>6. /\ DOMAIN records' = Keys \X People
      /\ records'[c.key] = new
      /\ \A r \in Keys \X People : r # c.key => records'[r] = records[r]
  BY <1>1, <1>3, <1>5
<1> QED BY <1>1, <1>2, <1>4, <1>6

-----------------------------------------------------------------------------
(* The invariant, step by step.                                            *)

(* It holds of the empty store.                                            *)
LEMMA InitIInv == Init => IInv
<1> SUFFICES ASSUME Init PROVE IInv
  OBVIOUS
<1>1. Nil \notin Jobs /\ MaxCrashes \in Nat
  BY EventAssumption DEF Jobs
<1>2. \A r \in Keys \X People : \A col : Col(records[r], col) = Nil
  BY DEF Init, NoRow, Col
<1>3. \A k \in Keys : lessons[k] = NoRow
  BY DEF Init
<1>4. DOMAIN NoRow = {}
  BY DEF NoRow
<1>5. TypeOK
  <2>1. \A k \in Keys : DOMAIN lessons[k] \subseteq {"course", "teacher", "homework"}
    BY <1>3, <1>4
  <2>2. last \in [Kinds \X Keys \X People -> Events \union {Nil}]
    BY DEF Init
  <2> QED BY <2>1, <2>2, <1>1, <1>2 DEF Init, TypeOK
<1>6. Typed
  <2>1. pool \in Seq(SyncCalls)
    BY EmptySeq DEF Init
  <2> QED BY <2>1, <1>5 DEF Init, Typed
<1>7. LoopIsOfJob
  BY DEF Init, LoopIsOfJob
<1>8. CourseKept
  BY <1>4 DEF CourseKept, Exists, Init
<1>9. SaidStands
  BY EventAssumption DEF Init, SaidStands
<1> QED BY <1>6, <1>7, <1>8, <1>9 DEF IInv

(* What an event told is held by the rows alone.                           *)
LEMMA HeldByRows ==
  ASSUME records' = records, NEW e, NEW u
  PROVE  Held(e, u)' <=> Held(e, u)
BY DEF Held

(* A call of a sync, of a console lesson or of an event's master data.     *)
LEMMA SyncCallKeeps ==
  ASSUME Typed, CourseKept, NEW c \in SyncCalls, Do(c), UNCHANGED <<done, begun, last, crashes>>
  PROVE  /\ TypeOK'
         /\ DOMAIN records' = Keys \X People
         /\ DOMAIN lessons' = Keys
         /\ CourseKept'
         /\ records' = records
<1>1. /\ records' = records
      /\ students' \subseteq People
      /\ DOMAIN lessons' = Keys
      /\ \A k \in Keys : DOMAIN lessons'[k] \subseteq {"course", "teacher", "homework"}
  BY SyncCallDoes
<1>2. TypeOK'
  BY <1>1 DEF Typed, TypeOK
<1> QED BY <1>1, <1>2 DEF Typed, CourseKept

(* A call of a row that an event that was begun tells of: the row holds    *)
(* what the event told, and what events of other kinds and rows told.      *)
LEMMA RecordCallKeeps ==
  ASSUME Typed, CourseKept, NEW e \in Events \intersect begun, NEW c \in Said(e), Do(c),
         UNCHANGED <<done, begun, last, crashes>>
  PROVE  /\ TypeOK'
         /\ DOMAIN records' = Keys \X People
         /\ DOMAIN lessons' = Keys
         /\ CourseKept'
         /\ \A u \in People : c.key = <<KeyOf(e), u>> => Held(e, u)' /\ Tells(e, u) # {}
         /\ \A f \in Events, u \in People :
               Held(f, u) => Held(f, u)' \/ (Alike(e, f) /\ c.key = <<KeyOf(e), u>>)
<1>1. /\ UNCHANGED <<courses, lessons, teachers, students>>
      /\ c.key \in Keys \X People
      /\ DOMAIN records' = Keys \X People
      /\ \A r \in Keys \X People : \A col :
            Col(records'[r], col) =
               IF r = c.key /\ col \in DOMAIN c.set THEN c.set[col] ELSE Col(records[r], col)
      /\ \A r \in Keys \X People : r # c.key => records'[r] = records[r]
  BY RecordCallDoes
<1>2. "course" \in DOMAIN c.set /\ c.set["course"] = e.course
  BY SaidFacts
<1>3. PICK u0 \in People : \E said \in Tells(e, u0) :
         /\ c.key = <<KeyOf(e), u0>>
         /\ DOMAIN c.set = DOMAIN said \union {"course"}
         /\ \A col \in DOMAIN said : c.set[col] = said[col]
  BY SaidFacts
<1>4. PICK said \in Tells(e, u0) :
         /\ c.key = <<KeyOf(e), u0>>
         /\ DOMAIN c.set = DOMAIN said \union {"course"}
         /\ \A col \in DOMAIN said : c.set[col] = said[col]
  BY <1>3
<1>5. DOMAIN said = Columns(e.kind)
  BY TellsFacts
<1>6. e.course \in Courses \union {Nil} /\ KeyOf(e) \in Keys
  BY EventFacts
<1>7. TypeOK'
  <2>1. /\ "attendance" \in DOMAIN c.set => c.set["attendance"] \in Labels
        /\ "teacher" \in DOMAIN c.set => c.set["teacher"] \in Teachers \union {Nil}
        /\ "date" \in DOMAIN c.set => c.set["date"] \in Dates \union {Nil}
        /\ "submitted" \in DOMAIN c.set => c.set["submitted"] = 1
    BY SaidValues
  <2>2. \A r \in Keys \X People :
          /\ Col(records'[r], "attendance") \in Labels \union {Nil}
          /\ Col(records'[r], "submitted") \in {1, Nil}
          /\ Col(records'[r], "course") \in Courses \union {Nil}
          /\ Col(records'[r], "teacher") \in Teachers \union {Nil}
          /\ Col(records'[r], "date") \in Dates \union {Nil}
    BY <1>1, <1>2, <1>6, <2>1 DEF Typed, TypeOK
  <2> QED BY <1>1, <2>2 DEF Typed, TypeOK
<1>8. CourseKept'
  <2> SUFFICES ASSUME NEW k \in Keys, NEW u \in People, Exists(records'[<<k, u>>]),
                      Col(records'[<<k, u>>], "course") = Nil
               PROVE  \E f \in begun \intersect Events : KeyOf(f) = k /\ f.course = Nil
    BY DEF CourseKept
  <2>1. CASE <<k, u>> = c.key
    <3>1. e.course = Nil
      BY <2>1, <1>1, <1>2
    <3>2. KeyOf(e) = k
      BY <2>1, <1>4
    <3> QED BY <3>1, <3>2
  <2>2. CASE <<k, u>> # c.key
    <3>1. records'[<<k, u>>] = records[<<k, u>>]
      BY <2>2, <1>1
    <3> QED BY <3>1 DEF CourseKept
  <2> QED BY <2>1, <2>2
<1>9. ASSUME NEW u \in People, c.key = <<KeyOf(e), u>>
      PROVE  Held(e, u)' /\ Tells(e, u) # {}
  <2>1. u = u0
    BY <1>4, <1>9
  <2>2. \A col \in DOMAIN said : Col(records'[c.key], col) = said[col]
    BY <1>1, <1>4
  <2>3. Holds(records'[<<KeyOf(e), u>>], said)
    BY <1>9, <2>2 DEF Holds
  <2> QED BY <2>1, <2>3 DEF Held
<1>10. ASSUME NEW f \in Events, NEW u \in People, Held(f, u),
              ~ (Alike(e, f) /\ c.key = <<KeyOf(e), u>>)
       PROVE  Held(f, u)'
  <2>1. PICK told \in Tells(f, u) : Holds(records[<<KeyOf(f), u>>], told)
    BY <1>10 DEF Held
  <2>2. DOMAIN told = Columns(f.kind) /\ <<KeyOf(f), u>> \in Keys \X People
    BY TellsFacts, EventFacts
  <2>3. ASSUME NEW col \in DOMAIN told
        PROVE  Col(records'[<<KeyOf(f), u>>], col) = Col(records[<<KeyOf(f), u>>], col)
    <3>1. CASE <<KeyOf(f), u>> # c.key
      BY <1>1, <2>2, <3>1
    <3>2. CASE <<KeyOf(f), u>> = c.key
      <4>1. KeyOf(f) = KeyOf(e) /\ u = u0
        BY <1>4, <3>2
      <4>2. f.kind # e.kind
        BY <1>10, <1>4, <4>1 DEF Alike
      <4>3. col \notin DOMAIN c.set
        BY <1>4, <1>5, <2>2, <4>2, OwnColumns
      <4> QED BY <1>1, <2>2, <4>3
    <3> QED BY <3>1, <3>2
  <2>4. Holds(records'[<<KeyOf(f), u>>], told)
    BY <2>1, <2>3 DEF Holds
  <2> QED BY <2>4 DEF Held
<1>11. DOMAIN records' = Keys \X People /\ DOMAIN lessons' = Keys
  BY <1>1 DEF Typed
<1> QED BY <1>7, <1>8, <1>9, <1>10, <1>11

(* What Begin makes of the history.                                        *)
LEMMA BeginLast ==
  ASSUME NEW j \in Jobs, Begin(j), NEW e \in Events, NEW u \in People
  PROVE  LastOf(e, u)' = IF j \in Events /\ Alike(e, j) /\ Tells(j, u) # {}
                         THEN j ELSE LastOf(e, u)
<1>1. e.kind \in Kinds /\ KeyOf(e) \in Keys
  BY EventFacts DEF Kinds
<1> DEFINE r == <<e.kind, KeyOf(e), u>>
<1>2. r \in Kinds \X Keys \X People /\ r[1] = e.kind /\ r[2] = KeyOf(e) /\ r[3] = u
  BY <1>1
<1>3. last'[r] = IF j \in Events /\ r[1] = j.kind /\ r[2] = KeyOf(j) /\ Tells(j, r[3]) # {}
                 THEN j ELSE last[r]
  <2> HIDE DEF r
  <2> QED BY <1>2 DEF Begin
<1> QED BY <1>2, <1>3 DEF LastOf, Alike

(* Every step keeps the invariant.                                         *)
LEMMA NextIInv == IInv /\ [Next]_vars => IInv'
<1> SUFFICES ASSUME IInv, [Next]_vars PROVE IInv'
  OBVIOUS
<1>1. Typed /\ LoopIsOfJob /\ CourseKept /\ SaidStands
  BY DEF IInv
<1>2. /\ Nil \notin Jobs /\ Nil \notin Events /\ MaxCrashes \in Nat /\ Synced \in Seq(SyncCalls)
      /\ job \in Jobs \union {Nil} /\ pool \in Seq(SyncCalls)
      /\ done \subseteq begun /\ begun \subseteq Jobs /\ Events \subseteq Jobs
  BY <1>1, EventAssumption, SyncAssumption DEF Jobs, Typed, TypeOK
<1>3. /\ \A e \in begun \intersect Events, u \in People : Tells(e, u) # {} => LastKnown(e, u)
      /\ \A e \in done \intersect Events, u \in People :
            Tells(e, u) # {} => OneHeld(e, u) /\ LastHeld(e, u)
      /\ job \in Events => \A u \in People : Tells(job, u) # {} => Running(u)
  BY <1>1 DEF SaidStands
<1>4. ASSUME NEW j \in Jobs, Begin(j) PROVE IInv'
  <2>1. /\ job = Nil /\ job' = j /\ begun' = begun \union {j} /\ loop' = JobCalls(j)
        /\ j \notin begun
        /\ UNCHANGED <<store, pool, done, crashes>>
    BY <1>4 DEF Begin, JobCalls
  <2>2. /\ JobCalls(j) \in Seq(ToSet(JobCalls(j)))
        /\ j \in Events => Said(j) \subseteq ToSet(JobCalls(j))
    BY JobCallsAre
  <2>3. Typed'
    <3>1. last' \in [Kinds \X Keys \X People -> Events \union {Nil}]
      <4>1. last' = [r \in Kinds \X Keys \X People |->
                       IF j \in Events /\ r[1] = j.kind /\ r[2] = KeyOf(j) /\ Tells(j, r[3]) # {}
                       THEN j ELSE last[r]]
        BY <1>4 DEF Begin
      <4>2. last \in [Kinds \X Keys \X People -> Events \union {Nil}]
        BY <1>1 DEF Typed, TypeOK
      <4> QED BY <4>1, <4>2
    <3> QED BY <1>1, <1>2, <2>1, <3>1 DEF Typed, TypeOK, store
  <2>4. LoopIsOfJob'
    <3>1. job' # Nil => job' \in begun' \ done' /\ loop' \in Seq(ToSet(JobCalls(job')))
      BY <1>2, <2>1, <2>2
    <3>2. job' # Nil
      BY <1>2, <2>1
    <3> QED BY <3>1, <3>2 DEF LoopIsOfJob
  <2>5. CourseKept'
    BY <1>1, <2>1 DEF CourseKept, store
  <2>6. SaidStands'
    <3>1. \A e, u : Held(e, u)' <=> Held(e, u)
      BY <2>1, HeldByRows DEF store
    <3>2. ASSUME NEW e \in begun' \intersect Events, NEW u \in People, Tells(e, u) # {}
          PROVE  LastKnown(e, u)'
      <4>1. CASE j \in Events /\ Alike(e, j) /\ Tells(j, u) # {}
        <5>1. LastOf(e, u)' = j
          BY <1>4, <4>1, BeginLast
        <5> QED BY <2>1, <4>1, <5>1 DEF LastKnown
      <4>2. CASE ~ (j \in Events /\ Alike(e, j) /\ Tells(j, u) # {})
        <5>1. LastOf(e, u)' = LastOf(e, u)
          BY <1>4, <4>2, BeginLast
        <5>2. e \in begun
          BY <2>1, <3>2, <4>2 DEF Alike
        <5> QED BY <1>3, <2>1, <3>2, <5>1, <5>2 DEF LastKnown
      <4> QED BY <4>1, <4>2
    <3>3. ASSUME NEW e \in done' \intersect Events, NEW u \in People, Tells(e, u) # {}
          PROVE  OneHeld(e, u)' /\ LastHeld(e, u)'
      <4>1. e \in done /\ e # j /\ OneHeld(e, u) /\ LastHeld(e, u)
        BY <1>2, <1>3, <2>1, <3>3
      <4>2. OneHeld(e, u)'
        BY <2>1, <3>1, <4>1 DEF OneHeld
      <4>3. LastOf(e, u)' = e => LastOf(e, u) = e
        BY <1>4, <4>1, BeginLast
      <4> QED BY <3>1, <4>1, <4>2, <4>3 DEF LastHeld
    <3>4. ASSUME job' \in Events, NEW u \in People, Tells(job', u) # {}
          PROVE  Running(u)'
      <4>1. j \in Events /\ Tells(j, u) # {} /\ job' = j
        BY <2>1, <3>4
      <4>2. LastOf(j, u)' = j
        BY <1>4, <4>1, BeginLast DEF Alike
      <4>3. PICK c \in Said(j) : c.key = <<KeyOf(j), u>>
        BY <4>1, TellsSaid
      <4>4. c \in ToSet(loop')
        BY <2>1, <2>2, <4>1, <4>3
      <4>5. Pending(u)'
        BY <4>1, <4>3, <4>4 DEF Pending
      <4> QED BY <4>1, <4>2, <4>5 DEF Running, LastOf
    <3> QED BY <3>2, <3>3, <3>4 DEF SaidStands
  <2> QED BY <2>3, <2>4, <2>5, <2>6 DEF IInv
<1>5. CASE LoopCall
  <2>0. PICK c : c = Head(loop)
    OBVIOUS
  <2>01. PICK j : j = job
    OBVIOUS
  <2>1. /\ loop # <<>> /\ Do(c) /\ loop' = Tail(loop)
        /\ UNCHANGED <<job, pool, done, begun, last, crashes>>
    BY <1>5, <2>0 DEF LoopCall
  <2>2. job # Nil /\ job \in begun \ done /\ job \in Jobs /\ loop \in Seq(ToSet(JobCalls(job)))
    BY <1>1, <1>2, <2>1 DEF LoopIsOfJob
  <2>3. /\ c \in ToSet(loop) /\ Tail(loop) \in Seq(ToSet(JobCalls(job)))
        /\ \A x \in ToSet(loop) : x = c \/ x \in ToSet(Tail(loop))
    BY <2>0, <2>1, <2>2, HeadTailElements
  <2>4. c \in ToSet(JobCalls(job))
    BY <2>0, <2>1, <2>2, HeadTailProperties
  <2>5. c \in SyncCalls \/ (job \in Events /\ c \in Said(job))
    BY <2>2, <2>4, JobCallsAre
  <2>6. /\ TypeOK' /\ DOMAIN records' = Keys \X People /\ DOMAIN lessons' = Keys /\ CourseKept'
        /\ j \in Events /\ c \in Said(j) =>
              \A u \in People : c.key = <<KeyOf(j), u>> => Held(j, u)' /\ Tells(j, u) # {}
        /\ \A f \in Events, u \in People :
              Held(f, u) => \/ Held(f, u)'
                            \/ j \in Events /\ c \in Said(j) /\ Alike(j, f)
                               /\ c.key = <<KeyOf(j), u>>
    <3>1. CASE ~ (j \in Events /\ c \in Said(j))
      BY <1>1, <2>01, <2>1, <2>5, <3>1, SyncCallKeeps, HeldByRows
    <3>2. CASE j \in Events /\ c \in Said(j)
      BY <1>1, <2>01, <2>1, <2>2, <3>2, RecordCallKeeps
    <3> QED BY <3>1, <3>2
  <2>7. Typed'
    BY <1>2, <2>1, <2>6 DEF Typed
  <2>8. LoopIsOfJob'
    BY <2>1, <2>2, <2>3 DEF LoopIsOfJob
  <2>9. SaidStands'
    <3>0. \A e, u : LastOf(e, u)' = LastOf(e, u)
      BY <2>1 DEF LastOf
    <3>1. ASSUME NEW e \in begun' \intersect Events, NEW u \in People, Tells(e, u) # {}
          PROVE  LastKnown(e, u)'
      BY <1>3, <2>1, <3>0, <3>1 DEF LastKnown
    <3>2. ASSUME NEW e \in done' \intersect Events, NEW u \in People, Tells(e, u) # {}
          PROVE  OneHeld(e, u)' /\ LastHeld(e, u)'
      <4>1. e \in done /\ e \in Events /\ OneHeld(e, u) /\ LastHeld(e, u)
        BY <1>3, <2>1, <3>2
      <4>2. PICK f \in begun \intersect Events : Alike(e, f) /\ Held(f, u)
        BY <4>1 DEF OneHeld
      <4>3. OneHeld(e, u)'
        <5>1. CASE Held(f, u)'
          BY <2>1, <4>2, <5>1 DEF OneHeld
        <5>2. CASE ~ Held(f, u)'
          <6>1. j \in Events /\ Alike(j, f) /\ Held(j, u)'
            BY <2>6, <4>2, <5>2
          <6>2. Alike(e, j) /\ j \in begun'
            BY <2>01, <2>1, <2>2, <4>2, <6>1 DEF Alike
          <6> QED BY <6>1, <6>2 DEF OneHeld
        <5> QED BY <5>1, <5>2
      <4>4. ASSUME LastOf(e, u) = e PROVE Held(e, u)'
        <5> SUFFICES ASSUME ~ Held(e, u)' PROVE FALSE
          OBVIOUS
        <5>1. Held(e, u)
          BY <4>1, <4>4 DEF LastHeld
        <5>2. j \in Events /\ Alike(j, e) /\ Tells(j, u) # {}
          BY <2>6, <4>1, <5>1
        <5>3. LastOf(j, u) = j
          BY <1>3, <2>01, <5>2 DEF Running
        <5>4. LastOf(e, u) = LastOf(j, u)
          BY <5>2 DEF Alike, LastOf
        <5> QED BY <2>01, <2>2, <4>1, <4>4, <5>3, <5>4
      <4> QED BY <3>0, <4>3, <4>4 DEF LastHeld
    <3>3. ASSUME job' \in Events, NEW u \in People, Tells(job', u) # {}
          PROVE  Running(u)'
      <4>1. /\ job' = j /\ j \in Events /\ LastOf(j, u) = j
            /\ Held(j, u) \/ Pending(u)
        BY <1>3, <2>01, <2>1, <3>3 DEF Running
      <4>2. LastOf(j, u)' = j
        BY <3>0, <4>1
      <4>3. Held(j, u)' \/ Pending(u)'
        <5>1. CASE Held(j, u)
          BY <2>6, <4>1, <5>1
        <5>2. CASE Pending(u)
          <6>1. PICK d \in ToSet(loop) : d \in Said(j) /\ d.key = <<KeyOf(j), u>>
            BY <2>01, <5>2 DEF Pending
          <6>2. CASE d = c
            BY <2>6, <4>1, <6>1, <6>2
          <6>3. CASE d # c
            BY <2>1, <2>3, <4>1, <6>1, <6>3 DEF Pending
          <6> QED BY <6>2, <6>3
        <5> QED BY <4>1, <5>1, <5>2
      <4> QED BY <4>1, <4>2, <4>3 DEF Running, LastOf, Held
    <3> QED BY <3>1, <3>2, <3>3 DEF SaidStands
  <2> QED BY <2>6, <2>7, <2>8, <2>9 DEF IInv
<1>6. CASE Finish
  <2>1. /\ job # Nil /\ loop = <<>> /\ job' = Nil /\ done' = done \union {job}
        /\ UNCHANGED <<store, loop, pool, begun, last, crashes>>
    BY <1>6 DEF Finish
  <2>2. Typed'
    <3>1. job \in begun
      BY <1>1, <2>1 DEF LoopIsOfJob
    <3> QED BY <1>1, <1>2, <2>1, <3>1 DEF Typed, TypeOK, store
  <2>3. LoopIsOfJob'
    BY <2>1 DEF LoopIsOfJob
  <2>4. CourseKept'
    BY <1>1, <2>1 DEF CourseKept, store
  <2>5. SaidStands'
    <3>1. \A e, u : /\ Held(e, u)' <=> Held(e, u)
                    /\ LastOf(e, u)' = LastOf(e, u)
      BY <2>1, HeldByRows DEF store, LastOf
    <3>2. ASSUME NEW e \in begun' \intersect Events, NEW u \in People, Tells(e, u) # {}
          PROVE  LastKnown(e, u)'
      BY <1>3, <2>1, <3>1, <3>2 DEF LastKnown
    <3>3. ASSUME NEW e \in done' \intersect Events, NEW u \in People, Tells(e, u) # {}
          PROVE  OneHeld(e, u) /\ LastHeld(e, u)
      <4>1. CASE e \in done
        BY <1>3, <3>3, <4>1
      <4>2. CASE e = job
        <5>1. ~ Pending(u)
          BY <2>1 DEF Pending, ToSet
        <5>2. Held(job, u)
          BY <1>3, <3>3, <4>2, <5>1 DEF Running
        <5>3. job \in begun
          BY <1>1, <2>1 DEF LoopIsOfJob
        <5> QED BY <3>3, <4>2, <5>2, <5>3 DEF OneHeld, LastHeld, Alike
      <4> QED BY <2>1, <3>3, <4>1, <4>2
    <3>4. \A e \in done' \intersect Events, u \in People :
             Tells(e, u) # {} => OneHeld(e, u)' /\ LastHeld(e, u)'
      BY <2>1, <3>1, <3>3 DEF OneHeld, LastHeld
    <3>5. job' \notin Events
      BY <1>2, <2>1
    <3> QED BY <3>2, <3>4, <3>5 DEF SaidStands
  <2> QED BY <2>2, <2>3, <2>4, <2>5 DEF IInv
<1>7. ASSUME UNCHANGED <<begun, done, last, records>>,
             job' = Nil \/ UNCHANGED <<job, loop>>
      PROVE  SaidStands'
  <2>1. \A e, u : /\ Held(e, u)' <=> Held(e, u)
                  /\ LastOf(e, u)' = LastOf(e, u)
    BY <1>7, HeldByRows DEF LastOf
  <2>2. /\ \A e \in begun' \intersect Events, u \in People : Tells(e, u) # {} => LastKnown(e, u)'
        /\ \A e \in done' \intersect Events, u \in People :
              Tells(e, u) # {} => OneHeld(e, u)' /\ LastHeld(e, u)'
    BY <1>3, <1>7, <2>1 DEF LastKnown, OneHeld, LastHeld
  <2>3. ASSUME job' \in Events, NEW u \in People, Tells(job', u) # {}
        PROVE  Running(u)'
    <3>1. PICK j : j = job'
      OBVIOUS
    <3>2. /\ job = j /\ loop' = loop /\ LastOf(j, u) = j
          /\ Held(j, u) \/ Pending(u)
      BY <1>2, <1>3, <1>7, <2>3, <3>1 DEF Running
    <3>3. Held(j, u)' \/ Pending(u)'
      BY <2>1, <3>1, <3>2 DEF Pending
    <3>4. LastOf(j, u)' = j
      BY <2>1, <3>2
    <3> QED BY <3>1, <3>3, <3>4 DEF Running, LastOf, Held
  <2> QED BY <2>2, <2>3 DEF SaidStands
<1>8. CASE BeginSync
  <2>1. pool' = Synced /\ UNCHANGED <<store, loop, job, done, begun, last, crashes>>
    BY <1>8 DEF BeginSync
  <2>2. SaidStands'
    BY <1>7, <2>1 DEF store
  <2> QED BY <1>1, <1>2, <2>1, <2>2 DEF IInv, Typed, TypeOK, LoopIsOfJob, CourseKept, store
<1>9. CASE PoolCall
  <2> DEFINE c == Head(pool)
  <2>1. /\ pool # <<>> /\ Do(c) /\ pool' = Tail(pool)
        /\ UNCHANGED <<loop, job, done, begun, last, crashes>>
    BY <1>9 DEF PoolCall
  <2>2. c \in SyncCalls /\ Tail(pool) \in Seq(SyncCalls)
    BY <1>2, <2>1, HeadTailProperties
  <2> HIDE DEF c
  <2>3. /\ TypeOK' /\ DOMAIN records' = Keys \X People /\ DOMAIN lessons' = Keys /\ CourseKept'
        /\ records' = records
    BY <1>1, <2>1, <2>2, SyncCallKeeps
  <2>4. Typed'
    BY <1>2, <2>1, <2>2, <2>3 DEF Typed
  <2>5. LoopIsOfJob'
    BY <1>1, <2>1 DEF LoopIsOfJob
  <2>6. SaidStands'
    BY <1>7, <2>1, <2>3
  <2> QED BY <2>3, <2>4, <2>5, <2>6 DEF IInv
<1>10. CASE Crash
  <2>1. /\ crashes < MaxCrashes /\ crashes' = crashes + 1
        /\ loop' = <<>> /\ job' = Nil /\ pool' = <<>>
        /\ UNCHANGED <<store, done, begun, last>>
    BY <1>10 DEF Crash
  <2>2. Typed'
    <3>1. crashes' \in 0..MaxCrashes
      BY <1>1, <1>2, <2>1 DEF Typed, TypeOK
    <3>2. pool' \in Seq(SyncCalls)
      BY <2>1, EmptySeq
    <3> QED BY <1>1, <1>2, <2>1, <3>1, <3>2 DEF Typed, TypeOK, store
  <2>3. LoopIsOfJob'
    BY <2>1 DEF LoopIsOfJob
  <2>4. CourseKept'
    BY <1>1, <2>1 DEF CourseKept, store
  <2>5. SaidStands'
    BY <1>7, <2>1 DEF store
  <2> QED BY <2>2, <2>3, <2>4, <2>5 DEF IInv
<1>11. CASE UNCHANGED vars
  <2>1. SaidStands'
    BY <1>7, <1>11 DEF vars, store
  <2> QED BY <1>1, <1>11, <2>1 DEF IInv, Typed, TypeOK, LoopIsOfJob, CourseKept, vars, store
<1> QED BY <1>4, <1>5, <1>6, <1>8, <1>9, <1>10, <1>11 DEF Next

-----------------------------------------------------------------------------
(* The theorems.                                                           *)

(* The invariant holds in every state that can be reached.                 *)
LEMMA Invariance == Spec => []IInv
BY InitIInv, NextIInv, PTL DEF Spec

(* The store keeps its type under every mix of events, console lessons,    *)
(* syncs and crashes.                                                      *)
THEOREM TypeCorrect == Spec => []TypeOK
<1>1. IInv => TypeOK
  BY DEF IInv, Typed
<1> QED BY <1>1, Invariance, PTL

(* A row loses its course only to an event without a CourseID for its      *)
(* lesson: the upserts of lesson_records in _ingest_*.                     *)
THEOREM CourseIsKept == Spec => []CourseKept
<1>1. IInv => CourseKept
  BY DEF IInv
<1> QED BY <1>1, Invariance, PTL

(* What an event told of a student stays, whatever else comes before or    *)
(* after, until another event of its kind tells of the student and class;  *)
(* the row then holds what one of them told, and what the last told unless *)
(* a crash cut it off: each kind of event has columns of its own.          *)
THEOREM NothingIsOverwritten == Spec => []NothingOverwritten
<1>1. IInv => NothingOverwritten
  <2> SUFFICES ASSUME IInv, NEW e \in done \intersect Events, NEW u \in People, Tells(e, u) # {}
               PROVE  \E f \in begun \intersect Events :
                        /\ f.kind = e.kind /\ KeyOf(f) = KeyOf(e)
                        /\ LastOf(e, u) \in done => f = LastOf(e, u)
                        /\ \E said \in Tells(f, u) : Holds(records[<<KeyOf(e), u>>], said)
    BY DEF NothingOverwritten, LastOf
  <2>1. done \subseteq begun
    BY DEF IInv, Typed, TypeOK
  <2>2. LastKnown(e, u) /\ OneHeld(e, u)
    BY <2>1 DEF IInv, SaidStands
  <2>3. CASE LastOf(e, u) \in done
    <3> DEFINE f == LastOf(e, u)
    <3>1. f \in done \intersect Events /\ f \in begun /\ Alike(e, f) /\ Tells(f, u) # {}
      BY <2>1, <2>2, <2>3 DEF LastKnown
    <3>2. LastOf(f, u) = f
      BY <3>1 DEF Alike, LastOf
    <3> HIDE DEF f
    <3>3. Held(f, u)
      BY <3>1, <3>2 DEF IInv, SaidStands, LastHeld
    <3> QED BY <3>1, <3>3 DEF f, Alike, Held
  <2>4. CASE LastOf(e, u) \notin done
    BY <2>2, <2>4 DEF OneHeld, Alike, Held
  <2> QED BY <2>3, <2>4
<1> QED BY <1>1, Invariance, PTL

(* Who is missing homework stays so while activity and homework stay       *)
(* known, but for a submission and a new date.                             *)
LEMMA MissingStays ==
  ASSUME \A r \in Keys \X People :
            Col(records[r], "activity") # Nil => Col(records'[r], "activity") # Nil,
         \A k \in Keys :
            Col(lessons[k], "homework") # Nil => Col(lessons'[k], "homework") # Nil,
         NEW r \in Missing, r \notin Missing'
  PROVE  Col(records'[r], "submitted") = 1 \/ Col(records'[r], "date") \notin Recent
<1>1. r \in Keys \X People /\ r[1] \in Keys /\ r[1] \in HasHomework
  BY DEF Missing
<1>2. r[1] \in HasHomework'
  <2>1. CASE \E u \in People : Col(records[<<r[1], u>>], "activity") # Nil
    <3>1. PICK u \in People : Col(records[<<r[1], u>>], "activity") # Nil
      BY <2>1
    <3>2. Col(records'[<<r[1], u>>], "activity") # Nil
      BY <1>1, <3>1
    <3> QED BY <1>1, <3>2 DEF HasHomework
  <2>2. CASE Col(lessons[r[1]], "homework") # Nil
    BY <1>1, <2>2 DEF HasHomework
  <2> QED BY <1>1, <2>1, <2>2 DEF HasHomework
<1> QED BY <1>1, <1>2 DEF Missing

(* Only the student's own submission, or an Attendance that dates the      *)
(* lesson out of the window, takes a student off the list of missing       *)
(* homework: metrics.missing_homework_rows over what every event, console  *)
(* lesson, sync and crash leaves in the store.                             *)
THEOREM OnlySubmissionsClear == Spec => OnlySubmittingClears
<1> DEFINE Why(r) == /\ job \in Events /\ KeyOf(job) = r[1] /\ Tells(job, r[2]) # {}
                     /\ \/ job.kind = "HomeworkSubmit"
                        \/ job.kind = "Attendance" /\ job.date \notin Recent
           Clears == \A r \in Missing : r \notin Missing' => Why(r)
<1>1. IInv /\ [Next]_vars => [Clears]_vars
  <2> SUFFICES ASSUME IInv, Next PROVE Clears
    OBVIOUS
  <2>1. Typed /\ LoopIsOfJob /\ Nil \notin Activities
    BY EventAssumption DEF IInv
  <2>2. ASSUME records' = records,
               \A k \in Keys :
                  Col(lessons[k], "homework") # Nil => Col(lessons'[k], "homework") # Nil
        PROVE  Clears
    <3> SUFFICES ASSUME NEW r \in Missing, r \notin Missing' PROVE FALSE
      OBVIOUS
    <3>1. Col(records[r], "submitted") # 1 /\ Col(records[r], "date") \in Recent
      BY DEF Missing
    <3> QED BY <2>2, <3>1, MissingStays
  <2>3. ASSUME NEW c \in SyncCalls, Do(c) PROVE Clears
    <3>1. /\ records' = records
          /\ \A k \in Keys :
                Col(lessons[k], "homework") # Nil => Col(lessons'[k], "homework") # Nil
      BY <2>1, <2>3, SyncCallDoes
    <3> HIDE DEF Clears
    <3> QED BY <2>2, <3>1
  <2>4. ASSUME job \in Events, NEW c \in Said(job), Do(c) PROVE Clears
    <3> SUFFICES ASSUME NEW r \in Missing, r \notin Missing' PROVE Why(r)
      OBVIOUS
    <3>1. /\ lessons' = lessons
          /\ \A q \in Keys \X People : \A col :
               Col(records'[q], col) =
                  IF q = c.key /\ col \in DOMAIN c.set THEN c.set[col] ELSE Col(records[q], col)
      BY <2>1, <2>4, RecordCallDoes
    <3>2. /\ "activity" \in DOMAIN c.set => c.set["activity"] \in Activities
          /\ "date" \in DOMAIN c.set => job.kind = "Attendance" /\ c.set["date"] = job.date
          /\ "submitted" \in DOMAIN c.set => job.kind = "HomeworkSubmit"
      BY <2>4, SaidValues
    <3>3. \A q \in Keys \X People :
             Col(records[q], "activity") # Nil => Col(records'[q], "activity") # Nil
      BY <2>1, <3>1, <3>2
    <3>4. /\ r \in Keys \X People
          /\ Col(records[r], "submitted") # 1 /\ Col(records[r], "date") \in Recent
      BY DEF Missing
    <3>5. Col(records'[r], "submitted") = 1 \/ Col(records'[r], "date") \notin Recent
      BY <3>1, <3>3, MissingStays
    <3>6. /\ r = c.key
          /\ "submitted" \in DOMAIN c.set \/ ("date" \in DOMAIN c.set /\ c.set["date"] \notin Recent)
      BY <3>1, <3>4, <3>5
    <3>7. PICK u \in People : Tells(job, u) # {} /\ c.key = <<KeyOf(job), u>>
      BY <2>4, SaidFacts
    <3>8. r[1] = KeyOf(job) /\ r[2] = u
      BY <3>6, <3>7
    <3> QED BY <2>4, <3>2, <3>6, <3>7, <3>8
  <2>5. CASE UNCHANGED store
    <3>1. records' = records /\ lessons' = lessons
      BY <2>5 DEF store
    <3> HIDE DEF Clears
    <3> QED BY <2>2, <3>1
  <2>6. CASE LoopCall
    <3>1. loop # <<>> /\ Do(Head(loop))
      BY <2>6 DEF LoopCall
    <3>2. job # Nil /\ job \in Jobs /\ loop \in Seq(ToSet(JobCalls(job)))
      BY <2>1, <3>1 DEF LoopIsOfJob, Typed
    <3>3. Head(loop) \in ToSet(JobCalls(job))
      BY <3>1, <3>2, HeadTailProperties
    <3>4. Head(loop) \in SyncCalls \/ (job \in Events /\ Head(loop) \in Said(job))
      BY <3>2, <3>3, JobCallsAre
    <3> HIDE DEF Clears
    <3> QED BY <2>3, <2>4, <3>1, <3>4
  <2>7. CASE PoolCall
    <3>1. pool # <<>> /\ Do(Head(pool)) /\ pool \in Seq(SyncCalls)
      BY <2>1, <2>7 DEF PoolCall, Typed
    <3>2. Head(pool) \in SyncCalls
      BY <3>1, HeadTailProperties
    <3> HIDE DEF Clears
    <3> QED BY <2>3, <3>1, <3>2
  <2>8. CASE UNCHANGED store \/ LoopCall \/ PoolCall
    BY <2>5, <2>6, <2>7, <2>8
  <2> HIDE DEF Clears
  <2> QED BY <2>8 DEF Next, Begin, Finish, BeginSync, Crash
<1> QED BY <1>1, Invariance, PTL DEF Spec, OnlySubmittingClears
=============================================================================
