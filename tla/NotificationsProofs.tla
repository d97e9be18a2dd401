-------------------------- MODULE NotificationsProofs --------------------------
(***************************************************************************)
(* Proofs about Notifications and ScopedReads, for any tables, scopes and  *)
(* limits, and any number of pages, writes and batches.                    *)
(***************************************************************************)
EXTENDS Notifications, FiniteSetTheorems, SequenceTheorems, WellFoundedInduction, TLAPS

-----------------------------------------------------------------------------
(* The inductive invariant.                                                *)

Anyone == Teachers \union Branches \union {Nil}
Rows == Seq(RowType) \union [Lessons -> LessonType]

Page ==
    [kind : Kinds \union {Nil}, scope : Scopes \union {Nil}, pc : Steps \union {"closed", "shown"},
     query : 1..3, rows : Rows, courses : CourseTable \union {Nil}, team : SUBSET Anyone,
     taught : SUBSET Courses, uids : SUBSET Anyone, kept : SUBSET Nat, due : SUBSET Lessons,
     shown : SUBSET Nat]

Typed ==
    /\ courses \in CourseTable /\ teachers \in TeacherTable
    /\ lessons \in [Lessons -> LessonType]
    /\ records \in Seq(RowType) /\ events \in Seq(RowType)
    /\ notes \in Seq(NoteType)
    /\ page \in Page
    /\ writes \in 0..(MaxWrites + 1)
    /\ always.rows \subseteq ever.rows
    /\ pages \in 0..MaxPages
    /\ form \in FormType
    /\ sends \in Seq(BatchType) /\ Len(sends) <= MaxSends

(* What a page has read are rows of its table, which only grows.           *)
HasRows(p, r, e) ==
    IF p.kind \in {"events", "counts"} THEN p.rows \in Seq(RowType) /\ Len(p.rows) <= e
    ELSE IF p.query = 3 THEN p.rows \in [Lessons -> LessonType]
    ELSE p.rows \in Seq(RowType) /\ Len(p.rows) <= r

FromTable(p, r, e, n) ==
    /\ p.pc \in Steps => p.kind \in Kinds /\ p.scope \in Scopes
    /\ p.query > 1 => p.kind = "missing"
    /\ p.pc = "notes" => p.kind = "history"
    /\ p.kept \subseteq 1..r
    /\ p.shown \subseteq 1..(r + e + n)
    /\ p.kind = "missing" => p.shown \subseteq 1..r
    /\ p.pc \in Steps \ {"rows"} /\ p.kind # "counts" => HasRows(p, r, e)

EverThere == page.kind = "missing" => ever.rows \subseteq DOMAIN records

PageFits == FromTable(page, Len(records), Len(events), Len(notes)) /\ EverThere

(* The batches but the last are over; a running one has a row for each     *)
(* message before the one it is at.                                        *)
Runs(batch, rows) ==
    /\ batch.pc \in {"send", "record"} => batch.at \in DOMAIN batch.messages /\ rows = batch.at - 1
    /\ batch.pc = "send" => batch.live
    /\ batch.pc = "record" => /\ batch.status # Nil
                              /\ batch.status = "sent" => batch.at \in batch.delivered

BatchesRun ==
    /\ \A b \in 1..(Len(sends) - 1) : sends[b].pc \in {"done", "cut"}
    /\ \A b \in DOMAIN sends : Runs(sends[b], Cardinality(RowsOf(notes, b)))
    /\ \A i \in DOMAIN notes : notes[i].batch <= Len(sends)

IInv == Typed /\ PageFits /\ BatchesRun /\ DispatchAccounts

-----------------------------------------------------------------------------
(* Rows of batches.                                                        *)

(* A set of the numbers up to n is finite.                                 *)
LEMMA Bounded ==
  ASSUME NEW n \in Nat, NEW S \in SUBSET (1..n)
  PROVE  IsFiniteSet(S) /\ Cardinality(S) \in Nat
<1>1. IsFiniteSet(1..n)
  <2>1. n \in Int /\ 1 \in Int
    OBVIOUS
  <2> QED BY <2>1, FS_Interval
<1> QED BY <1>1, FS_Subset, FS_CardinalityType

(* A row that is appended is the last of its batch, and changes neither    *)
(* the rows of other batches nor the turns of other rows.                  *)
LEMMA RowAppended ==
  ASSUME NEW k \in Nat, NEW ns, NEW more, NEW n, DOMAIN ns = 1..k, DOMAIN more = 1..(k + 1),
         \A i \in 1..k : more[i] = ns[i], more[k + 1].batch = n
  PROVE  /\ Cardinality(RowsOf(more, n)) = Cardinality(RowsOf(ns, n)) + 1
         /\ \A i \in 1..k : Turn(more, i) = Turn(ns, i)
         /\ Turn(more, k + 1) = Cardinality(RowsOf(ns, n)) + 1
<1> DEFINE c == Cardinality(RowsOf(ns, n))
<1>1. PICK m \in Nat : m = k + 1
  OBVIOUS
<1>2. \A i : i \in 1..m <=> i \in 1..k \/ i = m
  BY <1>1
<1>3. m \notin 1..k
  BY <1>1
<1>4. ASSUME NEW b PROVE RowsOf(more, b) = RowsOf(ns, b) \union (IF n = b THEN {m} ELSE {})
  <2>1. \A i : i \in RowsOf(more, b) <=> i \in 1..m /\ more[i].batch = b
    BY <1>1 DEF RowsOf
  <2>2. \A i : i \in RowsOf(ns, b) <=> i \in 1..k /\ ns[i].batch = b
    BY <1>1 DEF RowsOf
  <2>3. \A i : i \in RowsOf(more, b) <=> i \in RowsOf(ns, b) \/ (i = m /\ n = b)
    BY <1>1, <1>2, <1>3, <2>1, <2>2
  <2> QED BY <2>3
<1>5. ASSUME NEW b PROVE RowsOf(ns, b) \subseteq 1..k
  BY <1>1 DEF RowsOf
<1>6. IsFiniteSet(RowsOf(ns, n)) /\ c \in Nat
  BY <1>1, <1>5, Bounded
<1>7. RowsOf(more, n) = RowsOf(ns, n) \union {m} /\ m \notin RowsOf(ns, n)
  BY <1>3, <1>4, <1>5
<1>8. Cardinality(RowsOf(more, n)) = c + 1
  BY <1>6, <1>7, FS_AddElement
<1>9. ASSUME NEW i \in 1..k PROVE Turn(more, i) = Turn(ns, i)
  <2>1. more[i] = ns[i]
    BY <1>1
  <2> DEFINE b == ns[i].batch
  <2>2. ~(m <= i)
    BY <1>1
  <2>3. { j \in RowsOf(more, b) : j <= i } = { j \in RowsOf(ns, b) : j <= i }
    <3> HIDE DEF b
    <3> QED BY <1>4, <2>2
  <2> QED BY <2>1, <2>3 DEF Turn
<1>10. Turn(more, m) = c + 1
  <2>1. \A j \in RowsOf(more, n) : j <= m
    BY <1>1, <1>5, <1>7
  <2>2. { j \in RowsOf(more, n) : j <= m } = RowsOf(more, n)
    BY <2>1
  <2> QED BY <1>1, <1>8, <2>2 DEF Turn
<1>11. \A b \in Nat : b # n => RowsOf(more, b) = RowsOf(ns, b)
  BY <1>4
<1> QED BY <1>1, <1>6, <1>7, <1>8, <1>9, <1>10, <1>11

-----------------------------------------------------------------------------
(* Batches.                                                                *)

(* The invariant holds at first.                                           *)
LEMMA InitInv == Init => IInv
<1> SUFFICES ASSUME Init PROVE IInv
  OBVIOUS
<1>1. PICK f \in First :
        /\ courses = f.courses /\ teachers = f.teachers
        /\ lessons = f.lessons /\ records = f.records /\ events = f.events /\ notes = f.notes
        /\ form = f.form /\ sends = f.sends
  BY DEF Init
<1>2. page = NoPage /\ writes = 0 /\ ever = NoFacts /\ always = NoFacts /\ pages = 0
  BY DEF Init
<1>3. /\ f.courses \in CourseTable /\ f.teachers \in TeacherTable
      /\ f.lessons \in [Lessons -> LessonType]
      /\ f.records \in Seq(RowType) /\ f.events \in Seq(RowType)
      /\ f.notes \in Seq(NoteType)
      /\ \A i \in DOMAIN f.notes : f.notes[i].batch <= Len(f.sends)
      /\ f.form \in FormType
      /\ f.sends \in Seq(BatchType) /\ Len(f.sends) <= MaxSends
      /\ \A b \in DOMAIN f.sends : f.sends[b].pc \in {"done", "cut"} /\ Accounted(f.notes, b, f.sends[b])
  BY NoticeAssumption
<1>4. NoPage \in Page
  BY DEF NoPage, Page, Rows
<1>5. MaxWrites \in Nat /\ MaxPages \in Nat
  BY ReadAssumption
<1>6. Typed
  BY <1>1, <1>2, <1>3, <1>4, <1>5 DEF Typed, NoFacts
<1>7. PageFits
  <2>1. ever.rows = {}
    BY <1>2 DEF NoFacts
  <2> QED BY <1>2, <2>1 DEF PageFits, FromTable, EverThere, NoPage, Steps
<1>8. BatchesRun
  <2>1. \A b \in DOMAIN sends : sends[b].pc \in {"done", "cut"}
    BY <1>1, <1>3
  <2>2. \A b \in DOMAIN sends : Runs(sends[b], Cardinality(RowsOf(notes, b)))
    BY <2>1 DEF Runs
  <2>3. \A b \in 1..(Len(sends) - 1) : b \in DOMAIN sends
    BY <1>1, <1>3, LenProperties
  <2> QED BY <1>1, <1>3, <2>1, <2>2, <2>3 DEF BatchesRun
<1>9. DispatchAccounts
  BY <1>1, <1>3 DEF DispatchAccounts
<1> QED BY <1>6, <1>7, <1>8, <1>9 DEF IInv

(* The batches, when the last has changed.                                 *)
LEMMA LastChanged ==
  ASSUME Typed, Running, NEW b \in BatchType, InBatch(b)
  PROVE  LET n == Len(sends)
         IN  /\ n \in Nat \ {0} /\ DOMAIN sends = 1..n
             /\ Last(sends) = sends[n] /\ sends[n] \in BatchType
             /\ sends' \in Seq(BatchType) /\ Len(sends') = n /\ DOMAIN sends' = 1..n
             /\ sends'[n] = b /\ \A k \in 1..n : k # n => sends'[k] = sends[k]
<1>1. sends \in Seq(BatchType) /\ sends # <<>>
  BY DEF Typed, Running
<1>2. PICK n \in Nat : n = Len(sends)
  BY <1>1, LenProperties
<1>3. n # 0 /\ DOMAIN sends = 1..n
  BY <1>1, <1>2, LenProperties, EmptySeq
<1>4. n \in 1..n
  BY <1>3
<1>5. sends[n] \in BatchType /\ Last(sends) = sends[n]
  BY <1>1, <1>2, <1>3, <1>4, ElementOfSeq DEF Last
<1>6. sends' = [sends EXCEPT ![n] = b]
  BY <1>2 DEF InBatch
<1>7. /\ sends' \in Seq(BatchType) /\ Len(sends') = n
      /\ \A k \in 1..n : sends'[k] = IF k = n THEN b ELSE sends[k]
  BY <1>1, <1>2, <1>4, <1>6, ExceptSeq
<1>8. DOMAIN sends' = 1..n
  BY <1>7, LenProperties
<1> QED BY <1>2, <1>3, <1>4, <1>5, <1>7, <1>8

(* A step of the running batch that records nothing keeps the batches.     *)
LEMMA BatchStepKeeps ==
  ASSUME IInv, Running, UNCHANGED notes, NEW b \in BatchType, InBatch(b),
         LET last == sends[Len(sends)] IN
            /\ b.messages = last.messages /\ b.at = last.at /\ b.live = last.live
            /\ last.delivered \subseteq b.delivered
            /\ b.delivered \subseteq last.delivered \union {b.at}
            /\ b.live \/ b.delivered = {}
            /\ b.pc \in {"record", "cut"}
            /\ b.pc = "record" => b.status # Nil /\ (b.status = "sent" => b.at \in b.delivered)
  PROVE  /\ sends' \in Seq(BatchType) /\ Len(sends') = Len(sends)
         /\ BatchesRun' /\ DispatchAccounts'
<1> DEFINE n == Len(sends)
           last == sends[n]
<1>1. /\ n \in Nat \ {0} /\ DOMAIN sends = 1..n /\ Last(sends) = last /\ last \in BatchType
      /\ sends' \in Seq(BatchType) /\ Len(sends') = n /\ DOMAIN sends' = 1..n
      /\ sends'[n] = b /\ \A k \in 1..n : k # n => sends'[k] = sends[k]
  BY LastChanged DEF IInv
<1>2. \A m \in Nat \ {0} : m \in 1..m
  OBVIOUS
<1>3. n \in 1..n
  BY <1>1, <1>2, Zenon
<1>4. /\ last = sends[n] /\ n \in 1..n
      /\ b.messages = last.messages /\ b.at = last.at /\ b.live = last.live
      /\ last.delivered \subseteq b.delivered
      /\ b.delivered \subseteq last.delivered \union {b.at}
      /\ b.pc \in {"record", "cut"}
  BY <1>3
<1> HIDE DEF n, last
<1>5. last.pc \in {"send", "record"}
  BY <1>1 DEF Running
<1>6. /\ \A k \in 1..(n - 1) : sends[k].pc \in {"done", "cut"}
      /\ \A k \in 1..n : Runs(sends[k], Cardinality(RowsOf(notes, k)))
      /\ \A i \in DOMAIN notes : notes[i].batch <= n
      /\ \A k \in 1..n : Accounted(notes, k, sends[k])
  BY <1>1 DEF IInv, BatchesRun, DispatchAccounts
<1>7. last.at \in DOMAIN last.messages /\ Cardinality(RowsOf(notes, n)) = last.at - 1
  BY <1>4, <1>1, <1>5, <1>6 DEF Runs
<1>8. last.at \in Nat
  BY <1>1 DEF BatchType
<1>9. Runs(b, Cardinality(RowsOf(notes, n)))
  BY <1>4, <1>7 DEF Runs
<1>10. Accounted(notes, n, b)
  <2>1. Accounted(notes, n, last)
    BY <1>4, <1>1, <1>6
  <2>2. b.delivered \subseteq 1..(Cardinality(RowsOf(notes, n)) + 1)
    <3>1. last.delivered \subseteq 1..(Cardinality(RowsOf(notes, n)) + 1)
      BY <2>1 DEF Accounted
    <3>2. b.at \in 1..(Cardinality(RowsOf(notes, n)) + 1)
      <4>1. last.at \in 1..Len(last.messages)
        BY <1>1, <1>7 DEF BatchType
      <4> QED BY <1>4, <1>7, <1>8, <4>1
    <3> QED BY <1>4, <3>1, <3>2
  <2> QED BY <1>4, <2>1, <2>2 DEF Accounted
<1>11. ASSUME NEW k \in 1..n
      PROVE  /\ Runs(sends'[k], Cardinality(RowsOf(notes, k)))
             /\ Accounted(notes, k, sends'[k])
  <2>1. CASE k = n
    <3>1. Runs(sends'[n], Cardinality(RowsOf(notes, n))) /\ Accounted(notes, n, sends'[n])
      BY <1>1, <1>9, <1>10, Zenon
    <3> QED BY <2>1, <3>1, Zenon
  <2>2. CASE k # n
    <3>1. sends'[k] = sends[k]
      BY <1>1, <2>2
    <3> QED BY <1>6, <3>1
  <2> QED BY <2>1, <2>2
<1>12. BatchesRun'
  <2>1. \A k \in 1..(n - 1) : k \in 1..n /\ k # n
    BY <1>1
  <2> QED BY <1>1, <1>6, <1>11, <2>1 DEF BatchesRun, n
<1>13. DispatchAccounts'
  BY <1>1, <1>11 DEF DispatchAccounts
<1> QED BY <1>1, <1>12, <1>13 DEF n

(* What a sender did to the message a batch is at.                         *)
LEMMA AnsweredIs ==
  ASSUME NEW b \in BatchType, NEW answer \in {"ok", "refused", "late"}
  PROVE  LET c == Answered(b, answer)
         IN  /\ c \in BatchType /\ c.messages = b.messages /\ c.at = b.at /\ c.live = b.live
             /\ c.pc = "record" /\ c.status \in {"sent", "failed"}
             /\ c.status = "sent" => c.delivered = b.delivered \union {b.at}
             /\ c.delivered \in {b.delivered, b.delivered \union {b.at}}
<1> DEFINE status == IF answer = "ok" THEN "sent" ELSE "failed"
           delivered == IF answer = "refused" THEN b.delivered ELSE b.delivered \union {b.at}
<1>1. /\ status \in {"sent", "failed"} /\ delivered \in {b.delivered, b.delivered \union {b.at}}
      /\ status = "sent" => delivered = b.delivered \union {b.at}
  OBVIOUS
<1>2. delivered \in SUBSET Nat
  BY DEF BatchType
<1>3. Answered(b, answer) =
        [b EXCEPT !.status = status, !.pc = "record", !.delivered = delivered]
  BY DEF Answered
<1> HIDE DEF status, delivered
<1>4. PICK c : c = [b EXCEPT !.status = status, !.pc = "record", !.delivered = delivered]
  OBVIOUS
<1>5. /\ c \in BatchType /\ c.messages = b.messages /\ c.at = b.at /\ c.live = b.live
      /\ c.pc = "record" /\ c.status = status /\ c.delivered = delivered
  BY <1>1, <1>2, <1>4 DEF BatchType
<1> QED BY <1>1, <1>3, <1>4, <1>5

(* A batch that is cut is otherwise as it was.                             *)
LEMMA CutIs ==
  ASSUME NEW b \in BatchType
  PROVE  LET c == [b EXCEPT !.pc = "cut"]
         IN  /\ c \in BatchType /\ c.messages = b.messages /\ c.at = b.at /\ c.live = b.live
             /\ c.pc = "cut" /\ c.delivered = b.delivered
<1>1. PICK c : c = [b EXCEPT !.pc = "cut"]
  OBVIOUS
<1>2. /\ c \in BatchType /\ c.messages = b.messages /\ c.at = b.at /\ c.live = b.live
      /\ c.pc = "cut" /\ c.delivered = b.delivered
  BY <1>1 DEF BatchType
<1> QED BY <1>1, <1>2

(* The batch that runs.                                                    *)
LEMMA RunningBatch ==
  ASSUME IInv, Running
  PROVE  LET n == Len(sends)
             last == sends[n]
         IN  /\ n \in Nat \ {0} /\ n \in DOMAIN sends /\ DOMAIN sends = 1..n
             /\ Last(sends) = last /\ last \in BatchType /\ last.pc \in {"send", "record"}
             /\ last.at \in DOMAIN last.messages /\ last.at \in Nat
             /\ Cardinality(RowsOf(notes, n)) = last.at - 1
             /\ last.pc = "send" => last.live
             /\ last.pc = "record" => last.status # Nil /\ (last.status = "sent" => last.at \in last.delivered)
             /\ last.live \/ last.delivered = {}
             /\ Accounted(notes, n, last)
<1>1. sends \in Seq(BatchType) /\ sends # <<>>
  BY DEF IInv, Typed, Running
<1>2. PICK n \in Nat : n = Len(sends)
  BY <1>1, LenProperties
<1>3. n # 0 /\ DOMAIN sends = 1..n
  BY <1>1, <1>2, LenProperties, EmptySeq
<1>4. n \in 1..n
  BY <1>3
<1>5. sends[n] \in BatchType /\ Last(sends) = sends[n]
  BY <1>1, <1>2, <1>3, <1>4, ElementOfSeq DEF Last
<1>6. sends[n].pc \in {"send", "record"}
  BY <1>5 DEF Running
<1>7. Runs(sends[n], Cardinality(RowsOf(notes, n))) /\ Accounted(notes, n, sends[n])
  BY <1>3, <1>4 DEF IInv, BatchesRun, DispatchAccounts
<1>8. sends[n].at \in Nat
  BY <1>5 DEF BatchType
<1>9. sends[n].live \/ sends[n].delivered = {}
  BY <1>7 DEF Accounted
<1> QED BY <1>2, <1>3, <1>4, <1>5, <1>6, <1>7, <1>8, <1>9 DEF Runs

(* The sender answers.                                                     *)
LEMMA SendOneKeeps == ASSUME IInv, NEW answer \in {"ok", "refused", "late"}, SendOne(answer) PROVE IInv'
<1> DEFINE last == sends[Len(sends)]
<1>1. Running /\ last.pc = "send" /\ InBatch(Answered(last, answer)) /\ UNCHANGED <<vars, form>>
  BY RunningBatch DEF SendOne, Batch
<1>2. last \in BatchType /\ last.live
  BY <1>1, RunningBatch
<1>3. PICK c : c = Answered(last, answer)
  OBVIOUS
<1>4. /\ c \in BatchType /\ c.messages = last.messages /\ c.at = last.at /\ c.live = last.live
      /\ c.pc = "record" /\ c.status \in {"sent", "failed"}
      /\ c.status = "sent" => c.delivered = last.delivered \union {last.at}
      /\ c.delivered \in {last.delivered, last.delivered \union {last.at}}
  <2> HIDE DEF last
  <2>1. PICK d \in BatchType : d = last
    BY <1>2
  <2>2. c = Answered(d, answer)
    BY <1>3, <2>1
  <2> QED BY <2>1, <2>2, AnsweredIs
<1>5. sends' \in Seq(BatchType) /\ Len(sends') = Len(sends) /\ BatchesRun' /\ DispatchAccounts'
  <2>1. c.status # Nil
    BY <1>4, NoticeAssumption
  <2> QED BY <1>1, <1>2, <1>3, <1>4, <2>1, BatchStepKeeps DEF vars
<1>6. Typed' /\ PageFits'
  BY <1>1, <1>5 DEF IInv, Typed, PageFits, EverThere, vars, tables
<1> QED BY <1>5, <1>6 DEF IInv

(* A batch is cut.                                                         *)
LEMMA CutKeeps ==
  ASSUME IInv, Running, InBatch([Last(sends) EXCEPT !.pc = "cut"]), UNCHANGED notes
  PROVE  sends' \in Seq(BatchType) /\ Len(sends') = Len(sends) /\ BatchesRun' /\ DispatchAccounts'
<1> DEFINE last == sends[Len(sends)]
<1>1. last \in BatchType /\ Last(sends) = last /\ (last.live \/ last.delivered = {})
  BY RunningBatch
<1>2. PICK c : c = [last EXCEPT !.pc = "cut"]
  OBVIOUS
<1>3. /\ c \in BatchType /\ c.messages = last.messages /\ c.at = last.at /\ c.live = last.live
      /\ c.pc = "cut" /\ c.delivered = last.delivered
  <2> HIDE DEF last
  <2> QED BY <1>1, <1>2, CutIs
<1>4. InBatch(c)
  BY <1>1, <1>2
<1> QED BY <1>1, <1>3, <1>4, BatchStepKeeps

(* append_notification raises.                                             *)
LEMMA RecordFailsKeeps == ASSUME IInv, RecordFails PROVE IInv'
<1>1. sends' \in Seq(BatchType) /\ Len(sends') = Len(sends) /\ BatchesRun' /\ DispatchAccounts'
  BY CutKeeps DEF RecordFails, Batch, vars
<1>2. Typed' /\ PageFits'
  BY <1>1 DEF IInv, Typed, PageFits, EverThere, vars, tables, RecordFails
<1> QED BY <1>1, <1>2 DEF IInv

(* The process stops.                                                      *)
LEMMA CrashKeeps == ASSUME IInv, Crash PROVE IInv'
<1>1. sends' \in Seq(BatchType) /\ Len(sends') = Len(sends) /\ BatchesRun' /\ DispatchAccounts'
  BY CutKeeps DEF Crash
<1>2. /\ UNCHANGED <<tables, notes, writes, ever, always, pages, form>>
      /\ page' \in {NoPage, page}
  BY DEF Crash
<1>3. NoPage \in Page
  BY DEF NoPage, Page, Rows
<1>4. Typed'
  BY <1>1, <1>2, <1>3 DEF IInv, Typed, tables
<1>5. \A r, e, n : FromTable(NoPage, r, e, n)
  BY DEF FromTable, NoPage, Steps
<1>6. PageFits'
  <2>1. EverThere'
    BY <1>2, ReadAssumption DEF IInv, PageFits, EverThere, NoPage, Kinds, tables
  <2> QED BY <1>2, <1>5, <2>1 DEF IInv, PageFits, tables
<1> QED BY <1>1, <1>4, <1>6 DEF IInv

(* Tables grow, and a page's numbers stay in them.                         *)
LEMMA TablesGrow ==
  ASSUME NEW p, NEW r \in Nat, NEW e \in Nat, NEW n \in Nat,
         NEW r2 \in Nat, NEW e2 \in Nat, NEW n2 \in Nat, r <= r2, e <= e2, n <= n2,
         FromTable(p, r, e, n)
  PROVE  FromTable(p, r2, e2, n2)
<1>1. p.kept \subseteq 1..r2
  <2>1. \A i \in 1..r : i \in 1..r2
    OBVIOUS
  <2> QED BY <2>1 DEF FromTable
<1>2. p.shown \subseteq 1..(r2 + e2 + n2) /\ (p.kind = "missing" => p.shown \subseteq 1..r2)
  <2>1. \A i \in 1..(r + e + n) : i \in 1..(r2 + e2 + n2)
    OBVIOUS
  <2>2. \A i \in 1..r : i \in 1..r2
    OBVIOUS
  <2> QED BY <2>1, <2>2 DEF FromTable
<1>3. \A S : \A s \in Seq(S) : (Len(s) <= r => Len(s) <= r2) /\ (Len(s) <= e => Len(s) <= e2)
  OBVIOUS
<1> QED BY <1>1, <1>2, <1>3 DEF FromTable, HasRows

(* The tables are finite.                                                  *)
LEMMA Lengths ==
  ASSUME Typed
  PROVE  /\ Len(records) \in Nat /\ Len(events) \in Nat /\ Len(notes) \in Nat
         /\ DOMAIN records = 1..Len(records) /\ DOMAIN events = 1..Len(events)
         /\ DOMAIN notes = 1..Len(notes)
BY LenProperties DEF Typed

(* Writes are counted within their type.                                   *)
LEMMA CountWriteType == ASSUME Typed PROVE CountWrite \in 0..(MaxWrites + 1)
BY ReadAssumption DEF CountWrite, Typed

(* The row of a message, and the batch after it.                           *)
LEMMA RecordedIs ==
  ASSUME NEW b \in BatchType, b.at \in DOMAIN b.messages, b.at \in Nat, b.status # Nil, NEW n \in Nat
  PROVE  LET row == [student |-> b.messages[b.at], status |-> b.status, batch |-> n]
             c == [b EXCEPT !.at = @ + 1,
                     !.pc = IF b.at = Len(b.messages) THEN "done" ELSE IF b.live THEN "send" ELSE @]
         IN  /\ row \in NoteType /\ row.batch = n /\ row.status = b.status
             /\ row.student = b.messages[b.at]
             /\ c \in BatchType /\ c.messages = b.messages /\ c.live = b.live /\ c.status = b.status
             /\ c.at = b.at + 1 /\ c.delivered = b.delivered
             /\ c.pc = IF b.at = Len(b.messages) THEN "done" ELSE IF b.live THEN "send" ELSE b.pc
<1> DEFINE next == IF b.at = Len(b.messages) THEN "done" ELSE IF b.live THEN "send" ELSE b.pc
           row == [student |-> b.messages[b.at], status |-> b.status, batch |-> n]
<1>1. next \in {"send", "record", "done", "cut"}
  BY DEF BatchType
<1>2. b.messages \in Seq(Students) /\ b.status \in {"dry_run", "sent", "failed"}
  BY DEF BatchType
<1>3. b.messages[b.at] \in Students
  BY <1>2
<1>4. row \in NoteType /\ row.batch = n /\ row.status = b.status /\ row.student = b.messages[b.at]
  BY <1>2, <1>3 DEF NoteType
<1> HIDE DEF next
<1>5. PICK c : c = [b EXCEPT !.at = b.at + 1, !.pc = next]
  OBVIOUS
<1>6. PICK at \in Nat : at = b.at + 1
  OBVIOUS
<1>7. c = [b EXCEPT !.at = at, !.pc = next]
  BY <1>5, <1>6
<1>8. /\ c \in BatchType /\ c.messages = b.messages /\ c.live = b.live /\ c.status = b.status
      /\ c.at = at /\ c.delivered = b.delivered /\ c.pc = next
  BY <1>1, <1>7 DEF BatchType
<1>9. c = [b EXCEPT !.at = @ + 1,
              !.pc = IF b.at = Len(b.messages) THEN "done" ELSE IF b.live THEN "send" ELSE @]
  BY <1>5 DEF next
<1> HIDE DEF row
<1> QED BY <1>4, <1>8, <1>9, <1>6 DEF next, row

(* The facts of two moments.                                               *)
LEMMA EitherIs ==
  ASSUME NEW f, NEW g
  PROVE  /\ Either(f, g).rows = f.rows \union g.rows
         /\ Either(f, g).open = f.open \union g.open
         /\ Either(f, g).told = f.told \union g.told
         /\ Either(f, g).homework = f.homework \union g.homework
BY DEF Either

LEMMA BothIs ==
  ASSUME NEW f, NEW g
  PROVE  /\ Both(f, g).rows = f.rows \intersect g.rows
         /\ Both(f, g).open = f.open \intersect g.open
         /\ Both(f, g).told = f.told \intersect g.told
         /\ Both(f, g).homework = f.homework \intersect g.homework
BY DEF Both

(* The rows a page for missing homework watches for are records.           *)
LEMMA MissingRows == ASSUME NEW p, p.kind = "missing" PROVE Facts(p).rows \subseteq DOMAIN records
<1>1. Facts(p).rows = RowsNow(p.scope, records)
  BY DEF Facts
<1> QED BY <1>1 DEF RowsNow

(* What a page watches for are rows of its table.                          *)
LEMMA WatchKeeps ==
  ASSUME EverThere, always.rows \subseteq ever.rows, Watch, DOMAIN records \subseteq DOMAIN records',
         page'.kind = page.kind
  PROVE  EverThere' /\ always'.rows \subseteq ever'.rows
<1>1. PICK f : f = Facts(page)'
  OBVIOUS
<1>2. ever' = Either(ever, f) /\ always' = Both(always, f)
  BY <1>1 DEF Watch
<1>3. ever'.rows = ever.rows \union f.rows /\ always'.rows = always.rows \intersect f.rows
  BY <1>2, EitherIs, BothIs
<1>4. ASSUME page'.kind = "missing" PROVE f.rows \subseteq DOMAIN records'
  <2>1. f.rows = RowsNow(page.scope, records)'
    BY <1>1, <1>4 DEF Facts
  <2> QED BY <2>1 DEF RowsNow
<1> QED BY <1>3, <1>4 DEF EverThere

(* A row of the running batch is written.                                  *)
LEMMA RecordOneKeeps == ASSUME IInv, RecordOne PROVE IInv'
<1>1. Running /\ UNCHANGED <<tables, page, pages, form>>
  BY DEF RecordOne, Batch
<1>2. PICK n : n = Len(sends)
  OBVIOUS
<1>3. PICK b : b = sends[n]
  OBVIOUS
<1>4. /\ n \in Nat \ {0} /\ n \in DOMAIN sends /\ DOMAIN sends = 1..n
      /\ Last(sends) = b /\ b \in BatchType /\ b.pc = "record"
      /\ b.at \in DOMAIN b.messages /\ b.at \in Nat
      /\ Cardinality(RowsOf(notes, n)) = b.at - 1
      /\ b.status # Nil /\ (b.status = "sent" => b.at \in b.delivered)
      /\ b.live \/ b.delivered = {}
      /\ Accounted(notes, n, b)
  <2>1. Last(sends).pc = "record"
    BY DEF RecordOne, Batch
  <2> QED BY <1>1, <1>2, <1>3, <2>1, RunningBatch
<1>5. PICK row : row = [student |-> b.messages[b.at], status |-> b.status, batch |-> n]
  OBVIOUS
<1>6. PICK c : c = [b EXCEPT !.at = @ + 1,
                       !.pc = IF b.at = Len(b.messages) THEN "done" ELSE IF b.live THEN "send" ELSE @]
  OBVIOUS
<1>7. /\ row \in NoteType /\ row.batch = n /\ row.status = b.status
      /\ row.student = b.messages[b.at]
      /\ c \in BatchType /\ c.messages = b.messages /\ c.live = b.live /\ c.status = b.status
      /\ c.at = b.at + 1 /\ c.delivered = b.delivered
      /\ c.pc = IF b.at = Len(b.messages) THEN "done" ELSE IF b.live THEN "send" ELSE b.pc
  BY <1>4, <1>5, <1>6, RecordedIs
<1>8. notes' = Append(notes, row) /\ InBatch(c)
  BY <1>2, <1>4, <1>5, <1>6 DEF RecordOne
<1>9. /\ sends' \in Seq(BatchType) /\ Len(sends') = n /\ DOMAIN sends' = 1..n
      /\ sends'[n] = c /\ \A k \in 1..n : k # n => sends'[k] = sends[k]
  BY <1>1, <1>2, <1>7, <1>8, LastChanged DEF IInv
<1>10. Typed /\ notes \in Seq(NoteType)
  BY DEF IInv, Typed
<1>11. PICK m \in Nat : m = Len(notes)
  BY <1>10, LenProperties
<1>12. DOMAIN notes = 1..m
  BY <1>10, <1>11, LenProperties
<1>13. /\ notes' \in Seq(NoteType) /\ Len(notes') = m + 1 /\ DOMAIN notes' = 1..(m + 1)
  BY <1>7, <1>8, <1>10, <1>11, AppendProperties, LenProperties
<1>14. /\ \A i \in 1..m : notes'[i] = notes[i]
       /\ notes'[m + 1] = row
  <2>1. \A i \in 1..m : notes'[i] = notes[i]
    BY <1>7, <1>8, <1>10, <1>11, AppendProperties, LenProperties
  <2>2. notes'[Len(notes) + 1] = row
    BY <1>7, <1>8, <1>10, AppendProperties
  <2> QED BY <1>11, <2>1, <2>2
<1>15. PICK k \in Nat :
       /\ k = Cardinality(RowsOf(notes, n)) /\ k + 1 = b.at
       /\ \A x \in Nat : x # n => RowsOf(notes', x) = RowsOf(notes, x)
       /\ RowsOf(notes', n) = RowsOf(notes, n) \union {m + 1}
       /\ Cardinality(RowsOf(notes', n)) = k + 1
       /\ \A i \in 1..m : notes'[i] = notes[i] /\ Turn(notes', i) = Turn(notes, i)
       /\ notes'[m + 1] = row /\ Turn(notes', m + 1) = k + 1
  <2>1. PICK more : more = notes'
    OBVIOUS
  <2>2. PICK ns : ns = notes
    OBVIOUS
  <2>3. /\ DOMAIN ns = 1..m /\ DOMAIN more = 1..(m + 1)
        /\ \A i \in 1..m : more[i] = ns[i]
        /\ more[m + 1].batch = n
    BY <1>7, <1>12, <1>13, <1>14, <2>1, <2>2
  <2>4. \A i : i \in 1..(m + 1) <=> i \in 1..m \/ i = m + 1
    OBVIOUS
  <2>5. /\ \A x, i : x # n => (i \in RowsOf(more, x) <=> i \in RowsOf(ns, x))
        /\ \A i : i \in RowsOf(more, n) <=> i \in RowsOf(ns, n) \/ i = m + 1
    BY <2>3, <2>4 DEF RowsOf
  <2>6. \A x : x # n => RowsOf(notes', x) = RowsOf(notes, x)
    BY <2>1, <2>2, <2>5
  <2>7. RowsOf(notes', n) = RowsOf(notes, n) \union {m + 1}
    BY <2>1, <2>2, <2>5
  <2>8. Cardinality(RowsOf(more, n)) = Cardinality(RowsOf(ns, n)) + 1
    BY <2>3, RowAppended
  <2>9. \A i \in 1..m : Turn(more, i) = Turn(ns, i)
    BY <2>3, RowAppended
  <2>10. Turn(more, m + 1) = Cardinality(RowsOf(ns, n)) + 1
    BY <2>3, RowAppended
  <2>11. PICK k \in Nat : k = b.at - 1
    <3>1. b.at \in 1..Len(b.messages)
      BY <1>4, LenProperties DEF BatchType
    <3> QED BY <1>4, <3>1
  <2>12. k = Cardinality(RowsOf(notes, n)) /\ k + 1 = b.at
    BY <1>4, <2>11
  <2>13. Cardinality(RowsOf(notes', n)) = k + 1 /\ Turn(notes', m + 1) = k + 1
    BY <2>1, <2>2, <2>8, <2>10, <2>12
  <2>14. \A i \in 1..m : notes'[i] = notes[i] /\ Turn(notes', i) = Turn(notes, i)
    BY <1>14, <2>1, <2>2, <2>9
  <2> QED BY <1>14, <2>6, <2>7, <2>12, <2>13, <2>14
<1>16. Runs(c, k + 1)
  <2>1. b.at \in 1..Len(b.messages) /\ Len(b.messages) \in Nat
    BY <1>4, LenProperties DEF BatchType
  <2>2. c.pc \in {"send", "record"} => c.at \in DOMAIN c.messages
    <3>1. c.pc \in {"send", "record"} => b.at + 1 \in 1..Len(b.messages)
      BY <1>7, <2>1
    <3>2. DOMAIN b.messages = 1..Len(b.messages)
      BY <1>4, LenProperties DEF BatchType
    <3> QED BY <1>7, <3>1, <3>2
  <2>3. k + 1 = c.at - 1
    BY <1>7, <1>15
  <2>4. c.pc = "send" => c.live
    BY <1>4, <1>7
  <2>5. c.pc = "record" => c.status # Nil /\ (c.status = "sent" => c.at \in c.delivered)
    <3>1. c.pc = "record" => ~b.live
      BY <1>7
    <3>2. c.pc = "record" => b.delivered = {} /\ b.status # "sent"
      BY <1>4, <3>1
    <3> QED BY <1>4, <1>7, <3>2
  <2> QED BY <2>2, <2>3, <2>4, <2>5 DEF Runs
<1>17. Accounted(notes', n, c)
  <2>1. ASSUME NEW i \in RowsOf(notes', n)
        PROVE  /\ Turn(notes', i) \in DOMAIN c.messages
               /\ notes'[i].student = c.messages[Turn(notes', i)]
               /\ notes'[i].status = "sent" => Turn(notes', i) \in c.delivered
    <3>1. CASE i = m + 1
      BY <1>4, <1>7, <1>15, <1>15, <3>1
    <3>2. CASE i # m + 1
      <4>1. i \in RowsOf(notes, n) /\ i \in 1..m
        BY <1>12, <1>15, <3>2 DEF RowsOf
      <4>2. /\ Turn(notes, i) \in DOMAIN b.messages
            /\ notes[i].student = b.messages[Turn(notes, i)]
            /\ notes[i].status = "sent" => Turn(notes, i) \in b.delivered
        BY <1>4, <4>1 DEF Accounted
      <4> QED BY <1>7, <1>15, <4>1, <4>2
    <3> QED BY <3>1, <3>2
  <2>2. c.delivered \subseteq 1..(Cardinality(RowsOf(notes', n)) + 1)
    <3>1. b.delivered \subseteq 1..(k + 1)
      BY <1>4, <1>15 DEF Accounted
    <3>2. \A x \in 1..(k + 1) : x \in 1..((k + 1) + 1)
      OBVIOUS
    <3> QED BY <1>7, <1>15, <3>1, <3>2
  <2>3. c.pc = "done" => Cardinality(RowsOf(notes', n)) = Len(c.messages)
    BY <1>4, <1>7, <1>15, <1>15
  <2> QED BY <1>4, <1>7, <2>1, <2>2, <2>3 DEF Accounted
<1>18. ASSUME NEW x \in 1..n
       PROVE  Runs(sends'[x], Cardinality(RowsOf(notes', x))) /\ Accounted(notes', x, sends'[x])
  <2>1. CASE x = n
    BY <1>9, <1>15, <1>16, <1>17, <2>1
  <2>2. CASE x # n
    <3>1. RowsOf(notes', x) = RowsOf(notes, x) /\ sends'[x] = sends[x]
      BY <1>9, <1>15, <2>2
    <3>2. Runs(sends[x], Cardinality(RowsOf(notes, x))) /\ Accounted(notes, x, sends[x])
      BY <1>4 DEF IInv, BatchesRun, DispatchAccounts
    <3>3. \A i \in RowsOf(notes, x) :
             i \in 1..m /\ notes'[i] = notes[i] /\ Turn(notes', i) = Turn(notes, i)
      BY <1>12, <1>15 DEF RowsOf
    <3>4. Accounted(notes', x, sends[x])
      BY <3>1, <3>2, <3>3 DEF Accounted
    <3> QED BY <3>1, <3>2, <3>4
  <2> QED BY <2>1, <2>2
<1>19. BatchesRun'
  <2>1. \A x \in 1..(n - 1) : x \in 1..n /\ x # n
    BY <1>4
  <2>2. \A x \in 1..(n - 1) : sends'[x].pc \in {"done", "cut"}
    BY <1>2, <1>9, <2>1 DEF IInv, BatchesRun
  <2>3. \A i \in 1..(m + 1) : notes'[i].batch <= n
    <3>1. \A i \in 1..m : notes[i].batch <= n
      BY <1>2, <1>12 DEF IInv, BatchesRun
    <3>2. \A i \in 1..(m + 1) : i \in 1..m \/ i = m + 1
      OBVIOUS
    <3> QED BY <1>4, <1>7, <1>15, <3>1, <3>2
  <2> QED BY <1>9, <1>13, <1>18, <2>2, <2>3 DEF BatchesRun
<1>20. DispatchAccounts'
  BY <1>9, <1>18 DEF DispatchAccounts
<1>21. PageFits'
  <2>1. FromTable(page, Len(records), Len(events), m)
    BY <1>11 DEF IInv, PageFits
  <2>2. FromTable(page, Len(records), Len(events), m + 1)
    BY <1>10, <2>1, Lengths, TablesGrow
  <2>3. EverThere'
    <3>1. CASE page.pc \in Steps
      <4>1. Watch /\ EverThere /\ always.rows \subseteq ever.rows
        BY <1>10, <3>1 DEF RecordOne, IInv, PageFits, Typed
      <4> QED BY <1>1, <4>1, WatchKeeps DEF tables
    <3>2. CASE page.pc \notin Steps
      BY <1>1, <3>2 DEF RecordOne, IInv, PageFits, EverThere, tables
    <3> QED BY <3>1, <3>2
  <2> QED BY <1>1, <1>13, <2>2, <2>3 DEF PageFits, tables
<1>22. Typed'
  <2>1. writes' \in 0..(MaxWrites + 1)
    BY <1>10, CountWriteType DEF RecordOne, Typed
  <2>2. always'.rows \subseteq ever'.rows
    <3>1. CASE page.pc \in Steps
      <4>1. Watch /\ EverThere /\ always.rows \subseteq ever.rows
        BY <1>10, <3>1 DEF RecordOne, IInv, PageFits, Typed
      <4> QED BY <1>1, <4>1, WatchKeeps DEF tables
    <3>2. CASE page.pc \notin Steps
      BY <1>10, <3>2 DEF RecordOne, Typed
    <3> QED BY <3>1, <3>2
  <2>3. Len(sends') <= MaxSends
    BY <1>2, <1>9, <1>10 DEF Typed
  <2> QED BY <1>1, <1>9, <1>10, <1>13, <2>1, <2>2, <2>3 DEF Typed, tables
<1> QED BY <1>19, <1>20, <1>21, <1>22 DEF IInv

(* A set in some order is a sequence, that takes each element once.        *)
LEMMA Ordered ==
  ASSUME NEW S, NEW c \in Nat, c = Cardinality(S), NEW order \in SetToSeqs(S)
  PROVE  order \in [1..c -> S] /\ order \in Seq(S)
<1>1. order \in [1..c -> S]
  BY DEF SetToSeqs
<1>2. \A f \in [1..c -> S] : f \in Seq(S)
  OBVIOUS
<1> QED BY <1>1, <1>2

(* A batch begins, with nothing sent and nothing recorded.                 *)
LEMMA BatchBegins ==
  ASSUME IInv, ~Running, Len(sends) < MaxSends, UNCHANGED notes,
         NEW b \in BatchType, sends' = Append(sends, b), b.at = 1, b.delivered = {},
         b.pc = Begin(b.messages, b.live), b.live \/ b.status = "dry_run"
  PROVE  sends' \in Seq(BatchType) /\ Len(sends') <= MaxSends /\ BatchesRun' /\ DispatchAccounts'
<1>1. sends \in Seq(BatchType) /\ notes \in Seq(NoteType)
  BY DEF IInv, Typed
<1>2. PICK n \in Nat : n = Len(sends)
  BY <1>1, LenProperties
<1>3. PICK m \in Nat : m = n + 1
  OBVIOUS
<1>4. DOMAIN sends = 1..n
  BY <1>1, <1>2, LenProperties
<1>5. /\ sends' \in Seq(BatchType) /\ Len(sends') = m /\ DOMAIN sends' = 1..m
      /\ sends'[m] = b /\ \A k \in 1..n : sends'[k] = sends[k]
  <2>1. sends' \in Seq(BatchType) /\ Len(sends') = Len(sends) + 1
    BY <1>1, AppendProperties
  <2>2. /\ \A i \in 1..Len(sends) : sends'[i] = sends[i]
        /\ sends'[Len(sends) + 1] = b
    BY <1>1, AppendProperties
  <2> QED BY <1>2, <1>3, <2>1, <2>2, LenProperties
<1>6. \A k : k \in 1..m <=> k \in 1..n \/ k = m
  BY <1>3
<1>7. \A k \in 1..n : sends[k].pc \in {"done", "cut"}
  <2> SUFFICES ASSUME NEW k \in 1..n PROVE sends[k].pc \in {"done", "cut"}
    OBVIOUS
  <2>1. CASE k = n
    <3>1. sends # <<>>
      BY <1>1, <1>2, <2>1, EmptySeq
    <3>2. Last(sends) = sends[n]
      BY <1>2 DEF Last
    <3>3. sends[n] \in BatchType
      BY <1>1, <1>4, <2>1, ElementOfSeq
    <3> QED BY <2>1, <3>1, <3>2, <3>3 DEF Running, BatchType
  <2>2. CASE k # n
    <3>1. k \in 1..(n - 1)
      BY <2>2
    <3> QED BY <1>2, <3>1 DEF IInv, BatchesRun
  <2> QED BY <2>1, <2>2
<1>8. \A i \in DOMAIN notes : notes[i].batch \in Nat /\ notes[i].batch <= n /\ notes[i].batch <= m
  <2> SUFFICES ASSUME NEW i \in DOMAIN notes
               PROVE  notes[i].batch \in Nat /\ notes[i].batch <= n /\ notes[i].batch <= m
    OBVIOUS
  <2>1. notes[i] \in NoteType
    BY <1>1, ElementOfSeq, LenProperties
  <2>2. PICK x \in Nat : x = notes[i].batch
    BY <2>1 DEF NoteType
  <2>3. x <= n
    BY <1>2, <2>2 DEF IInv, BatchesRun
  <2>4. x <= m
    BY <1>3, <2>3
  <2> QED BY <2>2, <2>3, <2>4
<1>9. RowsOf(notes, m) = {}
  <2>1. \A x \in Nat : x <= n => x # m
    BY <1>3
  <2> QED BY <1>8, <2>1 DEF RowsOf
<1>10. Cardinality(RowsOf(notes, m)) = 0
  BY <1>9, FS_EmptySet
<1>11. b.messages \in Seq(Students)
  BY DEF BatchType
<1>12. Runs(b, 0)
  <2>1. b.messages # <<>> => 1 \in DOMAIN b.messages
    BY <1>11
  <2>2. b.pc = "record" => ~b.live /\ b.messages # <<>>
    BY DEF Begin
  <2>3. b.pc = "send" => b.live /\ b.messages # <<>>
    BY DEF Begin
  <2> QED BY <2>1, <2>2, <2>3, NoticeAssumption DEF Runs
<1>13. Accounted(notes, m, b)
  <2>1. b.pc = "done" => Len(b.messages) = 0
    BY <1>11, EmptySeq DEF Begin
  <2> QED BY <1>9, <1>10, <2>1 DEF Accounted
<1>14. ASSUME NEW k \in 1..m
       PROVE  Runs(sends'[k], Cardinality(RowsOf(notes, k))) /\ Accounted(notes, k, sends'[k])
  <2>1. CASE k = m
    BY <1>5, <1>10, <1>12, <1>13, <2>1
  <2>2. CASE k # m
    BY <1>4, <1>5, <1>6, <2>2 DEF IInv, BatchesRun, DispatchAccounts
  <2> QED BY <2>1, <2>2
<1>15. BatchesRun'
  <2>1. \A k \in 1..(m - 1) : k \in 1..n
    BY <1>3
  <2> QED BY <1>5, <1>7, <1>8, <1>14, <2>1 DEF BatchesRun
<1>16. DispatchAccounts'
  BY <1>5, <1>14 DEF DispatchAccounts
<1>17. Len(sends') <= MaxSends
  BY <1>2, <1>3, <1>5, NoticeAssumption
<1> QED BY <1>5, <1>15, <1>16, <1>17

(* Messages are posted.                                                    *)
LEMMA SendKeeps ==
  ASSUME IInv, NEW messages \in Posts, NEW live \in BOOLEAN, Send(messages, live)
  PROVE  IInv'
<1>1. /\ ~Running /\ Len(sends) < MaxSends /\ UNCHANGED <<vars, form>>
      /\ form \in FormType
  BY DEF Send, IInv, Typed
<1>2. messages \in Seq(Students)
  BY NoticeAssumption
<1>3. PICK status \in {Nil, "dry_run"} : status = IF live THEN Nil ELSE "dry_run"
  OBVIOUS
<1>4. PICK pc \in {"send", "record", "done"} : pc = Begin(messages, live)
  BY DEF Begin
<1>5. PICK sure \in BOOLEAN : sure = (form.sure /\ Range(messages) \subseteq Range(form.students))
  OBVIOUS
<1>6. PICK b : b = [messages |-> messages, live |-> live, at |-> 1, delivered |-> {},
                    status |-> status, missed |-> form.missed, sure |-> sure, pc |-> pc]
  OBVIOUS
<1>7. /\ b \in BatchType /\ b.messages = messages /\ b.live = live /\ b.at = 1
      /\ b.delivered = {} /\ b.status = status /\ b.pc = pc
  BY <1>1, <1>2, <1>3, <1>4, <1>5, <1>6 DEF BatchType, FormType
<1>8. sends' = Append(sends, b)
  BY <1>3, <1>4, <1>5, <1>6 DEF Send
<1>9. sends' \in Seq(BatchType) /\ Len(sends') <= MaxSends /\ BatchesRun' /\ DispatchAccounts'
  <2>1. b.pc = Begin(b.messages, b.live)
    BY <1>4, <1>7
  <2>2. b.live \/ b.status = "dry_run"
    BY <1>3, <1>7
  <2> QED BY <1>1, <1>7, <1>8, <2>1, <2>2, BatchBegins DEF vars
<1>10. Typed' /\ PageFits'
  BY <1>1, <1>9 DEF IInv, Typed, PageFits, EverThere, vars, tables
<1> QED BY <1>9, <1>10 DEF IInv

(* The addressees of a page, in any order, are students.                   *)
LEMMA AddresseesAre ==
  ASSUME Typed, page.kind = "missing", page.shown \subseteq DOMAIN records,
         NEW students \in SetToSeqs(Addressees(page))
  PROVE  students \in Seq(Students) /\ Range(students) \subseteq Addressees(page)
<1>1. Addressees(page) \subseteq Students
  <2>1. \A i \in page.shown : records[i] \in RowType
    BY Lengths, ElementOfSeq DEF Typed
  <2> QED BY <2>1 DEF Addressees, RowType
<1>2. IsFiniteSet(page.shown)
  BY Lengths, Bounded
<1>3. PICK f : f = [i \in page.shown |-> records[i].student]
  OBVIOUS
<1>4. f \in [page.shown -> Addressees(page)]
      /\ \A s \in Addressees(page) : \E i \in page.shown : f[i] = s
  BY <1>3 DEF Addressees
<1>5. f \in Surjection(page.shown, Addressees(page))
  BY <1>4 DEF Surjection
<1>6. IsFiniteSet(Addressees(page))
  BY <1>2, <1>5, FS_Surjection
<1>7. PICK c \in Nat : c = Cardinality(Addressees(page))
  BY <1>6, FS_CardinalityType
<1>8. students \in [1..c -> Addressees(page)] /\ students \in Seq(Addressees(page))
  BY <1>7, Ordered
<1>9. Range(students) \subseteq Addressees(page)
  BY <1>8 DEF Range
<1> QED BY <1>1, <1>8, <1>9, SeqMonotonic

(* A form is composed.                                                     *)
LEMMA ComposeKeeps == ASSUME IInv, Compose PROVE IInv'
<1>1. /\ page.kind = "missing" /\ page' = NoPage /\ writes' = 0 /\ ever' = NoFacts /\ always' = NoFacts
      /\ UNCHANGED <<tables, notes, pages, sends>>
  BY DEF Compose
<1>2. page.shown \subseteq DOMAIN records /\ ever.rows \subseteq DOMAIN records
  BY <1>1, Lengths DEF IInv, PageFits, EverThere, FromTable
<1>3. PICK students \in SetToSeqs(Addressees(page)) :
        form' = [students |-> students, sure |-> writes <= 1,
                 missed |-> { records[i].student : i \in Due("missing", ever) }]
  BY DEF Compose
<1>4. students \in Seq(Students)
  BY <1>1, <1>2, AddresseesAre DEF IInv
<1>5. { records[i].student : i \in Due("missing", ever) } \subseteq Students
  <2>1. \A i \in DOMAIN records : records[i] \in RowType
    BY Lengths, ElementOfSeq DEF IInv, Typed
  <2>2. Due("missing", ever) \subseteq DOMAIN records
    BY <1>2 DEF Due
  <2> QED BY <2>1, <2>2 DEF RowType
<1>6. form' \in FormType
  BY <1>3, <1>4, <1>5 DEF FormType
<1>7. Typed'
  BY <1>1, <1>6, ReadAssumption DEF IInv, Typed, NoPage, NoFacts, Page, Rows, tables
<1>8. PageFits' /\ BatchesRun' /\ DispatchAccounts'
  BY <1>1 DEF IInv, PageFits, EverThere, FromTable, NoPage, NoFacts, Steps, tables, BatchesRun,
            DispatchAccounts
<1> QED BY <1>7, <1>8 DEF IInv

-----------------------------------------------------------------------------
(* The steps of a page.                                                    *)

(* Nothing is read, or shown.                                              *)
LEMMA NoPageIs == NoPage \in Page /\ NoPage.shown = {}
BY DEF NoPage, Page, Rows

(* A query that returned rows shows them, or keeps what the next needs.    *)
LEMMA AnswerFits ==
  ASSUME NEW p \in Page, NEW r \in Nat, NEW e \in Nat, NEW n \in Nat,
         p.kind \in Kinds, p.kind # "history", p.scope \in Scopes, p.query > 1 => p.kind = "missing",
         p.kept \subseteq 1..r, HasRows(p, r, e), NEW found, found \subseteq DOMAIN p.rows
  PROVE  /\ Answer(p, found) \in Page /\ Answer(p, found).kind = p.kind
         /\ FromTable(Answer(p, found), r, e, n)
<1>1. p.query \in 1..3
  BY DEF Page
<1>2. ASSUME NEW shown, shown \subseteq 1..(r + e + n), p.kind = "missing" => shown \subseteq 1..r
      PROVE  /\ Show(p, shown) \in Page /\ Show(p, shown).kind = p.kind
             /\ FromTable(Show(p, shown), r, e, n)
  <2>1. PICK q : q = Show(p, shown)
    OBVIOUS
  <2>2. shown \subseteq Nat
    BY <1>2
  <2>3. q = [p EXCEPT !.pc = "shown", !.shown = shown]
    BY <2>1 DEF Show
  <2>4. /\ q \in Page /\ q.kind = p.kind /\ q.query = p.query /\ q.kept = p.kept
        /\ q.pc = "shown" /\ q.shown = shown
    BY <2>2, <2>3 DEF Page
  <2> QED BY <1>2, <2>1, <2>4 DEF FromTable, Steps
<1>3. ASSUME p.query # 3, p.kind = "missing", NEW q, q.kind = p.kind, q.scope = p.scope,
             q.query = p.query, q.kept \subseteq 1..r, q.due \subseteq Lessons
      PROVE  /\ NextQuery(q) \in Page /\ NextQuery(q).kind = p.kind
             /\ FromTable(NextQuery(q), r, e, n)
  <2>1. PICK k \in 1..3 : k = p.query + 1
    BY <1>1, <1>3
  <2>2. PICK a : a = NextQuery(q)
    OBVIOUS
  <2>3. q.kept \subseteq Nat
    BY <1>3
  <2>4. a = [NoPage EXCEPT !.kind = q.kind, !.scope = q.scope, !.pc = "rows", !.query = k,
                           !.kept = q.kept, !.due = q.due]
    BY <1>3, <2>1, <2>2 DEF NextQuery
  <2>5. PICK z \in Page : z = NoPage /\ z.shown = {}
    BY NoPageIs
  <2>6. q.kind \in Kinds /\ q.scope \in Scopes /\ q.kept \in SUBSET Nat /\ q.due \in SUBSET Lessons
    BY <1>3, <2>3
  <2>7. a = [z EXCEPT !.kind = q.kind, !.scope = q.scope, !.pc = "rows", !.query = k,
                      !.kept = q.kept, !.due = q.due]
    BY <2>4, <2>5
  <2>8. /\ a \in Page /\ a.kind = q.kind /\ a.scope = q.scope /\ a.pc = "rows" /\ a.query = k
        /\ a.kept = q.kept /\ a.shown = {}
    BY <2>5, <2>6, <2>7 DEF Page, Steps
  <2> QED BY <1>3, <2>2, <2>8 DEF FromTable
<1>4. CASE p.kind # "missing"
  <2>1. found \subseteq 1..(r + e + n)
    <3>1. p.query = 1
      BY <1>1, <1>4
    <3>2. p.rows \in Seq(RowType) /\ (Len(p.rows) <= e \/ Len(p.rows) <= r)
      BY <1>4, <3>1 DEF HasRows
    <3>3. PICK k \in Nat : k = Len(p.rows) /\ DOMAIN p.rows = 1..k
      BY <3>2, LenProperties
    <3>4. \A i \in 1..k : i \in 1..(r + e + n)
      BY <3>2, <3>3
    <3> QED BY <3>3, <3>4
  <2> QED BY <1>2, <1>4, <2>1 DEF Answer
<1>5. CASE p.kind = "missing" /\ p.query # 3
  <2>1. PICK k \in Nat : k = Len(p.rows) /\ DOMAIN p.rows = 1..k /\ k <= r
                         /\ \A i \in 1..k : p.rows[i] \in RowType
    BY <1>5, LenProperties, ElementOfSeq DEF HasRows
  <2>2. \A i \in 1..k : i \in 1..r
    BY <2>1
  <2>3. CASE p.query = 1
    <3> DEFINE kept == { i \in found : p.rows[i].recent /\ ~p.rows[i].submitted }
    <3>1. kept \subseteq 1..r
      BY <2>1, <2>2
    <3> HIDE DEF kept
    <3>2. PICK q : q = [p EXCEPT !.kept = kept]
      OBVIOUS
    <3>3. q.kind = p.kind /\ q.scope = p.scope /\ q.query = p.query /\ q.kept = kept /\ q.due = p.due
      BY <3>2 DEF Page
    <3>4. p.due \subseteq Lessons
      BY DEF Page
    <3>5. Answer(p, found) = NextQuery(q)
      BY <1>5, <2>3, <3>2 DEF Answer, kept
    <3> QED BY <1>3, <1>5, <3>1, <3>3, <3>4, <3>5
  <2>4. CASE p.query # 1
    <3> DEFINE due == { p.rows[i].lesson : i \in { j \in found : p.rows[j].submitted } }
    <3>1. due \subseteq Lessons
      BY <2>1 DEF RowType
    <3>2. Answer(p, found) = NextQuery([p EXCEPT !.due = due])
      BY <1>1, <1>5, <2>4 DEF Answer
    <3> HIDE DEF due
    <3>3. PICK q : q = [p EXCEPT !.due = due]
      OBVIOUS
    <3>4. q.kind = p.kind /\ q.scope = p.scope /\ q.query = p.query /\ q.kept = p.kept /\ q.due = due
      BY <3>3 DEF Page
    <3> QED BY <1>3, <1>5, <3>1, <3>2, <3>3, <3>4
  <2> QED BY <2>3, <2>4
<1>6. CASE p.kind = "missing" /\ p.query = 3
  <2> DEFINE due == p.due \union { l \in found : p.rows[l].homework }
             shown == { i \in p.kept : records[i].lesson \in due }
  <2>1. Answer(p, found) = Show(p, shown)
    BY <1>6 DEF Answer
  <2>2. shown \subseteq 1..r /\ shown \subseteq 1..(r + e + n)
    <3>1. \A i \in 1..r : i \in 1..(r + e + n)
      OBVIOUS
    <3> QED BY <3>1
  <2> HIDE DEF due, shown
  <2> QED BY <1>2, <2>1, <2>2
<1> QED BY <1>4, <1>5, <1>6

(* A step of a page keeps the invariant if what it has read then fits.     *)
LEMMA ReadingKeeps ==
  ASSUME IInv, NEW pc, NEW next, Reading(pc, next), UNCHANGED <<form, sends>>,
         next \in Page, next.kind = page.kind,
         FromTable(next, Len(records), Len(events), Len(notes))
  PROVE  IInv'
<1>1. page' = next /\ UNCHANGED <<tables, notes, writes, pages, form, sends>> /\ Watch
  BY DEF Reading
<1>2. EverThere' /\ always'.rows \subseteq ever'.rows
  BY <1>1, WatchKeeps DEF IInv, Typed, PageFits, tables
<1>3. Typed' /\ PageFits'
  BY <1>1, <1>2 DEF IInv, Typed, PageFits, tables
<1>4. BatchesRun' /\ DispatchAccounts'
  BY <1>1 DEF IInv, BatchesRun, DispatchAccounts
<1> QED BY <1>3, <1>4 DEF IInv

(* What a page that is being read has: a kind, a scope, and its rows.      *)
LEMMA PageIs ==
  ASSUME IInv, page.pc \in Steps
  PROVE  /\ page \in Page /\ page.kind \in Kinds /\ page.scope \in Scopes
         /\ page.scope \in ScopeType
         /\ page.query > 1 => page.kind = "missing"
         /\ page.kept \subseteq 1..Len(records)
         /\ page.shown \subseteq 1..(Len(records) + Len(events) + Len(notes))
         /\ page.kind = "missing" => page.shown \subseteq 1..Len(records)
         /\ page.pc = "notes" => page.kind = "history"
         /\ page.pc # "rows" /\ page.kind # "counts" => HasRows(page, Len(records), Len(events))
BY ReadAssumption DEF IInv, Typed, PageFits, FromTable

(* A page that has read something more, but no rows, at another place.     *)
LEMMA MovesOn ==
  ASSUME IInv, page.pc \in Steps, NEW q \in Page, q.kind = page.kind, q.scope = page.scope,
         q.query = page.query, q.kept = page.kept, q.shown = page.shown, q.pc \in Steps,
         q.pc = "notes" => q.kind = "history",
         q.pc # "rows" /\ q.kind # "counts" => HasRows(q, Len(records), Len(events))
  PROVE  FromTable(q, Len(records), Len(events), Len(notes))
BY PageIs DEF FromTable, Steps

(* The rows of a page are read.                                            *)
LEMMA ReadRowsKeeps == ASSUME IInv, ReadRows, UNCHANGED <<form, sends>> PROVE IInv'
<1>1. page.pc = "rows" /\ page.pc \in Steps
  BY DEF ReadRows, Reading, Steps
<1>2. PICK rows : rows = Queried(page)
  OBVIOUS
<1>3. rows \in Rows
  BY <1>2 DEF Queried, IInv, Typed, Rows
<1>4. PICK p : p = [page EXCEPT !.rows = rows]
  OBVIOUS
<1>5. /\ p \in Page /\ p.kind = page.kind /\ p.scope = page.scope /\ p.query = page.query
      /\ p.kept = page.kept /\ p.shown = page.shown /\ p.rows = rows
  BY <1>1, <1>3, <1>4, PageIs DEF Page
<1>6. PICK r \in Nat, e \in Nat, n \in Nat : r = Len(records) /\ e = Len(events) /\ n = Len(notes)
  BY Lengths DEF IInv
<1>7. HasRows(p, r, e)
  BY <1>1, <1>2, <1>5, <1>6, PageIs DEF HasRows, Queried, IInv, Typed
<1>8. PICK next :
        /\ Reading("rows", next)
        /\ next = IF page.scope.kind # "all" /\ page.kind # "counts" THEN [p EXCEPT !.pc = "courses"]
                  ELSE IF page.kind = "history" THEN [p EXCEPT !.pc = "notes"]
                  ELSE Answer(p, IF page.scope.kind # "all" THEN Filtered(p) ELSE Fetched(p))
  BY <1>2, <1>4 DEF ReadRows
<1>9. next \in Page /\ next.kind = page.kind /\ FromTable(next, r, e, n)
  <2>1. ASSUME NEW pc \in {"courses", "notes"}, next = [p EXCEPT !.pc = pc],
               pc = "notes" => page.kind = "history"
        PROVE  next \in Page /\ next.kind = page.kind /\ FromTable(next, r, e, n)
    <3>1. /\ next \in Page /\ next.kind = p.kind /\ next.scope = p.scope /\ next.query = p.query
          /\ next.kept = p.kept /\ next.shown = p.shown /\ next.rows = p.rows /\ next.pc = pc
      BY <1>5, <2>1 DEF Page, Steps
    <3>2. HasRows(next, r, e)
      BY <1>7, <3>1 DEF HasRows
    <3>3. pc \in Steps
      BY DEF Steps
    <3> QED BY <1>1, <1>5, <1>6, <2>1, <3>1, <3>2, <3>3, MovesOn
  <2>2. CASE page.scope.kind # "all" /\ page.kind # "counts"
    BY <1>8, <2>1, <2>2
  <2>3. CASE ~(page.scope.kind # "all" /\ page.kind # "counts") /\ page.kind = "history"
    BY <1>8, <2>1, <2>3
  <2>4. CASE ~(page.scope.kind # "all" /\ page.kind # "counts") /\ page.kind # "history"
    <3>1. PICK found : found = IF page.scope.kind # "all" THEN Filtered(p) ELSE Fetched(p)
      OBVIOUS
    <3>2. found \subseteq DOMAIN p.rows
      BY <3>1 DEF Filtered, Fetched, Newest
    <3>3. next = Answer(p, found)
      BY <1>8, <2>4, <3>1
    <3>4. /\ p.kind \in Kinds /\ p.kind # "history" /\ p.scope \in Scopes
          /\ p.query > 1 => p.kind = "missing"
          /\ p.kept \subseteq 1..r
      BY <1>1, <1>5, <1>6, <2>4, PageIs
    <3> QED BY <1>5, <1>7, <3>2, <3>3, <3>4, AnswerFits
  <2> QED BY <2>2, <2>3, <2>4
<1> QED BY <1>6, <1>8, <1>9, ReadingKeeps

(* The courses are read.                                                   *)
LEMMA ReadCoursesKeeps == ASSUME IInv, ReadCourses, UNCHANGED <<form, sends>> PROVE IInv'
<1>1. page.pc = "courses" /\ page.pc \in Steps
  BY DEF ReadCourses, Reading, Steps
<1>2. PICK table \in CourseTable : table = courses
  BY DEF IInv, Typed
<1>3. PICK team \in SUBSET Anyone, pc \in {"team", "taught"} :
        Reading("courses", [page EXCEPT !.courses = table, !.team = team, !.pc = pc])
  <2>1. CASE page.scope.kind = "branch"
    <3>1. [page EXCEPT !.courses = table, !.pc = "team"]
          = [page EXCEPT !.courses = table, !.team = page.team, !.pc = "team"]
      BY <1>1, PageIs DEF Page
    <3>2. page.team \in SUBSET Anyone
      BY <1>1, PageIs DEF Page
    <3> QED BY <1>2, <2>1, <3>1, <3>2 DEF ReadCourses
  <2>2. CASE page.scope.kind # "branch"
    <3>1. {page.scope.id} \ {Nil} \in SUBSET Anyone
      BY <1>1, PageIs DEF ScopeType, Anyone
    <3> QED BY <1>2, <2>2, <3>1 DEF ReadCourses
  <2> QED BY <2>1, <2>2
<1>4. PICK next : next = [page EXCEPT !.courses = table, !.team = team, !.pc = pc]
  OBVIOUS
<1>5. /\ next \in Page /\ next.kind = page.kind /\ next.scope = page.scope /\ next.query = page.query
      /\ next.kept = page.kept /\ next.shown = page.shown /\ next.rows = page.rows /\ next.pc = pc
  BY <1>1, <1>4, PageIs DEF Page, Steps
<1>6. next.kind # "counts" => HasRows(next, Len(records), Len(events))
  BY <1>1, <1>5, PageIs DEF HasRows
<1>7. FromTable(next, Len(records), Len(events), Len(notes))
  BY <1>1, <1>5, <1>6, MovesOn DEF Steps
<1> QED BY <1>3, <1>4, <1>5, <1>7, ReadingKeeps

(* The teachers of the branch are read.                                    *)
LEMMA ReadTeamKeeps == ASSUME IInv, ReadTeam, UNCHANGED <<form, sends>> PROVE IInv'
<1>1. page.pc = "team" /\ page.pc \in Steps
  BY DEF ReadTeam, Reading, Steps
<1>2. TeamOf(page.scope, teachers) \subseteq Anyone
  BY <1>1, PageIs DEF TeamOf, ScopeType, Anyone
<1>3. PICK team \in SUBSET Anyone : team = TeamOf(page.scope, teachers)
  BY <1>2
<1>4. PICK next : next = [page EXCEPT !.team = team, !.pc = "taught"]
  OBVIOUS
<1>5. /\ next \in Page /\ next.kind = page.kind /\ next.scope = page.scope /\ next.query = page.query
      /\ next.kept = page.kept /\ next.shown = page.shown /\ next.rows = page.rows
      /\ next.pc = "taught"
  BY <1>1, <1>4, PageIs DEF Page, Steps
<1>6. next.kind # "counts" => HasRows(next, Len(records), Len(events))
  BY <1>1, <1>5, PageIs DEF HasRows
<1>7. FromTable(next, Len(records), Len(events), Len(notes))
  BY <1>1, <1>5, <1>6, MovesOn DEF Steps
<1>8. Reading("team", next)
  BY <1>3, <1>4 DEF ReadTeam
<1> QED BY <1>5, <1>7, <1>8, ReadingKeeps

(* The courses the teachers taught are read.                               *)
LEMMA ReadTaughtKeeps == ASSUME IInv, ReadTaught, UNCHANGED <<form, sends>> PROVE IInv'
<1>1. page.pc = "taught" /\ page.pc \in Steps
  BY DEF ReadTaught, Reading, Steps
<1>2. PICK taught \in SUBSET Courses : taught = TaughtBy(page.team, records)
  BY DEF TaughtBy
<1>3. PICK next : next = [page EXCEPT !.taught = taught, !.pc = "uids"]
  OBVIOUS
<1>4. /\ next \in Page /\ next.kind = page.kind /\ next.scope = page.scope /\ next.query = page.query
      /\ next.kept = page.kept /\ next.shown = page.shown /\ next.rows = page.rows
      /\ next.pc = "uids"
  BY <1>1, <1>3, PageIs DEF Page, Steps
<1>5. next.kind # "counts" => HasRows(next, Len(records), Len(events))
  BY <1>1, <1>4, PageIs DEF HasRows
<1>6. FromTable(next, Len(records), Len(events), Len(notes))
  BY <1>1, <1>4, <1>5, MovesOn DEF Steps
<1>7. Reading("taught", next)
  BY <1>2, <1>3 DEF ReadTaught
<1> QED BY <1>4, <1>6, <1>7, ReadingKeeps

(* The teachers in the scope are read, and the rows looked through.        *)
LEMMA ReadUidsKeeps == ASSUME IInv, ReadUids, UNCHANGED <<form, sends>> PROVE IInv'
<1>1. page.pc = "uids" /\ page.pc \in Steps
  BY DEF ReadUids, Reading, Steps
<1>2. TeamOf(page.scope, teachers) \subseteq Anyone
  BY <1>1, PageIs DEF TeamOf, ScopeType, Anyone
<1>3. PICK uids \in SUBSET Anyone : uids = TeamOf(page.scope, teachers)
  BY <1>2
<1>4. PICK p : p = [page EXCEPT !.uids = uids]
  OBVIOUS
<1>5. /\ p \in Page /\ p.kind = page.kind /\ p.scope = page.scope /\ p.query = page.query
      /\ p.kept = page.kept /\ p.shown = page.shown /\ p.rows = page.rows
  BY <1>1, <1>4, PageIs DEF Page
<1>6. PICK r \in Nat, e \in Nat, n \in Nat : r = Len(records) /\ e = Len(events) /\ n = Len(notes)
  BY Lengths DEF IInv
<1>7. p.kind # "counts" => HasRows(p, r, e)
  BY <1>1, <1>5, <1>6, PageIs DEF HasRows
<1>8. PICK next :
        /\ Reading("uids", next)
        /\ next = IF page.kind = "counts" THEN [p EXCEPT !.pc = "rows"]
                  ELSE IF page.kind = "history" THEN [p EXCEPT !.pc = "notes"]
                  ELSE Answer(p, Filtered(p))
  BY <1>3, <1>4 DEF ReadUids
<1>9. next \in Page /\ next.kind = page.kind /\ FromTable(next, r, e, n)
  <2>1. ASSUME NEW pc \in {"rows", "notes"}, next = [p EXCEPT !.pc = pc],
               pc = "notes" => page.kind = "history"
        PROVE  next \in Page /\ next.kind = page.kind /\ FromTable(next, r, e, n)
    <3>1. /\ next \in Page /\ next.kind = p.kind /\ next.scope = p.scope /\ next.query = p.query
          /\ next.kept = p.kept /\ next.shown = p.shown /\ next.rows = p.rows /\ next.pc = pc
      BY <1>5, <2>1 DEF Page, Steps
    <3>2. next.kind # "counts" => HasRows(next, r, e)
      BY <1>7, <3>1 DEF HasRows
    <3>3. pc \in Steps
      BY DEF Steps
    <3> QED BY <1>1, <1>5, <1>6, <2>1, <3>1, <3>2, <3>3, MovesOn
  <2>2. CASE page.kind \in {"counts", "history"}
    BY <1>8, <2>1, <2>2
  <2>3. CASE page.kind \notin {"counts", "history"}
    <3>1. PICK found : found = Filtered(p)
      OBVIOUS
    <3>2. found \subseteq DOMAIN p.rows
      BY <3>1 DEF Filtered, Fetched, Newest
    <3>3. next = Answer(p, found)
      BY <1>8, <2>3, <3>1
    <3>4. /\ p.kind \in Kinds /\ p.kind # "history" /\ p.scope \in Scopes
          /\ p.query > 1 => p.kind = "missing"
          /\ p.kept \subseteq 1..r /\ HasRows(p, r, e)
      BY <1>1, <1>5, <1>6, <1>7, <2>3, PageIs
    <3> QED BY <1>5, <3>2, <3>3, <3>4, AnswerFits
  <2> QED BY <2>2, <2>3
<1> QED BY <1>6, <1>8, <1>9, ReadingKeeps

(* The notices are read.                                                   *)
LEMMA ReadNotesKeeps == ASSUME IInv, ReadNotes, UNCHANGED <<form, sends>> PROVE IInv'
<1>1. page.pc = "notes" /\ page.pc \in Steps
  BY DEF ReadNotes, Reading, Steps
<1>2. PICK r \in Nat, e \in Nat, n \in Nat :
        r = Len(records) /\ e = Len(events) /\ n = Len(notes) /\ DOMAIN notes = 1..n
  BY Lengths DEF IInv
<1>3. PICK shown : shown = ShownNotes(page)
  OBVIOUS
<1>4. shown \subseteq 1..n
  BY <1>2, <1>3 DEF ShownNotes, Newest, Top
<1>5. \A i \in 1..n : i \in Nat /\ i \in 1..(r + e + n)
  OBVIOUS
<1>6. PICK next : next = [page EXCEPT !.pc = "shown", !.shown = shown]
  OBVIOUS
<1>7. /\ next \in Page /\ next.kind = page.kind /\ next.query = page.query
      /\ next.kept = page.kept /\ next.shown = shown /\ next.pc = "shown"
  BY <1>1, <1>4, <1>5, <1>6, PageIs DEF Page
<1>8. page.kind = "history"
  BY <1>1, PageIs
<1>9. FromTable(next, r, e, n)
  BY <1>1, <1>2, <1>4, <1>5, <1>7, <1>8, PageIs DEF FromTable, Steps
<1>10. Reading("notes", next)
  BY <1>3, <1>6 DEF ReadNotes, Show
<1> QED BY <1>2, <1>7, <1>9, <1>10, ReadingKeeps

(* A page is opened.                                                       *)
LEMMA OpenPageKeeps ==
  ASSUME IInv, NEW kind \in Kinds, NEW scope \in Scopes, OpenPage(kind, scope),
         UNCHANGED <<form, sends>>
  PROVE  IInv'
<1>1. /\ pages < MaxPages /\ pages' = pages + 1 /\ writes' = 0
      /\ ever' = Facts(page') /\ always' = ever' /\ UNCHANGED <<tables, notes>>
  BY DEF OpenPage
<1>2. PICK pc \in {"courses", "rows"} :
        page' = [NoPage EXCEPT !.kind = kind, !.scope = scope, !.pc = pc]
           /\ (pc = "courses" => kind = "counts")
  BY DEF OpenPage
<1>3. PICK z \in Page : z = NoPage /\ z.shown = {} /\ z.query = 1 /\ z.kept = {}
  BY NoPageIs DEF NoPage
<1>4. PICK next : next = [z EXCEPT !.kind = kind, !.scope = scope, !.pc = pc]
  OBVIOUS
<1>5. /\ next \in Page /\ next.kind = kind /\ next.scope = scope /\ next.pc = pc /\ next.query = 1
      /\ next.kept = {} /\ next.shown = {}
  BY <1>3, <1>4 DEF Page, Steps
<1>6. page' = next
  BY <1>2, <1>3, <1>4
<1>7. ASSUME NEW r, NEW e, NEW n PROVE FromTable(next, r, e, n)
  BY <1>2, <1>5 DEF FromTable
<1>8. EverThere'
  BY <1>1, <1>5, <1>6, MissingRows DEF EverThere, tables
<1>9. pages' \in 0..MaxPages
  BY <1>1, ReadAssumption DEF IInv, Typed
<1>10. 0 \in 0..(MaxWrites + 1)
  BY ReadAssumption
<1>11. Typed'
  BY <1>1, <1>5, <1>6, <1>9, <1>10 DEF IInv, Typed, tables
<1>12. PageFits' /\ BatchesRun' /\ DispatchAccounts'
  BY <1>1, <1>6, <1>7, <1>8 DEF IInv, PageFits, BatchesRun, DispatchAccounts, tables
<1> QED BY <1>11, <1>12 DEF IInv

-----------------------------------------------------------------------------
(* The writers.                                                            *)

(* What a webhook writes over a record is a record.                        *)
LEMMA RowChanged ==
  ASSUME NEW row \in RowType, NEW c \in Courses \union {Nil}, NEW sheet \in SheetType
  PROVE  /\ [row EXCEPT !.course = sheet.course, !.teacher = sheet.teacher,
                         !.recent = sheet.recent] \in RowType
         /\ [row EXCEPT !.course = c, !.submitted = TRUE] \in RowType
         /\ [row EXCEPT !.course = c] \in RowType
BY DEF RowType, SheetType

(* Tables of their types, that did not shrink, keep the invariant.         *)
LEMMA WriteKeeps ==
  ASSUME IInv, Write, UNCHANGED <<form, sends>>,
         courses' \in CourseTable, teachers' \in TeacherTable, lessons' \in [Lessons -> LessonType],
         records' \in Seq(RowType), events' \in Seq(RowType),
         Len(records) <= Len(records'), Len(events) <= Len(events')
  PROVE  IInv'
<1>1. UNCHANGED <<notes, page, pages>> /\ Watch /\ writes' = CountWrite
  BY DEF Write
<1>2. Typed
  BY DEF IInv
<1>3. DOMAIN records \subseteq DOMAIN records'
  <2>1. Len(records) \in Nat /\ Len(records') \in Nat
        /\ DOMAIN records = 1..Len(records) /\ DOMAIN records' = 1..Len(records')
    BY <1>2, LenProperties DEF Typed
  <2>2. \A x, y \in Nat : x <= y => 1..x \subseteq 1..y
    OBVIOUS
  <2> QED BY <2>1, <2>2
<1>4. EverThere' /\ always'.rows \subseteq ever'.rows
  BY <1>1, <1>2, <1>3, WatchKeeps DEF IInv, PageFits, Typed
<1>5. FromTable(page, Len(records'), Len(events'), Len(notes))
  <2>1. PICK r \in Nat, e \in Nat, n \in Nat, r2 \in Nat, e2 \in Nat :
          /\ r = Len(records) /\ e = Len(events) /\ n = Len(notes)
          /\ r2 = Len(records') /\ e2 = Len(events')
    BY <1>2, LenProperties DEF Typed
  <2>2. FromTable(page, r, e, n) /\ r <= r2 /\ e <= e2 /\ n <= n
    BY <2>1 DEF IInv, PageFits
  <2>3. FromTable(page, r2, e2, n)
    BY <2>1, <2>2, TablesGrow
  <2> QED BY <2>1, <2>3
<1>6. writes' \in 0..(MaxWrites + 1)
  BY <1>1, <1>2, CountWriteType
<1>7. Typed'
  BY <1>1, <1>2, <1>4, <1>6 DEF Typed
<1>8. PageFits' /\ BatchesRun' /\ DispatchAccounts'
  BY <1>1, <1>4, <1>5 DEF IInv, PageFits, BatchesRun, DispatchAccounts
<1> QED BY <1>7, <1>8 DEF IInv

(* A sync or the assignment page writes a course.                          *)
LEMMA CourseWritesKeep ==
  ASSUME IInv, NEW c \in Courses, UNCHANGED <<form, sends>>,
         \/ \E t \in Teachers : Lead(c, t)
         \/ \E b \in Branches \union {Nil} : AssignCourse(c, b)
  PROVE  IInv'
<1>1. courses \in CourseTable
  BY DEF IInv, Typed
<1>2. courses' \in CourseTable /\ UNCHANGED <<teachers, lessons, records, events>> /\ Write
  <2>1. ASSUME NEW t \in Teachers, Lead(c, t)
        PROVE  courses' \in CourseTable /\ UNCHANGED <<teachers, lessons, records, events>> /\ Write
    BY <1>1, <2>1 DEF Lead, CourseTable
  <2>2. ASSUME NEW b \in Branches \union {Nil}, AssignCourse(c, b)
        PROVE  courses' \in CourseTable /\ UNCHANGED <<teachers, lessons, records, events>> /\ Write
    BY <1>1, <2>2 DEF AssignCourse, CourseTable
  <2> QED BY <2>1, <2>2
<1> QED BY <1>2, WriteKeeps, Lengths DEF IInv, Typed

(* A record is written over.                                               *)
LEMMA OverwriteKeeps ==
  ASSUME IInv, NEW i \in DOMAIN records, NEW row \in RowType, Overwrite(i, row),
         UNCHANGED <<form, sends>>
  PROVE  IInv'
<1>1. records \in Seq(RowType) /\ i \in 1..Len(records)
  BY Lengths DEF IInv, Typed
<1>2. records' \in Seq(RowType) /\ Len(records') = Len(records)
  BY <1>1, ExceptSeq DEF Overwrite
<1> QED BY <1>2, WriteKeeps, Lengths DEF Overwrite, IInv, Typed

(* The event loop writes to a table.                                       *)
LEMMA LoopWritesKeep == ASSUME IInv, LoopWrites, UNCHANGED <<form, sends>> PROVE IInv'
<1>1. /\ courses \in CourseTable /\ teachers \in TeacherTable /\ lessons \in [Lessons -> LessonType]
      /\ records \in Seq(RowType) /\ events \in Seq(RowType)
      /\ Len(records) \in Nat /\ Len(events) \in Nat
      /\ DOMAIN records = 1..Len(records)
  BY Lengths DEF IInv, Typed
<1>2. ASSUME NEW l \in Lessons, NEW c \in Courses, NEW t \in Teachers \union {Nil}, HoldLesson(l, c, t)
      PROVE  IInv'
  <2>1. PICK teacher \in Teachers \union {Nil} : teacher = IF t = Nil THEN lessons[l].teacher ELSE t
    BY <1>1 DEF LessonType
  <2>2. lessons' = [lessons EXCEPT ![l].course = c, ![l].teacher = teacher]
    BY <1>1, <1>2, <2>1 DEF HoldLesson, LessonType
  <2>3. lessons' \in [Lessons -> LessonType]
    BY <1>1, <2>2 DEF LessonType
  <2> QED BY <1>1, <1>2, <2>3, WriteKeeps DEF HoldLesson
<1>3. ASSUME NEW t \in Teachers, NEW b \in Branches \union {Nil}, AssignTeacher(t, b) PROVE IInv'
  <2>1. teachers' \in TeacherTable
    BY <1>1, <1>3 DEF AssignTeacher, TeacherTable
  <2> QED BY <1>1, <1>3, <2>1, WriteKeeps DEF AssignTeacher
<1>4. ASSUME NEW l \in Lessons, GiveHomework(l) PROVE IInv'
  <2>1. lessons' \in [Lessons -> LessonType]
    BY <1>1, <1>4 DEF GiveHomework, LessonType
  <2> QED BY <1>1, <1>4, <2>1, WriteKeeps DEF GiveHomework
<1>5. ASSUME NEW row \in Fresh, InsertEvent(row) \/ AddRecord(row) PROVE IInv'
  <2>1. PICK r \in RowType : r = row
    BY ReadAssumption
  <2>2. CASE InsertEvent(row)
    <3>1. events' \in Seq(RowType) /\ Len(events') = Len(events) + 1
      BY <1>1, <2>1, <2>2, AppendProperties DEF InsertEvent
    <3>2. Len(events) <= Len(events')
      BY <1>1, <3>1
    <3> QED BY <1>1, <2>2, <3>1, <3>2, WriteKeeps DEF InsertEvent
  <2>3. CASE AddRecord(row)
    <3>1. records' \in Seq(RowType) /\ Len(records') = Len(records) + 1
      BY <1>1, <2>1, <2>3, AppendProperties DEF AddRecord
    <3>2. Len(records) <= Len(records')
      BY <1>1, <3>1
    <3> QED BY <1>1, <2>3, <3>1, <3>2, WriteKeeps DEF AddRecord
  <2> QED BY <1>5, <2>2, <2>3
<1>6. ASSUME NEW i \in DOMAIN records,
             \/ \E sheet \in Sheets : Attend(i, sheet)
             \/ \E c \in Courses \union {Nil} : Submit(i, c) \/ Patch(i, c)
      PROVE  IInv'
  <2>1. PICK old \in RowType : old = records[i]
    BY <1>1, ElementOfSeq
  <2>2. \E row \in RowType : Overwrite(i, row)
    <3>1. ASSUME NEW sheet \in Sheets, Attend(i, sheet) PROVE \E row \in RowType : Overwrite(i, row)
      <4>1. PICK sh \in SheetType : sh = sheet
        BY ReadAssumption
      <4>2. PICK row \in RowType : row = [old EXCEPT !.course = sh.course, !.teacher = sh.teacher,
                                                      !.recent = sh.recent]
        BY RowChanged
      <4> QED BY <2>1, <3>1, <4>1, <4>2 DEF Attend
    <3>2. ASSUME NEW c \in Courses \union {Nil}, Submit(i, c)
          PROVE  \E row \in RowType : Overwrite(i, row)
      <4>1. PICK row : row = [old EXCEPT !.course = c, !.submitted = TRUE]
        OBVIOUS
      <4>2. row \in RowType
        BY <4>1 DEF RowType
      <4> QED BY <2>1, <3>2, <4>1, <4>2 DEF Submit
    <3>3. ASSUME NEW c \in Courses \union {Nil}, Patch(i, c)
          PROVE  \E row \in RowType : Overwrite(i, row)
      <4>1. PICK row : row = [old EXCEPT !.course = c]
        OBVIOUS
      <4>2. row \in RowType
        BY <4>1 DEF RowType
      <4> QED BY <2>1, <3>3, <4>1, <4>2 DEF Patch
    <3> QED BY <1>6, <3>1, <3>2, <3>3
  <2> QED BY <2>2, OverwriteKeeps
<1> QED BY <1>2, <1>3, <1>4, <1>5, <1>6 DEF LoopWrites

-----------------------------------------------------------------------------
(* Theorems.                                                               *)

(* Every step keeps the invariant.                                         *)
LEMMA NextInv == ASSUME IInv, [Next]_allVars PROVE IInv'
<1>1. CASE PoolSteps /\ UNCHANGED <<form, sends>>
  BY <1>1, OpenPageKeeps, ReadRowsKeeps, ReadCoursesKeeps, ReadTeamKeeps, ReadTaughtKeeps,
     ReadUidsKeeps, ReadNotesKeeps, CourseWritesKeep DEF PoolSteps
<1>2. CASE ~Running /\ LoopWrites /\ UNCHANGED <<form, sends>>
  BY <1>2, LoopWritesKeep
<1>3. CASE Compose
  BY <1>3, ComposeKeeps
<1>4. CASE \E messages \in Posts, live \in BOOLEAN : Send(messages, live)
  BY <1>4, SendKeeps
<1>5. CASE DispatchSteps
  BY <1>5, SendOneKeeps, RecordOneKeeps, RecordFailsKeeps DEF DispatchSteps
<1>6. CASE Crash
  BY <1>6, CrashKeeps
<1>7. CASE UNCHANGED allVars
  BY <1>7 DEF IInv, Typed, PageFits, EverThere, BatchesRun, DispatchAccounts, allVars, vars, tables
<1> QED BY <1>1, <1>2, <1>3, <1>4, <1>5, <1>6, <1>7 DEF Next

LEMMA Invariance == Spec => []IInv
<1>1. Init => IInv
  BY InitInv
<1>2. IInv /\ [Next]_allVars => IInv'
  BY NextInv
<1> QED BY <1>1, <1>2, PTL DEF Spec

(* TypeOK: the tables, the page, the form and the batches keep their       *)
(* types, a batch that runs is at one of its messages, and all others are  *)
(* over.                                                                   *)
THEOREM TypeCorrect == Spec => []TypeOK
<1>1. IInv => TypeOK
  <2> SUFFICES ASSUME IInv PROVE TypeOK
    OBVIOUS
  <2>1. /\ records \in Seq(RowType) /\ notes \in Seq(NoteType) /\ page \in Page /\ form \in FormType
        /\ sends \in Seq(BatchType) /\ Len(sends) <= MaxSends
    BY DEF IInv, Typed
  <2>2. PageTypeOK
    <3>1. \A i \in DOMAIN notes : notes[i].student \in Students
      <4>1. \A i \in DOMAIN notes : notes[i] \in NoteType
        BY <2>1, LenProperties, ElementOfSeq
      <4> QED BY <4>1 DEF NoteType
    <3>2. page.pc \in Steps \union {"closed", "shown"} /\ page.query \in 1..3 /\ page.due \subseteq Lessons
      BY <2>1 DEF Page
    <3>3. /\ page.query > 1 => page.kind = "missing"
          /\ page.kept \subseteq DOMAIN records
          /\ page.shown \subseteq 1..(Len(records) + Len(events) + Len(notes))
      BY Lengths DEF IInv, PageFits, FromTable
    <3> QED BY <3>1, <3>2, <3>3 DEF IInv, Typed, PageTypeOK
  <2>3. form.students \in Seq(Students) /\ form.missed \subseteq Students
    BY <2>1 DEF FormType
  <2>4. ASSUME NEW b \in DOMAIN sends
        PROVE  /\ sends[b].pc \in {"send", "record", "done", "cut"}
               /\ sends[b].status \in {Nil, "dry_run", "sent", "failed"}
               /\ sends[b].messages \in Seq(Students)
               /\ sends[b].pc \in {"send", "record"} => sends[b].at \in DOMAIN sends[b].messages
               /\ sends[b].pc = "record" => sends[b].status # Nil
    <3>1. sends[b] \in BatchType
      BY <2>1, LenProperties, ElementOfSeq
    <3>2. Runs(sends[b], Cardinality(RowsOf(notes, b)))
      BY DEF IInv, BatchesRun
    <3> QED BY <3>1, <3>2 DEF BatchType, Runs
  <2>5. \A b \in 1..(Len(sends) - 1) : sends[b].pc \in {"done", "cut"}
    BY DEF IInv, BatchesRun
  <2> QED BY <2>1, <2>2, <2>3, <2>4, <2>5 DEF TypeOK
<1> QED BY <1>1, Invariance, PTL

(* DispatchAccounts: what notify_history says of every batch is true: its  *)
(* rows are its messages in their order, one each; sent is a message that  *)
(* was delivered; only the one at which it was cut has no row; and a batch *)
(* that was not cut has them all.                                          *)
THEOREM HistoryIsTrue == Spec => []DispatchAccounts
<1>1. IInv => DispatchAccounts
  BY DEF IInv
<1> QED BY <1>1, Invariance, PTL

-----------------------------------------------------------------------------
(* What a page shows.  A page that was read while no more than one row was *)
(* written has read each table as it was before that write or after it: T  *)
(* is the store before, N the store now.                                   *)

Store ==
    [courses : CourseTable, teachers : TeacherTable, lessons : [Lessons -> LessonType],
     records : Seq(RowType), events : Seq(RowType), notes : Seq(NoteType)]

Now ==
    [courses |-> courses, teachers |-> teachers, lessons |-> lessons, records |-> records,
     events |-> events, notes |-> notes]

(* The keys of a scope, and the rows in it, in a store.                    *)
Uids(s, T) == TeamOf(s, T.teachers)
Ids(s, T) == CourseIds(s, T.courses, Uids(s, T), TaughtBy(Uids(s, T), T.records))

RowsAt(s, T, rows) ==
    { i \in DOMAIN rows : s.kind = "all" \/ InScope(rows[i], Ids(s, T), Uids(s, T)) }

PeopleAt(s, T) == { T.records[i].student : i \in RowsAt(s, T, T.records) }

(* What is so in a store, for a page: see Facts.                           *)
MineAt(kind, s, T) ==
    CASE kind = "history" ->
           { i \in DOMAIN T.notes : s.kind = "all" \/ T.notes[i].student \in PeopleAt(s, T) }
      [] kind \in {"events", "counts"} -> RowsAt(s, T, T.events)
      [] OTHER -> RowsAt(s, T, T.records)

OpenAt(T) == { i \in DOMAIN T.records : T.records[i].recent /\ ~T.records[i].submitted }
ToldAt(s, T) == { i \in RowsAt(s, T, T.records) : T.records[i].submitted }
HomeworkAt(s, T) == { l \in RowsAt(s, T, T.lessons) : T.lessons[l].homework }

(* Facts that tell all that is so in a store, or nothing else.             *)
Knows(f, kind, s, T) ==
    /\ MineAt(kind, s, T) \subseteq f.rows
    /\ kind = "missing" => /\ OpenAt(T) \subseteq f.open /\ ToldAt(s, T) \subseteq f.told
                           /\ HomeworkAt(s, T) \subseteq f.homework

Holds(f, kind, s, T) ==
    /\ f.rows \subseteq MineAt(kind, s, T)
    /\ kind = "missing" => /\ f.open \subseteq OpenAt(T) /\ f.told \subseteq ToldAt(s, T)
                           /\ f.homework \subseteq HomeworkAt(s, T)

(* The rows of the store are of its types.                                 *)
LEMMA NowTyped == Typed => Now \in Store
BY DEF Typed, Store, Now

(* A teacher, or a course, is in a scope if its keys say so.               *)
LEMMA OwnIsKeys ==
  ASSUME Typed, NEW s \in ScopeType
  PROVE  /\ \A t \in Teachers \union {Nil} : OwnTeacher(s, t) <=> s.kind # "all" /\ t \in Uids(s, Now)
         /\ s.kind # "all" => \A c \in Courses \union {Nil} : OwnCourse(s, c) <=> c \in Ids(s, Now)
<1>1. PICK T : T = Now
  OBVIOUS
<1>2. T.courses = courses /\ T.teachers = teachers /\ T.records = records
  BY <1>1 DEF Now
<1>3. s.kind \in {"all", "branch", "teacher"} /\ s.id \in Branches \union Teachers \union {Nil}
  BY DEF ScopeType
<1>4. Nil \notin Courses \union Teachers \union Branches
  BY ReadAssumption
<1>5. ASSUME NEW t \in Teachers \union {Nil}
      PROVE  OwnTeacher(s, t) <=> s.kind # "all" /\ t \in Uids(s, T)
  BY <1>2, <1>3, <1>4 DEF OwnTeacher, Uids, TeamOf
<1>6. ASSUME s.kind # "all", NEW c \in Courses \union {Nil}
      PROVE  OwnCourse(s, c) <=> c \in Ids(s, T)
  <2>1. CASE c = Nil
    BY <1>4, <2>1 DEF OwnCourse, Ids, CourseIds
  <2>2. CASE c # Nil
    <3>1. c \in Courses
      BY <2>2
    <3>2. courses[c].teacher \in Teachers \union {Nil}
      BY <3>1 DEF Typed, CourseTable
    <3>3. \A i \in DOMAIN records : records[i].teacher \in Teachers \union {Nil}
      <4>1. \A i \in DOMAIN records : records[i] \in RowType
        BY Lengths, ElementOfSeq DEF Typed
      <4> QED BY <4>1 DEF RowType
    <3>4. c \in TaughtBy(Uids(s, T), records)
            <=> \E i \in DOMAIN records : records[i].course = c /\ OwnTeacher(s, records[i].teacher)
      BY <1>5, <1>6, <3>1, <3>3 DEF TaughtBy
    <3>5. OwnTeacher(s, courses[c].teacher) <=> courses[c].teacher \in Uids(s, T)
      BY <1>5, <1>6, <3>2
    <3> QED BY <1>2, <2>2, <3>1, <3>4, <3>5 DEF OwnCourse, Ids, CourseIds
  <2> QED BY <2>1, <2>2
<1> QED BY <1>1, <1>5, <1>6

(* The rows in scope are those the keys tell.                              *)
LEMMA RowsNowIs ==
  ASSUME Typed, NEW s \in ScopeType
  PROVE  /\ RowsNow(s, records) = RowsAt(s, Now, records)
         /\ RowsNow(s, events) = RowsAt(s, Now, events)
         /\ RowsNow(s, lessons) = RowsAt(s, Now, lessons)
<1>1. ASSUME NEW rows,
             \A i \in DOMAIN rows : /\ rows[i].teacher \in Teachers \union {Nil}
                                    /\ rows[i].course \in Courses \union {Nil}
      PROVE  RowsNow(s, rows) = RowsAt(s, Now, rows)
  <2>1. CASE s.kind = "all"
    BY <2>1 DEF RowsNow, RowsAt
  <2>2. CASE s.kind # "all"
    <3>1. ASSUME NEW i \in DOMAIN rows
          PROVE  OwnTeacher(s, rows[i].teacher) \/ OwnCourse(s, rows[i].course)
                   <=> InScope(rows[i], Ids(s, Now), Uids(s, Now))
      BY <1>1, <2>2, OwnIsKeys DEF InScope
    <3> QED BY <2>2, <3>1 DEF RowsNow, RowsAt
  <2> QED BY <2>1, <2>2
<1>2. ASSUME NEW rows \in Seq(RowType), NEW i \in DOMAIN rows
      PROVE  rows[i].teacher \in Teachers \union {Nil} /\ rows[i].course \in Courses \union {Nil}
  <2>1. rows[i] \in RowType
    BY LenProperties, ElementOfSeq
  <2> QED BY <2>1 DEF RowType
<1>3. \A i \in DOMAIN lessons : /\ lessons[i].teacher \in Teachers \union {Nil}
                                /\ lessons[i].course \in Courses \union {Nil}
  BY DEF Typed, LessonType
<1> QED BY <1>1, <1>2, <1>3 DEF Typed

(* The facts of a page are what is so in the store now.                    *)
LEMMA FactsOf ==
  ASSUME Typed, NEW p, p.scope \in ScopeType
  PROVE  Knows(Facts(p), p.kind, p.scope, Now) /\ Holds(Facts(p), p.kind, p.scope, Now)
<1>1. PICK s \in ScopeType : s = p.scope
  OBVIOUS
<1>2. PICK T : T = Now
  OBVIOUS
<1>3. T.lessons = lessons /\ T.records = records /\ T.events = events /\ T.notes = notes
  BY <1>2 DEF Now
<1>4. /\ RowsNow(s, records) = RowsAt(s, T, records)
      /\ RowsNow(s, events) = RowsAt(s, T, events)
      /\ RowsNow(s, lessons) = RowsAt(s, T, lessons)
  BY <1>1, <1>2, RowsNowIs
<1>5. PICK f : f = Facts(p)
  OBVIOUS
<1>6. f.rows = MineAt(p.kind, s, T)
  <2>1. f.rows = CASE p.kind = "history" ->
                        { i \in DOMAIN notes : \/ s.kind = "all"
                                               \/ \E j \in RowsNow(s, records) :
                                                     records[j].student = notes[i].student }
                   [] p.kind \in {"events", "counts"} -> RowsNow(s, events)
                   [] OTHER -> RowsNow(s, records)
    BY <1>1, <1>5 DEF Facts
  <2>2. CASE p.kind = "history"
    <3>1. \A i \in DOMAIN notes : (\E j \in RowsNow(s, records) : records[j].student = notes[i].student)
                                   <=> notes[i].student \in PeopleAt(s, T)
      BY <1>3, <1>4 DEF PeopleAt
    <3>2. MineAt(p.kind, s, T) =
            { i \in DOMAIN notes : s.kind = "all" \/ notes[i].student \in PeopleAt(s, T) }
      BY <1>3, <2>2 DEF MineAt
    <3> QED BY <2>1, <2>2, <3>1, <3>2
  <2>3. CASE p.kind \in {"events", "counts"}
    BY <1>3, <1>4, <2>1, <2>3 DEF MineAt
  <2>4. CASE p.kind \notin {"history", "events", "counts"}
    BY <1>3, <1>4, <2>1, <2>4 DEF MineAt
  <2> QED BY <2>2, <2>3, <2>4
<1>7. ASSUME p.kind = "missing"
      PROVE  f.open = OpenAt(T) /\ f.told = ToldAt(s, T) /\ f.homework = HomeworkAt(s, T)
  <2>1. /\ f.open = { i \in DOMAIN records : p.kind = "missing" /\ records[i].recent
                                               /\ ~records[i].submitted }
        /\ f.told = { i \in RowsNow(s, records) : p.kind = "missing" /\ records[i].submitted }
        /\ f.homework = { l \in RowsNow(s, lessons) : p.kind = "missing" /\ lessons[l].homework }
    BY <1>1, <1>5 DEF Facts
  <2>2. f.open = OpenAt(T)
    BY <1>3, <1>7, <2>1 DEF OpenAt
  <2>3. f.told = ToldAt(s, T)
    BY <1>3, <1>4, <1>7, <2>1 DEF ToldAt
  <2>4. f.homework = HomeworkAt(s, T)
    BY <1>3, <1>4, <1>7, <2>1 DEF HomeworkAt
  <2> QED BY <2>2, <2>3, <2>4
<1>8. Knows(f, p.kind, s, T) /\ Holds(f, p.kind, s, T)
  BY <1>6, <1>7 DEF Knows, Holds
<1> QED BY <1>1, <1>2, <1>5, <1>8

LEMMA FactsNow ==
  Typed /\ page.scope \in ScopeType
    => Knows(Facts(page), page.kind, page.scope, Now) /\ Holds(Facts(page), page.kind, page.scope, Now)
<1> SUFFICES ASSUME Typed, page.scope \in ScopeType
             PROVE  /\ Knows(Facts(page), page.kind, page.scope, Now)
                    /\ Holds(Facts(page), page.kind, page.scope, Now)
  OBVIOUS
<1>1. PICK p : p = page
  OBVIOUS
<1>2. Knows(Facts(p), p.kind, p.scope, Now) /\ Holds(Facts(p), p.kind, p.scope, Now)
  BY <1>1, FactsOf
<1> QED BY <1>1, <1>2

(* ... and so in the next state.                                           *)
LEMMA FactsNext ==
  (Typed /\ page.scope \in ScopeType)'
    => (Knows(Facts(page), page.kind, page.scope, Now)
          /\ Holds(Facts(page), page.kind, page.scope, Now))'
BY FactsNow, PTL

(* What a page watched for goes on to tell what it told, and what is so    *)
(* now.                                                                    *)
LEMMA WatchTells ==
  ASSUME Watch, Typed', page'.scope \in ScopeType,
         NEW kind, NEW s, kind = page'.kind, s = page'.scope, NEW N, N = Now'
  PROVE  /\ Knows(ever', kind, s, N) /\ Holds(always', kind, s, N)
         /\ \A T : Knows(ever, kind, s, T) => Knows(ever', kind, s, T)
         /\ \A T : Holds(always, kind, s, T) => Holds(always', kind, s, T)
<1>1. PICK f : f = Facts(page)'
  OBVIOUS
<1>2. PICK e, a, e2, a2 : e = ever /\ a = always /\ e2 = ever' /\ a2 = always'
  OBVIOUS
<1>3. e2 = Either(e, f) /\ a2 = Both(a, f)
  BY <1>1, <1>2 DEF Watch
<1>4. (Knows(Facts(page), page.kind, page.scope, Now) /\ Holds(Facts(page), page.kind, page.scope, Now))'
  BY FactsNext
<1>5. Knows(f, kind, s, N) /\ Holds(f, kind, s, N)
  BY <1>1, <1>4
<1>6. /\ e2.rows = e.rows \union f.rows /\ e2.open = e.open \union f.open
      /\ e2.told = e.told \union f.told /\ e2.homework = e.homework \union f.homework
  BY <1>3, EitherIs
<1>7. /\ a2.rows = a.rows \intersect f.rows /\ a2.open = a.open \intersect f.open
      /\ a2.told = a.told \intersect f.told /\ a2.homework = a.homework \intersect f.homework
  BY <1>3, BothIs
<1>8. Knows(e2, kind, s, N) /\ \A T : Knows(e, kind, s, T) => Knows(e2, kind, s, T)
  BY <1>5, <1>6 DEF Knows
<1>9. Holds(a2, kind, s, N) /\ \A T : Holds(a, kind, s, T) => Holds(a2, kind, s, T)
  BY <1>5, <1>7 DEF Holds
<1> QED BY <1>2, <1>8, <1>9

-----------------------------------------------------------------------------
(* What one write can change.                                              *)

(* It marks, and never unmarks, a submission or a lesson's homework; rows  *)
(* keep their lesson and their student.                                    *)
Older(T, N) ==
    /\ \A i \in DOMAIN T.records \intersect DOMAIN N.records :
         /\ T.records[i].lesson = N.records[i].lesson /\ T.records[i].student = N.records[i].student
         /\ T.records[i].submitted => N.records[i].submitted
    /\ \A l \in Lessons : T.lessons[l].homework => N.lessons[l].homework
    /\ DOMAIN T.records \subseteq DOMAIN N.records
    /\ \A i \in DOMAIN T.notes \intersect DOMAIN N.notes : T.notes[i] = N.notes[i]
    /\ DOMAIN T.notes \subseteq DOMAIN N.notes

(* The keys come from three tables, of which it writes one.                *)
OneOfThree(T, N) ==
    \/ T.teachers = N.teachers /\ T.records = N.records
    \/ T.courses = N.courses /\ T.records = N.records
    \/ T.courses = N.courses /\ T.teachers = N.teachers

(* What keys find, each of them of one store or of the other, in rows r or *)
(* R of either: all that were in scope both times, and none that was at    *)
(* neither.                                                                *)
Finding(rows, ids, uids) == { i \in DOMAIN rows : InScope(rows[i], ids, uids) }

Sifted(s, found, T, r, N, R) ==
    /\ RowsAt(s, T, r) \intersect RowsAt(s, N, R) \subseteq found
    /\ found \subseteq RowsAt(s, T, r) \union RowsAt(s, N, R)

(* ... of records, what tells of homework told of it at one of the times,  *)
(* and so of lessons; and everyone of both times is found.                 *)
Tells(s, found, rows, T, N) ==
    \A j \in found : rows[j].submitted => j \in ToldAt(s, T) \union ToldAt(s, N)

Gives(s, found, rows, T, N) ==
    \A l \in found : rows[l].homework => l \in HomeworkAt(s, T) \union HomeworkAt(s, N)

Meets(s, found, rows, T, N) ==
    PeopleAt(s, T) \intersect PeopleAt(s, N) \subseteq { rows[j].student : j \in found }

FindsRecords(s, T, N, rows, ids, uids) ==
    LET found == Finding(rows, ids, uids)
    IN  /\ Sifted(s, found, T, T.records, N, N.records)
        /\ Tells(s, found, rows, T, N)
        /\ Meets(s, found, rows, T, N)

FindsLessons(s, T, N, rows, ids, uids) ==
    LET found == Finding(rows, ids, uids)
    IN  Sifted(s, found, T, T.lessons, N, N.lessons) /\ Gives(s, found, rows, T, N)

FindsEvents(s, T, N, rows, ids, uids) ==
    Sifted(s, Finding(rows, ids, uids), T, T.events, N, N.events)

Finds(s, T, N) ==
    \A ids \in {Ids(s, T), Ids(s, N)}, uids \in {Uids(s, T), Uids(s, N)} :
        /\ \A rows \in {T.records, N.records} : FindsRecords(s, T, N, rows, ids, uids)
        /\ \A rows \in {T.lessons, N.lessons} : FindsLessons(s, T, N, rows, ids, uids)
        /\ \A rows \in {T.events, N.events} : FindsEvents(s, T, N, rows, ids, uids)

OneWrite(s, T, N) ==
    /\ Older(T, N)
    /\ OneOfThree(T, N)
    /\ T.notes = N.notes \/ PeopleAt(s, T) = PeopleAt(s, N)
    /\ s.kind # "all" => Finds(s, T, N)

(* Rows of tables.                                                         *)
LEMMA RowTypes ==
  ASSUME NEW T \in Store
  PROVE  /\ \A i \in DOMAIN T.records : T.records[i] \in RowType
         /\ \A i \in DOMAIN T.events : T.events[i] \in RowType
         /\ \A l \in Lessons : T.lessons[l] \in LessonType
         /\ \A i \in DOMAIN T.notes : T.notes[i] \in NoteType
         /\ DOMAIN T.lessons = Lessons
<1>1. /\ T.records \in Seq(RowType) /\ T.events \in Seq(RowType) /\ T.notes \in Seq(NoteType)
      /\ T.lessons \in [Lessons -> LessonType]
  BY DEF Store
<1>2. \A S : \A q \in Seq(S) : \A i \in DOMAIN q : q[i] \in S
  BY LenProperties, ElementOfSeq
<1> QED BY <1>1, <1>2

(* More teachers are more courses.                                         *)
LEMMA KeysMonotone ==
  ASSUME NEW s, NEW c1, NEW u, NEW U, u \subseteq U, NEW r
  PROVE  CourseIds(s, c1, u, TaughtBy(u, r)) \subseteq CourseIds(s, c1, U, TaughtBy(U, r))
BY DEF CourseIds, TaughtBy

(* A row that teaches the scope nothing adds no course.                    *)
LEMMA OtherRows ==
  ASSUME NEW s, NEW c1, NEW u, NEW i, NEW r, NEW R,
         \A j : j # i => (j \in DOMAIN r => j \in DOMAIN R /\ R[j] = r[j]),
         i \in DOMAIN r => r[i].teacher \notin u
  PROVE  CourseIds(s, c1, u, TaughtBy(u, r)) \subseteq CourseIds(s, c1, u, TaughtBy(u, R))
<1>1. TaughtBy(u, r) \subseteq TaughtBy(u, R)
  <2> SUFFICES ASSUME NEW c \in Courses, NEW j \in DOMAIN r, r[j].course = c, r[j].teacher \in u
               PROVE  \E k \in DOMAIN R : R[k].course = c /\ R[k].teacher \in u
    BY DEF TaughtBy
  <2>1. j # i
    OBVIOUS
  <2>2. j \in DOMAIN R /\ R[j] = r[j]
    BY <2>1
  <2> QED BY <2>2
<1> QED BY <1>1 DEF CourseIds

(* The keys of one store find in its rows what is in scope there.          *)
LEMMA OwnFinding ==
  ASSUME NEW s, s.kind # "all", NEW X, NEW r
  PROVE  Finding(r, Ids(s, X), Uids(s, X)) = RowsAt(s, X, r)
BY DEF Finding, RowsAt

LEMMA OwnFinds ==
  ASSUME NEW s, s.kind # "all", NEW T, NEW N, NEW X \in {T, N}
  PROVE  /\ FindsRecords(s, T, N, X.records, Ids(s, X), Uids(s, X))
         /\ FindsLessons(s, T, N, X.lessons, Ids(s, X), Uids(s, X))
         /\ FindsEvents(s, T, N, X.events, Ids(s, X), Uids(s, X))
<1>1. \A r : Finding(r, Ids(s, X), Uids(s, X)) = RowsAt(s, X, r)
  BY OwnFinding
<1>2. FindsRecords(s, T, N, X.records, Ids(s, X), Uids(s, X))
  <2>1. PICK found : found = RowsAt(s, X, X.records)
    OBVIOUS
  <2>2. Sifted(s, found, T, T.records, N, N.records)
    BY <2>1 DEF Sifted
  <2>3. Tells(s, found, X.records, T, N)
    BY <2>1 DEF Tells, ToldAt
  <2>4. Meets(s, found, X.records, T, N)
    BY <2>1 DEF Meets, PeopleAt
  <2> QED BY <1>1, <2>1, <2>2, <2>3, <2>4 DEF FindsRecords
<1>3. FindsLessons(s, T, N, X.lessons, Ids(s, X), Uids(s, X))
  <2>1. PICK found : found = RowsAt(s, X, X.lessons)
    OBVIOUS
  <2>2. Sifted(s, found, T, T.lessons, N, N.lessons)
    BY <2>1 DEF Sifted
  <2>3. Gives(s, found, X.lessons, T, N)
    BY <2>1 DEF Gives, HomeworkAt
  <2> QED BY <1>1, <2>1, <2>2, <2>3 DEF FindsLessons
<1>4. FindsEvents(s, T, N, X.events, Ids(s, X), Uids(s, X))
  BY <1>1 DEF FindsEvents, Sifted
<1> QED BY <1>2, <1>3, <1>4

(* A course's row is written.                                              *)
LEMMA CourseWrite ==
  ASSUME NEW s, NEW T, NEW N,
         N.teachers = T.teachers, N.lessons = T.lessons, N.records = T.records,
         N.events = T.events, N.notes = T.notes
  PROVE  OneWrite(s, T, N)
<1>1. Uids(s, T) = Uids(s, N)
  BY DEF Uids
<1>2. ASSUME s.kind # "all" PROVE Finds(s, T, N)
  <2> SUFFICES ASSUME NEW ids \in {Ids(s, T), Ids(s, N)}, NEW uids \in {Uids(s, T), Uids(s, N)}
               PROVE  /\ FindsRecords(s, T, N, T.records, ids, uids)
                      /\ FindsLessons(s, T, N, T.lessons, ids, uids)
                      /\ FindsEvents(s, T, N, T.events, ids, uids)
    BY DEF Finds
  <2>1. PICK X \in {T, N} : ids = Ids(s, X)
    OBVIOUS
  <2>2. /\ uids = Uids(s, X) /\ X.records = T.records /\ X.lessons = T.lessons
        /\ X.events = T.events
    BY <1>1, <2>1
  <2>3. /\ FindsRecords(s, T, N, X.records, Ids(s, X), Uids(s, X))
        /\ FindsLessons(s, T, N, X.lessons, Ids(s, X), Uids(s, X))
        /\ FindsEvents(s, T, N, X.events, Ids(s, X), Uids(s, X))
    BY <1>2, OwnFinds
  <2> QED BY <2>1, <2>2, <2>3
<1>3. Older(T, N) /\ OneOfThree(T, N)
  BY DEF Older, OneOfThree
<1> QED BY <1>2, <1>3 DEF OneWrite

(* Keys between those of two stores find in rows of both what is between.  *)
LEMMA BetweenKeys ==
  ASSUME NEW s, s.kind # "all", NEW d, NEW D, NEW ids, NEW uids, NEW r,
         Ids(s, d) \subseteq ids, ids \subseteq Ids(s, D),
         Uids(s, d) \subseteq uids, uids \subseteq Uids(s, D)
  PROVE  /\ RowsAt(s, d, r) \subseteq Finding(r, ids, uids)
         /\ Finding(r, ids, uids) \subseteq RowsAt(s, D, r)
BY DEF RowsAt, Finding, InScope

Sides(T, N, d, D) == (d = T /\ D = N) \/ (d = N /\ D = T)

LEMMA BetweenFinds ==
  ASSUME NEW s, s.kind # "all", NEW T, NEW N,
         N.lessons = T.lessons, N.records = T.records, N.events = T.events,
         NEW d, NEW D, Sides(T, N, d, D), NEW ids, NEW uids,
         Ids(s, d) \subseteq ids, ids \subseteq Ids(s, D),
         Uids(s, d) \subseteq uids, uids \subseteq Uids(s, D)
  PROVE  /\ FindsRecords(s, T, N, T.records, ids, uids)
         /\ FindsLessons(s, T, N, T.lessons, ids, uids)
         /\ FindsEvents(s, T, N, T.events, ids, uids)
<1>1. ASSUME NEW r
      PROVE  /\ Sifted(s, Finding(r, ids, uids), T, r, N, r)
             /\ RowsAt(s, d, r) \subseteq Finding(r, ids, uids)
  <2>1. /\ RowsAt(s, d, r) \subseteq Finding(r, ids, uids)
        /\ Finding(r, ids, uids) \subseteq RowsAt(s, D, r)
    BY BetweenKeys
  <2>2. CASE d = T /\ D = N
    BY <2>1, <2>2 DEF Sifted
  <2>3. CASE d = N /\ D = T
    BY <2>1, <2>3 DEF Sifted
  <2> QED BY <2>1, <2>2, <2>3 DEF Sides
<1>2. PICK r, l, e : r = T.records /\ l = T.lessons /\ e = T.events
  OBVIOUS
<1>3. FindsRecords(s, T, N, r, ids, uids)
  <2>1. PICK found : found = Finding(r, ids, uids)
    OBVIOUS
  <2>2. Sifted(s, found, T, T.records, N, N.records) /\ RowsAt(s, d, r) \subseteq found
    BY <1>1, <1>2, <2>1
  <2>3. Tells(s, found, r, T, N)
    BY <1>2, <2>2 DEF Tells, ToldAt, Sifted
  <2>4. Meets(s, found, r, T, N)
    <3>1. PeopleAt(s, d) = { r[j].student : j \in RowsAt(s, d, r) }
      BY <1>2 DEF PeopleAt, Sides
    <3>2. PeopleAt(s, d) \subseteq { r[j].student : j \in found }
      BY <2>2, <3>1
    <3> QED BY <3>2 DEF Meets, Sides
  <2> QED BY <2>1, <2>2, <2>3, <2>4 DEF FindsRecords
<1>4. FindsLessons(s, T, N, l, ids, uids)
  <2>1. PICK found : found = Finding(l, ids, uids)
    OBVIOUS
  <2>2. Sifted(s, found, T, T.lessons, N, N.lessons)
    BY <1>1, <1>2, <2>1
  <2>3. Gives(s, found, l, T, N)
    BY <1>2, <2>2 DEF Gives, HomeworkAt, Sifted
  <2> QED BY <2>1, <2>2, <2>3 DEF FindsLessons
<1>5. FindsEvents(s, T, N, e, ids, uids)
  BY <1>1, <1>2 DEF FindsEvents
<1> QED BY <1>2, <1>3, <1>4, <1>5

(* A teacher's row is written: it moves the keys one way.                  *)
LEMMA TeacherWrite ==
  ASSUME NEW s, NEW T, NEW N, NEW t \in Teachers,
         \A x \in Teachers : x # t => N.teachers[x] = T.teachers[x],
         N.courses = T.courses, N.lessons = T.lessons, N.records = T.records,
         N.events = T.events, N.notes = T.notes
  PROVE  OneWrite(s, T, N)
<1>1. \/ Uids(s, T) \subseteq Uids(s, N)
      \/ Uids(s, N) \subseteq Uids(s, T)
  <2>1. CASE s.kind = "teacher"
    BY <2>1 DEF Uids, TeamOf
  <2>2. CASE s.kind # "teacher"
    <3>1. \A x \in Teachers : x # t => (x \in Uids(s, T) <=> x \in Uids(s, N))
      BY <2>2 DEF Uids, TeamOf
    <3>2. Uids(s, T) \subseteq Teachers /\ Uids(s, N) \subseteq Teachers
      BY <2>2 DEF Uids, TeamOf
    <3>3. CASE t \in Uids(s, N)
      BY <3>1, <3>2, <3>3
    <3>4. CASE t \notin Uids(s, N)
      BY <3>1, <3>2, <3>4
    <3> QED BY <3>3, <3>4
  <2> QED BY <2>1, <2>2
<1>2. PICK d \in {T, N}, D \in {T, N} : Sides(T, N, d, D) /\ Uids(s, d) \subseteq Uids(s, D)
  BY <1>1 DEF Sides
<1>3. Ids(s, d) \subseteq Ids(s, D)
  <2>1. PICK c1, r, u, U : /\ c1 = d.courses /\ r = d.records /\ u = Uids(s, d) /\ U = Uids(s, D)
                           /\ D.courses = c1 /\ D.records = r
    BY <1>2
  <2>2. CourseIds(s, c1, u, TaughtBy(u, r)) \subseteq CourseIds(s, c1, U, TaughtBy(U, r))
    BY <1>2, <2>1, KeysMonotone
  <2> QED BY <2>1, <2>2 DEF Ids
<1>4. ASSUME s.kind # "all" PROVE Finds(s, T, N)
  <2> SUFFICES ASSUME NEW ids \in {Ids(s, T), Ids(s, N)}, NEW uids \in {Uids(s, T), Uids(s, N)}
               PROVE  /\ FindsRecords(s, T, N, T.records, ids, uids)
                      /\ FindsLessons(s, T, N, T.lessons, ids, uids)
                      /\ FindsEvents(s, T, N, T.events, ids, uids)
    BY DEF Finds
  <2>1. /\ Ids(s, d) \subseteq ids /\ ids \subseteq Ids(s, D)
        /\ Uids(s, d) \subseteq uids /\ uids \subseteq Uids(s, D)
    BY <1>2, <1>3 DEF Sides
  <2> QED BY <1>2, <1>4, <2>1, BetweenFinds
<1>5. Older(T, N) /\ OneOfThree(T, N)
  BY DEF Older, OneOfThree
<1> QED BY <1>4, <1>5 DEF OneWrite


(* Of records that are alike but for one row, of one student in both, the  *)
(* keys of the one store find in those of the other what they should: where *)
(* the row no longer teaches the scope, what it was found by was the scope *)
(* of before.                                                              *)
Alike(i, r, R) ==
    /\ \A j : j # i => /\ j \in DOMAIN r <=> j \in DOMAIN R
                       /\ j \in DOMAIN r => r[j] = R[j]
    /\ i \in DOMAIN r /\ i \in DOMAIN R =>
         /\ r[i].student = R[i].student
         /\ r[i].teacher # R[i].teacher => r[i].submitted = R[i].submitted

LEMMA CrossFinds ==
  ASSUME NEW s, s.kind # "all", NEW X, NEW Y, NEW i,
         Uids(s, X) = Uids(s, Y), X.courses = Y.courses, Alike(i, X.records, Y.records)
  PROVE  FindsRecords(s, X, Y, Y.records, Ids(s, X), Uids(s, X))
<1>1. PICK U, c1, r, R : /\ U = Uids(s, X) /\ U = Uids(s, Y) /\ c1 = X.courses /\ c1 = Y.courses
                         /\ r = X.records /\ R = Y.records
  OBVIOUS
<1>2. PICK kX, kY : kX = Ids(s, X) /\ kY = Ids(s, Y)
  OBVIOUS
<1>3. kX = CourseIds(s, c1, U, TaughtBy(U, r)) /\ kY = CourseIds(s, c1, U, TaughtBy(U, R))
  BY <1>1, <1>2 DEF Ids
<1>4. PICK found : found = Finding(R, kX, U)
  OBVIOUS
<1>5. /\ RowsAt(s, X, r) = { j \in DOMAIN r : InScope(r[j], kX, U) }
      /\ RowsAt(s, Y, R) = { j \in DOMAIN R : InScope(R[j], kY, U) }
      /\ found = { j \in DOMAIN R : InScope(R[j], kX, U) }
  BY <1>1, <1>2, <1>4 DEF RowsAt, Finding
<1>6. /\ \A j : j # i => /\ j \in DOMAIN r <=> j \in DOMAIN R
                         /\ j \in DOMAIN r => r[j] = R[j]
      /\ i \in DOMAIN r /\ i \in DOMAIN R =>
           /\ r[i].student = R[i].student
           /\ r[i].teacher # R[i].teacher => r[i].submitted = R[i].submitted
  BY <1>1 DEF Alike
<1>7. ASSUME i \in DOMAIN R => R[i].teacher \notin U PROVE kY \subseteq kX
  <2>1. \A j : j # i => (j \in DOMAIN R => j \in DOMAIN r /\ r[j] = R[j])
    BY <1>6
  <2>2. CourseIds(s, c1, U, TaughtBy(U, R)) \subseteq CourseIds(s, c1, U, TaughtBy(U, r))
    BY <1>7, <2>1, OtherRows
  <2> QED BY <1>3, <2>2
<1>8. ASSUME i \in DOMAIN r => r[i].teacher \notin U PROVE kX \subseteq kY
  <2>1. \A j : j # i => (j \in DOMAIN r => j \in DOMAIN R /\ R[j] = r[j])
    BY <1>6
  <2>2. CourseIds(s, c1, U, TaughtBy(U, r)) \subseteq CourseIds(s, c1, U, TaughtBy(U, R))
    BY <1>8, <2>1, OtherRows
  <2> QED BY <1>3, <2>2
<1>9. ASSUME NEW j, j # i PROVE j \in found <=> j \in RowsAt(s, X, r)
  BY <1>5, <1>6, <1>9
<1>10. i \in RowsAt(s, Y, R) => i \in found
  <2> SUFFICES ASSUME i \in RowsAt(s, Y, R) PROVE InScope(R[i], kX, U)
    BY <1>5
  <2>1. CASE R[i].teacher \in U
    BY <2>1 DEF InScope
  <2>2. CASE R[i].teacher \notin U
    BY <1>5, <1>7, <2>2 DEF InScope
  <2> QED BY <2>1, <2>2
<1>11. ASSUME i \in found
       PROVE  i \in RowsAt(s, Y, R) \/ (i \in RowsAt(s, X, r) /\ r[i].teacher # R[i].teacher)
  <2>1. CASE R[i].teacher \in U
    BY <1>5, <1>11, <2>1 DEF InScope
  <2>2. CASE R[i].teacher \notin U /\ (i \in DOMAIN r => r[i].teacher \notin U)
    BY <1>5, <1>8, <1>11, <2>2 DEF InScope
  <2>3. CASE R[i].teacher \notin U /\ i \in DOMAIN r /\ r[i].teacher \in U
    BY <1>5, <2>3 DEF InScope
  <2> QED BY <2>1, <2>2, <2>3
<1>12. Sifted(s, found, X, r, Y, R)
  BY <1>9, <1>10, <1>11 DEF Sifted
<1>13. ASSUME NEW j \in found, R[j].submitted
       PROVE  j \in ToldAt(s, X) \union ToldAt(s, Y)
  <2>1. CASE j # i
    BY <1>1, <1>5, <1>6, <1>9, <1>13, <2>1 DEF ToldAt
  <2>2. CASE j = i /\ i \in RowsAt(s, Y, R)
    BY <1>1, <1>13, <2>2 DEF ToldAt
  <2>3. CASE j = i /\ i \in RowsAt(s, X, r) /\ r[i].teacher # R[i].teacher
    BY <1>1, <1>5, <1>6, <1>13, <2>3 DEF ToldAt
  <2> QED BY <1>11, <2>1, <2>2, <2>3
<1>14. ASSUME NEW x, x \in PeopleAt(s, X), x \in PeopleAt(s, Y)
       PROVE  \E j \in found : R[j].student = x
  <2>1. PICK a \in RowsAt(s, X, r) : r[a].student = x
    BY <1>1, <1>14 DEF PeopleAt
  <2>2. CASE a # i
    BY <1>5, <1>6, <1>9, <2>1, <2>2
  <2>3. CASE a = i
    <3>1. PICK b \in RowsAt(s, Y, R) : R[b].student = x
      BY <1>1, <1>14 DEF PeopleAt
    <3>2. CASE b = i
      BY <1>10, <3>1, <3>2
    <3>3. CASE b # i /\ i \in DOMAIN R /\ R[i].teacher \in U
      <4>1. i \in found
        BY <1>5, <3>3 DEF InScope
      <4>2. i \in DOMAIN r
        BY <1>5, <2>3
      <4> QED BY <1>6, <2>1, <2>3, <3>3, <4>1, <4>2
    <3>4. CASE i \in DOMAIN R => R[i].teacher \notin U
      <4>1. kY \subseteq kX
        BY <1>7, <3>4
      <4>2. InScope(R[b], kY, U) /\ b \in DOMAIN R
        BY <1>5
      <4>3. b \in found
        BY <1>5, <4>1, <4>2 DEF InScope
      <4> QED BY <3>1, <4>3
    <3> QED BY <3>2, <3>3, <3>4
  <2> QED BY <2>2, <2>3
<1>15. FindsRecords(s, X, Y, R, kX, U)
  <2>1. Sifted(s, found, X, X.records, Y, Y.records)
    BY <1>1, <1>12
  <2>2. Tells(s, found, R, X, Y)
    BY <1>13 DEF Tells
  <2>3. Meets(s, found, R, X, Y)
    BY <1>14 DEF Meets
  <2> QED BY <1>4, <2>1, <2>2, <2>3 DEF FindsRecords
<1> QED BY <1>1, <1>2, <1>15

(* The two stores can change places.                                       *)
LEMMA FindsSwap ==
  ASSUME NEW s, NEW X, NEW Y, NEW rows, NEW ids, NEW uids,
         FindsRecords(s, X, Y, rows, ids, uids)
  PROVE  FindsRecords(s, Y, X, rows, ids, uids)
<1>1. PICK found : found = Finding(rows, ids, uids)
  OBVIOUS
<1>2. /\ Sifted(s, found, X, X.records, Y, Y.records) /\ Tells(s, found, rows, X, Y)
      /\ Meets(s, found, rows, X, Y)
  BY <1>1 DEF FindsRecords
<1>3. Sifted(s, found, Y, Y.records, X, X.records)
  BY <1>2 DEF Sifted
<1>4. Tells(s, found, rows, Y, X)
  BY <1>2 DEF Tells
<1>5. Meets(s, found, rows, Y, X)
  BY <1>2 DEF Meets
<1> QED BY <1>1, <1>3, <1>4, <1>5 DEF FindsRecords

LEMMA AlikeSwap == ASSUME NEW i, NEW r, NEW R, Alike(i, r, R) PROVE Alike(i, R, r)
BY DEF Alike

(* A record is written.                                                    *)
LEMMA RecordWrite ==
  ASSUME NEW s, NEW T, NEW N, NEW i,
         N.courses = T.courses, N.teachers = T.teachers, N.lessons = T.lessons,
         N.events = T.events, N.notes = T.notes, Older(T, N), Alike(i, T.records, N.records)
  PROVE  OneWrite(s, T, N)
<1>1. Uids(s, T) = Uids(s, N)
  BY DEF Uids
<1>2. ASSUME s.kind # "all" PROVE Finds(s, T, N)
  <2> SUFFICES ASSUME NEW ids \in {Ids(s, T), Ids(s, N)}, NEW uids \in {Uids(s, T), Uids(s, N)},
                      NEW rows \in {T.records, N.records}
               PROVE  /\ FindsRecords(s, T, N, rows, ids, uids)
                      /\ FindsLessons(s, T, N, T.lessons, ids, uids)
                      /\ FindsEvents(s, T, N, T.events, ids, uids)
    BY DEF Finds
  <2>1. PICK X \in {T, N} : ids = Ids(s, X)
    OBVIOUS
  <2>2. uids = Uids(s, X) /\ X.lessons = T.lessons /\ X.events = T.events
    BY <1>1, <2>1
  <2>3. /\ FindsRecords(s, T, N, X.records, Ids(s, X), Uids(s, X))
        /\ FindsLessons(s, T, N, X.lessons, Ids(s, X), Uids(s, X))
        /\ FindsEvents(s, T, N, X.events, Ids(s, X), Uids(s, X))
    BY <1>2, OwnFinds
  <2>4. FindsRecords(s, T, N, rows, ids, uids)
    <3>1. CASE rows = X.records
      BY <2>1, <2>2, <2>3, <3>1
    <3>2. CASE X = T /\ rows = N.records
      <4>1. FindsRecords(s, T, N, N.records, Ids(s, T), Uids(s, T))
        BY <1>1, <1>2, CrossFinds
      <4> QED BY <2>1, <2>2, <3>2, <4>1
    <3>3. CASE X = N /\ rows = T.records
      <4>1. Alike(i, N.records, T.records)
        BY AlikeSwap
      <4>2. FindsRecords(s, N, T, T.records, Ids(s, N), Uids(s, N))
        BY <1>1, <1>2, <4>1, CrossFinds
      <4>3. FindsRecords(s, T, N, T.records, Ids(s, N), Uids(s, N))
        BY <4>2, FindsSwap
      <4> QED BY <2>1, <2>2, <3>3, <4>3
    <3> QED BY <3>1, <3>2, <3>3
  <2> QED BY <2>1, <2>2, <2>3, <2>4
<1>3. OneOfThree(T, N)
  BY DEF OneOfThree
<1> QED BY <1>2, <1>3 DEF OneWrite

(* A lesson, an event or a notice is written.                              *)
LEMMA OtherWrite ==
  ASSUME NEW s, NEW T, NEW N,
         N.courses = T.courses, N.teachers = T.teachers, N.records = T.records, Older(T, N)
  PROVE  OneWrite(s, T, N)
<1>1. Uids(s, T) = Uids(s, N) /\ Ids(s, T) = Ids(s, N)
  BY DEF Uids, Ids
<1>2. ASSUME s.kind # "all" PROVE Finds(s, T, N)
  <2>1. \A X \in {T, N} : /\ FindsRecords(s, T, N, X.records, Ids(s, T), Uids(s, T))
                          /\ FindsLessons(s, T, N, X.lessons, Ids(s, T), Uids(s, T))
                          /\ FindsEvents(s, T, N, X.events, Ids(s, T), Uids(s, T))
    <3> SUFFICES ASSUME NEW X \in {T, N}
                 PROVE  /\ FindsRecords(s, T, N, X.records, Ids(s, T), Uids(s, T))
                        /\ FindsLessons(s, T, N, X.lessons, Ids(s, T), Uids(s, T))
                        /\ FindsEvents(s, T, N, X.events, Ids(s, T), Uids(s, T))
      OBVIOUS
    <3>1. /\ FindsRecords(s, T, N, X.records, Ids(s, X), Uids(s, X))
          /\ FindsLessons(s, T, N, X.lessons, Ids(s, X), Uids(s, X))
          /\ FindsEvents(s, T, N, X.events, Ids(s, X), Uids(s, X))
      BY <1>2, OwnFinds
    <3>2. Ids(s, X) = Ids(s, T) /\ Uids(s, X) = Uids(s, T)
      BY <1>1
    <3> QED BY <3>1, <3>2
  <2> QED BY <1>1, <2>1 DEF Finds
<1>3. PeopleAt(s, T) = PeopleAt(s, N)
  BY <1>1 DEF PeopleAt, RowsAt
<1>4. OneOfThree(T, N)
  BY DEF OneOfThree
<1> QED BY <1>2, <1>3, <1>4 DEF OneWrite

(* No write is one, too.                                                   *)
LEMMA NoWrite == ASSUME NEW s, NEW T PROVE OneWrite(s, T, T)
<1>1. Older(T, T)
  BY DEF Older
<1> QED BY <1>1, OtherWrite

-----------------------------------------------------------------------------
(* What a page has read.                                                   *)

Table(p, T) ==
    IF p.kind \in {"events", "counts"} THEN T.events
    ELSE IF p.query = 3 THEN T.lessons ELSE T.records

(* The counts read their rows last.                                        *)
Late(p) == p.kind = "counts" /\ p.pc = "rows"

HasCourses(p, T, N) == p.courses \in {T.courses, N.courses}
HasTeam(p, T, N) == p.team \in {Uids(p.scope, T), Uids(p.scope, N)}
HasTaught(p, T, N) == p.taught \in {TaughtBy(p.team, T.records), TaughtBy(p.team, N.records)}
HasUids(p, T, N) == p.uids \in {Uids(p.scope, T), Uids(p.scope, N)}

HasRead(p, T, N) ==
    /\ p.pc \in {"courses", "team", "taught", "uids"} => p.scope.kind # "all"
    /\ p.pc # "rows" /\ p.kind # "counts" => p.rows \in {Table(p, T), Table(p, N)}
    /\ p.scope.kind # "all" =>
         /\ Late(p) \/ p.pc \in {"team", "taught", "uids", "notes"} => HasCourses(p, T, N)
         /\ Late(p) \/ p.pc \in {"taught", "uids", "notes"} => HasTeam(p, T, N)
         /\ Late(p) \/ p.pc \in {"uids", "notes"} => HasTaught(p, T, N)
         /\ Late(p) \/ p.pc = "notes" => HasUids(p, T, N)

(* What missing homework has kept of its first two queries.                *)
FoundIn(s, found, rows, T, N) ==
    /\ Sifted(s, found, T, T.records, N, N.records)
    /\ rows \in {T.records, N.records} /\ found \subseteq DOMAIN rows
    /\ Tells(s, found, rows, T, N)

HasKept(p, T, N) ==
    p.query > 1 => \E found, rows :
        /\ FoundIn(p.scope, found, rows, T, N)
        /\ p.kept = { i \in found : rows[i].recent /\ ~rows[i].submitted }

HasDue(p, T, N) ==
    p.query = 3 => \E found, rows :
        /\ FoundIn(p.scope, found, rows, T, N)
        /\ p.due = { rows[i].lesson : i \in { j \in found : rows[j].submitted } }

(* A page whose reading began in a store is still right about it, and about *)
(* the one after a write.                                                  *)
LEMMA ReadBefore ==
  ASSUME NEW p, NEW T, NEW N, HasRead(p, T, T), HasKept(p, T, T), HasDue(p, T, T), Older(T, N)
  PROVE  HasRead(p, T, N) /\ HasKept(p, T, N) /\ HasDue(p, T, N)
<1>1. HasRead(p, T, N)
  BY DEF HasRead, HasCourses, HasTeam, HasTaught, HasUids
<1>2. \A s, found, rows : FoundIn(s, found, rows, T, T) => FoundIn(s, found, rows, T, N)
  BY DEF FoundIn, Sifted, Tells
<1> QED BY <1>1, <1>2 DEF HasKept, HasDue

(* The keys a page has read are those of one store or of the other.        *)
LEMMA KeysRead ==
  ASSUME NEW p, NEW T, NEW N, OneOfThree(T, N),
         HasCourses(p, T, N), HasTeam(p, T, N), HasTaught(p, T, N)
  PROVE  CourseIds(p.scope, p.courses, p.team, p.taught) \in {Ids(p.scope, T), Ids(p.scope, N)}
<1>1. CASE T.teachers = N.teachers /\ T.records = N.records
  BY <1>1 DEF HasCourses, HasTeam, HasTaught, Uids, Ids
<1>2. CASE T.courses = N.courses /\ T.records = N.records
  BY <1>2 DEF HasCourses, HasTeam, HasTaught, Uids, Ids
<1>3. CASE T.courses = N.courses /\ T.teachers = N.teachers
  BY <1>3 DEF HasCourses, HasTeam, HasTaught, Uids, Ids
<1> QED BY <1>1, <1>2, <1>3 DEF OneOfThree

(* The rows a page found, before its limit.                                *)
Found(p) ==
    { i \in DOMAIN p.rows : p.scope.kind = "all"
        \/ InScope(p.rows[i], CourseIds(p.scope, p.courses, p.team, p.taught), p.uids) }

(* They are what they should be: records, lessons or events.               *)
FoundFits(p, T, N) ==
    /\ Sifted(p.scope, Found(p), T, Table(p, T), N, Table(p, N))
    /\ p.kind \in {"records", "missing", "history"} /\ p.query # 3 =>
         /\ Tells(p.scope, Found(p), p.rows, T, N)
         /\ p.scope.kind # "all" => Meets(p.scope, Found(p), p.rows, T, N)
    /\ p.kind = "missing" /\ p.query = 3 => Gives(p.scope, Found(p), p.rows, T, N)

LEMMA FoundSifts ==
  ASSUME NEW p, p.kind \in Kinds, p.query > 1 => p.kind = "missing", p.query \in 1..3,
         NEW T, NEW N, OneWrite(p.scope, T, N),
         p.rows \in {Table(p, T), Table(p, N)},
         p.scope.kind # "all" =>
           HasCourses(p, T, N) /\ HasTeam(p, T, N) /\ HasTaught(p, T, N) /\ HasUids(p, T, N)
  PROVE  FoundFits(p, T, N)
<1>1. CASE p.scope.kind = "all"
  <2>1. Found(p) = DOMAIN p.rows
    BY <1>1 DEF Found
  <2>2. \A X, r : RowsAt(p.scope, X, r) = DOMAIN r
    BY <1>1 DEF RowsAt
  <2>3. Sifted(p.scope, Found(p), T, Table(p, T), N, Table(p, N))
    BY <2>1, <2>2 DEF Sifted
  <2>4. ASSUME p.rows \in {T.records, N.records} PROVE Tells(p.scope, Found(p), p.rows, T, N)
    BY <2>1, <2>2, <2>4 DEF Tells, ToldAt
  <2>5. ASSUME p.rows \in {T.lessons, N.lessons} PROVE Gives(p.scope, Found(p), p.rows, T, N)
    BY <2>1, <2>2, <2>5 DEF Gives, HomeworkAt
  <2> QED BY <1>1, <2>3, <2>4, <2>5 DEF FoundFits, Table
<1>2. CASE p.scope.kind # "all"
  <2>1. PICK ids \in {Ids(p.scope, T), Ids(p.scope, N)} :
          ids = CourseIds(p.scope, p.courses, p.team, p.taught)
    BY <1>2, KeysRead DEF OneWrite
  <2>2. PICK uids \in {Uids(p.scope, T), Uids(p.scope, N)} : uids = p.uids
    BY <1>2 DEF HasUids
  <2>3. PICK s, rows : s = p.scope /\ rows = p.rows
    OBVIOUS
  <2>4. Found(p) = Finding(rows, ids, uids)
    BY <1>2, <2>1, <2>2, <2>3 DEF Found, Finding
  <2>5. Finds(s, T, N)
    BY <1>2, <2>3 DEF OneWrite
  <2>6. ids \in {Ids(s, T), Ids(s, N)} /\ uids \in {Uids(s, T), Uids(s, N)}
    BY <2>3
  <2>7. /\ rows \in {T.records, N.records} => FindsRecords(s, T, N, rows, ids, uids)
        /\ rows \in {T.lessons, N.lessons} => FindsLessons(s, T, N, rows, ids, uids)
        /\ rows \in {T.events, N.events} => FindsEvents(s, T, N, rows, ids, uids)
    BY <2>5, <2>6 DEF Finds
  <2>8. CASE p.kind \in {"events", "counts"}
    <3>1. Table(p, T) = T.events /\ Table(p, N) = N.events /\ rows \in {T.events, N.events}
      BY <2>3, <2>8 DEF Table
    <3>2. Sifted(s, Found(p), T, Table(p, T), N, Table(p, N))
      BY <2>4, <2>7, <3>1 DEF FindsEvents
    <3> QED BY <2>3, <2>8, <3>2 DEF FoundFits
  <2>9. CASE p.kind \notin {"events", "counts"} /\ p.query = 3
    <3>1. Table(p, T) = T.lessons /\ Table(p, N) = N.lessons /\ rows \in {T.lessons, N.lessons}
      BY <2>3, <2>9 DEF Table
    <3>2. Sifted(s, Found(p), T, Table(p, T), N, Table(p, N)) /\ Gives(s, Found(p), rows, T, N)
      BY <2>4, <2>7, <3>1 DEF FindsLessons
    <3> QED BY <2>3, <2>9, <3>2 DEF FoundFits
  <2>10. CASE p.kind \notin {"events", "counts"} /\ p.query # 3
    <3>1. Table(p, T) = T.records /\ Table(p, N) = N.records /\ rows \in {T.records, N.records}
      BY <2>3, <2>10 DEF Table
    <3>2. /\ Sifted(s, Found(p), T, Table(p, T), N, Table(p, N)) /\ Tells(s, Found(p), rows, T, N)
          /\ Meets(s, Found(p), rows, T, N)
      BY <2>4, <2>7, <3>1 DEF FindsRecords
    <3> QED BY <2>3, <2>10, <3>2 DEF FoundFits
  <2> QED BY <2>8, <2>9, <2>10
<1> QED BY <1>1, <1>2

(* The rows in either store are rows of the store now, of the same lesson  *)
(* and student.                                                            *)
LEMMA RowsAreNow ==
  ASSUME NEW T, NEW N, Older(T, N), NEW rows \in {T.records, N.records}, NEW i \in DOMAIN rows
  PROVE  /\ i \in DOMAIN N.records /\ rows[i].lesson = N.records[i].lesson
         /\ rows[i].student = N.records[i].student
         /\ rows[i].submitted => N.records[i].submitted
         /\ i \in DOMAIN T.records /\ T.records[i].submitted => rows[i].submitted
BY DEF Older

-----------------------------------------------------------------------------
(* What a page shows, of the store before a write and after it.            *)

(* A row that its limit may leave out.                                     *)
Limits(kind, s, N, shown, i) ==
    \/ kind = "events" /\ Len(N.events) - i >= Limit
    \/ /\ kind = "history"
       /\ \/ Cardinality({ j \in shown : j > i }) >= Limit
          \/ s.kind # "all" /\ Len(N.notes) - i >= Scan

(* What a page should show by some facts, with these records.              *)
DueIn(kind, f, R) ==
    IF kind # "missing" THEN f.rows
    ELSE { i \in f.rows \intersect f.open :
             R[i].lesson \in f.homework \union { R[j].lesson : j \in f.told } }

LEMMA DueIs == ASSUME NEW kind, NEW f PROVE Due(kind, f) = DueIn(kind, f, records)
BY DEF Due, DueIn

Right(kind, s, shown, T, N) ==
    /\ \A e : Knows(e, kind, s, T) /\ Knows(e, kind, s, N) =>
                shown \subseteq DueIn(kind, e, N.records)
    /\ \A a : Holds(a, kind, s, T) /\ Holds(a, kind, s, N) =>
                \A i \in DueIn(kind, a, N.records) \ shown : Limits(kind, s, N, shown, i)

(* Of rows that are not missing homework only the scope counts.            *)
LEMMA RightOf ==
  ASSUME NEW kind, kind # "missing", NEW s, NEW shown, NEW T, NEW N,
         shown \subseteq MineAt(kind, s, T) \union MineAt(kind, s, N),
         \A i \in (MineAt(kind, s, T) \intersect MineAt(kind, s, N)) \ shown :
            Limits(kind, s, N, shown, i)
  PROVE  Right(kind, s, shown, T, N)
<1>1. ASSUME NEW e, Knows(e, kind, s, T), Knows(e, kind, s, N)
      PROVE  shown \subseteq DueIn(kind, e, N.records)
  BY <1>1 DEF Knows, DueIn
<1>2. ASSUME NEW a, Holds(a, kind, s, T), Holds(a, kind, s, N),
             NEW i \in DueIn(kind, a, N.records) \ shown
      PROVE  Limits(kind, s, N, shown, i)
  <2>1. i \in MineAt(kind, s, T) \intersect MineAt(kind, s, N)
    BY <1>2 DEF Holds, DueIn
  <2> QED BY <1>2, <2>1
<1> QED BY <1>1, <1>2 DEF Right

(* The rows a page goes on with are those found, but for the limit.        *)
LEMMA FoundIs ==
  ASSUME NEW p
  PROVE  (IF p.scope.kind # "all" THEN Filtered(p) ELSE Fetched(p)) = Found(p) \intersect Fetched(p)
<1>1. Fetched(p) \subseteq DOMAIN p.rows
  BY DEF Fetched, Newest
<1>2. CASE p.scope.kind = "all"
  BY <1>1, <1>2 DEF Found
<1>3. CASE p.scope.kind # "all"
  BY <1>1, <1>3 DEF Found, Filtered
<1> QED BY <1>2, <1>3

IsFound(p, found) == found = Found(p) \intersect Fetched(p)

(* Records, counts and events are right.                                   *)
LEMMA ListRight ==
  ASSUME NEW p, p.kind \in {"records", "counts", "events"}, p.query = 1,
         NEW T \in Store, NEW N \in Store,
         Sifted(p.scope, Found(p), T, Table(p, T), N, Table(p, N)),
         HasRows(p, Len(N.records), Len(N.events)), NEW found, IsFound(p, found)
  PROVE  Right(p.kind, p.scope, found, T, N)
<1>1. ASSUME NEW X PROVE MineAt(p.kind, p.scope, X) = RowsAt(p.scope, X, Table(p, X))
  BY DEF MineAt, Table
<1>2. PICK before, after : before = MineAt(p.kind, p.scope, T) /\ after = MineAt(p.kind, p.scope, N)
  OBVIOUS
<1>3. before \intersect after \subseteq Found(p) /\ Found(p) \subseteq before \union after
  BY <1>1, <1>2 DEF Sifted
<1>4. Found(p) \subseteq DOMAIN p.rows
  BY DEF Found
<1>5. ASSUME NEW i \in Found(p), i \notin Fetched(p)
      PROVE  p.kind = "events" /\ Len(N.events) - i >= Limit
  <2>1. /\ p.kind = "events" /\ i \in DOMAIN p.rows /\ ~(i + Limit > Len(p.rows))
        /\ p.rows \in Seq(RowType) /\ Len(p.rows) <= Len(N.events)
    BY <1>4, <1>5 DEF Fetched, Newest, HasRows
  <2>2. N.events \in Seq(RowType)
    BY DEF Store
  <2>3. PICK n, k \in Nat : n = Len(N.events) /\ k = Len(p.rows) /\ i \in 1..k /\ k <= n
    BY <2>1, <2>2, LenProperties
  <2>4. i + Limit <= k
    BY <2>1, <2>3, ReadAssumption
  <2> QED BY <2>1, <2>3, <2>4, ReadAssumption
<1>6. found = Found(p) \intersect Fetched(p)
  BY DEF IsFound
<1>7. found \subseteq before \union after
  BY <1>3, <1>6
<1>8. \A i \in (before \intersect after) \ found : Limits(p.kind, p.scope, N, found, i)
  BY <1>3, <1>5, <1>6 DEF Limits
<1> QED BY <1>2, <1>7, <1>8, RightOf

(* Missing homework is right: the records f1 of r1 and f2 of r2 and the    *)
(* lessons f3 of l3 are what it found in its three queries.                *)
LEMMA MissingRight ==
  ASSUME NEW p, p.kind = "missing", p.query = 3, NEW T \in Store, NEW N \in Store,
         OneWrite(p.scope, T, N), p.rows \in {Table(p, T), Table(p, N)}, FoundFits(p, T, N),
         HasKept(p, T, N), HasDue(p, T, N)
  PROVE  Right(p.kind, p.scope,
               { i \in p.kept : N.records[i].lesson \in
                                  p.due \union { l \in Found(p) : p.rows[l].homework } }, T, N)
<1>1. PICK f1, r1 : /\ FoundIn(p.scope, f1, r1, T, N)
                    /\ p.kept = { i \in f1 : r1[i].recent /\ ~r1[i].submitted }
  BY DEF HasKept
<1>2. PICK f2, r2 : /\ FoundIn(p.scope, f2, r2, T, N)
                    /\ p.due = { r2[i].lesson : i \in { j \in f2 : r2[j].submitted } }
  BY DEF HasDue
<1>3. PICK s, f3, l3, R : s = p.scope /\ f3 = Found(p) /\ l3 = p.rows /\ R = N.records
  OBVIOUS
<1>4. /\ Table(p, T) = T.lessons /\ Table(p, N) = N.lessons /\ l3 \in {T.lessons, N.lessons}
      /\ Sifted(s, f3, T, T.lessons, N, N.lessons) /\ Gives(s, f3, l3, T, N)
  BY <1>3 DEF Table, FoundFits
<1>5. PICK shown : shown = { i \in p.kept : N.records[i].lesson \in
                                  p.due \union { l \in Found(p) : p.rows[l].homework } }
  OBVIOUS
<1>6. shown = { i \in p.kept : R[i].lesson \in p.due \union { l \in f3 : l3[l].homework } }
  BY <1>3, <1>5
<1>7. Older(T, N)
  BY DEF OneWrite
<1>8. ASSUME NEW x \in {T.records, R}, NEW i \in DOMAIN x
      PROVE  /\ i \in DOMAIN R /\ x[i].lesson = R[i].lesson
             /\ x[i].submitted => R[i].submitted
             /\ i \in DOMAIN T.records /\ T.records[i].submitted => x[i].submitted
  BY <1>3, <1>7, RowsAreNow
<1>9. \A X : MineAt(p.kind, s, X) = RowsAt(s, X, X.records)
  BY DEF MineAt
<1>10. \A X : ToldAt(s, X) \subseteq RowsAt(s, X, X.records)
  BY DEF ToldAt
<1>11. /\ Sifted(s, f1, T, T.records, N, R) /\ r1 \in {T.records, R} /\ f1 \subseteq DOMAIN r1
       /\ Sifted(s, f2, T, T.records, N, R) /\ r2 \in {T.records, R} /\ f2 \subseteq DOMAIN r2
       /\ Tells(s, f2, r2, T, N)
  BY <1>1, <1>2, <1>3 DEF FoundIn
<1>12. ASSUME NEW e, Knows(e, p.kind, s, T), Knows(e, p.kind, s, N), NEW i \in shown
       PROVE  i \in DueIn(p.kind, e, R)
  <2>1. /\ RowsAt(s, T, T.records) \subseteq e.rows /\ RowsAt(s, N, R) \subseteq e.rows
        /\ OpenAt(T) \subseteq e.open /\ OpenAt(N) \subseteq e.open
        /\ ToldAt(s, T) \subseteq e.told /\ ToldAt(s, N) \subseteq e.told
        /\ HomeworkAt(s, T) \subseteq e.homework /\ HomeworkAt(s, N) \subseteq e.homework
    BY <1>3, <1>9, <1>12 DEF Knows
  <2>2. i \in f1 /\ r1[i].recent /\ ~r1[i].submitted
    BY <1>1, <1>6
  <2>3. i \in e.rows
    BY <1>11, <2>1, <2>2 DEF Sifted
  <2>4. i \in e.open
    BY <1>3, <1>11, <2>1, <2>2 DEF OpenAt
  <2>5. R[i].lesson \in e.homework \union { R[j].lesson : j \in e.told }
    <3>1. CASE R[i].lesson \in p.due
      <4>1. PICK j \in f2 : r2[j].submitted /\ r2[j].lesson = R[i].lesson
        BY <1>2, <3>1
      <4>2. j \in e.told
        BY <1>11, <2>1, <4>1 DEF Tells
      <4>3. r2[j].lesson = R[j].lesson
        BY <1>8, <1>11
      <4> QED BY <4>1, <4>2, <4>3
    <3>2. CASE \E l \in f3 : l3[l].homework /\ l = R[i].lesson
      BY <1>4, <2>1, <3>2 DEF Gives
    <3> QED BY <1>6, <3>1, <3>2
  <2> QED BY <2>3, <2>4, <2>5 DEF DueIn
<1>13. ASSUME NEW a, Holds(a, p.kind, s, T), Holds(a, p.kind, s, N), NEW i \in DueIn(p.kind, a, R)
       PROVE  i \in shown
  <2>1. /\ a.rows \subseteq RowsAt(s, T, T.records) /\ a.rows \subseteq RowsAt(s, N, R)
        /\ a.open \subseteq OpenAt(T) /\ a.open \subseteq OpenAt(N)
        /\ a.told \subseteq ToldAt(s, T) /\ a.told \subseteq ToldAt(s, N)
        /\ a.homework \subseteq HomeworkAt(s, T) /\ a.homework \subseteq HomeworkAt(s, N)
    BY <1>3, <1>9, <1>13 DEF Holds
  <2>2. /\ i \in a.rows /\ i \in a.open
        /\ R[i].lesson \in a.homework \union { R[j].lesson : j \in a.told }
    BY <1>13 DEF DueIn
  <2>3. i \in f1
    BY <1>11, <2>1, <2>2 DEF Sifted
  <2>4. r1[i].recent /\ ~r1[i].submitted
    BY <1>3, <1>11, <2>1, <2>2 DEF OpenAt
  <2>5. R[i].lesson \in p.due \union { l \in f3 : l3[l].homework }
    <3>1. CASE R[i].lesson \in a.homework
      <4>1. PICK l : l = R[i].lesson
        OBVIOUS
      <4>2. l \in HomeworkAt(s, T) /\ l \in HomeworkAt(s, N)
        BY <2>1, <3>1, <4>1
      <4>3. l \in f3
        BY <1>4, <4>2 DEF HomeworkAt, Sifted
      <4>4. l3[l].homework
        BY <1>4, <4>2 DEF HomeworkAt
      <4> QED BY <4>1, <4>3, <4>4
    <3>2. CASE \E j \in a.told : R[j].lesson = R[i].lesson
      <4>1. PICK j \in a.told : R[j].lesson = R[i].lesson
        BY <3>2
      <4>2. j \in ToldAt(s, T) /\ j \in ToldAt(s, N)
        BY <2>1, <4>1
      <4>3. j \in f2
        BY <1>10, <1>3, <1>11, <4>2 DEF Sifted
      <4>4. r2[j].submitted
        BY <1>3, <1>11, <4>2 DEF ToldAt
      <4>5. r2[j].lesson = R[j].lesson
        BY <1>8, <1>11, <4>3
      <4> QED BY <1>2, <4>1, <4>3, <4>4, <4>5
    <3> QED BY <2>2, <3>1, <3>2
  <2> QED BY <1>1, <1>6, <2>3, <2>4, <2>5
<1>14. Right(p.kind, s, shown, T, N)
  BY <1>3, <1>12, <1>13 DEF Right
<1> QED BY <1>3, <1>5, <1>14

(* A set of the numbers up to n that is not empty has a greatest.          *)
LEMMA Greatest ==
  ASSUME NEW n \in Nat, NEW S \in SUBSET (1..n), S # {}
  PROVE  \E m \in S : \A j \in S : j <= m
<1> DEFINE R == {ss \in Nat \X Nat : ss[1] < ss[2]}
<1>1. IsWellFoundedOn(R, Nat)
  BY NatLessThanWellFounded DEF OpToRel
<1> HIDE DEF R
<1>2. PICK D : D = { n - j : j \in S }
  OBVIOUS
<1>3. D \in SUBSET Nat /\ D # {}
  <2>1. \A j \in 1..n : n - j \in Nat
    OBVIOUS
  <2> QED BY <1>2, <2>1
<1>4. PICK x \in D : \A y \in D : <<y, x>> \notin R
  BY <1>1, <1>3, WFMin
<1>5. ASSUME NEW y \in D PROVE x <= y
  <2>1. <<y, x>> \notin R /\ x \in Nat /\ y \in Nat
    BY <1>3, <1>4
  <2>2. <<y, x>> \in Nat \X Nat /\ <<y, x>>[1] = y /\ <<y, x>>[2] = x
    BY <2>1
  <2>3. ~(y < x)
    BY <2>1, <2>2 DEF R
  <2> QED BY <2>1, <2>3
<1>6. PICK m \in S : x = n - m
  BY <1>2, <1>4
<1>7. ASSUME NEW j \in S PROVE j <= m
  BY <1>2, <1>5, <1>6
<1> QED BY <1>7

(* Of the numbers above one in a set, as many as the limit are at the top  *)
(* if there are so many.                                                   *)
LEMMA TopHas ==
  ASSUME NEW n \in Nat, NEW S \in SUBSET (1..n), NEW i \in S, i \notin Top(S)
  PROVE  Cardinality({ j \in Top(S) : j > i }) >= Limit
<1>1. PICK A : A = { j \in S : j > i }
  OBVIOUS
<1>2. A \subseteq S /\ ~(Cardinality(A) < Limit) /\ Top(S) \subseteq S
  BY <1>1 DEF Top
<1>3. ASSUME NEW B \in SUBSET (1..n)
      PROVE  IsFiniteSet(B) /\ Cardinality(B) \in Nat
  BY Bounded
<1>4. PICK C : C = { j \in Top(S) : j > i }
  OBVIOUS
<1>5. Limit \in Nat /\ Cardinality(A) \in Nat /\ Cardinality(C) \in Nat /\ IsFiniteSet(C)
  BY <1>2, <1>3, <1>4, ReadAssumption
<1>6. CASE A \subseteq Top(S)
  <2>1. A = C
    BY <1>1, <1>2, <1>4, <1>6
  <2> QED BY <1>2, <1>4, <1>5, <2>1
<1>7. CASE ~(A \subseteq Top(S))
  <2>1. PICK B : B = A \ Top(S)
    OBVIOUS
  <2>2. B \in SUBSET (1..n) /\ B # {}
    BY <1>2, <1>7, <2>1
  <2>3. PICK m \in B : \A j \in B : j <= m
    BY <2>2, Greatest
  <2>4. PICK E : E = { j \in S : j > m }
    OBVIOUS
  <2>5. m \in S /\ m > i /\ ~(Cardinality(E) < Limit)
    BY <1>1, <1>2, <2>1, <2>3, <2>4 DEF Top
  <2>6. \A j \in 1..n : j \in Int
    OBVIOUS
  <2>7. E \subseteq C
    <3> SUFFICES ASSUME NEW j \in E PROVE j \in C
      OBVIOUS
    <3>1. j \in S /\ j > m /\ j > i
      BY <2>4, <2>5, <2>6
    <3>2. j \in A
      BY <1>1, <3>1
    <3>3. j \notin B
      BY <2>3, <2>5, <2>6, <3>1
    <3> QED BY <1>4, <2>1, <3>1, <3>2, <3>3
  <2>8. Cardinality(E) \in Nat
    BY <1>3, <2>4
  <2>9. Cardinality(E) <= Cardinality(C)
    BY <1>5, <2>7, FS_Subset
  <2> QED BY <1>4, <1>5, <2>5, <2>8, <2>9
<1> QED BY <1>6, <1>7

(* Below the newest rows of a list there are as many as its limit.         *)
LEMMA NewestHas ==
  ASSUME NEW rows, NEW n \in Nat, n = Len(rows), DOMAIN rows = 1..n,
         NEW i \in 1..n, i \notin Newest(rows, Limit)
  PROVE  Cardinality({ j \in Newest(rows, Limit) : j > i }) >= Limit
<1>1. Limit \in Nat
  BY ReadAssumption
<1>2. i + Limit <= n
  BY <1>1 DEF Newest
<1>3. PICK a \in Int : a = n - Limit + 1
  BY <1>1
<1>4. { j \in Newest(rows, Limit) : j > i } = a..n
  <2>1. \A j \in 1..n : (j + Limit > n /\ j > i) <=> j \in a..n
    BY <1>1, <1>2, <1>3
  <2>2. \A j \in a..n : j \in 1..n
    BY <1>1, <1>2, <1>3
  <2>3. Newest(rows, Limit) = { j \in 1..n : j + Limit > n }
    BY DEF Newest
  <2> QED BY <2>1, <2>2, <2>3
<1>5. Cardinality(a..n) = IF a > n THEN 0 ELSE n - a + 1
  <2>1. n \in Int
    OBVIOUS
  <2> QED BY <1>3, <2>1, FS_Interval
<1>6. PICK c : c = Cardinality(a..n)
  OBVIOUS
<1>7. c >= Limit
  BY <1>1, <1>2, <1>3, <1>5, <1>6
<1> QED BY <1>4, <1>6, <1>7

(* The notices a page shows are right: it reads them last.                 *)
LEMMA NoticesRight ==
  ASSUME NEW p, p.kind = "history", NEW T \in Store, NEW N \in Store,
         OneWrite(p.scope, T, N), N.notes = notes, p.query = 1,
         p.rows \in {T.records, N.records},
         Sifted(p.scope, Found(p), T, T.records, N, N.records),
         p.scope.kind # "all" => Meets(p.scope, Found(p), p.rows, T, N)
  PROVE  Right(p.kind, p.scope, ShownNotes(p), T, N)
<1>1. PICK s : s = p.scope
  OBVIOUS
<1>2. PICK n \in Nat : n = Len(notes) /\ DOMAIN notes = 1..n
  BY LenProperties DEF Store
<1>3. PICK before, after : before = MineAt(p.kind, s, T) /\ after = MineAt(p.kind, s, N)
  OBVIOUS
<1>4. /\ before = { i \in DOMAIN T.notes : s.kind = "all" \/ T.notes[i].student \in PeopleAt(s, T) }
      /\ after = { i \in 1..n : s.kind = "all" \/ notes[i].student \in PeopleAt(s, N) }
  BY <1>2, <1>3 DEF MineAt
<1>5. /\ Older(T, N)
      /\ \A i \in DOMAIN T.notes : i \in 1..n /\ T.notes[i] = notes[i]
  BY <1>2 DEF OneWrite, Older
<1>6. CASE s.kind = "all"
  <2>1. PICK shown : shown = Newest(notes, Limit)
    OBVIOUS
  <2>2. shown = ShownNotes(p) /\ shown \subseteq after
    BY <1>1, <1>2, <1>4, <1>6, <2>1 DEF ShownNotes, Newest
  <2>3. ASSUME NEW i \in after, i \notin shown
        PROVE  Cardinality({ j \in shown : j > i }) >= Limit
    <3>1. i \in 1..n
      BY <1>4
    <3> QED BY <1>2, <2>1, <2>3, <3>1, NewestHas
  <2>4. Right(p.kind, s, shown, T, N)
    BY <1>3, <2>2, <2>3, RightOf DEF Limits
  <2> QED BY <1>1, <2>2, <2>4
<1>7. CASE s.kind # "all"
  <2>1. PICK people : people = { p.rows[j].student : j \in Found(p) }
    OBVIOUS
  <2>2. Filtered(p) = Found(p)
    BY <1>1, <1>7 DEF Filtered, Found, Fetched
  <2>3. PICK S : S = { i \in Newest(notes, Scan) : notes[i].student \in people }
    OBVIOUS
  <2>4. PICK shown : shown = Top(S)
    OBVIOUS
  <2>5. shown = ShownNotes(p)
    BY <1>1, <1>7, <2>1, <2>2, <2>3, <2>4 DEF ShownNotes
  <2>6. S \in SUBSET (1..n) /\ shown \subseteq S
    BY <1>2, <2>3, <2>4 DEF Newest, Top
  <2>7. Found(p) \subseteq DOMAIN p.rows
    BY DEF Found
  <2>8. ASSUME NEW x \in {T.records, N.records}, NEW i \in DOMAIN x
        PROVE  i \in DOMAIN N.records /\ x[i].student = N.records[i].student
    BY <1>5, RowsAreNow
  <2>9. /\ PeopleAt(s, T) \intersect PeopleAt(s, N) \subseteq people
        /\ people \subseteq PeopleAt(s, T) \union PeopleAt(s, N)
    <3>1. PeopleAt(s, T) \intersect PeopleAt(s, N) \subseteq people
      BY <1>1, <1>7, <2>1 DEF Meets
    <3>2. ASSUME NEW j \in Found(p), NEW X \in {T, N}, j \in RowsAt(s, X, X.records)
          PROVE  p.rows[j].student \in PeopleAt(s, X)
      <4>1. j \in DOMAIN p.rows /\ j \in DOMAIN X.records
        BY <2>7, <3>2 DEF RowsAt
      <4>2. X.records[j].student = N.records[j].student
        BY <2>8, <4>1
      <4>3. p.rows[j].student = N.records[j].student
        BY <2>8, <4>1
      <4> QED BY <3>2, <4>2, <4>3 DEF PeopleAt
    <3>3. \A j \in Found(p) : j \in RowsAt(s, T, T.records) \/ j \in RowsAt(s, N, N.records)
      BY <1>1 DEF Sifted
    <3> QED BY <2>1, <3>1, <3>2, <3>3
  <2>10. ASSUME NEW i \in shown PROVE i \in before \union after
    <3>1. i \in 1..n /\ notes[i].student \in PeopleAt(s, T) \union PeopleAt(s, N)
      BY <2>3, <2>6, <2>9
    <3>2. CASE T.notes = N.notes
      BY <1>2, <1>4, <3>1, <3>2
    <3>3. CASE PeopleAt(s, T) = PeopleAt(s, N)
      BY <1>4, <3>1, <3>3
    <3> QED BY <1>1, <3>2, <3>3 DEF OneWrite
  <2>11. ASSUME NEW i \in before, i \in after
         PROVE  i \in shown \/ Limits(p.kind, s, N, shown, i)
    <3>1. i \in 1..n /\ notes[i].student \in people
      <4>1. notes[i].student \in PeopleAt(s, T) /\ notes[i].student \in PeopleAt(s, N)
        BY <1>4, <1>5, <1>7, <2>11
      <4> QED BY <1>4, <2>9, <2>11, <4>1
    <3>2. CASE i \notin Newest(notes, Scan)
      <4>1. n - i >= Scan
        BY <1>2, <3>1, <3>2, ReadAssumption DEF Newest
      <4> QED BY <1>2, <1>7, <4>1 DEF Limits
    <3>3. CASE i \in Newest(notes, Scan) /\ i \notin shown
      <4>1. i \in S
        BY <2>3, <3>1, <3>3
      <4>2. Cardinality({ j \in Top(S) : j > i }) >= Limit
        BY <2>4, <2>6, <3>3, <4>1, TopHas
      <4> QED BY <2>4, <4>2 DEF Limits
    <3> QED BY <3>2, <3>3
  <2>12. Right(p.kind, s, shown, T, N)
    BY <1>3, <2>10, <2>11, RightOf
  <2> QED BY <1>1, <2>5, <2>12
<1> QED BY <1>6, <1>7

(* A page that is still being read is right about what it has read, a page *)
(* that is shown about what it shows.                                      *)
Fine(p, T, N) ==
    /\ p.pc \in Steps => HasRead(p, T, N) /\ HasKept(p, T, N) /\ HasDue(p, T, N)
    /\ p.pc = "shown" => Right(p.kind, p.scope, p.shown, T, N)

(* The fields of the page after a query.                                   *)
LEMMA ShowIs ==
  ASSUME NEW p \in Page, NEW shown \in SUBSET Nat, NEW q, q = Show(p, shown)
  PROVE  /\ q.kind = p.kind /\ q.scope = p.scope /\ q.query = p.query /\ q.kept = p.kept
         /\ q.pc = "shown" /\ q.shown = shown
<1>1. q = [p EXCEPT !.pc = "shown", !.shown = shown]
  BY DEF Show
<1> QED BY <1>1 DEF Page

LEMMA NextQueryIs ==
  ASSUME NEW p \in Page, p.query # 3, NEW q, q = NextQuery(p)
  PROVE  /\ q.kind = p.kind /\ q.scope = p.scope /\ q.query = p.query + 1 /\ q.pc = "rows"
         /\ q.kept = p.kept /\ q.due = p.due
<1>1. PICK k \in 1..3 : k = p.query + 1
  BY DEF Page
<1>2. PICK z \in Page : z = NoPage
  BY NoPageIs
<1>3. q = [z EXCEPT !.kind = p.kind, !.scope = p.scope, !.pc = "rows", !.query = k,
                    !.kept = p.kept, !.due = p.due]
  BY <1>1, <1>2 DEF NextQuery
<1>4. PICK kind, scope, kept, due :
        kind = p.kind /\ scope = p.scope /\ kept = p.kept /\ due = p.due
  OBVIOUS
<1>5. /\ q.kind = kind /\ q.scope = scope /\ q.query = k /\ q.pc = "rows"
      /\ q.kept = kept /\ q.due = due
  BY <1>2, <1>3, <1>4 DEF Page
<1> QED BY <1>1, <1>4, <1>5

(* The page a query's rows make is right.                                  *)
IsAnswer(p, found, q) == IsFound(p, found) /\ q = Answer(p, found)

LEMMA AnswerFine ==
  ASSUME NEW p \in Page, p.kind \in Kinds, p.kind # "history", p.query > 1 => p.kind = "missing",
         NEW T \in Store, NEW N \in Store, N.records = records, OneWrite(p.scope, T, N),
         p.rows \in {Table(p, T), Table(p, N)}, HasRows(p, Len(N.records), Len(N.events)),
         p.scope.kind # "all" =>
           HasCourses(p, T, N) /\ HasTeam(p, T, N) /\ HasTaught(p, T, N) /\ HasUids(p, T, N),
         HasKept(p, T, N), HasDue(p, T, N),
         NEW found, NEW q, IsAnswer(p, found, q)
  PROVE  q.kind = p.kind /\ q.scope = p.scope /\ Fine(q, T, N)
<1>2. p.query \in 1..3
  BY DEF Page
<1>1. FoundFits(p, T, N)
  BY <1>2, FoundSifts
<1>3. CASE p.kind # "missing"
  <2>1. p.query = 1 /\ p.kind \in {"records", "counts", "events"}
    BY <1>2, <1>3 DEF Kinds
  <2>2. IsFound(p, found)
    BY DEF IsAnswer
  <2>3. Right(p.kind, p.scope, found, T, N)
    BY <1>1, <2>1, <2>2, ListRight DEF FoundFits
  <2>4. found \in SUBSET Nat
    <3>1. DOMAIN p.rows \subseteq Nat
      BY <2>1, LenProperties DEF HasRows
    <3> QED BY <2>2, <3>1 DEF IsFound, Found
  <2>5. q = Show(p, found)
    BY <1>3 DEF Answer, IsAnswer, IsFound
  <2>6. q.kind = p.kind /\ q.scope = p.scope /\ q.pc = "shown" /\ q.shown = found
    BY <2>4, <2>5, ShowIs
  <2> QED BY <1>3, <2>3, <2>6 DEF Fine, Steps
<1>4. ASSUME p.kind = "missing" PROVE found = Found(p)
  BY <1>4 DEF Fetched, Found, IsAnswer, IsFound
<1>5. ASSUME p.kind = "missing", p.query # 3
      PROVE  FoundIn(p.scope, found, p.rows, T, N)
  <2>1. Table(p, T) = T.records /\ Table(p, N) = N.records
    BY <1>5 DEF Table
  <2>2. Found(p) \subseteq DOMAIN p.rows
    BY DEF Found
  <2> QED BY <1>1, <1>4, <1>5, <2>1, <2>2 DEF FoundIn, FoundFits
<1>6. CASE p.kind = "missing" /\ p.query = 1
  <2>1. PICK kept : kept = { i \in found : p.rows[i].recent /\ ~p.rows[i].submitted }
    OBVIOUS
  <2>2. PICK r : r = [p EXCEPT !.kept = kept]
    OBVIOUS
  <2>3. kept \in SUBSET Nat
    <3>1. DOMAIN p.rows \subseteq Nat
      BY <1>6, LenProperties DEF HasRows
    <3> QED BY <1>4, <1>6, <2>1, <3>1 DEF Found
  <2>4. r \in Page /\ r.kind = p.kind /\ r.scope = p.scope /\ r.query = 1 /\ r.kept = kept
    BY <1>6, <2>2, <2>3 DEF Page
  <2>5. q = NextQuery(r)
    BY <1>6, <2>1, <2>2 DEF Answer, IsAnswer, IsFound
  <2>6. q.kind = p.kind /\ q.scope = p.scope /\ q.query = 2 /\ q.pc = "rows" /\ q.kept = kept
    BY <2>4, <2>5, NextQueryIs
  <2>7. HasRead(q, T, N)
    BY <1>6, <2>6 DEF HasRead, Late
  <2>8. HasKept(q, T, N) /\ HasDue(q, T, N)
    BY <1>5, <1>6, <2>1, <2>6 DEF HasKept, HasDue
  <2> QED BY <2>6, <2>7, <2>8 DEF Fine
<1>7. CASE p.kind = "missing" /\ p.query = 2
  <2>1. PICK due : due = { p.rows[i].lesson : i \in { j \in found : p.rows[j].submitted } }
    OBVIOUS
  <2>2. PICK r : r = [p EXCEPT !.due = due]
    OBVIOUS
  <2>3. due \in SUBSET Lessons
    <3>1. \A i \in DOMAIN p.rows : p.rows[i] \in RowType
      BY <1>7, LenProperties, ElementOfSeq DEF HasRows
    <3>2. Found(p) \subseteq DOMAIN p.rows
      BY DEF Found
    <3> QED BY <1>4, <1>7, <2>1, <3>1, <3>2 DEF RowType
  <2>4. /\ r \in Page /\ r.kind = p.kind /\ r.scope = p.scope /\ r.query = 2 /\ r.kept = p.kept
        /\ r.due = due
    BY <1>7, <2>2, <2>3 DEF Page
  <2>5. q = NextQuery(r)
    BY <1>7, <2>1, <2>2 DEF Answer, IsAnswer, IsFound
  <2>6. /\ q.kind = p.kind /\ q.scope = p.scope /\ q.query = 3 /\ q.pc = "rows"
        /\ q.kept = p.kept /\ q.due = due
    BY <2>4, <2>5, NextQueryIs
  <2>7. HasRead(q, T, N)
    BY <1>7, <2>6 DEF HasRead, Late
  <2>8. HasKept(q, T, N)
    BY <1>7, <2>6 DEF HasKept
  <2>9. HasDue(q, T, N)
    BY <1>5, <1>7, <2>1, <2>6 DEF HasDue
  <2> QED BY <2>6, <2>7, <2>8, <2>9 DEF Fine
<1>8. CASE p.kind = "missing" /\ p.query = 3
  <2>1. PICK shown : shown = { i \in p.kept : N.records[i].lesson \in
                                 p.due \union { l \in Found(p) : p.rows[l].homework } }
    OBVIOUS
  <2>2. Right(p.kind, p.scope, shown, T, N)
    BY <1>1, <1>8, <2>1, MissingRight
  <2>3. shown \in SUBSET Nat
    BY <2>1 DEF Page
  <2>4. q = Show(p, shown)
    <3>1. q = Answer(p, Found(p))
      BY <1>4, <1>8 DEF IsAnswer, IsFound
    <3>2. PICK due : due = p.due \union { l \in Found(p) : p.rows[l].homework }
      OBVIOUS
    <3>3. q = Show(p, { i \in p.kept : records[i].lesson \in due })
      BY <1>8, <3>1, <3>2 DEF Answer
    <3>4. shown = { i \in p.kept : records[i].lesson \in due }
      BY <2>1, <3>2
    <3> QED BY <3>3, <3>4
  <2>5. q.kind = p.kind /\ q.scope = p.scope /\ q.pc = "shown" /\ q.shown = shown
    BY <2>3, <2>4, ShowIs
  <2> QED BY <2>2, <2>5 DEF Fine, Steps
<1> QED BY <1>2, <1>3, <1>6, <1>7, <1>8

-----------------------------------------------------------------------------
(* The invariant of a page: while no more than one row was written since   *)
(* it was opened, it has read each table as it was before that or as it is *)
(* now, and what it watched for knows both.                                *)

ReadsFrom(p, T, N, w, seen, stayed) ==
    /\ w = 0 => T = N
    /\ OneWrite(p.scope, T, N)
    /\ Knows(seen, p.kind, p.scope, T) /\ Knows(seen, p.kind, p.scope, N)
    /\ Holds(stayed, p.kind, p.scope, T) /\ Holds(stayed, p.kind, p.scope, N)
    /\ HasRead(p, T, N) /\ HasKept(p, T, N) /\ HasDue(p, T, N)

PageReads ==
    page.pc \in Steps /\ writes <= 1 =>
    \E T \in Store : ReadsFrom(page, T, Now, writes, ever, always)

PageShown ==
    /\ ShownWasInScope
    /\ InScopeIsShown
    /\ page.pc = "shown" /\ writes <= 1 => always.rows \subseteq Nat

(* The next page is right, from whatever store this one reads.             *)
Leads(next) ==
    \A T \in Store : ReadsFrom(page, T, Now, writes, ever, always) =>
        next.kind = page.kind /\ next.scope = page.scope /\ Fine(next, T, Now)

(* What was right of a page when it was shown is what the page promises.   *)
Shows(T) ==
    /\ Right(page.kind, page.scope, page.shown, T, Now)
    /\ Knows(ever, page.kind, page.scope, T) /\ Knows(ever, page.kind, page.scope, Now)
    /\ Holds(always, page.kind, page.scope, T) /\ Holds(always, page.kind, page.scope, Now)

LEMMA RightShown == ASSUME NEW T, Shows(T) PROVE ShownWasInScope /\ InScopeIsShown
<1>1. PICK N, kind, s, shown, e, a :
        /\ N = Now /\ kind = page.kind /\ s = page.scope /\ shown = page.shown
        /\ e = ever /\ a = always
  OBVIOUS
<1>2. N.records = records /\ N.events = events /\ N.notes = notes
  BY <1>1 DEF Now
<1>3. /\ Right(kind, s, shown, T, N) /\ Knows(e, kind, s, T) /\ Knows(e, kind, s, N)
      /\ Holds(a, kind, s, T) /\ Holds(a, kind, s, N)
  BY <1>1 DEF Shows
<1>4. /\ shown \subseteq DueIn(kind, e, N.records)
      /\ \A i \in DueIn(kind, a, N.records) \ shown : Limits(kind, s, N, shown, i)
  BY <1>3 DEF Right
<1>5. Due(kind, e) = DueIn(kind, e, N.records) /\ Due(kind, a) = DueIn(kind, a, N.records)
  BY <1>2, DueIs
<1>6. ShownWasInScope
  BY <1>1, <1>4, <1>5 DEF ShownWasInScope
<1>7. InScopeIsShown
  BY <1>1, <1>2, <1>4, <1>5 DEF Limits, InScopeIsShown
<1> QED BY <1>6, <1>7

LEMMA RightShownNext == \A T : Shows(T)' => (ShownWasInScope /\ InScopeIsShown)'
<1> SUFFICES ASSUME NEW T PROVE Shows(T)' => (ShownWasInScope /\ InScopeIsShown)'
  OBVIOUS
<1>1. Shows(T) => ShownWasInScope /\ InScopeIsShown
  BY RightShown
<1> QED BY <1>1, PTL

(* What a page sees are numbers of rows.                                   *)
LEMMA MineNumbers ==
  ASSUME NEW kind, NEW s, NEW T \in Store
  PROVE  MineAt(kind, s, T) \subseteq Nat
<1>1. DOMAIN T.records \subseteq Nat /\ DOMAIN T.events \subseteq Nat /\ DOMAIN T.notes \subseteq Nat
  <2>1. \A S : \A q \in Seq(S) : DOMAIN q \subseteq Nat
    BY LenProperties
  <2> QED BY <2>1 DEF Store
<1>2. RowsAt(s, T, T.records) \subseteq Nat /\ RowsAt(s, T, T.events) \subseteq Nat
  BY <1>1 DEF RowsAt
<1> QED BY <1>1, <1>2 DEF MineAt

(* Tables that stay are the store.                                         *)
LEMMA SameStore == UNCHANGED <<tables, notes>> => Now' = Now
BY DEF Now, tables

(* A step of the reading keeps the page right if it leads to a right one.  *)
LEMMA ReadingRight ==
  ASSUME IInv, IInv', PageReads, page.pc \in Steps, NEW pc, NEW next, Reading(pc, next), Leads(next)
  PROVE  PageReads' /\ PageShown'
<1>1. page' = next /\ UNCHANGED <<tables, notes, writes, pages>> /\ Watch
  BY DEF Reading
<1>2. CASE writes > 1
  BY <1>1, <1>2, ReadAssumption DEF PageReads, PageShown, ShownWasInScope, InScopeIsShown, IInv, Typed
<1>3. CASE writes <= 1
  <2>1. PICK T \in Store : ReadsFrom(page, T, Now, writes, ever, always)
    BY <1>3 DEF PageReads
  <2>2. PICK N : N = Now
    OBVIOUS
  <2>3. Now' = N
    BY <1>1, <2>2, SameStore
  <2>4. next.kind = page.kind /\ next.scope = page.scope /\ Fine(next, T, N)
    BY <2>1, <2>2 DEF Leads
  <2>5. page.scope \in ScopeType
    BY PageIs
  <2>6. PICK e, a, kind, s : /\ e = ever' /\ a = always' /\ kind = page.kind /\ s = page.scope
                             /\ kind = page'.kind /\ s = page'.scope
    BY <1>1, <2>4
  <2>7. /\ Knows(e, kind, s, T) /\ Knows(e, kind, s, N) /\ Holds(a, kind, s, T) /\ Holds(a, kind, s, N)
        /\ (writes = 0 => T = N) /\ OneWrite(s, T, N)
    <3>1. /\ Knows(ever, kind, s, T) /\ Holds(always, kind, s, T)
          /\ (writes = 0 => T = N) /\ OneWrite(s, T, N)
      BY <2>1, <2>2, <2>6 DEF ReadsFrom
    <3>2. Typed' /\ page'.scope \in ScopeType
      BY <1>1, <2>4, <2>5 DEF IInv
    <3>3. /\ Knows(ever', kind, s, N) /\ Holds(always', kind, s, N)
          /\ \A X : Knows(ever, kind, s, X) => Knows(ever', kind, s, X)
          /\ \A X : Holds(always, kind, s, X) => Holds(always', kind, s, X)
      BY <1>1, <2>3, <2>6, <3>2, WatchTells
    <3> QED BY <2>6, <3>1, <3>3
  <2>8. CASE next.pc \in Steps
    <3>1. HasRead(next, T, N) /\ HasKept(next, T, N) /\ HasDue(next, T, N)
      BY <2>4, <2>8 DEF Fine
    <3>2. ReadsFrom(next, T, N, writes, e, a)
      BY <2>4, <2>6, <2>7, <3>1 DEF ReadsFrom
    <3>3. PageReads'
      BY <1>1, <2>3, <2>6, <3>2 DEF PageReads
    <3>4. PageShown'
      BY <1>1, <2>8 DEF PageShown, ShownWasInScope, InScopeIsShown, Steps
    <3> QED BY <3>3, <3>4
  <2>9. CASE next.pc = "shown"
    <3>1. Right(next.kind, next.scope, next.shown, T, N)
      BY <2>4, <2>9 DEF Fine
    <3>2. Shows(T)'
      BY <1>1, <2>3, <2>4, <2>6, <2>7, <3>1 DEF Shows
    <3>3. (ShownWasInScope /\ InScopeIsShown)'
      BY <3>2, RightShownNext
    <3>4. always'.rows \subseteq Nat
      BY <2>1, <2>6, <2>7, MineNumbers DEF Holds
    <3>5. PageShown'
      BY <3>3, <3>4 DEF PageShown
    <3>6. PageReads'
      BY <1>1, <2>9 DEF PageReads, Steps
    <3> QED BY <3>5, <3>6
  <2>10. CASE next.pc \notin Steps \union {"shown"}
    BY <1>1, <2>10 DEF PageReads, PageShown, ShownWasInScope, InScopeIsShown
  <2> QED BY <2>8, <2>9, <2>10
<1> QED BY <1>2, <1>3 DEF IInv, Typed

(* The store now has the tables as they are.                               *)
LEMMA StoreNow ==
  ASSUME IInv
  PROVE  \E N \in Store :
           /\ N = Now /\ N.courses = courses /\ N.teachers = teachers /\ N.lessons = lessons
           /\ N.records = records /\ N.events = events /\ N.notes = notes
<1>1. PICK N : N = Now
  OBVIOUS
<1>2. N \in Store
  BY <1>1, NowTyped DEF IInv
<1>3. /\ N.courses = courses /\ N.teachers = teachers /\ N.lessons = lessons
      /\ N.records = records /\ N.events = events /\ N.notes = notes
  BY <1>1 DEF Now
<1> QED BY <1>1, <1>2, <1>3

(* The courses are read.                                                   *)
LEMMA ReadCoursesRight == ASSUME IInv, IInv', PageReads, ReadCourses PROVE PageReads' /\ PageShown'
<1>1. page.pc = "courses" /\ page.pc \in Steps
  BY DEF ReadCourses, Reading, Steps
<1>2. PICK N \in Store : N = Now /\ N.courses = courses
  BY StoreNow
<1>3. page.scope.id \in Branches \union Teachers \union {Nil}
  BY <1>1, PageIs DEF ScopeType
<1>4. PICK next : /\ Reading("courses", next)
                  /\ next = IF page.scope.kind = "branch"
                            THEN [page EXCEPT !.courses = courses, !.pc = "team"]
                            ELSE [page EXCEPT !.courses = courses, !.team = {page.scope.id} \ {Nil},
                                              !.pc = "taught"]
  BY DEF ReadCourses
<1>5. Leads(next)
  <2> SUFFICES ASSUME NEW T \in Store, ReadsFrom(page, T, N, writes, ever, always)
               PROVE  next.kind = page.kind /\ next.scope = page.scope /\ Fine(next, T, N)
    BY <1>2 DEF Leads
  <2>1. /\ next.kind = page.kind /\ next.scope = page.scope /\ next.query = page.query
        /\ next.rows = page.rows /\ next.kept = page.kept /\ next.due = page.due
        /\ next.courses = courses
        /\ \/ next.pc = "team"
           \/ next.pc = "taught" /\ page.scope.kind # "branch" /\ next.team = {page.scope.id} \ {Nil}
    BY <1>1, <1>4, PageIs DEF Page
  <2>2. HasRead(page, T, N) /\ HasKept(page, T, N) /\ HasDue(page, T, N)
    BY DEF ReadsFrom
  <2>3. page.scope.kind \in {"teacher", "branch"}
    BY <1>1, <2>2, PageIs DEF HasRead, ScopeType
  <2>4. HasCourses(next, T, N)
    BY <1>2, <2>1 DEF HasCourses
  <2>5. next.pc = "taught" => HasTeam(next, T, N)
    BY <2>1, <2>3 DEF HasTeam, Uids, TeamOf
  <2>6. HasRead(next, T, N)
    BY <1>1, <2>1, <2>2, <2>3, <2>4, <2>5 DEF HasRead, Late, Table
  <2>7. HasKept(next, T, N) /\ HasDue(next, T, N)
    BY <2>1, <2>2 DEF HasKept, HasDue
  <2> QED BY <2>1, <2>6, <2>7 DEF Fine
<1> QED BY <1>1, <1>4, <1>5, ReadingRight

(* The teachers of the branch are read.                                    *)
LEMMA ReadTeamRight == ASSUME IInv, IInv', PageReads, ReadTeam PROVE PageReads' /\ PageShown'
<1>1. page.pc = "team" /\ page.pc \in Steps
  BY DEF ReadTeam, Reading, Steps
<1>2. PICK N \in Store : N = Now /\ N.teachers = teachers
  BY StoreNow
<1>3. PICK team : team = TeamOf(page.scope, teachers)
  OBVIOUS
<1>4. PICK next : Reading("team", next) /\ next = [page EXCEPT !.team = team, !.pc = "taught"]
  BY <1>3 DEF ReadTeam
<1>5. Leads(next)
  <2> SUFFICES ASSUME NEW T \in Store, ReadsFrom(page, T, N, writes, ever, always)
               PROVE  next.kind = page.kind /\ next.scope = page.scope /\ Fine(next, T, N)
    BY <1>2 DEF Leads
  <2>1. /\ next.kind = page.kind /\ next.scope = page.scope /\ next.query = page.query
        /\ next.rows = page.rows /\ next.kept = page.kept /\ next.due = page.due
        /\ next.courses = page.courses /\ next.team = team /\ next.pc = "taught"
    BY <1>1, <1>4, PageIs DEF Page
  <2>2. HasRead(page, T, N) /\ HasKept(page, T, N) /\ HasDue(page, T, N)
    BY DEF ReadsFrom
  <2>3. page.scope.kind # "all" /\ HasCourses(next, T, N)
    BY <1>1, <2>1, <2>2 DEF HasRead, HasCourses
  <2>4. HasTeam(next, T, N)
    BY <1>2, <1>3, <2>1 DEF HasTeam, Uids
  <2>5. HasRead(next, T, N)
    BY <1>1, <2>1, <2>2, <2>3, <2>4 DEF HasRead, Late, Table
  <2>6. HasKept(next, T, N) /\ HasDue(next, T, N)
    BY <2>1, <2>2 DEF HasKept, HasDue
  <2> QED BY <2>1, <2>5, <2>6 DEF Fine
<1> QED BY <1>1, <1>4, <1>5, ReadingRight

(* The courses the teachers taught are read.                               *)
LEMMA ReadTaughtRight == ASSUME IInv, IInv', PageReads, ReadTaught PROVE PageReads' /\ PageShown'
<1>1. page.pc = "taught" /\ page.pc \in Steps
  BY DEF ReadTaught, Reading, Steps
<1>2. PICK N \in Store : N = Now /\ N.records = records
  BY StoreNow
<1>3. PICK taught : taught = TaughtBy(page.team, records)
  OBVIOUS
<1>4. PICK next : Reading("taught", next) /\ next = [page EXCEPT !.taught = taught, !.pc = "uids"]
  BY <1>3 DEF ReadTaught
<1>5. Leads(next)
  <2> SUFFICES ASSUME NEW T \in Store, ReadsFrom(page, T, N, writes, ever, always)
               PROVE  next.kind = page.kind /\ next.scope = page.scope /\ Fine(next, T, N)
    BY <1>2 DEF Leads
  <2>1. /\ next.kind = page.kind /\ next.scope = page.scope /\ next.query = page.query
        /\ next.rows = page.rows /\ next.kept = page.kept /\ next.due = page.due
        /\ next.courses = page.courses /\ next.team = page.team /\ next.taught = taught
        /\ next.pc = "uids"
    BY <1>1, <1>4, PageIs DEF Page
  <2>2. HasRead(page, T, N) /\ HasKept(page, T, N) /\ HasDue(page, T, N)
    BY DEF ReadsFrom
  <2>3. page.scope.kind # "all" /\ HasCourses(next, T, N) /\ HasTeam(next, T, N)
    BY <1>1, <2>1, <2>2 DEF HasRead, HasCourses, HasTeam
  <2>4. HasTaught(next, T, N)
    BY <1>2, <1>3, <2>1 DEF HasTaught
  <2>5. HasRead(next, T, N)
    BY <1>1, <2>1, <2>2, <2>3, <2>4 DEF HasRead, Late, Table
  <2>6. HasKept(next, T, N) /\ HasDue(next, T, N)
    BY <2>1, <2>2 DEF HasKept, HasDue
  <2> QED BY <2>1, <2>5, <2>6 DEF Fine
<1> QED BY <1>1, <1>4, <1>5, ReadingRight

(* The notices are read.                                                   *)
LEMMA ReadNotesRight == ASSUME IInv, IInv', PageReads, ReadNotes PROVE PageReads' /\ PageShown'
<1>1. page.pc = "notes" /\ page.pc \in Steps
  BY DEF ReadNotes, Reading, Steps
<1>2. PICK N \in Store : N = Now /\ N.notes = notes
  BY StoreNow
<1>3. PICK p \in Page : p = page
  BY <1>1, PageIs
<1>4. p.kind = "history" /\ p.query = 1
  <2>1. p.query \in 1..3
    BY DEF Page
  <2> QED BY <1>1, <1>3, <2>1, PageIs
<1>5. PICK shown : shown = ShownNotes(p)
  OBVIOUS
<1>6. shown \in SUBSET Nat
  <2>1. DOMAIN notes \subseteq Nat
    BY Lengths DEF IInv
  <2> QED BY <1>5, <2>1 DEF ShownNotes, Newest, Top
<1>7. PICK next : Reading("notes", next) /\ next = Show(p, shown)
  BY <1>3, <1>5 DEF ReadNotes
<1>8. /\ next.kind = p.kind /\ next.scope = p.scope /\ next.query = p.query /\ next.kept = p.kept
      /\ next.pc = "shown" /\ next.shown = shown
  BY <1>6, <1>7, ShowIs
<1>9. Leads(next)
  <2> SUFFICES ASSUME NEW T \in Store, ReadsFrom(page, T, N, writes, ever, always)
               PROVE  next.kind = page.kind /\ next.scope = page.scope /\ Fine(next, T, N)
    BY <1>2 DEF Leads
  <2>1. OneWrite(p.scope, T, N) /\ HasRead(p, T, N)
    BY <1>3 DEF ReadsFrom
  <2>2. Table(p, T) = T.records /\ Table(p, N) = N.records
    BY <1>4 DEF Table
  <2>3. p.rows \in {Table(p, T), Table(p, N)}
    BY <1>1, <1>3, <1>4, <2>1 DEF HasRead
  <2>4. p.scope.kind # "all" =>
          HasCourses(p, T, N) /\ HasTeam(p, T, N) /\ HasTaught(p, T, N) /\ HasUids(p, T, N)
    BY <1>1, <1>3, <2>1 DEF HasRead
  <2>5. FoundFits(p, T, N)
    BY <1>4, <2>1, <2>3, <2>4, FoundSifts DEF Kinds
  <2>6. /\ Sifted(p.scope, Found(p), T, T.records, N, N.records) /\ p.rows \in {T.records, N.records}
        /\ p.scope.kind # "all" => Meets(p.scope, Found(p), p.rows, T, N)
    BY <1>4, <2>2, <2>3, <2>5 DEF FoundFits
  <2>7. Right(p.kind, p.scope, ShownNotes(p), T, N)
    BY <1>2, <1>4, <2>1, <2>6, NoticesRight
  <2> QED BY <1>3, <1>4, <1>5, <1>8, <2>7 DEF Fine, Steps
<1> QED BY <1>1, <1>7, <1>9, ReadingRight

(* A page that only goes to another place has what it had.                 *)
LEMMA GoesTo ==
  ASSUME NEW p \in Page, NEW pc \in Steps, NEW next, next = [p EXCEPT !.pc = pc]
  PROVE  /\ next.kind = p.kind /\ next.scope = p.scope /\ next.query = p.query
         /\ next.rows = p.rows /\ next.kept = p.kept /\ next.due = p.due
         /\ next.courses = p.courses /\ next.team = p.team /\ next.taught = p.taught
         /\ next.uids = p.uids /\ next.pc = pc
BY DEF Page

(* The rows are read.                                                      *)
LEMMA ReadRowsRight == ASSUME IInv, IInv', PageReads, ReadRows PROVE PageReads' /\ PageShown'
<1>1. page.pc = "rows" /\ page.pc \in Steps
  BY DEF ReadRows, Reading, Steps
<1>2. PICK N \in Store : /\ N = Now /\ N.lessons = lessons /\ N.records = records
                         /\ N.events = events
  BY StoreNow
<1>3. PICK rows : rows = Queried(page)
  OBVIOUS
<1>4. PICK p : p = [page EXCEPT !.rows = rows]
  OBVIOUS
<1>5. rows \in Rows
  BY <1>3 DEF Queried, IInv, Typed, Rows
<1>6. /\ p \in Page /\ p.kind = page.kind /\ p.scope = page.scope /\ p.query = page.query
      /\ p.kept = page.kept /\ p.due = page.due /\ p.courses = page.courses /\ p.team = page.team
      /\ p.taught = page.taught /\ p.uids = page.uids /\ p.pc = "rows" /\ p.rows = rows
  BY <1>1, <1>4, <1>5, PageIs DEF Page
<1>7. p.rows = Table(p, N) /\ HasRows(p, Len(N.records), Len(N.events))
  <2>1. p.rows = Table(p, N)
    BY <1>2, <1>3, <1>6 DEF Queried, Table
  <2>2. Len(N.records) \in Nat /\ Len(N.events) \in Nat
    BY LenProperties DEF Store
  <2> QED BY <2>1, <2>2 DEF Table, HasRows, Store
<1>8. PICK next :
        /\ Reading("rows", next)
        /\ next = IF page.scope.kind # "all" /\ page.kind # "counts" THEN [p EXCEPT !.pc = "courses"]
                  ELSE IF page.kind = "history" THEN [p EXCEPT !.pc = "notes"]
                  ELSE Answer(p, IF page.scope.kind # "all" THEN Filtered(p) ELSE Fetched(p))
  BY <1>3, <1>4 DEF ReadRows
<1>9. Leads(next)
  <2> SUFFICES ASSUME NEW T \in Store, ReadsFrom(page, T, N, writes, ever, always)
               PROVE  next.kind = page.kind /\ next.scope = page.scope /\ Fine(next, T, N)
    BY <1>2 DEF Leads
  <2>1. HasRead(page, T, N) /\ HasKept(p, T, N) /\ HasDue(p, T, N) /\ OneWrite(p.scope, T, N)
    BY <1>6 DEF ReadsFrom, HasKept, HasDue
  <2>2. ASSUME NEW pc \in {"courses", "notes"}, next = [p EXCEPT !.pc = pc],
               pc = "courses" <=> page.scope.kind # "all"
        PROVE  next.kind = page.kind /\ next.scope = page.scope /\ Fine(next, T, N)
    <3>1. /\ next.kind = p.kind /\ next.scope = p.scope /\ next.query = p.query
          /\ next.rows = p.rows /\ next.kept = p.kept /\ next.due = p.due /\ next.pc = pc
      BY <1>6, <2>2, GoesTo DEF Steps
    <3>2. Table(next, N) = Table(p, N)
      BY <3>1 DEF Table
    <3>3. HasRead(next, T, N)
      BY <1>6, <1>7, <2>2, <3>1, <3>2 DEF HasRead, Late
    <3>4. HasKept(next, T, N) /\ HasDue(next, T, N)
      BY <2>1, <3>1 DEF HasKept, HasDue
    <3> QED BY <1>6, <3>1, <3>3, <3>4 DEF Fine
  <2>3. CASE page.scope.kind # "all" /\ page.kind # "counts"
    BY <1>8, <2>2, <2>3
  <2>4. CASE page.scope.kind = "all" /\ page.kind = "history"
    BY <1>8, <2>2, <2>4
  <2>5. CASE /\ ~(page.scope.kind # "all" /\ page.kind # "counts")
             /\ ~(page.scope.kind = "all" /\ page.kind = "history")
    <3>1. page.kind # "history"
      BY <2>5
    <3>2. PICK found : found = IF page.scope.kind # "all" THEN Filtered(p) ELSE Fetched(p)
      OBVIOUS
    <3>3. next = Answer(p, found)
      BY <1>8, <2>5, <3>1, <3>2
    <3>4. IsAnswer(p, found, next)
      BY <1>6, <3>2, <3>3, FoundIs DEF IsAnswer, IsFound
    <3>5. p.scope.kind # "all" =>
            HasCourses(p, T, N) /\ HasTeam(p, T, N) /\ HasTaught(p, T, N) /\ HasUids(p, T, N)
      <4>1. page.scope.kind # "all" => Late(page)
        BY <1>1, <2>5 DEF Late
      <4> QED BY <1>6, <2>1, <4>1 DEF HasRead, HasCourses, HasTeam, HasTaught, HasUids
    <3>6. p.kind \in Kinds /\ p.kind # "history" /\ (p.query > 1 => p.kind = "missing")
      BY <1>1, <1>6, <3>1, PageIs
    <3>7. p.rows \in {Table(p, T), Table(p, N)}
      BY <1>7
    <3>8. next.kind = p.kind /\ next.scope = p.scope /\ Fine(next, T, N)
      BY <1>2, <1>6, <1>7, <2>1, <3>4, <3>5, <3>6, <3>7, AnswerFine
    <3> QED BY <1>6, <3>8
  <2> QED BY <2>3, <2>4, <2>5
<1> QED BY <1>1, <1>8, <1>9, ReadingRight

(* The teachers in the scope are read, and the rows looked through.        *)
LEMMA ReadUidsRight == ASSUME IInv, IInv', PageReads, ReadUids PROVE PageReads' /\ PageShown'
<1>1. page.pc = "uids" /\ page.pc \in Steps
  BY DEF ReadUids, Reading, Steps
<1>2. PICK N \in Store : N = Now /\ N.teachers = teachers /\ N.records = records /\ N.events = events
  BY StoreNow
<1>3. PICK uids : uids = TeamOf(page.scope, teachers)
  OBVIOUS
<1>4. PICK p : p = [page EXCEPT !.uids = uids]
  OBVIOUS
<1>5. uids \in SUBSET Anyone
  BY <1>1, <1>3, PageIs DEF TeamOf, ScopeType, Anyone
<1>6. /\ p \in Page /\ p.kind = page.kind /\ p.scope = page.scope /\ p.query = page.query
      /\ p.kept = page.kept /\ p.due = page.due /\ p.courses = page.courses /\ p.team = page.team
      /\ p.taught = page.taught /\ p.uids = uids /\ p.pc = "uids" /\ p.rows = page.rows
  BY <1>1, <1>4, <1>5, PageIs DEF Page
<1>7. p.kind # "counts" => HasRows(p, Len(N.records), Len(N.events))
  <2>1. page.kind # "counts" => HasRows(page, Len(records), Len(events))
    BY <1>1, PageIs
  <2> QED BY <1>2, <1>6, <2>1 DEF HasRows
<1>8. PICK next :
        /\ Reading("uids", next)
        /\ next = IF page.kind = "counts" THEN [p EXCEPT !.pc = "rows"]
                  ELSE IF page.kind = "history" THEN [p EXCEPT !.pc = "notes"]
                  ELSE Answer(p, Filtered(p))
  BY <1>3, <1>4 DEF ReadUids
<1>9. Leads(next)
  <2> SUFFICES ASSUME NEW T \in Store, ReadsFrom(page, T, N, writes, ever, always)
               PROVE  next.kind = page.kind /\ next.scope = page.scope /\ Fine(next, T, N)
    BY <1>2 DEF Leads
  <2>1. HasRead(page, T, N) /\ HasKept(p, T, N) /\ HasDue(p, T, N) /\ OneWrite(p.scope, T, N)
    BY <1>6 DEF ReadsFrom, HasKept, HasDue
  <2>2. p.scope.kind # "all" /\ HasCourses(p, T, N) /\ HasTeam(p, T, N) /\ HasTaught(p, T, N)
    BY <1>1, <1>6, <2>1 DEF HasRead, HasCourses, HasTeam, HasTaught
  <2>3. HasUids(p, T, N)
    BY <1>2, <1>3, <1>6 DEF HasUids, Uids
  <2>4. p.kind # "counts" => p.rows \in {Table(p, T), Table(p, N)}
    BY <1>1, <1>6, <2>1 DEF HasRead, Table
  <2>5. ASSUME NEW pc \in {"rows", "notes"}, next = [p EXCEPT !.pc = pc],
               pc = "rows" <=> page.kind = "counts"
        PROVE  next.kind = page.kind /\ next.scope = page.scope /\ Fine(next, T, N)
    <3>1. /\ next.kind = p.kind /\ next.scope = p.scope /\ next.query = p.query
          /\ next.rows = p.rows /\ next.kept = p.kept /\ next.due = p.due
          /\ next.courses = p.courses /\ next.team = p.team /\ next.taught = p.taught
          /\ next.uids = p.uids /\ next.pc = pc
      BY <1>6, <2>5, GoesTo DEF Steps
    <3>2. /\ HasCourses(next, T, N) /\ HasTeam(next, T, N) /\ HasTaught(next, T, N)
          /\ HasUids(next, T, N)
      BY <2>2, <2>3, <3>1 DEF HasCourses, HasTeam, HasTaught, HasUids
    <3>3. next.kind # "counts" => next.rows \in {Table(next, T), Table(next, N)}
      BY <2>4, <3>1 DEF Table
    <3>4. HasRead(next, T, N)
      BY <2>5, <3>1, <3>2, <3>3 DEF HasRead
    <3>5. HasKept(next, T, N) /\ HasDue(next, T, N)
      BY <2>1, <3>1 DEF HasKept, HasDue
    <3> QED BY <1>6, <3>1, <3>4, <3>5 DEF Fine
  <2>6. CASE page.kind = "counts"
    BY <1>8, <2>5, <2>6
  <2>7. CASE page.kind = "history"
    BY <1>8, <2>5, <2>7
  <2>8. CASE page.kind # "counts" /\ page.kind # "history"
    <3>1. PICK found : found = Filtered(p)
      OBVIOUS
    <3>2. next = Answer(p, found)
      BY <1>8, <2>8, <3>1
    <3>3. IsAnswer(p, found, next)
      BY <2>2, <3>1, <3>2, FoundIs DEF IsAnswer, IsFound
    <3>4. p.kind \in Kinds /\ p.kind # "history" /\ (p.query > 1 => p.kind = "missing")
      BY <1>1, <1>6, <2>8, PageIs
    <3>5. p.rows \in {Table(p, T), Table(p, N)} /\ HasRows(p, Len(N.records), Len(N.events))
      BY <1>6, <1>7, <2>4, <2>8
    <3>6. next.kind = p.kind /\ next.scope = p.scope /\ Fine(next, T, N)
      BY <1>2, <1>6, <2>1, <2>2, <2>3, <3>3, <3>4, <3>5, AnswerFine
    <3> QED BY <1>6, <3>6
  <2> QED BY <2>6, <2>7, <2>8
<1> QED BY <1>1, <1>8, <1>9, ReadingRight

(* A page is opened.                                                       *)
LEMMA OpenPageRight ==
  ASSUME IInv, IInv', NEW kind \in Kinds, NEW scope \in Scopes, OpenPage(kind, scope)
  PROVE  PageReads' /\ PageShown'
<1>1. writes' = 0 /\ ever' = Facts(page') /\ always' = ever' /\ UNCHANGED <<tables, notes>>
  BY DEF OpenPage
<1>2. PICK pc \in {"courses", "rows"} :
        /\ page' = [NoPage EXCEPT !.kind = kind, !.scope = scope, !.pc = pc]
        /\ pc = "courses" <=> kind = "counts" /\ scope.kind # "all"
  BY DEF OpenPage
<1>3. PICK z \in Page : z = NoPage /\ z.query = 1
  BY NoPageIs DEF NoPage
<1>4. PICK p : p = [z EXCEPT !.kind = kind, !.scope = scope, !.pc = pc]
  OBVIOUS
<1>5. p.kind = kind /\ p.scope = scope /\ p.pc = pc /\ p.query = 1
  BY <1>3, <1>4 DEF Page
<1>6. page' = p
  BY <1>2, <1>3, <1>4
<1>7. PICK N \in Store : N = Now
  BY StoreNow
<1>8. Now' = N
  BY <1>1, <1>7, SameStore
<1>9. Knows(ever', p.kind, p.scope, N) /\ Holds(ever', p.kind, p.scope, N)
  <2>1. p.scope \in ScopeType /\ Typed
    BY <1>5, ReadAssumption DEF IInv
  <2>2. Knows(Facts(p), p.kind, p.scope, N) /\ Holds(Facts(p), p.kind, p.scope, N)
    BY <1>7, <2>1, FactsOf
  <2>3. ever' = Facts(p)
    BY <1>1, <1>6
  <2> QED BY <2>2, <2>3
<1>10. HasRead(p, N, N) /\ HasKept(p, N, N) /\ HasDue(p, N, N)
  BY <1>2, <1>5 DEF HasRead, HasKept, HasDue, Late
<1>11. OneWrite(p.scope, N, N)
  BY NoWrite
<1>12. ReadsFrom(p, N, N, 0, ever', always')
  BY <1>1, <1>9, <1>10, <1>11 DEF ReadsFrom
<1>13. PageReads'
  BY <1>1, <1>6, <1>7, <1>8, <1>12 DEF PageReads
<1>14. PageShown'
  BY <1>2, <1>5, <1>6 DEF PageShown, ShownWasInScope, InScopeIsShown
<1> QED BY <1>13, <1>14

-----------------------------------------------------------------------------
(* Writers meanwhile.                                                      *)

(* The tables of the next state are of their types, too.                   *)
LEMMA StoreNext ==
  ASSUME IInv'
  PROVE  \E N \in Store :
           /\ N = Now' /\ N.courses = courses' /\ N.teachers = teachers' /\ N.lessons = lessons'
           /\ N.records = records' /\ N.events = events' /\ N.notes = notes'
<1>1. PICK N : N = Now'
  OBVIOUS
<1>2. /\ N.courses = courses' /\ N.teachers = teachers' /\ N.lessons = lessons'
      /\ N.records = records' /\ N.events = events' /\ N.notes = notes'
  BY <1>1 DEF Now
<1>3. N = [courses |-> courses', teachers |-> teachers', lessons |-> lessons', records |-> records',
           events |-> events', notes |-> notes']
  BY <1>1 DEF Now
<1>4. N \in Store
  BY <1>3 DEF Store, IInv, Typed
<1> QED BY <1>1, <1>2, <1>4

(* A page is still right after the first write to a table.                 *)
LEMMA WriteRight ==
  ASSUME IInv, IInv', PageReads, page.pc \in Steps, UNCHANGED page, Watch, writes' = CountWrite,
         OneWrite(page.scope, Now, Now')
  PROVE  PageReads' /\ PageShown'
<1>1. PageShown'
  BY DEF PageShown, ShownWasInScope, InScopeIsShown, Steps
<1>2. CASE writes' > 1
  BY <1>1, <1>2, ReadAssumption DEF PageReads, IInv, Typed
<1>3. CASE writes' <= 1
  <2>1. writes = 0
    BY <1>3, ReadAssumption DEF CountWrite, IInv, Typed
  <2>2. PICK T \in Store : T = Now
    BY StoreNow
  <2>3. PICK N \in Store : N = Now'
    BY StoreNext
  <2>4. PICK p : p = page
    OBVIOUS
  <2>5. ReadsFrom(p, T, T, 0, ever, always)
    BY <2>1, <2>2, <2>4 DEF PageReads, ReadsFrom
  <2>6. /\ Knows(ever', p.kind, p.scope, N) /\ Holds(always', p.kind, p.scope, N)
        /\ Knows(ever', p.kind, p.scope, T) /\ Holds(always', p.kind, p.scope, T)
    <3>1. Typed' /\ page'.scope \in ScopeType
      BY PageIs DEF IInv
    <3>2. /\ Knows(ever', p.kind, p.scope, N) /\ Holds(always', p.kind, p.scope, N)
          /\ \A X : Knows(ever, p.kind, p.scope, X) => Knows(ever', p.kind, p.scope, X)
          /\ \A X : Holds(always, p.kind, p.scope, X) => Holds(always', p.kind, p.scope, X)
      BY <2>3, <2>4, <3>1, WatchTells
    <3>3. Knows(ever, p.kind, p.scope, T) /\ Holds(always, p.kind, p.scope, T)
      BY <2>5 DEF ReadsFrom
    <3> QED BY <3>2, <3>3
  <2>7. HasRead(p, T, N) /\ HasKept(p, T, N) /\ HasDue(p, T, N)
    <3>1. HasRead(p, T, T) /\ HasKept(p, T, T) /\ HasDue(p, T, T)
      BY <2>5 DEF ReadsFrom
    <3>2. Older(T, N)
      BY <2>2, <2>3, <2>4 DEF OneWrite
    <3> QED BY <3>1, <3>2, ReadBefore
  <2>8. writes' # 0
    BY <2>1, ReadAssumption DEF CountWrite
  <2>9. OneWrite(p.scope, T, N)
    BY <2>2, <2>3, <2>4
  <2>10. ReadsFrom(p, T, N, writes', ever', always')
    BY <2>6, <2>7, <2>8, <2>9 DEF ReadsFrom
  <2>11. PageReads'
    BY <2>3, <2>4, <2>10 DEF PageReads
  <2> QED BY <1>1, <2>11
<1>4. writes' \in Int
  BY DEF IInv, Typed
<1> QED BY <1>2, <1>3, <1>4

(* A row that is appended leaves the others.                               *)
LEMMA Appended ==
  ASSUME NEW S, NEW q \in Seq(S), NEW x \in S
  PROVE  \A i \in DOMAIN q : i \in DOMAIN Append(q, x) /\ Append(q, x)[i] = q[i]
<1>1. PICK n \in Nat : n = Len(q) /\ DOMAIN q = 1..n
  BY LenProperties
<1>2. DOMAIN Append(q, x) = 1..(n + 1)
  BY <1>1, AppendProperties, LenProperties
<1>3. \A i \in 1..n : i \in 1..(n + 1) /\ Append(q, x)[i] = q[i]
  BY <1>1, AppendProperties
<1> QED BY <1>1, <1>2, <1>3

(* A sync or the assignment page writes a course.                          *)
LEMMA CourseRight ==
  ASSUME IInv, IInv', PageReads, NEW c \in Courses,
         \/ \E t \in Teachers : Lead(c, t)
         \/ \E b \in Branches \union {Nil} : AssignCourse(c, b)
  PROVE  PageReads' /\ PageShown'
<1>1. Write /\ UNCHANGED <<teachers, lessons, records, events, notes, page>>
  BY DEF Lead, AssignCourse, Write
<1>2. PICK T \in Store, N \in Store : /\ T = Now /\ N = Now' /\ N.teachers = T.teachers
        /\ N.lessons = T.lessons /\ N.records = T.records /\ N.events = T.events /\ N.notes = T.notes
  BY <1>1, StoreNow, StoreNext
<1>3. OneWrite(page.scope, T, N)
  BY <1>2, CourseWrite
<1> QED BY <1>1, <1>2, <1>3, WriteRight DEF Write

(* The assignment page writes a teacher.                                   *)
LEMMA AssignTeacherRight ==
  ASSUME IInv, IInv', PageReads, NEW t \in Teachers, NEW b \in Branches \union {Nil},
         AssignTeacher(t, b)
  PROVE  PageReads' /\ PageShown'
<1>1. PICK T \in Store, N \in Store : /\ T = Now /\ N = Now'
        /\ N.teachers = [T.teachers EXCEPT ![t] = b] /\ N.courses = T.courses
        /\ N.lessons = T.lessons /\ N.records = T.records /\ N.events = T.events /\ N.notes = T.notes
  <2>1. /\ teachers' = [teachers EXCEPT ![t] = b]
        /\ UNCHANGED <<courses, lessons, records, events, notes>>
    BY DEF AssignTeacher, Write
  <2> QED BY <2>1, StoreNow, StoreNext
<1>2. \A x \in Teachers : x # t => N.teachers[x] = T.teachers[x]
  BY <1>1 DEF Store, TeacherTable
<1>3. OneWrite(page.scope, T, N)
  BY <1>1, <1>2, TeacherWrite
<1> QED BY <1>1, <1>3, WriteRight DEF AssignTeacher, Write

(* A lesson gets a course and a teacher, or its homework.                  *)
LEMMA LessonRight ==
  ASSUME IInv, IInv', PageReads, NEW l \in Lessons,
         \/ GiveHomework(l)
         \/ \E c \in Courses, t \in Teachers \union {Nil} : HoldLesson(l, c, t)
  PROVE  PageReads' /\ PageShown'
<1>1. Write /\ UNCHANGED <<courses, teachers, records, events, notes, page>>
  BY DEF HoldLesson, GiveHomework, Write
<1>2. PICK T \in Store, N \in Store : /\ T = Now /\ N = Now' /\ T.lessons = lessons
        /\ N.lessons = lessons' /\ N.courses = T.courses /\ N.teachers = T.teachers
        /\ N.records = T.records /\ N.events = T.events /\ N.notes = T.notes
  BY <1>1, StoreNow, StoreNext
<1>3. DOMAIN lessons = Lessons /\ \A k \in Lessons : lessons[k] \in LessonType
  BY <1>2, RowTypes
<1>4. ASSUME NEW k \in Lessons PROVE lessons[k].homework => lessons'[k].homework
  <2>1. ASSUME GiveHomework(l) PROVE lessons[k].homework => lessons'[k].homework
    <3>1. lessons' = [lessons EXCEPT ![l] = [lessons[l] EXCEPT !.homework = TRUE]]
      BY <2>1 DEF GiveHomework
    <3>2. lessons'[k] = IF k = l THEN [lessons[l] EXCEPT !.homework = TRUE] ELSE lessons[k]
      BY <1>3, <3>1
    <3>3. [lessons[l] EXCEPT !.homework = TRUE].homework = TRUE
      BY <1>3 DEF LessonType
    <3> QED BY <3>2, <3>3
  <2>2. ASSUME NEW c \in Courses, NEW t \in Teachers \union {Nil}, HoldLesson(l, c, t)
        PROVE  lessons[k].homework => lessons'[k].homework
    <3>1. PICK teacher : teacher = IF t = Nil THEN lessons[l].teacher ELSE t
      OBVIOUS
    <3>2. PICK row : row = [lessons[l] EXCEPT !.course = c, !.teacher = teacher]
      OBVIOUS
    <3>3. lessons' = [lessons EXCEPT ![l] = row]
      BY <1>3, <2>2, <3>1, <3>2 DEF HoldLesson, LessonType
    <3>4. lessons'[k] = IF k = l THEN row ELSE lessons[k]
      BY <1>3, <3>3
    <3>5. row.homework = lessons[l].homework
      BY <1>3, <3>2 DEF LessonType
    <3> QED BY <3>4, <3>5
  <2> QED BY <2>1, <2>2
<1>5. Older(T, N)
  BY <1>2, <1>4 DEF Older
<1>6. OneWrite(page.scope, T, N)
  BY <1>2, <1>5, OtherWrite
<1> QED BY <1>1, <1>2, <1>6, WriteRight DEF Write

(* A webhook adds a row.                                                   *)
LEMMA RowAddedRight ==
  ASSUME IInv, IInv', PageReads, NEW row \in Fresh, InsertEvent(row) \/ AddRecord(row)
  PROVE  PageReads' /\ PageShown'
<1>1. row \in RowType
  BY ReadAssumption
<1>2. CASE InsertEvent(row)
  <2>1. PICK T \in Store, N \in Store : /\ T = Now /\ N = Now'
          /\ N.courses = T.courses /\ N.teachers = T.teachers
          /\ N.lessons = T.lessons /\ N.records = T.records /\ N.notes = T.notes
    BY <1>2, StoreNow, StoreNext DEF InsertEvent, Write
  <2>2. Older(T, N)
    BY <2>1 DEF Older
  <2>3. OneWrite(page.scope, T, N)
    BY <2>1, <2>2, OtherWrite
  <2> QED BY <1>2, <2>1, <2>3, WriteRight DEF InsertEvent, Write
<1>3. CASE AddRecord(row)
  <2>1. PICK T \in Store, N \in Store : /\ T = Now /\ N = Now'
          /\ N.records = Append(T.records, row) /\ N.courses = T.courses /\ N.teachers = T.teachers
          /\ N.lessons = T.lessons /\ N.events = T.events /\ N.notes = T.notes
    BY <1>3, StoreNow, StoreNext DEF AddRecord, Write
  <2>2. \A i \in DOMAIN T.records : i \in DOMAIN N.records /\ N.records[i] = T.records[i]
    BY <1>1, <2>1, Appended DEF Store
  <2>3. Older(T, N)
    BY <2>1, <2>2 DEF Older
  <2>4. PICK k \in Nat : k = Len(T.records) + 1
    BY LenProperties DEF Store
  <2>5. /\ k \notin DOMAIN T.records
        /\ \A j : j # k => (j \in DOMAIN N.records <=> j \in DOMAIN T.records)
    <3>1. PICK n \in Nat : n = Len(T.records) /\ DOMAIN T.records = 1..n
      BY LenProperties DEF Store
    <3>2. DOMAIN N.records = 1..(n + 1)
      BY <1>1, <2>1, <3>1, AppendProperties, LenProperties DEF Store
    <3> QED BY <2>4, <3>1, <3>2
  <2>6. Alike(k, T.records, N.records)
    BY <2>2, <2>5 DEF Alike
  <2>7. OneWrite(page.scope, T, N)
    BY <2>1, <2>3, <2>6, RecordWrite
  <2> QED BY <1>3, <2>1, <2>7, WriteRight DEF AddRecord, Write
<1> QED BY <1>2, <1>3

(* A webhook writes over a record: it keeps the record's lesson and its    *)
(* student, and writes either its teacher or its submission.               *)
Revised(old, new) ==
    /\ new.lesson = old.lesson /\ new.student = old.student
    /\ old.submitted => new.submitted
    /\ new.teacher # old.teacher => new.submitted = old.submitted

LEMMA OverwriteRight ==
  ASSUME IInv, IInv', PageReads, NEW i \in DOMAIN records, NEW new, Overwrite(i, new),
         Revised(records[i], new)
  PROVE  PageReads' /\ PageShown'
<1>1. Write /\ UNCHANGED <<courses, teachers, lessons, events, notes, page>>
      /\ records' = [records EXCEPT ![i] = new]
  BY DEF Overwrite, Write
<1>2. PICK T \in Store, N \in Store : /\ T = Now /\ N = Now' /\ T.records = records
        /\ N.records = records' /\ N.courses = T.courses /\ N.teachers = T.teachers
        /\ N.lessons = T.lessons /\ N.events = T.events /\ N.notes = T.notes
  BY <1>1, StoreNow, StoreNext
<1>3. /\ DOMAIN N.records = DOMAIN T.records /\ i \in DOMAIN T.records
      /\ \A j \in DOMAIN T.records : N.records[j] = IF j = i THEN new ELSE T.records[j]
  BY <1>1, <1>2
<1>4. Revised(T.records[i], new)
  BY <1>2
<1>5. Older(T, N)
  BY <1>2, <1>3, <1>4 DEF Older, Revised
<1>6. Alike(i, T.records, N.records)
  BY <1>3, <1>4 DEF Alike, Revised
<1>7. OneWrite(page.scope, T, N)
  BY <1>2, <1>5, <1>6, RecordWrite
<1> QED BY <1>1, <1>2, <1>7, WriteRight DEF Write

LEMMA RowChangedRight ==
  ASSUME IInv, IInv', PageReads, NEW i \in DOMAIN records,
         \/ \E sheet \in Sheets : Attend(i, sheet)
         \/ \E c \in Courses \union {Nil} : Submit(i, c) \/ Patch(i, c)
  PROVE  PageReads' /\ PageShown'
<1>1. PICK old \in RowType : old = records[i]
  BY Lengths, ElementOfSeq DEF IInv, Typed
<1>2. \E new : Overwrite(i, new) /\ Revised(old, new)
  <2>1. ASSUME NEW sheet, Attend(i, sheet) PROVE \E new : Overwrite(i, new) /\ Revised(old, new)
    <3>1. PICK c, t, r : c = sheet.course /\ t = sheet.teacher /\ r = sheet.recent
      OBVIOUS
    <3>2. PICK new : new = [old EXCEPT !.course = c, !.teacher = t, !.recent = r]
      OBVIOUS
    <3>3. Revised(old, new)
      BY <3>2 DEF Revised, RowType
    <3>4. Overwrite(i, new)
      BY <1>1, <2>1, <3>1, <3>2 DEF Attend
    <3> QED BY <3>3, <3>4
  <2>2. ASSUME NEW c, Submit(i, c) PROVE \E new : Overwrite(i, new) /\ Revised(old, new)
    <3>1. PICK new : new = [old EXCEPT !.course = c, !.submitted = TRUE]
      OBVIOUS
    <3>2. Revised(old, new)
      BY <3>1 DEF Revised, RowType
    <3>3. Overwrite(i, new)
      BY <1>1, <2>2, <3>1 DEF Submit
    <3> QED BY <3>2, <3>3
  <2>3. ASSUME NEW c, Patch(i, c) PROVE \E new : Overwrite(i, new) /\ Revised(old, new)
    <3>1. PICK new : new = [old EXCEPT !.course = c]
      OBVIOUS
    <3>2. Revised(old, new)
      BY <3>1 DEF Revised, RowType
    <3>3. Overwrite(i, new)
      BY <1>1, <2>3, <3>1 DEF Patch
    <3> QED BY <3>2, <3>3
  <2> QED BY <2>1, <2>2, <2>3
<1> QED BY <1>1, <1>2, OverwriteRight

(* A notice is recorded: while a page is read, and when it is shown.       *)
LEMMA RecordOneRight ==
  ASSUME IInv, IInv', PageReads, PageShown, RecordOne
  PROVE  PageReads' /\ PageShown'
<1>1. UNCHANGED <<tables, page, pages, form>>
      /\ IF page.pc \in Steps THEN Watch /\ writes' = CountWrite ELSE UNCHANGED <<writes, ever, always>>
  BY DEF RecordOne
<1>2. PICK row : notes' = Append(notes, row)
  BY DEF RecordOne
<1>3. PICK n \in Nat, m \in Nat :
        /\ n = Len(notes) /\ m = Len(notes') /\ n <= m
        /\ \A i \in DOMAIN notes : i \in DOMAIN notes' /\ notes'[i] = notes[i]
  <2>1. notes \in Seq(NoteType) /\ notes' \in Seq(NoteType)
    BY DEF IInv, Typed
  <2>2. PICK n \in Nat, m \in Nat : n = Len(notes) /\ m = Len(notes')
    BY <2>1, LenProperties
  <2>3. m = n + 1 /\ DOMAIN notes = 1..n /\ DOMAIN notes' = 1..m
        /\ \A i \in 1..n : notes'[i] = notes[i]
    BY <1>2, <2>1, <2>2
  <2>4. \A i \in 1..n : i \in 1..m
    BY <2>3
  <2> QED BY <2>2, <2>3, <2>4
<1>4. CASE page.pc \in Steps
  <2>1. PICK T \in Store, N \in Store : /\ T = Now /\ N = Now' /\ T.notes = notes /\ N.notes = notes'
          /\ N.courses = T.courses /\ N.teachers = T.teachers /\ N.lessons = T.lessons
          /\ N.records = T.records /\ N.events = T.events
    BY <1>1, StoreNow, StoreNext DEF tables
  <2>2. Older(T, N)
    BY <1>3, <2>1 DEF Older
  <2>3. OneWrite(page.scope, T, N)
    BY <2>1, <2>2, OtherWrite
  <2> QED BY <1>1, <1>4, <2>1, <2>3, WriteRight
<1>5. CASE page.pc \notin Steps
  <2>1. UNCHANGED <<tables, page, writes, ever, always>>
    BY <1>1, <1>5
  <2>2. PageReads'
    BY <1>5, <2>1 DEF PageReads
  <2>3. Due(page.kind, ever)' = Due(page.kind, ever) /\ Due(page.kind, always)' = Due(page.kind, always)
    BY <2>1 DEF Due, tables
  <2>4. ShownWasInScope'
    BY <2>1, <2>3 DEF PageShown, ShownWasInScope
  <2>5. InScopeIsShown'
    <3>1. ASSUME NEW i \in Due(page.kind, always), page.pc = "shown", writes <= 1,
                 Len(notes) - i >= Scan
          PROVE  Len(notes') - i >= Scan
      <4>1. i \in Nat
        BY <3>1 DEF PageShown, Due
      <4>2. PICK k, scan \in Nat : k = Len(notes') /\ scan = Scan
        BY <1>3, ReadAssumption
      <4>3. PICK j \in Nat : j = i
        BY <4>1
      <4> QED BY <1>3, <3>1, <4>2, <4>3
    <3> QED BY <2>1, <2>3, <3>1 DEF PageShown, InScopeIsShown, tables
  <2> QED BY <2>1, <2>2, <2>4, <2>5 DEF PageShown
<1> QED BY <1>4, <1>5

-----------------------------------------------------------------------------
(* Who is told: the students of a form, and of a batch of it, had homework *)
(* missing.                                                                *)
Told == Justified(form) /\ \A b \in DOMAIN sends : JustifiedBatch(sends[b])

(* A form is composed of a page that is right.                             *)
LEMMA ComposeTold ==
  ASSUME IInv, PageShown, Told, Compose
  PROVE  PageReads' /\ PageShown' /\ Told'
<1>1. /\ page.pc = "shown" /\ page.kind = "missing" /\ page' = NoPage /\ UNCHANGED sends
  BY DEF Compose
<1>2. PICK missed : missed = { records[i].student : i \in Due("missing", ever) }
  OBVIOUS
<1>3. PICK students \in SetToSeqs(Addressees(page)) :
        /\ form'.students = students /\ form'.missed = missed /\ form'.sure = (writes <= 1)
  <2>1. PICK students \in SetToSeqs(Addressees(page)) :
          form' = [students |-> students, missed |-> missed, sure |-> writes <= 1]
    BY <1>2 DEF Compose
  <2> QED BY <2>1
<1>4. Justified(form')
  <2> SUFFICES ASSUME writes <= 1 PROVE Range(students) \subseteq missed
    BY <1>3 DEF Justified
  <2>1. page.shown \subseteq DOMAIN records
    BY <1>1, Lengths DEF IInv, PageFits, FromTable
  <2>2. Range(students) \subseteq Addressees(page)
    BY <1>1, <1>3, <2>1, AddresseesAre DEF IInv
  <2>3. page.shown \subseteq Due("missing", ever)
    BY <1>1 DEF PageShown, ShownWasInScope
  <2>4. Addressees(page) \subseteq missed
    BY <1>2, <2>3 DEF Addressees
  <2> QED BY <2>2, <2>4
<1>5. Told'
  BY <1>1, <1>4 DEF Told
<1>6. PageReads' /\ PageShown'
  BY <1>1 DEF PageReads, PageShown, ShownWasInScope, InScopeIsShown, NoPage, Steps
<1> QED BY <1>5, <1>6

(* A batch that claims to be of the form has only the form's students.     *)
LEMMA SendTold ==
  ASSUME IInv, Told, NEW messages \in Posts, NEW live \in BOOLEAN, Send(messages, live)
  PROVE  Told'
<1>1. UNCHANGED form
  BY DEF Send
<1>2. PICK b : b = [messages |-> messages, live |-> live, at |-> 1, delivered |-> {},
                    status |-> IF live THEN Nil ELSE "dry_run", missed |-> form.missed,
                    sure |-> form.sure /\ Range(messages) \subseteq Range(form.students),
                    pc |-> Begin(messages, live)]
  OBVIOUS
<1>3. sends' = Append(sends, b)
  BY <1>2 DEF Send
<1>4. /\ b.messages = messages /\ b.missed = form.missed
      /\ b.sure <=> form.sure /\ Range(messages) \subseteq Range(form.students)
  BY <1>2
<1>5. JustifiedBatch(b)
  BY <1>4 DEF Told, Justified, JustifiedBatch
<1>6. PICK m \in Nat : m = Len(sends) /\ DOMAIN sends = 1..m
  BY LenProperties DEF IInv, Typed
<1>7. DOMAIN sends' = 1..(m + 1) /\ sends'[m + 1] = b /\ \A k \in 1..m : sends'[k] = sends[k]
  <2>1. sends \in Seq(BatchType)
    BY DEF IInv, Typed
  <2> QED BY <1>3, <1>6, <2>1
<1>8. ASSUME NEW k \in 1..(m + 1) PROVE JustifiedBatch(sends'[k])
  <2>1. CASE k = m + 1
    BY <1>5, <1>7, <2>1
  <2>2. CASE k # m + 1
    <3>1. k \in 1..m
      BY <2>2
    <3> QED BY <1>6, <1>7, <3>1 DEF Told
  <2> QED BY <2>1, <2>2
<1> QED BY <1>1, <1>7, <1>8 DEF Told

(* A batch that goes on has the messages, and the students, it had.        *)
LEMMA BatchTold ==
  ASSUME IInv, Told, Running, UNCHANGED form, NEW c, InBatch(c),
         c.messages = Last(sends).messages, c.missed = Last(sends).missed,
         c.sure = Last(sends).sure
  PROVE  Told'
<1>1. PICK n \in Nat : /\ n = Len(sends) /\ n \in DOMAIN sends /\ DOMAIN sends = 1..n
                       /\ Last(sends) = sends[n]
  BY RunningBatch
<1>2. JustifiedBatch(c)
  <2>1. JustifiedBatch(sends[n])
    BY <1>1 DEF Told
  <2> QED BY <1>1, <2>1 DEF JustifiedBatch
<1>3. sends' = [sends EXCEPT ![n] = c]
  BY <1>1 DEF InBatch
<1>4. DOMAIN sends' = DOMAIN sends /\ \A k \in DOMAIN sends : sends'[k] = IF k = n THEN c ELSE sends[k]
  BY <1>1, <1>3
<1>5. \A k \in DOMAIN sends : JustifiedBatch(sends'[k])
  BY <1>2, <1>4 DEF Told
<1> QED BY <1>4, <1>5 DEF Told

(* dispatch changes nothing of what a batch is about.                      *)
LEMMA DispatchTold ==
  ASSUME IInv, Told, DispatchSteps \/ Crash
  PROVE  Told'
<1>1. Running /\ UNCHANGED form
  BY DEF DispatchSteps, SendOne, RecordOne, RecordFails, Crash, Batch
<1>2. PICK b \in BatchType : b = Last(sends)
  BY <1>1, RunningBatch
<1>3. ASSUME NEW answer, SendOne(answer) PROVE Told'
  <2>1. PICK status, delivered :
          InBatch([b EXCEPT !.status = status, !.pc = "record", !.delivered = delivered])
    BY <1>2, <1>3 DEF SendOne, Answered
  <2>2. PICK c : c = [b EXCEPT !.status = status, !.pc = "record", !.delivered = delivered]
    OBVIOUS
  <2>3. c.messages = b.messages /\ c.missed = b.missed /\ c.sure = b.sure
    BY <2>2 DEF BatchType
  <2> QED BY <1>1, <1>2, <2>1, <2>2, <2>3, BatchTold
<1>4. CASE RecordOne
  <2>1. PICK at, pc : InBatch([b EXCEPT !.at = at, !.pc = pc])
    BY <1>2, <1>4 DEF RecordOne
  <2>2. PICK c : c = [b EXCEPT !.at = at, !.pc = pc]
    OBVIOUS
  <2>3. c.messages = b.messages /\ c.missed = b.missed /\ c.sure = b.sure
    BY <2>2 DEF BatchType
  <2> QED BY <1>1, <1>2, <2>1, <2>2, <2>3, BatchTold
<1>5. CASE RecordFails \/ Crash
  <2>1. InBatch([b EXCEPT !.pc = "cut"])
    BY <1>2, <1>5 DEF RecordFails, Crash
  <2>2. PICK c : c = [b EXCEPT !.pc = "cut"]
    OBVIOUS
  <2>3. c.messages = b.messages /\ c.missed = b.missed /\ c.sure = b.sure
    BY <2>2 DEF BatchType
  <2> QED BY <1>1, <1>2, <2>1, <2>2, <2>3, BatchTold
<1> QED BY <1>3, <1>4, <1>5 DEF DispatchSteps

-----------------------------------------------------------------------------
(* Theorems about pages.                                                   *)

PInv == IInv /\ PageReads /\ PageShown /\ Told

LEMMA InitPages == Init => PInv
<1> SUFFICES ASSUME Init PROVE PInv
  OBVIOUS
<1>1. page.pc = "closed"
  BY DEF Init, NoPage
<1>2. PageReads /\ PageShown
  BY <1>1 DEF PageReads, PageShown, ShownWasInScope, InScopeIsShown, Steps
<1>3. Told
  BY NoticeAssumption DEF Init, Told
<1> QED BY <1>2, <1>3, InitInv DEF PInv

(* Every step keeps it.                                                    *)
LEMMA NextPages == ASSUME PInv, [Next]_allVars PROVE PInv'
<1>1. IInv /\ PageReads /\ PageShown /\ Told
  BY DEF PInv
<1>2. IInv'
  BY <1>1, NextInv
<1>3. UNCHANGED <<form, sends>> => Told'
  BY <1>1 DEF Told, Justified, JustifiedBatch
<1>4. ASSUME UNCHANGED vars PROVE PageReads' /\ PageShown'
  <2>1. Now' = Now /\ UNCHANGED <<page, writes, ever, always, tables, notes>>
    BY <1>4, SameStore DEF vars
  <2>2. PageReads'
    BY <1>1, <2>1 DEF PageReads
  <2>3. Due(page.kind, ever)' = Due(page.kind, ever) /\ Due(page.kind, always)' = Due(page.kind, always)
    BY <2>1 DEF Due, tables
  <2>4. ShownWasInScope' /\ InScopeIsShown'
    BY <1>1, <2>1, <2>3 DEF PageShown, ShownWasInScope, InScopeIsShown, tables
  <2> QED BY <1>1, <2>1, <2>2, <2>4 DEF PageShown
<1>5. CASE PoolSteps /\ UNCHANGED <<form, sends>>
  <2>1. PageReads' /\ PageShown'
    BY <1>1, <1>2, <1>5, OpenPageRight, ReadRowsRight, ReadCoursesRight, ReadTeamRight, ReadTaughtRight,
       ReadUidsRight, ReadNotesRight, CourseRight DEF PoolSteps
  <2> QED BY <1>2, <1>3, <1>5, <2>1 DEF PInv
<1>6. CASE ~Running /\ LoopWrites /\ UNCHANGED <<form, sends>>
  <2>1. PageReads' /\ PageShown'
    BY <1>1, <1>2, <1>6, AssignTeacherRight, LessonRight, RowAddedRight, RowChangedRight
       DEF LoopWrites
  <2> QED BY <1>2, <1>3, <1>6, <2>1 DEF PInv
<1>7. CASE Compose
  BY <1>1, <1>2, <1>7, ComposeTold DEF PInv
<1>8. CASE \E messages \in Posts, live \in BOOLEAN : Send(messages, live)
  <2>1. Told'
    BY <1>1, <1>8, SendTold
  <2> QED BY <1>2, <1>4, <1>8, <2>1 DEF PInv, Send
<1>9. CASE DispatchSteps
  <2>1. Told'
    BY <1>1, <1>9, DispatchTold
  <2>2. CASE RecordOne
    BY <1>1, <1>2, <2>1, <2>2, RecordOneRight DEF PInv
  <2>3. CASE UNCHANGED vars
    BY <1>2, <1>4, <2>1, <2>3 DEF PInv
  <2> QED BY <1>9, <2>2, <2>3 DEF DispatchSteps, SendOne, RecordFails
<1>10. CASE Crash
  <2>1. Told'
    BY <1>1, <1>10, DispatchTold
  <2>2. CASE page.pc \in Steps
    <3>1. page'.pc = "closed"
      BY <1>10, <2>2 DEF Crash, NoPage
    <3>2. PageReads' /\ PageShown'
      BY <3>1 DEF PageReads, PageShown, ShownWasInScope, InScopeIsShown, Steps
    <3> QED BY <1>2, <2>1, <3>2 DEF PInv
  <2>3. CASE page.pc \notin Steps
    <3>1. UNCHANGED vars
      BY <1>10, <2>3 DEF Crash, vars
    <3> QED BY <1>2, <1>4, <2>1, <3>1 DEF PInv
  <2> QED BY <2>2, <2>3
<1>11. CASE UNCHANGED allVars
  BY <1>2, <1>3, <1>4, <1>11 DEF PInv, allVars
<1> QED BY <1>5, <1>6, <1>7, <1>8, <1>9, <1>10, <1>11 DEF Next

LEMMA PagesInvariance == Spec => []PInv
<1>1. Init => PInv
  BY InitPages
<1>2. PInv /\ [Next]_allVars => PInv'
  BY NextPages
<1> QED BY <1>1, <1>2, PTL DEF Spec

(* ShownWasInScope: a page shows nothing that was not in its scope at some *)
(* moment of its reading, if no more than one row was written then; and as *)
(* missing homework nothing that was not also open, and told to have       *)
(* homework, at some moment of it.                                         *)
THEOREM ShownInScope == Spec => []ShownWasInScope
<1>1. PInv => ShownWasInScope
  BY DEF PInv, PageShown
<1> QED BY <1>1, PagesInvariance, PTL

(* InScopeIsShown: ... and it hides nothing that was in its scope all the  *)
(* while, and open and told by the same, but for its limits.               *)
THEOREM ScopeIsShown == Spec => []InScopeIsShown
<1>1. PInv => InScopeIsShown
  BY DEF PInv, PageShown
<1> QED BY <1>1, PagesInvariance, PTL

(* OnlyMissingAreTold: nobody whom a batch of the form's students tells of *)
(* missing homework had none missing, by what was so at some moment of the *)
(* composing.                                                              *)
THEOREM ToldWereMissing == Spec => []OnlyMissingAreTold
<1>1. PInv => OnlyMissingAreTold
  <2> SUFFICES ASSUME PInv, NEW n \in Range(notes), n.batch # 0, sends[n.batch].sure
               PROVE  n.student \in sends[n.batch].missed
    BY DEF OnlyMissingAreTold
  <2>1. PICK i \in DOMAIN notes : n = notes[i]
    BY DEF Range
  <2>2. n \in NoteType
    BY <2>1, LenProperties, ElementOfSeq DEF PInv, IInv, Typed
  <2>3. n.batch \in DOMAIN sends
    <3>1. PICK m \in Nat : m = Len(sends) /\ DOMAIN sends = 1..m
      BY LenProperties DEF PInv, IInv, Typed
    <3>2. PICK k \in Nat : k = n.batch
      BY <2>2 DEF NoteType
    <3>3. k <= m
      BY <2>1, <3>1, <3>2 DEF PInv, IInv, BatchesRun
    <3> QED BY <3>1, <3>2, <3>3
  <2>4. PICK batch : batch = sends[n.batch]
    OBVIOUS
  <2>5. Accounted(notes, n.batch, batch) /\ JustifiedBatch(batch)
    BY <2>3, <2>4 DEF PInv, IInv, DispatchAccounts, Told
  <2>6. i \in RowsOf(notes, n.batch)
    BY <2>1 DEF RowsOf
  <2>7. PICK k \in DOMAIN batch.messages : n.student = batch.messages[k]
    BY <2>1, <2>5, <2>6 DEF Accounted
  <2>8. n.student \in Range(batch.messages)
    BY <2>7 DEF Range
  <2> QED BY <2>4, <2>5, <2>8 DEF JustifiedBatch
<1> QED BY <1>1, PagesInvariance, PTL
=============================================================================
