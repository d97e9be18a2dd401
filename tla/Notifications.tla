---------------------------- MODULE Notifications ----------------------------
(***************************************************************************)
(* Notices about missing homework: routes_notify.py and dispatcher.py.     *)
(*                                                                         *)
(* A user composes a form from the rows of missing homework in the user's  *)
(* scope, in a pool thread, and sends it, now or later, once or again.     *)
(* dispatch sends the messages one by one and records each in              *)
(* notify_history; notify_send runs it on the event loop without an await, *)
(* so no webhook, assignment or other batch comes between, but the threads *)
(* of the pool go on.  The app asks for a dry run; dispatch also takes a   *)
(* sender, which may refuse a message or fail after it was delivered.      *)
(***************************************************************************)
EXTENDS ScopedReads, SequencesExt

CONSTANTS
    First,   \* what the store and the browser may hold at first
    Posts,   \* the messages a form may post: their students
    FormFirst, \* bound: TRUE if none are posted before a form was composed
    MaxSends \* bound: batches, each of which a crash may cut

(* notify_history; batch (history) is the number of the batch, or 0 for a  *)
(* notice from before the batches that are told apart.                     *)
NoteType == [student : Students, status : {"dry_run", "sent", "failed"}, batch : Nat]

(* A preview, whose messages name their students.  missed and sure, see    *)
(* Compose, are history.                                                   *)
FormType == [students : Seq(Students), missed : SUBSET Students, sure : BOOLEAN]

(* A batch: the message it is at, those delivered (history), and of the    *)
(* form it is from what the form's history says.                           *)
BatchType ==
    [messages : Seq(Students), live : BOOLEAN, at : Nat, delivered : SUBSET Nat,
     status : {Nil, "dry_run", "sent", "failed"}, missed : SUBSET Students, sure : BOOLEAN,
     pc : {"send", "record", "done", "cut"}]

(* What notify_history says of batch b is true: its rows are its messages  *)
(* in their order, one each; a row that says sent is of a message that was *)
(* delivered, a dry run delivers nothing, and only the message at which a  *)
(* batch was cut may be delivered without a row.  A batch that was not cut *)
(* has all its rows, whatever the sender refused.                          *)
RowsOf(history, b) == { i \in DOMAIN history : history[i].batch = b }
Turn(history, i) == Cardinality({ j \in RowsOf(history, history[i].batch) : j <= i })

Accounted(history, b, batch) ==
    /\ \A i \in RowsOf(history, b) :
         LET k == Turn(history, i)
         IN  /\ k \in DOMAIN batch.messages /\ history[i].student = batch.messages[k]
             /\ history[i].status = "sent" => k \in batch.delivered
    /\ batch.delivered \subseteq 1..(Cardinality(RowsOf(history, b)) + 1)
    /\ batch.live \/ batch.delivered = {}
    /\ batch.pc = "done" => Cardinality(RowsOf(history, b)) = Len(batch.messages)

(* Nobody is in a form, or in a batch, who had nothing missing.            *)
Justified(f) == f.sure => Range(f.students) \subseteq f.missed
JustifiedBatch(b) == b.sure => Range(b.messages) \subseteq b.missed

(* What is there at first was made by the same program.                    *)
ASSUME NoticeAssumption ==
    /\ \A f \in First :
         /\ f.courses \in CourseTable /\ f.teachers \in TeacherTable
         /\ f.lessons \in [Lessons -> LessonType]
         /\ f.records \in Seq(RowType) /\ f.events \in Seq(RowType)
         /\ f.notes \in Seq(NoteType)
         /\ \A i \in DOMAIN f.notes : f.notes[i].batch <= Len(f.sends)
         /\ f.form \in FormType /\ Justified(f.form)
         /\ f.sends \in Seq(BatchType) /\ Len(f.sends) <= MaxSends
         /\ \A b \in DOMAIN f.sends :
              /\ f.sends[b].pc \in {"done", "cut"} /\ Accounted(f.notes, b, f.sends[b])
              /\ JustifiedBatch(f.sends[b])
    /\ Posts \subseteq Seq(Students)
    /\ FormFirst \in BOOLEAN
    /\ MaxSends \in Nat
    /\ Nil \notin {"dry_run", "sent", "failed"}

VARIABLES
    form, \* the preview in the user's browser
    sends \* the batches; the last may be running

allVars == <<vars, form, sends>>

NoForm == [students |-> <<>>, missed |-> {}, sure |-> TRUE]

Running == sends # <<>> /\ Last(sends).pc \in {"send", "record"}

Init ==
    /\ \E f \in First :
         /\ courses = f.courses /\ teachers = f.teachers
         /\ lessons = f.lessons /\ records = f.records /\ events = f.events /\ notes = f.notes
         /\ form = f.form /\ sends = f.sends
    /\ page = NoPage
    /\ writes = 0 /\ ever = NoFacts /\ always = NoFacts /\ pages = 0

-----------------------------------------------------------------------------
(* Mutant of Addressees: a message for the whole class of a missing row.    *)
AddresseesOfClass(p) ==
    { records[j].student : j \in { k \in DOMAIN records :
        \E i \in p.shown : records[k].lesson = records[i].lesson } }

Addressees(p) == { records[i].student : i \in p.shown }

(* notify_compose, once it has read the rows: a message for each of their  *)
(* students, in the order of the rows, which is any.  Without rows it only *)
(* redirects.  The history: who had homework missing by what was so at     *)
(* some moment of the reading, see Due, and whether the reading tells      *)
(* that.  Bound: one form, which is kept to be sent again.                 *)
Compose ==
    /\ page.pc = "shown" /\ page.kind = "missing"
    /\ page.shown # {}
    /\ form = NoForm
    /\ \E students \in SetToSeqs(Addressees(page)) :
         form' = [students |-> students, sure |-> writes <= 1,
                  missed |-> { records[i].student : i \in Due("missing", ever) }]
    /\ page' = NoPage
    /\ writes' = 0 /\ ever' = NoFacts /\ always' = NoFacts
    /\ UNCHANGED <<tables, notes, pages, sends>>

(* Mutant of Begin: a batch is taken up without a look at its messages.    *)
BeginAnyway(messages, live) == IF live THEN "send" ELSE "record"

Begin(messages, live) ==
    IF messages = <<>> THEN "done" ELSE IF live THEN "send" ELSE "record"

(* notify_send: whatever messages are posted that have a text, in any      *)
(* order, without a look at what was composed or at the sender's scope.    *)
(* sure: they are of the form, of which the user may have emptied some     *)
(* texts, and Claude left some out.                                        *)
Send(messages, live) ==
    /\ FormFirst => form # NoForm
    /\ ~Running
    /\ Len(sends) < MaxSends
    /\ sends' = Append(sends,
          [messages |-> messages, live |-> live, at |-> 1, delivered |-> {},
           status |-> IF live THEN Nil ELSE "dry_run", missed |-> form.missed,
           sure |-> form.sure /\ Range(messages) \subseteq Range(form.students),
           pc |-> Begin(messages, live)])
    /\ UNCHANGED <<vars, form>>

-----------------------------------------------------------------------------
(* dispatch, a message at a time: its sender, then its row.                *)

Batch(pc) == Running /\ Last(sends).pc = pc

InBatch(b) == sends' = [sends EXCEPT ![Len(sends)] = b]

(* Mutant of Answered: the first message that is refused ends the batch.   *)
AnsweredOrDone(b, answer) ==
    [b EXCEPT !.status = IF answer = "ok" THEN "sent" ELSE "failed",
              !.pc = IF answer = "ok" THEN "record" ELSE "done"]

(* What the sender did: delivered the message, or raised, before or after. *)
Answered(b, answer) ==
    [b EXCEPT !.status = IF answer = "ok" THEN "sent" ELSE "failed", !.pc = "record",
              !.delivered = IF answer = "refused" THEN @ ELSE @ \union {b.at}]

SendOne(answer) ==
    /\ Batch("send")
    /\ InBatch(Answered(Last(sends), answer))
    /\ UNCHANGED <<vars, form>>

(* append_notification; a page that is being read may see the row or not.  *)
RecordOne ==
    /\ Batch("record")
    /\ LET b == Last(sends)
       IN  /\ notes' = Append(notes, [student |-> b.messages[b.at], status |-> b.status,
                                      batch |-> Len(sends)])
           /\ InBatch([b EXCEPT !.at = @ + 1,
                 !.pc = IF b.at = Len(b.messages) THEN "done" ELSE IF b.live THEN "send" ELSE @])
    /\ UNCHANGED <<tables, page, pages, form>>
    /\ IF page.pc \in Steps THEN Watch /\ writes' = CountWrite ELSE UNCHANGED <<writes, ever, always>>

(* append_notification raises: so does dispatch, and the request fails.    *)
RecordFails ==
    /\ Batch("record")
    /\ InBatch([Last(sends) EXCEPT !.pc = "cut"])
    /\ UNCHANGED <<vars, form>>

(* The process stops, with the batch and the page being read; the tables   *)
(* and the form in the browser stay.                                       *)
Crash ==
    /\ Running
    /\ InBatch([Last(sends) EXCEPT !.pc = "cut"])
    /\ page' = IF page.pc \in Steps THEN NoPage ELSE page
    /\ UNCHANGED <<tables, notes, writes, ever, always, pages, form>>

-----------------------------------------------------------------------------
DispatchSteps ==
    \/ \E answer \in {"ok", "refused", "late"} : SendOne(answer)
    \/ RecordOne \/ RecordFails

Next ==
    \/ PoolSteps /\ UNCHANGED <<form, sends>>
    \/ ~Running /\ LoopWrites /\ UNCHANGED <<form, sends>>
    \/ Compose
    \/ \E messages \in Posts, live \in BOOLEAN : Send(messages, live)
    \/ DispatchSteps
    \/ Crash

Spec == Init /\ [][Next]_allVars

-----------------------------------------------------------------------------
(* Properties.                                                             *)

(* A batch that runs is at one of its messages; a page has a scope's rows. *)
TypeOK ==
    /\ PageTypeOK
    /\ form.students \in Seq(Students)
    /\ form.missed \subseteq Students
    /\ Len(sends) <= MaxSends
    /\ \A b \in DOMAIN sends :
         /\ sends[b].pc \in {"send", "record", "done", "cut"}
         /\ sends[b].status \in {Nil, "dry_run", "sent", "failed"}
         /\ sends[b].messages \in Seq(Students)
         /\ sends[b].pc \in {"send", "record"} => sends[b].at \in DOMAIN sends[b].messages
         /\ sends[b].pc = "record" => sends[b].status # Nil
    /\ \A b \in 1..(Len(sends) - 1) : sends[b].pc \in {"done", "cut"}

(* What notify_history says of every batch is true, see Accounted.         *)
DispatchAccounts == \A b \in DOMAIN sends : Accounted(notes, b, sends[b])

(* Nobody is told of missing homework, by whichever batch of a form, who   *)
(* had none missing, by what was so for the scope of who composed it at    *)
(* some moment of the composing; unless two rows were written meanwhile.   *)
(* Of a batch with others than the form's students it says nothing.        *)
OnlyMissingAreTold ==
    \A n \in Range(notes) :
      n.batch # 0 /\ sends[n.batch].sure => n.student \in sends[n.batch].missed
=============================================================================
