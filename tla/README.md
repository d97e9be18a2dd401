# ClassIn Dashboard in TLA+

Formal models of the ClassIn dashboard (`src/src/classin_dashboard`): a FastAPI server that
receives ClassIn's Data Sub webhooks into SQLite, shows lesson, homework and attendance
pages under branch scopes, and creates courses at ClassIn. The models are translated from
the code; documents are only used for the sentences that the code is compared with.

Paths below are relative to `src/src/classin_dashboard` unless they begin with `src/`.

## 1. The system

One process, one event loop, one pool of threads. Handlers declared `async def` run on the
event loop and, where they do not await, run to their end without another in between;
handlers declared `def` (login, accounts, sync, pages) run in pool threads and interleave
with everything. SQLite is opened anew for each store call and every store call is one
transaction, so between any two calls another thread can write, an operation can raise, or
the process can die. Sessions and the login throttle are dicts in memory: a restart
empties them.

| Component | State | Operations | Talks to |
|---|---|---|---|
| Webhook receiver (`web/routes_webhook.py`, `ingest.ingest`) | raw JSONL log, `events` (unique `msg_id`) | decode, `append_raw`, SafeKey, parse, `insert_event`, normalise, ACK | ClassIn (FIFO, redelivers its head every 10 s), `samples/replay.py` |
| Event normalisation (`ingest._ingest_*`, upserts of `store.py`) | `courses`, `lessons`, `students`, `teachers`, `lesson_records` | one handler per `Cmd`, column-wise upserts | called by the receiver; same tables as sync and console |
| Login throttle (`auth.LoginThrottle`) | dict address -> (failures, time) | `locked_seconds`, `record_failure`, `reset` | `login_submit` in pool threads |
| Sessions and accounts (`auth.SessionStore`, `routes_auth`, `routes_admin`) | dict token -> session; `users` | login, logout, expiry; create, (de)activate, new password | read by every handler |
| Course creation (`routes_create`, `classin/actions.py`) | rows of `courses` and `lessons`; courses, units, classes and homework at ClassIn | preview, execute | ClassIn API |
| Branches and scopes (`routes_admin`, `scope.py`, `store.py`) | `branches`, `branch_id` columns, the owner's `branch_filter` | add, credentials, delete, bulk assignment, filter, scope functions | every page that reads; sync |
| Master sync (`classin/reads.py`, `dashboard_sync`) | the same rows | list courses and teachers, upsert, tag with a branch | ClassIn API |
| Scoped queries (`store.py`, `metrics.py`) | none; a page holds what it has read so far | `lesson_records`, `events`, `counts_by_cmd`, `notification_history`, `missing_homework_rows`, each several transactions | every page |
| Schedule parser (`intelligence/schedule_parser.py`) | none | text -> plan, with questions | the preview of course creation; Claude; teachers and courses in scope |
| Notifications (`web/routes_notify.py`, `notify/`) | `notify_history`; a form in the browser | compose, send, `dispatch` (the app asks for `dry_run=True` only; a sender plugs in) | the missing-homework query |
| ClassIn client, signing | none | HTTP, error mapping | sync, creation |
| AI assistance, charts, configuration, deployment | none | - | - |

### What is hard, and what makes each part correct

* **Receiver.** Delivery is at least once and in order, *until the ACK is read*; redelivery,
  lost ACKs, copies still waiting at the server, operator replays, failing store operations
  and crashes come together. Correct means: nothing is derived from, or ACKed of, a payload
  that is not in the log; a message is normalised at most once; an ACK is not sent ahead of
  the work; a half-done message is one a fault cut; first normalisations keep the queue's
  order; the queue is never blocked for good, but by the bodies of section 6.
* **Normalisation.** Events of one lesson come in any order, each is several transactions,
  and a sync writes the same rows from another thread. Correct means: no writer destroys what
  another wrote: what an event told stands until another of its kind tells of the same student
  and class; a record keeps its course; only a submission, or a new date of the lesson, takes a
  student off the missing list.
* **Throttle.** Read-modify-write without a lock. Correct means: never locked early, never
  locked for good. That it is locked in time does not hold (section 6).
* **Accounts.** Rights are copied into a session at login and used long after; name checks
  and inserts, look-ups and updates are separate transactions. Correct means: nobody makes or
  changes an account of a higher role or another branch, and who can no longer log in is out in
  the end.
* **Creation.** A sequence of external calls any of which can be refused (reported, passed
  over), with or without having taken effect, answered without an id, or break off (request
  over), and be submitted again. Correct means: one course per identity, homework in its own
  course's unit, ids that come kept as they come and never used for another class, everything
  not made reported, teachers and managers creating only under their own.
* **Branches.** Ids outlive the rows they name, in forms, filters and running syncs. Correct
  means: only a stale form or sync leaves a row that refers to no branch, a new branch inherits
  nothing, what a sync pulls with a branch's credentials is that branch's, and a row that is
  seen links to a course that opens.
* **Scoped queries.** A page reads rows first and the keys of its scope after, table by table,
  while the event loop and a sync write; limits are applied before the scope. Correct means:
  with one row written in between, nothing is shown that was never in scope and nothing is
  hidden that always was, but for what the limits hide; and of missing homework, which three
  queries put together, that each thing it is made of was so at some moment.
* **Parser.** Many independent rules (academy hours, weeks, sessions, homework lines,
  likeness of names), each plausible alone. Correct means: a course has exactly the lessons
  its line asks for, homework stays under its course, a teacher is the best match or a
  question, and it is known which time ranges come out backward.
* **Notifications.** A form is composed from a page, sent later, maybe twice; a sender may
  refuse, or fail after it delivered; the process may die between a message and its row.
  Correct means: the history tells the truth about every batch, and, of the students of a
  form, only those are told whose homework was missing when it was composed.

## 2. Modules

| Module | Models | Variables and actions |
|---|---|---|
| `IngestJournal` | the promise of the receiver, abstractly | what is logged, begun, written, and which message is under way |
| `WebhookIngest` | `classin_webhook`, `ingest`, `append_raw`, `insert_event`; ClassIn's queue and the replay script around them | `head`, `net`, `acks` are the senders' side; `pc`, `via`, `cur`, `step` the handler; `raw`, `rows`, `applied` the log, the `events` rows and the handler's writes. One action per store call and one per way it fails; `AppendRawRaises` is the body that can never be logged; `Crash`; `Upgrade` deploys a version that knows more `Cmd`s |
| `WebhookIngestProofs` | theorems about it | |
| `LessonRecords` | `_ingest_attendance/_end/_homework_submit/_homework_score` as sequences of store calls; `upsert_course`, `upsert_lesson`, `upsert_teacher`, `ensure_student`, `upsert_lesson_record` column by column; `missing_homework_rows` | tables are functions to rows (columns written so far); `loop` and `pool` hold the calls left to the event loop's job and to the sync; a record has a date, which is in the window of missing homework or not |
| `LessonRecordsProofs` | theorems about it | |
| `LoginThrottle` | `locked_seconds`, `record_failure`, `reset` under `login_submit` | one access of the dict per action; time in ticks |
| `LoginThrottleProofs` | theorems about it | |
| `CourseCreation` | `create_execute` with `_apply_teacher_overrides` and `_enforce_teacher_scope`; ClassIn as four tables | one action per call and one per refusal, which may come after the effect; `Abort` for everything that is no `ClassInError` |
| `CourseCreationProofs` | theorems about it | |
| `ScheduleText` | `smart_parse` and all below it: `detect_format`, `parse_table`, `heuristic_parse`, `_lesson_dates`, `_parse_time_range`, `_parse_clock`, `resolve_entities` | `text` is a table or lines of free text, as data that the regular expressions found; one action per row, line, course and teacher. `courses`, `homework`, `uids`, `reused`, `asked` are the plan in the making. Claude is any answer of the schema, or a failure |
| `ScheduleTextProofs` | theorems about it | |
| `ScopedReads` | `course_ids_in_scope`, `_scope_keys`, `events`, `lesson_records`, `counts_by_cmd`, `notification_history`, `missing_homework_rows` as sequences of transactions; and, as one step and one row each, the writers that can come between: every `upsert_lesson_record` with all the columns its handler gives it, `upsert_lesson`, `upsert_course`, `insert_event` and the assignments | `page` is the page being read: its scope, what it has read, and for missing homework which of its three queries it is in |
| `Notifications` (extends `ScopedReads`) | `notify_compose`, `notify_send`, `dispatch`, `append_notification` | `form` in the browser; `sends`, the batches; one action per message sent, per row written and per way they fail; `Crash` |
| `NotificationsProofs` | theorems about both | |
| `Branches` | `upsert_branch`, `delete_branch`, `_assign`, `set_branch_scope`, `dashboard_sync` + `sync_masters`, `course_ids_in_scope`, `teacher_uids_in_scope`, `_row_in_scope` | tables, the form being processed, the filter, the running sync |
| `BranchesProofs` | theorems about it | |
| `Accounts` | `SessionStore`, `login_submit` for local accounts, `logout`, `admin_user_create`, `_managed_user`, `admin_user_active`, `admin_user_password` | `users` with role, branch and teacher's uid, `sessions` with copies of them, and a request per thread |
| `AccountsProofs` | theorems about it | |

`MC*` modules give constants their values for TLC. `WebhookIngest` and `LessonRecords`
divide a message between them: the first says when and how often it is normalised (a number
of writes), the second what those writes do to the rows of others. `Branches` sees an
`Attendance` event as one step, because it only needs that the columns it does not name
survive; `LessonRecords` has it call by call. `Branches` evaluates a scope at one moment and
asks whether it is the right one; `ScopedReads` asks what becomes of it when the tables change
between its reads. `ScheduleText` ends with the plan that `CourseCreation` begins with.

What the models leave out of the data: payload contents beyond what picks a path; names,
dates and texts (known or not, but for the parser, whose dates and times are numbers); the
likeness of two names (a percentage for each pair); minutes (written or not); dates of lessons
outside the parser (in the window or not);
password hashes and signatures (equality of passwords, unforgeable tokens).

History variables (marked as such) only record what happened: `missed`, `cut`, `generic`
(faults that hit a message), `done`, `begun`, `failed`, `total`, `made`, `broken`, `stale`,
`pulled`, `lost` (classes whose id no reply brought), `last` (the latest event of a kind about a
record), an account's `maker`, a session's `used` password, `ever` and `always` (the facts a
page is about, see `Facts`, that were so at some, at every moment of its reading), the `missed`
and `sure` of a form and of a batch, and a batch's `delivered`. No guard reads one, with two
exceptions: `begun` keeps an event from
being begun twice, which is what the unique `msg_id` does and `WebhookIngest` proves, and the
bounds below.

Each mapped definition may be preceded by a variant of itself whose comment begins
"Mutant of": a plausible bug. Nothing uses these in a specification. They show that the
properties can fail: replacing the definition by its mutant makes TLC find the property
named with it in `PROJECT.json` violated.

## 3. Runs

All runs use two workers and finish in seconds to about a minute and a half. Nine pass; three
end in a counterexample (section 6).

| Run | Question | Bounds and why they are enough |
|---|---|---|
| `webhook_faults` | Three good messages, two with `_id` around one without, and a fourth that can never be logged: at-most-once, log before use, ACK after work, half-done only if cut, queue order, and the refinement of `IngestJournal` | one failing operation or lost ACK and one crash, at any point and in either order; redelivery and replay are unbounded. Three messages are needed for an old copy, the current one and a newer one. The first takes two writes, so that a crash can fall between them |
| `webhook_drains` | Does the queue drain, whatever its bodies are? | one body that is no JSON, one whose SafeKey fails, one that parses only after an upgrade; one fault, one crash. Bodies that are never acknowledged (section 6) are left out: behind one, nothing drains |
| `webhook_refuses` | "ALWAYS returns the required success envelope" | violated, section 6 |
| `webhook_replay` | "can be replayed later when schemas grow" | violated, section 6 |
| `records` | Events of every kind on a lesson, two of them twice (an `Attendance` that moves the lesson to a date out of the window, a score that cannot be computed), a lesson whose `End` lacks a `CourseID`, a submission without `ClassID`, a console lesson, a sync: what stands in the rows, and what leaves the missing list? | two students, one teacher, two classes; every order of eight events and one console request, every interleaving with repeated syncs (of the lesson, the one call of a sync that a property here could see), one crash |
| `throttle_pool` | Is the lock earned and temporary? | three attempts at once (one reads, one stores, one resets), `Max` 3, `Lockout` 2 ticks |
| `throttle_race` | "5 failures from an IP lock it" | violated, section 6 |
| `creation` | Do ClassIn, the store and what the user is told agree? | two courses (one new, one reused), three classes, two with homework; a manager, a teacher and a teacher without a uid (what an owner submits is taken as a manager's plan of own teachers is); two submissions, each call refused or broken off, and one call that takes effect without the handler knowing (`MaxUntold` 1: refused after the effect, or a class without an id in the reply); 1.8 million states. The system stops when the submissions are used up, so deadlock is not checked here |
| `branches` | What refers to a branch, and who sees what? | two branches over the whole run (a deleted one and its successor), one course, one teacher, two ClassIn accounts. Forms, filters and accounts are given ids that exist or existed: the handlers take any integer, but the pages render no other |
| `accounts` | Two requests and a session at a time over two accounts of a branch | two names and passwords, one branch, one teacher's uid, which a form may post for anybody; 1.2 million states. `TTL = 0`: a session is live for any number of steps until the next tick, after which it is not |
| `schedule` | Is the plan what the text says? | families of texts, one for each question: every range of full hours in both forms, with and without 오전; every way to say when a course starts (the n-th week of a month that begins on a Friday, on a Monday or is none; a date; this or next week) with every kind of term; up to four lines of courses, homework, dropped and unrecognised courses; tables of up to three rows under three headers; starts and ends in every form; two courses whose teachers and names match none, one or several |
| `notices` | What do pages show, and whom are notices sent to? | one lesson and course, up to two records, two teachers, two students, one branch; five scopes (a teacher, a teacher account without a uid, a manager, a manager without a branch, the owner); one page of each kind and one row written at any point of its reading, by every writer, from 49 initial states: 48 with a page to read, of courses and teachers of the branch or of none, a lesson with homework or without, three sets of records; one with a form already composed. Two batches, of no messages, of one, or of two against the order of the rows, which are of the form or not. `Limit` 1 and `Scan` 2 let every limit be reached by three notices; half a million states |

Bounds: `MaxFaults`, `MaxCrashes`, `Versions` (WebhookIngest), `MaxCrashes` (LessonRecords),
`MaxSubmits` and `MaxUntold` (CourseCreation), `MaxBranches` (Branches), `MaxUsers` and `Slots` (Accounts),
`MaxPages` and `MaxWrites` (ScopedReads), `MaxSends` and `FormFirst` (Notifications). One form
is composed (`Compose` needs `NoForm`); `FormFirst` says that nothing is posted before it,
which halves the run: of a batch that is not of the form nothing is claimed but that its history
is true, and one that runs while a page is read is in the initial state with a form. The theorems
hold with it and without. `Fresh`, `Sheets` and `Posts` bound what
is written and posted.
`LoginThrottle` counts failures up to `Max` and time up to `Lockout`, beyond which neither
matters; `rows` counts to 2, standing for many. `Limit` and `Scan` stand for the code's limits
(500 events, 50 notices, 1000 rows scanned). No symmetry is used.

`ShownWasInScope` and `InScopeIsShown` speak of pages with at most one write (a new notice is
one as well), because with two they fail in the code too: a lesson that made a course a
teacher's is read as taught, loses its course, and then a row of that course is read. Such a
page is stale, not wrong for long, and nothing is written from it but notices
(`OnlyMissingAreTold`, with the same proviso). `MaxWrites = 1` keeps the run inside it.

Of missing homework both say less than one would like, because the code does less: its three
queries each have their own moment. A row that is shown was open (in the window, not
submitted) at some moment, in the scope at some moment, and something in the scope told of the
homework at some moment, which need not be the same one; a row that is hidden was not all of
that all the while, or was told of by one record before the write and only by another after
it. One submission without a `CourseID` does both, see section 6; `notices` begins from the
tables where it does.

Why one page at a time, under five scopes, is enough: pages do not see each other, and a page
that is read while another batch is recorded is covered by the initial state with a form
whose first batch was cut.

### Fairness

* `WebhookIngest`: weak fairness of `Send` (ClassIn retries every ten seconds, forever), of
  `ReadAck` (it reads the replies it gets), and of `Serve`, the handler's own steps (a
  coroutine that can run does). Strong fairness of accepting ClassIn's request: other
  requests can keep the handler busy again and again, but the ready queue of the event loop
  is first in, first out, so none is passed over for ever. Faults, crashes, upgrades and
  replays are never forced.
* `LoginThrottle`: the clock ticks and a thread that can run does; nobody has to attempt.
* `Accounts`: the clock ticks. Nobody has to browse, log out or come back, and requests need
  not finish, so `ShutOut` rests on expiry alone.

## 4. Theorems

Checked by TLAPS, for every value of the constants that the named assumptions allow: any
queue, plan, text, table, scope or batch, of any length; any number of threads, accounts,
branches, submissions, faults and crashes. Every safety invariant and every action property
of the passing runs is stated by a theorem.

None of the properties is inductive alone. Each module of proofs therefore defines `IInv`,
shows that `Init` implies it and that every action keeps it (`InitInv`, `NextInv`), and
draws the properties from it. `Typed` is `TypeOK` with what that leaves open. What the rest
adds, and why it is needed:

* **`WebhookIngestProofs`** (from `QueueAssumption`, `SchemaAssumption`, `BoundAssumption`):
  `TypeCorrect`, `AtMostOnce` (`NormalizedOnce`), `NothingUnlogged` (`Preserved`),
  `AckAfterWork` (`PassedIsNormalized`), `HalfAppliedIsCut` (`WholeOrCut`), `QueueOrderKept`
  (`InQueueOrder`) and `Implementation` (`ImplementsJournal`).
  `WithinHead`: nothing is under way or logged for a message that ClassIn has not sent yet.
  `HandlerKnows`: what the handler has established at each `pc` (that the payload is logged,
  that it is an object with a good SafeKey, that `step` is what `applied` says). `RowFirst`:
  the row comes before the writes, and writes are complete unless under way, cut or never
  owed. `PassedIsLogged` and `PassedIsDone` state the promise already when the ACK is decided
  or on its way and not only when ClassIn has read it. Of a body that is never logged nothing is
  derived and no ACK is sent, so the theorems hold of queues with such bodies. Queue order follows because a message
  is not accepted before ClassIn has passed all earlier ones, and a well-formed one that was
  passed has its row. The refinement maps each step to one of `IngestJournal` or a stutter.
* **`LoginThrottleProofs`** (`ThrottleAssumption`): `TypeCorrect`, `LockEarned`
  (`LockIsEarned`). `Counted`: neither the entry nor what any thread has read of it exceeds
  the failures recorded, so a stale read stored later can only lose failures.
* **`AccountsProofs`** (`AccountAssumption`): `TypeCorrect`, `CopiesAgreeAlways`,
  `NobodyOutranksMaker` (`MakersOutrank`), `ChangesAreRightful` (`ChangedByRightful`).
  `CopiesAgree`: the role, branch and teacher's uid in every session, every request under way and
  every account's `maker` are those of the account's row. It is why a check made against a copy
  holds at the moment of the write, and it rests on there being no operation that changes any
  of them: `Kept` says so of every step. `NobodyOutranksMaker` is about role and branch; what a
  teacher's account may read goes by the uid posted for it, of which no theorem speaks. `RequestKnows`: what a request has checked
  before it writes.
* **`CourseCreationProofs`** (`PlanAssumption`): `TypeCorrect`, `OneCourseEach`
  (`OneCoursePerIdentity`), `HomeworkFiledRight` (`HomeworkInOwnCourse`), `ClassesKept`
  (`ClassesAreKept`), `OwnTeachers` (`OwnTeachersOnly`), `NothingIsSilent` (`NothingSilent`).
  `Refers`: every id names something that is there. `Placed`: what the handler's local
  variables hold at each point of its two loops, above all that `unit` is Nil or of this
  course, so that a unit of the course before cannot be used after a refusal.
  `TeachersSettled`: what the role of who submitted has done to the teachers of the plan.
  `PassedSettled`: whatever the loops have left behind is made or reported. That classes are
  kept is a count, by `Cardinality`, of broken submissions, with one place for the running one; of
  the classes whose id came back, since of the others (`lost`) no row can be made and nothing
  need have broken off. That no lost class's row or homework is another's is the second half of
  `HomeworkInOwnCourse`.
* **`BranchesProofs`** (`BranchAssumption`): `TypeCorrect`, `DeletionIsSafe`
  (`DanglingIsStale`), `PulledAreTagged` (`PulledIsTagged`), `SeenOpens` (`SeenCoursesOpen`),
  `NewIdIsNew` (`NewBranchIsEmpty`). `IdsAreGiven`: every branch id anywhere, in a table, a
  form, the filter or a running sync, is at most `lastId`, which is what `AUTOINCREMENT` is
  for. `SyncFits`: the account a sync lists is the school's or its own branch's.
* **`LessonRecordsProofs`** (`EventAssumption`, `SyncAssumption`): `TypeCorrect`,
  `CourseIsKept` (`CourseKept`), `NothingIsOverwritten` (`NothingOverwritten`),
  `OnlySubmissionsClear` (`OnlySubmittingClears`). `LoopIsOfJob`: the calls that are left are
  calls of the job that runs. `SaidStands`: the row of a student holds all
  that some event of each kind told, once one of that kind is done, and what the one taken up
  last told if that one is done; of the event that runs, it holds it already or the call that will
  write it is still to come. It needs that events of different kinds name different columns, but
  for the course (`Columns`, `OwnColumns`), which is proved call by call. The theorem is about
  events of any number, so a second `Attendance` or score of a class is included: it replaces all
  of what the first told. `OnlySubmissionsClear` names, beside submissions, the `Attendance` that
  moves the lesson to a date out of the window.
* **`ScheduleTextProofs`** (`ScheduleAssumption`): `TypeCorrect`, `LessonsAreAsked`
  (`LessonsAsAsked`), `TornExactly` (`BackwardExactly`), `HomeworkInItsPlace`
  (`HomeworkUnderItsCourse`), `TeachersSettled` (`TeacherKnownOrAsked`). The work is in lemmas
  about the operators: `LessonDates` are exactly the days asked for, in order (`DatesAre`,
  `DatesAscend`, `DatesComplete`, which count days week by week); clock readings and ranges
  (`RangeBackward`, `CellsBackward`); the only winner among names (`OnlyWinner`).
  `DaysAsAsked` and `LessonsRight` carry these for the courses read so far, `NotedUnderIts` says that the notes of a course are the homework lines
  between its line and the next, `HomeworkInPlace` what has become of them, and
  `SettledSoFar` that each course has its teacher or its question.
* **`NotificationsProofs`** (`ReadAssumption`, `NoticeAssumption`): `TypeCorrect`,
  `HistoryIsTrue` (`DispatchAccounts`), `ShownInScope` (`ShownWasInScope`), `ScopeIsShown`
  (`InScopeIsShown`), `ToldWereMissing` (`OnlyMissingAreTold`). `BatchesRun`: all batches but
  the last are over, and a running one has a row of history for each message before the one
  it is at, by a lemma that a row appended is the last of its batch. `PageFits`: what a page
  has read are rows of tables that only grow.

  The page properties take a second invariant, `PInv`, on top of `IInv`. Its heart is
  `PageReads`: while at most one row has been written, there is a store `T`, the one before the
  write, such that every table and every key the page has read is that of `T` or that of now;
  `ever` has the facts of both (`Knows`), `always` only those that both have (`Holds`). `OneWrite`
  says what a single written row can do: records grow and keep lesson and student, and are never
  unmarked as submitted (`Older`); one at most of the three tables that keys come from changes
  (`OneOfThree`); and keys of either store, or partly of the one and partly of the other, find in
  rows of either all that both have in scope and none that neither has (`Finds`).

  `Finds` is not a matter of order: one overwritten record may leave the scope, by its teacher,
  and enter it, by its course, at the same time, and take the course's other rows with it. So it
  is proved writer by writer. A course's row moves the keys one way (`CourseWrite`); so does a
  teacher's, of whose keys there are two kinds read apart (`TeacherWrite`, `BetweenFinds`). Of an
  overwritten record the keys of before may be applied to the row of after (`CrossFinds`): where
  the row no longer teaches the scope its course, what its keys find was in scope before.
  `RecordWrite` and `OtherWrite` are the rest. Missing homework reads three times: `HasKept` and
  `HasDue` carry what the first two queries found as found in one of the two stores, and
  `MissingRight` puts the three together, each with a moment of its own, which is why `Due`
  combines facts that need not be of one moment. What the limits hide is bounded by lemmas on
  the newest rows (`TopHas`, `NewestHas`). `Told` carries the result from the page to the form,
  and to the batches whose messages are of the form.

### Assumptions

They say what the constants are (types, bounds in `Nat`, finite sets where a payload or a
table is), and that `Nil` and the kinds of id are told apart. Those that say more:

* `PlanAssumption`: the courses a plan reuses are there already, and are the first that
  ClassIn numbers. Two courses of a plan may have one identity (a name and first start that
  are the same): they are then one course, and the theorems hold of such plans too.
* `BranchAssumption`: branch ids are numbers and no course or teacher uid, which the tables
  keep apart; the school's account is no branch's.
* `ScheduleAssumption`: `MonthStart` is a calendar, of months of 28 to 31 days, and likenesses
  are numbers.
* `ReadAssumption`: `MaxWrites` is not 0, because `writes` stops counting just above it and the
  properties speak of one write; and the history shows no more than it scans
  (`Limit <= Scan`), as in the code (50 of 1000).
* `NoticeAssumption`: what is there at first was made by the same program: batches that are
  over, history rows that agree with them.

### Proving over data

The library's induction theorems take an operator and cannot be used here. Where a fact is
about every length, `Least`, `Greatest` and `SetInduction` take its place: a set of natural
numbers that is not empty has a least element (from the well-foundedness of `<`), so a set
that has 0 and the successor of each number it has is all of them. `ScheduleTextProofs` reasons
about the days of a course so, `LessonRecordsProofs` about the calls of an event, and
`NotificationsProofs` about the newest rows. No module has a RECURSIVE operator.

### Only model-checked

Liveness (`QueueDrains`, `LockEnds`, `ShutOut`), which is beyond this prover, stays with TLC.
That the three sentences of section 6 do not hold is a counterexample and needs no more. The
theorems are about the models; that a model is its code is what the map in `PROJECT.json`
lets a reader compare.

## 5. Not modelled, and why

* **The metrics other than missing homework**: sums, rates and weekly buckets over one list of
  rows, whose reading is modelled.
* **The regular expressions of the parser**, titles, and the wording of its assumptions: the
  model begins with what the expressions find in a line.
* **The scoped lists of lessons, students, courses and teachers** for the pages: they read the
  same keys as the queries that are modelled, over other tables.
* **ClassIn client, signing, webhook schemas**: only which outcomes are a `ClassInError` and
  which payloads parse; the rest is I/O, cryptography and validation rules.
* **Prompts and templates, charts, configuration, start-up, deployment**: no state of their
  own, or read once. Claude's answers are modelled as any answer, in `ScheduleText`, and as
  students left out, in `Notifications`.
* **Real time**: `create_execute` blocks the event loop during its HTTP calls, so webhooks
  wait meanwhile. The models have redeliveries that follow from that, not the delay.

## 6. Where the code and its documents differ

Found while translating. The first three are runs that end in a counterexample.

1. `webhook_refuses` (`web/routes_webhook.py:60`). The docstring promises the success
   envelope always. A body that is JSON but no object makes `raw.get` raise in the `try`, and
   the `except` clause calls `raw.get` again: the reply is a 500, and ClassIn keeps sending
   that message, so the queue stands still. The same holds of bytes that are not text,
   and of an object with an unpaired surrogate in one of its strings: `append_raw`, which its
   docstring calls "Always-succeeds" (`store.py:204`), cannot write it as UTF-8 and raises outside
   the `try`. `webhook_refuses` shows the first; `webhook_drains` has bodies of none of the three kinds.
2. `webhook_replay` (`store.py:227`). The raw payloads "can be replayed later when schemas
   grow", but a message whose `Cmd` had no handler already has its row in `events`; replayed
   under a version with a handler it is a duplicate and is not normalised. Only payloads that
   failed to parse can be replayed with effect.
3. `throttle_race` (`auth.py:114`). Failures that are recorded at the same time count as one,
   so an address may fail more than five times before it is locked. `LockIsEarned` says the
   opposite error cannot happen.

Noticed, and not run:

* A body that is not JSON is ACKed before `append_raw` (`web/routes_webhook.py:46`), while
  the docstring says the raw payload is persisted first. `Preserved` speaks of objects only.
* An `End` event writes a `lesson_records` row for every uid in its sections
  (`ingest.py:157`), teachers too; the table's comment says one row per lesson and student.
* `scope.py`, and the docstring of `course_ids_in_scope`, say unassigned courses are visible to
  `Scope.ALL` only. A branch also sees those its teachers lead or taught (`store.py:258`),
  which `tests/test_scope.py` expects.
* `metrics.py:251` says NULL is never treated as missing, but nothing ever writes
  `homework_submitted = 0`, and every row that `missing_homework_rows` lists is NULL
  (`metrics.py:275`); `tests/test_metrics.py` expects the rows. The figure `homework_missing`
  of the dashboards counts rows with 0 and so is always 0, beside a list that is not empty.
* `missing_homework_rows` asks who has not submitted before it asks which lessons have homework,
  each under keys read anew, so its list is of no one moment. The first student to submit
  between the two is listed, for want of the homework just handed in. A submission without a
  `CourseID`, which takes its row out of the course, can also list a classmate who was never
  missing: in the scope before it, and of a lesson that has homework only after it. And it can
  hide a row that is missing before and after: when a lesson told of the homework before, and
  only the submitted record does so after. `ShownWasInScope`, `InScopeIsShown` and
  `OnlyMissingAreTold` are worded so that they hold of these; `notices` reaches all three.
* `notify_send` sends whatever `message_<uid>` is posted (`web/routes_notify.py:114`), without a
  look at what was composed, at what is missing or at the sender's scope. `Send` does too;
  `OnlyMissingAreTold` speaks of batches with only the form's students.
* A manager may post any `teacher_uid` for an account (`web/routes_admin.py:164`), and a teacher's
  scope is that uid alone (`scope.py:65`): the account then sees the lessons of another branch's
  teacher, although a manager is to make accounts for the own branch's teachers only
  (`src/docs/adr/0005-branches-roles-scoping.md:29`, "자기 관의 선생님 계정만 생성 가능"; also
  `src/docs/PRD.md:62`). `MakersOutrank` is about role and branch.
* A refusal may come after the effect: an HTTP status of 400 or more, or a reply that is no JSON,
  is a `ClassInError` (`classin/client.py:88`), and so a class that is reported as not made may
  be there. A reply without an id is taken for a success, and its class gets no row
  (`web/routes_create.py:154`). `ClassesAreKept` counts neither (`lost`).
* A `HomeworkScore` from which no percentage can be computed writes NULL over an earlier score
  (`ingest.py:183`), and a second `Attendance` replaces the date of the lesson, which may take
  its rows out of the window of missing homework (`ingest.py:125`).
* A sync tags what it touches with the branch in the owner's filter "synced with a branch's own
  SID/secret" (`classin/reads.py:98`), but the filter is passed whatever credentials were
  chosen (`web/routes_dashboard.py:31`): with the filter on a branch that has none, the
  school's account is listed and all its courses move into that branch. `PulledIsTagged`
  speaks of branches with credentials.
* "Anything that stays ambiguous is reported as a `Question` ... instead of being guessed"
  (`intelligence/schedule_parser.py:11`). Teachers are; but of equally alike courses the first
  is reused without a question, and the kinds "course" and "date" are never asked.
* Ranges that come out backward: on a line those that start at 1 to 9 o'clock without 오전 and
  end from 10 to twelve hours later ("9-11" is 21:00 to 11:00); in a table also cells written
  unlike each other. `BackwardExactly` says these are all.
* "오후 10시" and "오후 11시" are read as 10:00 and 11:00: only 1 to 9 are moved
  (`schedule_parser.py:169`). A table cell "7시" is 19:00 and "7시 30분" is 07:30.
* A line of zero weeks or sessions is dropped without a word, and homework under it goes to the
  course before. A minute above 59 or a thirteenth month refuses the whole text. A table
  without a date column is refused, not read as text.
* Students whom Claude leaves out of its copy get an empty text, and `notify_send` passes them
  over silently.
* `src/docs/16_datasub_registration.md:191` names the raw JSONL log as input of
  `samples/replay.py`; the script loads one JSON document per file, and a log line wraps the
  payload in a record of its own. `Replay` stands for posting the payload itself.

## 7. Plan

Done: the receiver and its promise, normalisation, throttle, course creation, branches,
accounts; then the parser, the scoped queries and the notifications. They came in this order
because a webhook that is lost or applied twice cannot be repaired later, while everything
else can be done again by a person, and a notice to a parent cannot be called back. All have
their proofs.

Next, in this order:

1. Abstract specifications with their refinements proved, as `IngestJournal` is of the
   receiver: of `dispatch`, a batch whose messages are told one by one in order; of course
   creation, a plan whose items are made or reported one by one.
2. The scoped lists of the other pages, and the figures of `metrics.py` as folds over rows.
