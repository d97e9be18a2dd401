---------------------------- MODULE WebhookIngest ----------------------------
(***************************************************************************)
(* The ClassIn Data Sub receiver: web/routes_webhook.py, ingest.ingest and *)
(* the two store operations that make delivery safe (append_raw and        *)
(* insert_event), against the sender they are written for.                 *)
(*                                                                         *)
(* ClassIn (external) keeps a FIFO queue of messages 1..N and sends its    *)
(* head again and again until it reads an acknowledgement, so copies of a  *)
(* message may be waiting, or be handled, after ClassIn has moved on.  An  *)
(* operator may post a payload of the raw log again (samples/replay.py).   *)
(*                                                                         *)
(* The handler is a coroutine whose only await reads the body: it runs to  *)
(* its reply without another delivery getting in between, so there is one  *)
(* handler position, pc.  Every store operation commits on its own, so the *)
(* process can die, or an operation can raise, between any two of them.    *)
(***************************************************************************)
EXTENDS Naturals

CONSTANTS
    N,           \* number of messages in ClassIn's queue
    Body,        \* Body[m]: what the bytes of the body decode to
    WithId,      \* the messages whose payload has an _id
    KeyOK,       \* the messages whose SafeKey verifies (all, if none is set)
    ParsesFrom,  \* ParsesFrom[m]: first schema version that validates m
    HandledFrom, \* HandledFrom[m]: first version with a handler for its Cmd
    Writes,      \* Writes[m]: store writes that handler makes
    Versions,    \* bound: number of schema versions deployed
    MaxFaults,   \* bound: failing store operations and lost replies
    MaxCrashes   \* bound: process deaths

Msgs == 1..N

(* "undecodable" bytes are not text and make json.loads raise something   *)
(* else than JSONDecodeError; "nonobject" is JSON, but not an object;      *)
(* "unwritable" is an object with the escape of a lone surrogate in it,    *)
(* which append_raw cannot write as UTF-8, however often it is sent.       *)
BodyKinds == {"object", "nonobject", "unwritable", "nonjson", "undecodable"}

(* The bodies json.loads makes something of.                               *)
Readable == {"object", "nonobject", "unwritable"}

ASSUME QueueAssumption ==
    /\ N \in Nat \ {0}
    /\ Body \in [Msgs -> BodyKinds]
    /\ WithId \subseteq Msgs
    /\ KeyOK \subseteq Msgs

ASSUME SchemaAssumption ==
    /\ Versions \in Nat \ {0}
    /\ ParsesFrom \in [Msgs -> Nat]
    /\ HandledFrom \in [Msgs -> Nat]
    /\ Writes \in [Msgs -> Nat]

ASSUME BoundAssumption ==
    /\ MaxFaults \in Nat
    /\ MaxCrashes \in Nat

Sources == {"classin", "operator"}
Steps == {"idle", "decode", "append", "screen", "insert", "apply", "ack", "error"}

VARIABLES
    head,      \* ClassIn: the message it is sending; N + 1 when all are done
    net,       \* <<source, message>> of the requests waiting at the server
    acks,      \* messages whose ACK is on its way back to ClassIn
    pc,        \* where the handler is
    via, cur,  \* who sent the request being handled, and its message, or 0
    step,      \* writes of the current normalisation done so far
    schema,    \* the deployed schema version
    raw,       \* messages in the raw JSONL log
    rows,      \* rows[m]: rows of m in the events table, 2 standing for many
    applied,   \* applied[m]: how many of the writes of m the store has seen
    missed,    \* history: messages ACKed because insert_event raised
    cut,       \* history: messages whose normalisation was cut short
    generic,   \* history: messages inserted while their Cmd had no handler
    faults, crashes

queue   == <<head, net, acks>>
handler == <<pc, via, cur, step>>
store   == <<raw, rows, applied>>
history == <<missed, cut, generic>>
budget  == <<faults, crashes>>
vars == <<queue, handler, schema, store, history, budget>>

TypeOK ==
    /\ head \in 1..(N + 1)
    /\ net \subseteq Sources \X Msgs
    /\ acks \subseteq Msgs
    /\ pc \in Steps
    /\ via \in Sources
    /\ cur \in IF pc = "idle" THEN {0} ELSE Msgs
    /\ step \in Nat
    /\ schema \in 1..Versions
    /\ raw \subseteq Msgs
    /\ rows \in [Msgs -> 0..2]
    /\ applied \in [Msgs -> Nat]
    /\ \A m \in Msgs : applied[m] <= Writes[m]
    /\ missed \subseteq Msgs
    /\ cut \subseteq Msgs
    /\ generic \subseteq Msgs
    /\ faults \in 0..MaxFaults
    /\ crashes \in 0..MaxCrashes

Init ==
    /\ head = 1
    /\ net = {}
    /\ acks = {}
    /\ pc = "idle"
    /\ via = "classin"
    /\ cur = 0
    /\ step = 0
    /\ schema = 1
    /\ raw = {}
    /\ rows = [m \in Msgs |-> 0]
    /\ applied = [m \in Msgs |-> 0]
    /\ missed = {}
    /\ cut = {}
    /\ generic = {}
    /\ faults = 0
    /\ crashes = 0

-----------------------------------------------------------------------------
(* The senders.                                                            *)

(* ClassIn sends the head of its queue, the first time or again.           *)
Send ==
    /\ head \in Msgs
    /\ net' = net \union {<<"classin", head>>}
    /\ UNCHANGED <<head, acks, handler, schema, store, history, budget>>

(* ClassIn reads an ACK.  Only the head's moves the queue.                 *)
ReadAck(m) ==
    /\ m \in acks
    /\ acks' = acks \ {m}
    /\ head' = IF m = head THEN head + 1 ELSE head
    /\ UNCHANGED <<net, handler, schema, store, history, budget>>

(* The connection broke or timed out before the reply was read.            *)
LoseAck(m) ==
    /\ m \in acks
    /\ faults < MaxFaults
    /\ faults' = faults + 1
    /\ acks' = acks \ {m}
    /\ UNCHANGED <<head, net, handler, schema, store, history, crashes>>

(* An operator posts a payload of the raw log to the endpoint again.       *)
Replay(m) ==
    /\ m \in raw
    /\ net' = net \union {<<"operator", m>>}
    /\ UNCHANGED <<head, acks, handler, schema, store, history, budget>>

-----------------------------------------------------------------------------
(* The handler.                                                            *)

(* Some waiting request is the next one the event loop runs.               *)
Accept(s, m) ==
    /\ pc = "idle"
    /\ <<s, m>> \in net
    /\ net' = net \ {<<s, m>>}
    /\ pc' = "decode"
    /\ via' = s
    /\ cur' = m
    /\ step' = 0
    /\ UNCHANGED <<head, acks, schema, store, history, budget>>

Goto(p) == pc' = p /\ UNCHANGED <<via, cur, step>>

Idle == pc' = "idle" /\ via' = "classin" /\ cur' = 0 /\ step' = 0

(* Mutant of Decode: the JSONDecodeError is not caught.                    *)
DecodeUncaught ==
    /\ pc = "decode"
    /\ Goto(IF Body[cur] \in Readable THEN "append" ELSE "error")
    /\ UNCHANGED <<queue, schema, store, history, budget>>

(* json.loads: only a JSONDecodeError is caught, and ACKed unlogged.       *)
Decode ==
    /\ pc = "decode"
    /\ \/ Body[cur] = "nonjson" /\ Goto("ack")
       \/ Body[cur] = "undecodable" /\ Goto("error")
       \/ Body[cur] \in Readable /\ Goto("append")
    /\ UNCHANGED <<queue, schema, store, history, budget>>

(* Mutant of AppendRaw: the reply is sent first, ingest is left for later. *)
AppendRawAckFirst ==
    /\ pc = "append"
    /\ raw' = raw \union {cur}
    /\ acks' = IF via = "classin" THEN acks \union {cur} ELSE acks
    /\ Goto("screen")
    /\ UNCHANGED <<head, net, schema, rows, applied, history, budget>>

AppendRaw ==
    /\ pc = "append"
    /\ Body[cur] # "unwritable"
    /\ raw' = raw \union {cur}
    /\ Goto("screen")
    /\ UNCHANGED <<queue, schema, rows, applied, history, budget>>

(* Mutant of AppendRawFails: the call is moved into a try that goes on.    *)
AppendRawSwallowed ==
    /\ pc = "append"
    /\ faults < MaxFaults
    /\ faults' = faults + 1
    /\ Goto("screen")
    /\ UNCHANGED <<queue, schema, store, history, crashes>>

(* A lone surrogate raises a UnicodeEncodeError before anything is written. *)
AppendRawRaises ==
    /\ pc = "append"
    /\ Body[cur] = "unwritable"
    /\ Goto("error")
    /\ UNCHANGED <<queue, schema, store, history, budget>>

(* append_raw is outside the try: when it raises, the reply is a 500.      *)
AppendRawFails ==
    /\ pc = "append"
    /\ faults < MaxFaults
    /\ faults' = faults + 1
    /\ Goto("error")
    /\ UNCHANGED <<queue, schema, store, history, crashes>>

Parses(m) == schema >= ParsesFrom[m]
Handled(m) == schema >= HandledFrom[m]

(* The SafeKey check and parse_event.  Both call .get on the payload, and  *)
(* so does the handler of the error: what is not an object escapes it.     *)
Screen ==
    /\ pc = "screen"
    /\ \/ Body[cur] = "nonobject" /\ Goto("error")
       \/ /\ Body[cur] = "object"
          /\ cur \notin KeyOK \/ ~Parses(cur)
          /\ Goto("ack")
       \/ /\ Body[cur] = "object"
          /\ cur \in KeyOK /\ Parses(cur)
          /\ Goto("insert")
    /\ UNCHANGED <<queue, schema, store, history, budget>>

(* Mutant of Duplicate: the unique index on msg_id is missing.             *)
NeverDuplicate == FALSE

(* A second row with the same _id is ignored; NULL ids are never equal.    *)
Duplicate == cur \in WithId /\ rows[cur] > 0

(* Mutant of SkipDuplicate: what insert_event returns is not looked at.    *)
SkipNothing ==
    /\ pc = "insert"
    /\ Duplicate
    /\ Goto(IF Handled(cur) /\ Writes[cur] > 0 THEN "apply" ELSE "ack")
    /\ UNCHANGED <<queue, schema, store, history, budget>>

SkipDuplicate ==
    /\ pc = "insert"
    /\ Duplicate
    /\ Goto("ack")
    /\ UNCHANGED <<queue, schema, store, history, budget>>

(* The row is committed before the normalisation it stands for begins.     *)
InsertEvent ==
    /\ pc = "insert"
    /\ ~Duplicate
    /\ rows' = [rows EXCEPT ![cur] = IF @ = 0 THEN 1 ELSE 2]
    /\ generic' = IF Handled(cur) THEN generic ELSE generic \union {cur}
    /\ Goto(IF Handled(cur) /\ Writes[cur] > 0 THEN "apply" ELSE "ack")
    /\ UNCHANGED <<queue, schema, raw, applied, missed, cut, budget>>

(* The exception is logged, the message is ACKed and never comes again.    *)
InsertEventFails ==
    /\ pc = "insert"
    /\ faults < MaxFaults
    /\ faults' = faults + 1
    /\ missed' = missed \union {cur}
    /\ Goto("ack")
    /\ UNCHANGED <<queue, schema, store, cut, generic, crashes>>

(* Mutant of ApplyWrite: the loop over the members is left one too early.  *)
ApplyAllButLast ==
    /\ pc = "apply"
    /\ step' = step + 1
    /\ applied' = [applied EXCEPT ![cur] = IF @ <= step THEN step + 1 ELSE @]
    /\ pc' = IF step + 1 >= Writes[cur] - 1 THEN "ack" ELSE "apply"
    /\ UNCHANGED <<queue, via, cur, schema, raw, rows, history, budget>>

(* Mutant of ApplyWrite: the loop goes one member too far.                 *)
ApplyOneMore ==
    /\ pc = "apply"
    /\ step' = step + 1
    /\ applied' = [applied EXCEPT ![cur] = IF @ <= step THEN step + 1 ELSE @]
    /\ pc' = IF step = Writes[cur] THEN "ack" ELSE "apply"
    /\ UNCHANGED <<queue, via, cur, schema, raw, rows, history, budget>>

(* One store call of the _ingest_* handler: a transaction of its own.      *)
ApplyWrite ==
    /\ pc = "apply"
    /\ step' = step + 1
    /\ applied' = [applied EXCEPT ![cur] = IF @ <= step THEN step + 1 ELSE @]
    /\ pc' = IF step + 1 = Writes[cur] THEN "ack" ELSE "apply"
    /\ UNCHANGED <<queue, via, cur, schema, raw, rows, history, budget>>

ApplyWriteFails ==
    /\ pc = "apply"
    /\ faults < MaxFaults
    /\ faults' = faults + 1
    /\ cut' = cut \union {cur}
    /\ Goto("ack")
    /\ UNCHANGED <<queue, schema, store, missed, generic, crashes>>

Ack ==
    /\ pc = "ack"
    /\ acks' = IF via = "classin" THEN acks \union {cur} ELSE acks
    /\ Idle
    /\ UNCHANGED <<head, net, schema, store, history, budget>>

(* An exception left the handler: a 500, which ClassIn does not take.      *)
Refuse ==
    /\ pc = "error"
    /\ Idle
    /\ UNCHANGED <<queue, schema, store, history, budget>>

-----------------------------------------------------------------------------
(* The process.                                                            *)

Disconnect ==
    /\ net' = {}
    /\ acks' = {}
    /\ Idle
    /\ UNCHANGED head

(* The process dies and is started again: connections are gone, files stay. *)
Crash ==
    /\ crashes < MaxCrashes
    /\ crashes' = crashes + 1
    /\ Disconnect
    /\ cut' = IF pc = "apply" THEN cut \union {cur} ELSE cut
    /\ UNCHANGED <<schema, store, missed, generic, faults>>

(* A new version is deployed; the server finishes its request first.       *)
Upgrade ==
    /\ schema < Versions
    /\ pc = "idle"
    /\ schema' = schema + 1
    /\ Disconnect
    /\ UNCHANGED <<store, history, budget>>

-----------------------------------------------------------------------------
Serve ==
    \/ Decode \/ AppendRaw \/ AppendRawRaises \/ Screen \/ SkipDuplicate \/ InsertEvent
    \/ ApplyWrite \/ Ack \/ Refuse

Fail == AppendRawFails \/ InsertEventFails \/ ApplyWriteFails

Next ==
    \/ Send
    \/ \E m \in Msgs : ReadAck(m) \/ LoseAck(m) \/ Replay(m)
    \/ \E s \in Sources, m \in Msgs : Accept(s, m)
    \/ Serve
    \/ Fail
    \/ Crash
    \/ Upgrade

Spec == Init /\ [][Next]_vars

(***************************************************************************)
(* ClassIn retries every ten seconds forever and reads the replies it gets; *)
(* a coroutine that can run does; and the ready queue of the event loop is  *)
(* first in, first out, so requests of others cannot keep one out for ever. *)
(***************************************************************************)
Fairness ==
    /\ WF_vars(Send)
    /\ WF_vars(Serve)
    /\ \A m \in Msgs : WF_vars(ReadAck(m)) /\ SF_vars(Accept("classin", m))

FairSpec == Spec /\ Fairness

-----------------------------------------------------------------------------
(* Properties.                                                             *)

(* A message with an _id gets one row, so its normalisation begins once,   *)
(* whatever is redelivered after a lost ACK or a crash, or replayed.       *)
NormalizedOnce == \A m \in WithId : rows[m] <= 1

(* The payload is in the raw log before anything is derived from it, and,  *)
(* if it is JSON at all, before ClassIn, which keeps no copy it would send *)
(* again, passes it.                                                       *)
Preserved ==
    \A m \in Msgs :
        rows[m] > 0 \/ (m < head /\ Body[m] # "nonjson") => m \in raw

(* When ClassIn has passed a well-formed message, all its store writes are *)
(* made, unless a store operation raised, or the process died, under it,   *)
(* or its Cmd had no handler: an ACK is never sent ahead of the work.      *)
PassedIsNormalized ==
    \A m \in KeyOK :
        m < head /\ Body[m] = "object" /\ ParsesFrom[m] <= 1 =>
            \/ m \in missed \union cut \union generic
            \/ rows[m] > 0 /\ applied[m] = Writes[m]

(* A half-applied message is the one being applied, or one a fault cut.    *)
WholeOrCut ==
    \A m \in Msgs :
        applied[m] \notin {0, Writes[m]} => m \in cut \/ (pc = "apply" /\ cur = m)

(* Messages are first normalised in the order of ClassIn's queue: no late  *)
(* copy or replay lets an older message overwrite what a newer one wrote,  *)
(* unless the older one had been missed, or could not be parsed before.    *)
InQueueOrder ==
    [][\A m \in Msgs :
          /\ rows[m] = 0 /\ rows'[m] > 0
          /\ m \notin missed /\ ParsesFrom[m] <= 1
          => \A k \in Msgs : k > m => rows[k] = 0]_vars

(* What is promised for the messages with an _id: see IngestJournal.       *)
Journal == INSTANCE IngestJournal WITH
    Tracked    <- WithId,
    None       <- 0,
    journal    <- raw \intersect WithId,
    normalized <- {m \in WithId : rows[m] > 0},
    applied    <- [m \in WithId |-> applied[m]],
    current    <- IF pc = "apply" /\ cur \in WithId THEN cur ELSE 0

ImplementsJournal == Journal!Spec

(* The queue is never blocked for good: ClassIn passes its last message.   *)
QueueDrains == <>(head = N + 1)

(* "this endpoint ALWAYS returns the required success envelope"            *)
(* (web/routes_webhook.py, docstring): the handler never ends in a 500.    *)
NeverRefused == pc # "error"

(* The raw payloads "can be replayed later when schemas grow" (store.py,   *)
(* docstring): when a replay under a schema that handles the message is    *)
(* about to be ACKed, the writes of the message are in the store.          *)
ReplayCatchesUp ==
    /\ pc = "ack" /\ via = "operator" /\ cur \in KeyOK
    /\ Body[cur] = "object" /\ Parses(cur) /\ Handled(cur)
    => applied[cur] = Writes[cur]
=============================================================================
