---------------------------- MODULE IngestJournal ----------------------------
(***************************************************************************)
(* What the webhook receiver promises about the messages that carry an     *)
(* _id: the raw payload is in the audit log before anything is derived     *)
(* from it; each message is normalised at most once, whatever is redelivered *)
(* or replayed; its store writes are made one by one, in order; and the    *)
(* normalisations of two messages never interleave: once another message   *)
(* has begun, or the process has died, an unfinished one stays unfinished. *)
(* WebhookIngest implements this specification.                            *)
(***************************************************************************)
EXTENDS Naturals

CONSTANTS
    Tracked,    \* the messages that carry an _id
    Writes,     \* Writes[m]: how many store writes normalising m takes
    None        \* no message is being normalised

VARIABLES
    journal,    \* the messages whose raw payload is in the audit log
    normalized, \* the messages whose normalisation has begun
    applied,    \* applied[m]: how many of the writes of m are in the store
    current     \* the message being normalised, or None

vars == <<journal, normalized, applied, current>>

Init ==
    /\ journal = {}
    /\ normalized = {}
    /\ applied = [m \in Tracked |-> 0]
    /\ current = None

Record(m) ==
    /\ journal' = journal \union {m}
    /\ UNCHANGED <<normalized, applied, current>>

Begin(m) ==
    /\ m \in journal \ normalized
    /\ current = None
    /\ normalized' = normalized \union {m}
    /\ current' \in {m, None}
    /\ UNCHANGED <<journal, applied>>

Write(m) ==
    /\ m = current
    /\ applied[m] < Writes[m]
    /\ applied' = [applied EXCEPT ![m] = @ + 1]
    /\ current' \in {m, None}
    /\ UNCHANGED <<journal, normalized>>

Abandon ==
    /\ current' = None
    /\ UNCHANGED <<journal, normalized, applied>>

Next ==
    \/ \E m \in Tracked : Record(m) \/ Begin(m) \/ Write(m)
    \/ Abandon

Spec == Init /\ [][Next]_vars
=============================================================================
