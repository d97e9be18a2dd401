------------------------- MODULE WebhookIngestProofs -------------------------
(***************************************************************************)
(* Proofs about WebhookIngest, for every queue, every kind of message and  *)
(* every number of faults, crashes and schema versions.                    *)
(***************************************************************************)
EXTENDS WebhookIngest, TLAPS

USE QueueAssumption, SchemaAssumption, BoundAssumption

(* Nothing is under way, or logged, for a message ClassIn has not sent.    *)
WithinHead ==
    /\ acks \subseteq 1..head
    /\ \A e \in net : e[2] <= head
    /\ cur <= head
    /\ raw \subseteq 1..head

(* What the handler has established by the time it is at pc.               *)
HandlerKnows ==
    /\ pc \in {"screen", "insert", "apply"} => cur \in raw
    /\ pc \in {"insert", "apply"} => Body[cur] = "object" /\ cur \in KeyOK
    /\ pc \in {"decode", "append", "screen", "insert"} => step = 0
    /\ pc = "apply" =>
          /\ rows[cur] > 0
          /\ step < Writes[cur]
          /\ step <= applied[cur]
          /\ cur \in WithId => step = applied[cur]

(* A row is what a message's other traces follow from, and its writes are  *)
(* complete unless they are under way, were cut, or were never owed.       *)
RowFirst ==
    \A m \in Msgs :
        /\ rows[m] > 0 => m \in raw
        /\ rows[m] = 0 => applied[m] = 0 /\ m \notin cut \union generic
        /\ rows[m] > 0 =>
              \/ m \in cut \union generic
              \/ applied[m] = Writes[m]
              \/ pc = "apply" /\ cur = m

(* The ACK of m is decided, on its way, or was read.                       *)
Passed(m) == m < head \/ m \in acks \/ (pc = "ack" /\ cur = m)

PassedIsLogged == \A m \in Msgs : Passed(m) /\ Body[m] # "nonjson" => m \in raw

PassedIsDone ==
    \A m \in KeyOK :
        Passed(m) /\ Body[m] = "object" /\ ParsesFrom[m] <= 1 =>
            \/ m \in missed \union cut \union generic
            \/ rows[m] > 0 /\ applied[m] = Writes[m]

(* The inductive invariant.                                                *)
IInv ==
    /\ TypeOK
    /\ WithinHead
    /\ HandlerKnows
    /\ RowFirst
    /\ PassedIsLogged
    /\ PassedIsDone
    /\ NormalizedOnce
    /\ WholeOrCut

(* The invariant holds before the first message is sent.                  *)
LEMMA InitInv == Init => IInv
  BY DEF Init, IInv, TypeOK, WithinHead, HandlerKnows, RowFirst, Passed, PassedIsLogged,
         PassedIsDone, NormalizedOnce, WholeOrCut, BodyKinds, Steps, Sources, Msgs

(* Every step keeps it: one step per action, one conjunct at a time.       *)
LEMMA NextInv == IInv /\ [Next]_vars => IInv'
<1> SUFFICES ASSUME IInv, [Next]_vars PROVE IInv'
  OBVIOUS
<1> USE DEF IInv, queue, handler, store, history, budget, Goto, Idle
<1>1. ASSUME Send PROVE IInv'
  <2>1. TypeOK'  BY <1>1 DEF Send, TypeOK, Steps, Sources
  <2>2. WithinHead'
    <3>1. \A e \in net' : e \in net \/ e = <<"classin", head>>  BY <1>1 DEF Send
    <3>2. \A e \in net' : e[2] <= head  BY <3>1 DEF WithinHead, TypeOK
    <3>3. UNCHANGED <<acks, head, cur, raw>>  BY <1>1 DEF Send
    <3> QED  BY <3>2, <3>3 DEF WithinHead
  <2>3. HandlerKnows'  BY <1>1 DEF Send, TypeOK, HandlerKnows, Steps
  <2>4. RowFirst'  BY <1>1 DEF Send, TypeOK, RowFirst, HandlerKnows
  <2>5. PassedIsLogged'  BY <1>1 DEF Send, TypeOK, PassedIsLogged, Passed, HandlerKnows, RowFirst, Msgs
  <2>6. PassedIsDone'  BY <1>1 DEF Send, TypeOK, PassedIsDone, Passed, HandlerKnows, RowFirst, Msgs
  <2>7. NormalizedOnce'  BY <1>1 DEF Send, TypeOK, NormalizedOnce
  <2>8. WholeOrCut'  BY <1>1 DEF Send, TypeOK, WholeOrCut, HandlerKnows
  <2> QED  BY <2>1, <2>2, <2>3, <2>4, <2>5, <2>6, <2>7, <2>8
<1>2. ASSUME NEW m \in Msgs, ReadAck(m) PROVE IInv'
  <2>a. head' \in 1..(N + 1) /\ head <= head' /\ (head' # head => m = head /\ head' = head + 1)
    BY <1>2 DEF ReadAck, TypeOK, Msgs
  <2>b. \A k \in Msgs : k < head' => k < head \/ k \in acks
    BY <1>2, <2>a DEF ReadAck, TypeOK, Msgs
  <2>1. TypeOK'  BY <1>2, <2>a DEF ReadAck, TypeOK, Steps, Sources
  <2>c. 1..head \subseteq 1..head' /\ cur <= head'
    BY <2>a DEF TypeOK, WithinHead, Msgs
  <2>d. \A e \in net : e[2] <= head'
    BY <2>a DEF TypeOK, WithinHead, Msgs
  <2>2. WithinHead'  BY <1>2, <2>c, <2>d DEF ReadAck, WithinHead
  <2>3. HandlerKnows'  BY <1>2 DEF ReadAck, TypeOK, HandlerKnows, Steps
  <2>4. RowFirst'  BY <1>2 DEF ReadAck, TypeOK, RowFirst, HandlerKnows
  <2>5. PassedIsLogged'  BY <1>2, <2>b DEF ReadAck, PassedIsLogged, Passed
  <2>6. PassedIsDone'  BY <1>2, <2>b, QueueAssumption DEF ReadAck, PassedIsDone, Passed
  <2>7. NormalizedOnce'  BY <1>2 DEF ReadAck, TypeOK, NormalizedOnce
  <2>8. WholeOrCut'  BY <1>2 DEF ReadAck, TypeOK, WholeOrCut, HandlerKnows
  <2> QED  BY <2>1, <2>2, <2>3, <2>4, <2>5, <2>6, <2>7, <2>8
<1>3. ASSUME NEW m \in Msgs, LoseAck(m) PROVE IInv'
  <2>1. TypeOK'  BY <1>3 DEF LoseAck, TypeOK, Steps, Sources
  <2>2. WithinHead'  BY <1>3 DEF LoseAck, TypeOK, WithinHead, Msgs
  <2>3. HandlerKnows'  BY <1>3 DEF LoseAck, TypeOK, HandlerKnows, Steps
  <2>4. RowFirst'  BY <1>3 DEF LoseAck, TypeOK, RowFirst, HandlerKnows
  <2>5. PassedIsLogged'  BY <1>3 DEF LoseAck, TypeOK, PassedIsLogged, Passed, HandlerKnows, RowFirst, Msgs
  <2>6. PassedIsDone'  BY <1>3 DEF LoseAck, TypeOK, PassedIsDone, Passed, HandlerKnows, RowFirst, Msgs
  <2>7. NormalizedOnce'  BY <1>3 DEF LoseAck, TypeOK, NormalizedOnce
  <2>8. WholeOrCut'  BY <1>3 DEF LoseAck, TypeOK, WholeOrCut, HandlerKnows
  <2> QED  BY <2>1, <2>2, <2>3, <2>4, <2>5, <2>6, <2>7, <2>8
<1>4. ASSUME NEW m \in Msgs, Replay(m) PROVE IInv'
  <2>1. TypeOK'  BY <1>4 DEF Replay, TypeOK, Steps, Sources
  <2>2. WithinHead'  BY <1>4 DEF Replay, TypeOK, WithinHead, Msgs
  <2>3. HandlerKnows'  BY <1>4 DEF Replay, TypeOK, HandlerKnows, Steps
  <2>4. RowFirst'  BY <1>4 DEF Replay, TypeOK, RowFirst, HandlerKnows
  <2>5. PassedIsLogged'  BY <1>4 DEF Replay, TypeOK, PassedIsLogged, Passed, HandlerKnows, RowFirst, Msgs
  <2>6. PassedIsDone'  BY <1>4 DEF Replay, TypeOK, PassedIsDone, Passed, HandlerKnows, RowFirst, Msgs
  <2>7. NormalizedOnce'  BY <1>4 DEF Replay, TypeOK, NormalizedOnce
  <2>8. WholeOrCut'  BY <1>4 DEF Replay, TypeOK, WholeOrCut, HandlerKnows
  <2> QED  BY <2>1, <2>2, <2>3, <2>4, <2>5, <2>6, <2>7, <2>8
<1>5. ASSUME NEW s \in Sources, NEW m \in Msgs, Accept(s, m) PROVE IInv'
  <2>1. TypeOK'  BY <1>5 DEF Accept, TypeOK, Steps, Sources
  <2>2. WithinHead'  BY <1>5 DEF Accept, TypeOK, WithinHead, Msgs
  <2>3. HandlerKnows'  BY <1>5 DEF Accept, TypeOK, HandlerKnows, Steps
  <2>4. RowFirst'  BY <1>5 DEF Accept, TypeOK, RowFirst, HandlerKnows
  <2>5. PassedIsLogged'  BY <1>5 DEF Accept, TypeOK, PassedIsLogged, Passed, HandlerKnows, RowFirst, Msgs
  <2>6. PassedIsDone'  BY <1>5 DEF Accept, TypeOK, PassedIsDone, Passed, HandlerKnows, RowFirst, Msgs
  <2>7. NormalizedOnce'  BY <1>5 DEF Accept, TypeOK, NormalizedOnce
  <2>8. WholeOrCut'  BY <1>5 DEF Accept, TypeOK, WholeOrCut, HandlerKnows
  <2> QED  BY <2>1, <2>2, <2>3, <2>4, <2>5, <2>6, <2>7, <2>8
<1>6. ASSUME Decode PROVE IInv'
  <2>1. TypeOK'  BY <1>6 DEF Decode, TypeOK, Steps, Sources
  <2>2. WithinHead'  BY <1>6 DEF Decode, TypeOK, WithinHead, Msgs
  <2>3. HandlerKnows'  BY <1>6 DEF Decode, TypeOK, HandlerKnows, Steps
  <2>4. RowFirst'  BY <1>6 DEF Decode, TypeOK, RowFirst, HandlerKnows
  <2>5. PassedIsLogged'  BY <1>6 DEF Decode, TypeOK, PassedIsLogged, Passed, HandlerKnows, RowFirst, Msgs
  <2>6. PassedIsDone'  BY <1>6 DEF Decode, TypeOK, PassedIsDone, Passed, HandlerKnows, RowFirst, Msgs
  <2>7. NormalizedOnce'  BY <1>6 DEF Decode, TypeOK, NormalizedOnce
  <2>8. WholeOrCut'  BY <1>6 DEF Decode, TypeOK, WholeOrCut, HandlerKnows
  <2> QED  BY <2>1, <2>2, <2>3, <2>4, <2>5, <2>6, <2>7, <2>8
<1>7. ASSUME AppendRaw PROVE IInv'
  <2>1. TypeOK'  BY <1>7 DEF AppendRaw, TypeOK, Steps, Sources
  <2>2. WithinHead'  BY <1>7 DEF AppendRaw, TypeOK, WithinHead, Msgs
  <2>3. HandlerKnows'  BY <1>7 DEF AppendRaw, TypeOK, HandlerKnows, Steps
  <2>4. RowFirst'  BY <1>7 DEF AppendRaw, TypeOK, RowFirst, HandlerKnows
  <2>5. PassedIsLogged'  BY <1>7 DEF AppendRaw, TypeOK, PassedIsLogged, Passed, HandlerKnows, RowFirst, Msgs
  <2>6. PassedIsDone'  BY <1>7 DEF AppendRaw, TypeOK, PassedIsDone, Passed, HandlerKnows, RowFirst, Msgs
  <2>7. NormalizedOnce'  BY <1>7 DEF AppendRaw, TypeOK, NormalizedOnce
  <2>8. WholeOrCut'  BY <1>7 DEF AppendRaw, TypeOK, WholeOrCut, HandlerKnows
  <2> QED  BY <2>1, <2>2, <2>3, <2>4, <2>5, <2>6, <2>7, <2>8
<1>8. ASSUME Screen PROVE IInv'
  <2>1. TypeOK'  BY <1>8 DEF Screen, Parses, Handled, TypeOK, Steps, Sources
  <2>2. WithinHead'  BY <1>8 DEF Screen, Parses, Handled, TypeOK, WithinHead, Msgs
  <2>3. HandlerKnows'  BY <1>8 DEF Screen, Parses, Handled, TypeOK, HandlerKnows, Steps
  <2>4. RowFirst'  BY <1>8 DEF Screen, Parses, Handled, TypeOK, RowFirst, HandlerKnows
  <2>5. PassedIsLogged'  BY <1>8 DEF Screen, Parses, Handled, TypeOK, PassedIsLogged, Passed, HandlerKnows, RowFirst, Msgs
  <2>6. PassedIsDone'  BY <1>8 DEF Screen, Parses, Handled, TypeOK, PassedIsDone, Passed, HandlerKnows, RowFirst
  <2>7. NormalizedOnce'  BY <1>8 DEF Screen, Parses, Handled, TypeOK, NormalizedOnce
  <2>8. WholeOrCut'  BY <1>8 DEF Screen, Parses, Handled, TypeOK, WholeOrCut, HandlerKnows
  <2> QED  BY <2>1, <2>2, <2>3, <2>4, <2>5, <2>6, <2>7, <2>8
<1>9. ASSUME SkipDuplicate PROVE IInv'
  <2>1. TypeOK'  BY <1>9 DEF SkipDuplicate, Duplicate, TypeOK, Steps, Sources
  <2>2. WithinHead'  BY <1>9 DEF SkipDuplicate, Duplicate, TypeOK, WithinHead, Msgs
  <2>3. HandlerKnows'  BY <1>9 DEF SkipDuplicate, Duplicate, TypeOK, HandlerKnows, Steps
  <2>4. RowFirst'  BY <1>9 DEF SkipDuplicate, Duplicate, TypeOK, RowFirst, HandlerKnows
  <2>5. PassedIsLogged'  BY <1>9 DEF SkipDuplicate, Duplicate, TypeOK, PassedIsLogged, Passed, HandlerKnows, RowFirst, Msgs
  <2>6. PassedIsDone'  BY <1>9 DEF SkipDuplicate, Duplicate, TypeOK, PassedIsDone, Passed, HandlerKnows, RowFirst, Msgs
  <2>7. NormalizedOnce'  BY <1>9 DEF SkipDuplicate, Duplicate, TypeOK, NormalizedOnce
  <2>8. WholeOrCut'  BY <1>9 DEF SkipDuplicate, Duplicate, TypeOK, WholeOrCut, HandlerKnows
  <2> QED  BY <2>1, <2>2, <2>3, <2>4, <2>5, <2>6, <2>7, <2>8
<1>10. ASSUME InsertEvent PROVE IInv'
  <2>1. TypeOK'  BY <1>10 DEF InsertEvent, Duplicate, Handled, TypeOK, Steps, Sources
  <2>2. WithinHead'  BY <1>10 DEF InsertEvent, Duplicate, Handled, TypeOK, WithinHead, Msgs
  <2>3. HandlerKnows'  BY <1>10 DEF InsertEvent, Duplicate, Handled, TypeOK, HandlerKnows, RowFirst, Steps
  <2>4. RowFirst'  BY <1>10 DEF InsertEvent, Duplicate, Handled, TypeOK, RowFirst, HandlerKnows
  <2>5. PassedIsLogged'  BY <1>10 DEF InsertEvent, Duplicate, Handled, TypeOK, PassedIsLogged, Passed, HandlerKnows, RowFirst, Msgs
  <2>6. PassedIsDone'  BY <1>10 DEF InsertEvent, Duplicate, Handled, TypeOK, PassedIsDone, Passed, HandlerKnows, RowFirst
  <2>7. NormalizedOnce'  BY <1>10 DEF InsertEvent, Duplicate, Handled, TypeOK, NormalizedOnce
  <2>8. WholeOrCut'  BY <1>10 DEF InsertEvent, Duplicate, Handled, TypeOK, WholeOrCut, HandlerKnows
  <2> QED  BY <2>1, <2>2, <2>3, <2>4, <2>5, <2>6, <2>7, <2>8
<1>11. ASSUME ApplyWrite PROVE IInv'
  <2>1. TypeOK'  BY <1>11 DEF ApplyWrite, TypeOK, HandlerKnows, Steps, Sources
  <2>2. WithinHead'  BY <1>11 DEF ApplyWrite, TypeOK, WithinHead, Msgs
  <2>3. HandlerKnows'  BY <1>11 DEF ApplyWrite, TypeOK, HandlerKnows, Steps
  <2>4. RowFirst'  BY <1>11 DEF ApplyWrite, TypeOK, RowFirst, HandlerKnows
  <2>5. PassedIsLogged'  BY <1>11 DEF ApplyWrite, TypeOK, PassedIsLogged, Passed, HandlerKnows, RowFirst, Msgs
  <2>6. PassedIsDone'  BY <1>11 DEF ApplyWrite, TypeOK, PassedIsDone, Passed, HandlerKnows, RowFirst
  <2>7. NormalizedOnce'  BY <1>11 DEF ApplyWrite, TypeOK, NormalizedOnce
  <2>8. WholeOrCut'  BY <1>11 DEF ApplyWrite, TypeOK, WholeOrCut, HandlerKnows
  <2> QED  BY <2>1, <2>2, <2>3, <2>4, <2>5, <2>6, <2>7, <2>8
<1>12. ASSUME Ack PROVE IInv'
  <2>1. TypeOK'  BY <1>12 DEF Ack, TypeOK, Steps, Sources
  <2>2. WithinHead'  BY <1>12 DEF Ack, TypeOK, WithinHead, Msgs
  <2>3. HandlerKnows'  BY <1>12 DEF Ack, TypeOK, HandlerKnows, Steps
  <2>4. RowFirst'  BY <1>12 DEF Ack, TypeOK, RowFirst, HandlerKnows
  <2>5. PassedIsLogged'  BY <1>12 DEF Ack, TypeOK, PassedIsLogged, Passed, HandlerKnows, RowFirst, Msgs
  <2>6. PassedIsDone'  BY <1>12 DEF Ack, TypeOK, PassedIsDone, Passed, HandlerKnows, RowFirst, Msgs
  <2>7. NormalizedOnce'  BY <1>12 DEF Ack, TypeOK, NormalizedOnce
  <2>8. WholeOrCut'  BY <1>12 DEF Ack, TypeOK, WholeOrCut, HandlerKnows
  <2> QED  BY <2>1, <2>2, <2>3, <2>4, <2>5, <2>6, <2>7, <2>8
<1>13. ASSUME Refuse PROVE IInv'
  <2>1. TypeOK'  BY <1>13 DEF Refuse, TypeOK, Steps, Sources
  <2>2. WithinHead'  BY <1>13 DEF Refuse, TypeOK, WithinHead, Msgs
  <2>3. HandlerKnows'  BY <1>13 DEF Refuse, TypeOK, HandlerKnows, Steps
  <2>4. RowFirst'  BY <1>13 DEF Refuse, TypeOK, RowFirst, HandlerKnows
  <2>5. PassedIsLogged'  BY <1>13 DEF Refuse, TypeOK, PassedIsLogged, Passed, HandlerKnows, RowFirst, Msgs
  <2>6. PassedIsDone'  BY <1>13 DEF Refuse, TypeOK, PassedIsDone, Passed, HandlerKnows, RowFirst, Msgs
  <2>7. NormalizedOnce'  BY <1>13 DEF Refuse, TypeOK, NormalizedOnce
  <2>8. WholeOrCut'  BY <1>13 DEF Refuse, TypeOK, WholeOrCut, HandlerKnows
  <2> QED  BY <2>1, <2>2, <2>3, <2>4, <2>5, <2>6, <2>7, <2>8
<1>14. ASSUME AppendRawFails PROVE IInv'
  <2>1. TypeOK'  BY <1>14 DEF AppendRawFails, TypeOK, Steps, Sources
  <2>2. WithinHead'  BY <1>14 DEF AppendRawFails, TypeOK, WithinHead, Msgs
  <2>3. HandlerKnows'  BY <1>14 DEF AppendRawFails, TypeOK, HandlerKnows, Steps
  <2>4. RowFirst'  BY <1>14 DEF AppendRawFails, TypeOK, RowFirst, HandlerKnows
  <2>5. PassedIsLogged'  BY <1>14 DEF AppendRawFails, TypeOK, PassedIsLogged, Passed, HandlerKnows, RowFirst, Msgs
  <2>6. PassedIsDone'  BY <1>14 DEF AppendRawFails, TypeOK, PassedIsDone, Passed, HandlerKnows, RowFirst, Msgs
  <2>7. NormalizedOnce'  BY <1>14 DEF AppendRawFails, TypeOK, NormalizedOnce
  <2>8. WholeOrCut'  BY <1>14 DEF AppendRawFails, TypeOK, WholeOrCut, HandlerKnows
  <2> QED  BY <2>1, <2>2, <2>3, <2>4, <2>5, <2>6, <2>7, <2>8
<1>15. ASSUME InsertEventFails PROVE IInv'
  <2>1. TypeOK'  BY <1>15 DEF InsertEventFails, TypeOK, Steps, Sources
  <2>2. WithinHead'  BY <1>15 DEF InsertEventFails, TypeOK, WithinHead, Msgs
  <2>3. HandlerKnows'  BY <1>15 DEF InsertEventFails, TypeOK, HandlerKnows, Steps
  <2>4. RowFirst'  BY <1>15 DEF InsertEventFails, TypeOK, RowFirst, HandlerKnows
  <2>5. PassedIsLogged'  BY <1>15 DEF InsertEventFails, TypeOK, PassedIsLogged, Passed, HandlerKnows, RowFirst, Msgs
  <2>6. PassedIsDone'  BY <1>15 DEF InsertEventFails, TypeOK, PassedIsDone, Passed, HandlerKnows, RowFirst, Msgs
  <2>7. NormalizedOnce'  BY <1>15 DEF InsertEventFails, TypeOK, NormalizedOnce
  <2>8. WholeOrCut'  BY <1>15 DEF InsertEventFails, TypeOK, WholeOrCut, HandlerKnows
  <2> QED  BY <2>1, <2>2, <2>3, <2>4, <2>5, <2>6, <2>7, <2>8
<1>16. ASSUME ApplyWriteFails PROVE IInv'
  <2>1. TypeOK'  BY <1>16 DEF ApplyWriteFails, TypeOK, Steps, Sources
  <2>2. WithinHead'  BY <1>16 DEF ApplyWriteFails, TypeOK, WithinHead, Msgs
  <2>3. HandlerKnows'  BY <1>16 DEF ApplyWriteFails, TypeOK, HandlerKnows, Steps
  <2>4. RowFirst'  BY <1>16 DEF ApplyWriteFails, TypeOK, RowFirst, HandlerKnows
  <2>5. PassedIsLogged'  BY <1>16 DEF ApplyWriteFails, TypeOK, PassedIsLogged, Passed, HandlerKnows, RowFirst, Msgs
  <2>6. PassedIsDone'  BY <1>16 DEF ApplyWriteFails, TypeOK, PassedIsDone, Passed, HandlerKnows, RowFirst, Msgs
  <2>7. NormalizedOnce'  BY <1>16 DEF ApplyWriteFails, TypeOK, NormalizedOnce
  <2>8. WholeOrCut'  BY <1>16 DEF ApplyWriteFails, TypeOK, WholeOrCut, HandlerKnows
  <2> QED  BY <2>1, <2>2, <2>3, <2>4, <2>5, <2>6, <2>7, <2>8
<1>17. ASSUME Crash PROVE IInv'
  <2>1. TypeOK'  BY <1>17 DEF Crash, Disconnect, TypeOK, Steps, Sources
  <2>2. WithinHead'  BY <1>17 DEF Crash, Disconnect, TypeOK, WithinHead, Msgs
  <2>3. HandlerKnows'  BY <1>17 DEF Crash, Disconnect, TypeOK, HandlerKnows, Steps
  <2>4. RowFirst'  BY <1>17 DEF Crash, Disconnect, TypeOK, RowFirst, HandlerKnows
  <2>5. PassedIsLogged'  BY <1>17 DEF Crash, Disconnect, TypeOK, PassedIsLogged, Passed, HandlerKnows, RowFirst, Msgs
  <2>6. PassedIsDone'  BY <1>17 DEF Crash, Disconnect, TypeOK, PassedIsDone, Passed, HandlerKnows, RowFirst, Msgs
  <2>7. NormalizedOnce'  BY <1>17 DEF Crash, Disconnect, TypeOK, NormalizedOnce
  <2>8. WholeOrCut'  BY <1>17 DEF Crash, Disconnect, TypeOK, WholeOrCut, HandlerKnows
  <2> QED  BY <2>1, <2>2, <2>3, <2>4, <2>5, <2>6, <2>7, <2>8
<1>18. ASSUME Upgrade PROVE IInv'
  <2>1. TypeOK'  BY <1>18 DEF Upgrade, Disconnect, TypeOK, Steps, Sources
  <2>2. WithinHead'  BY <1>18 DEF Upgrade, Disconnect, TypeOK, WithinHead, Msgs
  <2>3. HandlerKnows'  BY <1>18 DEF Upgrade, Disconnect, TypeOK, HandlerKnows, Steps
  <2>4. RowFirst'  BY <1>18 DEF Upgrade, Disconnect, TypeOK, RowFirst, HandlerKnows
  <2>5. PassedIsLogged'  BY <1>18 DEF Upgrade, Disconnect, TypeOK, PassedIsLogged, Passed, HandlerKnows, RowFirst, Msgs
  <2>6. PassedIsDone'  BY <1>18 DEF Upgrade, Disconnect, TypeOK, PassedIsDone, Passed, HandlerKnows, RowFirst, Msgs
  <2>7. NormalizedOnce'  BY <1>18 DEF Upgrade, Disconnect, TypeOK, NormalizedOnce
  <2>8. WholeOrCut'  BY <1>18 DEF Upgrade, Disconnect, TypeOK, WholeOrCut, HandlerKnows
  <2> QED  BY <2>1, <2>2, <2>3, <2>4, <2>5, <2>6, <2>7, <2>8
<1>19. ASSUME UNCHANGED vars PROVE IInv'
  <2>1. TypeOK'  BY <1>19 DEF vars, TypeOK, Steps, Sources
  <2>2. WithinHead'  BY <1>19 DEF vars, TypeOK, WithinHead, Msgs
  <2>3. HandlerKnows'  BY <1>19 DEF vars, TypeOK, HandlerKnows, Steps
  <2>4. RowFirst'  BY <1>19 DEF vars, TypeOK, RowFirst, HandlerKnows
  <2>5. PassedIsLogged'  BY <1>19 DEF vars, TypeOK, PassedIsLogged, Passed, HandlerKnows, RowFirst, Msgs
  <2>6. PassedIsDone'  BY <1>19 DEF vars, TypeOK, PassedIsDone, Passed, HandlerKnows, RowFirst, Msgs
  <2>7. NormalizedOnce'  BY <1>19 DEF vars, TypeOK, NormalizedOnce
  <2>8. WholeOrCut'  BY <1>19 DEF vars, TypeOK, WholeOrCut, HandlerKnows
  <2> QED  BY <2>1, <2>2, <2>3, <2>4, <2>5, <2>6, <2>7, <2>8
<1>20. ASSUME AppendRawRaises PROVE IInv'
  <2>1. TypeOK'  BY <1>20 DEF AppendRawRaises, TypeOK, Steps, Sources
  <2>2. WithinHead'  BY <1>20 DEF AppendRawRaises, TypeOK, WithinHead, Msgs
  <2>3. HandlerKnows'  BY <1>20 DEF AppendRawRaises, TypeOK, HandlerKnows, Steps
  <2>4. RowFirst'  BY <1>20 DEF AppendRawRaises, TypeOK, RowFirst, HandlerKnows
  <2>5. PassedIsLogged'  BY <1>20 DEF AppendRawRaises, TypeOK, PassedIsLogged, Passed, HandlerKnows, RowFirst, Msgs
  <2>6. PassedIsDone'  BY <1>20 DEF AppendRawRaises, TypeOK, PassedIsDone, Passed, HandlerKnows, RowFirst, Msgs
  <2>7. NormalizedOnce'  BY <1>20 DEF AppendRawRaises, TypeOK, NormalizedOnce
  <2>8. WholeOrCut'  BY <1>20 DEF AppendRawRaises, TypeOK, WholeOrCut, HandlerKnows
  <2> QED  BY <2>1, <2>2, <2>3, <2>4, <2>5, <2>6, <2>7, <2>8
<1> QED
  BY <1>1, <1>2, <1>3, <1>4, <1>5, <1>6, <1>7, <1>8, <1>9, <1>10, <1>11, <1>12, <1>13, <1>14, <1>15, <1>16, <1>17, <1>18, <1>19, <1>20 DEF Next, Serve, Fail

(* So it holds always; each property below follows from it.                *)
LEMMA InvAlways == Spec => []IInv
<1>1. Init => IInv
  BY InitInv
<1>2. IInv /\ [Next]_vars => IInv'
  BY NextInv
<1> QED
  BY <1>1, <1>2, PTL DEF Spec

-----------------------------------------------------------------------------
(* Every variable keeps its type; in particular no more writes are applied *)
(* than a message's handler makes.                                         *)
THEOREM TypeCorrect == Spec => []TypeOK
<1>1. IInv => TypeOK
  BY DEF IInv
<1> QED
  BY <1>1, InvAlways, PTL

(* A message with an _id is normalised at most once, however often it is   *)
(* redelivered or replayed and wherever the process dies.                  *)
THEOREM AtMostOnce == Spec => []NormalizedOnce
<1>1. IInv => NormalizedOnce
  BY DEF IInv
<1> QED
  BY <1>1, InvAlways, PTL

(* No row without its raw payload, and ClassIn passes no object that is    *)
(* not in the raw log.                                                     *)
THEOREM NothingUnlogged == Spec => []Preserved
<1>1. IInv => Preserved
  BY DEF IInv, RowFirst, PassedIsLogged, Passed, Preserved
<1> QED
  BY <1>1, InvAlways, PTL

(* What ClassIn passes is normalised, but for the faults that are recorded *)
(* in missed, cut and generic.                                             *)
THEOREM AckAfterWork == Spec => []PassedIsNormalized
<1>1. IInv => PassedIsNormalized
  BY DEF IInv, PassedIsDone, Passed, PassedIsNormalized
<1> QED
  BY <1>1, InvAlways, PTL

(* Only a fault leaves a message half applied.                             *)
THEOREM HalfAppliedIsCut == Spec => []WholeOrCut
<1>1. IInv => WholeOrCut
  BY DEF IInv
<1> QED
  BY <1>1, InvAlways, PTL

-----------------------------------------------------------------------------
(* rows changes in one action only.                                        *)
LEMMA OnlyInsertAddsRows ==
  ASSUME [Next]_vars, rows' # rows
  PROVE  InsertEvent
  BY DEF Next, Serve, Fail, vars, queue, handler, store, history, budget, Send, ReadAck,
         LoseAck, Replay, Accept, Decode, AppendRaw, AppendRawRaises, Screen, SkipDuplicate,
         ApplyWrite, Ack, Refuse, AppendRawFails, InsertEventFails, ApplyWriteFails, Crash, Upgrade

(* A message normalised for the first time is the newest normalised one:   *)
(* a newer row would mean that ClassIn has passed it, hence that it is done. *)
THEOREM QueueOrderKept == Spec => InQueueOrder
<1> DEFINE FirstRow(m) == rows[m] = 0 /\ rows'[m] > 0 /\ m \notin missed /\ ParsesFrom[m] <= 1
           Newest(m) == \A k \in Msgs : k > m => rows[k] = 0
<1>1. ASSUME IInv, [Next]_vars
      PROVE  \A m \in Msgs : FirstRow(m) => Newest(m)
  <2> SUFFICES ASSUME NEW m \in Msgs, FirstRow(m), NEW k \in Msgs, k > m, rows[k] # 0
               PROVE  FALSE
    OBVIOUS
  <2>1. InsertEvent
    BY <1>1, OnlyInsertAddsRows
  <2>2. m = cur /\ Body[m] = "object" /\ m \in KeyOK
    BY <1>1, <2>1 DEF InsertEvent, IInv, TypeOK, HandlerKnows
  <2>3. k <= head
    <3>1. rows[k] > 0
      BY <1>1 DEF IInv, TypeOK
    <3>2. k \in raw
      BY <1>1, <3>1 DEF IInv, RowFirst
    <3> QED
      BY <1>1, <3>2 DEF IInv, WithinHead
  <2>4. Passed(m)
    BY <1>1, <2>3 DEF IInv, TypeOK, Passed, Msgs
  <2>5. m \in cut \union generic \/ rows[m] > 0
    BY <1>1, <2>2, <2>4 DEF IInv, PassedIsDone
  <2> QED
    BY <1>1, <2>5 DEF IInv, RowFirst
<1>2. IInv /\ [Next]_vars =>
         [\A m \in Msgs :
             /\ rows[m] = 0 /\ rows'[m] > 0
             /\ m \notin missed /\ ParsesFrom[m] <= 1
             => \A k \in Msgs : k > m => rows[k] = 0]_vars
  BY <1>1
<1> QED
  BY <1>2, InvAlways, PTL DEF Spec, InQueueOrder

-----------------------------------------------------------------------------
(* The receiver implements the journal: the redeliveries, the replays, the *)
(* messages without an _id and the faults are stutters or an Abandon.      *)
THEOREM Implementation == Spec => ImplementsJournal
<1>1. Init => Journal!Init
  <2> SUFFICES ASSUME Init PROVE Journal!Init
    OBVIOUS
  <2>1. raw \intersect WithId = {}
    BY DEF Init
  <2>2. {m \in WithId : rows[m] > 0} = {}
    BY DEF Init
  <2>3. [m \in WithId |-> applied[m]] = [m \in WithId |-> 0]
    BY DEF Init
  <2> QED
    BY <2>1, <2>2, <2>3 DEF Init, Journal!Init
<1>2. IInv /\ [Next]_vars => [Journal!Next]_(Journal!vars)
  <2> SUFFICES ASSUME IInv, [Next]_vars PROVE [Journal!Next]_(Journal!vars)
    OBVIOUS
  <2> USE DEF IInv, Journal!vars, Journal!Next, queue, handler, store, history, budget,
              Goto, Idle
  <2>1. CASE Send
    BY <2>1 DEF Send
  <2>2. CASE \E m \in Msgs : ReadAck(m) \/ LoseAck(m) \/ Replay(m)
    BY <2>2 DEF ReadAck, LoseAck, Replay
  <2>3. CASE \E s \in Sources, m \in Msgs : Accept(s, m)
    BY <2>3 DEF Accept
  <2>4. CASE Decode
    BY <2>4 DEF Decode
  <2>5. CASE AppendRaw
    BY <2>5 DEF AppendRaw, Journal!Record
  <2>6. CASE Screen
    BY <2>6 DEF Screen
  <2>7. CASE SkipDuplicate
    BY <2>7 DEF SkipDuplicate
  <2>8. CASE InsertEvent
    BY <2>8 DEF InsertEvent, Duplicate, TypeOK, HandlerKnows, Journal!Begin
  <2>9. CASE ApplyWrite
    BY <2>9 DEF ApplyWrite, TypeOK, HandlerKnows, Journal!Write
  <2>10. CASE Ack
    BY <2>10 DEF Ack
  <2>11. CASE Refuse
    BY <2>11 DEF Refuse
  <2>12. CASE Fail
    BY <2>12 DEF Fail, AppendRawFails, InsertEventFails, ApplyWriteFails, Journal!Abandon
  <2>13. CASE Crash
    BY <2>13 DEF Crash, Disconnect, Journal!Abandon
  <2>14. CASE Upgrade
    BY <2>14 DEF Upgrade, Disconnect
  <2>15. CASE UNCHANGED vars
    BY <2>15 DEF vars
  <2>16. CASE AppendRawRaises
    BY <2>16 DEF AppendRawRaises
  <2> QED
    BY <2>1, <2>2, <2>3, <2>4, <2>5, <2>6, <2>7, <2>8, <2>9, <2>10, <2>11, <2>12,
       <2>13, <2>14, <2>15, <2>16 DEF Next, Serve
<1> QED
  BY <1>1, <1>2, InvAlways, PTL DEF Spec, Journal!Spec, ImplementsJournal
=============================================================================
