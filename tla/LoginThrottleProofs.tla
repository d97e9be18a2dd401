------------------------- MODULE LoginThrottleProofs -------------------------
(***************************************************************************)
(* Proofs about LoginThrottle, for every number of threads, failures and   *)
(* ticks.                                                                  *)
(***************************************************************************)
EXTENDS LoginThrottle, TLAPS

USE ThrottleAssumption

(* The entry, and what a thread has read of it, never counts more failures *)
(* than there were, however old what the thread has read may be.           *)
Counted ==
    /\ count <= total
    /\ \A t \in Threads : seen[t] <= total

(* The inductive invariant.                                                *)
IInv == TypeOK /\ Counted

(* A count saturates within its range, and saturating keeps the order.     *)
LEMMA OneMoreBounds ==
  ASSUME NEW n \in 0..Max, NEW m \in 0..Max
  PROVE  /\ OneMore(n) \in 0..Max
         /\ n <= OneMore(n)
         /\ n <= m => OneMore(n) <= OneMore(m)
  BY DEF OneMore

(* Nothing is counted at first.                                            *)
LEMMA InitInv == Init => IInv
  BY DEF Init, IInv, TypeOK, Counted

(* No interleaving of the threads breaks it.                               *)
LEMMA NextInv == IInv /\ [Next]_vars => IInv'
<1> SUFFICES ASSUME IInv, [Next]_vars PROVE IInv'
  OBVIOUS
<1> USE DEF IInv, TypeOK, Counted
<1>1. CASE Tick
  BY <1>1 DEF Tick
<1>2. ASSUME NEW t \in Threads, Attempt(t) PROVE IInv'
  BY <1>2 DEF Attempt, Refuse, Admit, Expired, Step
<1>3. ASSUME NEW t \in Threads, DropExpired(t) PROVE IInv'
  BY <1>3 DEF DropExpired, Step
<1>4. ASSUME NEW t \in Threads, Verify(t) PROVE IInv'
  BY <1>4 DEF Verify, Step
<1>5. ASSUME NEW t \in Threads, ReadEntry(t) PROVE IInv'
  BY <1>5 DEF ReadEntry, Step
<1>6. ASSUME NEW t \in Threads, StoreEntry(t) PROVE IInv'
  <2>1. /\ OneMore(seen[t]) \in 0..Max
        /\ OneMore(total) \in 0..Max
        /\ OneMore(failed) \in 0..Max
        /\ total <= OneMore(total)
        /\ OneMore(seen[t]) <= OneMore(total)
    BY OneMoreBounds
  <2>2. TypeOK'
    BY <1>6, <2>1 DEF StoreEntry, Step
  <2>3. Counted'
    BY <1>6, <2>1 DEF StoreEntry, Step
  <2> QED
    BY <2>2, <2>3
<1>7. ASSUME NEW t \in Threads, Reset(t) PROVE IInv'
  BY <1>7 DEF Reset, Step
<1>8. CASE UNCHANGED vars
  BY <1>8 DEF vars
<1> QED
  BY <1>1, <1>2, <1>3, <1>4, <1>5, <1>6, <1>7, <1>8 DEF Next, Serve

(* So it holds always.                                                     *)
LEMMA InvAlways == Spec => []IInv
  BY InitInv, NextInv, PTL DEF Spec

-----------------------------------------------------------------------------
(* Every variable keeps its type.                                          *)
THEOREM TypeCorrect == Spec => []TypeOK
<1>1. IInv => TypeOK
  BY DEF IInv
<1> QED
  BY <1>1, InvAlways, PTL

(* An address is locked only after Max failures: the lost updates of       *)
(* record_failure and late resets may unlock it, never lock it early.      *)
THEOREM LockEarned == Spec => []LockIsEarned
<1>1. IInv => LockIsEarned
  BY DEF IInv, TypeOK, Counted, LockIsEarned
<1> QED
  BY <1>1, InvAlways, PTL
=============================================================================
