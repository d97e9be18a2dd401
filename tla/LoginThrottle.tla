---------------------------- MODULE LoginThrottle ----------------------------
(***************************************************************************)
(* auth.LoginThrottle under routes_auth.login_submit, for one client       *)
(* address (entries of different addresses never meet).                    *)
(*                                                                         *)
(* login_submit is a plain function, so FastAPI runs it in a thread pool   *)
(* and several attempts of one address run at once; the throttle has no    *)
(* lock.  A step is one access to the dict it keeps: the interpreter can   *)
(* switch threads between a get and the pop or the assignment after it.    *)
(* The time since the last failure is counted in ticks, and not beyond     *)
(* Lockout, where it stops mattering.                                      *)
(***************************************************************************)
EXTENDS Naturals

CONSTANTS
    Threads,  \* attempts that can run at once
    Max,      \* max_failures
    Lockout   \* lockout_seconds, in ticks

ASSUME ThrottleAssumption ==
    /\ Max \in Nat \ {0}
    /\ Lockout \in Nat \ {0}

VARIABLES
    count,   \* the failures in the entry; 0 is no entry
    age,     \* ticks since the time in the entry
    pc,      \* where each attempt is
    seen,    \* the count record_failure has read
    failed,  \* history: failures recorded since the entry was last dropped
    total    \* history: failures ever, counted up to Max

vars == <<count, age, pc, seen, failed, total>>

(* Bound: failures are counted up to Max, where more make no difference.   *)
OneMore(n) == IF n < Max THEN n + 1 ELSE n

Locked == count >= Max /\ age < Lockout

TypeOK ==
    /\ count \in 0..Max
    /\ age \in 0..Lockout
    /\ pc \in [Threads -> {"idle", "drop", "verify", "record", "store", "reset"}]
    /\ seen \in [Threads -> 0..Max]
    /\ failed \in 0..Max
    /\ total \in 0..Max

Init ==
    /\ count = 0
    /\ age = 0
    /\ pc = [t \in Threads |-> "idle"]
    /\ seen = [t \in Threads |-> 0]
    /\ failed = 0
    /\ total = 0

Tick ==
    /\ age < Lockout
    /\ age' = age + 1
    /\ UNCHANGED <<count, pc, seen, failed, total>>

Step(t, from, to) == pc[t] = from /\ pc' = [pc EXCEPT ![t] = to]

(* Mutant of Refuse: a refused attempt counts as one more failure.         *)
RefuseCounting(t) ==
    /\ Locked
    /\ Step(t, "idle", "record")
    /\ UNCHANGED <<count, age, seen, failed, total>>

(* locked_seconds: the entry locks the address, the attempt goes no further. *)
Refuse(t) ==
    /\ Locked
    /\ Step(t, "idle", "idle")
    /\ UNCHANGED <<count, age, seen, failed, total>>

Admit(t) ==
    /\ count < Max
    /\ Step(t, "idle", "verify")
    /\ UNCHANGED <<count, age, seen, failed, total>>

Expired(t) ==
    /\ count >= Max /\ age = Lockout
    /\ Step(t, "idle", "drop")
    /\ UNCHANGED <<count, age, seen, failed, total>>

(* ... and pops the expired entry, or whatever has become of it.           *)
DropExpired(t) ==
    /\ Step(t, "drop", "verify")
    /\ count' = 0
    /\ failed' = 0
    /\ UNCHANGED <<age, seen, total>>

(* Wrong, right, or an exception that login_submit does not catch.         *)
Verify(t) ==
    /\ \/ Step(t, "verify", "record")
       \/ Step(t, "verify", "reset")
       \/ Step(t, "verify", "idle")
    /\ UNCHANGED <<count, age, seen, failed, total>>

(* record_failure: self._failures.get ...                                  *)
ReadEntry(t) ==
    /\ Step(t, "record", "store")
    /\ seen' = [seen EXCEPT ![t] = count]
    /\ UNCHANGED <<count, age, failed, total>>

(* Mutant of StoreEntry: a failure is counted twice.                       *)
StoreEntryTwice(t) ==
    /\ Step(t, "store", "idle")
    /\ count' = OneMore(OneMore(seen[t]))
    /\ age' = 0
    /\ seen' = [seen EXCEPT ![t] = 0]
    /\ failed' = OneMore(failed)
    /\ total' = OneMore(total)

(* ... and self._failures[ip] = (count + 1, now).                          *)
StoreEntry(t) ==
    /\ Step(t, "store", "idle")
    /\ count' = OneMore(seen[t])
    /\ age' = 0
    /\ seen' = [seen EXCEPT ![t] = 0]
    /\ failed' = OneMore(failed)
    /\ total' = OneMore(total)

(* Mutant of Reset: getting in makes up for one failure only.              *)
ResetOne(t) ==
    /\ Step(t, "reset", "idle")
    /\ count' = count - 1
    /\ failed' = 0
    /\ UNCHANGED <<age, seen, total>>

Reset(t) ==
    /\ Step(t, "reset", "idle")
    /\ count' = 0
    /\ failed' = 0
    /\ UNCHANGED <<age, seen, total>>

Attempt(t) == Refuse(t) \/ Admit(t) \/ Expired(t)
Serve(t) == DropExpired(t) \/ Verify(t) \/ ReadEntry(t) \/ StoreEntry(t) \/ Reset(t)

Next == Tick \/ \E t \in Threads : Attempt(t) \/ Serve(t)

Spec == Init /\ [][Next]_vars

(* Time passes, and a thread that can run does; nobody has to attempt.     *)
FairSpec == Spec /\ WF_vars(Tick) /\ \A t \in Threads : WF_vars(Serve(t))

-----------------------------------------------------------------------------
(* The brake is released: an address that is locked becomes unlocked, even *)
(* if it keeps attempting and attempts are under way when it is locked.    *)
LockEnds == Locked ~> ~Locked

(* An address is only locked after Max failures, whatever read-modify-     *)
(* writes of record_failure and resets fall together.                      *)
LockIsEarned == count >= Max => total >= Max

(* "5 failures from an IP lock it for 60 seconds" (PRD.md FR-A5): once Max *)
(* failures are recorded and the last is recent, the next one is refused.  *)
LockedAfterMax == failed >= Max /\ age < Lockout => Locked
=============================================================================
