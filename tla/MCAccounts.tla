------------------------------ MODULE MCAccounts ------------------------------
(* Two requests at once over two accounts of a branch.  With TTL = 0 a     *)
(* session is live until the next tick, any number of steps away.          *)
EXTENDS Accounts

CONSTANTS n1, n2, b1, p1, p2, t1, th1, th2

TwoNames == {n1, n2}
TwoPasswords == {p1, p2}
OneBranch == {b1}
OneUid == {t1}
TwoThreads == {th1, th2}
=============================================================================
