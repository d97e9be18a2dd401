SPECIFICATION FairSpec
CONSTANTS
    Threads = {t1, t2, t3}
    Max = 3
    Lockout = 2
INVARIANTS TypeOK LockIsEarned
PROPERTIES LockEnds
