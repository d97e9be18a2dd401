SPECIFICATION FairSpec
CONSTANTS
    n1 = n1
    n2 = n2
    b1 = b1
    p1 = p1
    p2 = p2
    t1 = t1
    th1 = th1
    th2 = th2
    Nil = Nil
    Names <- TwoNames
    Passwords <- TwoPasswords
    Branches <- OneBranch
    Uids <- OneUid
    Threads <- TwoThreads
    TTL = 0
    Slots = {1}
    MaxUsers = 2
INVARIANTS TypeOK MakersOutrank
PROPERTIES ChangedByRightful ShutOut
