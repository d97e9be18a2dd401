SPECIFICATION Spec
CONSTANTS
    Nil = Nil
    c1 = c1
    l1 = l1
    t1 = t1
    t2 = t2
    s1 = s1
    s2 = s2
    b1 = b1
    Courses = {c1}
    Lessons = {l1}
    Teachers = {t1, t2}
    Students = {s1, s2}
    Branches = {b1}
    Scopes <- MCScopes
    Fresh <- MCFresh
    Sheets <- MCSheets
    Posts <- MCPosts
    FormFirst = TRUE
    First <- MCFirst
    Limit = 1
    Scan = 2
    MaxWrites = 1
    MaxPages = 1
    MaxSends = 2
INVARIANTS TypeOK ShownWasInScope InScopeIsShown DispatchAccounts OnlyMissingAreTold
CHECK_DEADLOCK FALSE
