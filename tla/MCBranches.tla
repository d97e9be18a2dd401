----------------------------- MODULE MCBranches -----------------------------
(* One course, which both the school's account and a branch's own list.    *)
EXTENDS Branches

CONSTANTS c1, t1

MCCourses == {c1}
MCTeachers == {t1}
MCHosted == [a \in Ids \union {School} |-> {c1}]
MCMain == [c \in MCCourses |-> t1]
=============================================================================
