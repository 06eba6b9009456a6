---------------------------- MODULE MCTaskManager ----------------------------
(* TLC instances of TaskManager: two or three tasks, one or two with a schedule. *)
EXTENDS TaskManager

CONSTANTS t1, t2, t3, k1, k2

Tasks2 == {t1, t2}
Tasks3 == {t1, t2, t3}
Every1 == {t1}
OneCloser  == {k1}
TwoClosers == {k1, k2}

\* t1 and t3 compete for a name.
SharedName3 == [t \in Tasks3 |-> IF t = t2 THEN NoName ELSE "n"]
Unnamed2 == [t \in Tasks2 |-> NoName]
=============================================================================
