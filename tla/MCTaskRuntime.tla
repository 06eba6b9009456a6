---------------------------- MODULE MCTaskRuntime ----------------------------
(* TLC instances of TaskRuntime: two waiting callers, one or two Shutdowns. *)
EXTENDS TaskRuntime, TLC

CONSTANTS c1, c2, k1, k2

Calls2 == {c1, c2}
OneCloser  == {k1}
TwoClosers == {k1, k2}

Interchangeable == Permutations(Calls2) \cup Permutations(TwoClosers)
=============================================================================
