----------------------------- MODULE MCLogQueue -----------------------------
(* The threads of LogQueue, as many records as they need to meet.          *)
EXTENDS LogQueue

CONSTANTS w1, w2

MoreMain == [t \in {"main", w1, w2} |-> IF t = "main" THEN 2 ELSE 1]
Alike == Permutations({w1, w2})
=============================================================================
