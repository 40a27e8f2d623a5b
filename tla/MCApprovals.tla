----------------------------- MODULE MCApprovals -----------------------------
(***************************************************************************)
(* Two asks, an owner who may answer both and a guardian assigned the      *)
(* child of one of them.  On D1 one row at a time, with a failure or with  *)
(* a second tick of the clock.                                             *)
(***************************************************************************)
EXTENDS Approvals, TLC

CONSTANTS a1, a2, owner, guardian

MCAssigned == [p \in Parent |-> IF p = guardian THEN {a1} ELSE {}]

Set(sync, asks, rows, maxTime, maxFailures) ==
    [sync |-> sync, asks |-> asks, rows |-> rows, maxTime |-> maxTime,
     maxFailures |-> maxFailures]

MCSettings == {Set(TRUE, Ask, Row, 1, 1)} \cup
    UNION {{Set(FALSE, {a1}, {r}, 1, 1), Set(FALSE, {a1}, {r}, 2, 0)} : r \in Row}

Symmetric == Permutations(Handler) \cup Permutations(Row) \cup Permutations(RuleId)
===============================================================================
