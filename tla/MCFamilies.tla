------------------------------ MODULE MCFamilies ------------------------------
(***************************************************************************)
(* A family with two owners, a guardian of one child and a device, next to *)
(* a family of the guardian's own; requests are explored in groups that    *)
(* meet: leaving, founding and inviting, children, and devices.            *)
(***************************************************************************)
EXTENDS Families, TLC

CONSTANTS u1, u2, u3, f1, f2, m1, m2, m3, m4, c1, c2, d1

Owner(f, u) == [family |-> f, user |-> u, role |-> "OWNER", assigned |-> {}]
Sitter == [family |-> f1, user |-> u3, role |-> "LIMITED_GUARDIAN", assigned |-> {c1}]

Row(table, ids) == [i \in ids |-> IF i \in DOMAIN table THEN table[i] ELSE None]

Meet(requests, actors, n, limit, owners) == [
    requests |-> requests, actors |-> actors, failures |-> n, limit |-> limit,
    members  |-> Row(owners @@ m3 :> Sitter @@ m4 :> Owner(f2, u3), Member),
    children |-> Row(c1 :> [family |-> f1, moved |-> FALSE] @@
                     c2 :> [family |-> f2, moved |-> FALSE], Child),
    devices  |-> Row(d1 :> [family |-> f1, child |-> c1], Device)]

One == m1 :> Owner(f1, u1)
Two == m1 :> Owner(f1, u1) @@ m2 :> Owner(f1, u2)

MCMixes == {
    Meet({"deleteAccount", "createFamily"}, {u1, u2}, 1, 3, Two),
    Meet({"deleteAccount", "addParent"}, {u1, u2}, 0, 2, Two),
    Meet({"addParent", "removeChild"}, {u1}, 1, 2, One),
    Meet({"deleteAccount", "addChild", "removeDevice"}, {u1}, 0, 3, One),
    Meet({"removeChild", "addChild", "setTimezone"}, {u1, u3}, 0, 2, One),
    Meet({"enroll", "redeem", "removeChild"}, {u1}, 1, 3, One),
    Meet({"heartbeat", "removeDevice", "removeChild"}, {u1}, 1, 3, One),
    Meet({"enroll", "redeem", "heartbeat", "deleteAccount"}, {u1}, 0, 3, One)}

Symmetric == Permutations(Handler)
===============================================================================
