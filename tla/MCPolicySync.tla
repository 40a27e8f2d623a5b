----------------------------- MODULE MCPolicySync -----------------------------
(***************************************************************************)
(* Two siblings, each with a device.  One rule for the whole family and    *)
(* one for a single device; a single-use grant for a child, a grant for a  *)
(* device, and one for the whole family: a cfg picks those its run needs.  *)
(***************************************************************************)
EXTENDS PolicySync, TLC

CONSTANTS c1, c2, d1, d2, r1, r2, g1, g2, gAll, allow, block

MCChildOf == [d \in Device |-> IF d = d1 THEN c1 ELSE c2]

MCAsker == [g \in Grant |-> IF g = g2 THEN d2 ELSE d1]

WholeFamily == [child |-> None, device |-> None]

AllScopes ==
    (r1 :> WholeFamily) @@ (r2 :> [child |-> None, device |-> d2])
    @@ (g1 :> [child |-> c1, device |-> None])
    @@ (g2 :> [child |-> c2, device |-> d2]) @@ (gAll :> WholeFamily)

MCScopeOf == [i \in Rule \cup Grant |-> AllScopes[i]]

Symmetric == Permutations(Handler)
===============================================================================
