---------------------------- MODULE MCPolicyServer ----------------------------
(***************************************************************************)
(* Two siblings, each with a device.  One rule for the whole family and    *)
(* one for a single device; one single-use grant for a child and one for a *)
(* device: every kind of scope whose bump goes to the children it covers.  *)
(***************************************************************************)
EXTENDS PolicyServer, TLC

CONSTANTS c1, c2, d1, d2, r1, r2, g1, g2, allow, block

MCChildOf == [d \in Device |-> IF d = d1 THEN c1 ELSE c2]
MCAsker == [g \in Grant |-> IF g = g1 THEN d1 ELSE d2]
AllScopes == (r1 :> [child |-> None, device |-> None])
             @@ (r2 :> [child |-> None, device |-> d2])
             @@ (g1 :> [child |-> c1, device |-> None])
             @@ (g2 :> [child |-> c2, device |-> d2])

MCScopeOf == [i \in Rule \cup Grant |-> AllScopes[i]]

MCClaim == {9}

===============================================================================
