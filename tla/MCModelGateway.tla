-------------------------- MODULE MCModelGateway --------------------------
(* ModelGateway on small instances, for TLC: two routes that fall back on each other *)
(* and share a rate limit key. *)
EXTENDS ModelGateway

CONSTANTS r1, r2, k1

TwoRoutes == {r1, r2}
MutualFallback == [r \in TwoRoutes |-> IF r = r1 THEN r2 ELSE r1]
SharedQuota == [r \in TwoRoutes |-> k1]

===========================================================================
