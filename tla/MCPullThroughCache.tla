------------------------- MODULE MCPullThroughCache -------------------------
(* Small instances of PullThroughCache for TLC. *)
EXTENDS PullThroughCache, TLC

CONSTANTS p1, p2, m1, m2

Symmetric == Permutations({p1, p2}) \union Permutations({m1, m2})

=============================================================================
