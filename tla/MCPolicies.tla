----------------------------- MODULE MCPolicies -----------------------------
EXTENDS Policies, TLC

\* The sums of three weights overflow the type: to a negative one, with which a Build of
\* rwrr panics, and to a positive one again.
MCWeight == {-1, 0, 1, 2, 3}

Symmetry == Permutations(Node) \cup Permutations(Request)
=============================================================================
