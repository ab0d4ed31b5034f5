--------------------------- MODULE MCBaseBalancer ---------------------------
EXTENDS BaseBalancer, TLC

\* Sound for addresses and attributes too: the one CHOOSE of the model picks the
\* only address of a SubConn, and no property of the runs that use it is a
\* liveness one.
Symmetry == Permutations(Addr) \cup Permutations(Attr) \cup Permutations(SubConn)
=============================================================================
