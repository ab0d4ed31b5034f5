----------------------- MODULE MCCircuitBreakerPicker -----------------------
EXTENDS CircuitBreakerPicker, TLC

Symmetry == Permutations(Addr) \cup Permutations(Request)
=============================================================================
