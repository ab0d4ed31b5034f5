--------------------------- MODULE MCHealthCheck ---------------------------
EXTENDS HealthCheck, TLC

\* Liveness is checked too, so addresses and objects are not declared symmetric.
=============================================================================
