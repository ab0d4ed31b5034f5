-------------------------- MODULE MCGracefulSwitch --------------------------
EXTENDS GracefulSwitch, TLC

\* Liveness is checked too, so pickers and goroutines are not declared symmetric.
=============================================================================
