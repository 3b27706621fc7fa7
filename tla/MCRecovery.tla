----------------------------- MODULE MCRecovery -----------------------------
\* A small instance of Recovery for TLC.
EXTENDS Recovery

CONSTANTS k1, k2

MCKeys == {k1, k2}
=============================================================================
