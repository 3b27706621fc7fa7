----------------------------- MODULE MCBreaker ------------------------------
\* Small instances of Breaker for TLC.
EXTENDS Breaker

CONSTANTS c1, c2, c3

MCCallers == {c1, c2, c3}
=============================================================================
