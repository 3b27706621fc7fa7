------------------------------ MODULE MCCache -------------------------------
\* Small instances of Cache for TLC.
EXTENDS Cache

CONSTANTS r1, c1, c2

MCReaders == {r1}
MCCalls == {c1, c2}
=============================================================================
