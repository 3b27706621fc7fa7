--------------------------- MODULE MCOrderStore ---------------------------
\* A small instance of OrderStore for TLC: one article that exists and one that
\* does not.
EXTENDS OrderStore

CONSTANTS r1, r2, r3, k1, k2, book, ghost

MCRequests == {r1, r2, r3}
MCKeys == {k1, k2}
MCSkus == {book, ghost}
MCProducts == {book}
MCInitStock == [s \in Products |-> 1]
=============================================================================
