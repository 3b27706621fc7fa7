----------------------------- MODULE MCConsumer -----------------------------
\* Small instances of Consumer for TLC.
EXTENDS Consumer

CONSTANTS w1, w2, e1, e2

MCTwoWorkers == {w1, w2}
MCOneWorker == {w1}
MCEvents == {e1, e2}

\* An event, a message that cannot be decoded, another event, and the first
\* event again.
MCLog == [o \in 0 .. 3 |-> CASE o = 0 -> e1 [] o = 1 -> Poison [] o = 2 -> e2 [] o = 3 -> e1]
=============================================================================
