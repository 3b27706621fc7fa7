--------------------------- MODULE MCOutboxRelay ---------------------------
\* A small instance of OutboxRelay for TLC: two relays, and a batch that the two
\* oldest rows, which cannot be decoded, fill when they commit first.
EXTENDS OutboxRelay

CONSTANTS a, b

MCRelays == {a, b}
MCRows == 1 .. 3
MCUndecodable == {1, 2}
=============================================================================
