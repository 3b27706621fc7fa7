----------------------------- MODULE MCOrderApi -----------------------------
\* A small instance of OrderApi for TLC.
EXTENDS OrderApi

CONSTANTS c1, c2

MCClients == {c1, c2}
=============================================================================
