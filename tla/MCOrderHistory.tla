--------------------------- MODULE MCOrderHistory ---------------------------
\* A small instance of OrderHistory for TLC: its constants are numbers, which
\* the configuration gives.
EXTENDS OrderHistory
=============================================================================
