---------------------------- MODULE MCFastSerial ----------------------------
EXTENDS FastSerial

\* A ring of two cells, whose one place is always full or empty, and one of
\* four, each way round.
MCRequests == {<<1, 3>>, <<4, 2>>}
=============================================================================
