------------------------- MODULE MCWatchConnection -------------------------
EXTENDS WatchConnection
=============================================================================
