--------------------------- MODULE MCWlrScreencopy ---------------------------
EXTENDS WlrScreencopy
=============================================================================
