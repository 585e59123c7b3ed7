--------------------------- MODULE MCTaskRecovery ---------------------------
EXTENDS TaskRecovery
=============================================================================
