-------------------------- MODULE MCSessionHistory --------------------------
EXTENDS SessionHistory
=============================================================================
