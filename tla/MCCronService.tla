--------------------------- MODULE MCCronService ---------------------------
EXTENDS CronService

CONSTANTS every, once, note
=============================================================================
