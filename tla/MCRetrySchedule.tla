--------------------------- MODULE MCRetrySchedule ---------------------------
EXTENDS RetrySchedule
=============================================================================
