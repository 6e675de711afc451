------------------------------ MODULE MCDaemon ------------------------------
EXTENDS Daemon

CONSTANTS k1, k2
=============================================================================
