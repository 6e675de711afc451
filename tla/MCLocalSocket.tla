---------------------------- MODULE MCLocalSocket ----------------------------
EXTENDS LocalSocket

CONSTANTS d1, d2, d3, db1

\* One database for all daemons: the deployment of one Control Plane.
OneDatabase == [d \in Daemons |-> db1]
=============================================================================
