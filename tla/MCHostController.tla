-------------------------- MODULE MCHostController --------------------------
EXTENDS HostController

CONSTANTS c1, c2, h1, h2, fits, toolarge, small

\* The catalog has one plan, which one spec fits and the other does not.
MCPlanFor == [spec \in Specs |-> IF spec = fits THEN small ELSE Null]
=============================================================================
