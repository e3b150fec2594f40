---------------------------- MODULE MCNightShift ----------------------------
\* PunchClock by the hour, with a shift from 22:00 to 06:00.
EXTENDS PunchClock

CONSTANTS h1, w1

MCTimetables == {[start |-> 22, end |-> 6, days |-> {0, 1}, grace |-> 0, overnight |-> TRUE]}

vars == <<pc, work, punchVars>>

Spec == ServingInit /\ PunchInit /\ [][PunchNext]_vars
=============================================================================
