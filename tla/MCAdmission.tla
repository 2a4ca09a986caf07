---------------------------- MODULE MCAdmission ----------------------------
EXTENDS Admission
CONSTANTS r1, r2, r3, A, B, key, team, rpm
\* Three requests of a team, one on replica A and two on B: two of one key, and
\* one of a key without limits of its own.
MCHome == [r \in Requests |-> IF r = r1 THEN A ELSE B]
MCLeases == [r \in Requests |-> IF r = r2 THEN <<team>> ELSE <<key, team>>]
MCChecks == [r \in Requests |-> IF r = r2 THEN <<>> ELSE <<rpm>>]
MCCap == [g \in Gauges |-> 1]
MCLimit == [c \in Counters |-> 1]
=============================================================================
