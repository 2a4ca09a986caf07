--------------------------- MODULE MCSingleFlight ---------------------------
EXTENDS SingleFlight
CONSTANTS r1, r2, s1, s2, k1
\* Two plain requests and two streams, all of one key: keys share nothing but
\* the bound on the clients that hang up.
MCRequests == {r1, r2, s1, s2}
MCStreams == {s1, s2}
MCKeys == {k1}
MCKeyOf == [r \in MCRequests |-> k1]
=============================================================================
