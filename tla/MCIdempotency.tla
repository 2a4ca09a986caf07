--------------------------- MODULE MCIdempotency ---------------------------
EXTENDS Idempotency
CONSTANTS a1, a2, b1, b2
\* Two requests with one body and two with another; the first is a stream.
MCRequests == {a1, a2, b1, b2}
MCBody == [r \in MCRequests |-> IF r \in {a1, a2} THEN "a" ELSE "b"]
MCStreams == {a1}
============================================================================
