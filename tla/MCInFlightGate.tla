--------------------------- MODULE MCInFlightGate ---------------------------
EXTENDS InFlightGate
CONSTANTS h1, n1, n2, n3, l1
\* One request of high priority, three of normal and a batch item at low.
MCRequests == {h1, n1, n2, n3, l1}
MCRank == [r \in MCRequests |-> IF r = h1 THEN 0 ELSE IF r = l1 THEN 2 ELSE 1]
=============================================================================
