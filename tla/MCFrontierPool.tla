--------------------------- MODULE MCFrontierPool ---------------------------
EXTENDS FrontierPool
CONSTANTS r1, r2, r3, A, B, open_router, other
\* Replica A serves a request that is pinned and one that is pinned elsewhere or
\* not at all; B streams. Of the slots only open_router can serve all pins.
MCHome == [r \in Escalations |-> IF r = r3 THEN B ELSE A]
MCPins == {[r \in Escalations |-> IF r = r1 THEN "us" ELSE IF r = r2 THEN p ELSE NoPin] :
              p \in {"eu", NoPin}}
MCOffered == [r \in Escalations |-> <<open_router, other>>]
MCPermitted == [r \in Escalations |-> IF r = r2 THEN {open_router} ELSE Slots]
MCRegion == [s \in Slots |-> IF s = other THEN "eu" ELSE NoPin]
=============================================================================
