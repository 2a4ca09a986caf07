----------------------------- MODULE MCLocalPool -----------------------------
EXTENDS LocalPool
CONSTANTS h1, h2, p1, p2, s1
MCLadder == <<"L4", "L3">>
\* One host for both tiers, one for L3.
MCServes == [h \in {h1, h2} |-> IF h = h1 THEN {"L4", "L3"} ELSE {"L3"}]
MCModel == [h \in {h1, h2} |-> IF h = h1 THEN "m1" ELSE "m2"]
=============================================================================
