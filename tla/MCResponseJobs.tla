--------------------------- MODULE MCResponseJobs ---------------------------
EXTENDS ResponseJobs
CONSTANTS a, b, ga, gb, ca, cb, da, db
\* Polls, cancels and deletes on the owner a and on b.
MCGets == {ga, gb}
MCCancels == {ca, cb}
MCDeletes == {da, db}
MCOn == [r \in MCGets \cup MCCancels \cup MCDeletes |-> IF r \in {ga, ca, da} THEN a ELSE b]
=============================================================================
