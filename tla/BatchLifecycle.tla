--------------------------- MODULE BatchLifecycle ---------------------------
(***************************************************************************)
(* What a client that polls a batch may rely on, whatever happens to the   *)
(* daemon: the stored status of a job only moves forward                   *)
(* (validating, in_progress, cancelling, terminal) and a terminal status   *)
(* is final.  A row may disappear (erasure, retention).  This is the       *)
(* abstract specification that BatchStore implements.                      *)
(***************************************************************************)
EXTENDS Naturals

CONSTANT Jobs
VARIABLE row      \* the stored status of each job, "none" without a row

Stage(s) == CASE s = "none" -> 0
              [] s = "validating" -> 1
              [] s = "in_progress" -> 2
              [] s = "cancelling" -> 3
              [] s \in {"completed", "failed", "cancelled", "expired"} -> 4

Stored == {"validating", "in_progress", "cancelling",
           "completed", "failed", "cancelled", "expired"}

Write(j, s) == /\ Stage(row[j]) < Stage(s)
               /\ row' = [row EXCEPT ![j] = s]

Remove(j) == row' = [row EXCEPT ![j] = "none"]

Init == row = [j \in Jobs |-> "none"]
Next == \E j \in Jobs : Remove(j) \/ \E s \in Stored : Write(j, s)
Spec == Init /\ [][Next]_row
=============================================================================
