---------------------------- MODULE FleetBatches ----------------------------
(***************************************************************************)
(* One batch job shared by a fleet: PostgresBatchStore of                  *)
(* gateway/postgres_batches.py, which keeps a job in one row, lets the     *)
(* replica drain it that has claimed it, and reads and writes the whole    *)
(* row; cancel and resume_incomplete_with are those of BatchStore.         *)
(*                                                                         *)
(* Every _fetch builds a new object, so what a coroutine holds over an     *)
(* await is a copy: a cancel never reaches the copy of the worker. What    *)
(* the row does when the job expires or is erased is left to BatchStore:   *)
(* here the completion window is longer than the behaviour. The store is   *)
(* the table: the in-memory backend of the tests, whose _try_claim does    *)
(* not look at the status, is left out.                                    *)
(***************************************************************************)
EXTENDS Naturals, FiniteSets

CONSTANTS
    Replicas,
    N,           \* requests of the batch
    Nobody,      \* claimed_by NULL
    Ghost,       \* a worker_id of a process that has died; ids are random
    MaxCrashes,  \* bound on replicas that die
    MaxFails     \* bound on failed writes of the row

ASSUME FleetAssumption ==
    /\ Nobody \notin Replicas /\ Ghost \notin Replicas /\ Nobody # Ghost
    /\ N \in Nat \ {0} /\ MaxCrashes \in Nat /\ MaxFails \in Nat

VARIABLES
    row,       \* payload and status of the job
    by,        \* claimed_by
    stale,     \* claimed_at is older than claim_ttl_seconds
    up,        \* the replicas that run
    pc,        \* the task run_job of each replica
    job,       \* the copy that task has in hand
    index,     \* its place in the items
    asked,     \* the request to cancel: not yet, in hand of a replica, done
    hand,      \* the copy of cancel(), between its read and its write
    stolen,    \* history: a claim that had run out was taken from a living worker
    raced,     \* history: a cancel was stored while a worker had a copy in hand
    crashes, fails

claim == <<by, stale>>
vars == <<row, by, stale, up, pc, job, index, asked, hand, stolen, raced,
          crashes, fails>>

Items == 1..N
Open == {"validating", "in_progress"}
Terminal == {"completed", "cancelled"}
\* "answered" is completed or failed: both have a line in the results.
ItemStatus == {"pending", "answered", "skipped"}
Job == [status : Open \cup {"cancelling"} \cup Terminal, cancel : BOOLEAN,
        items : [Items -> ItemStatus], lines : [Items -> Nat]]

\* The points of run_job; between "idle" and "exec" the task awaits.
Points == {"none", "queued", "begin", "open", "loop", "idle", "exec", "end", "settle"}
Draining == Points \ {"none", "queued"}
InHand == {"open", "idle", "exec", "settle"}

NewJob == [status |-> "validating", cancel |-> FALSE,
           items |-> [i \in Items |-> "pending"], lines |-> [i \in Items |-> 0]]

Pending(j) == {i \in Items : j.items[i] = "pending"}

\* _mark_remaining_skipped
Skipped(j) == [j EXCEPT !.items = [i \in Items |-> IF i \in Pending(j) THEN "skipped" ELSE @[i]]]

NoHand(w) == [at |-> w, seen |-> NewJob, job |-> NewJob]

-----------------------------------------------------------------------------
Goto(w, p) == pc' = [pc EXCEPT ![w] = p]

\* The copy is out of scope, or about to be replaced.
Forget(w) == job' = [job EXCEPT ![w] = NewJob]

\* One event loop: while cancel() runs, the task of its replica does not.
MayRun(w) == w \in up /\ (asked = "asking" => hand.at # w)

\* _persist: the whole row, or an error that is logged and swallowed.
Persist(j) ==
    \/ row' = j /\ UNCHANGED fails
    \/ fails < MaxFails /\ fails' = fails + 1 /\ UNCHANGED row

\* _release_claim
release_claim(w) ==
    IF by = w THEN by' = Nobody /\ stale' = FALSE ELSE UNCHANGED claim

\* schedule, at startup of a replica: unfinished jobs with work left.
Boot(w) ==
    /\ w \notin up
    /\ up' = up \cup {w}
    /\ Goto(w, IF row.status \in Open /\ Pending(row) # {} THEN "queued" ELSE "none")
    /\ UNCHANGED <<row, by, stale, job, index, asked, hand, stolen, raced,
                   crashes, fails>>

\* Mutation: any unfinished job may be claimed.
BugClaimable(w) == row.status \in Open

\* The WHERE clause of _try_claim.
Claimable(w) == row.status \in Open /\ (by \in {Nobody, w} \/ stale)

\* _try_claim: a job that cannot be claimed is dropped, not tried again.
Claim(w) ==
    /\ MayRun(w) /\ pc[w] = "queued"
    /\ IF Claimable(w)
       THEN /\ by' = w /\ stale' = FALSE
            /\ stolen' = (stolen \/ (stale /\ by \in Replicas \ {w}))
            /\ Goto(w, "begin")
       ELSE Goto(w, "none") /\ UNCHANGED <<by, stale, stolen>>
    /\ UNCHANGED <<row, up, job, index, asked, hand, raced, crashes, fails>>

\* The first get of run_job. A job that is cancelled already is closed.
Begin(w) ==
    /\ MayRun(w) /\ pc[w] = "begin"
    /\ IF row.status \in Terminal
       THEN Goto(w, "none") /\ release_claim(w) /\ UNCHANGED <<job, index>>
       ELSE /\ job' = [job EXCEPT ![w] = row]
            /\ Goto(w, IF row.cancel THEN "settle" ELSE "open")
            /\ index' = [index EXCEPT ![w] = 1]
            /\ UNCHANGED claim
    /\ UNCHANGED <<row, up, asked, hand, stolen, raced, crashes, fails>>

\* The job is stored as in progress.
Start(w) ==
    /\ MayRun(w) /\ pc[w] = "open"
    /\ Persist([job[w] EXCEPT !.status = "in_progress"])
    /\ Forget(w)
    /\ Goto(w, "loop")
    /\ UNCHANGED <<by, stale, up, index, asked, hand, stolen, raced, crashes>>

\* Mutation: an item that was answered is sent again.
BugToRun(i) == row.items[i] # "skipped"

\* item.status != ITEM_PENDING -> continue
ToRun(i) == row.items[i] = "pending"

\* The head of the loop: the row is read again and the claim is renewed.
Loop(w) ==
    /\ MayRun(w) /\ pc[w] = "loop"
    /\ \/ index[w] > N /\ Goto(w, "end") /\ UNCHANGED <<stale, job, index>>
       \/ /\ index[w] <= N
          /\ stale' = (stale /\ by # w)
          /\ \/ row.cancel /\ Goto(w, "end") /\ UNCHANGED <<job, index>>
             \/ /\ ~row.cancel /\ ToRun(index[w])
                /\ Goto(w, "idle")
                /\ job' = [job EXCEPT ![w] = row]
                /\ UNCHANGED index
             \/ /\ ~row.cancel /\ ~ToRun(index[w])
                /\ index' = [index EXCEPT ![w] = @ + 1]
                /\ UNCHANGED <<pc, job>>
    /\ UNCHANGED <<row, by, up, asked, hand, stolen, raced, crashes, fails>>

\* _wait_for_idle: no interactive request is left. It looks at the copy, so no
\* cancel ends it.
Execute(w) ==
    /\ MayRun(w) /\ pc[w] = "idle"
    /\ Goto(w, "exec")
    /\ UNCHANGED <<row, by, stale, up, job, index, asked, hand, stolen, raced,
                   crashes, fails>>

\* An item and its line in the results.
Answered(j, i) == [j EXCEPT !.items[i] = "answered", !.lines[i] = @ + 1]

\* execute_one has returned or raised: the whole copy is written.
Finish(w) ==
    /\ MayRun(w) /\ pc[w] = "exec"
    /\ Persist(Answered(job[w], index[w]))
    /\ Forget(w)
    /\ index' = [index EXCEPT ![w] = @ + 1]
    /\ Goto(w, "loop")
    /\ UNCHANGED <<by, stale, up, asked, hand, stolen, raced, crashes>>

\* After the loop: the last get.
End(w) ==
    /\ MayRun(w) /\ pc[w] = "end"
    /\ job' = [job EXCEPT ![w] = row]
    /\ Goto(w, "settle")
    /\ UNCHANGED <<row, by, stale, up, index, asked, hand, stolen, raced,
                   crashes, fails>>

\* Mutation: a job that was not cancelled keeps its status.
BugSettled(j) == IF j.cancel THEN [Skipped(j) EXCEPT !.status = "cancelled"] ELSE j

Settled(j) ==
    IF j.cancel \/ j.status = "cancelling"
    THEN [Skipped(j) EXCEPT !.status = "cancelled"]
    ELSE [j EXCEPT !.status = "completed"]

\* The end is written and announced, and the claim given back.
Settle(w) ==
    /\ MayRun(w) /\ pc[w] = "settle"
    /\ Persist(Settled(job[w]))
    /\ release_claim(w)
    /\ Forget(w)
    /\ index' = [index EXCEPT ![w] = 1]
    /\ Goto(w, "none")
    /\ UNCHANGED <<up, asked, hand, stolen, raced, crashes>>

-----------------------------------------------------------------------------
\* The batch ids of _running.
Running(w) == pc[w] \in {"loop", "idle", "exec", "end", "settle"}

\* Mutation: a cancel leaves the end of the job to its worker.
BugCancelled(w) == [row EXCEPT !.cancel = TRUE, !.status = "cancelling"]

\* What cancel on replica w makes of the row: only the replica that drains the
\* job leaves its end to the worker.
Cancelled(w) ==
    LET j == [row EXCEPT !.cancel = TRUE]
    IN  IF row.status = "validating" \/ ~Running(w)
        THEN [Skipped(j) EXCEPT !.status = "cancelled"]
        ELSE [j EXCEPT !.status = "cancelling"]

\* Mutation: only a cancelled job is returned as it is.
BugMayCancel(w) == row.status # "cancelled"

\* An ended job is returned as it is.
MayCancel(w) == row.status \notin Terminal

\* cancel on replica w reads the row, while its task awaits.
CancelReads(w) ==
    /\ w \in up /\ asked = "no" /\ MayCancel(w)
    /\ pc[w] \in {"none", "queued", "idle", "exec"}
    /\ asked' = "asking"
    /\ hand' = [at |-> w, seen |-> row, job |-> Cancelled(w)]
    /\ UNCHANGED <<row, by, stale, up, pc, job, index, stolen, raced, crashes, fails>>

\* ... and writes it, and announces it when the job has ended with it.
CancelWrites ==
    /\ asked = "asking"
    /\ asked' = "done"
    /\ Persist(hand.job)
    /\ hand' = NoHand(hand.at)
    \* A worker holds an older copy, or has written since the read.
    /\ raced' = (hand.seen # row \/ \E w \in Replicas : pc[w] \in InHand)
    /\ UNCHANGED <<by, stale, up, pc, job, index, stolen, crashes>>

\* claim_ttl_seconds after the last heartbeat: the owner is in an await, where
\* it sends none, or dead.
Age ==
    /\ by # Nobody /\ ~stale
    /\ by \in Replicas => pc[by] \in {"idle", "exec"}
    /\ stale' = TRUE
    /\ UNCHANGED <<row, by, up, pc, job, index, asked, hand, stolen, raced,
                   crashes, fails>>

\* A replica dies; it comes back under another worker_id.
Crash(w) ==
    /\ w \in up /\ crashes < MaxCrashes
    /\ up' = up \ {w}
    /\ Goto(w, "none")
    /\ by' = IF by = w THEN Ghost ELSE by
    /\ Forget(w)
    /\ index' = [index EXCEPT ![w] = 1]
    /\ IF asked = "asking" /\ hand.at = w
       THEN asked' = "done" /\ hand' = NoHand(w)
       ELSE UNCHANGED <<asked, hand>>
    /\ crashes' = crashes + 1
    /\ UNCHANGED <<row, stale, stolen, raced, fails>>

Init ==
    /\ row = NewJob
    /\ by = Nobody /\ stale = FALSE
    \* create and schedule on one replica; the others start later.
    /\ \E c \in Replicas :
         /\ up = {c}
         /\ pc = [w \in Replicas |-> IF w = c THEN "queued" ELSE "none"]
         /\ hand = NoHand(c)
    /\ job = [w \in Replicas |-> NewJob]
    /\ index = [w \in Replicas |-> 1]
    /\ asked = "no"
    /\ stolen = FALSE /\ raced = FALSE
    /\ crashes = 0 /\ fails = 0

Work(w) ==
    \/ Claim(w) \/ Begin(w) \/ Start(w) \/ Loop(w)
    \/ Execute(w) \/ Finish(w) \/ End(w) \/ Settle(w)

Next ==
    \/ \E w \in Replicas : Work(w) \/ Boot(w) \/ Crash(w) \/ CancelReads(w)
    \/ CancelWrites \/ Age

Spec == Init /\ [][Next]_vars

\* A task goes on (requests have timeouts, interactive load has gaps), and a
\* replica that died is started again. Nobody has to cancel.
FairSpec ==
    /\ Spec
    /\ \A w \in Replicas : WF_vars(Work(w)) /\ WF_vars(Boot(w))
    /\ WF_vars(CancelWrites)

-----------------------------------------------------------------------------
TypeOK ==
    /\ row \in Job
    /\ by \in Replicas \cup {Nobody, Ghost} /\ stale \in BOOLEAN
    /\ up \in SUBSET Replicas
    /\ pc \in [Replicas -> Points]
    /\ job \in [Replicas -> Job]
    /\ index \in [Replicas -> 1..(N + 1)]
    /\ asked \in {"no", "asking", "done"}
    /\ hand \in [at : Replicas, seen : Job, job : Job]
    /\ stolen \in BOOLEAN /\ raced \in BOOLEAN
    /\ crashes \in Nat /\ fails \in Nat

\* "Only one replica drains a given batch at a time": true until a claim has
\* run out while its owner was waiting for an item.
SoleDrainer ==
    \A v, w \in Replicas :
        pc[v] \in Draining /\ pc[w] \in Draining /\ v # w => stolen

\* Every stored result is stored once, whoever has written the row; and a job
\* is only called complete with work left when a claim was lost or a write
\* failed.
AnswersExact ==
    /\ \A i \in Items :
         row.lines[i] = IF row.items[i] = "answered" THEN 1 ELSE 0
    /\ row.status = "completed" /\ Pending(row) # {} => stolen \/ fails > 0

\* A job that has ended stays ended, with the answers it had: unless its claim
\* was lost, or it was cancelled while a worker had the job in hand.
EndIsFinal ==
    [][row.status \in Terminal => row' = row \/ stolen \/ raced']_vars

\* A cancel that meets no worker with a copy in hand is final: no replica runs
\* the job after it, however many have it queued. (On the replica that drains it
\* a cancel always meets one.)
CancelSticks ==
    asked = "done" /\ ~raced /\ fails = 0 /\ crashes = 0 => row.status = "cancelled"

\* As long as no replica dies and writes succeed, the job ends.
EveryJobEnds == <>(row.status \in Terminal \/ crashes > 0 \/ fails > 0)

\* "Cancel marks remaining items skipped": a job whose cancel was stored is
\* never completed.
CancelStops == asked = "done" /\ fails = 0 /\ crashes = 0 /\ ~stolen => row.status # "completed"
=============================================================================
