------------------------- MODULE FleetBatchesProofs -------------------------
(***************************************************************************)
(* Proofs about FleetBatches for any number of replicas and items. As long *)
(* as no claim was taken from a living worker, the worker that drains the  *)
(* job is the one the claim names, so nobody else writes the row behind    *)
(* its back but the one request to cancel; what is left to prove is what   *)
(* that request and the copies in hand do to each other.                   *)
(***************************************************************************)
EXTENDS FleetBatches, TLAPS

USE FleetAssumption

\* One copy of the job.
Exact(j) == \A i \in Items : j.lines[i] = IF j.items[i] = "answered" THEN 1 ELSE 0

Honest(j) ==
    /\ j.status \in {"cancelling", "cancelled"} => j.cancel
    /\ j.status = "cancelled" => Pending(j) = {}

Sound(j) == Exact(j) /\ Honest(j)

\* A worker that leaves the loop may call the job ended.
Ready(j) == j.cancel \/ Pending(j) = {}

\* The items before i are dealt with.
Done(j, i) == \A k \in Items : k < i => j.items[k] # "pending"

CopiesSound ==
    /\ Sound(row) /\ Sound(hand.job)
    /\ \A w \in Replicas : Sound(job[w])

TasksSound ==
    \A w \in Replicas :
        /\ pc[w] = "open" => index[w] = 1
        /\ pc[w] \in {"idle", "exec"} =>
              index[w] \in Items /\ job[w].items[index[w]] = "pending"
        /\ pc[w] \in {"open", "idle", "exec"} => ~job[w].cancel

\* The request to cancel, between its read and its write: its replica stands
\* still, and only the worker itself leaves the end of the job open.
HandSound ==
    /\ asked = "asking" =>
          /\ hand.at \in up
          /\ hand.seen.status \notin Terminal
          /\ hand.job.cancel
          /\ \/ hand.job.status = "cancelled" /\ pc[hand.at] \in {"none", "queued", "idle", "exec"}
             \/ hand.job.status = "cancelling" /\ pc[hand.at] \in {"idle", "exec"}
    /\ asked # "done" => ~raced

\* Who drains has the claim.
OwnerDrains == ~stolen => \A w \in Replicas : pc[w] \in Draining => by = w

\* A completed job is nobody's.
CompletedIsLeft ==
    ~stolen =>
        /\ row.status = "completed" => \A w \in Replicas : pc[w] \notin Draining
        /\ \A w \in Replicas : pc[w] \in {"open", "idle", "exec"} => job[w].status # "completed"

\* No item is passed over.
NothingLeft ==
    ~stolen /\ fails = 0 =>
        /\ row.status = "completed" => Pending(row) = {}
        /\ \A w \in Replicas :
              /\ pc[w] = "loop" => Done(row, index[w])
              /\ pc[w] \in {"idle", "exec"} => Done(job[w], index[w])
              /\ pc[w] = "end" => Ready(row)
              /\ pc[w] = "settle" => Ready(job[w])

\* A worker that still has a copy of an ended job has the end itself.
EndInHand ==
    ~stolen /\ ~raced /\ row.status \in Terminal =>
        \A w \in Replicas : pc[w] \in InHand => pc[w] = "settle" /\ job[w] = row

\* What is left after a cancel that met nobody.
CancelLeft ==
    asked = "done" /\ ~raced /\ fails = 0 /\ crashes = 0 =>
        /\ row.status = "cancelled"
        /\ \A w \in Replicas : pc[w] \in InHand => pc[w] = "settle" /\ job[w].cancel

IInv ==
    /\ TypeOK /\ CopiesSound /\ TasksSound /\ HandSound
    /\ OwnerDrains /\ CompletedIsLeft /\ NothingLeft /\ EndInHand /\ CancelLeft

-----------------------------------------------------------------------------
\* What the operations make of one copy.
LEMMA Fields ==
  ASSUME NEW j \in Job
  PROVE  /\ j.status \in Open \cup {"cancelling"} \cup Terminal /\ j.cancel \in BOOLEAN
         /\ j.items \in [Items -> ItemStatus] /\ j.lines \in [Items -> Nat]
         /\ Pending(j) \subseteq Items
  BY DEF Job, Pending

LEMMA NewJobSound == NewJob \in Job /\ Sound(NewJob)
  BY DEF NewJob, Job, Sound, Exact, Honest, Open, ItemStatus

\* The job is stored as in progress.
LEMMA StartedSound ==
  ASSUME NEW j \in Job, Sound(j), NEW k, k = [j EXCEPT !.status = "in_progress"]
  PROVE  k \in Job /\ Sound(k) /\ k.status = "in_progress" /\ k.items = j.items
  BY DEF Job, Sound, Exact, Honest, Open

\* An answer is stored with its line.
LEMMA AnsweredSound ==
  ASSUME NEW j \in Job, Sound(j), NEW i \in Items, j.items[i] = "pending"
  PROVE  /\ Answered(j, i) \in Job /\ Sound(Answered(j, i))
         /\ Answered(j, i).status = j.status /\ Answered(j, i).cancel = j.cancel
         /\ Done(j, i) => Done(Answered(j, i), i + 1)
  <1> DEFINE k == Answered(j, i)
  <1>1. /\ k.status = j.status /\ k.cancel = j.cancel
        /\ k.items = [j.items EXCEPT ![i] = "answered"]
        /\ k.lines = [j.lines EXCEPT ![i] = @ + 1]
        /\ k = [status |-> k.status, cancel |-> k.cancel, items |-> k.items, lines |-> k.lines]
    <2> DEFINE m == [j EXCEPT !.items = [j.items EXCEPT ![i] = "answered"]]
    <2>1. /\ m \in [status : {j.status}, cancel : {j.cancel},
                     items : {[j.items EXCEPT ![i] = "answered"]}, lines : {j.lines}]
      BY DEF Job
    <2>2. k = [m EXCEPT !.lines = [m.lines EXCEPT ![i] = @ + 1]]
      BY DEF Answered
    <2> HIDE DEF k, m
    <2> QED
      BY <2>1, <2>2
  <1>2. /\ j.items \in [Items -> ItemStatus] /\ j.lines \in [Items -> Nat]
        /\ j.status \in Open \cup {"cancelling"} \cup Terminal /\ j.cancel \in BOOLEAN
    BY Fields
  <1>3. i \in Nat /\ \A n \in Items : n \in Nat
    BY DEF Items
  <1> HIDE DEF k
  <1>4. k.items \in [Items -> ItemStatus] /\ k.lines \in [Items -> Nat]
    BY <1>1, <1>2 DEF ItemStatus
  <1>5. k \in Job
    BY <1>1, <1>2, <1>4 DEF Job
  <1>6. Exact(k)
    BY <1>1, <1>2 DEF Exact, Sound
  <1>7. Pending(k) \subseteq Pending(j)
    BY <1>1, <1>2 DEF Pending
  <1>8. Honest(k)
    BY <1>1, <1>7 DEF Honest, Sound
  <1>9. Done(j, i) => Done(k, i + 1)
    BY <1>1, <1>2, <1>3 DEF Done
  <1> QED
    BY <1>1, <1>5, <1>6, <1>8, <1>9 DEF Sound, k

\* _mark_remaining_skipped leaves nothing pending and no line changed; where
\* nothing was pending it changes nothing.
LEMMA SkippedSound ==
  ASSUME NEW j \in Job, Exact(j)
  PROVE  /\ Skipped(j) \in Job /\ Exact(Skipped(j)) /\ Pending(Skipped(j)) = {}
         /\ Skipped(j).status = j.status /\ Skipped(j).cancel = j.cancel
         /\ Pending(j) = {} => Skipped(j) = j
  <1> DEFINE k == Skipped(j)
  <1>1. /\ k.status = j.status /\ k.cancel = j.cancel /\ k.lines = j.lines
        /\ k.items = [i \in Items |-> IF i \in Pending(j) THEN "skipped" ELSE j.items[i]]
        /\ k = [status |-> k.status, cancel |-> k.cancel, items |-> k.items, lines |-> k.lines]
    BY DEF Skipped, Job
  <1>2. /\ j.items \in [Items -> ItemStatus] /\ j.lines \in [Items -> Nat]
        /\ j.status \in Open \cup {"cancelling"} \cup Terminal /\ j.cancel \in BOOLEAN
        /\ j = [status |-> j.status, cancel |-> j.cancel, items |-> j.items, lines |-> j.lines]
    BY Fields DEF Job
  <1> HIDE DEF k
  <1>3. k.items \in [Items -> ItemStatus]
    BY <1>1, <1>2 DEF ItemStatus
  <1>4. k \in Job
    BY <1>1, <1>2, <1>3 DEF Job
  <1>5. Exact(k)
    BY <1>1, <1>2 DEF Exact, Pending
  <1>6. Pending(k) = {}
    BY <1>1 DEF Pending
  <1>7. ASSUME Pending(j) = {}
        PROVE  k = j
    <2>1. k.items = j.items
      BY <1>1, <1>2, <1>7
    <2> QED
      BY <1>1, <1>2, <2>1
  <1> QED
    BY <1>1, <1>4, <1>5, <1>6, <1>7 DEF k

\* Another status or cancel flag changes no item.
LEMMA StatusSet ==
  ASSUME NEW j \in Job, NEW s \in Open \cup {"cancelling"} \cup Terminal
  PROVE  LET k == [j EXCEPT !.status = s]
         IN  /\ k \in Job /\ k.status = s /\ k.cancel = j.cancel
             /\ Exact(j) => Exact(k)
             /\ Pending(k) = Pending(j)
             /\ j.status = s => k = j
  BY DEF Job, Exact, Pending

\* The end of a job.
LEMMA SettledSound ==
  ASSUME NEW j \in Job, Sound(j)
  PROVE  /\ Settled(j) \in Job /\ Sound(Settled(j))
         /\ j.cancel => Settled(j).status = "cancelled"
         /\ Settled(j).status = "completed" => Pending(Settled(j)) = Pending(j)
         /\ Settled(j).status = "completed" => ~j.cancel
         /\ Settled(j).status \in {"completed", "cancelled"}
         /\ j.status = "cancelled" => Settled(j) = j
  <1>1. Exact(j) /\ Honest(j)
    BY DEF Sound
  <1>2. CASE j.cancel \/ j.status = "cancelling"
    <2> DEFINE k == Skipped(j)
    <2>1. k \in Job /\ Exact(k) /\ Pending(k) = {} /\ k.cancel = j.cancel /\ k.status = j.status
          /\ (Pending(j) = {} => k = j)
      BY <1>1, SkippedSound
    <2>2. Settled(j) = [k EXCEPT !.status = "cancelled"]
      BY <1>2 DEF Settled
    <2> HIDE DEF k
    <2>3. /\ Settled(j) \in Job /\ Settled(j).status = "cancelled" /\ Settled(j).cancel = k.cancel
          /\ Exact(Settled(j)) /\ Pending(Settled(j)) = {}
          /\ k.status = "cancelled" => Settled(j) = k
      BY <2>1, <2>2, StatusSet DEF Terminal
    <2>4. j.cancel
      BY <1>1, <1>2 DEF Honest
    <2> QED
      BY <1>1, <2>1, <2>3, <2>4 DEF Sound, Honest
  <1>3. CASE ~(j.cancel \/ j.status = "cancelling")
    <2>1. Settled(j) = [j EXCEPT !.status = "completed"]
      BY <1>3 DEF Settled
    <2>2. /\ Settled(j) \in Job /\ Settled(j).status = "completed"
          /\ Exact(Settled(j)) /\ Pending(Settled(j)) = Pending(j)
      BY <1>1, <2>1, StatusSet DEF Terminal
    <2> QED
      BY <1>1, <1>3, <2>2 DEF Sound, Honest
  <1> QED
    BY <1>2, <1>3

\* What cancel makes of the row.
LEMMA CancelledSound ==
  ASSUME row \in Job, Sound(row), NEW w \in Replicas
  PROVE  /\ Cancelled(w) \in Job /\ Sound(Cancelled(w)) /\ Cancelled(w).cancel
         /\ Cancelled(w).status = IF row.status = "validating" \/ ~Running(w)
                                  THEN "cancelled" ELSE "cancelling"
  <1> DEFINE j == [row EXCEPT !.cancel = TRUE]
  <1>1. j \in Job /\ j.cancel /\ Exact(j)
    BY DEF Job, Sound, Exact
  <1>2. Cancelled(w) = IF row.status = "validating" \/ ~Running(w)
                       THEN [Skipped(j) EXCEPT !.status = "cancelled"]
                       ELSE [j EXCEPT !.status = "cancelling"]
    BY DEF Cancelled
  <1> HIDE DEF j
  <1>3. /\ Skipped(j) \in Job /\ Exact(Skipped(j)) /\ Pending(Skipped(j)) = {}
        /\ Skipped(j).cancel
    BY <1>1, SkippedSound
  <1>4. CASE row.status = "validating" \/ ~Running(w)
    BY <1>2, <1>3, <1>4, StatusSet DEF Terminal, Sound, Honest
  <1>5. CASE ~(row.status = "validating" \/ ~Running(w))
    BY <1>1, <1>2, <1>5, StatusSet DEF Sound, Honest
  <1> QED
    BY <1>4, <1>5

-----------------------------------------------------------------------------
\* _persist writes the whole copy or leaves the row.
LEMMA PersistIs ==
  ASSUME NEW j, Persist(j), fails \in Nat
  PROVE  /\ fails' \in Nat /\ (fails' = 0 => fails = 0 /\ row' = j)
         /\ row' \in {row, j}
  BY DEF Persist

\* Two workers drain the job only after a claim was taken from a living one.
LEMMA OneDrainer ==
  ASSUME OwnerDrains, ~stolen, NEW v \in Replicas, NEW w \in Replicas,
         pc[v] \in Draining, pc[w] \in Draining
  PROVE  v = w
  BY DEF OwnerDrains

\* A replica starts.
LEMMA BootKeeps ==
  ASSUME IInv, NEW w \in Replicas, Boot(w)
  PROVE  IInv'
  <1>1. /\ pc' = [pc EXCEPT ![w] = IF row.status \in Open /\ Pending(row) # {} THEN "queued" ELSE "none"]
        /\ up' = up \cup {w}
        /\ w \notin up
        /\ UNCHANGED <<row, by, stale, job, index, asked, hand, stolen, raced, crashes, fails>>
    BY DEF Boot, Goto
  <1>2. TypeOK'
    BY <1>1 DEF IInv, TypeOK, Points, Draining, InHand
  <1>3. CopiesSound'
    BY <1>1 DEF IInv, TypeOK, CopiesSound
  <1>4. TasksSound'
    BY <1>1 DEF IInv, TypeOK, TasksSound, Points, Draining, InHand
  <1>5. HandSound'
    BY <1>1 DEF IInv, TypeOK, HandSound, Points, Draining, InHand
  <1>6. OwnerDrains'
    BY <1>1 DEF IInv, TypeOK, OwnerDrains, Points, Draining, InHand
  <1>7. CompletedIsLeft'
    BY <1>1 DEF IInv, TypeOK, CompletedIsLeft, Points, Draining, InHand
  <1>8. NothingLeft'
    BY <1>1 DEF IInv, TypeOK, NothingLeft, Points, Draining, InHand
  <1>9. EndInHand'
    BY <1>1 DEF IInv, TypeOK, EndInHand, Points, Draining, InHand
  <1>10. CancelLeft'
    BY <1>1 DEF IInv, TypeOK, CancelLeft, Points, Draining, InHand
  <1> QED
    BY <1>2, <1>3, <1>4, <1>5, <1>6, <1>7, <1>8, <1>9, <1>10 DEF IInv

\* A claim is taken, or the job is dropped.
LEMMA ClaimKeeps ==
  ASSUME IInv, NEW w \in Replicas, Claim(w)
  PROVE  IInv'
  <1>1. /\ pc[w] = "queued" /\ MayRun(w)
        /\ \/ /\ Claimable(w)
              /\ by' = w /\ stale' = FALSE
              /\ stolen' = (stolen \/ (stale /\ by \in Replicas \ {w}))
              /\ pc' = [pc EXCEPT ![w] = "begin"]
           \/ pc' = [pc EXCEPT ![w] = "none"] /\ UNCHANGED <<by, stale, stolen>>
        /\ UNCHANGED <<row, up, job, index, asked, hand, raced, crashes, fails>>
    BY DEF Claim, Goto
  <1>2. TypeOK'
    BY <1>1 DEF IInv, TypeOK, Points, Draining, InHand, Claimable, MayRun, Open
  <1>3. CopiesSound'
    BY <1>1 DEF IInv, TypeOK, CopiesSound, Claimable, MayRun, Open
  <1>4. TasksSound'
    BY <1>1 DEF IInv, TypeOK, TasksSound, Points, Draining, InHand, Claimable, MayRun, Open
  <1>5. HandSound'
    BY <1>1 DEF IInv, TypeOK, HandSound, Points, Draining, InHand, Claimable, MayRun, Open
  <1>6. OwnerDrains'
    BY <1>1 DEF IInv, TypeOK, OwnerDrains, Points, Draining, InHand, Claimable, MayRun, Open
  <1>7. CompletedIsLeft'
    BY <1>1 DEF IInv, TypeOK, CompletedIsLeft, Points, Draining, InHand, Claimable, MayRun, Open
  <1>8. NothingLeft'
    BY <1>1 DEF IInv, TypeOK, NothingLeft, Points, Draining, InHand, Claimable, MayRun, Open
  <1>9. EndInHand'
    BY <1>1 DEF IInv, TypeOK, EndInHand, Points, Draining, InHand, Claimable, MayRun, Open
  <1>10. CancelLeft'
    BY <1>1 DEF IInv, TypeOK, CancelLeft, Points, Draining, InHand, Claimable, MayRun, Open
  <1> QED
    BY <1>2, <1>3, <1>4, <1>5, <1>6, <1>7, <1>8, <1>9, <1>10 DEF IInv

\* The first read of the row.
LEMMA BeginKeeps ==
  ASSUME IInv, NEW w \in Replicas, Begin(w)
  PROVE  IInv'
  <1>1. /\ pc[w] = "begin" /\ MayRun(w)
        /\ UNCHANGED <<row, up, asked, hand, stolen, raced, crashes, fails>>
    BY DEF Begin
  <1>2. row.status \in Terminal =>
          /\ pc' = [pc EXCEPT ![w] = "none"]
          /\ by' = IF by = w THEN Nobody ELSE by
          /\ stale' = IF by = w THEN FALSE ELSE stale
          /\ UNCHANGED <<job, index>>
    BY DEF Begin, Goto, release_claim, claim
  <1>3. row.status \notin Terminal =>
          /\ job' = [job EXCEPT ![w] = row]
          /\ pc' = [pc EXCEPT ![w] = IF row.cancel THEN "settle" ELSE "open"]
          /\ index' = [index EXCEPT ![w] = 1]
          /\ UNCHANGED <<by, stale>>
    BY DEF Begin, Goto, claim
  <1>4. 1 \in 1..(N + 1)
    BY DEF FleetAssumption
  <1>5. TypeOK'
    <2>1. CASE row.status \in Terminal
      BY <1>1, <1>2, <1>3, <1>4, <2>1 DEF IInv, TypeOK, TypeOK, MayRun, Ready, Terminal, Open, Points, Draining, InHand
    <2>2. CASE row.status \notin Terminal
      BY <1>1, <1>2, <1>3, <1>4, <2>2 DEF IInv, TypeOK, TypeOK, MayRun, Ready, Terminal, Open, Points, Draining, InHand
    <2> QED
      BY <1>1, <1>2, <1>3, <1>4, <2>1, <2>2
  <1>6. CopiesSound'
    BY <1>1, <1>2, <1>3, <1>4 DEF IInv, TypeOK, CopiesSound, MayRun, Terminal, Open
  <1>7. TasksSound'
    <2>1. CASE row.status \in Terminal
      BY <1>1, <1>2, <1>3, <1>4, <2>1 DEF IInv, TypeOK, TasksSound, MayRun, Ready, Terminal, Open, Points, Draining, InHand
    <2>2. CASE row.status \notin Terminal
      BY <1>1, <1>2, <1>3, <1>4, <2>2 DEF IInv, TypeOK, TasksSound, MayRun, Ready, Terminal, Open, Points, Draining, InHand
    <2> QED
      BY <1>1, <1>2, <1>3, <1>4, <2>1, <2>2
  <1>8. HandSound'
    BY <1>1, <1>2, <1>3, <1>4 DEF IInv, TypeOK, HandSound, Points, Draining, InHand, MayRun, Terminal, Open
  <1>9. OwnerDrains'
    BY <1>1, <1>2, <1>3, <1>4 DEF IInv, TypeOK, OwnerDrains, Points, Draining, InHand, MayRun, Terminal, Open
  <1>10. CompletedIsLeft'
    BY <1>1, <1>2, <1>3, <1>4 DEF IInv, TypeOK, CompletedIsLeft, Points, Draining, InHand, MayRun, Terminal, Open
  <1>11. NothingLeft'
    <2>1. CASE row.status \in Terminal
      BY <1>1, <1>2, <1>3, <1>4, <2>1 DEF IInv, TypeOK, NothingLeft, MayRun, Ready, Terminal, Open, Points, Draining, InHand
    <2>2. CASE row.status \notin Terminal
      BY <1>1, <1>2, <1>3, <1>4, <2>2 DEF IInv, TypeOK, NothingLeft, MayRun, Ready, Terminal, Open, Points, Draining, InHand
    <2> QED
      BY <1>1, <1>2, <1>3, <1>4, <2>1, <2>2
  <1>12. EndInHand'
    BY <1>1, <1>2, <1>3, <1>4 DEF IInv, TypeOK, EndInHand, Points, Draining, InHand, MayRun, Terminal, Open
  <1>13. CancelLeft'
    BY <1>1, <1>2, <1>3, <1>4 DEF IInv, TypeOK, CancelLeft, Points, Draining, InHand, MayRun, Terminal, Open
  <1> QED
    BY <1>5, <1>6, <1>7, <1>8, <1>9, <1>10, <1>11, <1>12, <1>13 DEF IInv

\* The job is stored as in progress.
LEMMA StartKeeps ==
  ASSUME IInv, NEW w \in Replicas, Start(w)
  PROVE  IInv'
  <1>1. /\ pc[w] = "open" /\ MayRun(w)
        /\ pc' = [pc EXCEPT ![w] = "loop"]
        /\ job' = [job EXCEPT ![w] = NewJob]
        /\ UNCHANGED <<by, stale, up, index, asked, hand, stolen, raced, crashes>>
    BY DEF Start, Goto, Forget
  <1> PICK k \in Job : /\ Sound(k) /\ k.status = "in_progress" /\ k.items = job[w].items
                       /\ Persist(k)
    BY StartedSound DEF Start, IInv, TypeOK, CopiesSound
  <1>2. row' \in {row, k} /\ fails' \in Nat /\ (fails' = 0 => fails = 0 /\ row' = k)
    BY PersistIs DEF IInv, TypeOK
  <1>3. index[w] = 1 /\ ~job[w].cancel /\ NewJob \in Job /\ Sound(NewJob)
    BY <1>1, NewJobSound DEF IInv, TasksSound
  <1>4. ~stolen => \A v \in Replicas \ {w} : pc[v] \notin Draining
    BY <1>1, OneDrainer DEF IInv, Draining, Points
  <1>5. TypeOK'
    BY <1>1, <1>2, <1>3, <1>4 DEF IInv, TypeOK, Points, Draining, InHand, MayRun, Terminal, Open
  <1>6. CopiesSound'
    BY <1>1, <1>2, <1>3, <1>4 DEF IInv, TypeOK, CopiesSound, MayRun, Terminal, Open
  <1>7. TasksSound'
    BY <1>1, <1>2, <1>3, <1>4 DEF IInv, TypeOK, TasksSound, Points, Draining, InHand, MayRun, Terminal, Open
  <1>8. HandSound'
    BY <1>1, <1>2, <1>3, <1>4 DEF IInv, TypeOK, HandSound, Points, Draining, InHand, MayRun, Terminal, Open
  <1>9. OwnerDrains'
    BY <1>1, <1>2, <1>3, <1>4 DEF IInv, TypeOK, OwnerDrains, Points, Draining, InHand, MayRun, Terminal, Open
  <1>10. CompletedIsLeft'
    BY <1>1, <1>2, <1>3, <1>4 DEF IInv, TypeOK, CompletedIsLeft, Points, Draining, InHand, MayRun, Terminal, Open
  <1>11. NothingLeft'
    <2>1. Done(row', 1)
      BY DEF Done, Items
    <2> QED
      BY <1>1, <1>2, <1>3, <1>4, <2>1 DEF IInv, TypeOK, NothingLeft, Terminal, Points, Draining, InHand
  <1>12. EndInHand'
    BY <1>1, <1>2, <1>3, <1>4 DEF IInv, TypeOK, EndInHand, Points, Draining, InHand, MayRun, Terminal, Open
  <1>13. CancelLeft'
    BY <1>1, <1>2, <1>3, <1>4 DEF IInv, TypeOK, CancelLeft, Points, Draining, InHand, MayRun, Terminal, Open
  <1> QED
    BY <1>5, <1>6, <1>7, <1>8, <1>9, <1>10, <1>11, <1>12, <1>13 DEF IInv

\* The head of the loop.
LEMMA LoopKeeps ==
  ASSUME IInv, NEW w \in Replicas, Loop(w)
  PROVE  IInv'
  <1>1. /\ pc[w] = "loop" /\ MayRun(w)
        /\ UNCHANGED <<row, by, up, asked, hand, stolen, raced, crashes, fails>>
        /\ stale' \in BOOLEAN
    BY DEF Loop, IInv, TypeOK
  <1>2. \/ /\ index[w] > N \/ row.cancel
           /\ pc' = [pc EXCEPT ![w] = "end"] /\ UNCHANGED <<job, index>>
        \/ /\ index[w] <= N /\ ~row.cancel /\ row.items[index[w]] = "pending"
           /\ pc' = [pc EXCEPT ![w] = "idle"]
           /\ job' = [job EXCEPT ![w] = row]
           /\ UNCHANGED index
        \/ /\ index[w] <= N /\ ~row.cancel /\ row.items[index[w]] # "pending"
           /\ index' = [index EXCEPT ![w] = @ + 1]
           /\ UNCHANGED <<pc, job>>
    BY DEF Loop, Goto, ToRun
  <1>3. index[w] \in 1..(N + 1) /\ N \in Nat /\ pc[w] \in Draining
    BY <1>1 DEF FleetAssumption, IInv, TypeOK, Draining, Points
  <1>4. TypeOK'
    BY <1>1, <1>2, <1>3 DEF IInv, TypeOK, Points, Draining, InHand, MayRun, Terminal, Open, Items
  <1>5. CopiesSound'
    BY <1>1, <1>2, <1>3 DEF IInv, TypeOK, CopiesSound, MayRun, Terminal, Open, Items
  <1>6. TasksSound'
    BY <1>1, <1>2, <1>3 DEF IInv, TypeOK, TasksSound, Points, Draining, InHand, MayRun, Terminal, Open, Items
  <1>7. HandSound'
    BY <1>1, <1>2, <1>3 DEF IInv, TypeOK, HandSound, Points, Draining, InHand, MayRun, Terminal, Open, Items
  <1>8. OwnerDrains'
    BY <1>1, <1>2, <1>3 DEF IInv, TypeOK, OwnerDrains, Points, Draining, InHand, MayRun, Terminal, Open, Items
  <1>9. CompletedIsLeft'
    BY <1>1, <1>2, <1>3 DEF IInv, TypeOK, CompletedIsLeft, Points, Draining, InHand, MayRun, Terminal, Open, Items
  <1>10. NothingLeft'
    <2>1. CASE index[w] > N \/ row.cancel
      BY <1>1, <1>2, <1>3, <2>1 DEF IInv, TypeOK, OwnerDrains, CompletedIsLeft, MayRun, Terminal, Open, Points, Draining, InHand, NothingLeft, Done, Ready, Items, Pending
    <2>2. CASE index[w] <= N /\ ~row.cancel /\ row.items[index[w]] = "pending"
      BY <1>1, <1>2, <1>3, <2>2 DEF IInv, TypeOK, OwnerDrains, CompletedIsLeft, MayRun, Terminal, Open, Points, Draining, InHand, NothingLeft, Done, Ready, Items, Pending
    <2>3. CASE index[w] <= N /\ ~row.cancel /\ row.items[index[w]] # "pending"
      BY <1>1, <1>2, <1>3, <2>3 DEF IInv, TypeOK, OwnerDrains, CompletedIsLeft, MayRun, Terminal, Open, Points, Draining, InHand, NothingLeft, Done, Ready, Items, Pending
    <2> QED
      BY <1>1, <1>2, <1>3, <2>1, <2>2, <2>3
  <1>11. EndInHand'
    <2>1. CASE index[w] > N \/ row.cancel
      BY <1>1, <1>2, <1>3, <2>1 DEF IInv, TypeOK, OwnerDrains, CompletedIsLeft, MayRun, Terminal, Open, Points, Draining, InHand, EndInHand, CopiesSound, Sound, Honest
    <2>2. CASE index[w] <= N /\ ~row.cancel /\ row.items[index[w]] = "pending"
      BY <1>1, <1>2, <1>3, <2>2 DEF IInv, TypeOK, OwnerDrains, CompletedIsLeft, MayRun, Terminal, Open, Points, Draining, InHand, EndInHand, CopiesSound, Sound, Honest
    <2>3. CASE index[w] <= N /\ ~row.cancel /\ row.items[index[w]] # "pending"
      BY <1>1, <1>2, <1>3, <2>3 DEF IInv, TypeOK, OwnerDrains, CompletedIsLeft, MayRun, Terminal, Open, Points, Draining, InHand, EndInHand, CopiesSound, Sound, Honest
    <2> QED
      BY <1>1, <1>2, <1>3, <2>1, <2>2, <2>3
  <1>12. CancelLeft'
    <2>1. CASE index[w] > N \/ row.cancel
      BY <1>1, <1>2, <1>3, <2>1 DEF IInv, TypeOK, OwnerDrains, CompletedIsLeft, MayRun, Terminal, Open, Points, Draining, InHand, CancelLeft, CopiesSound, Sound, Honest
    <2>2. CASE index[w] <= N /\ ~row.cancel /\ row.items[index[w]] = "pending"
      BY <1>1, <1>2, <1>3, <2>2 DEF IInv, TypeOK, OwnerDrains, CompletedIsLeft, MayRun, Terminal, Open, Points, Draining, InHand, CancelLeft, CopiesSound, Sound, Honest
    <2>3. CASE index[w] <= N /\ ~row.cancel /\ row.items[index[w]] # "pending"
      BY <1>1, <1>2, <1>3, <2>3 DEF IInv, TypeOK, OwnerDrains, CompletedIsLeft, MayRun, Terminal, Open, Points, Draining, InHand, CancelLeft, CopiesSound, Sound, Honest
    <2> QED
      BY <1>1, <1>2, <1>3, <2>1, <2>2, <2>3
  <1> QED
    BY <1>4, <1>5, <1>6, <1>7, <1>8, <1>9, <1>10, <1>11, <1>12 DEF IInv

\* Nobody else is served: the item is sent.
LEMMA ExecuteKeeps ==
  ASSUME IInv, NEW w \in Replicas, Execute(w)
  PROVE  IInv'
  <1>1. /\ pc[w] = "idle" /\ MayRun(w)
        /\ pc' = [pc EXCEPT ![w] = "exec"]
        /\ UNCHANGED <<row, by, stale, up, job, index, asked, hand, stolen, raced, crashes, fails>>
    BY DEF Execute, Goto
  <1>2. TypeOK'
    BY <1>1 DEF IInv, TypeOK, Points, Draining, InHand, MayRun
  <1>3. CopiesSound'
    BY <1>1 DEF IInv, TypeOK, CopiesSound, MayRun
  <1>4. TasksSound'
    BY <1>1 DEF IInv, TypeOK, TasksSound, Points, Draining, InHand, MayRun
  <1>5. HandSound'
    BY <1>1 DEF IInv, TypeOK, HandSound, Points, Draining, InHand, MayRun
  <1>6. OwnerDrains'
    BY <1>1 DEF IInv, TypeOK, OwnerDrains, Points, Draining, InHand, MayRun
  <1>7. CompletedIsLeft'
    BY <1>1 DEF IInv, TypeOK, CompletedIsLeft, Points, Draining, InHand, MayRun
  <1>8. NothingLeft'
    BY <1>1 DEF IInv, TypeOK, NothingLeft, Points, Draining, InHand, MayRun
  <1>9. EndInHand'
    BY <1>1 DEF IInv, TypeOK, EndInHand, Points, Draining, InHand, MayRun
  <1>10. CancelLeft'
    BY <1>1 DEF IInv, TypeOK, CancelLeft, Points, Draining, InHand, MayRun
  <1> QED
    BY <1>2, <1>3, <1>4, <1>5, <1>6, <1>7, <1>8, <1>9, <1>10 DEF IInv

\* The copy with the answer is written.
LEMMA FinishKeeps ==
  ASSUME IInv, NEW w \in Replicas, Finish(w)
  PROVE  IInv'
  <1>1. /\ pc[w] = "exec" /\ MayRun(w)
        /\ pc' = [pc EXCEPT ![w] = "loop"]
        /\ job' = [job EXCEPT ![w] = NewJob]
        /\ index' = [index EXCEPT ![w] = @ + 1]
        /\ UNCHANGED <<by, stale, up, asked, hand, stolen, raced, crashes>>
    BY DEF Finish, Goto, Forget
  <1>2. /\ index[w] \in Items /\ job[w].items[index[w]] = "pending"
        /\ job[w] \in Job /\ Sound(job[w]) /\ ~job[w].cancel
    BY <1>1 DEF IInv, TypeOK, TasksSound, CopiesSound
  <1> PICK k \in Job : /\ Sound(k) /\ k.status = job[w].status /\ ~k.cancel
                       /\ Done(job[w], index[w]) => Done(k, index[w] + 1)
                       /\ Persist(k)
    BY <1>2, AnsweredSound DEF Finish
  <1>3. row' \in {row, k} /\ fails' \in Nat /\ (fails' = 0 => fails = 0 /\ row' = k)
    BY PersistIs DEF IInv, TypeOK
  <1>4. k.status \notin {"cancelling", "cancelled"} /\ NewJob \in Job /\ Sound(NewJob)
    BY NewJobSound DEF Sound, Honest
  <1>5. ~stolen => \A v \in Replicas \ {w} : pc[v] \notin Draining
    BY <1>1, OneDrainer DEF IInv, Draining, Points
  <1>6. index[w] + 1 \in 1..(N + 1)
    BY <1>2 DEF Items, FleetAssumption
  <1>7. TypeOK'
    BY <1>1, <1>2, <1>3, <1>4, <1>5, <1>6 DEF IInv, TypeOK, Points, Draining, InHand, MayRun, Terminal, Open
  <1>8. CopiesSound'
    BY <1>1, <1>2, <1>3, <1>4, <1>5, <1>6 DEF IInv, TypeOK, CopiesSound, MayRun, Terminal, Open
  <1>9. TasksSound'
    BY <1>1, <1>2, <1>3, <1>4, <1>5, <1>6 DEF IInv, TypeOK, TasksSound, Points, Draining, InHand, MayRun, Terminal, Open
  <1>10. HandSound'
    BY <1>1, <1>2, <1>3, <1>4, <1>5, <1>6 DEF IInv, TypeOK, HandSound, Points, Draining, InHand, MayRun, Terminal, Open
  <1>11. OwnerDrains'
    BY <1>1, <1>2, <1>3, <1>4, <1>5, <1>6 DEF IInv, TypeOK, OwnerDrains, Points, Draining, InHand, MayRun, Terminal, Open
  <1>12. CompletedIsLeft'
    BY <1>1, <1>2, <1>3, <1>4, <1>5, <1>6 DEF IInv, TypeOK, CompletedIsLeft, Points, Draining, InHand, MayRun, Terminal, Open
  <1>13. NothingLeft'
    <2> SUFFICES ASSUME ~stolen, fails' = 0
                 PROVE  NothingLeft'
      BY <1>1 DEF NothingLeft
    <2>1. row' = k /\ Done(k, index[w] + 1) /\ index'[w] = index[w] + 1 /\ pc'[w] = "loop"
      BY <1>1, <1>2, <1>3, <1>4, <1>5, <1>6 DEF IInv, TypeOK, NothingLeft
    <2>2. k.status # "completed"
      BY <1>1, <1>2, <1>3, <1>4, <1>5, <1>6 DEF IInv, CompletedIsLeft
    <2>3. \A v \in Replicas \ {w} : pc'[v] = pc[v] /\ pc[v] \notin Draining
      BY <1>1, <1>2, <1>3, <1>4, <1>5, <1>6 DEF IInv, TypeOK
    <2> QED
      BY <2>1, <2>2, <2>3 DEF NothingLeft, Draining, Points
  <1>14. EndInHand'
    BY <1>1, <1>2, <1>3, <1>4, <1>5, <1>6 DEF IInv, TypeOK, EndInHand, Points, Draining, InHand, MayRun, Terminal, Open
  <1>15. CancelLeft'
    BY <1>1, <1>2, <1>3, <1>4, <1>5, <1>6 DEF IInv, TypeOK, CancelLeft, Points, Draining, InHand, MayRun, Terminal, Open
  <1> QED
    BY <1>7, <1>8, <1>9, <1>10, <1>11, <1>12, <1>13, <1>14, <1>15 DEF IInv

\* The last read of the row.
LEMMA EndKeeps ==
  ASSUME IInv, NEW w \in Replicas, End(w)
  PROVE  IInv'
  <1>1. /\ pc[w] = "end" /\ MayRun(w)
        /\ pc' = [pc EXCEPT ![w] = "settle"]
        /\ job' = [job EXCEPT ![w] = row]
        /\ UNCHANGED <<row, by, stale, up, index, asked, hand, stolen, raced, crashes, fails>>
    BY DEF End, Goto
  <1>2. TypeOK'
    BY <1>1 DEF IInv, TypeOK, Points, Draining, InHand, MayRun, Terminal, Open, CopiesSound, Sound, Honest, OwnerDrains
  <1>3. CopiesSound'
    BY <1>1 DEF IInv, TypeOK, CopiesSound, MayRun, Terminal, Open, CopiesSound, Sound, Honest, OwnerDrains
  <1>4. TasksSound'
    BY <1>1 DEF IInv, TypeOK, TasksSound, Points, Draining, InHand, MayRun, Terminal, Open, CopiesSound, Sound, Honest, OwnerDrains
  <1>5. HandSound'
    BY <1>1 DEF IInv, TypeOK, HandSound, Points, Draining, InHand, MayRun, Terminal, Open, CopiesSound, Sound, Honest, OwnerDrains
  <1>6. OwnerDrains'
    BY <1>1 DEF IInv, TypeOK, OwnerDrains, Points, Draining, InHand, MayRun, Terminal, Open, CopiesSound, Sound, Honest, OwnerDrains
  <1>7. CompletedIsLeft'
    BY <1>1 DEF IInv, TypeOK, CompletedIsLeft, Points, Draining, InHand, MayRun, Terminal, Open, CopiesSound, Sound, Honest, OwnerDrains
  <1>8. NothingLeft'
    BY <1>1 DEF IInv, TypeOK, NothingLeft, Points, Draining, InHand, MayRun, Terminal, Open, CopiesSound, Sound, Honest, OwnerDrains
  <1>9. EndInHand'
    BY <1>1 DEF IInv, TypeOK, EndInHand, Points, Draining, InHand, MayRun, Terminal, Open, CopiesSound, Sound, Honest, OwnerDrains
  <1>10. CancelLeft'
    BY <1>1 DEF IInv, TypeOK, CancelLeft, Points, Draining, InHand, MayRun, Terminal, Open, CopiesSound, Sound, Honest, OwnerDrains
  <1> QED
    BY <1>2, <1>3, <1>4, <1>5, <1>6, <1>7, <1>8, <1>9, <1>10 DEF IInv

\* The end is written.
LEMMA SettleKeeps ==
  ASSUME IInv, NEW w \in Replicas, Settle(w)
  PROVE  IInv'
  <1>1. /\ pc[w] = "settle" /\ MayRun(w)
        /\ pc' = [pc EXCEPT ![w] = "none"]
        /\ job' = [job EXCEPT ![w] = NewJob]
        /\ index' = [index EXCEPT ![w] = 1]
        /\ by' = IF by = w THEN Nobody ELSE by
        /\ stale' = IF by = w THEN FALSE ELSE stale
        /\ UNCHANGED <<up, asked, hand, stolen, raced, crashes>>
    BY DEF Settle, Goto, Forget, release_claim, claim
  <1> PICK k \in Job : /\ k = Settled(job[w]) /\ Sound(k) /\ Persist(k)
                       /\ job[w].cancel => k.status = "cancelled"
                       /\ k.status = "completed" => Pending(k) = Pending(job[w]) /\ ~job[w].cancel
                       /\ k.status \in {"completed", "cancelled"}
                       /\ job[w].status = "cancelled" => k = job[w]
    BY SettledSound DEF Settle, IInv, TypeOK, CopiesSound
  <1>2. row' \in {row, k} /\ fails' \in Nat /\ (fails' = 0 => fails = 0 /\ row' = k)
    BY PersistIs DEF IInv, TypeOK
  <1>3. /\ k.status = "cancelled" => k.cancel /\ Pending(k) = {}
        /\ NewJob \in Job /\ Sound(NewJob)
    BY NewJobSound DEF Sound, Honest
  <1>4. ~stolen => \A v \in Replicas \ {w} : pc[v] \notin Draining
    BY <1>1, OneDrainer DEF IInv, Draining, Points
  <1>5. 1 \in 1..(N + 1)
    BY DEF FleetAssumption
  <1>6. TypeOK'
    BY <1>1, <1>2, <1>3, <1>4, <1>5 DEF IInv, TypeOK, Points, Draining, InHand, MayRun, Terminal, Open, Ready
  <1>7. CopiesSound'
    BY <1>1, <1>2, <1>3, <1>4, <1>5 DEF IInv, TypeOK, CopiesSound, MayRun, Terminal, Open, Ready
  <1>8. TasksSound'
    BY <1>1, <1>2, <1>3, <1>4, <1>5 DEF IInv, TypeOK, TasksSound, Points, Draining, InHand, MayRun, Terminal, Open, Ready
  <1>9. HandSound'
    BY <1>1, <1>2, <1>3, <1>4, <1>5 DEF IInv, TypeOK, HandSound, Points, Draining, InHand, MayRun, Terminal, Open, Ready
  <1>10. OwnerDrains'
    BY <1>1, <1>2, <1>3, <1>4, <1>5 DEF IInv, TypeOK, OwnerDrains, Points, Draining, InHand, MayRun, Terminal, Open, Ready
  <1>11. CompletedIsLeft'
    BY <1>1, <1>2, <1>3, <1>4, <1>5 DEF IInv, TypeOK, CompletedIsLeft, Points, Draining, InHand, MayRun, Terminal, Open, Ready
  <1>12. NothingLeft'
    BY <1>1, <1>2, <1>3, <1>4, <1>5 DEF IInv, TypeOK, NothingLeft, Points, Draining, InHand, MayRun, Terminal, Open, Ready
  <1>13. EndInHand'
    BY <1>1, <1>2, <1>3, <1>4, <1>5 DEF IInv, TypeOK, EndInHand, Points, Draining, InHand, MayRun, Terminal, Open, Ready
  <1>14. CancelLeft'
    BY <1>1, <1>2, <1>3, <1>4, <1>5 DEF IInv, TypeOK, CancelLeft, Points, Draining, InHand, MayRun, Terminal, Open, Ready
  <1> QED
    BY <1>6, <1>7, <1>8, <1>9, <1>10, <1>11, <1>12, <1>13, <1>14 DEF IInv

\* A cancel reads the row.
LEMMA CancelReadsKeeps ==
  ASSUME IInv, NEW w \in Replicas, CancelReads(w)
  PROVE  IInv'
  <1>1. /\ w \in up /\ asked = "no" /\ row.status \notin Terminal
        /\ pc[w] \in {"none", "queued", "idle", "exec"}
        /\ asked' = "asking"
        /\ hand' = [at |-> w, seen |-> row, job |-> Cancelled(w)]
        /\ UNCHANGED <<row, by, stale, up, pc, job, index, stolen, raced, crashes, fails>>
    BY DEF CancelReads, MayCancel
  <1> PICK k \in Job : /\ k = Cancelled(w) /\ Sound(k) /\ k.cancel
                       /\ k.status = IF row.status = "validating" \/ ~Running(w)
                                     THEN "cancelled" ELSE "cancelling"
    BY CancelledSound DEF IInv, TypeOK, CopiesSound
  <1>2. hand'.at = w /\ hand'.seen = row /\ hand'.job = k
    BY <1>1
  <1>3. TypeOK'
    BY <1>1, <1>2 DEF IInv, TypeOK, Points, Draining, InHand, Running
  <1>4. CopiesSound'
    BY <1>1, <1>2 DEF IInv, TypeOK, CopiesSound, Running
  <1>5. TasksSound'
    BY <1>1, <1>2 DEF IInv, TypeOK, TasksSound, Points, Draining, InHand, Running
  <1>6. HandSound'
    BY <1>1, <1>2 DEF IInv, TypeOK, HandSound, Points, Draining, InHand, Running
  <1>7. OwnerDrains'
    BY <1>1, <1>2 DEF IInv, TypeOK, OwnerDrains, Points, Draining, InHand, Running
  <1>8. CompletedIsLeft'
    BY <1>1, <1>2 DEF IInv, TypeOK, CompletedIsLeft, Points, Draining, InHand, Running
  <1>9. NothingLeft'
    BY <1>1, <1>2 DEF IInv, TypeOK, NothingLeft, Points, Draining, InHand, Running
  <1>10. EndInHand'
    BY <1>1, <1>2 DEF IInv, TypeOK, EndInHand, Points, Draining, InHand, Running
  <1>11. CancelLeft'
    BY <1>1, <1>2 DEF IInv, TypeOK, CancelLeft, Points, Draining, InHand, Running
  <1> QED
    BY <1>3, <1>4, <1>5, <1>6, <1>7, <1>8, <1>9, <1>10, <1>11 DEF IInv

\* A cancel writes the row.
LEMMA CancelWritesKeeps ==
  ASSUME IInv, CancelWrites
  PROVE  IInv'
  <1>1. /\ asked = "asking" /\ asked' = "done"
        /\ hand' = NoHand(hand.at)
        /\ raced' = (hand.seen # row \/ \E w \in Replicas : pc[w] \in InHand)
        /\ UNCHANGED <<by, stale, up, pc, job, index, stolen, crashes>>
    BY DEF CancelWrites
  <1>2. hand'.at = hand.at /\ hand'.seen = NewJob /\ hand'.job = NewJob
    BY <1>1 DEF NoHand
  <1> PICK k \in Job : /\ k = hand.job /\ Sound(k) /\ Persist(k) /\ k.cancel
                       /\ \/ k.status = "cancelled" /\ pc[hand.at] \in {"none", "queued", "idle", "exec"}
                          \/ k.status = "cancelling" /\ pc[hand.at] \in {"idle", "exec"}
    BY <1>1 DEF CancelWrites, IInv, TypeOK, CopiesSound, HandSound
  <1>3. row' \in {row, k} /\ fails' \in Nat /\ (fails' = 0 => fails = 0 /\ row' = k)
    BY PersistIs DEF IInv, TypeOK
  <1>4. k.status = "cancelled" => Pending(k) = {}
    BY DEF Sound, Honest
  <1>5. hand.at \in Replicas /\ NewJob \in Job /\ Sound(NewJob) /\ hand.seen.status \notin Terminal
    BY <1>1, NewJobSound DEF IInv, TypeOK, HandSound
  <1>6. ~stolen /\ k.status = "cancelling" =>
          \A v \in Replicas \ {hand.at} : pc[v] \notin Draining
    BY <1>5, OneDrainer DEF IInv, Draining, Points
  <1>7. TypeOK'
    <2>1. hand' \in [at : Replicas, seen : Job, job : Job]
      BY <1>1, <1>5 DEF NoHand
    <2>2. raced' \in BOOLEAN
      BY <1>1
    <2> QED
      BY <1>1, <1>3, <2>1, <2>2 DEF IInv, TypeOK
  <1>8. CopiesSound'
    BY <1>1, <1>2, <1>3, <1>4, <1>5, <1>6 DEF IInv, TypeOK, CopiesSound, Terminal, Open, Ready
  <1>9. TasksSound'
    BY <1>1, <1>2, <1>3, <1>4, <1>5, <1>6 DEF IInv, TypeOK, TasksSound, Points, Draining, InHand, Terminal, Open, Ready
  <1>10. HandSound'
    BY <1>1, <1>2, <1>3, <1>4, <1>5, <1>6 DEF IInv, TypeOK, HandSound, Points, Draining, InHand, Terminal, Open, Ready
  <1>11. OwnerDrains'
    BY <1>1, <1>2, <1>3, <1>4, <1>5, <1>6 DEF IInv, TypeOK, OwnerDrains, Points, Draining, InHand, Terminal, Open, Ready
  <1>12. CompletedIsLeft'
    BY <1>1, <1>2, <1>3, <1>4, <1>5, <1>6 DEF IInv, TypeOK, CompletedIsLeft, Points, Draining, InHand, Terminal, Open, Ready
  <1>13. NothingLeft'
    <2> SUFFICES ASSUME ~stolen, fails' = 0
                 PROVE  NothingLeft'
      BY <1>1 DEF NothingLeft
    <2>1. row' = k /\ fails = 0 /\ k.status # "completed" /\ Ready(row')
      BY <1>3 DEF Ready
    <2>2. ASSUME NEW v \in Replicas, pc[v] = "loop"
          PROVE  Done(row', index[v])
      <3>1. v # hand.at \/ pc[hand.at] = "loop"
        BY <2>2
      <3>2. k.status = "cancelled"
        BY <1>6, <2>2, <3>1 DEF Draining, Points
      <3> QED
        BY <1>4, <2>1, <3>2 DEF Done, Pending
    <2>3. \A v \in Replicas :
            /\ pc[v] \in {"idle", "exec"} => Done(job[v], index[v])
            /\ pc[v] = "settle" => Ready(job[v])
      BY <2>1 DEF IInv, NothingLeft
    <2> QED
      BY <1>1, <2>1, <2>2, <2>3 DEF NothingLeft
  <1>14. EndInHand'
    BY <1>1, <1>2, <1>3, <1>4, <1>5, <1>6 DEF IInv, TypeOK, EndInHand, Points, Draining, InHand, Terminal, Open, Ready
  <1>15. CancelLeft'
    BY <1>1, <1>2, <1>3, <1>4, <1>5, <1>6 DEF IInv, TypeOK, CancelLeft, Points, Draining, InHand, Terminal, Open, Ready
  <1> QED
    BY <1>7, <1>8, <1>9, <1>10, <1>11, <1>12, <1>13, <1>14, <1>15 DEF IInv

\* A claim grows old.
LEMMA AgeKeeps ==
  ASSUME IInv, Age
  PROVE  IInv'
  <1>1. /\ stale' = TRUE
        /\ UNCHANGED <<row, by, up, pc, job, index, asked, hand, stolen, raced, crashes, fails>>
    BY DEF Age
  <1>2. TypeOK'
    BY <1>1 DEF IInv, TypeOK, Points, Draining, InHand
  <1>3. CopiesSound'
    BY <1>1 DEF IInv, TypeOK, CopiesSound
  <1>4. TasksSound'
    BY <1>1 DEF IInv, TypeOK, TasksSound, Points, Draining, InHand
  <1>5. HandSound'
    BY <1>1 DEF IInv, TypeOK, HandSound, Points, Draining, InHand
  <1>6. OwnerDrains'
    BY <1>1 DEF IInv, TypeOK, OwnerDrains, Points, Draining, InHand
  <1>7. CompletedIsLeft'
    BY <1>1 DEF IInv, TypeOK, CompletedIsLeft, Points, Draining, InHand
  <1>8. NothingLeft'
    BY <1>1 DEF IInv, TypeOK, NothingLeft, Points, Draining, InHand
  <1>9. EndInHand'
    BY <1>1 DEF IInv, TypeOK, EndInHand, Points, Draining, InHand
  <1>10. CancelLeft'
    BY <1>1 DEF IInv, TypeOK, CancelLeft, Points, Draining, InHand
  <1> QED
    BY <1>2, <1>3, <1>4, <1>5, <1>6, <1>7, <1>8, <1>9, <1>10 DEF IInv

\* A replica dies.
LEMMA CrashKeeps ==
  ASSUME IInv, NEW w \in Replicas, Crash(w)
  PROVE  IInv'
  <1>1. /\ up' = up \ {w}
        /\ pc' = [pc EXCEPT ![w] = "none"]
        /\ by' = IF by = w THEN Ghost ELSE by
        /\ job' = [job EXCEPT ![w] = NewJob]
        /\ index' = [index EXCEPT ![w] = 1]
        /\ crashes' = crashes + 1
        /\ UNCHANGED <<row, stale, stolen, raced, fails>>
    BY DEF Crash, Goto, Forget
  <1>2. \/ asked = "asking" /\ hand.at = w /\ asked' = "done" /\ hand' = NoHand(w)
        \/ ~(asked = "asking" /\ hand.at = w) /\ UNCHANGED <<asked, hand>>
    BY DEF Crash
  <1>3. NewJob \in Job /\ Sound(NewJob) /\ 1 \in 1..(N + 1)
    BY NewJobSound DEF FleetAssumption
  <1>4. crashes' # 0 /\ crashes' \in Nat
    BY <1>1 DEF IInv, TypeOK
  <1>5. TypeOK'
    BY <1>1, <1>2, <1>3, <1>4 DEF IInv, TypeOK, Points, Draining, InHand, NoHand
  <1>6. CopiesSound'
    BY <1>1, <1>2, <1>3, <1>4 DEF IInv, TypeOK, CopiesSound, NoHand
  <1>7. TasksSound'
    BY <1>1, <1>2, <1>3, <1>4 DEF IInv, TypeOK, TasksSound, Points, Draining, InHand, NoHand
  <1>8. HandSound'
    BY <1>1, <1>2, <1>3, <1>4 DEF IInv, TypeOK, HandSound, Points, Draining, InHand, NoHand
  <1>9. OwnerDrains'
    BY <1>1, <1>2, <1>3, <1>4 DEF IInv, TypeOK, OwnerDrains, Points, Draining, InHand, NoHand
  <1>10. CompletedIsLeft'
    BY <1>1, <1>2, <1>3, <1>4 DEF IInv, TypeOK, CompletedIsLeft, Points, Draining, InHand, NoHand
  <1>11. NothingLeft'
    BY <1>1, <1>2, <1>3, <1>4 DEF IInv, TypeOK, NothingLeft, Points, Draining, InHand, NoHand
  <1>12. EndInHand'
    BY <1>1, <1>2, <1>3, <1>4 DEF IInv, TypeOK, EndInHand, Points, Draining, InHand, NoHand
  <1>13. CancelLeft'
    BY <1>1, <1>2, <1>3, <1>4 DEF IInv, TypeOK, CancelLeft, Points, Draining, InHand, NoHand
  <1> QED
    BY <1>5, <1>6, <1>7, <1>8, <1>9, <1>10, <1>11, <1>12, <1>13 DEF IInv

-----------------------------------------------------------------------------
LEMMA InitInv == Init => IInv
  <1> SUFFICES ASSUME Init
               PROVE  IInv
    OBVIOUS
  <1>1. NewJob \in Job /\ Sound(NewJob) /\ NewJob.status = "validating"
    BY NewJobSound DEF NewJob
  <1> PICK c \in Replicas : /\ up = {c} /\ hand = NoHand(c)
                            /\ pc = [w \in Replicas |-> IF w = c THEN "queued" ELSE "none"]
    BY DEF Init
  <1>2. hand \in [at : Replicas, seen : Job, job : Job] /\ hand.job = NewJob
    BY <1>1 DEF NoHand
  <1>3. 1 \in 1..(N + 1)
    BY DEF FleetAssumption
  <1>4. TypeOK
    BY <1>1, <1>2, <1>3 DEF Init, TypeOK, Points
  <1>5. CopiesSound /\ TasksSound
    BY <1>1, <1>2 DEF Init, CopiesSound, TasksSound
  <1>6. HandSound /\ OwnerDrains /\ CompletedIsLeft
    BY <1>1 DEF Init, HandSound, OwnerDrains, CompletedIsLeft, Draining, Points
  <1>7. NothingLeft /\ EndInHand /\ CancelLeft
    BY <1>1 DEF Init, NothingLeft, EndInHand, CancelLeft, Terminal, InHand
  <1> QED
    BY <1>4, <1>5, <1>6, <1>7 DEF IInv

LEMMA NextInv == IInv /\ [Next]_vars => IInv'
  <1> SUFFICES ASSUME IInv, [Next]_vars
               PROVE  IInv'
    OBVIOUS
  <1>1. ASSUME NEW w \in Replicas, Work(w)
        PROVE  IInv'
    BY <1>1, ClaimKeeps, BeginKeeps, StartKeeps, LoopKeeps, ExecuteKeeps, FinishKeeps,
       EndKeeps, SettleKeeps DEF Work
  <1>2. ASSUME NEW w \in Replicas, Boot(w) \/ Crash(w) \/ CancelReads(w)
        PROVE  IInv'
    BY <1>2, BootKeeps, CrashKeeps, CancelReadsKeeps
  <1>3. CASE CancelWrites \/ Age
    BY <1>3, CancelWritesKeeps, AgeKeeps
  <1>4. CASE UNCHANGED vars
    BY <1>4 DEF vars, IInv, TypeOK, CopiesSound, TasksSound, HandSound, OwnerDrains,
                CompletedIsLeft, NothingLeft, EndInHand, CancelLeft
  <1> QED
    BY <1>1, <1>2, <1>3, <1>4 DEF Next

\* The inductive invariant.
THEOREM Invariance == Spec => []IInv
  BY InitInv, NextInv, PTL DEF Spec

\* Every reachable state of the job, its claim and its workers is well typed.
THEOREM TypeCorrect == Spec => []TypeOK
  <1>1. IInv => TypeOK
    BY DEF IInv
  <1> QED
    BY <1>1, Invariance, PTL

\* "Only one replica drains a given batch at a time": of any number of replicas
\* with any crashes, until a claim runs out under a worker that still waits.
THEOREM OneReplicaDrains == Spec => []SoleDrainer
  <1>1. IInv => SoleDrainer
    BY DEF IInv, OwnerDrains, SoleDrainer
  <1> QED
    BY <1>1, Invariance, PTL

\* One line for each stored answer, whoever wrote the row last; and unless a
\* claim or a write was lost, a completed job has no item left.
THEOREM AnswersAreExact == Spec => []AnswersExact
  <1>1. IInv => AnswersExact
    <2> SUFFICES ASSUME IInv
                 PROVE  AnswersExact
      OBVIOUS
    <2>1. fails \in Nat
      BY DEF IInv, TypeOK
    <2> QED
      BY <2>1 DEF IInv, AnswersExact, CopiesSound, Sound, Exact, NothingLeft
  <1> QED
    BY <1>1, Invariance, PTL

\* A cancel that met no worker with a copy in hand stays.
THEOREM CancelStays == Spec => []CancelSticks
  <1>1. IInv => CancelSticks
    BY DEF IInv, CancelLeft, CancelSticks
  <1> QED
    BY <1>1, Invariance, PTL

\* run_job and cancel never change an ended job, unless a claim was lost or a
\* cancel came while a worker had the job in hand.
THEOREM EndStays == Spec => EndIsFinal
  <1> DEFINE Kept == row.status \in Terminal => row' = row \/ stolen \/ raced'
  <1>1. ASSUME IInv, [Next]_vars
        PROVE  Kept
    <2> SUFFICES ASSUME row.status \in Terminal, row' # row, ~stolen, ~raced'
                 PROVE  FALSE
      OBVIOUS
    <2>1. ~raced
      <3>1. CASE CancelWrites
        BY <1>1, <3>1 DEF CancelWrites, IInv, HandSound
      <3>2. CASE ~CancelWrites
        BY <1>1, <3>2 DEF Next, Work, Claim, Begin, Start, Loop, Execute, Finish, End, Settle,
                     Boot, Crash, CancelReads, Age, vars
      <3> QED
        BY <3>1, <3>2
    <2>2. \A w \in Replicas : pc[w] \in InHand => pc[w] = "settle" /\ job[w] = row
      BY <1>1, <2>1 DEF IInv, EndInHand
    <2>3. CancelWrites \/ \E w \in Replicas : Start(w) \/ Finish(w) \/ Settle(w)
      BY <1>1 DEF Next, Work, Claim, Begin, Loop, Execute, End, Boot, Crash, CancelReads, Age, vars
    <2>4. ~CancelWrites
      BY <1>1, <2>2 DEF CancelWrites, IInv, HandSound
    <2>5. \A w \in Replicas : ~Start(w) /\ ~Finish(w)
      BY <2>2 DEF Start, Finish, InHand
    <2>6. ASSUME NEW w \in Replicas, Settle(w)
          PROVE  FALSE
      <3>1. job[w] = row /\ Persist(Settled(row))
        BY <2>2, <2>6 DEF Settle, InHand
      <3>2. row' = Settled(row)
        BY <3>1 DEF Persist
      <3>3. row \in Job /\ Sound(row)
        BY <1>1 DEF IInv, TypeOK, CopiesSound
      <3>4. row.status # "completed"
        BY <1>1, <2>6 DEF IInv, CompletedIsLeft, Settle, Draining, Points
      <3> QED
        BY <3>2, <3>3, <3>4, SettledSound DEF Terminal
    <2> QED
      BY <2>3, <2>4, <2>5, <2>6
  <1> QED
    BY <1>1, Invariance, PTL DEF Spec, EndIsFinal, Kept

=============================================================================
