-------------------------- MODULE BatchStoreProofs --------------------------
(***************************************************************************)
(* Proofs about BatchStore for any set of jobs, any number of items and    *)
(* any bound on crashes, SQLite errors and erasures.                       *)
(***************************************************************************)
EXTENDS BatchStore, WellFoundedInduction, TLAPS

-----------------------------------------------------------------------------
\* The helpers on jobs keep the type of a job.
LEMMA JobTypes ==
    ASSUME NEW job \in Job
    PROVE  /\ _mark_remaining_skipped(job) \in Job
           /\ Expired(job) \in Job
           /\ Cancelled(job) \in Job
           /\ \A ok \in BOOLEAN : NewJob(ok) \in Job
BY DEF Job, Status, Terminal, ItemState, _mark_remaining_skipped, Expired, Cancelled, NewJob

\* The first pending item exists and is an item.
LEMMA NextItemPending ==
    ASSUME BatchAssumption, NEW job, Pending(job) # {}
    PROVE  NextItem(job) \in Pending(job) /\ NextItem(job) \in Items
<1>1. Pending(job) \in SUBSET Nat
  BY DEF Pending, Items
<1>2. \E i \in Pending(job) : \A k \in Pending(job) : i <= k
  <2> DEFINE less == OpToRel(<, Nat)
  <2>1. IsWellFoundedOn(less, Nat)
    BY NatLessThanWellFounded
  <2> HIDE DEF less
  <2>2. PICK i \in Pending(job) : \A k \in Pending(job) : <<k, i>> \notin less
    BY <1>1, <2>1, WFMin
  <2>3. \A k \in Pending(job) : ~(k < i)
    BY <1>1, <2>2 DEF less, OpToRel
  <2> QED BY <1>1, <2>2, <2>3
<1> QED BY <1>2 DEF NextItem, Pending

\* A row stays behind when the object in memory moves further ahead.
LEMMA RowBehindTransitive ==
    ASSUME NEW a \in Job, NEW b \in Job, NEW c \in Job, RowBehind(a, b), RowBehind(b, c)
    PROVE  RowBehind(a, c)
<1> DEFINE st(x) == Lifecycle!Stage(x.status)
<1>1. st(a) \in Nat /\ st(b) \in Nat /\ st(c) \in Nat
  BY DEF Lifecycle!Stage, Job, Status, Terminal
<1> QED BY <1>1 DEF RowBehind

LEMMA RowBehindReflexive ==
    ASSUME NEW a \in Job
    PROVE  RowBehind(a, a)
<1>1. Lifecycle!Stage(a.status) \in Nat
  BY DEF Lifecycle!Stage, Job, Status, Terminal
<1> QED BY <1>1 DEF RowBehind

\* Expiring, cancelling, starting and skipping an open job keep a sound copy
\* sound, and move it forward.
LEMMA SkipSound ==
    ASSUME NEW job \in Job, SoundCopy(job), job.status \notin Terminal
    PROVE  /\ SoundCopy(Expired(job)) /\ RowBehind(job, Expired(job))
           /\ SoundCopy(Cancelled(job)) /\ RowBehind(job, Cancelled(job))
<1> USE DEF Job, Status, Terminal, ItemState, _mark_remaining_skipped, Lifecycle!Stage
<1>1. SoundCopy(Expired(job)) /\ SoundCopy(Cancelled(job))
  BY DEF SoundCopy, Expired, Cancelled
<1>2. RowBehind(job, Expired(job)) /\ RowBehind(job, Cancelled(job))
  BY DEF RowBehind, Expired, Cancelled
<1> QED BY <1>1, <1>2

\* Skipping what is left of a job that was asked to stop does too.
LEMMA SkipOnlySound ==
    ASSUME NEW job \in Job, SoundCopy(job), job.status \in {"cancelling", "expired"},
           NEW new, new = _mark_remaining_skipped(job)
    PROVE  /\ new \in Job /\ SoundCopy(new) /\ RowBehind(job, new)
           /\ new.status = job.status
<1>1. /\ new \in Job /\ new.status = job.status /\ new.cancel = job.cancel
      /\ new.lines = job.lines
      /\ \A i \in Items : new.items[i] = IF job.items[i] = "pending" THEN "skipped" ELSE job.items[i]
  BY DEF _mark_remaining_skipped, Job, ItemState
<1>2. SoundCopy(new)
  BY <1>1 DEF SoundCopy
<1>3. Lifecycle!Stage(job.status) \in Nat
  BY DEF Lifecycle!Stage
<1> QED BY <1>1, <1>2, <1>3 DEF RowBehind

\* So do asking a running job to stop, and starting a job that is waiting.
LEMMA CancellingSound ==
    ASSUME NEW job \in Job, SoundCopy(job), job.status \notin Terminal,
           NEW new, new = [job EXCEPT !.status = "cancelling", !.cancel = TRUE]
    PROVE  new \in Job /\ SoundCopy(new) /\ RowBehind(job, new)
<1>1. /\ new \in Job
      /\ new.status = "cancelling" /\ new.cancel
      /\ new.items = job.items /\ new.lines = job.lines
  BY DEF Job, Status
<1>2. SoundCopy(new)
  BY <1>1 DEF SoundCopy
<1>3. Lifecycle!Stage(job.status) <= Lifecycle!Stage(new.status)
  BY <1>1 DEF Lifecycle!Stage, Job, Status, Terminal
<1> QED BY <1>1, <1>2, <1>3 DEF RowBehind

LEMMA StartedSound ==
    ASSUME NEW job \in Job, SoundCopy(job), job.status \in {"validating", "in_progress"},
           NEW new, new = [job EXCEPT !.status = "in_progress"]
    PROVE  new \in Job /\ SoundCopy(new) /\ RowBehind(job, new)
<1>1. /\ new \in Job
      /\ new.status = "in_progress" /\ new.cancel = job.cancel
      /\ new.items = job.items /\ new.lines = job.lines
  BY DEF Job, Status
<1>2. SoundCopy(new)
  BY <1>1 DEF SoundCopy
<1>3. Lifecycle!Stage(job.status) <= Lifecycle!Stage(new.status)
  BY <1>1 DEF Lifecycle!Stage
<1> QED BY <1>1, <1>2, <1>3 DEF RowBehind, Terminal

-----------------------------------------------------------------------------
\* What holds of one job in a state that satisfies the invariant.
JobInv(j) ==
    /\ j \notin created => mem[j] = NoJob /\ db[j] = NoJob
    /\ \A job \in Copies(j) : SoundCopy(job)
    /\ TaskSound(j)
    /\ mem[j] # NoJob /\ db[j] # NoJob => RowBehind(db[j], mem[j])

\* Save, whether or not SQLite takes the write, keeps copies sound and the row
\* behind the object, provided the new object is sound and ahead of the old.
LEMMA SaveSound ==
    ASSUME TypeOK, BatchAssumption, NEW j \in Jobs, NEW new \in Job, Save(j, new),
           \A k \in Jobs : JobInv(k),
           SoundCopy(new),
           mem[j] # NoJob => RowBehind(mem[j], new),
           mem[j] = NoJob => db[j] = NoJob
    PROVE  /\ mem' \in [Jobs -> Job \cup {NoJob}]
           /\ db' \in [Jobs -> Job \cup {NoJob}]
           /\ fails' \in 0..MaxFails
           /\ mem' = [mem EXCEPT ![j] = new]
           /\ \A k \in Jobs \ {j} : db'[k] = db[k]
           /\ \/ db' = db
              \/ db' = [db EXCEPT ![j] = new] /\ (db[j] # NoJob => RowBehind(db[j], new))
           /\ \A k \in Jobs : \A job \in {mem'[k], db'[k]} \ {NoJob} : SoundCopy(job)
           /\ \A k \in Jobs : mem'[k] # NoJob /\ db'[k] # NoJob => RowBehind(db'[k], mem'[k])
<1>1. /\ mem \in [Jobs -> Job \cup {NoJob}]
      /\ db \in [Jobs -> Job \cup {NoJob}]
      /\ fails \in 0..MaxFails
  BY DEF TypeOK
<1>2. \A k \in Jobs : \A job \in {mem[k], db[k]} \ {NoJob} : SoundCopy(job)
  BY DEF JobInv, Copies
<1>3. \A k \in Jobs : mem[k] # NoJob /\ db[k] # NoJob => RowBehind(db[k], mem[k])
  BY DEF JobInv
<1>4. mem' = [mem EXCEPT ![j] = new]
  BY DEF Save
<1>5. RowBehind(new, new)
  BY RowBehindReflexive
<1>6. db[j] # NoJob => RowBehind(db[j], new)
  BY <1>1, <1>3, RowBehindTransitive
<1>7. /\ fails' \in 0..MaxFails
      /\ db' = db \/ db' = [db EXCEPT ![j] = new]
  BY <1>1, BatchAssumption DEF Save, _persist
<1>8. CASE db' = db
  BY <1>1, <1>2, <1>3, <1>4, <1>6, <1>7, <1>8
<1>9. CASE db' = [db EXCEPT ![j] = new]
  BY <1>1, <1>2, <1>3, <1>4, <1>5, <1>6, <1>7, <1>9
<1> QED BY <1>7, <1>8, <1>9

\* How a step may change the stored rows: one row at most, removed or moved on.
RowStep ==
    \/ db' = db
    \/ \E j \in Jobs, new \in Job \cup {NoJob} :
          /\ db' = [db EXCEPT ![j] = new]
          /\ db[j] # NoJob /\ new # NoJob => RowBehind(db[j], new)

Points == {"none", "queued", "loop", "sleep", "exec", "finish"}

LEMMA InvariantParts ==
    IInv <=> /\ TypeOK
             /\ mode = "down" => \A j \in Jobs : mem[j] = NoJob
             /\ \A j \in Jobs : JobInv(j)
BY DEF IInv, JobInv

\* A step that saves one job and moves its task keeps the invariant, when the
\* new object is sound, ahead of the old one and fits the task's new position.
LEMMA SaveStep ==
    ASSUME BatchAssumption, IInv, NEW j \in Jobs, NEW new \in Job, Save(j, new),
           mode # "down", mode' = mode,
           SoundCopy(new),
           mem[j] # NoJob => RowBehind(mem[j], new),
           mem[j] # NoJob \/ j \notin created,
           created' = created \cup {j},
           todo' \in SUBSET todo,
           due' = due \/ due' = {j},
           NEW p \in Points, pc' = [pc EXCEPT ![j] = p],
           TaskSound(j)',
           UNCHANGED <<cur, notified, hooks, late, erased, starts, crashes>>
    PROVE  IInv' /\ RowStep
<1>1. TypeOK /\ \A k \in Jobs : JobInv(k)
  BY InvariantParts
<1>2. mem[j] = NoJob => db[j] = NoJob
  BY <1>1 DEF JobInv
<1>3. /\ mem' \in [Jobs -> Job \cup {NoJob}]
      /\ db' \in [Jobs -> Job \cup {NoJob}]
      /\ fails' \in 0..MaxFails
      /\ mem' = [mem EXCEPT ![j] = new]
      /\ \A k \in Jobs \ {j} : db'[k] = db[k]
      /\ \/ db' = db
         \/ db' = [db EXCEPT ![j] = new] /\ (db[j] # NoJob => RowBehind(db[j], new))
      /\ \A k \in Jobs : \A job \in {mem'[k], db'[k]} \ {NoJob} : SoundCopy(job)
      /\ \A k \in Jobs : mem'[k] # NoJob /\ db'[k] # NoJob => RowBehind(db'[k], mem'[k])
  BY <1>1, <1>2, SaveSound
<1>4. new # NoJob /\ mem'[j] = new
  BY <1>1, <1>3, BatchAssumption DEF TypeOK
<1>5. \A k \in Jobs \ {j} : mem'[k] = mem[k] /\ pc'[k] = pc[k]
  BY <1>1, <1>3 DEF TypeOK
<1>6. TypeOK'
  BY <1>1, <1>3, <1>4, <1>5 DEF TypeOK, Points
<1>7. ASSUME NEW k \in Jobs
      PROVE  JobInv(k)'
  <2>1. (\A job \in Copies(k) : SoundCopy(job))'
    <3>1. \A job \in {mem'[k], db'[k]} \ {NoJob} : SoundCopy(job)'
      BY <1>3 DEF SoundCopy
    <3> QED BY <3>1 DEF Copies
  <2>2. (mem[k] # NoJob /\ db[k] # NoJob => RowBehind(db[k], mem[k]))'
    BY <1>3 DEF RowBehind
  <2>3. CASE k = j
    BY <2>1, <2>2, <2>3 DEF JobInv
  <2>4. CASE k # j
    <3>1. TaskSound(k)'
      BY <1>1, <1>5, <2>4 DEF JobInv, TaskSound, InRunning, Pending
    <3> QED BY <1>1, <1>3, <1>5, <2>1, <2>2, <2>4, <3>1 DEF JobInv
  <2> QED BY <2>3, <2>4
<1>8. RowStep
  BY <1>3 DEF RowStep
<1> QED BY <1>6, <1>7, <1>8 DEF IInv, JobInv

\* A step of a task that changes at most its own job object, in memory only.
LEMMA MemoryStep ==
    ASSUME BatchAssumption, IInv, NEW j \in Jobs, NEW new \in Job,
           mem[j] # NoJob,
           mem' = [mem EXCEPT ![j] = new],
           mode # "down",
           SoundCopy(new),
           RowBehind(mem[j], new),
           NEW p \in Points, pc' = [pc EXCEPT ![j] = p],
           cur' \in [Jobs -> Items],
           \A k \in Jobs \ {j} : cur'[k] = cur[k],
           TaskSound(j)',
           starts' \in [Jobs -> [Items -> Nat]],
           UNCHANGED <<mode, todo, db, due, notified, hooks, late, created, erased, crashes, fails>>
    PROVE  IInv'
<1>1. TypeOK /\ \A k \in Jobs : JobInv(k)
  BY InvariantParts
<1>2. new # NoJob /\ mem'[j] = new
  BY <1>1, BatchAssumption DEF TypeOK
<1>3. \A k \in Jobs \ {j} : mem'[k] = mem[k] /\ pc'[k] = pc[k]
  BY <1>1 DEF TypeOK
<1>4. TypeOK'
  <2>1. mem' \in [Jobs -> Job \cup {NoJob}] /\ pc' \in [Jobs -> Points]
    BY <1>1 DEF TypeOK, Points
  <2>2. \A k \in Jobs : pc'[k] # "none" \/ k \in todo' \cup due' => mem'[k] # NoJob
    BY <1>1, <1>2, <1>3 DEF TypeOK
  <2> QED BY <1>1, <2>1, <2>2 DEF TypeOK, Points
<1>5. JobInv(j)'
  <2>1. db[j] # NoJob => db[j] \in Job /\ RowBehind(db[j], mem[j]) /\ SoundCopy(db[j])
    BY <1>1 DEF TypeOK, JobInv, Copies
  <2>2. mem[j] \in Job
    BY <1>1 DEF TypeOK
  <2>3. db[j] # NoJob => RowBehind(db[j], new)
    BY <2>1, <2>2, RowBehindTransitive
  <2>4. (\A job \in Copies(j) : SoundCopy(job))'
    <3>1. \A job \in {mem'[j], db'[j]} \ {NoJob} : SoundCopy(job)'
      BY <1>2, <2>1 DEF SoundCopy
    <3> QED BY <3>1 DEF Copies
  <2>5. (mem[j] # NoJob /\ db[j] # NoJob => RowBehind(db[j], mem[j]))'
    BY <1>2, <2>3 DEF RowBehind
  <2>6. j \in created'
    BY <1>1 DEF JobInv
  <2> QED BY <2>4, <2>5, <2>6 DEF JobInv
<1>6. ASSUME NEW k \in Jobs \ {j} PROVE JobInv(k)'
  BY <1>1, <1>3 DEF JobInv, Copies, TaskSound, InRunning, Pending
<1> QED BY <1>4, <1>5, <1>6 DEF IInv, JobInv

\* The initial state satisfies the invariant.
LEMMA InitInvariant ==
    ASSUME BatchAssumption, Init
    PROVE  IInv
<1>1. TypeOK
  BY DEF Init, TypeOK, Items
<1>2. \A j \in Jobs : JobInv(j)
  BY DEF Init, JobInv, Copies, TaskSound, InRunning
<1> QED BY <1>1, <1>2, InvariantParts DEF Init

-----------------------------------------------------------------------------
(***************************************************************************)
(* One lemma for each action.                                              *)
(***************************************************************************)
LEMMA CreateInv ==
    ASSUME BatchAssumption, IInv, NEW j \in Jobs, NEW ok \in BOOLEAN, Create(j, ok)
    PROVE  IInv' /\ RowStep
<1>1. TypeOK /\ JobInv(j)
  BY InvariantParts
<1>2. NewJob(ok) \in Job /\ SoundCopy(NewJob(ok))
  BY DEF NewJob, SoundCopy, Job, Status, Terminal, ItemState
<1>3. mem[j] = NoJob /\ j \notin created /\ pc[j] = "none"
  BY <1>1 DEF Create, JobInv, TypeOK
<1>4. mem'[j] = NewJob(ok)
  BY <1>1 DEF Create, Save, TypeOK
<1>5. \E p \in {"queued", "none"} : pc' = [pc EXCEPT ![j] = p]
  BY <1>1, <1>3 DEF Create, TypeOK
<1>6. PICK p \in {"queued", "none"} : pc' = [pc EXCEPT ![j] = p]
  BY <1>5
<1>7. TaskSound(j)'
  BY <1>1, <1>4, <1>6 DEF TaskSound, InRunning, NewJob, TypeOK
<1>8. /\ Save(j, NewJob(ok)) /\ mode # "down" /\ mode' = mode
      /\ created' = created \cup {j} /\ todo' = todo
      /\ due' = due \/ due' = {j}
      /\ UNCHANGED <<cur, notified, hooks, late, erased, starts, crashes>>
  BY DEF Create, Serving, daemon
<1> QED BY <1>2, <1>3, <1>6, <1>7, <1>8, SaveStep DEF Points

LEMMA GetInv ==
    ASSUME BatchAssumption, IInv, NEW j \in Jobs, Get(j)
    PROVE  IInv' /\ RowStep
<1>1. TypeOK /\ JobInv(j)
  BY InvariantParts
<1> DEFINE new == Expired(mem[j])
<1>2. mem[j] \in Job /\ SoundCopy(mem[j]) /\ mem[j].status \notin Terminal /\ j \in created
  BY <1>1 DEF Get, TypeOK, MayExpire, JobInv, Copies
<1>3. new \in Job /\ SoundCopy(new) /\ RowBehind(mem[j], new)
  BY <1>2, JobTypes, SkipSound
<1>4. mem'[j] = new
  BY <1>1 DEF Get, Save, TypeOK
<1>5. TaskSound(j)'
  BY <1>1, <1>2, <1>4
  DEF Get, task, Serving, Yielded, TaskSound, JobInv, InRunning, Expired,
      _mark_remaining_skipped, TypeOK, Job
<1>6. /\ Save(j, new) /\ mode # "down" /\ mode' = mode
      /\ created' = created \cup {j} /\ todo' = todo
      /\ due' = {j} /\ pc' = [pc EXCEPT ![j] = pc[j]]
      /\ UNCHANGED <<cur, notified, hooks, late, erased, starts, crashes>>
  BY <1>1, <1>2 DEF Get, Serving, daemon, task, history, TypeOK
<1>7. pc[j] \in Points
  BY <1>1 DEF TypeOK, Points
<1> QED BY <1>2, <1>3, <1>5, <1>6, <1>7, SaveStep

LEMMA CancelInv ==
    ASSUME BatchAssumption, IInv, NEW j \in Jobs, Cancel(j)
    PROVE  IInv' /\ RowStep
<1>1. TypeOK /\ JobInv(j)
  BY InvariantParts
<1> DEFINE asked == [mem[j] EXCEPT !.status = "cancelling", !.cancel = TRUE]
           direct == mem[j].status = "validating" \/ ~InRunning(j)
           new == IF direct THEN Cancelled(mem[j]) ELSE asked
<1>2. mem[j] \in Job /\ SoundCopy(mem[j]) /\ mem[j].status \notin Terminal /\ j \in created
  BY <1>1 DEF Cancel, TypeOK, JobInv, Copies
<1>3. Cancelled(mem[j]) \in Job /\ SoundCopy(Cancelled(mem[j])) /\ RowBehind(mem[j], Cancelled(mem[j]))
  BY <1>2, JobTypes, SkipSound
<1>4. asked \in Job /\ SoundCopy(asked) /\ RowBehind(mem[j], asked)
  BY <1>2, CancellingSound
<1>5. Save(j, new) /\ mem'[j] = new
  BY <1>1 DEF Cancel, Save, TypeOK
<1>6. TaskSound(j)'
  <2>1. pc'[j] = pc[j] /\ cur'[j] = cur[j]
    BY DEF Cancel, task
  <2>2. CASE direct
    <3>1. ~InRunning(j)
      BY <1>1, <2>2 DEF JobInv, TaskSound
    <3> QED BY <1>5, <2>1, <2>2, <3>1 DEF TaskSound, InRunning, Cancelled, _mark_remaining_skipped
  <2>3. CASE ~direct
    BY <1>1, <1>2, <1>5, <2>1, <2>3 DEF TaskSound, JobInv, InRunning, Job
  <2> QED BY <2>2, <2>3
<1>7. /\ mode # "down" /\ mode' = mode
      /\ created' = created \cup {j} /\ todo' = todo
      /\ due' = due \/ due' = {j}
      /\ pc' = [pc EXCEPT ![j] = pc[j]]
      /\ UNCHANGED <<cur, notified, hooks, late, erased, starts, crashes>>
  BY <1>1, <1>2 DEF Cancel, Serving, daemon, task, history, TypeOK
<1>8. pc[j] \in Points /\ new \in Job /\ SoundCopy(new) /\ RowBehind(mem[j], new)
  BY <1>1, <1>3, <1>4 DEF TypeOK, Points
<1> QED BY <1>2, <1>5, <1>6, <1>7, <1>8, SaveStep

LEMMA NotifyInv ==
    ASSUME BatchAssumption, IInv, NEW j \in Jobs, _notify_terminal(j)
    PROVE  IInv'
<1>1. TypeOK /\ \A k \in Jobs : JobInv(k)
  BY InvariantParts
<1>2. mem[j].status \in Status
  BY <1>1 DEF _notify_terminal, TypeOK, Job
<1>3. TypeOK'
  <2>1. Append(hooks[j], mem[j].status) \in Seq(Status)
    BY <1>1, <1>2 DEF TypeOK
  <2>2. hooks' \in [Jobs -> Seq(Status)] /\ notified' \in SUBSET Jobs
    BY <1>1, <2>1 DEF _notify_terminal, TypeOK
  <2>3. UNCHANGED <<mode, todo, mem, db, pc, cur, late, created, starts, erased, crashes, fails>>
    BY DEF _notify_terminal, daemon, task, history
  <2>4. due' = {}
    BY DEF _notify_terminal
  <2> QED BY <1>1, <2>2, <2>3, <2>4 DEF TypeOK
<1>4. ASSUME NEW k \in Jobs PROVE JobInv(k)'
  BY <1>1 DEF _notify_terminal, task, history, JobInv, Copies, TaskSound, InRunning
<1> QED BY <1>3, <1>4 DEF IInv, JobInv, _notify_terminal, daemon

LEMMA StartInv ==
    ASSUME BatchAssumption, IInv, NEW j \in Jobs, Start(j)
    PROVE  IInv' /\ RowStep
<1>1. TypeOK /\ \A k \in Jobs : JobInv(k)
  BY InvariantParts
<1>2. mem[j] \in Job /\ SoundCopy(mem[j]) /\ j \in created /\ pc[j] = "queued"
  BY <1>1 DEF Start, TypeOK, JobInv, Copies
<1>3. mode # "down" /\ mode' = mode /\ todo' = todo
  BY DEF Start, Serving, daemon
<1>4. UNCHANGED <<created, cur, notified, hooks, late, erased, starts, crashes>>
  BY DEF Start, history
<1>5. CASE mem[j].status \in Terminal
  <2>1. UNCHANGED <<mem, db, due, fails>> /\ pc' = [pc EXCEPT ![j] = "none"]
    BY <1>5 DEF Start
  <2>2. TypeOK'
    BY <1>1, <1>3, <1>4, <2>1 DEF TypeOK
  <2>3. ASSUME NEW k \in Jobs PROVE JobInv(k)'
    BY <1>1, <1>4, <2>1 DEF TypeOK, JobInv, Copies, TaskSound, InRunning
  <2> QED BY <1>3, <2>1, <2>2, <2>3 DEF IInv, JobInv, RowStep
<1>6. CASE mem[j].status \notin Terminal /\ (MayExpire(j, mem[j]) \/ mem[j].cancel)
  <2> DEFINE new == IF MayExpire(j, mem[j]) THEN Expired(mem[j]) ELSE Cancelled(mem[j])
  <2>1. Save(j, new) /\ due' = {j} /\ pc' = [pc EXCEPT ![j] = "none"]
    BY <1>6 DEF Start
  <2>2. new \in Job /\ SoundCopy(new) /\ RowBehind(mem[j], new)
    BY <1>2, <1>6, JobTypes, SkipSound
  <2>3. TaskSound(j)'
    BY <1>1, <2>1 DEF TypeOK, TaskSound, InRunning
  <2>4. "none" \in Points
    BY DEF Points
  <2> HIDE DEF new
  <2> QED BY <1>2, <1>3, <1>4, <2>1, <2>2, <2>3, <2>4, SaveStep
<1>7. CASE mem[j].status \notin Terminal /\ ~(MayExpire(j, mem[j]) \/ mem[j].cancel)
  <2> DEFINE new == [mem[j] EXCEPT !.status = "in_progress"]
  <2>1. Save(j, new) /\ due' = due /\ pc' = [pc EXCEPT ![j] = "loop"]
    BY <1>7 DEF Start
  <2>2. mem[j].status \in {"validating", "in_progress"}
    BY <1>1, <1>2, <1>7 DEF JobInv, TaskSound, Job, Status
  <2>3. new \in Job /\ SoundCopy(new) /\ RowBehind(mem[j], new)
    BY <1>2, <2>2, StartedSound
  <2>4. mem'[j] = new /\ new.status = "in_progress"
    BY <1>1, <1>2, <2>1 DEF Save, TypeOK, Job
  <2>5. TaskSound(j)'
    BY <1>1, <2>1, <2>4 DEF TypeOK, TaskSound, InRunning
  <2>6. "loop" \in Points
    BY DEF Points
  <2> HIDE DEF new
  <2> QED BY <1>2, <1>3, <1>4, <2>1, <2>3, <2>5, <2>6, SaveStep
<1> QED BY <1>5, <1>6, <1>7

LEMMA ItemDoneInv ==
    ASSUME BatchAssumption, IInv, NEW j \in Jobs, NEW outcome \in {"completed", "failed"},
           ItemDone(j, outcome)
    PROVE  IInv' /\ RowStep
<1>1. TypeOK /\ JobInv(j)
  BY InvariantParts
<1> DEFINE job == mem[j]
           i == cur[j]
           new == [job EXCEPT !.items[i] = outcome, !.lines[i] = @ + 1]
<1>2. /\ job \in Job /\ SoundCopy(job) /\ j \in created /\ i \in Items
      /\ job.status \in {"in_progress", "cancelling", "expired"}
      /\ job.items[i] \notin {"completed", "failed"}
  BY <1>1 DEF ItemDone, TypeOK, JobInv, Copies, TaskSound, InRunning
<1>3. /\ new \in Job
      /\ new.status = job.status /\ new.cancel = job.cancel
      /\ new.items = [job.items EXCEPT ![i] = outcome]
      /\ new.lines = [job.lines EXCEPT ![i] = job.lines[i] + 1]
  <2>1. job.items \in [Items -> ItemState] /\ job.lines \in [Items -> Nat]
    BY <1>2 DEF Job
  <2>2. /\ [job.items EXCEPT ![i] = outcome] \in [Items -> ItemState]
        /\ [job.lines EXCEPT ![i] = job.lines[i] + 1] \in [Items -> Nat]
    BY <1>2, <2>1 DEF ItemState
  <2>3. new = [job EXCEPT !.items = [job.items EXCEPT ![i] = outcome],
                          !.lines = [job.lines EXCEPT ![i] = job.lines[i] + 1]]
    BY <1>2 DEF Job
  <2> HIDE DEF job, i, new
  <2> QED BY <1>2, <2>2, <2>3 DEF Job
<1>4. job.items \in [Items -> ItemState] /\ job.lines \in [Items -> Nat]
  BY <1>2 DEF Job
<1>5. Save(j, new) /\ pc' = [pc EXCEPT ![j] = "loop"]
  BY DEF ItemDone
<1>6. /\ mode # "down" /\ mode' = mode /\ todo' = todo /\ due' = due
      /\ created' = created \cup {j}
      /\ UNCHANGED <<cur, notified, hooks, late, erased, starts, crashes>>
  BY <1>2 DEF ItemDone, Serving, daemon, hook, history
<1> HIDE DEF new, job, i
<1>7. SoundCopy(new)
  BY <1>2, <1>3, <1>4 DEF SoundCopy
<1>8. RowBehind(job, new)
  <2>1. Lifecycle!Stage(job.status) \in Nat
    BY <1>2 DEF Lifecycle!Stage
  <2> QED BY <1>2, <1>3, <1>4, <2>1 DEF RowBehind
<1>9. TaskSound(j)'
  <2>1. mem'[j] = new
    BY <1>1, <1>5 DEF Save, TypeOK
  <2>2. pc'[j] = "loop"
    BY <1>1, <1>5 DEF TypeOK
  <2> QED BY <1>2, <1>3, <2>1, <2>2 DEF TaskSound, InRunning
<1>10. "loop" \in Points /\ mem[j] # NoJob /\ RowBehind(mem[j], new)
  BY <1>2, <1>8, BatchAssumption DEF Points, job
<1> QED BY <1>3, <1>5, <1>6, <1>7, <1>9, <1>10, SaveStep

\* Calling execute_one on an unanswered item of a job that may still run.
LEMMA ExecuteInv ==
    ASSUME BatchAssumption, IInv, NEW j \in Jobs, NEW i \in Items, Execute(j, i),
           mode # "down", InRunning(j),
           mem[j].items[i] \notin {"completed", "failed"},
           UNCHANGED <<mode, todo, mem, db, due, notified, hooks, late, created, erased, crashes, fails>>
    PROVE  IInv'
<1>1. TypeOK /\ JobInv(j)
  BY InvariantParts
<1>2. mem[j] # NoJob /\ mem[j] \in Job /\ SoundCopy(mem[j])
  BY <1>1 DEF InRunning, TypeOK, JobInv, Copies
<1>3. mem' = [mem EXCEPT ![j] = mem[j]] /\ RowBehind(mem[j], mem[j])
  BY <1>1, <1>2, RowBehindReflexive DEF TypeOK
<1>4. /\ pc' = [pc EXCEPT ![j] = "exec"]
      /\ cur' = [cur EXCEPT ![j] = i]
      /\ starts' \in [Jobs -> [Items -> Nat]]
  BY <1>1 DEF Execute, TypeOK
<1>5. cur' \in [Jobs -> Items] /\ \A k \in Jobs \ {j} : cur'[k] = cur[k]
  BY <1>1, <1>4 DEF TypeOK
<1>6. TaskSound(j)'
  BY <1>1, <1>4 DEF TypeOK, JobInv, TaskSound, InRunning
<1>7. "exec" \in Points
  BY DEF Points
<1> QED BY <1>2, <1>3, <1>4, <1>5, <1>6, <1>7, MemoryStep

\* Leaving the loop with a sound object that is done, stopped or expired.
LEMMA LeaveLoopInv ==
    ASSUME BatchAssumption, IInv, NEW j \in Jobs, NEW new \in Job,
           mode # "down", InRunning(j),
           mem' = [mem EXCEPT ![j] = new],
           SoundCopy(new), RowBehind(mem[j], new),
           new.status \in {"in_progress", "cancelling", "expired"},
           new.status = "in_progress" => Pending(new) = {},
           pc' = [pc EXCEPT ![j] = "finish"],
           UNCHANGED <<cur, starts>>,
           UNCHANGED <<mode, todo, db, due, notified, hooks, late, created, erased, crashes, fails>>
    PROVE  IInv'
<1>1. TypeOK /\ JobInv(j)
  BY InvariantParts
<1>2. mem[j] # NoJob
  BY <1>1 DEF InRunning, TypeOK
<1>3. cur' \in [Jobs -> Items] /\ starts' \in [Jobs -> [Items -> Nat]]
  BY <1>1 DEF TypeOK
<1>4. TaskSound(j)'
  <2>1. mem'[j] = new /\ pc'[j] = "finish"
    BY <1>1 DEF TypeOK
  <2> QED BY <2>1 DEF TaskSound, InRunning, Pending
<1>5. "finish" \in Points
  BY DEF Points
<1> QED BY <1>2, <1>3, <1>4, <1>5, MemoryStep

LEMMA LoopHeadInv ==
    ASSUME BatchAssumption, IInv, NEW j \in Jobs, NEW idle \in BOOLEAN, LoopHead(j, idle)
    PROVE  IInv'
<1>1. TypeOK /\ JobInv(j)
  BY InvariantParts
<1> DEFINE job == mem[j]
<1>2. pc[j] = "loop" /\ mode # "down" /\ InRunning(j)
  BY DEF LoopHead, InRunning
<1>3. /\ job \in Job /\ SoundCopy(job) /\ job # NoJob
      /\ job.status \in {"in_progress", "cancelling", "expired"}
  BY <1>1, <1>2 DEF TypeOK, JobInv, Copies, TaskSound
<1>4. UNCHANGED <<mode, todo, db, due, notified, hooks, late, created, erased, crashes, fails>>
  BY DEF LoopHead, daemon, hook
<1>5. CASE job.cancel
  <2> DEFINE new == _mark_remaining_skipped(job)
  <2>1. mem' = [mem EXCEPT ![j] = new] /\ pc' = [pc EXCEPT ![j] = "finish"] /\ UNCHANGED <<cur, starts>>
    BY <1>5 DEF LoopHead
  <2>2. job.status \in {"cancelling", "expired"}
    BY <1>3, <1>5 DEF SoundCopy
  <2>3. new \in Job /\ SoundCopy(new) /\ RowBehind(job, new) /\ new.status = job.status
    BY <1>3, <2>2, SkipOnlySound
  <2> HIDE DEF new
  <2> QED BY <1>2, <1>4, <2>1, <2>2, <2>3, LeaveLoopInv
<1>6. CASE ~job.cancel /\ MayExpire(j, job)
  <2> DEFINE new == Expired(job)
  <2>1. mem' = [mem EXCEPT ![j] = new] /\ pc' = [pc EXCEPT ![j] = "finish"] /\ UNCHANGED <<cur, starts>>
    BY <1>6 DEF LoopHead
  <2>2. job.status \notin Terminal
    BY <1>6 DEF MayExpire
  <2>3. new \in Job /\ SoundCopy(new) /\ RowBehind(job, new) /\ new.status = "expired"
    BY <1>3, <2>2, JobTypes, SkipSound DEF Expired, _mark_remaining_skipped, Job
  <2> HIDE DEF new
  <2> QED BY <1>2, <1>4, <2>1, <2>3, LeaveLoopInv
<1>7. CASE ~job.cancel /\ ~MayExpire(j, job) /\ Pending(job) = {}
  <2>1. mem' = [mem EXCEPT ![j] = job] /\ pc' = [pc EXCEPT ![j] = "finish"] /\ UNCHANGED <<cur, starts>>
    BY <1>7 DEF LoopHead
  <2>2. RowBehind(job, job)
    BY <1>3, RowBehindReflexive
  <2> QED BY <1>2, <1>3, <1>4, <1>7, <2>1, <2>2, LeaveLoopInv
<1>8. CASE ~job.cancel /\ ~MayExpire(j, job) /\ Pending(job) # {}
  <2>1. NextItem(job) \in Items /\ job.items[NextItem(job)] = "pending"
    BY <1>8, NextItemPending DEF Pending
  <2>2. CASE idle
    <3>1. Execute(j, NextItem(job)) /\ UNCHANGED mem
      BY <1>8, <2>2 DEF LoopHead
    <3> QED BY <1>2, <1>4, <2>1, <3>1, ExecuteInv
  <2>3. CASE ~idle
    <3>1. /\ pc' = [pc EXCEPT ![j] = "sleep"]
          /\ cur' = [cur EXCEPT ![j] = NextItem(job)]
          /\ starts' = starts /\ mem' = mem
      BY <1>8, <2>3 DEF LoopHead
    <3>2. mem' = [mem EXCEPT ![j] = job] /\ RowBehind(job, job)
      BY <1>1, <1>3, <3>1, RowBehindReflexive DEF TypeOK
    <3>3. /\ cur' \in [Jobs -> Items] /\ \A k \in Jobs \ {j} : cur'[k] = cur[k]
          /\ starts' \in [Jobs -> [Items -> Nat]]
      BY <1>1, <2>1, <3>1 DEF TypeOK
    <3>4. TaskSound(j)'
      <4>1. pc'[j] = "sleep" /\ cur'[j] = NextItem(job) /\ mem'[j] = job
        BY <1>1, <3>1 DEF TypeOK
      <4> QED BY <1>3, <2>1, <4>1 DEF TaskSound, InRunning
    <3>5. "sleep" \in Points
      BY DEF Points
    <3> QED BY <1>2, <1>3, <1>4, <3>1, <3>2, <3>3, <3>4, <3>5, MemoryStep
  <2> QED BY <2>2, <2>3
<1> QED BY <1>5, <1>6, <1>7, <1>8

LEMMA WaitInv ==
    ASSUME BatchAssumption, IInv, NEW j \in Jobs, _wait_for_idle(j)
    PROVE  IInv'
<1>1. TypeOK /\ JobInv(j)
  BY InvariantParts
<1> DEFINE job == mem[j]
<1>2. pc[j] = "sleep" /\ mode # "down" /\ InRunning(j)
  BY DEF _wait_for_idle, Serving, InRunning
<1>3. /\ job \in Job /\ SoundCopy(job) /\ job # NoJob /\ cur[j] \in Items
      /\ job.status \in {"in_progress", "cancelling", "expired"}
      /\ job.items[cur[j]] \notin {"completed", "failed"}
  BY <1>1, <1>2 DEF TypeOK, JobInv, Copies, TaskSound
<1>4. UNCHANGED <<mode, todo, db, due, notified, hooks, late, created, erased, crashes, fails>>
  BY DEF _wait_for_idle, daemon, hook
<1>5. CASE job.cancel
  <2>1. mem' = [mem EXCEPT ![j] = job] /\ pc' = [pc EXCEPT ![j] = "finish"] /\ UNCHANGED <<cur, starts>>
    BY <1>5 DEF _wait_for_idle
  <2>2. RowBehind(job, job)
    BY <1>3, RowBehindReflexive
  <2>3. job.status # "in_progress"
    BY <1>3, <1>5 DEF SoundCopy
  <2> QED BY <1>2, <1>3, <1>4, <2>1, <2>2, <2>3, LeaveLoopInv
<1>6. CASE ~job.cancel /\ MayExpire(j, job)
  <2> DEFINE new == Expired(job)
  <2>1. mem' = [mem EXCEPT ![j] = new] /\ pc' = [pc EXCEPT ![j] = "finish"] /\ UNCHANGED <<cur, starts>>
    BY <1>6 DEF _wait_for_idle
  <2>2. job.status \notin Terminal
    BY <1>6 DEF MayExpire
  <2>3. new \in Job /\ SoundCopy(new) /\ RowBehind(job, new) /\ new.status = "expired"
    BY <1>3, <2>2, JobTypes, SkipSound DEF Expired, _mark_remaining_skipped, Job
  <2> HIDE DEF new
  <2> QED BY <1>2, <1>4, <2>1, <2>3, LeaveLoopInv
<1>7. CASE ~job.cancel /\ ~MayExpire(j, job)
  <2>1. Execute(j, cur[j]) /\ UNCHANGED mem
    BY <1>7 DEF _wait_for_idle
  <2> QED BY <1>2, <1>3, <1>4, <2>1, ExecuteInv
<1> QED BY <1>5, <1>6, <1>7

LEMMA FinishInv ==
    ASSUME BatchAssumption, IInv, NEW j \in Jobs, NEW files \in BOOLEAN, Finish(j, files)
    PROVE  IInv' /\ RowStep
<1>1. TypeOK /\ JobInv(j)
  BY InvariantParts
<1> DEFINE job == mem[j]
<1>2. /\ job \in Job /\ SoundCopy(job) /\ job # NoJob /\ j \in created
      /\ job.status \in {"in_progress", "cancelling", "expired"}
      /\ job.status = "in_progress" => Pending(job) = {}
  BY <1>1 DEF Finish, TypeOK, JobInv, Copies, TaskSound, InRunning
<1>3. /\ pc' = [pc EXCEPT ![j] = "none"] /\ due' = {j} /\ "none" \in Points
      /\ mode # "down" /\ mode' = mode /\ todo' = todo
      /\ UNCHANGED <<created, cur, notified, hooks, late, erased, starts, crashes>>
  BY DEF Finish, daemon, history, Points
<1>4. TaskSound(j)'
  BY <1>1, <1>3 DEF TypeOK, TaskSound, InRunning
<1>5. ASSUME NEW new \in Job, Save(j, new), SoundCopy(new), RowBehind(job, new)
      PROVE  IInv' /\ RowStep
  BY <1>2, <1>3, <1>4, <1>5, SaveStep
<1>6. CASE job.status = "expired"
  <2>1. Save(j, job)
    BY <1>6 DEF Finish
  <2>2. RowBehind(job, job)
    BY <1>2, RowBehindReflexive
  <2> QED BY <1>2, <1>5, <2>1, <2>2
<1>7. CASE job.status # "expired" /\ job.cancel
  <2>1. Save(j, Cancelled(job))
    BY <1>7 DEF Finish
  <2>2. job.status \notin Terminal
    BY <1>2, <1>7 DEF Terminal
  <2> QED BY <1>2, <1>5, <2>1, <2>2, JobTypes, SkipSound
<1>8. CASE job.status # "expired" /\ ~job.cancel
  <2> DEFINE new == [job EXCEPT !.status = "completed", !.output = files]
  <2>1. Save(j, new)
    BY <1>8 DEF Finish
  <2>2. job.status = "in_progress" /\ Pending(job) = {}
    BY <1>2, <1>8 DEF SoundCopy
  <2>3. \A i \in Items : job.items[i] \in {"completed", "failed"}
    BY <1>2, <2>2 DEF SoundCopy, Pending
  <2>4. /\ new \in Job /\ new.status = "completed" /\ new.cancel = job.cancel
        /\ new.items = job.items /\ new.lines = job.lines
    BY <1>2 DEF Job, Status, Terminal
  <2>5. SoundCopy(new)
    BY <1>2, <2>3, <2>4 DEF SoundCopy
  <2>6. RowBehind(job, new)
    BY <2>2, <2>4 DEF RowBehind, Lifecycle!Stage, Terminal
  <2> QED BY <1>5, <2>1, <2>4, <2>5, <2>6
<1> QED BY <1>6, <1>7, <1>8

LEMMA CrashInv ==
    ASSUME BatchAssumption, IInv, Crash
    PROVE  IInv'
<1>1. TypeOK /\ \A k \in Jobs : JobInv(k)
  BY InvariantParts
<1>2. /\ mem' = [k \in Jobs |-> NoJob] /\ pc' = [k \in Jobs |-> "none"]
      /\ todo' = {} /\ due' = {} /\ notified' = {} /\ mode' = "down"
      /\ crashes' = crashes + 1 /\ crashes < MaxCrashes
      /\ UNCHANGED <<db, cur, hooks, late, created, starts, erased, fails>>
  BY DEF Crash, history
<1>3. TypeOK'
  BY <1>1, <1>2, BatchAssumption DEF TypeOK
<1>4. ASSUME NEW k \in Jobs PROVE JobInv(k)'
  BY <1>1, <1>2 DEF JobInv, Copies, TaskSound, InRunning, SoundCopy
<1> QED BY <1>2, <1>3, <1>4 DEF IInv, JobInv

LEMMA LoadInv ==
    ASSUME BatchAssumption, IInv, _load_from_db
    PROVE  IInv'
<1>1. TypeOK /\ \A k \in Jobs : JobInv(k) /\ mem[k] = NoJob
  BY InvariantParts DEF _load_from_db
<1>2. /\ mem' = db \/ mem' = mem
      /\ fails' \in 0..MaxFails
      /\ todo' = {k \in Jobs : mem'[k] # NoJob} /\ mode' = "boot"
      /\ UNCHANGED <<db, pc, cur, due, notified, hooks, late, created, starts, erased, crashes>>
  BY <1>1, BatchAssumption DEF _load_from_db, task, hook, history, TypeOK
<1>3. \A k \in Jobs : pc[k] = "none" /\ k \notin due
  BY <1>1 DEF TypeOK
<1>4. TypeOK'
  BY <1>1, <1>2, <1>3 DEF TypeOK
<1>5. ASSUME NEW k \in Jobs PROVE JobInv(k)'
  <2>1. TaskSound(k)'
    BY <1>2, <1>3 DEF TaskSound, InRunning
  <2>2. db[k] # NoJob => RowBehind(db[k], db[k])
    BY <1>1, RowBehindReflexive DEF TypeOK
  <2>3. (mem[k] # NoJob /\ db[k] # NoJob => RowBehind(db[k], mem[k]))'
    BY <1>1, <1>2, <2>2 DEF RowBehind
  <2>4. (\A job \in Copies(k) : SoundCopy(job))'
    BY <1>1, <1>2 DEF JobInv, Copies, SoundCopy
  <2> QED BY <1>1, <1>2, <2>1, <2>3, <2>4 DEF JobInv
<1> QED BY <1>2, <1>4, <1>5 DEF IInv, JobInv

LEMMA ResumeInv ==
    ASSUME BatchAssumption, IInv, NEW j \in Jobs, Resume(j)
    PROVE  IInv' /\ RowStep
<1>1. TypeOK /\ \A k \in Jobs : JobInv(k)
  BY InvariantParts
<1>2. mem[j] \in Job /\ mem[j] # NoJob /\ SoundCopy(mem[j]) /\ j \in created
  BY <1>1 DEF Resume, TypeOK, JobInv, Copies
<1>3. /\ mode # "down" /\ mode' = mode /\ todo' \in SUBSET todo
      /\ UNCHANGED <<created, cur, notified, hooks, late, erased, starts, crashes>>
  BY DEF Resume, history
<1>4. CASE MayExpire(j, mem[j])
  <2> DEFINE new == Expired(mem[j])
  <2>1. Save(j, new) /\ due' = {j} /\ pc' = [pc EXCEPT ![j] = pc[j]]
    BY <1>1, <1>4 DEF Resume, TypeOK
  <2>2. mem[j].status \notin Terminal
    BY <1>4 DEF MayExpire
  <2>3. new \in Job /\ SoundCopy(new) /\ RowBehind(mem[j], new)
    BY <1>2, <2>2, JobTypes, SkipSound
  <2>4. new.status = "expired" /\ \A i \in Items : new.items[i] = "completed" => mem[j].items[i] = "completed"
    BY <1>2 DEF Expired, _mark_remaining_skipped, Job
  <2>5. mem'[j] = new
    BY <1>1, <2>1 DEF Save, TypeOK
  <2>6. TaskSound(j)'
    <3>1. \A i \in Items : new.items[i] = "failed" => mem[j].items[i] = "failed"
      BY <1>2 DEF Expired, _mark_remaining_skipped, Job
    <3> HIDE DEF new
    <3> QED BY <1>1, <1>3, <2>1, <2>4, <2>5, <3>1 DEF TaskSound, InRunning, JobInv, TypeOK
  <2>7. pc[j] \in Points
    BY <1>1 DEF TypeOK, Points
  <2> HIDE DEF new
  <2> QED BY <1>2, <1>3, <2>1, <2>3, <2>6, <2>7, SaveStep
<1>5. CASE ~MayExpire(j, mem[j])
  <2>1. UNCHANGED <<mem, db, due, fails>>
    BY <1>5 DEF Resume
  <2>2. /\ \A k \in Jobs : pc'[k] = pc[k]
                           \/ (pc'[k] = "queued" /\ mem[k] # NoJob /\ mem[k].status \in {"validating", "in_progress"})
        /\ pc' \in [Jobs -> Points]
    BY <1>1, <1>2, <1>5 DEF Resume, TypeOK, Points
  <2>3. TypeOK'
    BY <1>1, <1>3, <2>1, <2>2 DEF TypeOK, Points
  <2>4. ASSUME NEW k \in Jobs PROVE JobInv(k)'
    <3>1. TaskSound(k)'
      BY <1>1, <1>3, <2>1, <2>2 DEF JobInv, TaskSound, InRunning, Pending
    <3> QED BY <1>1, <1>3, <2>1, <3>1 DEF JobInv, Copies, SoundCopy
  <2> QED BY <1>3, <2>1, <2>3, <2>4 DEF IInv, JobInv, RowStep
<1> QED BY <1>4, <1>5

LEMMA DeleteInv ==
    ASSUME BatchAssumption, IInv, NEW j \in Jobs, _delete_job(j)
    PROVE  IInv' /\ RowStep
<1>1. TypeOK /\ \A k \in Jobs : JobInv(k)
  BY InvariantParts
<1>2. /\ db' = db \/ db' = [db EXCEPT ![j] = NoJob]
      /\ fails' \in 0..MaxFails
      /\ erased' = erased \cup {j}
      /\ UNCHANGED <<mode, todo, mem, pc, cur, due, notified, hooks, late, created, starts, crashes>>
  BY <1>1, BatchAssumption DEF _delete_job, daemon, task, hook, TypeOK
<1>3. TypeOK'
  BY <1>1, <1>2 DEF TypeOK
<1>4. ASSUME NEW k \in Jobs PROVE JobInv(k)'
  <2>1. db'[k] = db[k] \/ db'[k] = NoJob
    BY <1>1, <1>2 DEF TypeOK
  <2>2. TaskSound(k)'
    BY <1>1, <1>2 DEF JobInv, TaskSound, InRunning, Pending
  <2> QED BY <1>1, <1>2, <2>1, <2>2 DEF JobInv, Copies, SoundCopy, RowBehind
<1>5. RowStep
  BY <1>2 DEF RowStep
<1> QED BY <1>1, <1>2, <1>3, <1>4, <1>5, InvariantParts DEF IInv, JobInv

LEMMA QuietInv ==
    ASSUME BatchAssumption, IInv,
           Serve \/ (\E j \in Jobs : Tick(j)) \/ UNCHANGED vars
    PROVE  IInv'
<1>1. TypeOK /\ \A k \in Jobs : JobInv(k)
  BY InvariantParts
<1>2. /\ UNCHANGED <<todo, mem, db, pc, cur, due, notified, hooks, created, starts, erased, crashes, fails>>
      /\ mode' = mode \/ (mode = "boot" /\ mode' = "up")
      /\ late' \in SUBSET Jobs
  BY <1>1 DEF Serve, Tick, vars, daemon, task, hook, history, TypeOK
<1>3. TypeOK'
  BY <1>1, <1>2 DEF TypeOK
<1>4. ASSUME NEW k \in Jobs PROVE JobInv(k)'
  BY <1>1, <1>2 DEF JobInv, Copies, TaskSound, InRunning, SoundCopy, RowBehind, Pending
<1> QED BY <1>1, <1>2, <1>3, <1>4 DEF IInv, JobInv

-----------------------------------------------------------------------------
LEMMA StepInvariant ==
    ASSUME BatchAssumption, IInv, [Next]_vars
    PROVE  IInv' /\ RowStep
<1>1. ASSUME NEW j \in Jobs, run_job(j) PROVE IInv' /\ RowStep
  <2>1. CASE Start(j)
    BY <2>1, StartInv
  <2>2. CASE _wait_for_idle(j)
    BY <2>2, WaitInv DEF _wait_for_idle, RowStep
  <2>3. ASSUME NEW idle \in BOOLEAN, LoopHead(j, idle) PROVE IInv' /\ RowStep
    BY <2>3, LoopHeadInv DEF LoopHead, RowStep
  <2> QED BY <1>1, <2>1, <2>2, <2>3, ItemDoneInv, FinishInv DEF run_job
<1>2. ASSUME NEW j \in Jobs, _notify_terminal(j) PROVE IInv' /\ RowStep
  BY <1>2, NotifyInv DEF _notify_terminal, RowStep
<1>3. ASSUME NEW j \in Jobs,
             \/ \E ok \in BOOLEAN : Create(j, ok)
             \/ Get(j) \/ Cancel(j) \/ Resume(j) \/ _delete_job(j)
      PROVE  IInv' /\ RowStep
  BY <1>3, CreateInv, GetInv, CancelInv, ResumeInv, DeleteInv
<1>4. CASE Crash \/ _load_from_db
  BY <1>4, CrashInv, LoadInv DEF Crash, _load_from_db, RowStep
<1>5. CASE Serve \/ (\E j \in Jobs : Tick(j)) \/ UNCHANGED vars
  BY <1>5, QuietInv DEF Serve, Tick, vars, RowStep
<1> QED BY <1>1, <1>2, <1>3, <1>4, <1>5 DEF Next

\* The inductive invariant: it holds initially and every step preserves it.
THEOREM Invariance == Spec => []IInv
<1>1. Init => IInv
  BY InitInvariant, BatchAssumption
<1>2. IInv /\ [Next]_vars => IInv'
  BY StepInvariant, BatchAssumption
<1> QED BY <1>1, <1>2, PTL DEF Spec

\* Type correctness of the batch queue.
THEOREM TypeCorrect == Spec => []TypeOK
<1>1. IInv => TypeOK
  BY DEF IInv
<1> QED BY <1>1, Invariance, PTL

\* Result lines match answered items in memory and on disk, for every number of
\* jobs, items, crashes, SQLite errors and erasures.
THEOREM ResultsAreExact == Spec => []ResultsExact
<1>1. IInv => ResultsExact
  BY DEF IInv, SoundCopy, ResultsExact
<1> QED BY <1>1, Invariance, PTL

-----------------------------------------------------------------------------
\* Only an item without an answer, of a job nobody cancelled, is ever started.
LEMMA WhoStarts ==
    ASSUME IInv, [Next]_vars
    PROVE  \/ starts' = starts
           \/ \E j \in Jobs, i \in Items :
                 /\ starts' = [starts EXCEPT ![j][i] = @ + 1]
                 /\ mem[j] # NoJob /\ ~mem[j].cancel
                 /\ mem[j].items[i] \notin {"completed", "failed"}
<1>1. TypeOK /\ \A k \in Jobs : JobInv(k)
  BY InvariantParts
<1>2. ASSUME NEW j \in Jobs, NEW idle \in BOOLEAN, LoopHead(j, idle), starts' # starts
      PROVE  /\ NextItem(mem[j]) \in Items
             /\ starts' = [starts EXCEPT ![j][NextItem(mem[j])] = @ + 1]
             /\ mem[j] # NoJob /\ ~mem[j].cancel
             /\ mem[j].items[NextItem(mem[j])] = "pending"
  <2>1. /\ Pending(mem[j]) # {} /\ ~mem[j].cancel
        /\ starts' = [starts EXCEPT ![j][NextItem(mem[j])] = @ + 1]
    BY <1>2 DEF LoopHead, Execute
  <2>2. mem[j] # NoJob
    BY <1>1, <1>2 DEF LoopHead, TypeOK
  <2> QED BY <2>1, <2>2, NextItemPending, BatchAssumption DEF Pending
<1>3. ASSUME NEW j \in Jobs, _wait_for_idle(j), starts' # starts
      PROVE  /\ cur[j] \in Items
             /\ starts' = [starts EXCEPT ![j][cur[j]] = @ + 1]
             /\ mem[j] # NoJob /\ ~mem[j].cancel
             /\ mem[j].items[cur[j]] \notin {"completed", "failed"}
  BY <1>1, <1>3 DEF _wait_for_idle, Execute, TypeOK, JobInv, TaskSound
<1>4. ASSUME NEW j \in Jobs, run_job(j)
      PROVE  starts' = starts \/ _wait_for_idle(j) \/ \E idle \in BOOLEAN : LoopHead(j, idle)
  BY <1>4 DEF run_job, Start, ItemDone, Finish, history
<1>5. ASSUME NEW j \in Jobs,
             \/ \E ok \in BOOLEAN : Create(j, ok)
             \/ Get(j) \/ Cancel(j) \/ _notify_terminal(j)
             \/ Resume(j) \/ _delete_job(j) \/ Tick(j)
      PROVE  starts' = starts
  BY <1>5 DEF Create, Get, Cancel, _notify_terminal, Resume, _delete_job, Tick, history
<1>6. CASE Crash \/ _load_from_db \/ Serve \/ UNCHANGED vars
  BY <1>6 DEF Crash, _load_from_db, Serve, vars, history
<1> QED BY <1>2, <1>3, <1>4, <1>5, <1>6 DEF Next

\* A cancel is honoured for ever: no item starts once a cancel is in memory or
\* on disk, through crashes and SQLite errors (run_job, _wait_for_idle).
THEOREM CancelsAreHonoured == Spec => CancelHonoured
<1> DEFINE A == \A j \in Jobs : starts'[j] # starts[j] =>
                   \A job \in Copies(j) : ~job.cancel
<1>1. IInv /\ [Next]_vars => A
  <2> SUFFICES ASSUME IInv, [Next]_vars, NEW j \in Jobs, starts'[j] # starts[j]
               PROVE  \A job \in Copies(j) : ~job.cancel
    OBVIOUS
  <2>1. TypeOK /\ JobInv(j)
    BY InvariantParts
  <2>2. mem[j] # NoJob /\ ~mem[j].cancel
    <3>1. starts' # starts
      OBVIOUS
    <3>2. PICK k \in Jobs, i \in Items : /\ starts' = [starts EXCEPT ![k][i] = @ + 1]
                                         /\ mem[k] # NoJob /\ ~mem[k].cancel
      BY <3>1, WhoStarts
    <3>3. k = j
      BY <2>1, <3>2 DEF TypeOK
    <3> QED BY <3>2, <3>3
  <2> QED BY <2>1, <2>2 DEF JobInv, RowBehind, Copies
<1> QED BY <1>1, Invariance, PTL DEF Spec, CancelHonoured

\* An item whose answer is on disk is never executed again, whatever crashes
\* come between (run_job, _load_from_db, resume_incomplete_with).
THEOREM AnsweredItemsNotRerun == Spec => AnsweredNotRerun
<1> DEFINE A == \A j \in Jobs, i \in Items :
                   starts'[j][i] # starts[j][i] /\ db[j] # NoJob =>
                       db[j].items[i] \notin {"completed", "failed"}
<1>1. IInv /\ [Next]_vars => A
  <2> SUFFICES ASSUME IInv, [Next]_vars, NEW j \in Jobs, NEW i \in Items,
                      starts'[j][i] # starts[j][i], db[j] # NoJob
               PROVE  db[j].items[i] \notin {"completed", "failed"}
    OBVIOUS
  <2>1. TypeOK /\ JobInv(j)
    BY InvariantParts
  <2>2. mem[j] # NoJob /\ mem[j].items[i] \notin {"completed", "failed"}
    <3>1. starts' # starts
      OBVIOUS
    <3>2. PICK k \in Jobs, m \in Items : /\ starts' = [starts EXCEPT ![k][m] = @ + 1]
                                         /\ mem[k] # NoJob
                                         /\ mem[k].items[m] \notin {"completed", "failed"}
      BY <3>1, WhoStarts
    <3>3. k = j /\ m = i
      BY <2>1, <3>2 DEF TypeOK
    <3> QED BY <3>2, <3>3
  <2> QED BY <2>1, <2>2 DEF JobInv, RowBehind
<1> QED BY <1>1, Invariance, PTL DEF Spec, AnsweredNotRerun

-----------------------------------------------------------------------------
\* A change of a row that RowStep allows is a step of the abstract life cycle.
LEMMA RowStepRefines ==
    ASSUME TypeOK, RowStep
    PROVE  [Lifecycle!Next]_Row
<1>1. db \in [Jobs -> Job \cup {NoJob}]
  BY DEF TypeOK
<1>2. CASE db' = db
  BY <1>2 DEF Row
<1>3. ASSUME NEW j \in Jobs, NEW new \in Job \cup {NoJob},
             db' = [db EXCEPT ![j] = new],
             db[j] # NoJob /\ new # NoJob => RowBehind(db[j], new)
      PROVE  [Lifecycle!Next]_Row
  <2> DEFINE status(job) == IF job = NoJob THEN "none" ELSE job.status
  <2>1. Row' = [Row EXCEPT ![j] = status(new)]
    BY <1>1, <1>3 DEF Row
  <2>2. CASE new = NoJob
    BY <2>1, <2>2 DEF Lifecycle!Next, Lifecycle!Remove
  <2>3. CASE new # NoJob
    <3>1. /\ new.status \in Status /\ status(new) = new.status
          /\ Row[j] = status(db[j]) /\ status(db[j]) \in Status \cup {"none"}
      BY <1>1, <1>3, <2>3 DEF Row, Job
    <3>2. status(db[j]) = new.status \/ Lifecycle!Stage(status(db[j])) < Lifecycle!Stage(new.status)
      BY <1>3, <2>3, <3>1 DEF RowBehind, Lifecycle!Stage, Status, Terminal
    <3>3. CASE status(db[j]) = new.status
      <4>1. Row' = Row
        BY <2>1, <3>1, <3>3 DEF Row
      <4> QED BY <4>1
    <3>4. CASE Lifecycle!Stage(status(db[j])) < Lifecycle!Stage(new.status)
      <4>1. Lifecycle!Write(j, new.status)
        BY <2>1, <3>1, <3>4 DEF Lifecycle!Write
      <4>2. new.status \in Lifecycle!Stored
        BY <3>1 DEF Lifecycle!Stored, Status, Terminal
      <4> QED BY <4>1, <4>2 DEF Lifecycle!Next
    <3> QED BY <3>2, <3>3, <3>4
  <2> QED BY <2>2, <2>3
<1> QED BY <1>2, <1>3 DEF RowStep

\* The batch store implements the life cycle a client sees: the stored status
\* only moves forward and a terminal status is final.
THEOREM Refinement == Spec => ImplementsLifecycle
<1>1. Init => Lifecycle!Init
  BY DEF Init, Lifecycle!Init, Row
<1>2. IInv /\ [Next]_vars => [Lifecycle!Next]_Row
  BY StepInvariant, RowStepRefines, BatchAssumption DEF IInv
<1> QED BY <1>1, <1>2, Invariance, PTL DEF Spec, ImplementsLifecycle, Lifecycle!Spec

-----------------------------------------------------------------------------
(***************************************************************************)
(* Announcements. What makes AnnouncedOnce inductive: a job whose webhook  *)
(* is due is stored with the status that is going to be announced, an      *)
(* announced status is the status of every copy, and as long as a task of  *)
(* the job runs the daemon remembers that it has announced it.             *)
(***************************************************************************)
Announced(j) ==
    /\ j \notin created => hooks[j] = <<>>
    /\ j \in due => /\ mem[j].status \in Terminal
                    /\ db[j] # NoJob => db[j].status = mem[j].status
    /\ hooks[j] # <<>> =>
          /\ Len(hooks[j]) = 1 /\ hooks[j][1] \in Terminal
          /\ \A job \in Copies(j) : job.status = hooks[j][1]
          /\ InRunning(j) \/ j \in due => j \in notified

AnnounceInv == fails = 0 => \A j \in Jobs : Announced(j)

\* A job whose object is not terminal has not been announced.
LEMMA OpenIsUnannounced ==
    ASSUME NEW j \in Jobs, Announced(j), mem[j] # NoJob, mem[j].status \notin Terminal
    PROVE  hooks[j] = <<>>
BY DEF Announced, Copies

\* A save that SQLite accepts, of a job that has not been announced or keeps
\* the status that was.
LEMMA AnnounceSave ==
    ASSUME BatchAssumption, TypeOK, \A k \in Jobs : Announced(k),
           NEW j \in Jobs, NEW new \in Job, Save(j, new), fails = 0, fails' = 0,
           hooks[j] # <<>> => new.status = hooks[j][1] /\ (j \in due' \/ InRunning(j)' => j \in notified),
           created' = created \cup {j},
           due' = due \/ due' = {j},
           j \in due' => new.status \in Terminal,
           \A k \in Jobs \ {j} : pc'[k] = pc[k],
           hooks' = hooks, notified' = notified
    PROVE  \A k \in Jobs : Announced(k)'
<1>1. /\ mem' = [mem EXCEPT ![j] = new] /\ db' = [db EXCEPT ![j] = new]
      /\ mem \in [Jobs -> Job \cup {NoJob}] /\ db \in [Jobs -> Job \cup {NoJob}]
  BY DEF TypeOK, Save, _persist
<1>2. Announced(j)'
  <2>1. mem'[j] = new /\ db'[j] = new
    BY <1>1
  <2>2. \A job \in Copies(j)' : job = new
    BY <2>1 DEF Copies
  <2>3. Announced(j)
    OBVIOUS
  <2> QED BY <2>1, <2>2, <2>3 DEF Announced
<1>3. ASSUME NEW k \in Jobs \ {j} PROVE Announced(k)'
  <2>1. mem'[k] = mem[k] /\ db'[k] = db[k] /\ pc'[k] = pc[k] /\ (k \in due' => k \in due)
    BY <1>1
  <2>2. Announced(k)
    OBVIOUS
  <2> QED BY <2>1, <2>2 DEF Announced, Copies, InRunning
<1> QED BY <1>2, <1>3

\* A step that announces nothing and writes nothing, or removes a row.
LEMMA AnnounceKeep ==
    ASSUME \A k \in Jobs : Announced(k),
           hooks' = hooks, created \subseteq created', due' \subseteq due,
           \A k \in Jobs :
              /\ mem'[k] = mem[k] \/ mem'[k] = NoJob
                   \/ (mem[k] # NoJob /\ mem'[k].status = mem[k].status)
                   \/ mem'[k] = db[k]
                   \/ hooks[k] = <<>>
              /\ k \in due' => mem'[k] = mem[k]
              /\ db'[k] = db[k] \/ db'[k] = NoJob
              /\ hooks[k] # <<>> /\ InRunning(k)' => k \in notified' /\ k \in created
              /\ k \in notified /\ k \in due' => k \in notified'
    PROVE  \A k \in Jobs : Announced(k)'
<1> SUFFICES ASSUME NEW k \in Jobs PROVE Announced(k)'
  OBVIOUS
<1>1. Announced(k)
  OBVIOUS
<1>2. (\A job \in Copies(k)' : hooks[k] # <<>> => job.status = hooks[k][1])
  BY <1>1 DEF Announced, Copies
<1> QED BY <1>1, <1>2 DEF Announced

LEMMA AnnounceStep ==
    ASSUME BatchAssumption, IInv, AnnounceInv, [Next]_vars, fails' = 0
    PROVE  \A k \in Jobs : Announced(k)'
<1>1. TypeOK /\ \A k \in Jobs : JobInv(k)
  BY InvariantParts
<1>2. fails = 0
  <2>1. fails \in Nat
    BY <1>1, BatchAssumption DEF TypeOK
  <2> DEFINE Counted == fails' = fails \/ fails' = fails + 1
  <2>2. \A j \in Jobs : (\E ok \in BOOLEAN : Create(j, ok)) => Counted
    BY DEF Create, Save, _persist
  <2>3. \A j \in Jobs : Get(j) \/ Cancel(j) => Counted
    BY DEF Get, Cancel, Save, _persist
  <2>4. \A j \in Jobs : _notify_terminal(j) \/ Tick(j) => Counted
    BY DEF _notify_terminal, Tick
  <2>5. \A j \in Jobs : Start(j) => Counted
    BY DEF Start, Save, _persist
  <2>6. \A j \in Jobs : (\E idle \in BOOLEAN : LoopHead(j, idle)) \/ _wait_for_idle(j) => Counted
    BY DEF LoopHead, _wait_for_idle
  <2>7. \A j \in Jobs : (\/ \E outcome \in {"completed", "failed"} : ItemDone(j, outcome)
                       \/ \E files \in BOOLEAN : Finish(j, files)) => Counted
    BY DEF ItemDone, Finish, Save, _persist
  <2>8. \A j \in Jobs : Resume(j) \/ _delete_job(j) => Counted
    BY DEF Resume, _delete_job, Save, _persist
  <2>9. Crash \/ _load_from_db \/ Serve \/ UNCHANGED vars => Counted
    BY DEF Crash, _load_from_db, Serve, vars
  <2>10. Counted
    <3> HIDE DEF Counted
    <3>1. \A j \in Jobs : run_job(j) => Counted
      BY <2>5, <2>6, <2>7 DEF run_job
    <3>2. CASE \E j \in Jobs : \/ \E ok \in BOOLEAN : Create(j, ok)
                              \/ Get(j) \/ Cancel(j) \/ _notify_terminal(j)
                              \/ run_job(j) \/ Resume(j)
                              \/ _delete_job(j) \/ Tick(j)
      BY <2>2, <2>3, <2>4, <2>8, <3>1, <3>2
    <3> QED BY <2>9, <3>2 DEF Next
  <2> QED BY <2>1, <2>10
<1>3. \A k \in Jobs : Announced(k)
  BY <1>2 DEF AnnounceInv
<1>4. \A k \in Jobs : mem[k] # NoJob =>
         mem[k] \in Job /\ SoundCopy(mem[k]) /\ k \in created
  BY <1>1 DEF TypeOK, JobInv, Copies
<1>5. ASSUME NEW j \in Jobs, NEW ok \in BOOLEAN, Create(j, ok)
      PROVE  \A k \in Jobs : Announced(k)'
  <2>1. NewJob(ok) \in Job /\ (~ok => NewJob(ok).status \in Terminal)
    BY DEF NewJob, Job, Status, Terminal, ItemState
  <2>2. hooks[j] = <<>>
    BY <1>3, <1>5 DEF Create, Announced
  <2>3. j \in due' => ~ok
    BY <1>5 DEF Create, Serving, Yielded
  <2>4. \A k \in Jobs \ {j} : pc'[k] = pc[k]
    BY <1>1, <1>5 DEF Create, TypeOK
  <2>5. /\ Save(j, NewJob(ok)) /\ created' = created \cup {j}
        /\ due' = due \/ due' = {j}
        /\ hooks' = hooks /\ notified' = notified
    BY <1>5 DEF Create
  <2> QED BY <1>1, <1>2, <1>3, <2>1, <2>2, <2>3, <2>4, <2>5, AnnounceSave
<1>6. ASSUME NEW j \in Jobs, Get(j) PROVE \A k \in Jobs : Announced(k)'
  <2>1. mem[j] # NoJob /\ mem[j].status \notin Terminal /\ j \in created
    BY <1>4, <1>6 DEF Get, MayExpire
  <2>2. Expired(mem[j]) \in Job /\ Expired(mem[j]).status \in Terminal
    BY <1>4, <2>1, JobTypes DEF Expired, _mark_remaining_skipped, Job, Terminal
  <2>3. hooks[j] = <<>>
    BY <1>3, <2>1, OpenIsUnannounced
  <2>4. /\ Save(j, Expired(mem[j])) /\ created' = created \cup {j}
        /\ due' = {j} /\ pc' = pc /\ hooks' = hooks /\ notified' = notified
    BY <1>6, <2>1 DEF Get, task, history
  <2> QED BY <1>1, <1>2, <1>3, <2>2, <2>3, <2>4, AnnounceSave
<1>7. ASSUME NEW j \in Jobs, Cancel(j) PROVE \A k \in Jobs : Announced(k)'
  <2> DEFINE asked == [mem[j] EXCEPT !.status = "cancelling", !.cancel = TRUE]
             direct == mem[j].status = "validating" \/ ~InRunning(j)
             new == IF direct THEN Cancelled(mem[j]) ELSE asked
  <2>1. mem[j] # NoJob /\ mem[j].status \notin Terminal /\ j \in created
    BY <1>4, <1>7 DEF Cancel
  <2>2. new \in Job /\ (direct => new.status \in Terminal)
    BY <1>4, <2>1, JobTypes, CancellingSound
    DEF Cancelled, _mark_remaining_skipped, Job, Terminal
  <2>3. hooks[j] = <<>>
    BY <1>3, <2>1, OpenIsUnannounced
  <2>4. /\ Save(j, new) /\ created' = created \cup {j}
        /\ pc' = pc /\ hooks' = hooks /\ notified' = notified
        /\ IF direct THEN due' = {j} ELSE due' = due
        /\ due = {}
    BY <1>7, <2>1 DEF Cancel, task, history, Serving, Yielded
  <2> HIDE DEF new, direct
  <2> QED BY <1>1, <1>2, <1>3, <2>2, <2>3, <2>4, AnnounceSave
<1>8. ASSUME NEW j \in Jobs, _notify_terminal(j) PROVE \A k \in Jobs : Announced(k)'
  <2>1. /\ due = {j} /\ due' = {}
        /\ UNCHANGED <<mem, db, pc, created, fails>>
    BY <1>8 DEF _notify_terminal, task, history
  <2>2. mem[j].status \in Terminal /\ (db[j] # NoJob => db[j].status = mem[j].status)
    BY <1>3, <2>1 DEF Announced
  <2>3. CASE j \in notified
    <3>1. hooks' = hooks /\ notified' = notified
      BY <1>8, <2>3 DEF _notify_terminal
    <3> QED BY <1>3, <2>1, <3>1 DEF Announced, Copies, InRunning
  <2>4. CASE j \notin notified
    <3>1. /\ hooks' = [hooks EXCEPT ![j] = Append(hooks[j], mem[j].status)]
          /\ notified' = notified \cup {j}
      BY <1>8, <2>4 DEF _notify_terminal
    <3>2. hooks[j] = <<>>
      BY <1>3, <2>1, <2>4 DEF Announced
    <3>3. j \in created
      BY <1>1, <1>4, <2>1 DEF TypeOK
    <3>4. hooks'[j] = <<mem[j].status>>
      BY <1>1, <3>1, <3>2 DEF TypeOK
    <3>5. Announced(j)'
      <4>1. \A job \in Copies(j)' : job.status = mem[j].status
        BY <2>1, <2>2 DEF Copies
      <4>2. Len(hooks'[j]) = 1 /\ hooks'[j][1] = mem[j].status
        BY <3>4
      <4>3. j \notin due' /\ j \in notified' /\ j \in created'
        BY <2>1, <3>1, <3>3
      <4> QED BY <2>2, <4>1, <4>2, <4>3 DEF Announced
    <3>6. ASSUME NEW k \in Jobs \ {j} PROVE Announced(k)'
      <4>1. hooks'[k] = hooks[k] /\ (k \in notified' <=> k \in notified)
        BY <1>1, <3>1 DEF TypeOK
      <4>2. Announced(k)
        BY <1>3
      <4> QED BY <2>1, <4>1, <4>2 DEF Announced, Copies, InRunning
    <3> QED BY <3>5, <3>6
  <2> QED BY <2>3, <2>4
<1>9. ASSUME NEW j \in Jobs, Start(j) PROVE \A k \in Jobs : Announced(k)'
  <2>1. mem[j] # NoJob /\ j \in created /\ mem[j] \in Job
    BY <1>1, <1>4, <1>9 DEF Start, TypeOK
  <2>2. hooks' = hooks /\ notified' = notified /\ created' = created /\ due = {}
    BY <1>9 DEF Start, history, Serving, Yielded
  <2>3. CASE mem[j].status \in Terminal
    <3>1. UNCHANGED <<mem, db, due>> /\ pc' = [pc EXCEPT ![j] = "none"]
      BY <1>9, <2>3 DEF Start
    <3>2. \A k \in Jobs : InRunning(k)' => InRunning(k)
      BY <1>1, <3>1 DEF InRunning, TypeOK
    <3> QED BY <1>3, <2>2, <3>1, <3>2 DEF Announced, Copies
  <2>4. CASE mem[j].status \notin Terminal
    <3>1. hooks[j] = <<>>
      BY <1>3, <2>1, <2>4, OpenIsUnannounced
    <3>2. PICK new \in Job :
             /\ Save(j, new) /\ (due' = due \/ due' = {j})
             /\ j \in due' => new.status \in Terminal
             /\ \A k \in Jobs \ {j} : pc'[k] = pc[k]
      <4> DEFINE gone == IF MayExpire(j, mem[j]) THEN Expired(mem[j]) ELSE Cancelled(mem[j])
                 started == [mem[j] EXCEPT !.status = "in_progress"]
      <4>1. gone \in Job /\ gone.status \in Terminal
        BY <2>1, JobTypes DEF Expired, Cancelled, _mark_remaining_skipped, Job, Terminal
      <4>2. started \in Job
        BY <2>1 DEF Job, Status
      <4>3. CASE MayExpire(j, mem[j]) \/ mem[j].cancel
        <5>1. Save(j, gone) /\ due' = {j} /\ pc' = [pc EXCEPT ![j] = "none"]
          BY <1>9, <2>4, <4>3 DEF Start
        <5> QED BY <1>1, <4>1, <5>1 DEF TypeOK
      <4>4. CASE ~(MayExpire(j, mem[j]) \/ mem[j].cancel)
        <5>1. Save(j, started) /\ due' = due /\ pc' = [pc EXCEPT ![j] = "loop"]
          BY <1>9, <2>4, <4>4 DEF Start
        <5> QED BY <1>1, <2>2, <4>2, <5>1 DEF TypeOK
      <4> QED BY <4>3, <4>4
    <3> QED BY <1>1, <1>2, <1>3, <2>1, <2>2, <3>1, <3>2, AnnounceSave
  <2> QED BY <2>3, <2>4
<1>10. ASSUME NEW j \in Jobs, (\E idle \in BOOLEAN : LoopHead(j, idle)) \/ _wait_for_idle(j)
       PROVE  \A k \in Jobs : Announced(k)'
  <2>1. mem[j] # NoJob /\ InRunning(j) /\ mem[j] \in Job
    BY <1>1, <1>4, <1>10 DEF LoopHead, _wait_for_idle, TypeOK, InRunning
  <2>2. UNCHANGED <<db, due, notified, hooks, created>> /\ due = {}
    BY <1>10 DEF LoopHead, _wait_for_idle, hook, Serving, Yielded
  <2>3. \A k \in Jobs : InRunning(k)' => InRunning(k)
    BY <1>1, <1>10, <2>1 DEF LoopHead, _wait_for_idle, Execute, InRunning, TypeOK
  <2>4. \/ mem' = mem
        \/ mem' = [mem EXCEPT ![j] = _mark_remaining_skipped(mem[j])]
        \/ mem' = [mem EXCEPT ![j] = Expired(mem[j])] /\ mem[j].status \notin Terminal
        \/ mem' = [mem EXCEPT ![j] = mem[j]]
    BY <1>10 DEF LoopHead, _wait_for_idle, MayExpire
  <2>5. _mark_remaining_skipped(mem[j]).status = mem[j].status
    BY <2>1 DEF _mark_remaining_skipped, Job
  <2>6. mem[j].status \notin Terminal => hooks[j] = <<>>
    BY <1>3, <2>1, OpenIsUnannounced
  <2>7. \A k \in Jobs : \/ mem'[k] = mem[k]
                        \/ mem[k] # NoJob /\ mem'[k].status = mem[k].status
                        \/ hooks[k] = <<>>
    BY <1>1, <2>1, <2>4, <2>5, <2>6 DEF TypeOK
  <2>8. \A k \in Jobs : hooks[k] # <<>> /\ InRunning(k)' => k \in notified /\ k \in created
    BY <1>3, <2>3 DEF Announced
  <2> QED BY <1>3, <2>2, <2>7, <2>8, AnnounceKeep
<1>11. ASSUME NEW j \in Jobs, NEW outcome \in {"completed", "failed"}, ItemDone(j, outcome)
       PROVE  \A k \in Jobs : Announced(k)'
  <2> DEFINE new == [mem[j] EXCEPT !.items[cur[j]] = outcome, !.lines[cur[j]] = @ + 1]
  <2>1. mem[j] # NoJob /\ mem[j] \in Job /\ j \in created /\ InRunning(j) /\ cur[j] \in Items
    BY <1>1, <1>4, <1>11 DEF ItemDone, TypeOK, InRunning
  <2>2. new \in Job /\ new.status = mem[j].status
    <3>1. mem[j].items \in [Items -> ItemState] /\ mem[j].lines \in [Items -> Nat]
      BY <2>1 DEF Job
    <3>2. /\ [mem[j].items EXCEPT ![cur[j]] = outcome] \in [Items -> ItemState]
          /\ [mem[j].lines EXCEPT ![cur[j]] = mem[j].lines[cur[j]] + 1] \in [Items -> Nat]
      BY <2>1, <3>1 DEF ItemState
    <3>3. new = [mem[j] EXCEPT !.items = [mem[j].items EXCEPT ![cur[j]] = outcome],
                               !.lines = [mem[j].lines EXCEPT ![cur[j]] = mem[j].lines[cur[j]] + 1]]
      BY <2>1 DEF Job
    <3> HIDE DEF new
    <3> QED BY <2>1, <3>2, <3>3 DEF Job
  <2>3. hooks[j] # <<>> => mem[j].status = hooks[j][1] /\ j \in notified
    BY <1>3, <2>1 DEF Announced, Copies
  <2>4. /\ Save(j, new) /\ created' = created \cup {j}
        /\ due' = due /\ due = {}
        /\ hooks' = hooks /\ notified' = notified
        /\ \A k \in Jobs \ {j} : pc'[k] = pc[k]
    BY <1>1, <1>11, <2>1 DEF ItemDone, hook, history, Serving, Yielded, TypeOK
  <2> HIDE DEF new
  <2> QED BY <1>1, <1>2, <1>3, <2>2, <2>3, <2>4, AnnounceSave
<1>12. ASSUME NEW j \in Jobs, NEW files \in BOOLEAN, Finish(j, files)
       PROVE  \A k \in Jobs : Announced(k)'
  <2>1. /\ mem[j] # NoJob /\ mem[j] \in Job /\ j \in created /\ InRunning(j)
        /\ mem[j].status \in {"in_progress", "cancelling", "expired"}
    BY <1>1, <1>4, <1>12 DEF Finish, TypeOK, InRunning, JobInv, TaskSound
  <2>2. PICK new \in Job :
          /\ Save(j, new) /\ new.status \in Terminal
          /\ mem[j].status = "expired" => new.status = mem[j].status
    <3> DEFINE done == [mem[j] EXCEPT !.status = "completed", !.output = files]
    <3>1. CASE mem[j].status = "expired"
      BY <1>12, <2>1, <3>1 DEF Finish, Terminal
    <3>2. CASE mem[j].status # "expired" /\ mem[j].cancel
      <4>1. Save(j, Cancelled(mem[j]))
        BY <1>12, <3>2 DEF Finish
      <4> QED BY <2>1, <3>2, <4>1, JobTypes DEF Cancelled, _mark_remaining_skipped, Job, Terminal
    <3>3. CASE mem[j].status # "expired" /\ ~mem[j].cancel
      <4>1. Save(j, done)
        BY <1>12, <3>3 DEF Finish
      <4>2. done \in Job /\ done.status = "completed"
        BY <2>1 DEF Job, Status, Terminal
      <4> QED BY <3>3, <4>1, <4>2 DEF Terminal
    <3> QED BY <3>1, <3>2, <3>3
  <2>3. hooks[j] # <<>> => mem[j].status = hooks[j][1] /\ mem[j].status \in Terminal /\ j \in notified
    BY <1>3, <2>1 DEF Announced, Copies
  <2>4. hooks[j] # <<>> => new.status = hooks[j][1]
    BY <2>1, <2>2, <2>3 DEF Terminal
  <2>5. /\ created' = created \cup {j} /\ due' = {j}
        /\ hooks' = hooks /\ notified' = notified
        /\ \A k \in Jobs \ {j} : pc'[k] = pc[k]
    BY <1>1, <1>12, <2>1 DEF Finish, history, TypeOK
  <2> QED BY <1>1, <1>2, <1>3, <2>2, <2>3, <2>4, <2>5, AnnounceSave
<1>13. ASSUME NEW j \in Jobs, Resume(j) PROVE \A k \in Jobs : Announced(k)'
  <2>1. mem[j] # NoJob /\ mem[j] \in Job /\ j \in created
    BY <1>1, <1>4, <1>13 DEF Resume, TypeOK
  <2>2. hooks' = hooks /\ notified' = notified /\ created' = created /\ due = {}
    BY <1>13 DEF Resume, history
  <2>3. CASE MayExpire(j, mem[j])
    <3>1. mem[j].status \notin Terminal
      BY <2>3 DEF MayExpire
    <3>2. hooks[j] = <<>>
      BY <1>3, <2>1, <3>1, OpenIsUnannounced
    <3>3. Expired(mem[j]) \in Job /\ Expired(mem[j]).status \in Terminal
      BY <2>1, JobTypes DEF Expired, _mark_remaining_skipped, Job, Terminal
    <3>4. Save(j, Expired(mem[j])) /\ due' = {j} /\ pc' = pc
      BY <1>13, <2>3 DEF Resume
    <3> QED BY <1>1, <1>2, <1>3, <2>1, <2>2, <3>2, <3>3, <3>4, AnnounceSave
  <2>4. CASE ~MayExpire(j, mem[j])
    <3>1. UNCHANGED <<mem, db, due>>
      BY <1>13, <2>4 DEF Resume
    <3>2. \A k \in Jobs : InRunning(k)' => InRunning(k)
      BY <1>1, <1>13, <2>4 DEF Resume, InRunning, TypeOK
    <3> QED BY <1>3, <2>2, <3>1, <3>2 DEF Announced, Copies
  <2> QED BY <2>3, <2>4
<1>14. ASSUME NEW j \in Jobs, _delete_job(j) \/ Tick(j) PROVE \A k \in Jobs : Announced(k)'
  <2>1. UNCHANGED <<mem, pc, due, notified, hooks, created>>
    BY <1>14 DEF _delete_job, Tick, task, hook, history
  <2>2. \A k \in Jobs : db'[k] = db[k] \/ db'[k] = NoJob
    BY <1>1, <1>14 DEF _delete_job, Tick, TypeOK
  <2> QED BY <1>3, <2>1, <2>2 DEF Announced, Copies, InRunning
<1>15. CASE Crash
  <2>1. /\ mem' = [k \in Jobs |-> NoJob] /\ pc' = [k \in Jobs |-> "none"] /\ due' = {}
        /\ UNCHANGED <<db, hooks, created>>
    BY <1>15 DEF Crash, history
  <2> QED BY <1>3, <2>1 DEF Announced, Copies, InRunning
<1>16. CASE _load_from_db
  <2>1. /\ mem' = db \/ mem' = mem
        /\ UNCHANGED <<db, pc, due, notified, hooks, created>>
    BY <1>16 DEF _load_from_db, task, hook, history
  <2>2. due = {}
    BY <1>1, <1>16, InvariantParts DEF _load_from_db, TypeOK
  <2> QED BY <1>3, <2>1, <2>2 DEF Announced, Copies, InRunning
<1>17. CASE Serve \/ UNCHANGED vars
  <2>1. UNCHANGED <<mem, db, pc, due, notified, hooks, created>>
    BY <1>17 DEF Serve, vars, task, hook, history
  <2> QED BY <1>3, <2>1 DEF Announced, Copies, InRunning
<1> QED BY <1>5, <1>6, <1>7, <1>8, <1>9, <1>10, <1>11, <1>12, <1>13, <1>14, <1>15, <1>16, <1>17
        DEF Next, run_job

\* A job is announced at most once in its life, restarts included, and what is
\* announced is what is stored, as long as SQLite takes the writes.
THEOREM AnnouncedAtMostOnce == Spec => []AnnouncedOnce
<1>1. Init => AnnounceInv
  BY DEF Init, AnnounceInv, Announced
<1>2. IInv /\ AnnounceInv /\ [Next]_vars => AnnounceInv'
  BY AnnounceStep, BatchAssumption DEF AnnounceInv
<1>3. IInv /\ AnnounceInv => AnnouncedOnce
  <2> SUFFICES ASSUME IInv, AnnounceInv, fails = 0, NEW j \in Jobs
               PROVE  /\ Len(hooks[j]) <= 1
                      /\ Len(hooks[j]) = 1 /\ db[j] # NoJob => db[j].status = hooks[j][1]
    BY DEF AnnouncedOnce
  <2>1. Announced(j)
    BY DEF AnnounceInv
  <2>2. CASE hooks[j] = <<>>
    BY <2>2
  <2>3. CASE hooks[j] # <<>>
    <3>1. Len(hooks[j]) = 1 /\ \A job \in Copies(j) : job.status = hooks[j][1]
      BY <2>1, <2>3 DEF Announced
    <3> QED BY <3>1 DEF Copies
  <2> QED BY <2>2, <2>3
<1> QED BY <1>1, <1>2, <1>3, Invariance, PTL DEF Spec

=============================================================================
