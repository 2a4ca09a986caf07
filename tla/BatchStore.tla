----------------------------- MODULE BatchStore -----------------------------
(***************************************************************************)
(* The durable batch queue of daari/gateway/batches.py (class BatchStore)  *)
(* with its callers: the POST /v1/batches handler, the lifespan hook that  *)
(* resumes jobs at startup, the completion webhook, and the erasure and    *)
(* retention sweeps, which open the same SQLite file from another process  *)
(* or thread.                                                              *)
(*                                                                         *)
(* The daemon is one asyncio event loop.  Between two awaits a coroutine   *)
(* runs alone, so only the worker may move while a job is at an inner      *)
(* point (pc "loop" or "finish") or a webhook is due; a crash, the clock   *)
(* and the sweeps of other processes need no permission.  An inner point   *)
(* exists wherever the code has just written to SQLite, because that is    *)
(* where a crash leaves something behind.                                  *)
(*                                                                         *)
(* Abstractions: a request body, a response and an error are not           *)
(* represented; the "results" list is the number of lines it holds for     *)
(* each item; the job's timestamps are the one fact "expires_at is past".  *)
(* The FIFO hand-over of the worker semaphore is any waiting job.          *)
(***************************************************************************)
EXTENDS Naturals, Sequences, FiniteSets

CONSTANTS
    Jobs,        \* batch ids ever handed out (uuid4, never reused)
    N,           \* items of an accepted batch
    NoJob,       \* no object in memory / no row in SQLite
    MaxCrashes,  \* bound on daemon crashes and restarts
    MaxFails,    \* bound on swallowed SQLite errors
    MaxErase     \* bound on rows deleted by `daari erase` or the retention sweep

VARIABLES
    mode,      \* "down", "boot" (lifespan startup) or "up"
    todo,      \* jobs resume_incomplete_with has still to look at
    mem,       \* self._batches: the in-memory job objects
    db,        \* rows of batch_jobs
    pc,        \* where the run_job task of a job is; "none": no task
    cur,       \* the item run_job is waiting for or executing
    due,       \* jobs whose _notify_terminal is the very next statement
    notified,  \* self._webhook_notified
    late,      \* jobs whose expires_at has passed
    created,   \* history: ids handed out
    hooks,     \* history: statuses announced by webhook, in order
    starts,    \* history: number of execute_one calls per item
    erased,    \* history: jobs an erasure or a prune reported as deleted
    crashes, fails

daemon  == <<mode, todo>>
task    == <<pc, cur>>
hook    == <<due, notified, hooks>>
history == <<created, starts, erased>>
vars    == <<daemon, mem, db, task, hook, late, history, crashes, fails>>

-----------------------------------------------------------------------------
Items == 1..N

Terminal  == {"completed", "failed", "cancelled", "expired"}
Status    == Terminal \cup {"validating", "in_progress", "cancelling"}
ItemState == {"pending", "completed", "failed", "skipped", "absent"}

Job == [status : Status,
        items  : [Items -> ItemState],   \* "absent": a rejected batch has none
        cancel : BOOLEAN,                \* cancel_requested
        lines  : [Items -> Nat],         \* result lines per item
        output : BOOLEAN]                \* output_file_id is set

ASSUME BatchAssumption ==
    /\ N \in Nat \ {0}
    /\ MaxCrashes \in Nat /\ MaxFails \in Nat /\ MaxErase \in Nat
    /\ NoJob \notin Job

\* Mutation: failed items count as work that is left.
BugPending(job) == {i \in Items : job.items[i] \in {"pending", "failed"}}

Pending(job) == {i \in Items : job.items[i] = "pending"}

\* What create() builds: an accepted batch, or one without a usable line.
NewJob(ok) ==
    [status |-> IF ok THEN "validating" ELSE "failed",
     items  |-> [i \in Items |-> IF ok THEN "pending" ELSE "absent"],
     cancel |-> FALSE,
     lines  |-> [i \in Items |-> 0],
     output |-> FALSE]

_mark_remaining_skipped(job) ==
    [job EXCEPT !.items = [i \in Items |-> IF @[i] = "pending" THEN "skipped" ELSE @[i]]]

\* The condition of _maybe_expire, and what it makes of the job.
MayExpire(j, job) ==
    /\ job.status \notin Terminal
    /\ j \in late
    /\ Pending(job) # {}

Expired(job) == [_mark_remaining_skipped(job) EXCEPT !.status = "expired"]
Cancelled(job) == [_mark_remaining_skipped(job) EXCEPT !.status = "cancelled", !.cancel = TRUE]

\* run_job looks at the items in order and takes the first pending one.
NextItem(job) == CHOOSE i \in Pending(job) : \A k \in Pending(job) : i <= k

-----------------------------------------------------------------------------
\* _persist: best effort, an SQLite error is logged and forgotten.
_persist(j, job) ==
    \/ /\ db' = [db EXCEPT ![j] = job]
       /\ UNCHANGED fails
    \/ /\ fails < MaxFails
       /\ fails' = fails + 1
       /\ UNCHANGED db

\* The job object is replaced in memory and then written.
Save(j, job) ==
    /\ mem' = [mem EXCEPT ![j] = job]
    /\ _persist(j, job)

InRunning(j) == pc[j] \in {"loop", "sleep", "exec", "finish"}   \* self._running

\* Every coroutine is at an await, so a request handler or a task may run.
Yielded == /\ due = {}
           /\ \A j \in Jobs : pc[j] \notin {"loop", "finish"}

Serving == mode = "up" /\ Yielded

-----------------------------------------------------------------------------
\* POST /v1/batches: create() and then schedule(), with no await in between.
Create(j, ok) ==
    /\ Serving
    /\ j \notin created
    /\ created' = created \cup {j}
    /\ Save(j, NewJob(ok))
    /\ IF ok THEN pc' = [pc EXCEPT ![j] = "queued"] /\ UNCHANGED due
             ELSE due' = {j} /\ UNCHANGED pc
    /\ UNCHANGED <<daemon, cur, notified, hooks, late, starts, erased, crashes>>

\* get() on a job it has to expire (GET, the list, cancel and schedule all go
\* through get(); on any other job it changes nothing).
Get(j) ==
    /\ Serving
    /\ mem[j] # NoJob
    /\ MayExpire(j, mem[j])
    /\ Save(j, Expired(mem[j]))
    /\ due' = {j}
    /\ UNCHANGED <<daemon, task, notified, hooks, late, history, crashes>>

\* POST /v1/batches/{id}/cancel on a job that get() did not expire.
Cancel(j) ==
    /\ Serving
    /\ mem[j] # NoJob
    /\ ~MayExpire(j, mem[j])
    /\ mem[j].status \notin Terminal
    /\ IF mem[j].status = "validating" \/ ~InRunning(j)
       THEN Save(j, Cancelled(mem[j])) /\ due' = {j}
       ELSE Save(j, [mem[j] EXCEPT !.status = "cancelling", !.cancel = TRUE]) /\ UNCHANGED due
    /\ UNCHANGED <<daemon, task, notified, hooks, late, history, crashes>>

\* Mutation: no _webhook_notified set.
BugNotify(j) ==
    /\ due = {j}
    /\ due' = {}
    /\ hooks' = [hooks EXCEPT ![j] = Append(@, mem[j].status)]
    /\ UNCHANGED <<notified, daemon, mem, db, task, late, history, crashes, fails>>

\* _notify_terminal, which remembers the ids it has announced.
_notify_terminal(j) ==
    /\ due = {j}
    /\ due' = {}
    /\ IF j \in notified
       THEN UNCHANGED <<notified, hooks>>
       ELSE /\ notified' = notified \cup {j}
            /\ hooks' = [hooks EXCEPT ![j] = Append(@, mem[j].status)]
    /\ UNCHANGED <<daemon, mem, db, task, late, history, crashes, fails>>

-----------------------------------------------------------------------------
\* run_job, from the semaphore to the loop over the items.
Start(j) ==
    /\ Serving
    /\ pc[j] = "queued"
    /\ \A k \in Jobs : ~InRunning(k)
    /\ LET job == mem[j] IN
         IF job.status \in Terminal
         THEN /\ pc' = [pc EXCEPT ![j] = "none"]
              /\ UNCHANGED <<mem, db, due, fails>>
         ELSE IF MayExpire(j, job) \/ job.cancel
         THEN /\ pc' = [pc EXCEPT ![j] = "none"]
              /\ Save(j, IF MayExpire(j, job) THEN Expired(job) ELSE Cancelled(job))
              /\ due' = {j}
         ELSE /\ pc' = [pc EXCEPT ![j] = "loop"]
              /\ Save(j, [job EXCEPT !.status = "in_progress"])
              /\ UNCHANGED due
    /\ UNCHANGED <<daemon, cur, notified, hooks, late, history, crashes>>

\* run_job calls execute_one on item i.
Execute(j, i) ==
    /\ pc' = [pc EXCEPT ![j] = "exec"]
    /\ cur' = [cur EXCEPT ![j] = i]
    /\ starts' = [starts EXCEPT ![j][i] = @ + 1]

\* The head of the loop: leave it, or take the next item, now or after
\* _wait_for_idle has gone to sleep because interactive requests are running.
LoopHead(j, idle) ==
    /\ mode = "up" /\ due = {}
    /\ pc[j] = "loop"
    /\ LET job  == mem[j]
           stop == job.cancel \/ MayExpire(j, job) \/ Pending(job) = {}
       IN IF stop
          THEN /\ mem' = [mem EXCEPT ![j] = IF job.cancel THEN _mark_remaining_skipped(job)
                                            ELSE IF MayExpire(j, job) THEN Expired(job) ELSE job]
               /\ pc' = [pc EXCEPT ![j] = "finish"]
               /\ UNCHANGED <<cur, starts>>
          ELSE /\ IF idle
                  THEN Execute(j, NextItem(job))
                  ELSE /\ pc' = [pc EXCEPT ![j] = "sleep"]
                       /\ cur' = [cur EXCEPT ![j] = NextItem(job)]
                       /\ UNCHANGED starts
               /\ UNCHANGED mem
    /\ UNCHANGED <<daemon, db, hook, late, created, erased, crashes, fails>>

\* Mutation: the wait does not look at cancel_requested.
BugWait(j) ==
    /\ Serving
    /\ pc[j] = "sleep"
    /\ Execute(j, cur[j])
    /\ UNCHANGED <<mem, daemon, db, hook, late, created, erased, crashes, fails>>

\* One round of _wait_for_idle after its sleep: cancel or expiry ends the
\* loop, an idle gateway lets the item run, a busy one changes nothing.
_wait_for_idle(j) ==
    /\ Serving
    /\ pc[j] = "sleep"
    /\ IF mem[j].cancel \/ MayExpire(j, mem[j])
       THEN /\ mem' = [mem EXCEPT ![j] = IF mem[j].cancel THEN mem[j] ELSE Expired(mem[j])]
            /\ pc' = [pc EXCEPT ![j] = "finish"]
            /\ UNCHANGED <<cur, starts>>
       ELSE /\ Execute(j, cur[j])
            /\ UNCHANGED mem
    /\ UNCHANGED <<daemon, db, hook, late, created, erased, crashes, fails>>

\* Mutation: a failed item is left pending, to be tried again.
BugItemDone(j, outcome) ==
    /\ Serving
    /\ pc[j] = "exec"
    /\ Save(j, [mem[j] EXCEPT !.items[cur[j]] = IF outcome = "failed" THEN "pending" ELSE outcome,
                              !.lines[cur[j]] = @ + 1])
    /\ pc' = [pc EXCEPT ![j] = "loop"]
    /\ UNCHANGED <<daemon, cur, hook, late, history, crashes>>

\* execute_one returns a response, or raises (a rejection or any exception).
ItemDone(j, outcome) ==
    /\ Serving
    /\ pc[j] = "exec"
    /\ Save(j, [mem[j] EXCEPT !.items[cur[j]] = outcome, !.lines[cur[j]] = @ + 1])
    /\ pc' = [pc EXCEPT ![j] = "loop"]
    /\ UNCHANGED <<daemon, cur, hook, late, history, crashes>>

\* Mutation: a job that get() expired meanwhile is called completed.
BugFinishExpired(j, files) ==
    /\ mode = "up" /\ due = {}
    /\ pc[j] = "finish"
    /\ Save(j, IF mem[j].cancel THEN Cancelled(mem[j])
               ELSE [mem[j] EXCEPT !.status = "completed", !.output = files])
    /\ pc' = [pc EXCEPT ![j] = "none"]
    /\ due' = {j}
    /\ UNCHANGED <<daemon, cur, notified, hooks, late, history, crashes>>

\* Mutation: the worker leaves a cancelled job in "cancelling".
BugFinishCancelling(j, files) ==
    /\ mode = "up" /\ due = {}
    /\ pc[j] = "finish"
    /\ Save(j, IF mem[j].cancel \/ mem[j].status = "expired" THEN _mark_remaining_skipped(mem[j])
               ELSE [mem[j] EXCEPT !.status = "completed", !.output = files])
    /\ pc' = [pc EXCEPT ![j] = "none"]
    /\ due' = IF mem[j].cancel THEN {} ELSE {j}
    /\ UNCHANGED <<daemon, cur, notified, hooks, late, history, crashes>>

\* After the loop: settle the status, write the result files, persist.
\* files: the file store is configured and write_jsonl succeeds.
Finish(j, files) ==
    /\ mode = "up" /\ due = {}
    /\ pc[j] = "finish"
    /\ LET job == mem[j] IN
         Save(j, CASE job.status = "expired" -> job
                   [] job.status # "expired" /\ job.cancel -> Cancelled(job)
                   [] OTHER -> [job EXCEPT !.status = "completed", !.output = files])
    /\ pc' = [pc EXCEPT ![j] = "none"]
    /\ due' = {j}
    /\ UNCHANGED <<daemon, cur, notified, hooks, late, history, crashes>>

-----------------------------------------------------------------------------
\* The process dies (or is stopped: the worker task is not awaited), at any
\* point: what is in memory is gone, what SQLite holds stays.
Crash ==
    /\ mode # "down"
    /\ crashes < MaxCrashes
    /\ crashes' = crashes + 1
    /\ mode' = "down"
    /\ mem' = [j \in Jobs |-> NoJob]
    /\ pc' = [j \in Jobs |-> "none"]
    /\ todo' = {} /\ due' = {} /\ notified' = {}
    /\ UNCHANGED <<db, cur, hooks, late, history, fails>>

\* BatchStore.__init__: _load_from_db, which on an SQLite error loads nothing.
_load_from_db ==
    /\ mode = "down"
    /\ \/ mem' = db /\ UNCHANGED fails
       \/ /\ fails < MaxFails
          /\ fails' = fails + 1
          /\ UNCHANGED mem
    /\ todo' = {j \in Jobs : mem'[j] # NoJob}
    /\ mode' = "boot"
    /\ UNCHANGED <<db, task, hook, late, history, crashes>>

\* One job of resume_incomplete_with: get() may expire it, an unfinished job
\* with work left gets a run_job task, any other job is passed over.
Resume(j) ==
    /\ mode = "boot" /\ due = {}
    /\ j \in todo
    /\ todo' = todo \ {j}
    /\ IF MayExpire(j, mem[j])
       THEN /\ Save(j, Expired(mem[j]))
            /\ due' = {j}
            /\ UNCHANGED pc
       ELSE /\ pc' = IF /\ mem[j].status \in {"validating", "in_progress"}
                        /\ Pending(mem[j]) # {}
                     THEN [pc EXCEPT ![j] = "queued"] ELSE pc
            /\ UNCHANGED <<mem, db, due, fails>>
    /\ UNCHANGED <<mode, cur, notified, hooks, late, history, crashes>>

\* The lifespan hook yields: requests are served from here on.
Serve ==
    /\ mode = "boot" /\ todo = {} /\ due = {}
    /\ mode' = "up"
    /\ UNCHANGED <<todo, mem, db, task, hook, late, history, crashes, fails>>

\* _delete_job, called by `daari erase` and by the retention sweep on a store
\* of their own: the row goes, or an SQLite error is swallowed.
_delete_job(j) ==
    /\ db[j] # NoJob
    /\ Cardinality(erased) < MaxErase
    /\ erased' = erased \cup {j}
    /\ \/ db' = [db EXCEPT ![j] = NoJob] /\ UNCHANGED fails
       \/ /\ fails < MaxFails
          /\ fails' = fails + 1
          /\ UNCHANGED db
    /\ UNCHANGED <<daemon, mem, task, hook, late, created, starts, crashes>>

\* The clock passes expires_at.
Tick(j) ==
    /\ j \in created \ late
    /\ late' = late \cup {j}
    /\ UNCHANGED <<daemon, mem, db, task, hook, history, crashes, fails>>

-----------------------------------------------------------------------------
Init ==
    /\ mode = "up" /\ todo = {}
    /\ mem = [j \in Jobs |-> NoJob]
    /\ db = [j \in Jobs |-> NoJob]
    /\ pc = [j \in Jobs |-> "none"]
    /\ cur = [j \in Jobs |-> 1]
    /\ due = {} /\ notified = {}
    /\ late = {} /\ created = {} /\ erased = {}
    /\ hooks = [j \in Jobs |-> <<>>]
    /\ starts = [j \in Jobs |-> [i \in Items |-> 0]]
    /\ crashes = 0 /\ fails = 0

\* The steps of a job's own task.
run_job(j) ==
    \/ Start(j)
    \/ \E idle \in BOOLEAN : LoopHead(j, idle)
    \/ _wait_for_idle(j)
    \/ \E outcome \in {"completed", "failed"} : ItemDone(j, outcome)
    \/ \E files \in BOOLEAN : Finish(j, files)

Next ==
    \/ \E j \in Jobs :
         \/ \E ok \in BOOLEAN : Create(j, ok)
         \/ Get(j) \/ Cancel(j) \/ _notify_terminal(j)
         \/ run_job(j) \/ Resume(j)
         \/ _delete_job(j) \/ Tick(j)
    \/ Crash \/ _load_from_db \/ Serve

Spec == Init /\ [][Next]_vars

\* The event loop runs every ready task, execute_one returns or raises (its
\* upstream calls have timeouts), interactive load clears at some poll, and
\* the service manager restarts a dead daemon.
Fairness ==
    /\ \A j \in Jobs : WF_vars(run_job(j)) /\ WF_vars(Resume(j)) /\ WF_vars(_notify_terminal(j))
    /\ WF_vars(_load_from_db) /\ WF_vars(Serve)

FairSpec == Spec /\ Fairness

-----------------------------------------------------------------------------
(***************************************************************************)
(* Properties.                                                             *)
(***************************************************************************)

\* Every variable has its type; a task and an entry of the resume list always
\* belong to a job that is in memory.
TypeOK ==
    /\ mode \in {"down", "boot", "up"}
    /\ todo \in SUBSET Jobs
    /\ mem \in [Jobs -> Job \cup {NoJob}]
    /\ db \in [Jobs -> Job \cup {NoJob}]
    /\ pc \in [Jobs -> {"none", "queued", "loop", "sleep", "exec", "finish"}]
    /\ cur \in [Jobs -> Items]
    /\ due \in SUBSET Jobs /\ notified \in SUBSET Jobs
    /\ late \in SUBSET Jobs /\ created \in SUBSET Jobs /\ erased \in SUBSET Jobs
    /\ hooks \in [Jobs -> Seq(Status)]
    /\ starts \in [Jobs -> [Items -> Nat]]
    /\ crashes \in 0..MaxCrashes /\ fails \in 0..MaxFails
    /\ \A j \in Jobs : pc[j] # "none" \/ j \in todo \cup due => mem[j] # NoJob

\* The copies of a job: the object in memory and the row in SQLite.
Copies(j) == {mem[j], db[j]} \ {NoJob}

\* In every copy of a job, at every moment, an item has exactly one result
\* line when it was answered and none otherwise, and a job called completed
\* has answered every item: no crash, retry, expiry or cancel duplicates or
\* drops a line of the output that run_job collects.
ResultsExact ==
    \A j \in Jobs : \A job \in Copies(j) :
        /\ \A i \in Items : job.lines[i] = IF job.items[i] \in {"completed", "failed"} THEN 1 ELSE 0
        /\ job.status = "completed" => \A i \in Items : job.lines[i] = 1

\* As long as SQLite accepts the writes, a job is announced at most once in
\* its life, crashes included, and the announced status is the stored one:
\* _notify_terminal runs after _persist and terminal jobs are never re-run.
AnnouncedOnce ==
    fails = 0 =>
        \A j \in Jobs :
            /\ Len(hooks[j]) <= 1
            /\ Len(hooks[j]) = 1 /\ db[j] # NoJob => db[j].status = hooks[j][1]

\* Once a cancel is in memory or on disk, no further item of the job starts,
\* in this life of the daemon or a later one (cancel, _wait_for_idle, run_job).
CancelHonoured ==
    [][\A j \in Jobs : starts'[j] # starts[j] =>
          \A job \in Copies(j) : ~job.cancel]_vars

\* An item whose answer reached SQLite is never sent to a model again: a
\* restart repeats only the item that was in flight.
AnsweredNotRerun ==
    [][\A j \in Jobs, i \in Items :
          starts'[j][i] # starts[j][i] /\ db[j] # NoJob =>
              db[j].items[i] \notin {"completed", "failed"}]_vars

\* BatchStore implements the client's view of a job, whatever crashes, SQLite
\* errors and erasures happen.
Row == [j \in Jobs |-> IF db[j] = NoJob THEN "none" ELSE db[j].status]
Lifecycle == INSTANCE BatchLifecycle WITH row <- Row
ImplementsLifecycle == Lifecycle!Spec

\* The inductive invariant behind the safety properties.
\* One copy of a job: an open job has lost no item and nobody cancelled it.
SoundCopy(job) ==
    /\ \A i \in Items : job.lines[i] = IF job.items[i] \in {"completed", "failed"} THEN 1 ELSE 0
    /\ job.status = "completed" => \A i \in Items : job.items[i] \in {"completed", "failed"}
    /\ job.status \in {"validating", "in_progress"} =>
          ~job.cancel /\ \A i \in Items : job.items[i] \in {"pending", "completed", "failed"}
    /\ job.status = "cancelling" => job.cancel

\* The row never knows more than the object in memory.
RowBehind(row, job) ==
    /\ Lifecycle!Stage(row.status) <= Lifecycle!Stage(job.status)
    /\ row.status \in Terminal => job.status = row.status
    /\ row.cancel => job.cancel
    /\ \A i \in Items :
          row.items[i] \in {"completed", "failed"} => job.items[i] \in {"completed", "failed"}

\* What the position of a job's task says about the job.
TaskSound(j) ==
    /\ pc[j] = "queued" => mem[j].status # "cancelling"
    /\ InRunning(j) => mem[j].status \in {"in_progress", "cancelling", "expired"}
    /\ pc[j] \in {"sleep", "exec"} => mem[j].items[cur[j]] \notin {"completed", "failed"}
    /\ pc[j] = "finish" /\ mem[j].status = "in_progress" => Pending(mem[j]) = {}

\* The invariant as a whole (memory is empty while the daemon is down, a job
\* that was never created is nowhere).
IInv ==
    /\ TypeOK
    /\ mode = "down" => \A j \in Jobs : mem[j] = NoJob
    /\ \A j \in Jobs :
          /\ j \notin created => mem[j] = NoJob /\ db[j] = NoJob
          /\ \A job \in Copies(j) : SoundCopy(job)
          /\ TaskSound(j)
          /\ mem[j] # NoJob /\ db[j] # NoJob => RowBehind(db[j], mem[j])

\* Every job ends: unless the daemon dies, one it has accepted (the worker
\* neither starves a queued job nor forgets one that is cancelled or expires),
\* and unless it dies again, one that a restart finds unfinished and with work
\* left (resume_incomplete_with, run_job).
Ended(j) == mem[j] # NoJob /\ mem[j].status \in Terminal

Resumable(j) ==
    /\ mode = "boot" /\ j \in todo
    /\ mem[j].status \in {"validating", "in_progress"} /\ Pending(mem[j]) # {}

EveryJobEnds ==
    \A j \in Jobs :
        /\ j \in created /\ crashes = 0 ~> crashes > 0 \/ Ended(j)
        /\ Resumable(j) ~> mode = "down" \/ Ended(j)

=============================================================================
