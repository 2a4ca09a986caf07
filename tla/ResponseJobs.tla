---------------------------- MODULE ResponseJobs ----------------------------
(***************************************************************************)
(* A background job of the Responses API: create, the job's task and its   *)
(* heartbeat, GET, cancel and DELETE of gateway/responses.py, over the     *)
(* store that the replicas share and the cancel flags of                   *)
(* responses_job_cancel.py.                                                *)
(*                                                                         *)
(* Every handler reads the row and then writes it, in two transactions.    *)
(* Nothing awaits between the two, so on one replica nothing else runs     *)
(* there (Turn); on another replica it does.                               *)
(***************************************************************************)
EXTENDS Naturals, FiniteSets

CONSTANTS
    Replicas, Owner,          \* Owner accepted the job and runs its task
    Gets, Cancels, Deletes,   \* requests about the job; a GET polls for ever
    On,                       \* the replica of each request
    Shared,                   \* cache.backend is redis: cancel flags are shared
    MaxFaults                 \* bound on failing statements and crashes

Requests == Gets \cup Cancels \cup Deletes

ASSUME ResponsesAssumption ==
    /\ Owner \in Replicas
    /\ On \in [Requests -> Replicas]
    /\ Gets \cap (Cancels \cup Deletes) = {} /\ Cancels \cap Deletes = {}
    /\ {"job", "beat"} \cap Requests = {}
    /\ Shared \in BOOLEAN
    /\ MaxFaults \in Nat

VARIABLES
    row,      \* the status in the store
    fresh,    \* the lease of the row has not run out
    job,      \* where the task is
    beat,     \* where its heartbeat is
    pc,       \* where each request is
    flag,     \* the shared cancel flag
    local,    \* the replicas with a cancel flag of their own
    stale,    \* those between read and write whose row has changed since
    notes,    \* history: completion webhooks scheduled for each status, up to 2
    late,     \* history: the lease ran out with the task alive
    lost,     \* history: a stale write happened
    faults    \* history: failed statements and crashes

vars == <<row, fresh, job, beat, pc, flag, local, stale, notes, late, lost, faults>>

-----------------------------------------------------------------------------
Active == {"queued", "in_progress"}
Terminal == {"completed", "failed", "cancelled"}
Statuses == Active \cup Terminal

Actors == {"job", "beat"} \cup Requests

\* "claim", "finish" and "fail" are before a write, "except" in the handler.
JobPoints == {"new", "created", "claim", "running", "finish", "except", "fail", "done"}
BeatPoints == {"none", "sleep", "write", "done"}
Points == {"new", "signal", "write", "done"}

\* Those that have read the row and not yet written it.
Between ==
    {r \in Requests : pc[r] = "write"}
      \cup (IF job \in {"claim", "finish", "fail"} THEN {"job"} ELSE {})
      \cup (IF beat = "write" THEN {"beat"} ELSE {})

Busy(r) == pc[r] \in {"signal", "write"}

\* The event loop of replica p is free.
Turn(p) ==
    /\ \A r \in Requests : On[r] = p => ~Busy(r)
    /\ p = Owner => job \notin {"claim", "finish", "except", "fail"} /\ beat # "write"

\* is_cancel_requested on replica p.
is_cancel_requested(p) == p \in local \/ (Shared /\ flag)

-----------------------------------------------------------------------------
\* put by a.
Put(a, status) ==
    /\ row' = status
    /\ stale' = (stale \cup Between) \ {a}
    /\ lost' = (lost \/ a \in stale)

\* _notify_responses_completion.
Notify(status) == notes' = [notes EXCEPT ![status] = IF @ < 2 THEN @ + 1 ELSE 2]

Reply(r) == pc' = [pc EXCEPT ![r] = IF r \in Gets THEN "new" ELSE "done"]

\* The task ends, and its finally clause stops the heartbeat.
JobEnds == job' = "done" /\ beat' = "done"

\* A task that is stopped is at an await.
Stop ==
    IF job \in {"created", "running"} THEN JobEnds ELSE UNCHANGED <<job, beat>>

\* The status that the task stores at a point before a write.
Storing == [claim |-> "in_progress", finish |-> "completed", fail |-> "failed"]

\* A fault within the bound.
Fault == faults < MaxFaults /\ faults' = faults + 1

-----------------------------------------------------------------------------
\* POST /v1/responses with background: true.
Create ==
    /\ job = "new" /\ Turn(Owner)
    /\ Put("job", "queued") /\ fresh' = TRUE
    /\ job' = "created"
    /\ UNCHANGED <<beat, pc, flag, local, notes, late, faults>>

\* Mutation: the status is not looked at again.
BugGivenUp == row = "none" \/ is_cancel_requested(Owner)

\* The row is gone or cancelled, or a cancel is requested.
GivenUp == row \in {"none", "cancelled"} \/ is_cancel_requested(Owner)

\* The task reads the row to claim it, or to write how it went.
JobReads ==
    /\ Turn(Owner) \/ job = "except"
    /\ \/ job = "created" /\ job' = "claim"
       \/ job = "running" /\ job' = "finish"
       \/ job = "except" /\ job' = "fail"
    /\ ~GivenUp
    /\ UNCHANGED <<row, fresh, beat, pc, flag, local, stale, notes, late, lost, faults>>

JobGivesUp ==
    /\ Turn(Owner) \/ job = "except"
    /\ job \in {"created", "running", "except"}
    /\ GivenUp
    /\ JobEnds
    /\ UNCHANGED <<row, fresh, pc, flag, local, stale, notes, late, lost, faults>>

\* _touch_lease, and the heartbeat starts.
Claim ==
    /\ job = "claim"
    /\ Put("job", Storing[job]) /\ fresh' = TRUE
    /\ job' = "running" /\ beat' = "sleep"
    /\ UNCHANGED <<pc, flag, local, notes, late, faults>>

\* route raises.
RouteFails ==
    /\ job = "running" /\ Turn(Owner)
    /\ job' = "except"
    /\ UNCHANGED <<row, fresh, beat, pc, flag, local, stale, notes, late, lost, faults>>

JobWrites ==
    /\ job \in {"finish", "fail"}
    /\ Put("job", Storing[job]) /\ Notify(Storing[job])
    /\ fresh' = TRUE
    /\ JobEnds
    /\ UNCHANGED <<pc, flag, local, late, faults>>

\* A statement of the task raises, and what it wrote may be stored nevertheless: its
\* handler takes over, or the task dies.
StoreRaises ==
    /\ Fault
    /\ \/ job \in {"claim", "finish"} /\ job' = "except" /\ UNCHANGED beat
       \/ job \in {"except", "fail"} /\ JobEnds
    /\ \/ /\ stale' = stale \ {"job"}
          /\ UNCHANGED <<row, fresh, lost>>
       \/ /\ job \in DOMAIN Storing /\ Put("job", Storing[job])
          /\ fresh' = TRUE
    /\ UNCHANGED <<pc, flag, local, notes, late>>

BeatReads ==
    /\ beat = "sleep" /\ Turn(Owner)
    /\ beat' = IF row \in Active /\ ~is_cancel_requested(Owner) THEN "write" ELSE "done"
    /\ UNCHANGED <<row, fresh, job, pc, flag, local, stale, notes, late, lost, faults>>

BeatWrites ==
    /\ beat = "write"
    /\ Put("beat", "in_progress") /\ fresh' = TRUE
    /\ beat' = "sleep"
    /\ UNCHANGED <<job, pc, flag, local, notes, late, faults>>

BeatRaises ==
    /\ beat \in {"sleep", "write"} /\ (beat = "sleep" => Turn(Owner))
    /\ Fault
    /\ beat' = "done"
    /\ \/ stale' = stale \ {"beat"} /\ UNCHANGED <<row, fresh, lost>>
       \/ beat = "write" /\ Put("beat", "in_progress") /\ fresh' = TRUE
    /\ UNCHANGED <<job, pc, flag, local, notes, late>>

\* _watch_loop of the owner, which runs with a shared backend only.
Watch ==
    /\ Shared /\ Turn(Owner)
    /\ job \in {"created", "running"} /\ is_cancel_requested(Owner)
    /\ Stop
    /\ UNCHANGED <<row, fresh, pc, flag, local, stale, notes, late, lost, faults>>

-----------------------------------------------------------------------------
\* Mutation: a queued job has no lease that could run out.
BugGetReads(r) ==
    /\ r \in Gets /\ pc[r] = "new" /\ Turn(On[r])
    /\ row = "in_progress" /\ ~fresh
    /\ pc' = [pc EXCEPT ![r] = "write"]
    /\ UNCHANGED <<row, fresh, job, beat, flag, local, stale, notes, late, lost, faults>>

\* GET: an expired lease is reclaimed.
GetReads(r) ==
    /\ r \in Gets /\ pc[r] = "new" /\ Turn(On[r])
    /\ row \in Active /\ ~fresh
    /\ pc' = [pc EXCEPT ![r] = "write"]
    /\ UNCHANGED <<row, fresh, job, beat, flag, local, stale, notes, late, lost, faults>>

\* _reclaim_expired_job.
Reclaim(r) ==
    /\ r \in Gets /\ pc[r] = "write"
    /\ Put(r, "failed") /\ Notify("failed")
    /\ fresh' = FALSE
    /\ Reply(r)
    /\ UNCHANGED <<job, beat, flag, local, late, faults>>

\* Mutation: a terminal row is cancelled, too.
BugCancelReads(r) ==
    /\ r \in Cancels /\ pc[r] = "new" /\ Turn(On[r])
    /\ row # "none"
    /\ pc' = [pc EXCEPT ![r] = "write"]
    /\ UNCHANGED <<row, fresh, job, beat, flag, local, stale, notes, late, lost, faults>>

CancelReads(r) ==
    /\ r \in Cancels /\ pc[r] = "new" /\ Turn(On[r])
    /\ row \in Active
    /\ pc' = [pc EXCEPT ![r] = "write"]
    /\ UNCHANGED <<row, fresh, job, beat, flag, local, stale, notes, late, lost, faults>>

\* cancelled is stored, the flags follow.
CancelWrites(r) ==
    /\ r \in Cancels /\ pc[r] = "write"
    /\ Put(r, "cancelled")
    /\ pc' = [pc EXCEPT ![r] = "signal"]
    /\ UNCHANGED <<fresh, job, beat, flag, local, notes, late, faults>>

\* signal_cancel; setting the shared flag may fail.
signal_cancel(r) ==
    /\ local' = local \cup {On[r]}
    /\ \/ flag' = (flag \/ Shared) /\ UNCHANGED faults
       \/ Shared /\ Fault /\ UNCHANGED flag
    /\ IF On[r] = Owner THEN Stop ELSE UNCHANGED <<job, beat>>

CancelSignals(r) ==
    /\ r \in Cancels /\ pc[r] = "signal"
    /\ signal_cancel(r)
    /\ Notify("cancelled")
    /\ Reply(r)
    /\ UNCHANGED <<row, fresh, stale, late, lost>>

DeleteReads(r) ==
    /\ r \in Deletes /\ pc[r] = "new" /\ Turn(On[r])
    /\ row # "none" /\ job # "new"
    /\ pc' = [pc EXCEPT ![r] = "signal"]
    /\ UNCHANGED <<row, fresh, job, beat, flag, local, stale, notes, late, lost, faults>>

\* The flags first, the row follows.
DeleteSignals(r) ==
    /\ r \in Deletes /\ pc[r] = "signal"
    /\ signal_cancel(r)
    /\ pc' = [pc EXCEPT ![r] = "write"]
    /\ UNCHANGED <<row, fresh, stale, notes, late, lost>>

DeleteWrites(r) ==
    /\ r \in Deletes /\ pc[r] = "write"
    /\ row' = "none"
    /\ stale' = (stale \cup Between) \ {r}
    /\ Reply(r)
    /\ UNCHANGED <<fresh, job, beat, flag, local, notes, late, lost, faults>>

\* The write of a request raises (500), be it stored or not: nobody is told and no
\* flag is set any more.
RequestRaises(r) ==
    /\ pc[r] = "write" /\ Fault
    /\ \/ stale' = stale \ {r} /\ UNCHANGED <<row, lost>>
       \/ r \in Gets /\ Put(r, "failed")
       \/ r \in Cancels /\ Put(r, "cancelled")
       \/ /\ r \in Deletes /\ row' = "none"
          /\ stale' = (stale \cup Between) \ {r} /\ UNCHANGED lost
    /\ Reply(r)
    /\ UNCHANGED <<fresh, job, beat, flag, local, notes, late>>

\* LEASE_TTL_SECONDS have passed since the last write of the lease.
LeaseExpires ==
    /\ row \in Active /\ fresh
    /\ fresh' = FALSE
    /\ late' = (late \/ job # "done")
    /\ UNCHANGED <<row, job, beat, pc, flag, local, stale, notes, lost, faults>>

\* The process of the owner dies and comes back without the task; the client
\* polls again.
Crash ==
    /\ job \notin {"new", "done"} /\ Fault
    /\ JobEnds
    /\ pc' = [r \in Requests |->
                IF On[r] = Owner /\ Busy(r) THEN (IF r \in Gets THEN "new" ELSE "done") ELSE pc[r]]
    /\ local' = local \ {Owner}
    /\ stale' = {a \in stale : a \in Requests /\ On[a] # Owner}
    /\ UNCHANGED <<row, fresh, flag, notes, late, lost>>

-----------------------------------------------------------------------------
Init ==
    /\ row = "none" /\ fresh = FALSE
    /\ job = "new" /\ beat = "none"
    /\ pc = [r \in Requests |-> "new"]
    /\ flag = FALSE /\ local = {} /\ stale = {}
    /\ notes = [s \in Terminal |-> 0]
    /\ late = FALSE /\ lost = FALSE /\ faults = 0

Task ==
    \/ JobReads \/ JobGivesUp \/ Claim \/ RouteFails \/ JobWrites
    \/ BeatReads \/ BeatWrites \/ Watch

Handler(r) ==
    \/ GetReads(r) \/ Reclaim(r)
    \/ CancelReads(r) \/ CancelWrites(r) \/ CancelSignals(r)
    \/ DeleteReads(r) \/ DeleteSignals(r) \/ DeleteWrites(r)

Next ==
    \/ Create \/ Task \/ StoreRaises \/ BeatRaises
    \/ \E r \in Requests : Handler(r) \/ RequestRaises(r)
    \/ LeaseExpires \/ Crash

Spec == Init /\ [][Next]_vars

\* The event loop takes ready tasks in turn, however often it is busy, route ends
\* within its deadline, time passes, and a client that waits for its job polls it. Nobody has to cancel or delete.
Fairness ==
    /\ SF_vars(JobReads \/ JobGivesUp) /\ WF_vars(Claim) /\ WF_vars(JobWrites)
    /\ WF_vars(BeatWrites)
    /\ WF_vars(LeaseExpires)
    /\ \A r \in Gets : WF_vars(Handler(r))
    /\ \A r \in Cancels \cup Deletes : WF_vars(Busy(r) /\ Handler(r))

FairSpec == Spec /\ Fairness

-----------------------------------------------------------------------------
(***************************************************************************)
(* Properties.                                                             *)
(***************************************************************************)

TypeOK ==
    /\ row \in Statuses \cup {"none"} /\ fresh \in BOOLEAN
    /\ job \in JobPoints /\ beat \in BeatPoints
    /\ pc \in [Requests -> Points]
    /\ flag \in BOOLEAN /\ local \subseteq Replicas
    /\ stale \subseteq Between
    /\ notes \in [Terminal -> 0..2]
    /\ late \in BOOLEAN /\ lost \in BOOLEAN /\ faults \in Nat
    /\ beat \in {"sleep", "write"} => job \in {"running", "finish", "except", "fail"}

\* Those whose write this step is.
Writer(a) ==
    \/ a = "job" /\ job \in {"claim", "finish", "fail"} /\ job' # job
    \/ a = "beat" /\ beat = "write" /\ beat' # beat
    \/ a \in Requests /\ pc[a] = "write" /\ pc'[a] # pc[a]

\* A terminal status is final: what overwrites it has read the row before it was
\* terminal, on another replica, or is the job that outlived its lease, or the job's
\* handler of an error in a commit that was stored: it writes failed over the task's
\* own completed.
TerminalIsFinal ==
    [][(row \in Terminal /\ row' \notin {row, "none"}) =>
        \E a \in Actors : /\ Writer(a)
                          /\ \/ a \in stale
                             \/ a = "job" /\ row = "failed" /\ late
                             \/ a = "job" /\ row = "completed" /\ job = "fail"]_vars

\* A deleted row comes back only by a write that has read it before, on another
\* replica.
DeletedStaysGone ==
    [][(row = "none" /\ job # "new" /\ row' # "none") => \E a \in stale : Writer(a)]_vars

\* Unless one of these happened, the client is told once, and what the row says.
ToldOnce ==
    ~late /\ ~lost =>
        /\ notes["completed"] + notes["failed"] + notes["cancelled"] <= 1
        /\ \A s \in Terminal : notes[s] > 0 => row \in {s, "none"}

\* A polled job ends, whatever becomes of its owner.
EveryJobEnds == row \in Active ~> row \notin Active

=============================================================================
