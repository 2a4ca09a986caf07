---------------------------- MODULE InFlightGate ----------------------------
(***************************************************************************)
(* The in-flight gate of one process: RateLimiter.acquire, release,        *)
(* _wake_next_locked, _drop_waiter and begin_drain of auth/rate_limit.py,  *)
(* with the callers that hold a slot: the rate-limit middleware of         *)
(* server/app.py and the batch item of gateway/openai.py.                  *)
(*                                                                         *)
(* Nothing awaits under the limiter's asyncio lock, so each method is one  *)
(* step; what interleaves is what happens between the result of a future   *)
(* and the task that awaits it.                                            *)
(***************************************************************************)
EXTENDS Naturals, FiniteSets

CONSTANTS
    Requests,      \* HTTP requests and batch items
    Rank,          \* PRIORITY_RANK of each, lower is served first
    MaxInFlight,   \* rate_limit.max_in_flight; 0 would mean no gate at all
    QueueSize,     \* rate_limit.queue_size
    MaxFaults      \* bound on cancelled tasks and escaping store errors

ASSUME GateAssumption ==
    /\ IsFiniteSet(Requests)
    /\ Rank \in [Requests -> Nat]
    /\ MaxInFlight \in Nat \ {0} /\ QueueSize \in Nat /\ MaxFaults \in Nat

VARIABLES
    in_flight,   \* slots taken
    queued,      \* the waiters counted
    waiters,     \* the heap: who waits, by rank and arrival
    waiter_seq,  \* the next arrival number
    fut,         \* the future of each waiting request
    draining,    \* begin_drain was called
    pc,          \* where each request is
    lost,        \* history: requests that ended without giving their slot back
    faults       \* history: cancelled tasks and escaping store errors

gate == <<in_flight, queued, waiters, waiter_seq, fut, draining>>
vars == <<gate, pc, lost, faults>>

-----------------------------------------------------------------------------
Waiter == [rank : Nat, seq : Nat, req : Requests]

Points == {"new", "wait", "unwind", "run", "done"}

\* Mutation: the sequence number counts down.
BugBefore(v, w) == v.rank < w.rank \/ (v.rank = w.rank /\ v.seq > w.seq)

\* heapq order of (rank, seq, future).
Before(v, w) == v.rank < w.rank \/ (v.rank = w.rank /\ v.seq < w.seq)

\* The waiters whose future nobody has resolved or cancelled.
Live == {w \in waiters : fut[w.req] = "pending"}

Goto(r, p) == pc' = [pc EXCEPT ![r] = p]

Free(n) == IF n < MaxInFlight THEN MaxInFlight - n ELSE 0

\* Mutation: dead entries use up the slots they are popped for.
BugPopped(n) ==
    {w \in waiters : Cardinality({v \in waiters : Before(v, w)}) < Free(n)}

\* The heap entries that _wake_next_locked pops with n slots taken: it goes on
\* until as many live waiters are woken as slots were free.
Popped(n) ==
    {w \in waiters : Cardinality({v \in Live : Before(v, w)}) < Free(n)}

Woken(n) == Popped(n) \cap Live

Taken(n) == n + Cardinality(Woken(n))

WakeFut(n) ==
    [r \in Requests |-> IF \E w \in Woken(n) : w.req = r THEN "woken" ELSE fut[r]]

_wake_next_locked(n) ==
    /\ in_flight' = Taken(n)
    /\ waiters' = waiters \ Popped(n)
    /\ queued' = queued - Cardinality(Popped(n))
    /\ fut' = WakeFut(n)

\* After the wake: a free slot and nobody of the same or a better rank.
MayTake(r) ==
    /\ Taken(in_flight) < MaxInFlight
    /\ \A w \in waiters \ Popped(in_flight) : Rank[r] < w.rank

-----------------------------------------------------------------------------
\* acquire up to its first await.
AcquireTake(r) ==
    /\ pc[r] = "new" /\ ~draining
    /\ MayTake(r)
    /\ in_flight' = Taken(in_flight) + 1
    /\ waiters' = waiters \ Popped(in_flight)
    /\ queued' = queued - Cardinality(Popped(in_flight))
    /\ fut' = WakeFut(in_flight)
    /\ Goto(r, "run")
    /\ UNCHANGED <<waiter_seq, draining, lost, faults>>

AcquireDenied(r) ==
    /\ pc[r] = "new"
    /\ IF draining THEN UNCHANGED <<in_flight, waiters, queued, fut>>
       ELSE /\ ~MayTake(r)
            /\ _wake_next_locked(in_flight)
            /\ queued' >= QueueSize
    /\ Goto(r, "done")
    /\ UNCHANGED <<waiter_seq, draining, lost, faults>>

AcquireWait(r) ==
    /\ pc[r] = "new" /\ ~draining
    /\ ~MayTake(r)
    /\ LET left == queued - Cardinality(Popped(in_flight))
       IN  left < QueueSize /\ queued' = left + 1
    /\ in_flight' = Taken(in_flight)
    /\ waiters' = (waiters \ Popped(in_flight))
                    \cup {[rank |-> Rank[r], seq |-> waiter_seq, req |-> r]}
    /\ waiter_seq' = waiter_seq + 1
    /\ fut' = [WakeFut(in_flight) EXCEPT ![r] = "pending"]
    /\ Goto(r, "wait")
    /\ UNCHANGED <<draining, lost, faults>>

\* Mutation: the resumed task counts itself again.
BugResume(r) ==
    /\ pc[r] = "wait" /\ fut[r] = "woken"
    /\ in_flight' = in_flight + 1
    /\ Goto(r, "run")
    /\ UNCHANGED <<queued, waiters, waiter_seq, fut, draining, lost, faults>>

\* await fut returns.
Resume(r) ==
    /\ pc[r] = "wait" /\ fut[r] = "woken"
    /\ Goto(r, "run")
    /\ UNCHANGED <<gate, lost, faults>>

\* The task of a waiting request is cancelled: its future is too, unless it has
\* its result already.
Cancel(r) ==
    /\ pc[r] = "wait" /\ faults < MaxFaults
    /\ faults' = faults + 1
    /\ fut' = [fut EXCEPT ![r] = IF @ = "pending" THEN "cancelled" ELSE @]
    /\ Goto(r, "unwind")
    /\ UNCHANGED <<in_flight, queued, waiters, waiter_seq, draining, lost>>

\* The CancelledError arrives: _drop_waiter.  It looks for the entry only, so a
\* request that was woken before it was cancelled keeps its slot for ever.
_drop_waiter(r) ==
    /\ pc[r] = "unwind"
    /\ waiters' = {w \in waiters : w.req # r}
    /\ queued' = queued - Cardinality({w \in waiters : w.req = r})
    /\ lost' = IF fut[r] = "woken" THEN lost \cup {r} ELSE lost
    /\ Goto(r, "done")
    /\ UNCHANGED <<in_flight, waiter_seq, fut, draining, faults>>

\* Mutation: a slot is given back without a wake.
BugGiveBack ==
    /\ in_flight' = IF in_flight > 0 THEN in_flight - 1 ELSE 0
    /\ UNCHANGED <<queued, waiters, waiter_seq, fut, draining>>

\* release: one slot less, and a wake.
GiveBack ==
    /\ _wake_next_locked(IF in_flight > 0 THEN in_flight - 1 ELSE 0)
    /\ UNCHANGED <<waiter_seq, draining>>

\* The request is over: a scoped gauge was full, or the application answered or
\* raised and the finally clause runs.
Release(r) ==
    /\ pc[r] = "run"
    /\ GiveBack
    /\ Goto(r, "done")
    /\ UNCHANGED <<lost, faults>>

\* The fallback store of the gauges raises in try_acquire_gauges, which no try
\* surrounds, or in release_gauges, which comes before release.
StoreError(r) ==
    /\ pc[r] = "run" /\ faults < MaxFaults
    /\ faults' = faults + 1
    /\ lost' = lost \cup {r}
    /\ Goto(r, "done")
    /\ UNCHANGED gate

begin_drain ==
    /\ ~draining
    /\ draining' = TRUE
    /\ UNCHANGED <<in_flight, queued, waiters, waiter_seq, fut, pc, lost, faults>>

-----------------------------------------------------------------------------
Init ==
    /\ in_flight = 0 /\ queued = 0 /\ waiters = {} /\ waiter_seq = 0
    /\ fut = [r \in Requests |-> "none"]
    /\ draining = FALSE
    /\ pc = [r \in Requests |-> "new"]
    /\ lost = {} /\ faults = 0

acquire(r) ==
    \/ AcquireTake(r) \/ AcquireDenied(r) \/ AcquireWait(r)
    \/ Resume(r) \/ _drop_waiter(r)

Next ==
    \/ \E r \in Requests : acquire(r) \/ Release(r) \/ Cancel(r) \/ StoreError(r)
    \/ begin_drain

Spec == Init /\ [][Next]_vars

\* Tasks are scheduled and every admitted request ends within its deadline.
Fairness == \A r \in Requests : WF_vars(Resume(r)) /\ WF_vars(_drop_waiter(r)) /\ WF_vars(Release(r))

FairSpec == Spec /\ Fairness

-----------------------------------------------------------------------------
(***************************************************************************)
(* Properties.                                                             *)
(***************************************************************************)

\* Those whom the gate has let in and who have not given their slot back.
Holders == {r \in Requests : pc[r] = "run" \/ (pc[r] \in {"wait", "unwind"} /\ fut[r] = "woken")}

\* Types, and: the counter of waiters is the size of the heap, which holds one
\* entry per request that waits or unwinds.
TypeOK ==
    /\ in_flight \in Nat /\ queued \in Nat /\ waiter_seq \in Nat
    /\ waiters \in SUBSET Waiter /\ IsFiniteSet(waiters) /\ queued = Cardinality(waiters)
    /\ fut \in [Requests -> {"none", "pending", "woken", "cancelled"}]
    /\ draining \in BOOLEAN
    /\ pc \in [Requests -> Points]
    /\ lost \subseteq Requests /\ faults \in Nat

\* The counter is exact: every slot it counts belongs to a request that was let
\* in, or was lost; in particular the cap holds.
SlotsExact ==
    /\ in_flight = Cardinality(Holders) + Cardinality(lost)
    /\ in_flight <= MaxInFlight

\* Nobody sleeps next to a free slot: a cancelled waiter never swallows the
\* wake that was meant for the next one.
NobodySleeps == Live # {} => in_flight = MaxInFlight

\* Priority, then FIFO: whoever is let in has nobody of a better rank, or of its
\* own rank and there before it, left waiting behind.
InTurn ==
    [][/\ \A r \in Requests : pc[r] = "new" /\ pc'[r] = "run" =>
            \A w \in Live' : Rank[r] < w.rank
       /\ \A w \in waiters : fut[w.req] = "pending" /\ fut'[w.req] = "woken" =>
            \A v \in Live' \cap waiters :
                w.rank < v.rank \/ (w.rank = v.rank /\ w.seq < v.seq)]_vars

\* Also while the process drains, every request in the queue is let in or
\* cancelled, as long as one slot is left to go round.
EveryWaiterEnds ==
    \A r \in Requests :
        pc[r] = "wait" ~> pc[r] # "wait" \/ Cardinality(lost) = MaxInFlight

=============================================================================
