----------------------------- MODULE Admission -----------------------------
(***************************************************************************)
(* Who is let in by several replicas that count in one Redis: the windowed *)
(* counters of RateLimiter.check, the scoped in-flight gauges of           *)
(* try_acquire_gauges and release_gauges, and their degrade to a SQLite    *)
(* file per replica (auth/rate_limit.py), called in this order by the      *)
(* rate-limit middleware of server/app.py.                                 *)
(*                                                                         *)
(* A replica runs one event loop and nothing awaits between the calls of   *)
(* one loop over counters or gauges, so its other requests wait; each call *)
(* to Redis is a step, and the replicas interleave there.                  *)
(***************************************************************************)
EXTENDS Integers, Sequences, FiniteSets

CONSTANTS
    Requests,
    Replicas,
    Home,        \* the replica that serves each request
    Redis,       \* the shared store; each replica is also its own SQLite file
    Gauges,      \* "inflight:key:..", "inflight:team:..", "inflight:model:.."
    Counters,    \* the counters of one window length
    Leases,      \* the gauges a request needs, in the order they are taken
    Checks,      \* the counters a request is charged to, in that order
    Cap,         \* max_in_flight of each gauge
    Limit,       \* the limit of each counter
    MaxFaults,   \* bound on failed calls to Redis
    MaxCrashes,  \* bound on replicas that die
    MaxWindows   \* bound on window changes

NoRepeat(s) == \A i, j \in DOMAIN s : s[i] = s[j] => i = j

ASSUME AdmissionAssumption ==
    /\ IsFiniteSet(Requests) /\ IsFiniteSet(Replicas) /\ Redis \notin Replicas
    /\ Home \in [Requests -> Replicas]
    /\ Gauges \cap Counters = {}
    /\ Leases \in [Requests -> Seq(Gauges)] /\ Checks \in [Requests -> Seq(Counters)]
    /\ \A r \in Requests : NoRepeat(Leases[r]) /\ NoRepeat(Checks[r])
    /\ Cap \in [Gauges -> Nat \ {0}] /\ Limit \in [Counters -> Nat \ {0}]
    /\ MaxFaults \in Nat /\ MaxCrashes \in Nat /\ MaxWindows \in Nat

VARIABLES
    count,      \* each store's count of each counter and gauge
    degraded,   \* the replicas that count in their own file
    fail_open,  \* rate_limit.fail_open of the fleet: do not count at all then
    pc,         \* where each request is in the middleware
    pos,        \* its place in the loop over Checks or Leases
    todo,       \* the gauges it still has to give back
    wiping,     \* requests that found a negative gauge and are about to SET it 0
    passed,     \* history: requests each counter let through in this window
    outage,     \* history: replicas that counted without Redis in this window
    faults, crashes, windows

vars == <<count, degraded, fail_open, pc, pos, todo, wiping, passed, outage,
          faults, crashes, windows>>
path == <<pc, pos, todo, wiping>>

Stores == Replicas \cup {Redis}
Names == Gauges \cup Counters
Ended == {"done", "refused", "dead"}
InLoop == {"check", "lease", "undo", "exit"}
Points == Ended \cup InLoop \cup {"new", "slot", "run"}

-----------------------------------------------------------------------------
AtLeastZero(n) == IF n < 0 THEN 0 ELSE n

Add(s, k, d) == count' = [count EXCEPT ![s][k] = @ + d]

\* Without Redis replica p counts in its own file, where a gauge stops at zero,
\* or not at all.
Fallback(p, k, d, base) ==
    /\ degraded' = degraded \cup {p}
    /\ outage' = outage \cup {p}
    /\ count' = IF fail_open THEN base ELSE [base EXCEPT ![p][k] = AtLeastZero(@ + d)]

\* Redis counts: also for a replica that was degraded, when it probes and the
\* ping is answered.
Shared(p, k, d) ==
    /\ Add(Redis, k, d)
    /\ degraded' = degraded \ {p}
    /\ UNCHANGED <<outage, faults>>

\* A degraded replica that does not probe yet, or whose ping fails.
Local(p, k, d) ==
    /\ p \in degraded
    /\ Fallback(p, k, d, count)
    /\ UNCHANGED faults

\* The call raises: before Redis has counted, or after it (the answer is lost).
Fails(p, k, d) ==
    /\ faults < MaxFaults
    /\ \E base \in {count, [count EXCEPT ![Redis][k] = @ + d]} : Fallback(p, k, d, base)
    /\ faults' = faults + 1

\* _adjust_gauge and _increment: replica p adds d to k.
Adjust(p, k, d) == Shared(p, k, d) \/ Local(p, k, d) \/ Fails(p, k, d)

\* What it is answered: the new count, and 0 from a replica that does not count.
Answer(p, k) ==
    IF p \notin degraded' THEN count'[Redis][k]
    ELSE IF fail_open THEN 0 ELSE count'[p][k]

\* adjust_gauge has read a negative value: SET 0 is a second command, and when
\* it raises the whole adjustment is repeated in the replica's file.
SetZero(p, g, d) ==
    \/ /\ count' = [count EXCEPT ![Redis][g] = 0]
       /\ UNCHANGED <<degraded, outage, faults>>
    \/ /\ faults < MaxFaults
       /\ Fallback(p, g, d, count)
       /\ faults' = faults + 1

\* One call of adjust_gauge by r: negative counts of Redis take two steps.
Asked(r, g, d) ==
    IF r \in wiping
    THEN SetZero(Home[r], g, d) /\ wiping' = wiping \ {r}
    ELSE /\ Adjust(Home[r], g, d)
         /\ wiping' = IF Answer(Home[r], g) < 0 THEN wiping \cup {r} ELSE wiping

Goto(r, p) == pc' = [pc EXCEPT ![r] = p]

\* The event loop of a replica runs one loop at a time.
Turn(r) == \A q \in Requests \ {r} : Home[q] = Home[r] => pc[q] \notin InLoop

-----------------------------------------------------------------------------
\* limiter.check: nothing has been counted yet.
Enter(r) ==
    /\ pc[r] = "new" /\ Turn(r)
    /\ Goto(r, IF Checks[r] = <<>> THEN "slot" ELSE "check")
    /\ pos' = [pos EXCEPT ![r] = 1]
    /\ UNCHANGED <<count, degraded, fail_open, todo, wiping, passed, outage,
                   faults, crashes, windows>>

\* Mutation: the request that reaches the limit plus one is let through.
BugDenied(v, limit) == v > limit + 1

\* count > limit, for a counter and for a gauge.
Denied(v, limit) == v > limit

\* One turn of the loop of check. What was counted before stays counted when
\* the request is denied: it is answered 429.
Check(r) ==
    /\ pc[r] = "check"
    /\ LET c == Checks[r][pos[r]]
       IN  /\ Adjust(Home[r], c, 1)
           /\ IF Denied(Answer(Home[r], c), Limit[c])
              THEN Goto(r, "refused") /\ UNCHANGED <<pos, passed>>
              ELSE /\ passed' = [passed EXCEPT ![c] = @ \cup {r}]
                   /\ pos' = [pos EXCEPT ![r] = @ + 1]
                   /\ Goto(r, IF pos[r] = Len(Checks[r]) THEN "slot" ELSE "check")
    /\ UNCHANGED <<fail_open, todo, wiping, crashes, windows>>

\* limiter.acquire: the gate of InFlightGate grants a slot or refuses (503).
Acquire(r) ==
    /\ pc[r] = "slot" /\ Turn(r)
    /\ \/ /\ Goto(r, IF Leases[r] = <<>> THEN "run" ELSE "lease")
          /\ pos' = [pos EXCEPT ![r] = 1]
       \/ Goto(r, "refused") /\ UNCHANGED pos
    /\ UNCHANGED <<count, degraded, fail_open, todo, wiping, passed, outage,
                   faults, crashes, windows>>

\* Mutation: on a denial the gauges taken before are kept.
BugUndone(r) == <<Leases[r][pos[r]]>>

\* Mutation: the gauge that denied is given back with those held, and again.
BugTwice(r) == <<Leases[r][pos[r]]>> \o SubSeq(Leases[r], 1, pos[r])

\* What a denial at this gauge gives back: it, then those held.
Undone(r) == <<Leases[r][pos[r]]>> \o SubSeq(Leases[r], 1, pos[r] - 1)

\* One turn of the loop of try_acquire_gauges.
Lease(r) ==
    /\ pc[r] = "lease"
    /\ LET g == Leases[r][pos[r]]
           v == Answer(Home[r], g)
       IN  /\ Asked(r, g, 1)
           /\ CASE r \in wiping' -> UNCHANGED <<pc, pos, todo>>
                [] r \notin wiping' /\ Denied(v, Cap[g]) ->
                      /\ Goto(r, "undo")
                      /\ todo' = [todo EXCEPT ![r] = Undone(r)]
                      /\ UNCHANGED pos
                [] OTHER ->
                      /\ pos' = [pos EXCEPT ![r] = @ + 1]
                      /\ Goto(r, IF pos[r] = Len(Leases[r]) THEN "run" ELSE "lease")
                      /\ UNCHANGED todo
    /\ UNCHANGED <<fail_open, passed, crashes, windows>>

\* One decrement, of the rollback or of release_gauges.
GiveBack(r) ==
    /\ pc[r] \in {"undo", "exit"}
    /\ Asked(r, Head(todo[r]), -1)
    /\ IF r \in wiping' THEN UNCHANGED <<pc, todo>>
       ELSE /\ todo' = [todo EXCEPT ![r] = Tail(@)]
            /\ IF Len(todo[r]) > 1 THEN UNCHANGED pc
               ELSE Goto(r, IF pc[r] = "undo" THEN "refused" ELSE "done")
    /\ UNCHANGED <<fail_open, pos, passed, crashes, windows>>

\* call_next has returned or raised: the finally clause of the middleware.
Answered(r) ==
    /\ pc[r] = "run" /\ Turn(r)
    /\ Goto(r, IF Leases[r] = <<>> THEN "done" ELSE "exit")
    /\ todo' = [todo EXCEPT ![r] = Leases[r]]
    /\ UNCHANGED <<count, degraded, fail_open, pos, wiping, passed, outage,
                   faults, crashes, windows>>

-----------------------------------------------------------------------------
\* A replica dies with its requests. Its file stays; it starts with Redis.
Crash(p) ==
    /\ crashes < MaxCrashes
    /\ \E r \in Requests : Home[r] = p /\ pc[r] \notin Ended \cup {"new"}
    /\ pc' = [r \in Requests |->
                IF Home[r] = p /\ pc[r] \notin Ended \cup {"new"} THEN "dead" ELSE pc[r]]
    /\ wiping' = {r \in wiping : Home[r] # p}
    /\ degraded' = degraded \ {p}
    /\ crashes' = crashes + 1
    /\ UNCHANGED <<count, fail_open, pos, todo, passed, outage, faults, windows>>

\* The next minute: other Redis keys, and the old rows of the files are deleted.
NextWindow ==
    /\ windows < MaxWindows
    /\ windows' = windows + 1
    /\ count' = [s \in Stores |-> [k \in Names |-> IF k \in Counters THEN 0 ELSE count[s][k]]]
    /\ passed' = [c \in Counters |-> {}]
    /\ outage' = degraded
    /\ UNCHANGED <<degraded, fail_open, path, faults, crashes>>

\* Where r still counts in gauge g: taken and not given back.
Counted(r, g) ==
    \/ pc[r] = "lease" /\ \E i \in 1..(pos[r] - 1) : Leases[r][i] = g
    \/ pc[r] = "run" /\ \E i \in DOMAIN Leases[r] : Leases[r][i] = g
    \/ pc[r] \in {"undo", "exit"} /\ \E i \in DOMAIN todo[r] : todo[r][i] = g

Counting(g) == {r \in Requests : Counted(r, g)}

\* Mutation: the key of a gauge has no TTL.
BugExpire(g) == FALSE /\ UNCHANGED vars

\* The TTL of a gauge, an hour that every adjustment starts again. No request
\* lasts that long, so the key only expires when nobody counts in it.
Expire(g) ==
    /\ count[Redis][g] # 0
    /\ Counting(g) = {} /\ wiping = {}
    /\ count' = [count EXCEPT ![Redis][g] = 0]
    /\ UNCHANGED <<degraded, fail_open, path, passed, outage, faults, crashes, windows>>

-----------------------------------------------------------------------------
Init ==
    /\ count = [s \in Stores |-> [k \in Names |-> 0]]
    /\ degraded = {} /\ outage = {} /\ wiping = {}
    /\ fail_open \in BOOLEAN
    /\ pc = [r \in Requests |-> "new"]
    /\ pos = [r \in Requests |-> 1]
    /\ todo = [r \in Requests |-> <<>>]
    /\ passed = [c \in Counters |-> {}]
    /\ faults = 0 /\ crashes = 0 /\ windows = 0

Step(r) == Enter(r) \/ Check(r) \/ Acquire(r) \/ Lease(r) \/ GiveBack(r) \/ Answered(r)

Next ==
    \/ \E r \in Requests : Step(r)
    \/ \E p \in Replicas : Crash(p)
    \/ \E g \in Gauges : Expire(g)
    \/ NextWindow

Spec == Init /\ [][Next]_vars

\* Requests end (the handler has a timeout) and Redis keeps its TTLs.
FairSpec ==
    /\ Spec
    /\ \A r \in Requests : WF_vars(Step(r))
    /\ \A g \in Gauges : WF_vars(Expire(g))

-----------------------------------------------------------------------------
TypeOK ==
    /\ count \in [Stores -> [Names -> Int]]
    /\ degraded \in SUBSET Replicas /\ outage \in SUBSET Replicas
    /\ fail_open \in BOOLEAN
    /\ pc \in [Requests -> Points]
    /\ pos \in [Requests -> Nat \ {0}]
    /\ todo \in [Requests -> Seq(Gauges)]
    /\ wiping \in SUBSET Requests
    /\ passed \in [Counters -> SUBSET Requests]
    /\ faults \in Nat /\ crashes \in Nat /\ windows \in Nat

\* While Redis answers, its gauge is the number of requests that count in it:
\* a denial gives back all it took, a request all it held, each once. A replica
\* that dies leaves it too high, never too low.
GaugesExact ==
    faults = 0 =>
        /\ wiping = {} /\ degraded = {}
        /\ \A g \in Gauges :
             /\ count[Redis][g] >= Cardinality(Counting(g))
             /\ crashes = 0 => count[Redis][g] = Cardinality(Counting(g))

\* The requests that hold a lease of g: those let in, up to its release.
Holders(g) == {r \in Counting(g) : pc[r] # "undo"}

\* While Redis answers, the replicas together never have more requests of a key,
\* team or model in flight than its max_in_flight, also after crashes.
CapHeld == faults = 0 => \A g \in Gauges : Cardinality(Holders(g)) <= Cap[g]

\* An outage multiplies a window limit by at most the number of stores: what
\* one counter lets through in a window is its limit for Redis and its limit for
\* each replica that counted for itself, whenever and however often they change
\* between the two (fail_open: false).
LimitHeld ==
    ~fail_open => \A c \in Counters :
        Cardinality(passed[c]) <= Limit[c] * (1 + Cardinality(outage))

\* Whatever Redis and the replicas do, the gauges in Redis return to zero when
\* the requests have ended: a leak lasts until its TTL.
GaugesDrain == \A g \in Gauges : <>[](count[Redis][g] = 0)

=============================================================================
