------------------------------ MODULE LocalPool ------------------------------
(***************************************************************************)
(* The pool of local hosts (router/local_pool.py) with its circuit         *)
(* breakers (router/circuit_breaker.py), and the ladder of tiers by which  *)
(* the router goes through it (router/router.py): plain requests in        *)
(* LocalBackendPool.execute, streams host by host in                       *)
(* stream_openai_chunks, both down to L3 and, if the setting is on, to L6. *)
(*                                                                         *)
(* One process: a request that is in the pool's loop is between two awaits *)
(* and runs alone (Turn). Breakers that share their state by Redis, cloud  *)
(* hosts, round_robin and the continuation of broken streams are left out. *)
(***************************************************************************)
EXTENDS Naturals, FiniteSets, Sequences

CONSTANTS
    Hosts, Requests,
    Streams,             \* the requests that stream
    Deadlined,           \* the requests with a wall-clock budget
    Ladder,              \* the tiers from the highest down, as <<"L4", "L3">>
    Serves,              \* the tiers of each host
    Model,               \* the model a host is configured with
    Threshold,           \* failure_threshold
    frontier_fallback    \* routing.local_pool.frontier_fallback, and L6 is permitted

ASSUME PoolAssumption ==
    /\ Hosts # {} /\ IsFiniteSet(Hosts)
    /\ Streams \subseteq Requests /\ Deadlined \subseteq Requests
    /\ IsFiniteSet(Requests)
    /\ Ladder \in Seq(STRING) /\ Len(Ladder) > 0
    /\ Serves \in [Hosts -> SUBSET STRING]
    /\ Threshold \in Nat \ {0}
    /\ frontier_fallback \in BOOLEAN

VARIABLES
    healthy,        \* what the last probe of each host said
    outstanding,    \* requests each host is said to work on
    failures,       \* failures of each host in a row, up to Threshold
    circuit,        \* "closed", "open", or "half_open" after the cooldown
    pc,             \* where each request is
    tier,           \* the rung of Ladder it is on
    host,           \* the host it has called last
    tried,          \* the hosts it has tried on this rung
    late            \* the requests whose budget is spent

vars == <<healthy, outstanding, failures, circuit, pc, tier, host, tried, late>>

-----------------------------------------------------------------------------
Ended == {"served", "unavailable", "failed", "expired", "gone"}
Points == {"new", "tier", "loop", "calling", "frontier"} \cup Ended

\* The event loop is free.
Turn == \A r \in Requests : pc[r] # "loop"

allow(h) == circuit[h] # "open"

record_success(h) ==
    /\ failures' = [failures EXCEPT ![h] = 0]
    /\ circuit' = [circuit EXCEPT ![h] = "closed"]

record_failure(h) ==
    /\ failures' = [failures EXCEPT ![h] = IF @ < Threshold THEN @ + 1 ELSE @]
    /\ circuit' = [circuit EXCEPT ![h] = IF failures'[h] = Threshold THEN "open" ELSE @]

acquire(h) == outstanding' = [outstanding EXCEPT ![h] = @ + 1]
release(h) == outstanding' = [outstanding EXCEPT ![h] = IF @ > 0 THEN @ - 1 ELSE 0]

\* Router._warm_models, which is never assigned to.
warm_models == {}

\* _eligible: warm hosts only, if there are any.
eligible(t) ==
    LET candidates == {h \in Hosts : t \in Serves[h] /\ healthy[h] /\ allow(h)}
        warm == {h \in candidates : Model[h] \in warm_models}
    IN  IF warm # {} THEN warm ELSE candidates

Remaining(r) == eligible(Ladder[tier[r]]) \ tried[r]

\* _choose with least_outstanding.
choose(hosts) == {h \in hosts : \A g \in hosts : outstanding[h] <= outstanding[g]}

Bottom(r) == tier[r] = Len(Ladder)

Goto(r, p) == pc' = [pc EXCEPT ![r] = p]

\* The next rung.
Down(r) ==
    /\ tier' = [tier EXCEPT ![r] = @ + 1]
    /\ Goto(r, "tier")

-----------------------------------------------------------------------------
\* A request that no cache has answered starts on some rung.
Begin(r) ==
    /\ pc[r] = "new" /\ Turn
    /\ \E i \in 1..Len(Ladder) : tier' = [tier EXCEPT ![r] = i]
    /\ Goto(r, "tier")
    /\ UNCHANGED <<healthy, outstanding, failures, circuit, host, tried, late>>

\* guard_upstream stops a plain request that is late; a stream picks first.
EnterTier(r) ==
    /\ pc[r] = "tier" /\ Turn
    /\ Goto(r, IF r \in late \ Streams THEN "expired" ELSE "loop")
    /\ tried' = [tried EXCEPT ![r] = {}]
    /\ UNCHANGED <<healthy, outstanding, failures, circuit, tier, host, late>>

\* Mutation: a host stays in the loop until its circuit opens.
BugCall(r) ==
    /\ pc[r] = "loop" /\ r \notin late
    /\ \E h \in choose(eligible(Ladder[tier[r]])) :
        /\ acquire(h)
        /\ host' = [host EXCEPT ![r] = h]
    /\ Goto(r, "calling")
    /\ UNCHANGED <<healthy, failures, circuit, tier, tried, late>>

Call(r) ==
    /\ pc[r] = "loop" /\ r \notin late
    /\ \E h \in choose(Remaining(r)) :
        /\ tried' = [tried EXCEPT ![r] = @ \cup {h}]
        /\ acquire(h)
        /\ host' = [host EXCEPT ![r] = h]
    /\ Goto(r, "calling")
    /\ UNCHANGED <<healthy, failures, circuit, tier, late>>

\* The guard before the call: execute takes it for a failure of the host, a stream
\* ends with it.
CallTooLate(r) ==
    /\ pc[r] = "loop" /\ r \in late
    /\ \E h \in choose(Remaining(r)) :
        /\ tried' = [tried EXCEPT ![r] = @ \cup {h}]
        /\ IF r \in Streams
           THEN Goto(r, "expired") /\ UNCHANGED <<failures, circuit>>
           ELSE record_failure(h) /\ UNCHANGED pc
    /\ UNCHANGED <<healthy, outstanding, tier, host, late>>

\* BackendUnavailable. A stream that has failed on the last rung has no fallback.
NoHost(r) ==
    /\ pc[r] = "loop" /\ Remaining(r) = {}
    /\ \/ ~Bottom(r) /\ Down(r)
       \/ /\ Bottom(r) /\ UNCHANGED tier
          /\ Goto(r, IF r \in Streams /\ tried[r] # {} THEN "failed"
                     ELSE IF ~frontier_fallback THEN "unavailable"
                     ELSE IF r \in late THEN "expired" ELSE "frontier")
    /\ UNCHANGED <<healthy, outstanding, failures, circuit, host, tried, late>>

-----------------------------------------------------------------------------
\* The host answers. An empty stream goes down one rung.
Answer(r) ==
    /\ pc[r] = "calling" /\ Turn
    /\ record_success(host[r]) /\ release(host[r])
    /\ \/ Goto(r, "served") /\ UNCHANGED tier
       \/ r \in Streams /\ ~Bottom(r) /\ Down(r)
    /\ UNCHANGED <<healthy, host, tried, late>>

\* It does not: the next host. A stream that has had no token yet goes on as well, even
\* if its budget ended after its first event.
Fail(r) ==
    /\ pc[r] = "calling" /\ Turn
    /\ record_failure(host[r]) /\ release(host[r])
    /\ Goto(r, "loop")
    /\ UNCHANGED <<healthy, tier, host, tried, late>>

\* A stream breaks off after its first token: no other host of this rung.
Break(r) ==
    /\ pc[r] = "calling" /\ Turn
    /\ r \in Streams
    /\ record_failure(host[r]) /\ release(host[r])
    /\ \/ ~Bottom(r) /\ Down(r)
       \/ Bottom(r) /\ Goto(r, "failed") /\ UNCHANGED tier
    /\ UNCHANGED <<healthy, host, tried, late>>

\* The budget ends before the first event of a stream.
Expire(r) ==
    /\ pc[r] = "calling" /\ Turn
    /\ r \in late \cap Streams
    /\ release(host[r])
    /\ Goto(r, "expired")
    /\ UNCHANGED <<healthy, failures, circuit, tier, host, tried, late>>

\* _try_local_pool_frontier_fallback.
Frontier(r) ==
    /\ pc[r] = "frontier" /\ Turn
    /\ \/ Goto(r, "served")
       \/ Goto(r, "unavailable")
    /\ UNCHANGED <<healthy, outstanding, failures, circuit, tier, host, tried, late>>

\* Mutation: only exceptions release the host.
BugGone(r) ==
    /\ pc[r] \in {"tier", "calling", "frontier"} /\ Turn
    /\ Goto(r, "gone")
    /\ UNCHANGED <<healthy, outstanding, failures, circuit, tier, host, tried, late>>

\* The client hangs up; the finally clause releases the host.
Gone(r) ==
    /\ pc[r] \in {"tier", "calling", "frontier"} /\ Turn
    /\ IF pc[r] = "calling" THEN release(host[r]) ELSE UNCHANGED outstanding
    /\ Goto(r, "gone")
    /\ UNCHANGED <<healthy, failures, circuit, tier, host, tried, late>>

\* The wall-clock budget is spent.
Spend(r) ==
    /\ r \in Deadlined \ late /\ Turn
    /\ pc[r] \in {"tier", "calling", "frontier"}
    /\ late' = late \cup {r}
    /\ UNCHANGED <<healthy, outstanding, failures, circuit, pc, tier, host, tried>>

\* check_health has an answer of the host.
Probe(h) ==
    /\ Turn
    /\ healthy' = [healthy EXCEPT ![h] = ~@]
    /\ UNCHANGED <<outstanding, failures, circuit, pc, tier, host, tried, late>>

\* cooldown_seconds have passed.
Cool(h) ==
    /\ circuit[h] = "open" /\ Turn
    /\ circuit' = [circuit EXCEPT ![h] = "half_open"]
    /\ UNCHANGED <<healthy, outstanding, failures, pc, tier, host, tried, late>>

-----------------------------------------------------------------------------
Init ==
    /\ healthy = [h \in Hosts |-> TRUE]
    /\ outstanding = [h \in Hosts |-> 0]
    /\ failures = [h \in Hosts |-> 0]
    /\ circuit = [h \in Hosts |-> "closed"]
    /\ pc = [r \in Requests |-> "new"]
    /\ tier = [r \in Requests |-> 1]
    /\ host = [r \in Requests |-> CHOOSE h \in Hosts : TRUE]
    /\ tried = [r \in Requests |-> {}]
    /\ late = {}

InLoop(r) == Call(r) \/ CallTooLate(r) \/ NoHost(r)
Outcome(r) == Answer(r) \/ Fail(r) \/ Break(r) \/ Expire(r)

Next ==
    \/ \E r \in Requests :
        \/ Begin(r) \/ EnterTier(r) \/ InLoop(r) \/ Outcome(r)
        \/ Frontier(r) \/ Gone(r) \/ Spend(r)
    \/ \E h \in Hosts : Probe(h) \/ Cool(h)

Spec == Init /\ [][Next]_vars

\* Tasks are scheduled, and a call to a host or to L6 ends: it has a timeout.
Fairness ==
    \A r \in Requests :
        /\ WF_vars(InLoop(r)) /\ SF_vars(EnterTier(r))
        /\ SF_vars(Outcome(r)) /\ SF_vars(Frontier(r))

FairSpec == Spec /\ Fairness

-----------------------------------------------------------------------------
(***************************************************************************)
(* Properties.                                                             *)
(***************************************************************************)

TypeOK ==
    /\ healthy \in [Hosts -> BOOLEAN]
    /\ outstanding \in [Hosts -> Nat]
    /\ failures \in [Hosts -> 0..Threshold]
    /\ circuit \in [Hosts -> {"closed", "open", "half_open"}]
    /\ pc \in [Requests -> Points]
    /\ tier \in [Requests -> 1..Len(Ladder)]
    /\ host \in [Requests -> Hosts]
    /\ tried \in [Requests -> SUBSET Hosts]
    /\ late \subseteq Deadlined

\* least_outstanding compares true numbers: what is acquired is released, whoever
\* fails, hangs up or runs out of time (execute's and the streams' finally).
OutstandingExact ==
    \A h \in Hosts :
        outstanding[h] = Cardinality({r \in Requests : pc[r] = "calling" /\ host[r] = h})

\* A circuit is closed until Threshold failures in a row, and only a success closes
\* it again: half open, one failure is enough.
CircuitExact ==
    \A h \in Hosts : circuit[h] = "closed" <=> failures[h] < Threshold

\* The calls that a request may still make, at most: one of each host on each rung
\* from its own down.
Left(r) == Cardinality(IF pc[r] \in {"new", "tier"} THEN Hosts ELSE Hosts \ tried[r])
Work(r) == (Len(Ladder) - tier[r]) * Cardinality(Hosts) + Left(r)

\* Each call uses some of it up, and nothing gives any back: not a host that recovers
\* or cools down, not an empty or a broken stream, not the next rung (execute's
\* while True, _stream_tier_chain).
CallsAreFinite ==
    [][\A r \in Requests :
        /\ Work(r)' <= Work(r)
        /\ pc[r] # "calling" /\ pc'[r] = "calling" => Work(r)' < Work(r)]_vars

\* Every request ends, however the hosts fail and recover.
EveryRequestEnds ==
    \A r \in Requests : pc[r] \in {"tier", "loop", "calling", "frontier"} ~> pc[r] \in Ended

=============================================================================
