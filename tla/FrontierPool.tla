---------------------------- MODULE FrontierPool ----------------------------
(***************************************************************************)
(* The pool of frontier providers (L6): FrontierPool.execute and stream of *)
(* router/frontier_pool.py, the executor that all requests of a slot share *)
(* and its retries (router/frontier.py, router/retry.py), and the circuit  *)
(* breakers whose open state the replicas share in Redis                   *)
(* (router/circuit_breaker.py, router/breaker_redis.py).                   *)
(*                                                                         *)
(* A request awaits only its calls and backoffs; between two of them it    *)
(* runs alone on its replica (Turn). The base URL of the executor is read  *)
(* again at every attempt. Keys are left out: the headers carry the one    *)
(* read before the first await. (effective_base_url reads api_key at every *)
(* attempt, too, to send a Codex token to its own host: in a slot that     *)
(* rotates such tokens with other keys a concurrent request may change the *)
(* host of a retry. No slot here does.)                                    *)
(***************************************************************************)
EXTENDS Naturals, Sequences, FiniteSets

CONSTANTS
    Replicas,
    Escalations, \* the requests that reach L6
    Home,        \* the replica that serves each request
    Streamed,    \* those of them that stream
    Deadlined,   \* the requests with a wall-clock budget
    Pins,        \* what the requests' keys may have as region_pin
    NoPin,       \* no region_pin
    Slots,
    Offered,     \* the slots left by the zdr filter, in order
    Permitted,   \* the slots whose model the allowlists of the key and team permit
    Regional,    \* the slots with an OpenRouter base: "us" and "eu" rewrite it
    Region,      \* the configured region of a slot, or NoPin
    Attempts,    \* attempts of the retry policy
    Threshold,   \* failure_threshold
    MaxFaults    \* bound on failed calls to Redis

ASSUME FrontierAssumption ==
    /\ Home \in [Escalations -> Replicas]
    /\ Streamed \subseteq Escalations /\ Deadlined \subseteq Escalations
    /\ NoPin \notin {"us", "eu"} /\ Pins \subseteq [Escalations -> {"us", "eu", NoPin}]
    /\ Offered \in [Escalations -> Seq(Slots)]
    /\ Permitted \in [Escalations -> SUBSET Slots]
    /\ Regional \subseteq Slots /\ Region \in [Slots -> {"us", "eu", NoPin}]
    /\ Attempts \in Nat \ {0} /\ Threshold \in Nat \ {0} /\ MaxFaults \in Nat

VARIABLES
    pin,        \* region_pin of each request's key
    base,       \* base_url of each executor: "own", or the region it is rewritten to
    failures,   \* failures in a row, up to Threshold
    opened,     \* the local circuit: "closed", "open", "cooled" after the cooldown
    shared,     \* the slots whose snapshot in Redis says open
    store,      \* the breakers share their state (cache.backend = "redis")
    stage, pos, \* where each request is, and the place of Offered it goes on from
    original,   \* original_base of its attempt
    tries,      \* attempts it has made at this slot
    sent,       \* the base its last attempt was sent to
    late,       \* the requests whose budget is spent
    crowded,    \* history: executors that served a pinned request and another at once
    tangled,    \* history: executors that served two pinned requests at once
    revived,    \* history: open circuits since whose opening another replica succeeded
    faults

breakers == <<failures, opened, shared, revived>>
poolVars == <<pin, base, failures, opened, shared, store, stage, pos, original,
              tries, sent, late, crowded, tangled, revived, faults>>

Ended == {"served", "failed", "refused", "expired", "gone"}
InLoop == {"loop", "pick"}
Stages == {"new", "calling"} \cup InLoop \cup Ended

-----------------------------------------------------------------------------
\* _slot_satisfies_region
Satisfies(s, region) == region = NoPin \/ Region[s] = region \/ s \in Regional

\* filter_slots_for_region: the places of the slots that are left, in the order
\* of Offered.
InRegion(r) == {i \in DOMAIN Offered[r] : Satisfies(Offered[r][i], pin[r])}

\* Only execute asks model_permitted.
Route(r) == {i \in InRegion(r) : r \in Streamed \/ Offered[r][i] \in Permitted[r]}

\* The slots that the loop has not passed, and the first of them.
Ahead(r) == {i \in Route(r) : pos[r] <= i}

Place(r) == CHOOSE i \in Ahead(r) : \A j \in Ahead(r) : i <= j

SlotOf(r) == Offered[r][Place(r)]

\* openrouter_base_for_region, which only execute calls.
openrouter_base_for_region(r, s, current) ==
    IF s \in Regional /\ pin[r] # NoPin /\ r \notin Streamed THEN pin[r] ELSE current

\* The requests for which execute rewrites the base of slot s.
Rewrites(r, s) == s \in Regional /\ pin[r] # NoPin /\ r \notin Streamed

At(p, s) == {r \in Escalations : Home[r] = p /\ stage[r] = "calling" /\ SlotOf(r) = s}

\* The event loop of the replica is free.
Turn(r) == \A q \in Escalations : Home[q] = Home[r] => stage[q] \notin InLoop

MoveTo(r, p) == stage' = [stage EXCEPT ![r] = p]

\* continue: the next slot.
NextSlot(r) == MoveTo(r, "loop") /\ pos' = [pos EXCEPT ![r] = Place(r) + 1]

\* The variables of an attempt are out of scope.
Forget(r) ==
    /\ original' = [original EXCEPT ![r] = "own"]
    /\ tries' = [tries EXCEPT ![r] = 0]
    /\ sent' = [sent EXCEPT ![r] = "own"]

-----------------------------------------------------------------------------
\* A command to Redis: it is carried out, or raises and is ignored.
Redis(answered, otherwise) ==
    \/ answered /\ UNCHANGED faults
    \/ faults < MaxFaults /\ faults' = faults + 1 /\ otherwise

\* allow: Redis decides if it answers, the local circuit if it does not. After
\* the cooldown every request is a probe.
allow(p, s, b) ==
    LET mine == b = (opened[p][s] # "open")
    IN  IF store THEN Redis(b = (s \notin shared), mine)
        ELSE mine /\ UNCHANGED faults

\* Mutation: a shared circuit is not closed by a success.
Bugrecord_success(p, s) ==
    /\ failures' = [failures EXCEPT ![p][s] = 0]
    /\ opened' = [opened EXCEPT ![p][s] = "closed"]
    /\ UNCHANGED <<shared, revived, faults>>

record_success(p, s) ==
    /\ failures' = [failures EXCEPT ![p][s] = 0]
    /\ opened' = [opened EXCEPT ![p][s] = "closed"]
    /\ IF store THEN Redis(shared' = shared \ {s}, shared' = shared)
       ELSE UNCHANGED <<shared, faults>>
    /\ revived' = (revived \cup {<<q, s>> : q \in {q \in Replicas : opened[q][s] = "open"}})
                    \ {<<p, s>>}

\* Mutation: what opens here is not published.
Bugrecord_failure(p, s) ==
    /\ failures' = [failures EXCEPT ![p][s] = IF @ < Threshold THEN @ + 1 ELSE @]
    /\ IF failures'[p][s] < Threshold THEN UNCHANGED <<opened, revived>>
       ELSE /\ opened' = [opened EXCEPT ![p][s] = "open"]
            /\ revived' = revived \ {<<p, s>>}
    /\ UNCHANGED <<shared, faults>>

record_failure(p, s) ==
    /\ failures' = [failures EXCEPT ![p][s] = IF @ < Threshold THEN @ + 1 ELSE @]
    /\ IF failures'[p][s] < Threshold THEN UNCHANGED <<opened, shared, revived, faults>>
       ELSE /\ opened' = [opened EXCEPT ![p][s] = "open"]
            /\ IF store THEN Redis(shared' = shared \cup {s}, shared' = shared)
               ELSE UNCHANGED <<shared, faults>>
            /\ revived' = revived \ {<<p, s>>}

-----------------------------------------------------------------------------
\* execute or stream is called; no slot in the region is a 400. (No slot that is
\* permitted is a failure of the pool: "none tried".)
Begin(r) ==
    /\ stage[r] = "new" /\ Turn(r)
    /\ MoveTo(r, IF InRegion(r) = {} THEN "refused" ELSE "loop")
    /\ UNCHANGED <<pin, base, breakers, store, pos, original, tries, sent, late,
                   crowded, tangled, faults>>

\* The head of the loop over the slots.
Loop(r) ==
    /\ stage[r] = "loop"
    /\ IF Ahead(r) = {}
       THEN MoveTo(r, "failed") /\ UNCHANGED <<pos, faults>>
       ELSE \E b \in BOOLEAN :
              /\ allow(Home[r], SlotOf(r), b)
              /\ IF b THEN MoveTo(r, "pick") /\ UNCHANGED pos ELSE NextSlot(r)
    /\ UNCHANGED <<pin, base, breakers, store, original, tries, sent, late,
                   crowded, tangled>>

\* pick_key fails (SecretRefError), or a stream that is late is refused by the
\* guard inside the executor: both count as a failure of the provider.
Blamed(r) ==
    /\ stage[r] = "pick"
    /\ record_failure(Home[r], SlotOf(r))
    /\ NextSlot(r)
    /\ UNCHANGED <<pin, base, store, original, tries, sent, late, crowded,
                   tangled>>

\* no_key: the slot is passed over, and nobody is to blame.
NoKey(r) ==
    /\ stage[r] = "pick"
    /\ NextSlot(r)
    /\ UNCHANGED <<pin, base, breakers, store, original, tries, sent, late, crowded,
                   tangled, faults>>

\* guard_upstream ends a plain request that is late; the base is restored.
Expire(r) ==
    /\ stage[r] = "pick" /\ r \in late \ Streamed
    /\ MoveTo(r, "expired")
    /\ UNCHANGED <<pin, base, breakers, store, pos, original, tries, sent, late,
                   crowded, tangled, faults>>

\* The first attempt: the base is put on the executor, and read by the client.
Call(r) ==
    /\ stage[r] = "pick" /\ r \notin late
    /\ LET p == Home[r]
           s == SlotOf(r)
           others == At(p, s)
       IN  /\ original' = [original EXCEPT ![r] = base[p][s]]
           /\ base' = [base EXCEPT ![p][s] = openrouter_base_for_region(r, s, @)]
           /\ sent' = [sent EXCEPT ![r] = base'[p][s]]
           /\ crowded' = crowded \cup
                {<<p, s>> : q \in {q \in others : Rewrites(q, s) \/ Rewrites(r, s)}}
           /\ tangled' = tangled \cup
                {<<p, s>> : q \in {q \in others : Rewrites(q, s) /\ Rewrites(r, s)}}
    /\ tries' = [tries EXCEPT ![r] = 1]
    /\ MoveTo(r, "calling")
    /\ UNCHANGED <<pin, breakers, store, pos, late, faults>>

\* Mutation: one attempt too many.
BugMayRetry(r) == r \notin Streamed \cup late /\ tries[r] <= Attempts

\* A stream is not retried, and nothing is after the deadline.
MayRetry(r) == r \notin Streamed \cup late /\ tries[r] < Attempts

\* with_retries: a transient failure and its backoff; or the payload is sent again at
\* once, without the service tier or the speed that was refused, which is no retry and
\* which streams do as well. The client is built anew for the base of now.
Retry(r) ==
    /\ stage[r] = "calling" /\ Turn(r)
    /\ \/ MayRetry(r) /\ tries' = [tries EXCEPT ![r] = @ + 1]
       \/ UNCHANGED tries
    /\ sent' = [sent EXCEPT ![r] = base[Home[r]][SlotOf(r)]]
    /\ UNCHANGED <<pin, base, breakers, store, stage, pos, original, late, crowded,
                   tangled, faults>>

\* Mutation: the base is only restored after an answer.
BugRestore(r) ==
    IF stage'[r] # "served" \/ openrouter_base_for_region(r, SlotOf(r), original[r]) = original[r]
    THEN UNCHANGED base
    ELSE base' = [base EXCEPT ![Home[r]][SlotOf(r)] = original[r]]

\* The finally clause: a base this attempt has rewritten is set back.
Restore(r) ==
    IF openrouter_base_for_region(r, SlotOf(r), original[r]) = original[r]
    THEN UNCHANGED base
    ELSE base' = [base EXCEPT ![Home[r]][SlotOf(r)] = original[r]]

\* The provider answers; the last event of a stream has come.
Answer(r) ==
    /\ stage[r] = "calling" /\ Turn(r)
    /\ record_success(Home[r], SlotOf(r))
    /\ MoveTo(r, "served")
    /\ Restore(r) /\ Forget(r)
    /\ UNCHANGED <<pin, store, pos, late, crowded, tangled>>

\* The retries are spent, or the error is none to retry: the next slot, also
\* for a stream that has relayed text. 429 and 529 do not count.
Fail(r) ==
    /\ stage[r] = "calling" /\ Turn(r)
    /\ \/ record_failure(Home[r], SlotOf(r))
       \/ UNCHANGED <<breakers, faults>>
    /\ NextSlot(r)
    /\ Restore(r) /\ Forget(r)
    /\ UNCHANGED <<pin, store, late, crowded, tangled>>

\* The client hangs up.
HangUp(r) ==
    /\ stage[r] = "calling" /\ Turn(r)
    /\ MoveTo(r, "gone")
    /\ Restore(r) /\ Forget(r)
    /\ UNCHANGED <<pin, breakers, store, pos, late, crowded, tangled, faults>>

\* The wall-clock budget is spent.
Spend(r) ==
    /\ r \in Deadlined \ late /\ stage[r] \in {"new", "calling"}
    /\ late' = late \cup {r}
    /\ UNCHANGED <<pin, base, breakers, store, stage, pos, original, tries, sent,
                   crowded, tangled, faults>>

\* cooldown_seconds after a replica has opened its circuit.
Cool(p, s) ==
    /\ opened[p][s] = "open"
    /\ opened' = [opened EXCEPT ![p][s] = "cooled"]
    /\ revived' = revived \ {<<p, s>>}
    /\ UNCHANGED <<pin, base, failures, shared, store, stage, pos, original, tries,
                   sent, late, crowded, tangled, faults>>

\* ... and after the last one has: each that opens writes the snapshot anew.
CoolShared(s) ==
    /\ s \in shared
    /\ \A p \in Replicas : opened[p][s] = "open" => <<p, s>> \in revived \/ faults > 0
    /\ shared' = shared \ {s}
    /\ UNCHANGED <<pin, base, failures, opened, store, stage, pos, original, tries,
                   sent, late, crowded, tangled, revived, faults>>

-----------------------------------------------------------------------------
\* Earlier requests may have failed, not often enough to open a circuit.
PoolInit ==
    /\ pin \in Pins
    /\ base = [p \in Replicas |-> [s \in Slots |-> "own"]]
    /\ \E n \in 0..(Threshold - 1) : failures = [p \in Replicas |-> [s \in Slots |-> n]]
    /\ opened = [p \in Replicas |-> [s \in Slots |-> "closed"]]
    /\ shared = {} /\ store \in BOOLEAN
    /\ stage = [r \in Escalations |-> "new"] /\ pos = [r \in Escalations |-> 1]
    /\ original = [r \in Escalations |-> "own"]
    /\ tries = [r \in Escalations |-> 0]
    /\ sent = [r \in Escalations |-> "own"]
    /\ late = {} /\ crowded = {} /\ tangled = {} /\ revived = {}
    /\ faults = 0

Step(r) ==
    \/ Begin(r) \/ Loop(r) \/ Blamed(r) \/ NoKey(r) \/ Expire(r) \/ Call(r)
    \/ Retry(r) \/ Answer(r) \/ Fail(r) \/ HangUp(r)

PoolNext ==
    \/ \E r \in Escalations : Step(r) \/ Spend(r)
    \/ \E p \in Replicas, s \in Slots : Cool(p, s)
    \/ \E s \in Slots : CoolShared(s)

PoolSpec == PoolInit /\ [][PoolNext]_poolVars

-----------------------------------------------------------------------------
Bases == {"own", "us", "eu"}

PoolTypeOK ==
    /\ pin \in Pins
    /\ base \in [Replicas -> [Slots -> Bases]]
    /\ failures \in [Replicas -> [Slots -> 0..Threshold]]
    /\ opened \in [Replicas -> [Slots -> {"closed", "open", "cooled"}]]
    /\ shared \in SUBSET Slots /\ store \in BOOLEAN
    /\ stage \in [Escalations -> Stages] /\ pos \in [Escalations -> Nat \ {0}]
    /\ original \in [Escalations -> Bases] /\ sent \in [Escalations -> Bases]
    /\ tries \in [Escalations -> 0..Attempts]
    /\ late \in SUBSET Deadlined
    /\ crowded \in SUBSET (Replicas \X Slots) /\ tangled \in SUBSET (Replicas \X Slots)
    /\ revived \in SUBSET (Replicas \X Slots)
    /\ faults \in Nat

\* Every attempt of a plain request, retries included, goes to a host of its
\* pin, and without a pin to the configured one: as long as the executor never
\* serves a pinned request and another at the same time. (A pinned stream goes
\* to whatever host the executor has.)
RegionKept ==
    \A r \in Escalations \ Streamed :
        stage[r] = "calling" /\ <<Home[r], SlotOf(r)>> \notin crowded =>
            IF Rewrites(r, SlotOf(r)) THEN sent[r] = pin[r]
            ELSE sent[r] = "own" /\ (pin[r] = NoPin \/ Region[SlotOf(r)] = pin[r])

\* "restored after": an executor that no pinned request uses has its configured
\* base, whoever fails, hangs up or runs out of time; also when pinned requests
\* overlap with others, but not when two of them overlap.
BaseRestored ==
    \A p \in Replicas, s \in Slots :
        /\ \A r \in At(p, s) : ~Rewrites(r, s)
        /\ <<p, s>> \notin tangled
        => base[p][s] = "own"

\* As long as Redis answers, no replica of the fleet begins a call to a provider
\* whose circuit one of them (with Redis) or itself (without) has opened, until
\* the cooldown or a success since: a call under way may still bring one.
OpenStops ==
    [][\A r \in Escalations :
        stage[r] = "loop" /\ stage'[r] = "pick" /\ faults = 0 /\ faults' = 0 =>
            \A p \in Replicas :
                p = Home[r] \/ store =>
                    opened[p][SlotOf(r)] # "open" \/ <<p, SlotOf(r)>> \in revived]_poolVars

\* As long as Redis answers, no provider is shut out of the fleet by a snapshot
\* that nobody stands for: a replica with Threshold failures in a row, and no
\* success since, is behind each.
SharedJustified ==
    faults = 0 => \A s \in shared : \E p \in Replicas : failures[p][s] = Threshold

=============================================================================
