# daari: verification

TLA+ models of the concurrent core of daari, the local-first gateway and router for LLM
requests, the TLC runs that check them on small instances, and theorems about them that TLAPS
proves for every value of the constants. `PROJECT.json` lists the runs, the mutants (for each
checked property one plausible bug that breaks it), the lines each definition stands for, the
hazards and the theorems.

Contents: [the system](#the-system), [plan](#plan), [modules](#modules), [runs](#runs),
[disagreements found](#disagreements-found), [fairness](#fairness), [proofs](#proofs),
[limits](#limits).

## The system

A request comes in over HTTP (OpenAI, Anthropic, Responses, Ollama or MCP shape), passes
authentication, budgets and rate limits, and goes down a ladder: L0 exact cache, L1 semantic
cache, L2 rules, Lt tools, L3-L5 local models, L6 frontier providers. Batches and background
responses take the same ladder without a client that waits. A daemon is one asyncio event loop:
between two awaits a coroutine runs alone. Several daemons (replicas) may share Redis and
Postgres; the command line opens the same SQLite files from other processes.

| Component (source in `daari/`) | State | Operations | Interacts by | Hard behaviour | What makes it correct |
|---|---|---|---|---|---|
| Batch queue, `gateway/batches.py` | jobs in memory, SQLite rows, one worker semaphore, cancel flags, set of announced jobs | create, get (expires), cancel, run_job, resume at startup, erase | worker calls the router; webhook; sweeps of other processes on the same file | crash between two writes, cancel or expiry during an await, swallowed write errors | one result per item, answered items not re-run, one announcement, cancel honoured, forward-only status, jobs end |
| Fleet batches, `gateway/postgres_batches.py` | one row per job with payload, claim and its time | claim, heartbeat, release, drain, cancel | several replicas | a claim that runs out during an item, whole-row writes after an await, dead owners | one drain at a time, one result per item, an end is final, a stored cancel is honoured |
| Idempotency keys, `gateway/idempotency*.py`, `postgres_idempotency.py` | one row per principal and key: hash, state, answer | resolve (lookup, wait, abandon, begin, reread), complete, abandon | handlers of chat completions; replicas share Postgres | duplicates, lost races, waits that time out, dead owners, cut streams | the key is a lock, a replay answers the same body, answers are final, nobody waits for ever |
| In-flight gate, `auth/rate_limit.py` | in_flight, heap of waiters with futures, drain flag | acquire, release, wake, drop, drain | middleware and batch items hold slots | cancellation between a wake and its task, priority, errors between acquire and try | exact count, nobody sleeps next to a free slot, order |
| Window counters and gauges, `auth/rate_limit.py` | counters per window and scope, gauges with a TTL, degrade state | check, acquire and release gauges, degrade, probe, recover | Redis, or one SQLite file per replica | Redis lost or a replica dead between acquire and release, roll-back of a denial, SET 0 as a second command | caps hold, gauges count their requests and return to zero, an outage multiplies a limit by the stores only |
| Coalesced fills, `cache/singleflight.py`, `router/router.py` | one future per key | begin, finish, do | plain requests and streams share the map; disconnects cancel tasks | leader or waiter hangs up, a stream with nothing to share | one fill, waiters end, errors clear the slot |
| Background responses, `gateway/responses*.py`, `response_store.py`, `postgres_responses.py` | row with status and lease, cancel flags | create, task, heartbeat, get (reclaims), cancel, delete, webhook | replicas share the store and Redis flags | read-then-write on two replicas, owner dies, late heartbeat | terminal is final, deleted stays gone, told once, polled jobs end |
| Local hosts, `router/local_pool.py`, `circuit_breaker.py`, `deadline.py` | health, outstanding, breaker, per host | pick, execute, acquire, release, probe, cooldown | router's tiers and streams; health loop | failures, breaks, budgets and hang-ups leave by different paths | exact load, breaker counts, calls and requests end, 504 when late |
| Redis-shared breakers, `router/breaker_redis.py` | open snapshots in Redis | publish, clear, load | all breakers | lost publish, success of a call that began before the opening | an open circuit is open everywhere, and only while somebody stands for it |
| Frontier pool, `router/frontier_pool.py`, `frontier.py` | slots, executors with key and base URL, breakers | execute, stream, filter by region, pick key | L6 of the ladder | base URL set on an executor that requests share, read again by retries | a call goes to its own region, the base is restored |
| Retries, `router/retry.py` | none | with_retries | every upstream call | delay against deadline | never sleeps past the timeout |
| Session affinity, `router/session_affinity.py` | pins, local or Redis | pin, look up, drop | choice of tier and host | degrade to local pins | a pin is followed until it ends |
| Budgets and spend, `auth/budgets.py`, `observability/spend.py`, `usage.py` | limits, windows, carry, boosts, ledger | limit, carry, status, alerts | admission, alerts | boundaries of windows | spend never exceeds the effective limit unnoticed |
| Keys, teams, lockout, `auth/virtual_keys.py`, `key_lockout.py` | rows of keys, counters | create, rotate, revoke, lock | authentication | two Redis calls that are not one | a locked key is let in again after the window |
| Caches, `cache/` | L0 and L1 entries | get, put, prune | router | stale hits | an answer of the same key |
| MCP, `gateway/mcp*.py` | tasks, tokens, revoked ids | submit, cancel, complete, proxy | tools, OAuth | result against cancel, restart | a cancelled task stays cancelled |
| Audit, `enterprise/audit.py`, `postgres_audit.py` | chain of hashed rows | append, prune, verify | every admin action; CLI and daemon on one file, replicas on one table | two writers read one tip, a prune during an append | no row is lost, the chain verifies unless somebody tampered, tampering is found |
| Routing ladder, `router/router.py` | learned profile, pins | route, stream, escalate | all of the above | fallbacks and escalations | the ladder is followed downwards |
| Endpoints, enterprise service, observability, erasure, server, configuration, CLI, setup, learning, packaging | settings, files, counters | translation, polling, one-shot commands | | | left out, see [limits](#limits) |

## Plan

In order of importance; all but 10 are done.

1. `BatchStore` with the abstract `BatchLifecycle`, and its proofs.
2. `Idempotency` and its proofs.
3. `InFlightGate` and its proofs.
4. `SingleFlight` and its proofs.
5. `ResponseJobs` and its proofs.
6. `LocalPool` (hosts, breakers, ladder, budget) and its proofs.
7. `Admission`: window counters and scoped gauges over Redis with degrade and recovery.
8. `FleetBatches`: claim, heartbeat, drain and cancel of a `PostgresBatchStore` by replicas.
9. `FrontierPool`: the executors that requests share, and breakers that replicas share.
10. `Limits` (budget windows, carry-over, retry delays): dropped. It is arithmetic over calendar
    time without a second actor, which the unit tests of the repository reach.
11. Proofs for 7 and 8.
12. `AuditChain`: the hash chain on both backends.
13. Proofs for 9 and 12, and of the properties that were only model-checked (`AnnouncedOnce`,
    `ToldOnce`, `LimitHeld`).

Compositions: `BatchStore` implements `BatchLifecycle`. `FleetBatches` does not: a whole-row write
may take a status back, so it states its own properties of ends and cancels instead. The modules
of the request path share no state and nest: a request passes `check` of `Admission`, takes its slot in `InFlightGate` (the step
`Acquire` of `Admission`), then its gauges; the handler, with its slot of `Idempotency`, is the step `Answered`
of `Admission` and one `run` of `InFlightGate`; in it a fill of `SingleFlight` is one descent of
the ladder of `LocalPool`, whose fall to L6 is one `execute` of `FrontierPool`.

A disagreement that was shown by a run of its own, and whose run made place for a new module,
keeps its text under [disagreements found](#disagreements-found).

## Modules

**`BatchStore`** (`gateway/batches.py`, the lifespan hook of `server/app.py`). `mem` is
`_batches`, `db` the rows of `batch_jobs`, `pc` and `cur` the `run_job` task of each job, `due`
the jobs whose `_notify_terminal` is the next statement. `Create`, `Get`, `Cancel` are the
handlers; `Start`, `LoopHead`, `_wait_for_idle`, `ItemDone`, `Finish` are `run_job`, cut at its
awaits and after each `_persist`, because a crash between a write and what follows leaves
something behind; `_load_from_db`, `Resume`, `Serve` are the startup; `_delete_job` the erasure
and retention sweeps. A body, an answer and an error are not represented: a job's results are the
number of lines per item, its times are the fact that `expires_at` has passed (`Tick`).
`_persist` may fail silently (`MaxFails`).
**`BatchLifecycle`** is the client's view: a stored status only moves forward.

**`Idempotency`** (`idempotency.py`, `idempotency_store.py`, `postgres_idempotency.py`, the chat
completion handlers of `openai.py`). One key: keys do not interact. An action is one SQL
statement with the code up to the next; `Turn` lets only one request be between two statements of
`resolve_idempotency` in a single process, and any number in a fleet. An answer is the request
that produced it. `Resolve`, `WaitGone`, `WaitComplete`, `WaitTimeout`, `Abandon`, `Begin`,
`Reread` are `resolve_idempotency`; `Complete`, `CutStream`, `Fail` the handlers; `Die` an owner
whose process or task dies; `Remove` an erasure or the sweep. `Fail` is every path that abandons
the slot, that of a stream which `ensure_capable` refuses included. A disabled store and the sweep's
clock are left out; errors of Postgres are in it only by what they lead to (`noops`).

**`InFlightGate`** (`RateLimiter.acquire`, `release`, `_wake_next_locked`, `_drop_waiter`,
`begin_drain`, the middleware). Nothing awaits under the limiter's lock, so each method is one
step; what interleaves is the time between the result of a future and its task. `lost` is the
history of requests that ended without giving their slot back: `StoreError`, where an exception
of the fallback store leaves between acquire and the try, or in the finally before the release.
`max_in_flight = 0` means no gate and is excluded by the assumption.

**`SingleFlight`** (`singleflight.py`, `_route_generation`, `stream_openai_chunks`,
`disconnect.py`). `_inflight` is the map, `fut` the futures. A fill ends in any outcome a fill
has: text, tool calls, the same as a stream shares it (text only), error, cancellation. Both
callers are there because they differ: `do` clears the slot on every path, the stream in its
finally clause. `stream_anthropic_events` does not use the map; `_lookup_flight` of the semantic
cache uses the same `do`.

**`ResponseJobs`** (`responses.py`, `responses_job_cancel.py`, `postgres_responses.py`). One job,
its task and heartbeat on `Owner`, polls, cancels and deletes on any replica. Each handler reads
the row and writes it in two transactions; `stale` holds those between the two whose row has
changed, `Turn` says that on one replica nothing runs in between. `put` is one step; a statement may
raise, be it stored or not (`StoreRaises`, `BeatRaises`, `RequestRaises`). Only a crash
of the owner is modelled: another replica's crash merely aborts its handlers. The dedupe of
webhooks by Redis is left out.

**`LocalPool`** (`local_pool.py`, `circuit_breaker.py`, `deadline.py`, the ladder in
`router.py`). `healthy`, `outstanding`, `failures`, `circuit` per host; `tier`, `host`, `tried`,
`late` per request. Plain requests loop in `LocalBackendPool.execute` below
`_route_generation_fill`; streams have the loop in `stream_openai_chunks`. Where they differ
the model does: a plain request meets the guard of `deadline.py` before the pick
(`EnterTier`) and again inside `execute` (`CallTooLate`), a stream after the pick; a stream can
break off (`Break`), may fail when its budget is spent, and ends with an in-band error on the
last rung. `Work` is what a request has left: hosts not tried on its rung, and the rungs below. `warm_models` is empty because nothing assigns to
`Router._warm_models`. Which rung comes first is a choice of the profile: any.

**`Admission`** (`rate_limit.py`: `check`, `try_acquire_gauges`, `release_gauges`,
`_adjust_gauge`, `_increment` and the degrade; the rate-limit middleware of `app.py`). `count` has
the counts of every store: Redis, and the SQLite file of each replica. `pos` and `todo` are the
loops over counters and over gauges to take or give back. Nothing awaits inside such a loop, so
`Turn` lets a replica run one loop at a time, while other replicas interleave at every command to
Redis. A command is answered, raises before or after Redis has counted, or is not sent by a
replica that is `degraded`; a probe that succeeds is a command that is answered. `wiping` are the
requests between a negative answer and the `SET 0` that follows it. `Expire` is the TTL of a
gauge, which every adjustment renews: it fires when nobody counts in it. `passed` and `outage` are
histories of the window. Which counters and gauges apply is the functions `Checks` and `Leases`.

**`FleetBatches`** (`postgres_batches.py` with the `cancel`, `resume_incomplete_with` and
`run_job` it inherits). One job: jobs only share the worker. `row` is the payload, `by` and `stale`
the claim; every `_fetch` builds a new object, so `job` is the copy of each worker and `hand` that
of a cancel between its read and its write. `Boot` is the resume at startup, `Claim` is
`_try_claim`, `Loop` the loop head with its heartbeat, `Execute` and `Finish` the awaits and what
is stored after them. `Ghost` stands for a `worker_id` that died with its process. `stolen` and
`raced` are histories of the two things that go wrong: a claim taken from a living worker, and a
cancel stored while a worker holds a copy. The `memory:` backend of the tests, whose `_try_claim`
does not ask for the status, is left out.

**`AuditChain`** (`audit.py`, `postgres_audit.py`). A row has its seq, its time stamp (which
stands for everything it says) and two hashes; a hash is the sequence of rows it commits to, so
that equal hashes mean equal histories. `record` is cut at each statement: in SQLite another
process may come between the read of the tip, of the highest seq and the insert (`Writers` are
objects that share no lock); in Postgres the three are one transaction under the advisory lock,
which the prune does not take. `verify` and `_reanchor_chain` are operators; the loop of the
latter is not a recursion but says what it computes, so that it can be proved about: each row
commits to the sequence of the hashed rows before it (`Chain`). The replicas' clocks are taken to
agree. `overlap` is the history of calls that overlapped. Rows from before the chain have no hashes.

**`FrontierPool`** (`frontier_pool.py`, `frontier.py`, `retry.py`, `circuit_breaker.py`,
`breaker_redis.py`, `openrouter.py`, `provider_prefs.py`). A request goes over the slots of its
region (`InRegion`, without any of which it is refused) that its key's allowlists permit (`Route`,
and `Place` for the next one), which are places in the list that is `Offered`;
`base` is the base URL of the executor that all requests of a slot on a replica share,
`original` what an attempt sets back, `sent` where its last attempt went. `failures` and `opened` are
the local breaker of each replica, `shared` the snapshots in Redis. The breaker's clock is the
actions `Cool` and `CoolShared`. `crowded` and `tangled` are histories of executors that served a
pinned request together with another, or two pinned ones; `revived` of open circuits since whose
opening some other replica had a success. A retry counts a try, or
is a post that an attempt repeats with a smaller body and does not count (`Retry`). Which key an
executor has is left out, as the headers carry the one read before the first await; a slot without a key is passed over (`NoKey`).

The MC modules give names and small functions to the constants and define nothing else.

## Runs

| Run | Question | Instance, and why it is enough | Shows |
|---|---|---|---|
| `batch_safety` | Are results, announcements, cancels and statuses right through crashes and erasures? | two jobs of two items, one crash, one erasure: a job waits behind another, and a crash falls between any two writes of either item; symmetric jobs (no liveness here); 972,000 states | `ResultsExact`, `AnnouncedOnce`, `CancelHonoured`, `AnsweredNotRerun`, refinement of `BatchLifecycle` (`ImplementsLifecycle`) |
| `batch_ends` | Does every job end? | two jobs, one item, one crash, one swallowed write | `EveryJobEnds`: without a crash every job, after one every job that the restart finds with work left |
| `idem_key` | Is the key a lock and a replay the answer to its body, in a fleet? | two requests with one body, two with another, one of them a stream, on four replicas; six time-outs and one removal let every owner lose the key once | `OneOwner`, `ReplaySameBody`, `EveryRequestEnds` |
| `gate` | Is the count exact, the order right, and nobody left asleep? | five requests of three priorities, two slots, a queue of two, two faults: a queue that overflows, wakes two at once and loses a waiter in between | `SlotsExact`, `NobodySleeps`, `InTurn`, `EveryWaiterEnds` |
| `flight` | Is there one fill, and does everybody who waits end? | two plain requests and two streams of one key, two clients that hang up: each caller leads, joins, and joins again; keys share nothing | `OneFill`, `SlotHasFiller`, `EveryWaiterEnds` |
| `responses` | Is a terminal status final, the client told once, and does a polled job end? | two replicas; a poll, a cancel and a delete on each; two faults (statements that raise, stored or not, and crashes); 79,000 states | `TerminalIsFinal` (with the three exceptions the code has: a stale writer of another replica, a late job, a commit that raised although stored), `ToldOnce`, `EveryJobEnds` |
| `pool` | Is the load exact, does a request run out of calls, and does every request end? | a plain request and a stream, two tiers, one host for both and one for the lower, threshold two, budgets for both: either host fails, opens, cools down and recovers under the other request | `OutstandingExact`, `CallsAreFinite`, `EveryRequestEnds` |
| `admission` | Do counters and gauges hold their limits in a fleet, and do gauges return to zero? | three requests of a team on two replicas, one of them of a key without limits of its own; caps and limits of one, one failed command, one crash, one change of window: every roll-back, leak and outage meets a second request of the other replica; 468,000 states | `GaugesExact`, `CapHeld`, `LimitHeld`, `GaugesDrain` |
| `fleet` | Does one replica drain a job, is each answer stored once, and is an end final? | two items, two replicas, two crashes, one failed write, claims that run out at any time: a job is taken over, taken over from the living, and cancelled on either replica at every point; 220,000 states | `SoleDrainer`, `AnswersExact`, `CancelSticks`, `EndIsFinal`, `EveryJobEnds` |
| `fleet_cancel` | Does a cancel that was stored stop the job? | the same, without crashes and failed writes | violated, see below |
| `audit` | Does the chain verify, is no record lost, and is tampering found? | three writers, four records after at most one row without hashes, two prunes, one failed write, one row changed or removed by hand, on both backends: two appends overlap each other and a prune, and records follow; 731,000 states | `ChainIntact`, `NothingLost`, `TamperFound`, `PruneRepairs` |
| `frontier` | Does each call go to its region, and is an open circuit open everywhere? | a pinned request and one pinned elsewhere or not at all, which is permitted one slot only, on one replica, a stream on another, two slots of which one serves every region, two attempts, threshold two, one failed command, with Redis and without; 303,000 states | `RegionKept`, `BaseRestored`, `SharedJustified`, `OpenStops`, types |

Some properties are theorems and no longer part of a run: `TypeOK` where the row of the table does
not say types, the inductive invariants, `AnswerIsFinal` (`Idempotency`), `NoOrphan`
(`SingleFlight`), `DeletedStaysGone` (`ResponseJobs`), `CircuitExact`
(`LocalPool`); each was checked by TLC before it was proved.

Counters and faults are bounded in the guards of their actions by the constants `MaxCrashes`,
`MaxFails`, `MaxErase`, `MaxTimeouts`, `MaxRemovals`, `MaxFaults`, `MaxGone`, `MaxWindows`,
`MaxRecords`, `MaxPrunes`, `MaxTampers` and `MaxLegacy`; nothing else is bounded. `failures` of a
breaker is counted up to the threshold, beyond which the code only compares it.
`CHECK_DEADLOCK FALSE` everywhere: all requests, jobs and records may have ended.

## Disagreements found

Shown by a run:

- `fleet_cancel`: with `batches.backend=postgres` a cancel marks and stores an object of its own;
  the worker, which waits for an item or for idle with the copy it read before, writes that copy
  back as a whole row. The cancel is gone, the remaining items run and the job ends completed, on
  one replica as well as on two. `docs/TRACKING.md:2153` and
  `test_cancel_marks_remaining_items_skipped` say that a cancel marks remaining items skipped.

Behaviours that the models have, which contradict a document or comment or deserve a decision; the
properties name them as their exceptions where they touch them.

Batches on SQLite:
- A daemon that dies after the last item was stored and before the final status leaves a job that
  neither the restart hook ("Re-queue validating/in_progress jobs") nor expiry finishes, because
  nothing of it is pending.
- A job that is erased while the daemon holds it is written back by the next `_persist`, although
  `erasure.md:30` counts batch jobs among what an erasure deletes.

Batches on Postgres:
- A job is resumed only at startup of a replica, by one attempt to claim it, under a random
  `worker_id`. A replica that restarts within `claim_ttl` of its own death finds its job claimed
  by a ghost, drops it (`claim_skipped`) and does not try again; `batches.md:37` says that the claim of a crashed worker
  expires and another replica resumes.
- A job in `cancelling` whose worker dies is not claimable, and stays so.
- The heartbeat is sent at the head of the loop only: an item longer than `claim_ttl` lets another
  replica take the claim of a living worker. Both drain then, which is the exception of
  `SoleDrainer`.
- `_wait_for_idle` looks at the copy, so a cancel does not end the wait.

Idempotency, single flight, pools and responses:
- A duplicate whose wait runs out takes the key; the first owner's late answer is stored on the
  new row, whose body may be another, and is replayed for it (`headers.md:21`: the same key with
  another body is a conflict).
- A waiter of a fleet may delete the pending row of a new owner.
- A stream that is cut is stored as the complete answer (`CutStream`).
- A waiter that hangs up cancels the shared future; the stream that leads does not clear a slot
  whose future is done, and every later request of the key fails (`singleflight.py:5`,
  `routing-tiers.md:39`).
- A stream that ends in tool calls shares an empty answer (`blank`).
- `LocalBackendPool.execute` takes a spent budget for a failure of the host: the client gets 503
  and not 504 (`headers.md:13`), and breakers of hosts that were not called count a failure.
- A heartbeat or a finishing job of one replica may overwrite a cancel of another.
- A commit that raises although it was stored: the task has completed its job, its handler of
  errors writes failed over it, and the client is told failed.

Admission:
- A gauge that leaked, because Redis failed or a replica died, heals only after an hour in which
  nobody touches it, since every adjustment renews the TTL; a busy team keeps its leak. A leak in
  a replica's SQLite file has no TTL.
- A refused request raises the gauge for a moment, which can refuse another one that would have fitted.
- A request refused by a later counter has charged the earlier ones: a key over its daily limit
  uses up the minute counter it shares with its team.
- The finally clause runs when `call_next` returns, so a streamed response gives its gauges back
  before it has been streamed.

Audit:
- On SQLite two processes that append at once either lose a row (the insert fails and is
  swallowed) or fork the chain, which `verify` reports as `hash_mismatch` although nobody
  tampered (`auth-and-keys.md:316`).
- The Postgres prune does not take the advisory lock: a row appended during it keeps the hash of
  a predecessor that has been re-hashed.
- The time stamp is taken before the lock, so rows may be out of order of time, and a prune by
  time leaves a gap that `verify` reports as `seq_gap`.
- A prune computes the hashes of what is left again, and hides a row that was changed before.

Frontier pool and breakers:
- A request without a pin, or with another one, that overlaps with a pinned one of the same slot
  may be sent to the wrong region when it retries; two pinned requests that overlap may leave the
  executor's base regional for ever (`TRACKING.md:4524`; the test
  `test_openrouter_region.py:93` has one request).
- A pinned stream is never sent to its region's base.
- `stream` goes on with the next slot after it has relayed text of the one that broke off.
- A stream whose budget is spent counts a failure of each slot that is left.
- A half-open circuit lets everybody through until one call has ended; `circuit_breaker.py:4`
  says one probe.
- An open circuit that could not be published is ignored by its own replica as long as Redis
  answers; `breaker_redis.py:11` says that errors fall back to the state of the process.

## Fairness

Weak fairness of a task's step says that the event loop runs ready tasks, which asyncio does (its
ready queue is first in, first out). Strong fairness is used where another task may take the
loop again and again before this one's turn (`SF` of the job's reads in `ResponseJobs`, of a
request's return to the loop and the end of its call in `LocalPool`): the same queue justifies it. That
calls end is due to their timeouts (`ollama`, `frontier` and `request_deadline_seconds`), in
`Admission` as well. Nothing
forces a client to cancel, delete or hang up, a host to recover or a budget to end. A client polls its job
(`ResponseJobs`), a dead daemon is restarted by its service manager (`BatchStore`, `Boot` of
`FleetBatches`), time passes (`LeaseExpires`; `Expire` of a gauge, weakly fair: an hour without
requests of that gauge comes in a run with finitely many requests). A cancel that was read is
written, as nothing is awaited in between (`CancelWrites`). Nothing is assumed of claims that run out.
`AuditChain` and `FrontierPool` state no fairness and no liveness: their loops go over a finite
list, once.

## Proofs

Proved by TLAPS for all constants that satisfy the module's assumption; the assumptions only type
the constants and ask for finite sets of requests.

- **`BatchStoreProofs`**: the lifecycle refinement, `ResultsExact`, `CancelHonoured`,
  `AnsweredNotRerun`, `AnnouncedOnce` and types from `IInv`. `ResultsExact` alone is not
  inductive: a worker that returns from an await acts on a job it left, so `TaskSound` says for
  each position of the task what the job may have become meanwhile, `SoundCopy` what an open job
  may not have lost, and `RowBehind` that the row never knows more than memory, which is what a
  restart needs. `AnnouncedOnce` needs `AnnounceInv`: while the writes succeed, a job whose
  webhook is due is stored with the status to be announced, an announced status is the status of
  every copy of the job, and a job whose task still runs after an announcement is remembered as
  announced (`notified`).
- **`IdempotencyProofs`**: `OneOwner` (`KeyIsALock`), `ReplaySameBody`, `AnswerIsFinal`, types,
  and `SlotInOneProcess`: in one process the lost race cannot happen.
- **`InFlightGateProofs`**: `SlotsExact`, `NobodySleeps`, `InTurn` and types, for any number of
  requests, ranks, slots and places in the queue. The loop of `_wake_next_locked` is the set
  `Popped`; `FirstOnes` shows, by counting who is ahead of whom, that it wakes as many as there
  are free slots, or all. Hence a heap that a wake leaves not empty means that all slots are taken
  (`LeftFull`), which is `NobodySleeps` and the reason why a newcomer that waits waits rightly.
- **`RouterProofs`**, of `SingleFlight`: `OneFill`, `NoOrphan`, `SlotHasFiller`, types, for any number of
  requests and keys. Each needs the other: a waiter has a filler because the slot it joined had.
  Of `FrontierPool`: `RegionKept`, `BaseRestored`, `SharedJustified`, `OpenStops` and types, for any
  number of replicas, requests, pins, slots and retries. `BaseRestored` is not inductive, for the
  request that restores a base has to know the right one: `BaseRewritten` says that the base of an
  executor is the region of the one pinned request it serves, which has the configured one to put
  back, and `CallsApart` that a second call at the same time is on record. `OpenStops` is a property of steps and
  needs a state before them: a circuit that is open on any replica, and that no other has closed
  since, is open in Redis (`OpenIsShared`).
- **`SharedRowProofs`**, of `ResponseJobs`: `TerminalIsFinal`, `DeletedStaysGone` and `ToldOnce`,
  from the invariant that a handler between its read and its write still holds what it read unless
  it is in `stale`, that one replica has one of them at a time, and that a job that was given up was
  late. For `ToldOnce` no notice goes out while the row is active (`Silent`), and what was told is the
  status of the row or the row is gone (`ToldRight`). With all requests on the owner nothing is ever
  overwritten (`OneReplicaLosesNothing`).
  Of `AuditChain`: all its properties, for any number of writers, records and prunes. A first part
  is about tables of rows alone: a row that is appended with the right predecessor and seq keeps a
  chain linked (`AppendLinked`), as does a prune if time ascends with the seq (`PruneLinked`); every
  hash matches after `_reanchor_chain` (`Reanchored`); a hashed row that is changed or taken out
  breaks the chain (`ChangedBreaks`, `RemovedBreaks`), and no later row heals it (`LaterRow`).
  The invariant `AuditInv` then says when what a writer has read is still so: its seq is free
  (`FreshSeq`), its tip and seq are those of the log as long as nothing has overlapped, or in
  Postgres nothing was pruned (`ChainInv`), and stamps ascend with the seqs (`Ordered`).
- **`LocalPoolProofs`**: `OutstandingExact` by three lemmas on the set of a host's requests (one
  more, one less, the same), `CircuitExact` by one lemma for a success and one for a failure, types,
  and `CallsAreFinite`: `Work` is lexicographic (rungs left, then hosts not tried on this one) and
  written as one number; a call takes a host from what is left (`Left`), a rung given up takes all
  of it, and no recovery of a host gives any back. So a request calls at most hosts times rungs.
- **`AdmissionProofs`**: `GaugesExact`, `CapHeld` and `LimitHeld`, types, for any number of replicas, requests
  and gauges. The invariant is `TypeOK /\ LoopsSound /\ GaugesExact /\ CapHeld`: `LoopsSound`
  says that a request in a loop has something left to take or give back, each gauge once. Without
  it a decrement could not be matched with a request that `Counting` loses by it. `CapHeld` follows at
  the one step that adds a holder, because the answer it was admitted on is at least the number of
  requests that count, itself included. `LimitHeld` is a count over
  several stores: each request that a counter lets through draws a ticket, the store that counted it and the
  number it got there (`LimitInv`). No two requests of a window have the same ticket, no number is
  above the limit, and the stores are Redis and the replicas that were without it, so that there
  are as many requests as tickets at most (`EnoughTickets`).
- **`FleetBatchesProofs`**: `SoleDrainer`, `AnswersExact`, `CancelSticks`, `EndIsFinal` and types,
  for any number of replicas and items. The invariant says what a copy in hand may have missed:
  `CopiesSound` (a copy stores each answer once), `TasksSound` and `HandSound` (what each point of
  the worker and of a cancel knows of its copy), `OwnerDrains` (who drains has the claim, unless it
  was stolen), `NothingLeft` (no item before a worker's place is pending), and `CompletedIsLeft`,
  `EndInHand` and `CancelLeft` (which copies may still be in hand when the row has ended). The last
  three are needed because a write of a whole row is only harmless if no copy that is older than
  the end is left anywhere.

Every safety invariant and every property of steps that a run checks is a theorem. Model-checked
only is liveness (`EveryJobEnds`, `EveryRequestEnds`, `EveryWaiterEnds`, `GaugesDrain`): fairness and ENABLED are out
of the prover's reach. Two components share a module of proofs where their rows or their requests are
of a kind; they share no state.

## Limits

Left out of the components that are modelled: amounts of tokens that are charged after an answer,
soft warnings and the limits of MCP servers (`Admission`); expiry, erasure, announcements, result
files and reads that fail (`FleetBatches`, whose code for these is that of `BatchStore`); keys
and the host that `effective_base_url` derives from one (it reads `api_key` at every attempt, which
matters to a slot that rotates Codex tokens with other keys), the filter for data retention, and the
protocols of providers (`FrontierPool`); clocks that disagree, by which stamps run against the seq
without an overlap and a prune may leave a gap (`AuditChain`);
its listing, export and the limiter of repeated rejections; foreground responses and
the chaining of conversations (`ResponseJobs`); mid-stream continuation, hosts in the cloud and
`round_robin` (`LocalPool`). One thing that `SingleFlight` has and no property speaks of: the L0
lookup is not repeated after `begin`, so a request that missed before a fill ended, and begins
after it, fills once more.

Not modelled: decisions over text (classification, confidence, escalation, rules, compaction,
guardrails), the translation of protocols, similarity and TTLs of caches, session affinity (a map
with a TTL, whose loss costs a cache hit), budgets and spend (arithmetic over calendar time), keys
and teams (rows changed by one statement each), lockout (a counter with a TTL), MCP (its tasks are
a small version of the jobs of `ResponseJobs`; the rest is I/O), settings, the command line, setup
and clients' files, the enterprise service, metrics, traces and logs, packaging. They hold no state
that two actors change, or their logic is data.

The mapped lines are therefore a small share of the repository: of its lines, most are in the
command line, the doctor and setup, settings and their validation, the translation of protocols,
admin endpoints, and the long handlers that call what is modelled here.
