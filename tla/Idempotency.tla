---------------------------- MODULE Idempotency ----------------------------
(***************************************************************************)
(* One Idempotency-Key of one principal: daari/gateway/idempotency.py over *)
(* the stores of idempotency_store.py (SQLite, one process) and            *)
(* postgres_idempotency.py (a fleet), and the request handlers that finish *)
(* or give up the slot they were granted.  Keys do not interact, so one is *)
(* enough.                                                                 *)
(*                                                                         *)
(* A step is one SQL statement with the code up to the next one.  In a     *)
(* single process the statements of resolve_idempotency between two awaits *)
(* run without interruption (Fleet = FALSE); replicas interleave freely.   *)
(* A response body is the request whose execution produced it.             *)
(***************************************************************************)
EXTENDS Naturals, FiniteSets

CONSTANTS
    Requests,     \* requests that carry the key
    Body,         \* the body hash of each
    Streams,      \* those that ask for a stream
    Fleet,        \* TRUE: each request may be served by another replica
    NoRow,        \* the key has no row
    Nobody,       \* no response yet
    MaxTimeouts,  \* bound on waits that run into idempotency.wait_seconds
    MaxRemovals   \* bound on rows removed by an erasure or by the TTL sweep

ASSUME IdempotencyAssumption ==
    /\ Streams \subseteq Requests
    /\ Fleet \in BOOLEAN
    /\ MaxTimeouts \in Nat /\ MaxRemovals \in Nat
    /\ Nobody \notin Requests

VARIABLES
    row,       \* the stored row of the key
    pc,        \* where each request is
    slot,      \* requests holding an IdempotencySlot
    reply,     \* what each request was answered with
    cut,       \* history: requests whose stream broke off
    ran,       \* history: requests that reached the router
    timeouts,  \* history: waits that timed out
    stolen,    \* history: pending rows deleted by a waiter
    removed,   \* history: rows removed from outside
    noops      \* history: requests that lost the race and run without a slot

counts == <<timeouts, stolen, removed, noops>>
vars == <<row, pc, slot, reply, cut, ran, counts>>

-----------------------------------------------------------------------------
Hashes == {Body[r] : r \in Requests}

Row == [hash : Hashes, state : {"pending", "complete"}, answer : Requests \cup {Nobody}]

ASSUME RowAssumption == NoRow \notin Row

Points == {"new", "wait", "abandon", "begin", "reread", "rewait", "run", "done", "dead"}

Reply == [kind : {"none", "own", "failed", "replay", "conflict"}, from : Requests \cup {Nobody}]

\* No await separates these points from the step before: in one process they
\* exclude everybody else.
Inner == {"abandon", "begin", "reread"}
Turn(r) == Fleet \/ \A q \in Requests \ {r} : pc[q] \notin Inner

Goto(r, p)          == pc' = [pc EXCEPT ![r] = p]
Answer(r, kind, by) == /\ Goto(r, "done")
                       /\ reply' = [reply EXCEPT ![r] = [kind |-> kind, from |-> by]]

\* The row settles a request: another body was stored, or an answer to this one.
Settled(r) == row.hash # Body[r] \/ row.state = "complete"

\* Mutation: the answer is replayed whatever the body.
BugSettle(r) ==
    IF row.state = "complete" THEN Answer(r, "replay", row.answer)
    ELSE Answer(r, "conflict", Nobody)

\* 409 for another body, else the stored answer.
Settle(r) ==
    IF row.hash # Body[r] THEN Answer(r, "conflict", Nobody)
    ELSE Answer(r, "replay", row.answer)

-----------------------------------------------------------------------------
\* resolve_idempotency reads the row.
Resolve(r) ==
    /\ Turn(r) /\ pc[r] = "new"
    /\ IF row = NoRow THEN Goto(r, "begin") /\ UNCHANGED reply
       ELSE IF Settled(r) THEN Settle(r)
       ELSE Goto(r, "wait") /\ UNCHANGED reply
    /\ UNCHANGED <<row, slot, cut, ran, counts>>

\* _wait_for_complete returns None: the row is gone.
WaitGone(r) ==
    /\ Turn(r) /\ row = NoRow
    /\ \/ /\ pc[r] = "wait"
          /\ Goto(r, "abandon") /\ UNCHANGED reply
       \/ /\ pc[r] = "rewait"
          /\ Answer(r, "conflict", Nobody)
    /\ UNCHANGED <<row, slot, cut, ran, counts>>

\* _wait_for_complete returns a completed row.
WaitComplete(r) ==
    /\ Turn(r) /\ pc[r] \in {"wait", "rewait"}
    /\ row # NoRow /\ row.state = "complete"
    /\ Settle(r)
    /\ UNCHANGED <<row, slot, cut, ran, counts>>

\* Mutation: the first wait has no bound.
BugWaitTimeout(r) ==
    /\ Turn(r) /\ pc[r] = "rewait"
    /\ row # NoRow /\ row.state = "pending"
    /\ timeouts < MaxTimeouts
    /\ timeouts' = timeouts + 1
    /\ Answer(r, "conflict", Nobody)
    /\ UNCHANGED <<row, slot, cut, ran, stolen, removed, noops>>

\* The wait budget is spent and the row is still pending.  The first wait then
\* takes the key from its owner, the second gives up.
WaitTimeout(r) ==
    /\ Turn(r)
    /\ row # NoRow /\ row.state = "pending"
    /\ timeouts < MaxTimeouts
    /\ timeouts' = timeouts + 1
    /\ \/ /\ pc[r] = "wait"
          /\ IF Settled(r) THEN Settle(r) ELSE Goto(r, "abandon") /\ UNCHANGED reply
       \/ /\ pc[r] = "rewait"
          /\ Answer(r, "conflict", Nobody)
    /\ UNCHANGED <<row, slot, cut, ran, stolen, removed, noops>>

\* store.abandon: DELETE ... AND state = 'pending', whoever began the row.
DropPending == row' = IF row # NoRow /\ row.state = "pending" THEN NoRow ELSE row

Abandon(r) ==
    /\ Turn(r) /\ pc[r] = "abandon"
    /\ DropPending
    /\ stolen' = IF row' # row THEN stolen + 1 ELSE stolen
    /\ Goto(r, "begin")
    /\ UNCHANGED <<slot, reply, cut, ran, timeouts, removed, noops>>

\* Mutation: INSERT OR REPLACE instead of INSERT.
BugBegin(r) ==
    /\ Turn(r) /\ pc[r] = "begin"
    /\ row' = [hash |-> Body[r], state |-> "pending", answer |-> Nobody]
    /\ slot' = slot \cup {r}
    /\ ran' = ran \cup {r}
    /\ Goto(r, "run")
    /\ UNCHANGED <<reply, cut, counts>>

\* store.begin: an insert that fails when the key exists.
Begin(r) ==
    /\ Turn(r) /\ pc[r] = "begin"
    /\ IF row = NoRow
       THEN /\ row' = [hash |-> Body[r], state |-> "pending", answer |-> Nobody]
            /\ slot' = slot \cup {r}
            /\ ran' = ran \cup {r}
            /\ Goto(r, "run")
       ELSE /\ Goto(r, "reread")
            /\ UNCHANGED <<row, slot, ran>>
    /\ UNCHANGED <<reply, cut, counts>>

\* The insert lost the race: read again.  A row that is gone by then is
\* "noop", and the handler runs the request without a slot.
Reread(r) ==
    /\ Turn(r) /\ pc[r] = "reread"
    /\ IF row = NoRow
       THEN /\ Goto(r, "run")
            /\ ran' = ran \cup {r}
            /\ noops' = noops + 1
            /\ UNCHANGED reply
       ELSE /\ IF Settled(r) THEN Settle(r) ELSE Goto(r, "rewait") /\ UNCHANGED reply
            /\ UNCHANGED <<ran, noops>>
    /\ UNCHANGED <<row, slot, cut, timeouts, stolen, removed>>

-----------------------------------------------------------------------------
\* store.complete: UPDATE ... WHERE principal = ? AND idem_key = ?.
StoreAnswer(r) ==
    row' = IF r \in slot /\ row # NoRow
           THEN [row EXCEPT !.state = "complete", !.answer = r] ELSE row

\* The handler answers and completes its slot.
Complete(r) ==
    /\ Turn(r) /\ pc[r] = "run"
    /\ StoreAnswer(r)
    /\ Answer(r, "own", r)
    /\ slot' = slot \ {r}
    /\ UNCHANGED <<cut, ran, counts>>

\* A stream breaks off (the client leaves, or the upstream fails): the finally
\* clause completes the slot with what was collected so far.
CutStream(r) ==
    /\ Turn(r) /\ pc[r] = "run" /\ r \in Streams
    /\ StoreAnswer(r)
    /\ Answer(r, "failed", r)
    /\ cut' = cut \cup {r}
    /\ slot' = slot \ {r}
    /\ UNCHANGED <<ran, counts>>

\* Any other handler that fails gives the slot up, and so does a stream that
\* ensure_capable refuses before it begins.
Fail(r) ==
    /\ Turn(r) /\ pc[r] = "run"
    /\ IF r \in slot THEN DropPending ELSE UNCHANGED row
    /\ Answer(r, "failed", Nobody)
    /\ slot' = slot \ {r}
    /\ UNCHANGED <<cut, ran, counts>>

\* The process of a running request dies: the row stays pending.
Die(r) ==
    /\ pc[r] = "run"
    /\ Goto(r, "dead")
    /\ UNCHANGED <<row, slot, reply, cut, ran, counts>>

\* `daari erase` or the TTL sweep removes the row.
Remove ==
    /\ row # NoRow
    /\ removed < MaxRemovals
    /\ removed' = removed + 1
    /\ row' = NoRow
    /\ UNCHANGED <<pc, slot, reply, cut, ran, timeouts, stolen, noops>>

-----------------------------------------------------------------------------
Init ==
    /\ row = NoRow
    /\ pc = [r \in Requests |-> "new"]
    /\ slot = {} /\ cut = {} /\ ran = {}
    /\ reply = [r \in Requests |-> [kind |-> "none", from |-> Nobody]]
    /\ timeouts = 0 /\ stolen = 0 /\ removed = 0 /\ noops = 0

\* A request inside resolve_idempotency, and in its handler.
resolve_idempotency(r) ==
    \/ Resolve(r)
    \/ WaitGone(r) \/ WaitComplete(r) \/ WaitTimeout(r)
    \/ Abandon(r) \/ Begin(r) \/ Reread(r)

Handler(r) == Complete(r) \/ CutStream(r) \/ Fail(r)

Next ==
    \/ \E r \in Requests : resolve_idempotency(r) \/ Handler(r) \/ Die(r)
    \/ Remove

Spec == Init /\ [][Next]_vars

\* Requests are served, the router answers within its deadline and the polls
\* of a wait see the row.
Fairness == \A r \in Requests : WF_vars(resolve_idempotency(r)) /\ WF_vars(Handler(r))

FairSpec == Spec /\ Fairness

-----------------------------------------------------------------------------
(***************************************************************************)
(* Properties.                                                             *)
(***************************************************************************)

\* Types, and: only a request that runs or died running holds a slot.
TypeOK ==
    /\ row \in Row \cup {NoRow}
    /\ pc \in [Requests -> Points]
    /\ slot \subseteq {r \in Requests : pc[r] \in {"run", "dead"}}
    /\ reply \in [Requests -> Reply]
    /\ cut \subseteq Requests /\ ran \subseteq Requests
    /\ timeouts \in Nat /\ stolen \in Nat /\ removed \in Nat /\ noops \in Nat

\* Nothing has interfered with the key so far: no waiter deleted a pending row,
\* nobody removed the row, no lost race became a run without a slot.
Undisturbed == stolen = 0 /\ removed = 0 /\ noops = 0

\* While nothing interferes, the key is a lock: the pending row belongs to the
\* one request that runs or died, and a completed row means nobody runs.
OneOwner ==
    Undisturbed =>
        /\ \A r \in Requests : pc[r] = "run" => r \in slot
        /\ \A r, q \in slot : r = q
        /\ slot # {} => row # NoRow /\ row.state = "pending" /\ \A r \in slot : row.hash = Body[r]

\* While nothing interferes, a replay is the answer to the same body.
ReplaySameBody ==
    Undisturbed =>
        \A r \in Requests : reply[r].kind = "replay" =>
            reply[r].from # Nobody /\ Body[reply[r].from] = Body[r]

\* While nothing interferes, the stored answer never changes and the router is
\* not called again: every later use of the key replays or conflicts.
AnswerIsFinal ==
    [][Undisturbed' /\ row # NoRow /\ row.state = "complete" => row' = row /\ ran' = ran]_vars

\* In one process the statements of resolve_idempotency do not interleave, so
\* a request with a key is never run without a slot, and only a wait that ran
\* out takes a key from its owner.
SlotInOneProcess ==
    ~Fleet => /\ \A r \in ran : r \in slot \/ pc[r] \in {"done", "dead"}
              /\ stolen <= timeouts

\* Every request ends, whatever happens to the owner of the key: nobody waits
\* for a dead owner for ever.
EveryRequestEnds == \A r \in Requests : <>(pc[r] \in {"done", "dead"})

=============================================================================
