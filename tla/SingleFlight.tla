----------------------------- MODULE SingleFlight -----------------------------
(***************************************************************************)
(* Coalesced fills: begin, finish and do of cache/singleflight.py, with    *)
(* their two callers in router/router.py, _route_generation (a request     *)
(* without stream) and stream_openai_chunks, and the client that hangs up. *)
(*                                                                         *)
(* All of it runs in one event loop.  What interleaves is the time between *)
(* the L0 lookup and begin, the fill, and the time between the result of   *)
(* the shared future and each task that awaits it.                         *)
(***************************************************************************)
EXTENDS FiniteSets, Naturals

CONSTANTS
    Requests,    \* cacheable requests
    Streams,     \* those of them that ask for a stream
    Keys,        \* flight keys
    KeyOf,       \* _fill_flight_key of each request
    MaxGone,     \* bound on the clients that hang up
    None         \* no future

ASSUME FlightAssumption ==
    /\ Streams \subseteq Requests
    /\ KeyOf \in [Requests -> Keys]
    /\ MaxGone \in Nat
    /\ None \notin Requests \X {1, 2}

VARIABLES
    _inflight,  \* the future in the slot of each key
    fut,        \* what has become of each future
    cache,      \* the keys with an answer in L0
    pc,         \* where each request is
    mine,       \* the future each request awaits or fills
    got,        \* how each request ended
    again,      \* history: keys of which a stream found no text in the answer shared
    gone        \* history: the number of clients that hung up

flight == <<_inflight, fut>>
vars == <<flight, cache, pc, mine, got, again, gone>>

\* A request begins at most twice, so that its futures are <<r, 1>> and <<r, 2>>.
Futs == Requests \X {1, 2}

\* "tools": an answer of tool calls.  "blank": the same as a stream shares it,
\* text only.  "cancelled": the CancelledError of the leader or of a waiter.
Shared == {"text", "tools", "blank", "error", "cancelled"}

Points == {"new", "missed", "wait", "fill", "done"}

-----------------------------------------------------------------------------
Goto(r, p) == pc' = [pc EXCEPT ![r] = p]

End(r, how) == Goto(r, "done") /\ got' = [got EXCEPT ![r] = how]

Slot(r) == _inflight[KeyOf[r]]

\* begin finds no future in the slot.
Lead(r, n) ==
    /\ Slot(r) = None
    /\ _inflight' = [_inflight EXCEPT ![KeyOf[r]] = <<r, n>>]
    /\ fut' = [fut EXCEPT ![<<r, n>>] = "pending"]
    /\ mine' = [mine EXCEPT ![r] = <<r, n>>]
    /\ Goto(r, "fill")

\* begin finds one.
Join(r, p) ==
    /\ Slot(r) # None
    /\ mine' = [mine EXCEPT ![r] = Slot(r)]
    /\ Goto(r, p)
    /\ UNCHANGED flight

\* Mutation: the slot is not cleared.
BugFinish(r, v) ==
    /\ fut' = IF fut[mine[r]] = "pending" THEN [fut EXCEPT ![mine[r]] = v] ELSE fut
    /\ UNCHANGED _inflight

finish(r, v) ==
    /\ fut' = IF fut[mine[r]] = "pending" THEN [fut EXCEPT ![mine[r]] = v] ELSE fut
    /\ _inflight' = [_inflight EXCEPT ![KeyOf[r]] = IF @ = mine[r] THEN None ELSE @]

\* The finally clause of a stream calls finish for a pending future only.
StreamFinally(r, v) ==
    IF fut[mine[r]] = "pending" THEN finish(r, v) ELSE UNCHANGED flight

\* Answers of the local tiers are written to L0, those of L6 are not.
MayCache(r, text) ==
    IF text THEN cache' \in {cache, cache \cup {KeyOf[r]}} ELSE cache' = cache

-----------------------------------------------------------------------------
Lookup(r) ==
    /\ pc[r] = "new"
    /\ IF KeyOf[r] \in cache THEN End(r, "text") ELSE Goto(r, "missed") /\ UNCHANGED got
    /\ UNCHANGED <<flight, cache, mine, again, gone>>

\* Mutation: whoever comes leads.
BugBegin(r) ==
    /\ pc[r] = "missed"
    /\ _inflight' = [_inflight EXCEPT ![KeyOf[r]] = <<r, 1>>]
    /\ fut' = [fut EXCEPT ![<<r, 1>>] = "pending"]
    /\ mine' = [mine EXCEPT ![r] = <<r, 1>>]
    /\ Goto(r, "fill")
    /\ UNCHANGED <<cache, got, again, gone>>

\* The awaits since the lookup are over.
begin(r) ==
    /\ pc[r] = "missed"
    /\ Lead(r, 1) \/ Join(r, "wait")
    /\ UNCHANGED <<cache, got, again, gone>>

\* await fut returns or raises, and the request ends with what was shared.
Wake(r) ==
    /\ pc[r] = "wait" /\ fut[mine[r]] \in Shared
    /\ r \in Streams => fut[mine[r]] \notin {"tools", "blank"}
    /\ End(r, fut[mine[r]])
    /\ UNCHANGED <<flight, cache, mine, again, gone>>

\* A stream with no text to replay begins again, and fills whether or not it is
\* the leader.
BeginAgain(r) ==
    /\ pc[r] = "wait" /\ r \in Streams /\ fut[mine[r]] \in {"tools", "blank"}
    /\ Lead(r, 2) \/ Join(r, "fill")
    /\ again' = again \cup {KeyOf[r]}
    /\ UNCHANGED <<cache, got, gone>>

\* do: fill returns or raises.
RouteFilled(r) ==
    /\ pc[r] = "fill" /\ r \notin Streams
    /\ \E how \in {"text", "tools", "error"} :
        finish(r, how) /\ MayCache(r, how = "text") /\ End(r, how)
    /\ UNCHANGED <<mine, again, gone>>

\* Mutation: no finish for a fill that raised.
BugStreamFilled(r) ==
    /\ pc[r] = "fill" /\ r \in Streams
    /\ \/ StreamFinally(r, "text") /\ MayCache(r, TRUE) /\ End(r, "text")
       \/ StreamFinally(r, "blank") /\ MayCache(r, FALSE) /\ End(r, "tools")
       \/ UNCHANGED flight /\ MayCache(r, FALSE) /\ \E how \in {"text", "error"} : End(r, how)
    /\ UNCHANGED <<mine, again, gone>>

\* The generator returns.  Tool calls are not part of the response it shares, and
\* the answer of a stream continued at L6 is not shared at all: its waiters get
\* the error that made it continue.
StreamFilled(r) ==
    /\ pc[r] = "fill" /\ r \in Streams
    /\ \/ StreamFinally(r, "text") /\ MayCache(r, TRUE) /\ End(r, "text")
       \/ StreamFinally(r, "blank") /\ MayCache(r, FALSE) /\ End(r, "tools")
       \/ StreamFinally(r, "error") /\ MayCache(r, FALSE) /\ \E how \in {"text", "error"} : End(r, how)
    /\ UNCHANGED <<mine, again, gone>>

Gone(r) ==
    /\ gone < MaxGone
    /\ gone' = gone + 1
    /\ End(r, "gone")
    /\ UNCHANGED <<cache, mine, again>>

\* The client of a waiter hangs up: its task is cancelled, and with it the
\* future that it awaits, unless that is done.
WaiterGone(r) ==
    /\ pc[r] = "wait"
    /\ fut' = [fut EXCEPT ![mine[r]] = IF @ = "pending" THEN "cancelled" ELSE @]
    /\ UNCHANGED _inflight
    /\ Gone(r)

\* The client of a filler hangs up: do passes the CancelledError on, a stream is
\* abandoned.
FillerGone(r) ==
    /\ pc[r] = "fill"
    /\ IF r \in Streams THEN StreamFinally(r, "error") ELSE finish(r, "cancelled")
    /\ Gone(r)

-----------------------------------------------------------------------------
Init ==
    /\ _inflight = [k \in Keys |-> None]
    /\ fut = [f \in Futs |-> "none"]
    /\ cache \in SUBSET Keys
    /\ pc = [r \in Requests |-> "new"]
    /\ mine = [r \in Requests |-> None]
    /\ got = [r \in Requests |-> "none"]
    /\ again = {} /\ gone = 0

Filled(r) == RouteFilled(r) \/ StreamFilled(r)

Awake(r) == Wake(r) \/ BeginAgain(r)

Next ==
    \E r \in Requests :
        \/ Lookup(r) \/ begin(r)
        \/ Awake(r) \/ Filled(r)
        \/ WaiterGone(r) \/ FillerGone(r)

Spec == Init /\ [][Next]_vars

\* Tasks are scheduled, and every fill ends: upstream calls have timeouts, and a
\* client reads its stream or hangs up.
Fairness == \A r \in Requests : WF_vars(Awake(r)) /\ WF_vars(Filled(r))

FairSpec == Spec /\ Fairness

-----------------------------------------------------------------------------
(***************************************************************************)
(* Properties.                                                             *)
(***************************************************************************)

Fillers(f) == {r \in Requests : pc[r] = "fill" /\ mine[r] = f}

\* Types, and: whoever has begun has a future of its own key, and that exists.
TypeOK ==
    /\ _inflight \in [Keys -> Futs \cup {None}]
    /\ fut \in [Futs -> Shared \cup {"none", "pending"}]
    /\ cache \subseteq Keys
    /\ pc \in [Requests -> Points]
    /\ mine \in [Requests -> Futs \cup {None}]
    /\ got \in [Requests -> Shared \cup {"none", "gone"}]
    /\ again \subseteq Keys /\ gone \in Nat
    /\ \A r \in Requests :
        IF pc[r] \in {"new", "missed"} THEN mine[r] = None
        ELSE mine[r] = None => pc[r] = "done"
    /\ \A r \in Requests :
        mine[r] # None => KeyOf[mine[r][1]] = KeyOf[r] /\ fut[mine[r]] # "none"

\* One upstream fill: two requests fill the same key at the same time only after
\* a stream has found no text in an answer that was shared.
OneFill ==
    \A r, s \in Requests :
        pc[r] = "fill" /\ pc[s] = "fill" /\ KeyOf[r] = KeyOf[s] /\ KeyOf[r] \notin again => r = s

\* Nobody waits for a future that nobody fills.
NoOrphan ==
    \A r \in Requests :
        pc[r] = "wait" /\ fut[mine[r]] = "pending" => Fillers(mine[r]) # {}

\* A slot is cleared when the fill ends, however it ends, unless a waiter
\* cancelled the future.
SlotHasFiller ==
    \A k \in Keys :
        _inflight[k] # None => Fillers(_inflight[k]) # {} \/ fut[_inflight[k]] = "cancelled"

\* Every waiter ends, whatever becomes of the leader.
EveryWaiterEnds == \A r \in Requests : pc[r] = "wait" ~> pc[r] = "done"

=============================================================================
