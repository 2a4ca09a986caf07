---------------------------- MODULE RouterProofs ----------------------------
(***************************************************************************)
(* Proofs about two things that the requests in a router share while they  *)
(* await: the slots of the single flight (SingleFlight), for every set of  *)
(* requests and keys, and the executors and circuits of the frontier pool  *)
(* (FrontierPool), for every set of replicas, requests and slots.          *)
(***************************************************************************)
EXTENDS SingleFlight, FrontierPool, WellFoundedInduction, TLAPS

-----------------------------------------------------------------------------
(***************************************************************************)
(* The single flight.                                                      *)
(***************************************************************************)

\* A slot that is taken holds a future of its key that is not resolved, and
\* that somebody fills unless a waiter cancelled it.
SlotOpen ==
    \A k \in Keys : _inflight[k] # None =>
        /\ KeyOf[_inflight[k][1]] = k
        /\ fut[_inflight[k]] \in {"pending", "cancelled"}

\* A pending future is in the slot of its key.
PendingInSlot ==
    \A f \in Futs : fut[f] = "pending" => _inflight[KeyOf[f[1]]] = f

\* Futures come into being with begin.
Fresh ==
    \A r \in Requests :
        /\ pc[r] \in {"new", "missed"} => fut[<<r, 1>>] = "none"
        /\ pc[r] \in {"new", "missed", "wait"} => fut[<<r, 2>>] = "none"

\* As long as no stream has begun again, a filler is the leader and has the slot.
FillerLeads ==
    \A r \in Requests :
        pc[r] = "fill" /\ KeyOf[r] \notin again => mine[r] = <<r, 1>> /\ Slot(r) = mine[r]


IInv == TypeOK /\ SlotOpen /\ SlotHasFiller /\ PendingInSlot /\ Fresh /\ FillerLeads

-----------------------------------------------------------------------------
\* A future that exists is none of those that are still to come.
LEMMA NotFresh ==
    ASSUME IInv, NEW f \in Futs, fut[f] # "none", NEW s \in Requests
    PROVE  /\ pc[s] \in {"new", "missed"} => <<s, 1>> # f
           /\ pc[s] \in {"new", "missed", "wait"} => <<s, 2>> # f
  BY DEF IInv, Fresh

LEMMA InitIInv == Init => IInv
  BY FlightAssumption DEF Init, IInv, TypeOK, SlotOpen, SlotHasFiller, PendingInSlot, Fresh, FillerLeads, Futs, Shared, Points

\* The lookup that misses, and a hit.
LEMMA LookupStep ==
    ASSUME IInv, NEW r \in Requests, Lookup(r)
    PROVE  IInv'
  <1> USE FlightAssumption DEF Lookup, Goto, End, flight
  <1>1. TypeOK'
    BY DEF IInv, TypeOK, Futs, Shared, Points
  <1>2. (SlotOpen /\ PendingInSlot /\ Fresh /\ FillerLeads)'
    BY DEF IInv, TypeOK, SlotOpen, PendingInSlot, Fresh, FillerLeads, Slot, Points
  <1>3. SlotHasFiller'
    BY DEF IInv, TypeOK, SlotHasFiller, Fillers, Points
  <1> QED BY <1>1, <1>2, <1>3 DEF IInv

LEMMA LeadStep ==
    ASSUME IInv, NEW r \in Requests, NEW n \in {1, 2}, Lead(r, n),
           n = 1 => pc[r] = "missed" /\ again' = again,
           n = 2 => pc[r] = "wait" /\ again' = again \cup {KeyOf[r]},
           UNCHANGED <<cache, got, gone>>
    PROVE  IInv'
  <1> USE FlightAssumption DEF Lead, Goto, Slot
  <1>a. fut[<<r, n>>] = "none"
    <2>1. CASE n = 1
      BY <2>1 DEF IInv, Fresh
    <2>2. CASE n = 2
      BY <2>2 DEF IInv, Fresh
    <2> QED BY <2>1, <2>2
  <1>b. <<r, n>> \in Futs /\ KeyOf[r] \in Keys /\ <<r, n>>[1] = r
    BY DEF Futs
  <1>0. /\ <<r, n>> \in Futs /\ KeyOf[r] \in Keys /\ <<r, n>>[1] = r
        /\ fut[<<r, n>>] = "none" /\ <<r, n>> # None
    BY <1>a, <1>b DEF Futs
  <1>1. TypeOK'
    BY <1>0 DEF IInv, TypeOK, Futs, Shared, Points
  <1>2. SlotOpen'
    BY <1>0 DEF IInv, TypeOK, SlotOpen
  <1>3. SlotHasFiller'
    BY <1>0 DEF IInv, TypeOK, SlotHasFiller, Fillers, SlotOpen
  <1>4. PendingInSlot'
    BY <1>0 DEF IInv, TypeOK, PendingInSlot, Futs
  <1>5. Fresh'
    BY <1>0 DEF IInv, TypeOK, Fresh, Futs
  <1>6. FillerLeads'
    <2> SUFFICES ASSUME NEW s \in Requests, pc'[s] = "fill", KeyOf[s] \notin again'
                 PROVE  mine'[s] = <<s, 1>> /\ _inflight'[KeyOf[s]] = mine'[s]
      BY DEF FillerLeads
    <2>1. CASE s = r
      BY <2>1, <1>0 DEF IInv, TypeOK
    <2>2. CASE s # r
      BY <2>2, <1>0 DEF IInv, TypeOK, FillerLeads
    <2> QED BY <2>1, <2>2
  <1> QED BY <1>1, <1>2, <1>3, <1>4, <1>5, <1>6 DEF IInv

LEMMA JoinStep ==
    ASSUME IInv, NEW r \in Requests,
           \/ pc[r] = "missed" /\ Join(r, "wait") /\ again' = again
           \/ pc[r] = "wait" /\ Join(r, "fill") /\ again' = again \cup {KeyOf[r]},
           UNCHANGED <<cache, got, gone>>
    PROVE  IInv'
  <1> USE FlightAssumption DEF Join, Goto, Slot, flight
  <1>0. /\ KeyOf[r] \in Keys /\ Slot(r) \in Futs /\ Slot(r) # None
        /\ KeyOf[Slot(r)[1]] = KeyOf[r] /\ fut[Slot(r)] # "none"
    BY DEF IInv, TypeOK, SlotOpen
  <1>1. TypeOK'
    BY <1>0 DEF IInv, TypeOK, Points
  <1>2. (SlotOpen /\ PendingInSlot)'
    BY DEF IInv, SlotOpen, PendingInSlot
  <1>3. SlotHasFiller'
    BY <1>0 DEF IInv, TypeOK, SlotHasFiller, Fillers
  <1>4. Fresh'
    BY DEF IInv, TypeOK, Fresh
  <1>5. FillerLeads'
    BY DEF IInv, TypeOK, FillerLeads
  <1> QED BY <1>1, <1>2, <1>3, <1>4, <1>5 DEF IInv

LEMMA WakeStep ==
    ASSUME IInv, NEW r \in Requests, Wake(r)
    PROVE  IInv'
  <1> USE FlightAssumption DEF Wake, Goto, End, flight
  <1>1. TypeOK'
    BY DEF IInv, TypeOK, Shared, Points
  <1>2. (SlotOpen /\ PendingInSlot /\ Fresh /\ FillerLeads)'
    BY DEF IInv, TypeOK, SlotOpen, PendingInSlot, Fresh, FillerLeads, Slot
  <1>3. SlotHasFiller'
    BY DEF IInv, TypeOK, SlotHasFiller, Fillers
  <1> QED BY <1>1, <1>2, <1>3 DEF IInv

LEMMA WaiterGoneStep ==
    ASSUME IInv, NEW r \in Requests, WaiterGone(r)
    PROVE  IInv'
  <1> USE FlightAssumption DEF WaiterGone, Gone, Goto, End
  <1>0. mine[r] \in Futs /\ fut[mine[r]] # "none"
    BY DEF IInv, TypeOK
  <1>1. TypeOK'
    BY <1>0 DEF IInv, TypeOK, Shared, Points
  <1>2. SlotOpen'
    BY <1>0 DEF IInv, TypeOK, SlotOpen
  <1>3. SlotHasFiller'
    BY <1>0 DEF IInv, TypeOK, SlotHasFiller, Fillers
  <1>4. PendingInSlot'
    BY <1>0 DEF IInv, TypeOK, PendingInSlot
  <1>5. Fresh'
    <2> SUFFICES ASSUME NEW s \in Requests
                 PROVE  /\ pc'[s] \in {"new", "missed"} => fut'[<<s, 1>>] = "none"
                        /\ pc'[s] \in {"new", "missed", "wait"} => fut'[<<s, 2>>] = "none"
      BY DEF Fresh
    <2>1. pc'[s] \in {"new", "missed", "wait"} => pc'[s] = pc[s]
      BY DEF IInv, TypeOK
    <2>2. <<s, 1>> \in Futs /\ <<s, 2>> \in Futs
      BY DEF Futs
    <2> QED BY <2>1, <2>2, <1>0, NotFresh DEF IInv, TypeOK, Fresh
  <1>6. FillerLeads'
    BY DEF IInv, TypeOK, FillerLeads, Slot
  <1> QED BY <1>1, <1>2, <1>3, <1>4, <1>5, <1>6 DEF IInv

\* A fill is over, in whichever way: it is finished, or its future was not
\* pending and a stream leaves it alone.
LEMMA FilledStep ==
    ASSUME IInv, NEW r \in Requests, pc[r] = "fill",
           NEW v \in Shared, NEW how \in Shared \cup {"gone"},
           finish(r, v) \/ (fut[mine[r]] # "pending" /\ UNCHANGED flight),
           End(r, how), cache' \subseteq Keys, gone' \in Nat, UNCHANGED <<mine, again>>
    PROVE  IInv'
  <1> USE FlightAssumption DEF Goto, End, flight
  <1>0. mine[r] \in Futs /\ fut[mine[r]] # "none" /\ KeyOf[mine[r][1]] = KeyOf[r] /\ KeyOf[r] \in Keys
    BY DEF IInv, TypeOK
  <1>a. _inflight' = [_inflight EXCEPT ![KeyOf[r]] = _inflight'[KeyOf[r]]]
    BY <1>0 DEF IInv, TypeOK, finish
  <1>b. _inflight'[KeyOf[r]] \in {None, _inflight[KeyOf[r]]}
    BY <1>0 DEF IInv, TypeOK, finish
  <1>c. fut' = [fut EXCEPT ![mine[r]] = fut'[mine[r]]]
    BY <1>0 DEF IInv, TypeOK, finish
  <1>d. fut'[mine[r]] # "pending" /\ fut'[mine[r]] \in Shared
    BY <1>0 DEF IInv, TypeOK, finish, Shared
  <1>e. _inflight'[KeyOf[r]] = mine[r] => fut[mine[r]] = "cancelled" /\ fut' = fut
    BY <1>0 DEF IInv, TypeOK, finish, SlotOpen, Futs
  <1>f. _inflight[KeyOf[r]] # mine[r] => _inflight'[KeyOf[r]] = _inflight[KeyOf[r]]
    BY <1>0 DEF IInv, TypeOK, finish
  <1> HIDE DEF flight
  <1>1. TypeOK'
    BY <1>0, <1>a, <1>b, <1>c, <1>d DEF IInv, TypeOK, Shared, Points
  <1>2. SlotOpen'
    BY <1>0, <1>a, <1>b, <1>c, <1>e DEF IInv, TypeOK, SlotOpen
  <1>3. SlotHasFiller'
    <2> SUFFICES ASSUME NEW k \in Keys, _inflight'[k] # None
                 PROVE  \/ \E s \in Requests : pc'[s] = "fill" /\ mine'[s] = _inflight'[k]
                        \/ fut'[_inflight'[k]] = "cancelled"
      BY DEF SlotHasFiller, Fillers
    <2>1. _inflight'[k] = _inflight[k] /\ _inflight[k] \in Futs /\ KeyOf[_inflight[k][1]] = k
      BY <1>a, <1>b DEF IInv, TypeOK, SlotOpen
    <2>2. CASE _inflight[k] = mine[r]
      BY <2>1, <2>2, <1>0, <1>e
    <2>3. CASE _inflight[k] # mine[r]
      BY <2>1, <2>3, <1>c DEF IInv, TypeOK, SlotHasFiller, Fillers
    <2> QED BY <2>2, <2>3
  <1>4. PendingInSlot'
    <2> SUFFICES ASSUME NEW f \in Futs, fut'[f] = "pending"
                 PROVE  _inflight'[KeyOf[f[1]]] = f
      BY DEF PendingInSlot
    <2>1. f # mine[r] /\ fut[f] = "pending" /\ _inflight[KeyOf[f[1]]] = f
      BY <1>c, <1>d DEF IInv, TypeOK, PendingInSlot
    <2>2. f[1] \in Requests /\ KeyOf[f[1]] \in Keys
      BY DEF Futs
    <2>3. CASE KeyOf[f[1]] = KeyOf[r]
      BY <2>1, <2>3, <1>0, <1>f
    <2>4. CASE KeyOf[f[1]] # KeyOf[r]
      BY <2>1, <2>2, <2>4, <1>a DEF IInv, TypeOK
    <2> QED BY <2>3, <2>4
  <1>5. Fresh'
    <2> SUFFICES ASSUME NEW s \in Requests
                 PROVE  /\ pc'[s] \in {"new", "missed"} => fut'[<<s, 1>>] = "none"
                        /\ pc'[s] \in {"new", "missed", "wait"} => fut'[<<s, 2>>] = "none"
      BY DEF Fresh
    <2>1. pc'[s] \in {"new", "missed", "wait"} => pc'[s] = pc[s]
      BY DEF IInv, TypeOK
    <2>2. <<s, 1>> \in Futs /\ <<s, 2>> \in Futs
      BY DEF Futs
    <2> QED BY <2>1, <2>2, <1>0, <1>c, NotFresh DEF IInv, TypeOK, Fresh
  <1>6. FillerLeads'
    <2> SUFFICES ASSUME NEW s \in Requests, pc'[s] = "fill", KeyOf[s] \notin again'
                 PROVE  mine'[s] = <<s, 1>> /\ _inflight'[KeyOf[s]] = mine'[s]
      BY DEF FillerLeads, Slot
    <2>1. s # r /\ pc[s] = "fill" /\ mine[s] = <<s, 1>> /\ _inflight[KeyOf[s]] = <<s, 1>>
      BY DEF IInv, TypeOK, FillerLeads, Slot
    <2>2. KeyOf[s] # KeyOf[r]
      BY <2>1 DEF IInv, FillerLeads, Slot
    <2> QED BY <2>1, <2>2, <1>a DEF IInv, TypeOK
  <1> QED BY <1>1, <1>2, <1>3, <1>4, <1>5, <1>6 DEF IInv

LEMMA NextStep == IInv /\ [Next]_vars => IInv'
  <1> SUFFICES ASSUME IInv, [Next]_vars
               PROVE  IInv'
    OBVIOUS
  <1>1. ASSUME NEW r \in Requests, begin(r) PROVE IInv'
    <2>1. CASE Lead(r, 1)
      BY <1>1, <2>1, LeadStep DEF begin
    <2>2. CASE Join(r, "wait")
      BY <1>1, <2>2, JoinStep DEF begin
    <2> QED BY <1>1, <2>1, <2>2 DEF begin
  <1>2. ASSUME NEW r \in Requests, BeginAgain(r) PROVE IInv'
    <2>1. CASE Lead(r, 2)
      BY <1>2, <2>1, LeadStep DEF BeginAgain
    <2>2. CASE Join(r, "fill")
      BY <1>2, <2>2, JoinStep DEF BeginAgain
    <2> QED BY <1>2, <2>1, <2>2 DEF BeginAgain
  <1>3. ASSUME NEW r \in Requests, RouteFilled(r) PROVE IInv'
    <2>1. PICK how \in {"text", "tools", "error"} :
            finish(r, how) /\ MayCache(r, how = "text") /\ End(r, how)
      BY <1>3 DEF RouteFilled
    <2>2. cache' \subseteq Keys
      BY <2>1, FlightAssumption DEF MayCache, IInv, TypeOK
    <2>3. how \in Shared /\ gone' \in Nat
      BY <1>3 DEF RouteFilled, Shared, IInv, TypeOK
    <2> QED BY <1>3, <2>1, <2>2, <2>3, FilledStep DEF RouteFilled
  <1>4. ASSUME NEW r \in Requests, StreamFilled(r) PROVE IInv'
    <2>1. PICK v \in Shared, how \in Shared, text \in BOOLEAN :
            StreamFinally(r, v) /\ MayCache(r, text) /\ End(r, how)
      BY <1>4 DEF StreamFilled, Shared
    <2>2. cache' \subseteq Keys
      BY <2>1, FlightAssumption DEF MayCache, IInv, TypeOK
    <2>3. finish(r, v) \/ (fut[mine[r]] # "pending" /\ UNCHANGED flight)
      BY <2>1 DEF StreamFinally
    <2>4. gone' \in Nat
      BY <1>4 DEF StreamFilled, IInv, TypeOK
    <2> QED BY <1>4, <2>1, <2>2, <2>3, <2>4, FilledStep DEF StreamFilled
  <1>5. ASSUME NEW r \in Requests, FillerGone(r) PROVE IInv'
    <2>1. cache' \subseteq Keys /\ gone' \in Nat /\ End(r, "gone") /\ pc[r] = "fill" /\ UNCHANGED <<mine, again>>
      BY <1>5 DEF FillerGone, Gone, IInv, TypeOK
    <2>2. \E v \in Shared : finish(r, v) \/ (fut[mine[r]] # "pending" /\ UNCHANGED flight)
      BY <1>5 DEF FillerGone, StreamFinally, Shared
    <2> QED BY <2>1, <2>2, FilledStep
  <1>6. CASE UNCHANGED vars
    BY <1>6 DEF vars, flight, IInv, TypeOK, SlotOpen, SlotHasFiller, PendingInSlot, Fresh, FillerLeads, Slot, Fillers
  <1> QED BY <1>1, <1>2, <1>3, <1>4, <1>5, <1>6, LookupStep, WakeStep, WaiterGoneStep DEF Next, Awake, Filled

\* The inductive invariant holds in every reachable state.
THEOREM Invariance == Spec => []IInv
  BY InitIInv, NextStep, PTL DEF Spec

\* Types, and the future of a request is one of its own key.
THEOREM TypeCorrect == Spec => []TypeOK
  <1>1. IInv => TypeOK
    BY DEF IInv
  <1> QED BY <1>1, Invariance, PTL

\* One upstream fill at a time for a key, until a stream finds nothing to replay.
THEOREM OneFillAtATime == Spec => []OneFill
  <1>1. IInv => OneFill
    BY DEF IInv, OneFill, FillerLeads, Slot
  <1> QED BY <1>1, Invariance, PTL

\* Nobody waits for a future that nobody fills.
THEOREM NobodyOrphaned == Spec => []NoOrphan
  <1>1. IInv => NoOrphan
    <2> SUFFICES ASSUME IInv, NEW r \in Requests, pc[r] = "wait", fut[mine[r]] = "pending"
                 PROVE  Fillers(mine[r]) # {}
      BY DEF NoOrphan
    <2>1. mine[r] \in Futs /\ mine[r] # None /\ KeyOf[mine[r][1]] \in Keys
      BY FlightAssumption DEF IInv, TypeOK, Futs
    <2>2. _inflight[KeyOf[mine[r][1]]] = mine[r]
      BY <2>1 DEF IInv, PendingInSlot
    <2> QED BY <2>1, <2>2 DEF IInv, SlotHasFiller
  <1> QED BY <1>1, Invariance, PTL

\* A slot outlives its fill only with a future that a waiter cancelled.
THEOREM SlotCleared == Spec => []SlotHasFiller
  <1>1. IInv => SlotHasFiller
    BY DEF IInv
  <1> QED BY <1>1, Invariance, PTL

-----------------------------------------------------------------------------
(***************************************************************************)
(* The frontier pool.                                                      *)
(***************************************************************************)

\* Who has been given a slot has one.
OnSlot == \A r \in Escalations : stage[r] \in {"pick", "calling"} => Ahead(r) # {}

\* Two calls of one executor at once: crowded if one of them rewrites its base,
\* tangled if both do.
CallsApart ==
    \A q, r \in Escalations :
        /\ q # r /\ Home[q] = Home[r] /\ stage[q] = "calling" /\ stage[r] = "calling"
        /\ SlotOf(q) = SlotOf(r)
        => /\ Rewrites(r, SlotOf(r)) => <<Home[r], SlotOf(r)>> \in crowded
           /\ Rewrites(r, SlotOf(r)) /\ Rewrites(q, SlotOf(r)) => <<Home[r], SlotOf(r)>> \in tangled

\* The base of an executor that one pinned request uses is its region's, and that
\* request puts back the configured one.
BaseRewritten ==
    \A r \in Escalations :
        /\ stage[r] = "calling" /\ Rewrites(r, SlotOf(r))
        /\ <<Home[r], SlotOf(r)>> \notin tangled
        => base[Home[r]][SlotOf(r)] = pin[r] /\ original[r] = "own"

BaseInv ==
    CallsApart /\ tangled \subseteq crowded /\ BaseRewritten /\ BaseRestored /\ RegionKept

\* A circuit that is open, and that nobody has closed since, is open in Redis.
OpenIsShared ==
    store /\ faults = 0 =>
        \A p \in Replicas, s \in Slots :
            opened[p][s] = "open" /\ <<p, s>> \notin revived => s \in shared

BreakerInv == OpenIsShared /\ (~store => shared = {}) /\ SharedJustified

PoolInv == PoolTypeOK /\ OnSlot /\ BaseInv /\ BreakerInv

-----------------------------------------------------------------------------
LEMMA LeastPlace ==
    ASSUME NEW T, T \subseteq Nat, T # {}
    PROVE  \E n \in T : \A k \in T : n <= k
<1> DEFINE less == OpToRel(<, Nat)
<1>1. IsWellFoundedOn(less, Nat)
  BY NatLessThanWellFounded
<1> HIDE DEF less
<1>2. PICK n \in T : \A k \in T : <<k, n>> \notin less
  BY <1>1, WFMin
<1>3. \A k \in T : ~(k < n)
  BY <1>2 DEF less, OpToRel
<1> QED
  BY <1>2, <1>3

\* The slot of a request is one that its pin allows.
LEMMA SlotIs ==
    ASSUME PoolTypeOK, NEW r \in Escalations, Ahead(r) # {}
    PROVE  /\ Place(r) \in Nat \ {0} /\ SlotOf(r) \in Slots
           /\ Satisfies(SlotOf(r), pin[r])
           /\ Home[r] \in Replicas
<1>1. Offered[r] \in Seq(Slots) /\ Home[r] \in Replicas
  BY FrontierAssumption
<1>2. Ahead(r) \subseteq Nat
  BY <1>1 DEF Ahead, Route, InRegion
<1>3. Place(r) \in Ahead(r)
  BY <1>2, LeastPlace DEF Place
<1>4. Place(r) \in DOMAIN Offered[r] /\ Satisfies(Offered[r][Place(r)], pin[r])
  BY <1>3 DEF Ahead, Route, InRegion
<1> QED
  BY <1>1, <1>4 DEF SlotOf

\* The slot of a request changes only with its place.
LEMMA SameSlot ==
    ASSUME NEW r, pin' = pin, pos'[r] = pos[r]
    PROVE  /\ Ahead(r)' = Ahead(r) /\ SlotOf(r)' = SlotOf(r)
           /\ \A s : Rewrites(r, s)' <=> Rewrites(r, s)
BY DEF Ahead, Route, InRegion, SlotOf, Place, Rewrites, Satisfies

LEMMA PinIs ==
    ASSUME PoolTypeOK, NEW r \in Escalations
    PROVE  /\ pin[r] \in {"us", "eu", NoPin}
           /\ \A s : Rewrites(r, s) => pin[r] \in {"us", "eu"}
BY FrontierAssumption DEF PoolTypeOK, Rewrites

LEMMA BaseFor ==
    ASSUME NEW r, NEW s, NEW b
    PROVE  openrouter_base_for_region(r, s, b) = IF Rewrites(r, s) THEN pin[r] ELSE b
BY DEF openrouter_base_for_region, Rewrites

-----------------------------------------------------------------------------
\* The circuits' part of a step.
Records ==
    \/ UNCHANGED breakers /\ (faults' = 0 => faults = 0)
    \/ \E p \in Replicas, s \in Slots : record_success(p, s) \/ record_failure(p, s)

\* A request leaves its call: the finally clause.
Leaves(r) ==
    /\ stage[r] = "calling" /\ \E p \in Stages \ {"calling"} : MoveTo(r, p)
    /\ \A q \in Escalations \ {r} : pos'[q] = pos[q]
    /\ Restore(r) /\ Forget(r)
    /\ UNCHANGED <<crowded, tangled>>

\* Nobody begins, repeats or ends a call.
Quiet ==
    /\ UNCHANGED <<base, original, sent, crowded, tangled>>
    /\ \A r \in Escalations : stage'[r] = "calling" <=> stage[r] = "calling"
    /\ \A r \in Escalations : stage[r] = "calling" => pos'[r] = pos[r]

LEMMA RecordType ==
    ASSUME PoolTypeOK, NEW p \in Replicas, NEW s \in Slots, record_success(p, s) \/ record_failure(p, s)
    PROVE  /\ failures' \in [Replicas -> [Slots -> 0..Threshold]]
           /\ opened' \in [Replicas -> [Slots -> {"closed", "open", "cooled"}]]
           /\ shared' \in SUBSET Slots /\ revived' \in SUBSET (Replicas \X Slots)
           /\ faults' \in Nat /\ (faults' = 0 => faults = 0)
<1> USE DEF PoolTypeOK, Redis
<1>0. Threshold \in Nat \ {0}
  BY FrontierAssumption
<1>1. CASE record_success(p, s)
  BY <1>0, <1>1 DEF record_success
<1>2. CASE record_failure(p, s)
  <2>1. failures[p][s] \in 0..Threshold
    OBVIOUS
  <2>2. failures' = [failures EXCEPT ![p][s] = IF failures[p][s] < Threshold THEN failures[p][s] + 1 ELSE failures[p][s]]
    BY <1>2 DEF record_failure
  <2>3. (IF failures[p][s] < Threshold THEN failures[p][s] + 1 ELSE failures[p][s]) \in 0..Threshold
    BY <1>0, <2>1
  <2>4. failures' \in [Replicas -> [Slots -> 0..Threshold]]
    BY <2>2, <2>3
  <2>5. opened' \in [Replicas -> [Slots -> {"closed", "open", "cooled"}]]
    <3>1. UNCHANGED opened \/ opened' = [opened EXCEPT ![p][s] = "open"]
      BY <1>2 DEF record_failure
    <3>2. opened \in [Replicas -> [Slots -> {"closed", "open", "cooled"}]]
      OBVIOUS
    <3> HIDE DEF PoolTypeOK
    <3> QED
      BY <3>1, <3>2
  <2>6. shared' \in SUBSET Slots /\ revived' \in SUBSET (Replicas \X Slots)
    BY <1>2 DEF record_failure
  <2>7. faults' \in Nat /\ (faults' = 0 => faults = 0)
    BY <1>2 DEF record_failure
  <2> QED
    BY <2>4, <2>5, <2>6, <2>7
<1> QED
  BY <1>1, <1>2

\* A circuit that opens is published, and one that is closed withdrawn.
LEMMA BreakerStep ==
    ASSUME PoolTypeOK, BreakerInv, Records, UNCHANGED store
    PROVE  BreakerInv'
<1> USE DEF BreakerInv, OpenIsShared, SharedJustified, Redis
<1>0. /\ Threshold \in Nat \ {0} /\ faults \in Nat /\ store \in BOOLEAN
      /\ shared \subseteq Slots
      /\ failures \in [Replicas -> [Slots -> 0..Threshold]]
      /\ opened \in [Replicas -> [Slots -> {"closed", "open", "cooled"}]]
  BY FrontierAssumption DEF PoolTypeOK
<1>1. CASE UNCHANGED breakers /\ (faults' = 0 => faults = 0)
  BY <1>1 DEF breakers
<1>2. ASSUME NEW p \in Replicas, NEW s \in Slots, record_success(p, s) PROVE BreakerInv'
  <2>1. \A q \in Replicas, t \in Slots :
           /\ failures'[q][t] = IF q = p /\ t = s THEN 0 ELSE failures[q][t]
           /\ opened'[q][t] = IF q = p /\ t = s THEN "closed" ELSE opened[q][t]
    BY <1>0, <1>2 DEF record_success
  <2>2. /\ store /\ faults' = 0 => faults = 0 /\ shared' = shared \ {s}
        /\ ~store => shared' = shared /\ faults' = faults
    BY <1>0, <1>2 DEF record_success
  <2>3. revived' = (revived \cup {<<q, s>> : q \in {q \in Replicas : opened[q][s] = "open"}}) \ {<<p, s>>}
    BY <1>2 DEF record_success
  <2>4. OpenIsShared'
    <3>1. SUFFICES ASSUME store, faults' = 0, NEW q \in Replicas, NEW t \in Slots,
                          opened'[q][t] = "open", <<q, t>> \notin revived'
                   PROVE  t \in shared'
      OBVIOUS
    <3>2. opened[q][t] = "open" /\ ~(q = p /\ t = s)
      BY <2>1, <3>1
    <3>3. <<q, t>> \notin revived /\ t # s
      BY <2>3, <3>1, <3>2
    <3> QED
      BY <2>2, <3>1, <3>2, <3>3
  <2>5. ~store' => shared' = {}
    BY <2>2
  <2>6. SharedJustified'
    <3>1. SUFFICES ASSUME faults' = 0, NEW t \in shared'
                   PROVE  \E q \in Replicas : failures'[q][t] = Threshold
      OBVIOUS
    <3>2. store /\ faults = 0 /\ t \in shared /\ t # s /\ t \in Slots
      BY <1>0, <2>2, <2>5, <3>1
    <3>3. PICK q \in Replicas : failures[q][t] = Threshold
      BY <3>2
    <3> QED
      BY <2>1, <3>2, <3>3
  <2> QED
    BY <2>4, <2>5, <2>6
<1>3. ASSUME NEW p \in Replicas, NEW s \in Slots, record_failure(p, s) PROVE BreakerInv'
  <2>0. faults' = 0 => faults = 0
    BY <1>0, <1>3 DEF record_failure
  <2>1. \A q \in Replicas, t \in Slots :
           failures'[q][t] = IF ~(q = p /\ t = s) THEN failures[q][t]
                             ELSE IF failures[q][t] < Threshold THEN failures[q][t] + 1
                             ELSE failures[q][t]
    BY <1>0, <1>3 DEF record_failure
  <2>2. \A q \in Replicas, t \in Slots : failures[q][t] = Threshold => failures'[q][t] = Threshold
    BY <1>0, <2>1
  <2>3. CASE failures'[p][s] < Threshold
    <3>1. UNCHANGED <<opened, shared, revived>>
      BY <1>3, <2>3 DEF record_failure
    <3>2. SharedJustified'
      <4>1. SUFFICES ASSUME faults' = 0, NEW t \in shared
                     PROVE  \E q \in Replicas : failures'[q][t] = Threshold
        BY <3>1
      <4>2. PICK q \in Replicas : failures[q][t] = Threshold
        BY <2>0, <4>1
      <4> QED
        BY <1>0, <2>2, <4>2
    <3> QED
      BY <2>0, <3>1, <3>2
  <2>4. CASE ~(failures'[p][s] < Threshold)
    <3>1. failures'[p][s] = Threshold
      <4>1. failures[p][s] \in 0..Threshold
        BY <1>0
      <4>2. failures'[p][s] = IF failures[p][s] < Threshold THEN failures[p][s] + 1
                              ELSE failures[p][s]
        BY <2>1
      <4>3. Threshold \in Nat
        BY <1>0
      <4> HIDE DEF BreakerInv
      <4> QED
        BY <2>4, <4>1, <4>2, <4>3
    <3>2. \A q \in Replicas, t \in Slots :
             opened'[q][t] = IF q = p /\ t = s THEN "open" ELSE opened[q][t]
      BY <1>0, <1>3, <2>4 DEF record_failure
    <3>3. /\ store /\ faults' = 0 => shared' = shared \cup {s}
          /\ ~store => shared' = shared
          /\ shared' \subseteq shared \cup {s}
      BY <1>0, <1>3, <2>4 DEF record_failure
    <3>4. revived' = revived \ {<<p, s>>}
      BY <1>3, <2>4 DEF record_failure
    <3>5. OpenIsShared'
      <4>1. SUFFICES ASSUME store, faults' = 0, NEW q \in Replicas, NEW t \in Slots,
                            opened'[q][t] = "open", <<q, t>> \notin revived', t # s
                     PROVE  t \in shared
        BY <3>3
      <4> QED
        BY <2>0, <3>2, <3>4, <4>1
    <3>6. SharedJustified'
      <4>1. SUFFICES ASSUME faults' = 0, NEW t \in shared', t # s
                     PROVE  \E q \in Replicas : failures'[q][t] = Threshold
        BY <3>1
      <4>2. t \in shared /\ t \in Slots
        BY <1>0, <3>3, <4>1
      <4>3. PICK q \in Replicas : failures[q][t] = Threshold
        BY <2>0, <4>1, <4>2
      <4> QED
        BY <2>2, <4>2, <4>3
    <3> QED
      BY <3>3, <3>5, <3>6
  <2> QED
    BY <2>3, <2>4
<1> QED
  BY <1>1, <1>2, <1>3 DEF Records

-----------------------------------------------------------------------------
\* Whoever is in a call stays at its slot.
LEMMA QuietStep == PoolTypeOK /\ BaseInv /\ pin' = pin /\ Quiet => BaseInv'
<1> SUFFICES ASSUME PoolTypeOK, BaseInv, pin' = pin, Quiet PROVE BaseInv'
  OBVIOUS
<1>1. \A r \in Escalations : stage[r] = "calling" =>
         SlotOf(r)' = SlotOf(r) /\ \A s : Rewrites(r, s)' <=> Rewrites(r, s)
  BY SameSlot DEF Quiet
<1>2. \A r \in Escalations : stage'[r] = "calling" <=> stage[r] = "calling"
  BY DEF Quiet
<1>3. CallsApart' /\ (tangled \subseteq crowded)' /\ BaseRewritten'
  BY <1>1, <1>2 DEF BaseInv, CallsApart, BaseRewritten, Quiet
<1>4. \A p \in Replicas, s \in Slots : At(p, s)' = At(p, s)
  BY <1>1, <1>2 DEF At
<1>5. BaseRestored'
  BY <1>1, <1>4 DEF BaseInv, BaseRestored, Quiet, At
<1>6. RegionKept'
  BY <1>1, <1>2 DEF BaseInv, RegionKept, Quiet
<1> QED
  BY <1>3, <1>5, <1>6 DEF BaseInv

\* A call begins: the base it finds is the configured one unless it crowds.
LEMMA CallStep ==
    ASSUME PoolTypeOK, OnSlot, BaseInv, NEW r \in Escalations, Call(r)
    PROVE  BaseInv'
<1> DEFINE p == Home[r]
           s == SlotOf(r)
<1>0. /\ stage[r] = "pick" /\ stage' = [stage EXCEPT ![r] = "calling"]
      /\ UNCHANGED <<pin, pos>>
      /\ stage \in [Escalations -> Stages]
  BY DEF Call, MoveTo, PoolTypeOK
<1>1. \A q \in Escalations :
         /\ SlotOf(q)' = SlotOf(q) /\ \A t : Rewrites(q, t)' <=> Rewrites(q, t)
         /\ stage'[q] = "calling" <=> stage[q] = "calling" \/ q = r
  BY <1>0, SameSlot
<1>2. p \in Replicas /\ s \in Slots /\ Satisfies(s, pin[r])
  BY <1>0, SlotIs DEF OnSlot
<1> HIDE DEF s, p
<1> DEFINE others == At(p, s)
<1>3. /\ original' = [original EXCEPT ![r] = base[p][s]]
      /\ base' = [base EXCEPT ![p][s] = openrouter_base_for_region(r, s, base[p][s])]
      /\ sent' = [sent EXCEPT ![r] = base'[p][s]]
      /\ crowded' = crowded \cup
           {<<p, s>> : q \in {q \in others : Rewrites(q, s) \/ Rewrites(r, s)}}
      /\ tangled' = tangled \cup
           {<<p, s>> : q \in {q \in others : Rewrites(q, s) /\ Rewrites(r, s)}}
  BY DEF Call, p, s
<1>4. /\ crowded \subseteq crowded' /\ tangled \subseteq tangled'
      /\ \A q \in others : Rewrites(q, s) \/ Rewrites(r, s) => <<p, s>> \in crowded'
      /\ \A q \in others : Rewrites(q, s) /\ Rewrites(r, s) => <<p, s>> \in tangled'
      /\ tangled' \subseteq crowded'
  BY <1>3 DEF BaseInv
<1>5. /\ \A q \in Escalations : q \in others <=>
            Home[q] = p /\ stage[q] = "calling" /\ SlotOf(q) = s
      /\ Home[r] = p /\ SlotOf(r) = s /\ r \notin others
  BY <1>0 DEF At, p, s
<1>6. \A x \in Replicas, t \in Slots :
         base'[x][t] = IF x = p /\ t = s
                       THEN IF Rewrites(r, s) THEN pin[r] ELSE base[p][s]
                       ELSE base[x][t]
  BY <1>2, <1>3, BaseFor DEF PoolTypeOK
<1>7. /\ original'[r] = base[p][s] /\ sent'[r] = base'[p][s]
      /\ \A q \in Escalations \ {r} : original'[q] = original[q] /\ sent'[q] = sent[q]
  BY <1>3 DEF PoolTypeOK
<1>8. \A q \in Escalations : stage[q] = "calling" => Home[q] \in Replicas /\ SlotOf(q) \in Slots
  BY SlotIs DEF OnSlot
<1> HIDE DEF others
<1>9. CallsApart'
  <2>1. SUFFICES ASSUME NEW x \in Escalations, NEW y \in Escalations,
                        x # y, Home[x] = Home[y], stage'[x] = "calling", stage'[y] = "calling",
                        SlotOf(x) = SlotOf(y)
                 PROVE  /\ Rewrites(y, SlotOf(y)) => <<Home[y], SlotOf(y)>> \in crowded'
                        /\ Rewrites(y, SlotOf(y)) /\ Rewrites(x, SlotOf(y))
                             => <<Home[y], SlotOf(y)>> \in tangled'
    BY <1>1 DEF CallsApart
  <2>2. CASE x # r /\ y # r
    BY <1>1, <1>4, <2>1, <2>2 DEF BaseInv, CallsApart
  <2>3. CASE x = r
    <3>1. y \in others
      BY <1>1, <1>5, <2>1, <2>3
    <3> QED
      BY <1>4, <1>5, <2>1, <2>3, <3>1
  <2>4. CASE y = r
    <3>1. x \in others
      BY <1>1, <1>5, <2>1, <2>4
    <3> QED
      BY <1>4, <1>5, <2>1, <2>4, <3>1
  <2> QED
    BY <2>2, <2>3, <2>4
\* Nobody who is in a call here rewrites, and nobody has left a base behind.
<1>10. ASSUME \A q \in others : ~Rewrites(q, s), <<p, s>> \notin tangled
       PROVE  base[p][s] = "own"
  BY <1>2, <1>5, <1>10 DEF BaseInv, BaseRestored, At
<1>11. BaseRewritten'
  <2>1. SUFFICES ASSUME NEW q \in Escalations, stage'[q] = "calling", Rewrites(q, SlotOf(q)),
                        <<Home[q], SlotOf(q)>> \notin tangled'
                 PROVE  base'[Home[q]][SlotOf(q)] = pin[q] /\ original'[q] = "own"
    BY <1>0, <1>1 DEF BaseRewritten
  <2>2. CASE q = r
    <3>1. base[p][s] = "own"
      BY <1>4, <1>5, <1>10, <2>1, <2>2
    <3> QED
      BY <1>2, <1>5, <1>6, <1>7, <2>1, <2>2, <3>1
  <2>3. CASE q # r
    <3>1. /\ stage[q] = "calling" /\ <<Home[q], SlotOf(q)>> \notin tangled
          /\ Home[q] \in Replicas /\ SlotOf(q) \in Slots
      BY <1>1, <1>4, <1>8, <2>1, <2>3
    <3>2. base[Home[q]][SlotOf(q)] = pin[q] /\ original[q] = "own"
      BY <2>1, <3>1 DEF BaseInv, BaseRewritten
    <3>3. Home[q] = p /\ SlotOf(q) = s => ~Rewrites(r, s)
      BY <1>4, <1>5, <2>1, <3>1
    <3> QED
      BY <1>6, <1>7, <2>3, <3>1, <3>2, <3>3
  <2> QED
    BY <2>2, <2>3
<1>12. BaseRestored'
  <2>1. SUFFICES ASSUME NEW x \in Replicas, NEW t \in Slots,
                        \A q \in Escalations : Home[q] = x /\ stage'[q] = "calling" /\ SlotOf(q) = t
                                                 => ~Rewrites(q, t),
                        <<x, t>> \notin tangled'
                 PROVE  base'[x][t] = "own"
    BY <1>1 DEF BaseRestored, At
  <2>2. base[x][t] = "own"
    BY <1>1, <1>4, <2>1 DEF BaseInv, BaseRestored, At
  <2>3. x = p /\ t = s => ~Rewrites(r, s)
    BY <1>1, <1>5, <2>1
  <2> QED
    BY <1>6, <2>2, <2>3
<1>13. RegionKept'
  <2>1. SUFFICES ASSUME NEW q \in Escalations \ Streamed, stage'[q] = "calling",
                        <<Home[q], SlotOf(q)>> \notin crowded'
                 PROVE  IF Rewrites(q, SlotOf(q)) THEN sent'[q] = pin[q]
                        ELSE sent'[q] = "own" /\ (pin[q] = NoPin \/ Region[SlotOf(q)] = pin[q])
    BY <1>0, <1>1 DEF RegionKept
  <2>2. CASE q # r
    <3>1. stage[q] = "calling" /\ <<Home[q], SlotOf(q)>> \notin crowded /\ sent'[q] = sent[q]
      BY <1>1, <1>4, <1>7, <2>1, <2>2
    <3> QED
      BY <2>1, <3>1 DEF BaseInv, RegionKept
  <2>3. CASE q = r
    <3>1. base[p][s] = "own"
      BY <1>4, <1>5, <1>10, <2>1, <2>3
    <3>2. sent'[r] = IF Rewrites(r, s) THEN pin[r] ELSE "own"
      BY <1>2, <1>6, <1>7, <3>1
    <3>3. ~Rewrites(r, s) => pin[r] = NoPin \/ Region[s] = pin[r]
      BY <1>2, <2>1, <2>3 DEF Rewrites, Satisfies
    <3> QED
      BY <1>5, <2>3, <3>2, <3>3
  <2> QED
    BY <2>2, <2>3
<1> QED
  BY <1>4, <1>9, <1>11, <1>12, <1>13 DEF BaseInv

\* A retry reads the base again: it is the same one unless the call is crowded.
LEMMA RetryStep ==
    ASSUME PoolTypeOK, OnSlot, BaseInv, NEW r \in Escalations, Retry(r)
    PROVE  BaseInv'
<1> DEFINE p == Home[r]
           s == SlotOf(r)
<1>0. /\ stage[r] = "calling" /\ UNCHANGED <<pin, pos, stage, base, original, crowded, tangled>>
      /\ sent' = [sent EXCEPT ![r] = base[p][s]]
  BY DEF Retry
<1>1. \A q \in Escalations :
         SlotOf(q)' = SlotOf(q) /\ \A t : Rewrites(q, t)' <=> Rewrites(q, t)
  BY <1>0, SameSlot
<1>2. p \in Replicas /\ s \in Slots /\ Satisfies(s, pin[r])
  BY <1>0, SlotIs DEF OnSlot
<1>3. CallsApart' /\ (tangled \subseteq crowded)' /\ BaseRewritten'
  BY <1>0, <1>1 DEF BaseInv, CallsApart, BaseRewritten
<1>4. \A x \in Replicas, t \in Slots : At(x, t)' = At(x, t)
  BY <1>0, <1>1 DEF At
<1>5. BaseRestored'
  BY <1>0, <1>1, <1>4 DEF BaseInv, BaseRestored, At
<1>6. RegionKept'
  <2>1. SUFFICES ASSUME NEW q \in Escalations \ Streamed, stage[q] = "calling",
                        <<Home[q], SlotOf(q)>> \notin crowded
                 PROVE  IF Rewrites(q, SlotOf(q)) THEN sent'[q] = pin[q]
                        ELSE sent'[q] = "own" /\ (pin[q] = NoPin \/ Region[SlotOf(q)] = pin[q])
    BY <1>0, <1>1 DEF RegionKept
  <2>2. IF Rewrites(q, SlotOf(q)) THEN sent[q] = pin[q]
        ELSE sent[q] = "own" /\ (pin[q] = NoPin \/ Region[SlotOf(q)] = pin[q])
    BY <2>1 DEF BaseInv, RegionKept
  <2>3. CASE q # r
    BY <1>0, <2>2, <2>3 DEF PoolTypeOK
  <2>4. CASE q = r
    <3>1. sent'[r] = base[p][s]
      BY <1>0 DEF PoolTypeOK
    <3>2. CASE Rewrites(r, s)
      <4>1. <<p, s>> \notin tangled
        BY <2>1, <2>4 DEF BaseInv
      <4>2. base[p][s] = pin[r]
        BY <1>0, <3>2, <4>1 DEF BaseInv, BaseRewritten
      <4> QED
        BY <2>4, <3>1, <3>2, <4>2
    <3>3. CASE ~Rewrites(r, s)
      <4>1. ASSUME NEW x \in At(p, s) PROVE ~Rewrites(x, s)
        <5>1. /\ x \in Escalations /\ Home[x] = Home[r] /\ stage[x] = "calling"
              /\ SlotOf(x) = SlotOf(r)
          BY DEF At
        <5>2. x # r /\ Rewrites(x, s) => <<p, s>> \in crowded
          BY <1>0, <5>1 DEF BaseInv, CallsApart
        <5> QED
          BY <2>1, <2>4, <3>3, <5>2
      <4>2. <<p, s>> \notin tangled
        BY <2>1, <2>4 DEF BaseInv
      <4>3. base[p][s] = "own"
        BY <1>2, <4>1, <4>2 DEF BaseInv, BaseRestored
      <4> QED
        BY <2>2, <2>4, <3>1, <3>3, <4>3
    <3> QED
      BY <3>2, <3>3
  <2> QED
    BY <2>3, <2>4
<1> QED
  BY <1>3, <1>5, <1>6 DEF BaseInv

\* Whoever leaves puts back the base that it found.
LEMMA LeaveStep ==
    ASSUME PoolTypeOK, OnSlot, BaseInv, pin' = pin, NEW r \in Escalations, Leaves(r)
    PROVE  BaseInv'
<1> DEFINE p == Home[r]
           s == SlotOf(r)
<1>0. /\ stage[r] = "calling" /\ UNCHANGED <<crowded, tangled>>
      /\ original' = [original EXCEPT ![r] = "own"] /\ sent' = [sent EXCEPT ![r] = "own"]
  BY DEF Leaves, Forget
<1>1. \A q \in Escalations : stage'[q] = "calling" <=> stage[q] = "calling" /\ q # r
  BY DEF Leaves, MoveTo, PoolTypeOK
<1>2. \A q \in Escalations \ {r} :
         /\ SlotOf(q)' = SlotOf(q) /\ \A t : Rewrites(q, t)' <=> Rewrites(q, t)
         /\ original'[q] = original[q] /\ sent'[q] = sent[q]
  BY <1>0, SameSlot DEF Leaves, PoolTypeOK
<1>3. p \in Replicas /\ s \in Slots
  BY <1>0, SlotIs DEF OnSlot
<1> HIDE DEF p, s
<1>4. \A x \in Replicas, t \in Slots :
         base'[x][t] = IF x = p /\ t = s /\ Rewrites(r, s) /\ pin[r] # original[r]
                       THEN original[r] ELSE base[x][t]
  <2>1. CASE openrouter_base_for_region(r, s, original[r]) = original[r]
    <3>1. UNCHANGED base /\ (Rewrites(r, s) => pin[r] = original[r])
      BY <2>1, BaseFor DEF Leaves, Restore, s
    <3> QED
      BY <3>1
  <2>2. CASE openrouter_base_for_region(r, s, original[r]) # original[r]
    <3>1. /\ base' = [base EXCEPT ![p][s] = original[r]]
          /\ Rewrites(r, s) /\ pin[r] # original[r]
      BY <2>2, BaseFor DEF Leaves, Restore, s, p
    <3> QED
      BY <1>3, <3>1 DEF PoolTypeOK
  <2> QED
    BY <2>1, <2>2
<1>5. \A q \in Escalations : stage[q] = "calling" => Home[q] \in Replicas /\ SlotOf(q) \in Slots
  BY SlotIs DEF OnSlot
<1>6. CallsApart' /\ (tangled \subseteq crowded)'
  BY <1>0, <1>1, <1>2 DEF BaseInv, CallsApart
<1>7. BaseRewritten'
  <2>1. SUFFICES ASSUME NEW q \in Escalations \ {r}, stage[q] = "calling",
                        Rewrites(q, SlotOf(q)), <<Home[q], SlotOf(q)>> \notin tangled
                 PROVE  base'[Home[q]][SlotOf(q)] = pin[q] /\ original'[q] = "own"
    BY <1>0, <1>1, <1>2 DEF BaseRewritten
  <2>2. base[Home[q]][SlotOf(q)] = pin[q] /\ original[q] = "own"
    BY <2>1 DEF BaseInv, BaseRewritten
  <2>3. Home[q] = p /\ SlotOf(q) = s => ~Rewrites(r, s)
    BY <1>0, <2>1 DEF BaseInv, CallsApart, p, s
  <2> QED
    BY <1>2, <1>4, <1>5, <2>1, <2>2, <2>3
<1>8. BaseRestored'
  <2>1. SUFFICES ASSUME NEW x \in Replicas, NEW t \in Slots, <<x, t>> \notin tangled,
                        \A q \in Escalations \ {r} :
                           Home[q] = x /\ stage[q] = "calling" /\ SlotOf(q) = t => ~Rewrites(q, t)
                 PROVE  base'[x][t] = "own"
    BY <1>0, <1>1, <1>2 DEF BaseRestored, At
  <2>2. CASE x = p /\ t = s /\ Rewrites(r, s)
    <3>1. original[r] = "own" /\ base[x][t] = pin[r]
      BY <1>0, <2>1, <2>2 DEF BaseInv, BaseRewritten, p, s
    <3>2. pin[r] # "own"
      BY <2>2, PinIs
    <3> QED
      BY <1>4, <2>2, <3>1, <3>2
  <2>3. CASE ~(x = p /\ t = s /\ Rewrites(r, s))
    <3>1. \A q \in At(x, t) : ~Rewrites(q, t)
      BY <2>1, <2>3 DEF At, p, s
    <3>2. base[x][t] = "own"
      BY <2>1, <3>1 DEF BaseInv, BaseRestored
    <3> QED
      BY <1>4, <2>3, <3>2
  <2> QED
    BY <2>2, <2>3
<1>9. RegionKept'
  BY <1>0, <1>1, <1>2 DEF BaseInv, RegionKept
<1> QED
  BY <1>6, <1>7, <1>8, <1>9 DEF BaseInv

-----------------------------------------------------------------------------
LEMMA PoolTypeStep == PoolTypeOK /\ OnSlot /\ [PoolNext]_poolVars => PoolTypeOK'
<1> SUFFICES ASSUME PoolTypeOK, OnSlot, [PoolNext]_poolVars PROVE PoolTypeOK'
  OBVIOUS
<1> USE DEF PoolTypeOK, breakers, MoveTo, Stages, InLoop, Ended
<1>0. /\ Threshold \in Nat \ {0} /\ Attempts \in Nat \ {0} /\ Streamed \subseteq Escalations
      /\ Deadlined \subseteq Escalations /\ Home \in [Escalations -> Replicas]
  BY FrontierAssumption
\* A request that has a slot.
<1>a. ASSUME NEW r \in Escalations, Ahead(r) # {}
      PROVE  /\ Place(r) + 1 \in Nat \ {0} /\ SlotOf(r) \in Slots /\ Home[r] \in Replicas
  <2>1. Place(r) \in Nat
    BY <1>a, SlotIs
  <2> QED
    BY <1>a, <2>1, SlotIs
<1>1. ASSUME NEW r \in Escalations, Begin(r) PROVE PoolTypeOK'
  BY <1>1 DEF Begin
<1>2. ASSUME NEW r \in Escalations, Loop(r) PROVE PoolTypeOK'
  <2>1. CASE Ahead(r) = {}
    BY <1>2, <2>1 DEF Loop
  <2>2. CASE Ahead(r) # {}
    <3>1. PICK b \in BOOLEAN : /\ allow(Home[r], SlotOf(r), b)
                               /\ IF b THEN MoveTo(r, "pick") /\ UNCHANGED pos ELSE NextSlot(r)
      BY <1>2, <2>2 DEF Loop
    <3>2. faults' \in Nat
      BY <3>1 DEF allow, Redis
    <3>3. pos' \in [Escalations -> Nat \ {0}] /\ stage' \in [Escalations -> Stages]
      BY <1>a, <2>2, <3>1 DEF NextSlot
    <3> QED
      BY <1>2, <3>2, <3>3 DEF Loop
  <2> QED
    BY <2>1, <2>2
<1>3. ASSUME NEW r \in Escalations, Blamed(r) PROVE PoolTypeOK'
  <2>1. Ahead(r) # {}
    BY <1>3 DEF Blamed, OnSlot
  <2>2. pos' \in [Escalations -> Nat \ {0}] /\ stage' \in [Escalations -> Stages]
    BY <1>3, <1>a, <2>1 DEF Blamed, NextSlot
  <2>3. /\ failures' \in [Replicas -> [Slots -> 0..Threshold]]
        /\ opened' \in [Replicas -> [Slots -> {"closed", "open", "cooled"}]]
        /\ shared' \in SUBSET Slots /\ revived' \in SUBSET (Replicas \X Slots) /\ faults' \in Nat
    BY <1>3, <1>a, <2>1, RecordType DEF Blamed
  <2> QED
    BY <1>3, <2>2, <2>3 DEF Blamed
<1>4. ASSUME NEW r \in Escalations, NoKey(r) \/ Expire(r) PROVE PoolTypeOK'
  <2>1. Ahead(r) # {}
    BY <1>4 DEF NoKey, Expire, OnSlot
  <2>2. pos' \in [Escalations -> Nat \ {0}] /\ stage' \in [Escalations -> Stages]
    BY <1>4, <1>a, <2>1 DEF NoKey, Expire, NextSlot
  <2> QED
    BY <1>4, <2>2 DEF NoKey, Expire
<1>5. ASSUME NEW r \in Escalations, Call(r) PROVE PoolTypeOK'
  <2> DEFINE p == Home[r]
             s == SlotOf(r)
             b == openrouter_base_for_region(r, s, base[p][s])
  <2>1. p \in Replicas /\ s \in Slots
    BY <1>5, <1>a DEF Call, OnSlot
  <2>2. /\ original' = [original EXCEPT ![r] = base[p][s]]
        /\ base' = [base EXCEPT ![p][s] = b]
        /\ sent' = [sent EXCEPT ![r] = base'[p][s]]
        /\ crowded' \subseteq crowded \cup {<<p, s>>} /\ tangled' \subseteq tangled \cup {<<p, s>>}
    BY <1>5 DEF Call
  <2> HIDE DEF p, s
  <2>3. b \in Bases
    BY <2>1, PinIs, BaseFor DEF Bases
  <2> HIDE DEF b
  <2>4. base' \in [Replicas -> [Slots -> Bases]]
    BY <2>1, <2>2, <2>3
  <2>5. original' \in [Escalations -> Bases] /\ sent' \in [Escalations -> Bases]
    BY <2>1, <2>2, <2>4
  <2>6. crowded' \in SUBSET (Replicas \X Slots) /\ tangled' \in SUBSET (Replicas \X Slots)
    BY <2>1, <2>2
  <2> QED
    BY <1>0, <1>5, <2>4, <2>5, <2>6 DEF Call
<1>6. ASSUME NEW r \in Escalations, Retry(r) PROVE PoolTypeOK'
  <2>1. SlotOf(r) \in Slots /\ Home[r] \in Replicas
    BY <1>6, <1>a DEF Retry, OnSlot
  <2>2. sent' \in [Escalations -> Bases]
    BY <1>6, <2>1 DEF Retry
  <2>3. tries' \in [Escalations -> 0..Attempts]
    <3>1. CASE UNCHANGED tries
      BY <3>1
    <3>2. CASE MayRetry(r) /\ tries' = [tries EXCEPT ![r] = @ + 1]
      <4>1. tries[r] \in 0..Attempts /\ tries[r] < Attempts
        BY <3>2 DEF MayRetry
      <4>2. tries[r] + 1 \in 0..Attempts
        BY <1>0, <4>1
      <4> QED
        BY <3>2, <4>2
    <3> QED
      BY <1>6, <3>1, <3>2 DEF Retry
  <2> QED
    BY <1>6, <2>2, <2>3 DEF Retry
<1>7. ASSUME NEW r \in Escalations, Answer(r) \/ Fail(r) \/ HangUp(r) PROVE PoolTypeOK'
  <2>1. Ahead(r) # {} /\ SlotOf(r) \in Slots /\ Home[r] \in Replicas
    BY <1>7, <1>a DEF Answer, Fail, HangUp, OnSlot
  <2>2. pos' \in [Escalations -> Nat \ {0}] /\ stage' \in [Escalations -> Stages]
    BY <1>7, <1>a, <2>1 DEF Answer, Fail, HangUp, NextSlot
  <2>3. base' \in [Replicas -> [Slots -> Bases]]
    <3>1. UNCHANGED base \/ base' = [base EXCEPT ![Home[r]][SlotOf(r)] = original[r]]
      BY <1>7 DEF Answer, Fail, HangUp, Restore
    <3>2. base \in [Replicas -> [Slots -> Bases]] /\ original[r] \in Bases
      OBVIOUS
    <3> HIDE DEF PoolTypeOK
    <3> QED
      BY <2>1, <3>1, <3>2
  <2>4. /\ original' \in [Escalations -> Bases] /\ sent' \in [Escalations -> Bases]
        /\ tries' \in [Escalations -> 0..Attempts]
    <3>1. Forget(r) /\ 0 \in 0..Attempts
      BY <1>0, <1>7 DEF Answer, Fail, HangUp
    <3> QED
      BY <3>1 DEF Forget, Bases
  <2>5. /\ failures' \in [Replicas -> [Slots -> 0..Threshold]]
        /\ opened' \in [Replicas -> [Slots -> {"closed", "open", "cooled"}]]
        /\ shared' \in SUBSET Slots /\ revived' \in SUBSET (Replicas \X Slots) /\ faults' \in Nat
    <3>1. \/ record_success(Home[r], SlotOf(r)) \/ record_failure(Home[r], SlotOf(r))
          \/ UNCHANGED <<failures, opened, shared, revived, faults>>
      BY <1>7 DEF Answer, Fail, HangUp
    <3> QED
      BY <2>1, <3>1, RecordType
  <2>6. UNCHANGED <<pin, store, late, crowded, tangled>>
    BY <1>7 DEF Answer, Fail, HangUp
  <2> QED
    BY <2>2, <2>3, <2>4, <2>5, <2>6
<1>8. ASSUME NEW r \in Escalations, Spend(r) PROVE PoolTypeOK'
  BY <1>0, <1>8 DEF Spend
<1>9. ASSUME NEW p \in Replicas, NEW s \in Slots, Cool(p, s) PROVE PoolTypeOK'
  <2>1. opened' \in [Replicas -> [Slots -> {"closed", "open", "cooled"}]]
    BY <1>9 DEF Cool
  <2> QED
    BY <1>9, <2>1 DEF Cool
<1>10. ASSUME NEW s \in Slots, CoolShared(s) PROVE PoolTypeOK'
  BY <1>10 DEF CoolShared
<1>11. CASE UNCHANGED poolVars
  BY <1>11 DEF poolVars
<1> QED
  BY <1>1, <1>2, <1>3, <1>4, <1>5, <1>6, <1>7, <1>8, <1>9, <1>10, <1>11 DEF PoolNext, Step

\* Every step is one of these for the bases, and one of these for the circuits.
LEMMA StepShapes ==
    ASSUME PoolTypeOK, OnSlot, PoolNext
    PROVE  /\ UNCHANGED <<pin, store>> /\ OnSlot'
           /\ \/ Quiet
              \/ \E r \in Escalations : Call(r) \/ Retry(r) \/ Leaves(r)
           /\ \/ Records
              \/ \E p \in Replicas, s \in Slots : Cool(p, s)
              \/ \E s \in Slots : CoolShared(s)
<1> DEFINE Goal == /\ UNCHANGED <<pin, store>> /\ OnSlot'
                   /\ \/ Quiet
                      \/ \E r \in Escalations : Call(r) \/ Retry(r) \/ Leaves(r)
                   /\ \/ Records
                      \/ \E p \in Replicas, s \in Slots : Cool(p, s)
                      \/ \E s \in Slots : CoolShared(s)
<1>0. stage \in [Escalations -> Stages] /\ pos \in [Escalations -> Nat \ {0}] /\ faults \in Nat
  BY DEF PoolTypeOK
\* Where a request keeps its place it keeps its slot.
<1>a. ASSUME pin' = pin,
             \A r \in Escalations : stage'[r] \in {"pick", "calling"} =>
                pos'[r] = pos[r] /\ Ahead(r) # {}
      PROVE  OnSlot'
  BY <1>a, SameSlot DEF OnSlot
<1>b. \A r \in Escalations : stage[r] \in {"pick", "calling"} =>
         Ahead(r) # {} /\ Home[r] \in Replicas /\ SlotOf(r) \in Slots
  BY SlotIs DEF OnSlot
<1>1. ASSUME NEW r \in Escalations, Begin(r) \/ Loop(r) \/ NoKey(r) \/ Expire(r) PROVE Goal
  <2>1. UNCHANGED <<pin, store, base, original, sent, crowded, tangled, breakers>>
    BY <1>1 DEF Begin, Loop, NoKey, Expire
  <2>2. /\ stage[r] # "calling" /\ stage'[r] # "calling"
        /\ \A q \in Escalations \ {r} : stage'[q] = stage[q] /\ pos'[q] = pos[q]
        /\ stage'[r] = "pick" => pos'[r] = pos[r] /\ Ahead(r) # {}
    BY <1>0, <1>1 DEF Begin, Loop, NoKey, Expire, MoveTo, NextSlot
  <2>3. faults' = 0 => faults = 0
    BY <1>0, <1>1 DEF Begin, Loop, NoKey, Expire, allow, Redis
  <2>4. OnSlot'
    BY <1>a, <1>b, <2>1, <2>2
  <2> QED
    BY <2>1, <2>2, <2>3, <2>4 DEF Quiet, Records
<1>2. ASSUME NEW r \in Escalations, Blamed(r) PROVE Goal
  <2>1. UNCHANGED <<pin, store, base, original, sent, crowded, tangled>>
    BY <1>2 DEF Blamed
  <2>2. /\ stage[r] = "pick" /\ stage'[r] = "loop"
        /\ \A q \in Escalations \ {r} : stage'[q] = stage[q] /\ pos'[q] = pos[q]
    BY <1>0, <1>2 DEF Blamed, MoveTo, NextSlot
  <2>3. Records
    BY <1>2, <1>b DEF Blamed, Records
  <2>4. OnSlot'
    BY <1>a, <1>b, <2>1, <2>2
  <2> QED
    BY <2>1, <2>2, <2>3, <2>4 DEF Quiet
<1>3. ASSUME NEW r \in Escalations, Call(r) \/ Retry(r) PROVE Goal
  <2>1. UNCHANGED <<pin, store, pos, breakers, faults>>
    BY <1>3 DEF Call, Retry
  <2>2. \A q \in Escalations : stage'[q] = stage[q] \/ (q = r /\ stage[r] = "pick")
    BY <1>0, <1>3 DEF Call, Retry, MoveTo
  <2>3. OnSlot'
    BY <1>a, <1>b, <2>1, <2>2
  <2> QED
    BY <1>3, <2>1, <2>3 DEF Records
<1>4. ASSUME NEW r \in Escalations, Answer(r) \/ Fail(r) \/ HangUp(r) PROVE Goal
  <2>1. UNCHANGED <<pin, store, crowded, tangled>>
    BY <1>4 DEF Answer, Fail, HangUp
  <2>2. \E p \in {"served", "loop", "gone"} : MoveTo(r, p)
    BY <1>4 DEF Answer, Fail, HangUp, NextSlot
  <2>3. \A q \in Escalations \ {r} : pos'[q] = pos[q] /\ stage'[q] = stage[q]
    BY <1>0, <1>4, <2>2 DEF Answer, Fail, HangUp, NextSlot, MoveTo
  <2>4. stage'[r] \notin {"pick", "calling"}
    BY <1>0, <2>2 DEF MoveTo
  <2>5. Leaves(r)
    BY <1>4, <2>1, <2>2, <2>3 DEF Answer, Fail, HangUp, Leaves, Stages, InLoop, Ended
  <2>6. Records
    BY <1>4, <1>b DEF Answer, Fail, HangUp, Records
  <2>7. OnSlot'
    BY <1>a, <1>b, <2>1, <2>3, <2>4
  <2> QED
    BY <2>1, <2>5, <2>6, <2>7
<1>5. ASSUME NEW r \in Escalations, Spend(r) PROVE Goal
  BY <1>5, <1>a, <1>b DEF Spend, Quiet, Records
<1>6. ASSUME NEW p \in Replicas, NEW s \in Slots, Cool(p, s) PROVE Goal
  BY <1>6, <1>a, <1>b DEF Cool, Quiet
<1>7. ASSUME NEW s \in Slots, CoolShared(s) PROVE Goal
  BY <1>7, <1>a, <1>b DEF CoolShared, Quiet
<1> QED
  BY <1>1, <1>2, <1>3, <1>4, <1>5, <1>6, <1>7 DEF PoolNext, Step

\* Time ends what nobody stands for any more.
LEMMA CoolStep ==
    ASSUME PoolTypeOK, BreakerInv,
           \/ \E p \in Replicas, s \in Slots : Cool(p, s)
           \/ \E s \in Slots : CoolShared(s)
    PROVE  BreakerInv'
<1> USE DEF BreakerInv, OpenIsShared, SharedJustified
<1>1. ASSUME NEW p \in Replicas, NEW s \in Slots, Cool(p, s) PROVE BreakerInv'
  <2>1. UNCHANGED <<store, faults, shared, failures>> /\ revived' = revived \ {<<p, s>>}
    BY <1>1 DEF Cool
  <2>2. \A q \in Replicas, t \in Slots :
           opened'[q][t] = IF q = p /\ t = s THEN "cooled" ELSE opened[q][t]
    BY <1>1 DEF Cool, PoolTypeOK
  <2>3. OpenIsShared'
    BY <2>1, <2>2
  <2> QED
    BY <2>1, <2>3
<1>2. ASSUME NEW s \in Slots, CoolShared(s) PROVE BreakerInv'
  <2>1. /\ UNCHANGED <<store, faults, opened, revived, failures>> /\ shared' = shared \ {s}
        /\ \A p \in Replicas : opened[p][s] = "open" => <<p, s>> \in revived \/ faults > 0
    BY <1>2 DEF CoolShared
  <2>2. OpenIsShared'
    BY <2>1
  <2> QED
    BY <2>1, <2>2
<1> QED
  BY <1>1, <1>2

LEMMA PoolInitInv == PoolInit => PoolInv
<1> SUFFICES ASSUME PoolInit PROVE PoolInv
  OBVIOUS
<1> USE DEF PoolInit
<1>0. Threshold \in Nat \ {0} /\ Attempts \in Nat \ {0}
  BY FrontierAssumption
<1>1. PoolTypeOK
  BY <1>0 DEF PoolTypeOK, Bases, Stages, InLoop, Ended
<1>2. OnSlot
  BY DEF OnSlot
<1>3. BaseInv
  BY DEF BaseInv, CallsApart, BaseRewritten, BaseRestored, RegionKept
<1>4. BreakerInv
  BY DEF BreakerInv, OpenIsShared, SharedJustified
<1> QED
  BY <1>1, <1>2, <1>3, <1>4 DEF PoolInv

\* The inductive invariant of the frontier pool.
THEOREM PoolInvariance == PoolSpec => []PoolInv
<1>1. PoolInv /\ [PoolNext]_poolVars => PoolInv'
  <2> SUFFICES ASSUME PoolInv, [PoolNext]_poolVars PROVE PoolInv'
    OBVIOUS
  <2>0. PoolTypeOK /\ OnSlot /\ BaseInv /\ BreakerInv
    BY DEF PoolInv
  <2>1. PoolTypeOK'
    BY <2>0, PoolTypeStep
  <2>2. CASE PoolNext
    <3>1. BaseInv'
      BY <2>0, <2>2, StepShapes, QuietStep, CallStep, RetryStep, LeaveStep
    <3>2. BreakerInv'
      BY <2>0, <2>2, StepShapes, BreakerStep, CoolStep
    <3> QED
      BY <2>0, <2>1, <2>2, <3>1, <3>2, StepShapes DEF PoolInv
  <2>3. CASE UNCHANGED poolVars
    <3>1. Quiet /\ Records /\ UNCHANGED <<pin, store>>
      BY <2>3 DEF poolVars, Quiet, Records, breakers
    <3>2. BaseInv' /\ BreakerInv'
      BY <2>0, <3>1, QuietStep, BreakerStep
    <3>3. OnSlot'
      BY <2>0, <2>3, SameSlot DEF OnSlot, poolVars
    <3> QED
      BY <2>1, <3>2, <3>3 DEF PoolInv
  <2> QED
    BY <2>2, <2>3
<1> QED
  BY <1>1, PoolInitInv, PTL DEF PoolSpec

\* What the pool, its breakers and its requests hold is of its type.
THEOREM PoolTypeCorrect == PoolSpec => []PoolTypeOK
<1>1. PoolInv => PoolTypeOK
  BY DEF PoolInv
<1> QED
  BY <1>1, PoolInvariance, PTL

\* execute: each attempt, retries included, goes to a host of the pin.
THEOREM RegionsAreKept == PoolSpec => []RegionKept
<1>1. PoolInv => RegionKept
  BY DEF PoolInv, BaseInv
<1> QED
  BY <1>1, PoolInvariance, PTL

\* The finally clause of execute: no executor keeps a region's base.
THEOREM BasesAreRestored == PoolSpec => []BaseRestored
<1>1. PoolInv => BaseRestored
  BY DEF PoolInv, BaseInv
<1> QED
  BY <1>1, PoolInvariance, PTL

\* record_failure, publish_shared_open: a snapshot in Redis has a replica behind it.
THEOREM SharedIsJustified == PoolSpec => []SharedJustified
<1>1. PoolInv => SharedJustified
  BY DEF PoolInv, BreakerInv
<1> QED
  BY <1>1, PoolInvariance, PTL

\* allow: nobody begins a call through a circuit that the fleet has opened.
THEOREM OpenDoesStop == PoolSpec => OpenStops
<1> DEFINE A == \A r \in Escalations :
                  stage[r] = "loop" /\ stage'[r] = "pick" /\ faults = 0 /\ faults' = 0 =>
                      \A p \in Replicas :
                          p = Home[r] \/ store =>
                              opened[p][SlotOf(r)] # "open" \/ <<p, SlotOf(r)>> \in revived
<1>1. PoolInv /\ [PoolNext]_poolVars => [A]_poolVars
  <2> SUFFICES ASSUME PoolInv, PoolNext, NEW r \in Escalations,
                      stage[r] = "loop", stage'[r] = "pick", faults = 0, faults' = 0,
                      NEW p \in Replicas, p = Home[r] \/ store
               PROVE  opened[p][SlotOf(r)] # "open" \/ <<p, SlotOf(r)>> \in revived
    BY DEF poolVars
  <2>0. /\ stage \in [Escalations -> Stages] /\ OpenIsShared /\ PoolTypeOK
    BY DEF PoolInv, PoolTypeOK, BreakerInv
  <2>1. Loop(r)
    <3>1. ASSUME NEW q \in Escalations, Step(q) \/ Spend(q) PROVE q = r /\ Loop(r)
      BY <2>0, <3>1 DEF Step, Begin, Loop, Blamed, NoKey, Expire, Call, Retry, Answer, Fail,
                        HangUp, Spend, MoveTo, NextSlot
    <3> QED
      BY <3>1 DEF PoolNext, Cool, CoolShared
  <2>2. Ahead(r) # {} /\ allow(Home[r], SlotOf(r), TRUE)
    <3>1. Ahead(r) # {}
      BY <2>0, <2>1 DEF Loop, MoveTo
    <3>2. PICK b \in BOOLEAN : /\ allow(Home[r], SlotOf(r), b)
                               /\ IF b THEN MoveTo(r, "pick") /\ UNCHANGED pos ELSE NextSlot(r)
      BY <2>1, <3>1 DEF Loop
    <3>3. b = TRUE
      BY <2>0, <3>2 DEF NextSlot, MoveTo
    <3> QED
      BY <3>1, <3>2, <3>3
  <2>3. SlotOf(r) \in Slots
    BY <2>0, <2>2, SlotIs
  <2>4. CASE store
    <3>1. SlotOf(r) \notin shared
      BY <2>2, <2>4 DEF allow, Redis
    <3> QED
      BY <2>0, <2>3, <2>4, <3>1 DEF OpenIsShared
  <2>5. CASE ~store
    BY <2>2, <2>5 DEF allow
  <2> QED
    BY <2>4, <2>5
<1> QED
  BY <1>1, PoolInvariance, PTL DEF PoolSpec, OpenStops

=============================================================================
