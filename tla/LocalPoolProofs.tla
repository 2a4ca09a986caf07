--------------------------- MODULE LocalPoolProofs ---------------------------
(***************************************************************************)
(* Proofs about LocalPool for any hosts, requests, ladder and threshold.   *)
(* The counter of a host goes up and down with the set of the requests     *)
(* that have called it, so each action is shown to add one request to that *)
(* set, to remove one from it, or to leave it alone.                       *)
(***************************************************************************)
EXTENDS LocalPool, FiniteSetTheorems, TLAPS

USE PoolAssumption

\* The requests that a host works on.
AtHost(h) == {r \in Requests : pc[r] = "calling" /\ host[r] = h}

IInv == TypeOK /\ OutstandingExact /\ CircuitExact

-----------------------------------------------------------------------------
\* There is a rung, and the ladder is finite.
LEMMA LadderLength == Len(Ladder) \in Nat \ {0}
  <1>1. Len(Ladder) \in Nat
    BY Ladder \in Seq(STRING) DEF PoolAssumption
  <1> QED
    BY <1>1 DEF PoolAssumption

LEMMA AtHostFinite == \A h : IsFiniteSet(AtHost(h)) /\ Cardinality(AtHost(h)) \in Nat
  <1> TAKE h
  <1>1. AtHost(h) \subseteq Requests
    BY DEF AtHost
  <1>2. IsFiniteSet(AtHost(h))
    BY <1>1, FS_Subset DEF PoolAssumption
  <1> QED
    BY <1>2, FS_CardinalityType

\* A request calls a host.
LEMMA OneMore ==
  ASSUME TypeOK, OutstandingExact, NEW r \in Requests, NEW g \in Hosts,
         pc[r] # "calling",
         pc' = [pc EXCEPT ![r] = "calling"], host' = [host EXCEPT ![r] = g],
         acquire(g)
  PROVE  OutstandingExact'
  <1> SUFFICES ASSUME NEW h \in Hosts
               PROVE  outstanding'[h] = Cardinality(AtHost(h)')
    BY DEF OutstandingExact, AtHost
  <1>1. outstanding[h] = Cardinality(AtHost(h)) /\ outstanding[h] \in Nat
    BY DEF OutstandingExact, AtHost, TypeOK
  <1>2. CASE h = g
    <2>1. AtHost(h)' = AtHost(h) \cup {r} /\ r \notin AtHost(h)
      BY <1>2 DEF AtHost, TypeOK
    <2>2. Cardinality(AtHost(h)') = Cardinality(AtHost(h)) + 1
      BY <2>1, AtHostFinite, FS_AddElement
    <2> QED
      BY <1>1, <1>2, <2>2 DEF acquire, TypeOK
  <1>3. CASE h # g
    <2>1. AtHost(h)' = AtHost(h)
      BY <1>3 DEF AtHost, TypeOK
    <2> QED
      BY <1>1, <1>3, <2>1 DEF acquire, TypeOK
  <1> QED
    BY <1>2, <1>3

\* A request leaves the host it has called.
LEMMA OneLess ==
  ASSUME TypeOK, OutstandingExact, NEW r \in Requests, NEW p \in Points,
         pc[r] = "calling", p # "calling",
         pc' = [pc EXCEPT ![r] = p], host' = host,
         release(host[r])
  PROVE  OutstandingExact'
  <1> SUFFICES ASSUME NEW h \in Hosts
               PROVE  outstanding'[h] = Cardinality(AtHost(h)')
    BY DEF OutstandingExact, AtHost
  <1>1. outstanding[h] = Cardinality(AtHost(h)) /\ outstanding[h] \in Nat
    BY DEF OutstandingExact, AtHost, TypeOK
  <1>2. CASE h = host[r]
    <2>1. AtHost(h)' = AtHost(h) \ {r} /\ r \in AtHost(h)
      BY <1>2 DEF AtHost, TypeOK
    <2>2. Cardinality(AtHost(h)') = Cardinality(AtHost(h)) - 1
      BY <2>1, AtHostFinite, FS_RemoveElement
    <2>3. Cardinality(AtHost(h)') \in Nat
      BY <2>1, AtHostFinite, FS_RemoveElement, FS_CardinalityType
    <2>4. outstanding[h] > 0
      BY <1>1, <2>2, <2>3
    <2> QED
      BY <1>1, <1>2, <2>2, <2>4 DEF release, TypeOK
  <1>3. CASE h # host[r]
    <2>1. AtHost(h)' = AtHost(h)
      BY <1>3 DEF AtHost, TypeOK
    <2> QED
      BY <1>1, <1>3, <2>1 DEF release, TypeOK
  <1> QED
    BY <1>2, <1>3

\* max(0, ...) is never below zero.
LEMMA ReleaseTyped ==
  ASSUME outstanding \in [Hosts -> Nat], NEW h \in Hosts, release(h)
  PROVE  outstanding' \in [Hosts -> Nat]
  <1>1. (IF outstanding[h] > 0 THEN outstanding[h] - 1 ELSE 0) \in Nat
    OBVIOUS
  <1> QED
    BY <1>1 DEF release

\* Nobody calls a host and nobody leaves one.
LEMMA SameHosts ==
  ASSUME TypeOK, OutstandingExact, UNCHANGED <<outstanding, host>>,
         \A r \in Requests : (pc'[r] = "calling") <=> (pc[r] = "calling")
  PROVE  OutstandingExact'
  <1> SUFFICES ASSUME NEW h \in Hosts
               PROVE  outstanding'[h] = Cardinality(AtHost(h)')
    BY DEF OutstandingExact, AtHost
  <1>1. AtHost(h)' = AtHost(h)
    BY DEF AtHost
  <1> QED
    BY <1>1 DEF OutstandingExact, AtHost

-----------------------------------------------------------------------------
\* What the breakers keep true.
BreakersOK ==
    /\ failures \in [Hosts -> 0..Threshold]
    /\ circuit \in [Hosts -> {"closed", "open", "half_open"}]
    /\ CircuitExact

LEMMA Success ==
  ASSUME BreakersOK, NEW h \in Hosts, record_success(h)
  PROVE  BreakersOK'
  BY DEF BreakersOK, CircuitExact, record_success, PoolAssumption

LEMMA Failure ==
  ASSUME BreakersOK, NEW h \in Hosts, record_failure(h)
  PROVE  BreakersOK'
  <1>1. failures' \in [Hosts -> 0..Threshold]
    BY DEF BreakersOK, record_failure, PoolAssumption
  <1>2. circuit' \in [Hosts -> {"closed", "open", "half_open"}]
    BY DEF BreakersOK, record_failure
  <1>3. ASSUME NEW g \in Hosts, g # h
        PROVE  circuit'[g] = "closed" <=> failures'[g] < Threshold
    BY <1>3 DEF BreakersOK, CircuitExact, record_failure
  <1>4. CASE failures'[h] = Threshold
    <2>1. circuit'[h] = "open"
      BY <1>4 DEF BreakersOK, record_failure
    <2> QED
      BY <1>1, <1>2, <1>3, <1>4, <2>1 DEF BreakersOK, CircuitExact, PoolAssumption
  <1>5. CASE failures'[h] # Threshold
    <2>1. circuit'[h] = circuit[h]
      BY <1>5 DEF BreakersOK, record_failure
    <2>2. failures[h] < Threshold /\ failures'[h] < Threshold
      BY <1>1, <1>5 DEF BreakersOK, record_failure, PoolAssumption
    <2>3. circuit'[h] = "closed" <=> failures'[h] < Threshold
      BY <2>1, <2>2 DEF BreakersOK, CircuitExact
    <2> QED
      BY <1>1, <1>2, <1>3, <2>3 DEF BreakersOK, CircuitExact
  <1> QED
    BY <1>4, <1>5

-----------------------------------------------------------------------------
LEMMA InitOK == Init => IInv
  <1> SUFFICES ASSUME Init PROVE IInv
    OBVIOUS
  <1>1. TypeOK
    <2>1. (CHOOSE h \in Hosts : TRUE) \in Hosts
      BY DEF PoolAssumption
    <2> QED
      BY <2>1, LadderLength DEF Init, TypeOK, Points, PoolAssumption
  <1>2. \A h \in Hosts : AtHost(h) = {}
    BY DEF Init, AtHost
  <1>3. OutstandingExact
    BY <1>2, FS_EmptySet DEF Init, OutstandingExact, AtHost
  <1>4. CircuitExact
    BY DEF Init, CircuitExact, PoolAssumption
  <1> QED
    BY <1>1, <1>3, <1>4 DEF IInv
LEMMA BeginOK ==
  ASSUME IInv, NEW r \in Requests, Begin(r)
  PROVE  IInv'
  <1>1. BreakersOK /\ TypeOK /\ OutstandingExact
    BY DEF IInv, TypeOK, BreakersOK
  <1>2. BreakersOK'
    BY <1>1 DEF BreakersOK, CircuitExact, Begin, Goto
  <1>3. OutstandingExact'
    BY <1>1, SameHosts DEF TypeOK, Begin, Goto
  <1>4. TypeOK'
    BY <1>1, <1>2, LadderLength DEF TypeOK, BreakersOK, Points, Ended, Begin, Goto
  <1> QED
    BY <1>2, <1>3, <1>4 DEF IInv, BreakersOK

LEMMA EnterTierOK ==
  ASSUME IInv, NEW r \in Requests, EnterTier(r)
  PROVE  IInv'
  <1>1. BreakersOK /\ TypeOK /\ OutstandingExact
    BY DEF IInv, TypeOK, BreakersOK
  <1>2. BreakersOK'
    BY <1>1 DEF BreakersOK, CircuitExact, EnterTier, Goto
  <1>3. OutstandingExact'
    BY <1>1, SameHosts DEF TypeOK, EnterTier, Goto
  <1>4. TypeOK'
    BY <1>1, <1>2, LadderLength DEF TypeOK, BreakersOK, Points, Ended, EnterTier, Goto
  <1> QED
    BY <1>2, <1>3, <1>4 DEF IInv, BreakersOK

\* A request that is not on the last rung goes one down.
LEMMA DownTyped ==
  ASSUME TypeOK, NEW r \in Requests, ~Bottom(r), Down(r)
  PROVE  tier' \in [Requests -> 1..Len(Ladder)] /\ pc' \in [Requests -> Points]
  <1>1. tier[r] + 1 \in 1..Len(Ladder)
    BY LadderLength DEF TypeOK, Bottom
  <1>2. tier' \in [Requests -> 1..Len(Ladder)]
    BY <1>1 DEF TypeOK, Down
  <1> QED
    BY <1>2 DEF TypeOK, Down, Goto, Points

LEMMA NoHostOK ==
  ASSUME IInv, NEW r \in Requests, NoHost(r)
  PROVE  IInv'
  <1>1. BreakersOK /\ TypeOK /\ OutstandingExact
    BY DEF IInv, TypeOK, BreakersOK
  <1>2. BreakersOK'
    BY <1>1 DEF BreakersOK, CircuitExact, NoHost, Down, Goto, Bottom
  <1>3. OutstandingExact'
    BY <1>1, SameHosts DEF TypeOK, NoHost, Down, Goto, Bottom
  <1>4. tier' \in [Requests -> 1..Len(Ladder)] /\ pc' \in [Requests -> Points]
    <2>1. CASE ~Bottom(r) /\ Down(r)
      BY <1>1, <2>1, DownTyped
    <2>2. CASE Bottom(r)
      BY <1>1, <2>2 DEF TypeOK, NoHost, Goto, Points, Ended
    <2> QED
      BY <2>1, <2>2 DEF NoHost
  <1>5. TypeOK'
    BY <1>1, <1>2, <1>4 DEF TypeOK, BreakersOK, NoHost
  <1> QED
    BY <1>2, <1>3, <1>5 DEF IInv, BreakersOK

LEMMA FrontierOK ==
  ASSUME IInv, NEW r \in Requests, Frontier(r)
  PROVE  IInv'
  <1>1. BreakersOK /\ TypeOK /\ OutstandingExact
    BY DEF IInv, TypeOK, BreakersOK
  <1>2. BreakersOK'
    BY <1>1 DEF BreakersOK, CircuitExact, Frontier, Goto
  <1>3. OutstandingExact'
    BY <1>1, SameHosts DEF TypeOK, Frontier, Goto
  <1>4. TypeOK'
    BY <1>1, <1>2, LadderLength DEF TypeOK, BreakersOK, Points, Ended, Frontier, Goto
  <1> QED
    BY <1>2, <1>3, <1>4 DEF IInv, BreakersOK

LEMMA SpendOK ==
  ASSUME IInv, NEW r \in Requests, Spend(r)
  PROVE  IInv'
  <1>1. BreakersOK /\ TypeOK /\ OutstandingExact
    BY DEF IInv, TypeOK, BreakersOK
  <1>2. BreakersOK'
    BY <1>1 DEF BreakersOK, CircuitExact, Spend
  <1>3. OutstandingExact'
    BY <1>1, SameHosts DEF TypeOK, Spend
  <1>4. TypeOK'
    BY <1>1, <1>2, LadderLength DEF TypeOK, BreakersOK, Points, Ended, Spend
  <1> QED
    BY <1>2, <1>3, <1>4 DEF IInv, BreakersOK

LEMMA CallOK ==
  ASSUME IInv, NEW r \in Requests, Call(r)
  PROVE  IInv'
  <1>1. BreakersOK /\ TypeOK /\ OutstandingExact
    BY DEF IInv, TypeOK, BreakersOK
  <1>2. BreakersOK'
    BY <1>1 DEF BreakersOK, CircuitExact, Call
  <1>3. PICK g \in Hosts :
            /\ tried' = [tried EXCEPT ![r] = @ \cup {g}]
            /\ acquire(g)
            /\ host' = [host EXCEPT ![r] = g]
    BY DEF Call, choose, Remaining, eligible
  <1>4. OutstandingExact'
    BY <1>1, <1>3, OneMore DEF Call, Goto
  <1>5. TypeOK'
    BY <1>1, <1>2, <1>3 DEF TypeOK, BreakersOK, Points, Call, Goto, acquire
  <1> QED
    BY <1>2, <1>4, <1>5 DEF IInv, BreakersOK

LEMMA CallTooLateOK ==
  ASSUME IInv, NEW r \in Requests, CallTooLate(r)
  PROVE  IInv'
  <1>1. BreakersOK /\ TypeOK /\ OutstandingExact
    BY DEF IInv, TypeOK, BreakersOK
  <1>2. PICK g \in Hosts :
            /\ tried' = [tried EXCEPT ![r] = @ \cup {g}]
            /\ IF r \in Streams
               THEN Goto(r, "expired") /\ UNCHANGED <<failures, circuit>>
               ELSE record_failure(g) /\ UNCHANGED pc
    BY DEF CallTooLate, choose, Remaining, eligible
  <1>3. BreakersOK'
    <2>1. CASE r \in Streams
      BY <1>1, <1>2, <2>1 DEF BreakersOK, CircuitExact
    <2>2. CASE r \notin Streams
      BY <1>1, <1>2, <2>2, Failure
    <2> QED
      BY <2>1, <2>2
  <1>4. pc' \in [Requests -> Points] /\ \A q \in Requests : (pc'[q] = "calling") <=> (pc[q] = "calling")
    BY <1>1, <1>2 DEF TypeOK, Points, Ended, CallTooLate, Goto
  <1>5. OutstandingExact'
    BY <1>1, <1>4, SameHosts DEF CallTooLate
  <1>6. TypeOK'
    BY <1>1, <1>2, <1>3, <1>4 DEF TypeOK, BreakersOK, CallTooLate
  <1> QED
    BY <1>3, <1>5, <1>6 DEF IInv, BreakersOK

LEMMA AnswerOK ==
  ASSUME IInv, NEW r \in Requests, Answer(r)
  PROVE  IInv'
  <1>1. BreakersOK /\ TypeOK /\ OutstandingExact /\ host[r] \in Hosts
    BY DEF IInv, TypeOK, BreakersOK
  <1>2. BreakersOK'
    BY <1>1, Success DEF Answer
  <1>3. PICK p \in Points \ {"calling"} : pc' = [pc EXCEPT ![r] = p]
    BY DEF Answer, Down, Goto, Points, Ended
  <1>4. OutstandingExact'
    BY <1>1, <1>3, OneLess DEF Answer
  <1>5. tier' \in [Requests -> 1..Len(Ladder)]
    BY <1>1, DownTyped DEF Answer, TypeOK
  <1>6. outstanding' \in [Hosts -> Nat]
    BY <1>1, ReleaseTyped DEF TypeOK, Answer
  <1>7. pc' \in [Requests -> Points]
    BY <1>1, <1>3 DEF TypeOK
  <1>8. TypeOK'
    BY <1>1, <1>2, <1>5, <1>6, <1>7 DEF TypeOK, BreakersOK, Answer
  <1> QED
    BY <1>2, <1>4, <1>8 DEF IInv, BreakersOK

LEMMA FailOK ==
  ASSUME IInv, NEW r \in Requests, Fail(r)
  PROVE  IInv'
  <1>1. BreakersOK /\ TypeOK /\ OutstandingExact /\ host[r] \in Hosts
    BY DEF IInv, TypeOK, BreakersOK
  <1>2. BreakersOK'
    BY <1>1, Failure DEF Fail
  <1>3. "loop" \in Points /\ pc' = [pc EXCEPT ![r] = "loop"]
    BY DEF Fail, Goto, Points
  <1>4. OutstandingExact'
    BY <1>1, <1>3, OneLess DEF Fail
  <1>5. TypeOK'
    BY <1>1, <1>2, <1>3 DEF TypeOK, BreakersOK, Fail, release
  <1> QED
    BY <1>2, <1>4, <1>5 DEF IInv, BreakersOK

LEMMA BreakOK ==
  ASSUME IInv, NEW r \in Requests, Break(r)
  PROVE  IInv'
  <1>1. BreakersOK /\ TypeOK /\ OutstandingExact /\ host[r] \in Hosts
    BY DEF IInv, TypeOK, BreakersOK
  <1>2. BreakersOK'
    BY <1>1, Failure DEF Break
  <1>3. PICK p \in Points \ {"calling"} : pc' = [pc EXCEPT ![r] = p]
    BY DEF Break, Down, Goto, Points, Ended
  <1>4. OutstandingExact'
    BY <1>1, <1>3, OneLess DEF Break
  <1>5. tier' \in [Requests -> 1..Len(Ladder)]
    BY <1>1, DownTyped DEF Break, TypeOK
  <1>6. outstanding' \in [Hosts -> Nat]
    BY <1>1, ReleaseTyped DEF TypeOK, Break
  <1>7. pc' \in [Requests -> Points]
    BY <1>1, <1>3 DEF TypeOK
  <1>8. TypeOK'
    BY <1>1, <1>2, <1>5, <1>6, <1>7 DEF TypeOK, BreakersOK, Break
  <1> QED
    BY <1>2, <1>4, <1>8 DEF IInv, BreakersOK

LEMMA ExpireOK ==
  ASSUME IInv, NEW r \in Requests, Expire(r)
  PROVE  IInv'
  <1>1. BreakersOK /\ TypeOK /\ OutstandingExact /\ host[r] \in Hosts
    BY DEF IInv, TypeOK, BreakersOK
  <1>2. BreakersOK'
    BY <1>1 DEF BreakersOK, CircuitExact, Expire
  <1>3. "expired" \in Points /\ pc' = [pc EXCEPT ![r] = "expired"]
    BY DEF Expire, Goto, Points, Ended
  <1>4. OutstandingExact'
    BY <1>1, <1>3, OneLess DEF Expire
  <1>5. TypeOK'
    BY <1>1, <1>2, <1>3 DEF TypeOK, BreakersOK, Expire, release
  <1> QED
    BY <1>2, <1>4, <1>5 DEF IInv, BreakersOK

LEMMA GoneOK ==
  ASSUME IInv, NEW r \in Requests, Gone(r)
  PROVE  IInv'
  <1>1. BreakersOK /\ TypeOK /\ OutstandingExact /\ host[r] \in Hosts
    BY DEF IInv, TypeOK, BreakersOK
  <1>2. BreakersOK'
    BY <1>1 DEF BreakersOK, CircuitExact, Gone
  <1>3. "gone" \in Points /\ pc' = [pc EXCEPT ![r] = "gone"]
    BY DEF Gone, Goto, Points, Ended
  <1>4. OutstandingExact'
    <2>1. CASE pc[r] = "calling"
      BY <1>1, <1>3, <2>1, OneLess DEF Gone
    <2>2. CASE pc[r] # "calling"
      BY <1>1, <1>3, <2>2, SameHosts DEF Gone, TypeOK
    <2> QED
      BY <2>1, <2>2
  <1>5. outstanding' \in [Hosts -> Nat]
    BY <1>1, ReleaseTyped DEF TypeOK, Gone
  <1>6. TypeOK'
    BY <1>1, <1>2, <1>3, <1>5 DEF TypeOK, BreakersOK, Gone
  <1> QED
    BY <1>2, <1>4, <1>6 DEF IInv, BreakersOK

LEMMA HostStepOK ==
  ASSUME IInv, NEW h \in Hosts, Probe(h) \/ Cool(h)
  PROVE  IInv'
  <1>1. BreakersOK /\ TypeOK /\ OutstandingExact
    BY DEF IInv, TypeOK, BreakersOK
  <1>2. BreakersOK'
    BY <1>1 DEF BreakersOK, CircuitExact, Probe, Cool
  <1>3. OutstandingExact'
    BY <1>1, SameHosts DEF Probe, Cool
  <1>4. TypeOK'
    BY <1>1, <1>2 DEF TypeOK, BreakersOK, Probe, Cool
  <1> QED
    BY <1>2, <1>3, <1>4 DEF IInv, BreakersOK

LEMMA NextOK == IInv /\ [Next]_vars => IInv'
  <1> SUFFICES ASSUME IInv, [Next]_vars PROVE IInv'
    OBVIOUS
  <1>1. CASE \E r \in Requests :
               \/ Begin(r) \/ EnterTier(r) \/ InLoop(r) \/ Outcome(r)
               \/ Frontier(r) \/ Gone(r) \/ Spend(r)
    BY <1>1, BeginOK, EnterTierOK, CallOK, CallTooLateOK, NoHostOK, AnswerOK, FailOK,
       BreakOK, ExpireOK, FrontierOK, GoneOK, SpendOK DEF InLoop, Outcome
  <1>2. CASE \E h \in Hosts : Probe(h) \/ Cool(h)
    BY <1>2, HostStepOK
  <1>3. CASE UNCHANGED vars
    BY <1>3 DEF IInv, TypeOK, OutstandingExact, CircuitExact, vars
  <1> QED
    BY <1>1, <1>2, <1>3 DEF Next

\* The inductive invariant.
THEOREM Invariance == Spec => []IInv
  BY InitOK, NextOK, PTL DEF Spec

\* A request is on a rung of the ladder, a circuit in one of its three states
\* (LocalBackendPool, CircuitBreaker).
THEOREM TypeCorrect == Spec => []TypeOK
  <1>1. IInv => TypeOK
    BY DEF IInv
  <1> QED
    BY <1>1, Invariance, PTL

\* LocalBackendSlot.outstanding is the number of requests that wait for the host.
THEOREM OutstandingCounts == Spec => []OutstandingExact
  <1>1. IInv => OutstandingExact
    BY DEF IInv
  <1> QED
    BY <1>1, Invariance, PTL

\* A circuit is closed if and only if fewer than failure_threshold failures in a
\* row have been recorded (CircuitBreaker.record_failure, record_success).
THEOREM CircuitsCount == Spec => []CircuitExact
  <1>1. IInv => CircuitExact
    BY DEF IInv
  <1> QED
    BY <1>1, Invariance, PTL

-----------------------------------------------------------------------------
(***************************************************************************)
(* CallsAreFinite. Work(r) counts rungs first and hosts of the rung second. *)
(***************************************************************************)

\* What CallsAreFinite says of a step of one request.
Spent(r) ==
    /\ Work(r)' <= Work(r)
    /\ pc[r] # "calling" /\ pc'[r] = "calling" => Work(r)' < Work(r)

\* Nobody is down the ladder before it starts.
AtTheTop == \A r \in Requests : pc[r] = "new" => tier[r] = 1

LEMMA TopStep == TypeOK /\ AtTheTop /\ [Next]_vars => AtTheTop'
  <1> SUFFICES ASSUME TypeOK, AtTheTop, [Next]_vars, NEW q \in Requests, pc'[q] = "new"
               PROVE  tier'[q] = 1
    BY DEF AtTheTop
  <1> USE DEF AtTheTop, TypeOK, Goto, Down
  <1>1. ASSUME NEW r \in Requests, Begin(r) \/ EnterTier(r) \/ InLoop(r)
        PROVE  tier'[q] = 1
    BY <1>1 DEF Begin, EnterTier, InLoop, Call, CallTooLate, NoHost
  <1>2. ASSUME NEW r \in Requests, Outcome(r) \/ Frontier(r) \/ Gone(r) \/ Spend(r)
        PROVE  tier'[q] = 1
    BY <1>2 DEF Outcome, Answer, Fail, Break, Expire, Frontier, Gone, Spend
  <1>3. ASSUME NEW h \in Hosts, Probe(h) \/ Cool(h)
        PROVE  tier'[q] = 1
    BY <1>3 DEF Probe, Cool
  <1>4. CASE UNCHANGED vars
    BY <1>4 DEF vars
  <1> QED
    BY <1>1, <1>2, <1>3, <1>4 DEF Next

\* The two numbers of the measure.
LEMMA LeftType ==
  ASSUME TypeOK, NEW r \in Requests
  PROVE  /\ Left(r) \in Nat /\ Cardinality(Hosts) \in Nat
         /\ Left(r) <= Cardinality(Hosts)
         /\ Len(Ladder) - tier[r] \in Nat
  <1>1. tried[r] \subseteq Hosts
    BY DEF TypeOK
  <1>2. /\ IsFiniteSet(Hosts \ tried[r])
        /\ Cardinality(Hosts \ tried[r]) <= Cardinality(Hosts)
    BY FS_Subset DEF PoolAssumption
  <1>3. Cardinality(Hosts) \in Nat /\ Cardinality(Hosts \ tried[r]) \in Nat
    BY <1>2, FS_CardinalityType DEF PoolAssumption
  <1> QED
    BY <1>2, <1>3, LadderLength DEF TypeOK, Left

LEMMA LeftNextType ==
  ASSUME TypeOK', NEW r \in Requests
  PROVE  /\ Left(r)' \in Nat /\ Cardinality(Hosts) \in Nat
         /\ Left(r)' <= Cardinality(Hosts)
         /\ Len(Ladder) - tier'[r] \in Nat
  <1>1. tried'[r] \subseteq Hosts
    BY DEF TypeOK
  <1>2. /\ IsFiniteSet(Hosts \ tried'[r])
        /\ Cardinality(Hosts \ tried'[r]) <= Cardinality(Hosts)
    BY <1>1, FS_Subset DEF PoolAssumption
  <1>3. Cardinality(Hosts) \in Nat /\ Cardinality(Hosts \ tried'[r]) \in Nat
    BY <1>2, FS_CardinalityType DEF PoolAssumption
  <1> QED
    BY <1>2, <1>3, LadderLength DEF TypeOK, Left

\* A host that is tried leaves one less.
LEMMA OneHostLess ==
  ASSUME TypeOK, NEW r \in Requests, NEW h \in Hosts, h \notin tried[r]
  PROVE  /\ Cardinality(Hosts \ (tried[r] \cup {h})) = Cardinality(Hosts \ tried[r]) - 1
         /\ Cardinality(Hosts \ tried[r]) \in Nat
  <1>1. IsFiniteSet(Hosts \ tried[r])
    BY FS_Subset DEF PoolAssumption
  <1>2. Hosts \ (tried[r] \cup {h}) = (Hosts \ tried[r]) \ {h} /\ h \in Hosts \ tried[r]
    OBVIOUS
  <1>3. Cardinality((Hosts \ tried[r]) \ {h}) = Cardinality(Hosts \ tried[r]) - 1
    BY <1>1, <1>2, FS_RemoveElement
  <1>4. Cardinality(Hosts \ tried[r]) \in Nat
    BY <1>1, FS_CardinalityType
  <1> QED
    BY <1>2, <1>3, <1>4

\* Fewer rungs are less work.
LEMMA Product ==
  ASSUME NEW a \in Nat, NEW b \in Nat, NEW n \in Nat, a < b
  PROVE  a * n \in Nat /\ b * n \in Nat /\ a * n + n <= b * n
  <1>1. PICK c \in Nat : b = a + 1 + c
    <2>1. b - a - 1 \in Nat /\ b = a + 1 + (b - a - 1)
      OBVIOUS
    <2> QED
      BY <2>1
  <1>2. c * n \in Nat /\ a * n \in Nat
    OBVIOUS
  <1>3. b * n = a * n + n + c * n
    BY <1>1
  <1> QED
    BY <1>2, <1>3

\* Who stays on its rung and forgets no host it has tried.
LEMMA SameRung ==
  ASSUME TypeOK, TypeOK', NEW r \in Requests,
         tier'[r] = tier[r], Left(r)' <= Left(r),
         pc[r] # "calling" /\ pc'[r] = "calling" => Left(r)' < Left(r)
  PROVE  Spent(r)
  <1> DEFINE rungs == (Len(Ladder) - tier[r]) * Cardinality(Hosts)
  <1>1. Left(r) \in Nat /\ Left(r)' \in Nat
    <2>1. Left(r) \in Nat
      BY LeftType
    <2>2. Left(r)' \in Nat
      BY LeftNextType
    <2> QED
      BY <2>1, <2>2
  <1>2. rungs \in Nat
    <2>1. Len(Ladder) - tier[r] \in Nat /\ Cardinality(Hosts) \in Nat
      BY LeftType
    <2> HIDE DEF rungs
    <2>2. \A a, b \in Nat : a * b \in Nat
      OBVIOUS
    <2> QED
      BY <2>1, <2>2 DEF rungs
  <1>3. Work(r) = rungs + Left(r) /\ Work(r)' = rungs + Left(r)'
    BY DEF Work
  <1> HIDE DEF rungs
  <1> QED
    BY <1>1, <1>2, <1>3 DEF Spent

\* Who goes down, or starts further down.
LEMMA LowerRung ==
  ASSUME TypeOK, TypeOK', NEW r \in Requests,
         tier'[r] > tier[r], pc'[r] = "tier"
  PROVE  Spent(r)
  <1> DEFINE n == Cardinality(Hosts)
             a == Len(Ladder) - tier'[r]
             b == Len(Ladder) - tier[r]
  <1>1. n \in Nat /\ Left(r) \in Nat /\ b \in Nat
    BY LeftType
  <1>2. a \in Nat /\ a < b
    <2>1. a \in Nat
      BY LeftNextType
    <2>2. tier[r] \in Nat /\ tier'[r] \in Nat /\ Len(Ladder) \in Nat
      BY LadderLength DEF TypeOK
    <2> QED
      BY <2>1, <2>2
  <1>3. Left(r)' = n
    BY DEF Left
  <1>4. Work(r) = b * n + Left(r) /\ Work(r)' = a * n + n
    BY <1>3 DEF Work
  <1> HIDE DEF a, b, n
  <1>5. a * n \in Nat /\ b * n \in Nat /\ a * n + n <= b * n
    BY <1>1, <1>2, Product
  <1> QED
    BY <1>1, <1>4, <1>5 DEF Spent

\* Who has tried the same hosts on the same rung has the same left, unless it has
\* just come to the rung.
LEMMA SameLeft ==
  ASSUME TypeOK, TypeOK', NEW r \in Requests, tier'[r] = tier[r], tried'[r] = tried[r],
         pc'[r] \in {"new", "tier"} => pc[r] \in {"new", "tier"},
         pc[r] # "calling" => pc'[r] # "calling"
  PROVE  Spent(r)
  <1>1. Left(r)' <= Left(r)
    <2>1. CASE pc[r] \in {"new", "tier"}
      <3>1. Left(r) = Cardinality(Hosts) /\ Cardinality(Hosts) \in Nat
        BY <2>1, LeftType DEF Left
      <3>2. Left(r)' \in Nat /\ Left(r)' <= Cardinality(Hosts)
        BY LeftNextType
      <3> QED
        BY <3>1, <3>2
    <2>2. CASE pc[r] \notin {"new", "tier"}
      <3>1. Left(r)' = Left(r) /\ Left(r) \in Nat
        BY <2>2, LeftType DEF Left
      <3> QED
        BY <3>1
    <2> QED
      BY <2>1, <2>2
  <1> QED
    BY <1>1, SameRung

\* Every step of a request, or of another one, or of a host.
LEMMA SpentStep ==
  ASSUME TypeOK, TypeOK', AtTheTop, [Next]_vars, NEW q \in Requests
  PROVE  Spent(q)
  <1> USE DEF Goto
  <1>1. ASSUME NEW r \in Requests, Begin(r) PROVE Spent(q)
    <2>1. CASE q = r
      <3>1. CASE tier'[q] = tier[q]
        BY <1>1, <2>1, <3>1, SameLeft DEF Begin, TypeOK
      <3>2. CASE tier'[q] # tier[q]
        BY <1>1, <2>1, <3>2, LowerRung DEF Begin, TypeOK, AtTheTop
      <3> QED
        BY <3>1, <3>2
    <2>2. CASE q # r
      BY <1>1, <2>2, SameLeft DEF Begin, TypeOK
    <2> QED
      BY <2>1, <2>2
  <1>2. ASSUME NEW r \in Requests, EnterTier(r) PROVE Spent(q)
    <2>1. CASE q = r
      <3>1. Left(q) = Cardinality(Hosts) /\ Cardinality(Hosts) \in Nat
        BY <1>2, <2>1, LeftType DEF EnterTier, Left
      <3>2. Left(q)' <= Cardinality(Hosts) /\ Left(q)' \in Nat
        BY LeftNextType
      <3> QED
        BY <1>2, <2>1, <3>1, <3>2, SameRung DEF EnterTier, TypeOK
    <2>2. CASE q # r
      BY <1>2, <2>2, SameLeft DEF EnterTier, TypeOK
    <2> QED
      BY <2>1, <2>2
  <1>3. ASSUME NEW r \in Requests, Call(r) \/ CallTooLate(r) PROVE Spent(q)
    <2>1. PICK h \in Remaining(r) :
            tried' = [tried EXCEPT ![r] = @ \cup {h}] /\ UNCHANGED tier
      BY <1>3 DEF Call, CallTooLate, choose
    <2>2. h \in Hosts /\ h \notin tried[r]
      BY <2>1 DEF Remaining, eligible
    <2>3. pc[r] = "loop" /\ pc' \in {[pc EXCEPT ![r] = "calling"], [pc EXCEPT ![r] = "expired"], pc}
      BY <1>3 DEF Call, CallTooLate
    <2>4. CASE q = r
      <3>1. /\ Left(q) = Cardinality(Hosts \ tried[r])
            /\ Left(q)' = Cardinality(Hosts \ (tried[r] \cup {h}))
        BY <2>1, <2>3, <2>4 DEF Left, TypeOK
      <3>2. Left(q)' < Left(q)
        BY <2>2, <3>1, OneHostLess
      <3>3. Left(q) \in Nat /\ Left(q)' \in Nat
        BY LeftType, LeftNextType
      <3> QED
        BY <2>1, <3>2, <3>3, SameRung
    <2>5. CASE q # r
      BY <2>1, <2>3, <2>5, SameLeft DEF TypeOK
    <2> QED
      BY <2>4, <2>5
  <1>4. ASSUME NEW r \in Requests, Down(r) /\ UNCHANGED tried PROVE Spent(q)
    <2>1. CASE q = r
      <3>1. tier'[q] = tier[q] + 1 /\ tier[q] \in Nat /\ pc'[q] = "tier"
        BY <1>4, <2>1, LadderLength DEF Down, TypeOK
      <3>2. tier'[q] > tier[q]
        BY <3>1
      <3> QED
        BY <3>1, <3>2, LowerRung
    <2>2. CASE q # r
      BY <1>4, <2>2, SameLeft DEF Down, TypeOK
    <2> QED
      BY <2>1, <2>2
  <1>5. ASSUME NEW r \in Requests, NEW p, p \notin {"new", "tier", "calling"}, Goto(r, p),
               UNCHANGED <<tier, tried>>
        PROVE  Spent(q)
    BY <1>5, SameLeft DEF TypeOK
  <1>6. ASSUME UNCHANGED <<pc, tier, tried>> PROVE Spent(q)
    BY <1>6, SameLeft
  <1>7. ASSUME NEW r \in Requests, NoHost(r) PROVE Spent(q)
    <2>1. CASE Down(r)
      BY <1>4, <1>7, <2>1 DEF NoHost
    <2>2. CASE ~Down(r)
      <3>1. PICK p \in {"failed", "unavailable", "expired", "frontier"} : Goto(r, p)
        BY <1>7, <2>2 DEF NoHost
      <3> QED
        BY <1>5, <1>7, <2>2, <3>1 DEF NoHost
    <2> QED
      BY <2>1, <2>2
  <1>8. ASSUME NEW r \in Requests, Outcome(r) PROVE Spent(q)
    <2>1. CASE Down(r)
      BY <1>4, <1>8, <2>1 DEF Outcome, Answer, Fail, Break, Expire
    <2>2. CASE ~Down(r)
      <3>1. PICK p \in {"served", "loop", "failed", "expired"} : Goto(r, p) /\ UNCHANGED <<tier, tried>>
        BY <1>8, <2>2 DEF Outcome, Answer, Fail, Break, Expire
      <3> QED
        BY <1>5, <3>1
    <2> QED
      BY <2>1, <2>2
  <1>9. ASSUME NEW r \in Requests, Frontier(r) \/ Gone(r) PROVE Spent(q)
    <2>1. PICK p \in {"served", "unavailable", "gone"} : Goto(r, p) /\ UNCHANGED <<tier, tried>>
      BY <1>9 DEF Frontier, Gone
    <2> QED
      BY <1>5, <2>1
  <1>10. ASSUME NEW r \in Requests, Spend(r) PROVE Spent(q)
    BY <1>6, <1>10 DEF Spend
  <1>11. ASSUME NEW h \in Hosts, Probe(h) \/ Cool(h) PROVE Spent(q)
    BY <1>6, <1>11 DEF Probe, Cool
  <1>12. CASE UNCHANGED vars
    BY <1>6, <1>12 DEF vars
  <1> QED
    BY <1>1, <1>2, <1>3, <1>7, <1>8, <1>9, <1>10, <1>11, <1>12 DEF Next, InLoop

\* A request calls a host at most once on each rung and never goes up: no more calls
\* than hosts times rungs, whatever the hosts do meanwhile (LocalBackendPool.execute,
\* the streams' loops, _stream_tier_chain).
THEOREM CallsRunOut == Spec => CallsAreFinite
  <1>1. Spec => []AtTheTop
    <2>1. Init => AtTheTop
      BY DEF Init, AtTheTop
    <2> QED
      BY <2>1, TopStep, TypeCorrect, PTL DEF Spec
  <1>2. TypeOK /\ TypeOK' /\ AtTheTop /\ [Next]_vars =>
          \A r \in Requests :
            /\ Work(r)' <= Work(r)
            /\ pc[r] # "calling" /\ pc'[r] = "calling" => Work(r)' < Work(r)
    BY SpentStep DEF Spent
  <1> QED
    BY <1>1, <1>2, TypeCorrect, PTL DEF Spec, CallsAreFinite

=============================================================================
