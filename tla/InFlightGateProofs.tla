-------------------------- MODULE InFlightGateProofs --------------------------
(***************************************************************************)
(* Proofs about InFlightGate for any requests, ranks, cap and queue.       *)
(*                                                                         *)
(* The loop of _wake_next_locked is the set Popped, given by how many live *)
(* waiters go first.  WokenCount says what the loop promises: it wakes as  *)
(* many as there are free slots, or all.  The rest is bookkeeping: each    *)
(* action adds the woken requests to the holders and moves one more.       *)
(***************************************************************************)
EXTENDS InFlightGate, FiniteSetTheorems, TLAPS

USE GateAssumption

\* The heap holds one entry per request and number, of those who still wait.
Heap ==
    /\ \A v, w \in waiters : v.seq = w.seq \/ v.req = w.req => v = w
    /\ \A w \in waiters :
        /\ w.seq < waiter_seq
        /\ pc[w.req] \in {"wait", "unwind"}
        /\ fut[w.req] \in {"pending", "cancelled"}

\* What the place of a request says about its future.
Placed ==
    \A r \in Requests :
        /\ fut[r] = "pending" => pc[r] = "wait"
        /\ pc[r] = "new" => fut[r] = "none"
        /\ r \in lost => pc[r] = "done"

IInv == TypeOK /\ Heap /\ Placed /\ SlotsExact /\ NobodySleeps

-----------------------------------------------------------------------------
(***************************************************************************)
(* Counting in the order of the heap.                                      *)
(***************************************************************************)

\* How many of L go before w.
Ahead(L, w) == Cardinality({v \in L : Before(v, w)})

\* Numbers are distinct, so the order is total, and whoever is later has more
\* ahead of him.
LEMMA AheadGrows ==
  ASSUME NEW L \in SUBSET Waiter, IsFiniteSet(L),
         NEW v \in L, NEW w \in Waiter, Before(v, w)
  PROVE  Ahead(L, v) < Ahead(L, w)
  <1> DEFINE V == {u \in L : Before(u, v)}
             W == {u \in L : Before(u, w)}
  <1>1. V \subseteq W
    BY DEF Before, Waiter
  <1>2. v \in W /\ v \notin V
    BY DEF Before, Waiter
  <1>3. IsFiniteSet(W) /\ IsFiniteSet(V)
    BY FS_Subset
  <1>4. Cardinality(V) <= Cardinality(W) /\ Cardinality(V) # Cardinality(W)
    BY <1>1, <1>2, <1>3, FS_Subset
  <1>5. Cardinality(V) \in Nat /\ Cardinality(W) \in Nat
    BY <1>3, FS_CardinalityType
  <1> QED
    BY <1>4, <1>5 DEF Ahead

\* Of a finite set of waiters, those with fewer than k ahead are k, or all.
LEMMA FirstOnes ==
  ASSUME NEW L \in SUBSET Waiter, IsFiniteSet(L), NEW k \in Nat,
         \A v, w \in L : v.seq = w.seq => v = w
  PROVE  LET W == {w \in L : Ahead(L, w) < k}
         IN  /\ IsFiniteSet(W) /\ Cardinality(W) \in Nat
             /\ Cardinality(W) <= k
             /\ W # L => Cardinality(W) = k
  <1> DEFINE W == {w \in L : Ahead(L, w) < k}
             m == Cardinality(L)
             f == [w \in L |-> Ahead(L, w)]
             g == [w \in W |-> Ahead(L, w)]
  <1>1. m \in Nat /\ IsFiniteSet(W) /\ Cardinality(W) \in Nat
    BY FS_Subset, FS_CardinalityType
  <1>2. \A w \in L : Ahead(L, w) \in 0 .. (m - 1)
    <2> TAKE w \in L
    <2> DEFINE V == {v \in L : Before(v, w)}
    <2>1. w \notin V
      BY DEF Before, Waiter
    <2>2. Cardinality(V) <= m /\ Cardinality(V) # m /\ IsFiniteSet(V)
      BY <2>1, FS_Subset
    <2>3. Cardinality(V) \in Nat
      BY <2>2, FS_CardinalityType
    <2> QED
      BY <2>2, <2>3, <1>1 DEF Ahead
  <1>3. \A v, w \in L : Ahead(L, v) = Ahead(L, w) => v = w
    <2> SUFFICES ASSUME NEW v \in L, NEW w \in L, v # w
                 PROVE  Ahead(L, v) # Ahead(L, w)
      OBVIOUS
    <2>1. Before(v, w) \/ Before(w, v)
      BY DEF Before, Waiter
    <2>2. Ahead(L, v) < Ahead(L, w) \/ Ahead(L, w) < Ahead(L, v)
      BY <2>1, AheadGrows
    <2> QED
      BY <2>2, <1>1, <1>2
  <1>4. Cardinality(W) <= k
    <2>1. g \in [W -> 0 .. (k - 1)]
      BY <1>1, <1>2
    <2>2. g \in Injection(W, 0 .. (k - 1))
      BY <2>1, <1>3 DEF Injection, IsInjective
    <2>3. IsFiniteSet(0 .. (k - 1)) /\ Cardinality(0 .. (k - 1)) = k
      BY FS_Interval
    <2> HIDE DEF g, W
    <2> QED
      BY <2>2, <2>3, FS_Injection
  <1>5. ASSUME W # L
        PROVE  Cardinality(W) = k
    <2>1. PICK w \in L : ~(Ahead(L, w) < k)
      BY <1>5, <1>1, <1>2
    <2>2. k < m
      BY <2>1, <1>1, <1>2
    <2>3. f \in Injection(L, 0 .. (m - 1))
      BY <1>2, <1>3 DEF Injection, IsInjective
    <2>4. IsFiniteSet(0 .. (m - 1)) /\ Cardinality(0 .. (m - 1)) = m
      <3>1. m \in Nat
        BY <1>1
      <3> HIDE DEF m
      <3> QED BY <3>1, FS_Interval
    <2>5. f \in Surjection(L, 0 .. (m - 1))
      <3> HIDE DEF f
      <3> QED BY <2>3, <2>4, FS_Injection
    <2>6. \A i \in 0 .. (k - 1) : \E v \in W : g[v] = i
      <3> TAKE i \in 0 .. (k - 1)
      <3>1. i \in 0 .. (m - 1)
        BY <2>2, <1>1
      <3>2. \E v \in L : f[v] = i
        <4> HIDE DEF f, m
        <4> QED BY <3>1, <2>5 DEF Surjection
      <3>3. PICK v \in L : Ahead(L, v) = i
        BY <3>2
      <3>4. v \in W
        BY <3>3
      <3> QED
        BY <3>3, <3>4
    <2>7. g \in Surjection(W, 0 .. (k - 1)) /\ g \in Injection(W, 0 .. (k - 1))
      <3>1. g \in [W -> 0 .. (k - 1)]
        BY <1>1, <1>2
      <3> QED
        BY <3>1, <2>6, <1>3 DEF Surjection, Injection, IsInjective
    <2>8. IsFiniteSet(0 .. (k - 1)) /\ Cardinality(0 .. (k - 1)) = k
      BY FS_Interval
    <2> HIDE DEF g, W
    <2> QED
      BY <2>7, <2>8, FS_Injection
  <1> QED
    BY <1>1, <1>4, <1>5

-----------------------------------------------------------------------------
(***************************************************************************)
(* The wake.                                                               *)
(***************************************************************************)

\* Who is let in by a wake with n slots taken.
Seated(n) == {w.req : w \in Woken(n)}

\* It seats as many live waiters as there are free slots, or all of them, and
\* the count of the waiters stays the size of the heap.
LEMMA WokenCount ==
  ASSUME TypeOK, Heap, NEW n \in 0 .. MaxInFlight
  PROVE  /\ Taken(n) \in n .. MaxInFlight
         /\ IsFiniteSet(Seated(n)) /\ Taken(n) = n + Cardinality(Seated(n))
         /\ Live # Woken(n) => Taken(n) = MaxInFlight
         /\ Taken(n) < MaxInFlight => Popped(n) = waiters
         /\ IsFiniteSet(waiters \ Popped(n))
         /\ queued - Cardinality(Popped(n)) = Cardinality(waiters \ Popped(n))
  <1> DEFINE k == MaxInFlight - n
  <1>1. k \in Nat /\ Free(n) = k
    BY DEF Free
  <1>2. Live \in SUBSET Waiter /\ IsFiniteSet(Live)
    BY FS_Subset DEF Live, TypeOK
  <1>3. Woken(n) = {w \in Live : Ahead(Live, w) < k}
    BY <1>1 DEF Woken, Popped, Ahead, Live
  <1>4. /\ IsFiniteSet(Woken(n)) /\ Cardinality(Woken(n)) \in Nat
        /\ Cardinality(Woken(n)) <= k
        /\ Woken(n) # Live => Cardinality(Woken(n)) = k
    <2>1. \A v, w \in Live : v.seq = w.seq => v = w
      BY DEF Live, Heap
    <2> HIDE DEF k
    <2> QED BY <1>1, <1>2, <1>3, <2>1, FirstOnes
  <1>5. IsFiniteSet(Seated(n)) /\ Cardinality(Seated(n)) = Cardinality(Woken(n))
    <2> DEFINE f == [w \in Woken(n) |-> w.req]
    <2>1. Woken(n) \subseteq waiters
      BY DEF Woken, Popped
    <2>2. f \in Bijection(Woken(n), Seated(n))
      BY <2>1 DEF Heap, Seated, Bijection, Injection, Surjection, IsInjective
    <2>3. ExistsBijection(Woken(n), Seated(n))
      BY <2>2 DEF ExistsBijection
    <2> QED
      BY <2>3, <1>4, FS_Bijection
  <1>6. Taken(n) < MaxInFlight => Popped(n) = waiters
    <2> SUFFICES ASSUME Taken(n) < MaxInFlight, NEW w \in waiters
                 PROVE  w \in Popped(n)
      BY DEF Popped
    <2>1. Cardinality(Woken(n)) < k /\ Woken(n) = Live
      BY <1>4 DEF Taken
    <2> DEFINE V == {v \in Live : Before(v, w)}
    <2>2. IsFiniteSet(V) /\ Cardinality(V) <= Cardinality(Live) /\ Cardinality(V) \in Nat
      BY <1>2, FS_Subset, FS_CardinalityType
    <2>3. Cardinality(V) < k
      BY <2>1, <2>2, <1>4
    <2> QED
      BY <2>3, <1>1 DEF Popped
  <1>7. /\ IsFiniteSet(waiters \ Popped(n))
        /\ queued - Cardinality(Popped(n)) = Cardinality(waiters \ Popped(n))
    <2>1. Popped(n) \subseteq waiters /\ IsFiniteSet(Popped(n))
      BY FS_Subset DEF Popped, TypeOK
    <2>2. waiters \cap Popped(n) = Popped(n)
      BY <2>1
    <2>3. /\ IsFiniteSet(waiters \ Popped(n))
          /\ Cardinality(waiters \ Popped(n)) = Cardinality(waiters) - Cardinality(Popped(n))
      BY <2>2, FS_Difference DEF TypeOK
    <2> QED
      BY <2>3 DEF TypeOK
  <1> QED
    BY <1>1, <1>4, <1>5, <1>6, <1>7 DEF Taken

\* Those it seats were waiting, and their futures are the ones it resolves.
LEMMA SeatedWaited ==
  ASSUME TypeOK, Heap, Placed, NEW n \in 0 .. MaxInFlight
  PROVE  /\ \A r \in Seated(n) : r \in Requests /\ pc[r] = "wait" /\ fut[r] = "pending"
         /\ WakeFut(n) = [r \in Requests |-> IF r \in Seated(n) THEN "woken" ELSE fut[r]]
         /\ \A w \in waiters : w \notin Popped(n) => w.req \notin Seated(n)
         /\ \A w \in Live : w \in Popped(n) => w.req \in Seated(n)
         /\ \A w \in waiters : w.req \in Seated(n) => w \in Woken(n)
  <1>1. Woken(n) \subseteq Live /\ Live \subseteq waiters /\ waiters \subseteq Waiter
    BY DEF Woken, Live, TypeOK
  <1>2. \A r \in Seated(n) : r \in Requests /\ pc[r] = "wait" /\ fut[r] = "pending"
    BY <1>1 DEF Seated, Live, Placed, Waiter
  <1>3. \A r \in Requests : r \in Seated(n) <=> \E w \in Woken(n) : w.req = r
    BY DEF Seated
  <1>4. WakeFut(n) = [r \in Requests |-> IF r \in Seated(n) THEN "woken" ELSE fut[r]]
    BY <1>3 DEF WakeFut
  <1>5. \A w \in waiters : w.req \in Seated(n) => w \in Woken(n)
    BY <1>1 DEF Seated, Heap
  <1>6. Woken(n) = Popped(n) \cap Live
    BY DEF Woken
  <1>7. \A w \in waiters : w \notin Popped(n) => w.req \notin Seated(n)
    BY <1>5, <1>6
  <1>8. \A w \in Live : w \in Popped(n) => w.req \in Seated(n)
    BY <1>6 DEF Seated
  <1> QED
    BY <1>2, <1>4, <1>5, <1>7, <1>8

\* What a wake leaves behind, when the others do not move.
LEMMA WakeKeeps ==
  ASSUME TypeOK, Heap, Placed, NEW n \in 0 .. MaxInFlight
  PROVE  /\ waiters \ Popped(n) \in SUBSET Waiter
         /\ WakeFut(n) \in [Requests -> {"none", "pending", "woken", "cancelled"}]
         /\ \A v, w \in waiters \ Popped(n) : v.seq = w.seq \/ v.req = w.req => v = w
         /\ \A w \in waiters \ Popped(n) :
              /\ w.seq < waiter_seq
              /\ pc[w.req] \in {"wait", "unwind"}
              /\ WakeFut(n)[w.req] \in {"pending", "cancelled"}
         /\ \A r \in Requests :
              /\ WakeFut(n)[r] = "pending" => pc[r] = "wait"
              /\ pc[r] = "new" => WakeFut(n)[r] = "none"
              /\ pc[r] \notin {"wait", "unwind"} => WakeFut(n)[r] = fut[r]
         /\ Taken(n) < MaxInFlight => waiters \ Popped(n) = {}
  <1>1. waiters \ Popped(n) \in SUBSET Waiter
    BY DEF TypeOK
  <1>2. Taken(n) < MaxInFlight => waiters \ Popped(n) = {}
    BY WokenCount
  <1> DEFINE left == waiters \ Popped(n)
             f    == WakeFut(n)
  <1>3. f = [r \in Requests |-> IF r \in Seated(n) THEN "woken" ELSE fut[r]]
    BY SeatedWaited
  <1>4. \A w \in left : w.req \in Requests /\ w.req \notin Seated(n)
    BY <1>1, SeatedWaited DEF Waiter
  <1>5. \A r \in Seated(n) : pc[r] = "wait"
    BY SeatedWaited
  <1> HIDE DEF f
  <1>6. f \in [Requests -> {"none", "pending", "woken", "cancelled"}]
    BY <1>3 DEF TypeOK
  <1>7. \A v, w \in left : v.seq = w.seq \/ v.req = w.req => v = w
    BY DEF Heap
  <1>8. \A w \in left : /\ w.seq < waiter_seq
                        /\ pc[w.req] \in {"wait", "unwind"}
                        /\ f[w.req] \in {"pending", "cancelled"}
    BY <1>3, <1>4 DEF Heap
  <1>9. \A r \in Requests : /\ f[r] = "pending" => pc[r] = "wait"
                            /\ pc[r] = "new" => f[r] = "none"
                            /\ pc[r] \notin {"wait", "unwind"} => f[r] = fut[r]
    BY <1>3, <1>5 DEF Placed
  <1> HIDE DEF left
  <1> QED
    BY <1>1, <1>2, <1>6, <1>7, <1>8, <1>9 DEF f, left

-----------------------------------------------------------------------------
(***************************************************************************)
(* The inductive invariant.                                                *)
(***************************************************************************)

LEMMA HoldersFinite ==
  ASSUME TypeOK
  PROVE  /\ IsFiniteSet(Holders) /\ Cardinality(Holders) \in Nat
         /\ IsFiniteSet(lost) /\ Cardinality(lost) \in Nat
  <1>1. IsFiniteSet(Holders) /\ IsFiniteSet(lost)
    BY FS_Subset DEF Holders, TypeOK
  <1> QED
    BY <1>1, FS_CardinalityType

\* The seated were no holders, so the sizes add up.
LEMMA SeatedCount ==
  ASSUME TypeOK, Heap, Placed, NEW n \in 0 .. MaxInFlight, NEW H \in SUBSET Holders
  PROVE  /\ IsFiniteSet(H \cup Seated(n))
         /\ Cardinality(H \cup Seated(n)) = Cardinality(H) + (Taken(n) - n)
         /\ Cardinality(H) \in Nat
  <1>1. IsFiniteSet(H) /\ Cardinality(H) \in Nat
    BY HoldersFinite, FS_Subset, FS_CardinalityType
  <1>2. H \cap Seated(n) = {}
    BY SeatedWaited DEF Holders
  <1>3. /\ IsFiniteSet(Seated(n)) /\ Cardinality(Seated(n)) \in Nat
        /\ Taken(n) = n + Cardinality(Seated(n))
    BY WokenCount, FS_CardinalityType
  <1>4. Cardinality(H \cap Seated(n)) = 0
    BY <1>2, FS_EmptySet
  <1>5. /\ IsFiniteSet(H \cup Seated(n))
        /\ Cardinality(H \cup Seated(n)) = Cardinality(H) + Cardinality(Seated(n))
    <2>1. /\ IsFiniteSet(H \cup Seated(n))
          /\ Cardinality(H \cup Seated(n))
               = Cardinality(H) + Cardinality(Seated(n)) - Cardinality(H \cap Seated(n))
      BY <1>1, <1>3, FS_Union
    <2> QED
      BY <2>1, <1>1, <1>3, <1>4
  <1> QED
    BY <1>1, <1>3, <1>5

LEMMA InFlightRange ==
  ASSUME TypeOK, SlotsExact
  PROVE  in_flight \in 0 .. MaxInFlight
  BY DEF TypeOK, SlotsExact

\* Somebody left in the heap after a wake: the slots are all taken.
LEMMA LeftFull ==
  ASSUME TypeOK, Heap, NEW n \in 0 .. MaxInFlight, waiters \ Popped(n) # {}
  PROVE  Taken(n) = MaxInFlight
  <1>1. Taken(n) \in n .. MaxInFlight /\ ~(Taken(n) < MaxInFlight)
    BY WokenCount
  <1> QED
    BY <1>1

LEMMA InitIInv == Init => IInv
  <1> SUFFICES ASSUME Init PROVE IInv
    OBVIOUS
  <1>1. TypeOK /\ Heap /\ Placed /\ NobodySleeps
    BY FS_EmptySet DEF Init, TypeOK, Heap, Placed, NobodySleeps, Live, Points
  <1>2. Holders = {}
    BY DEF Init, Holders
  <1>3. SlotsExact
    BY <1>2, FS_EmptySet DEF Init, SlotsExact
  <1> QED
    BY <1>1, <1>3 DEF IInv

LEMMA TakeStep ==
  ASSUME IInv, NEW r \in Requests, AcquireTake(r)
  PROVE  IInv'
  <1> USE DEF IInv, AcquireTake, Goto
  <1>1. in_flight \in 0 .. MaxInFlight
    BY InFlightRange
  <1>2. Taken(in_flight) < MaxInFlight /\ waiters' = {} /\ Taken(in_flight) \in in_flight .. MaxInFlight
    BY <1>1, WokenCount DEF MayTake
  <1>3. queued' = Cardinality(waiters')
    BY <1>1, WokenCount
  <1>4. /\ fut' \in [Requests -> {"none", "pending", "woken", "cancelled"}]
        /\ \A q \in Requests : fut'[q] = "pending" => pc[q] = "wait"
        /\ \A q \in Requests : pc[q] = "new" => fut'[q] = "none"
    BY <1>1, WakeKeeps
  <1>5. TypeOK'
    <2>1. in_flight' \in Nat
      BY <1>1, <1>2
    <2>2. queued' \in Nat /\ waiters' \in SUBSET Waiter /\ IsFiniteSet(waiters')
      <3> HIDE DEF AcquireTake
      <3> QED BY <1>2, <1>3, FS_EmptySet
    <2>3. pc' \in [Requests -> Points]
      BY DEF TypeOK, Points
    <2> QED
      BY <2>1, <2>2, <2>3, <1>3, <1>4 DEF TypeOK
  <1>6. Heap' /\ Placed' /\ NobodySleeps'
    BY <1>2, <1>4 DEF TypeOK, Heap, Placed, NobodySleeps, Live
  <1>7. Holders' = (Holders \cup Seated(in_flight)) \cup {r} /\ r \notin Holders \cup Seated(in_flight)
    BY <1>1, SeatedWaited DEF Holders, TypeOK
  <1>8. Cardinality(Holders') = Cardinality(Holders) + (Taken(in_flight) - in_flight) + 1
    <2> DEFINE H == Holders \cup Seated(in_flight)
    <2>1. IsFiniteSet(H) /\ Cardinality(H) = Cardinality(Holders) + (Taken(in_flight) - in_flight)
      BY <1>1, SeatedCount
    <2>2. Cardinality(H \cup {r}) = Cardinality(H) + 1
      BY <2>1, <1>7, FS_AddElement
    <2> QED
      BY <2>1, <2>2, <1>7
  <1>9. SlotsExact'
    BY <1>2, <1>8, HoldersFinite DEF SlotsExact, TypeOK
  <1> QED
    BY <1>5, <1>6, <1>9

\* A wake with nothing else than that r, which waits for nothing, moves on.
LEMMA WakeStep ==
  ASSUME IInv, NEW r \in Requests, pc[r] \in {"new", "run"},
         NEW n \in 0 .. MaxInFlight, _wake_next_locked(n),
         Goto(r, "done"), UNCHANGED <<waiter_seq, draining, lost, faults>>,
         n = Cardinality(Holders \ {r}) + Cardinality(lost)
  PROVE  IInv'
  <1> USE DEF IInv, _wake_next_locked, Goto
  <1>a. TypeOK /\ Heap /\ Placed
    OBVIOUS
  <1>b. waiters' = waiters \ Popped(n) /\ fut' = WakeFut(n)
    OBVIOUS
  <1>1. Taken(n) \in n .. MaxInFlight
    BY WokenCount
  <1>2. IsFiniteSet(waiters') /\ queued' = Cardinality(waiters')
    BY WokenCount
  <1>3. /\ waiters' \in SUBSET Waiter
        /\ fut' \in [Requests -> {"none", "pending", "woken", "cancelled"}]
        /\ \A v, w \in waiters' : v.seq = w.seq \/ v.req = w.req => v = w
        /\ \A w \in waiters' : /\ w.seq < waiter_seq
                               /\ pc[w.req] \in {"wait", "unwind"}
                               /\ fut'[w.req] \in {"pending", "cancelled"}
        /\ \A q \in Requests : /\ fut'[q] = "pending" => pc[q] = "wait"
                               /\ pc[q] = "new" => fut'[q] = "none"
    <2> HIDE DEF IInv, _wake_next_locked, Goto
    <2> DEFINE left == waiters \ Popped(n)
    <2>1. /\ left \in SUBSET Waiter
          /\ WakeFut(n) \in [Requests -> {"none", "pending", "woken", "cancelled"}]
          /\ \A v, w \in left : v.seq = w.seq \/ v.req = w.req => v = w
          /\ \A w \in left : /\ w.seq < waiter_seq
                             /\ pc[w.req] \in {"wait", "unwind"}
                             /\ WakeFut(n)[w.req] \in {"pending", "cancelled"}
          /\ \A q \in Requests : /\ WakeFut(n)[q] = "pending" => pc[q] = "wait"
                                 /\ pc[q] = "new" => WakeFut(n)[q] = "none"
      BY <1>a, WakeKeeps
    <2> HIDE DEF left
    <2> QED BY <1>b, <2>1 DEF left
  <1>4. TypeOK'
    <2>1. in_flight' \in Nat
      BY <1>1
    <2>2. queued' \in Nat
      BY <1>2, FS_CardinalityType
    <2>3. pc' \in [Requests -> Points]
      BY DEF TypeOK, Points
    <2> QED
      BY <2>1, <2>2, <2>3, <1>2, <1>3 DEF TypeOK
  <1>5. Heap' /\ Placed'
    BY <1>3 DEF TypeOK, Heap, Placed, Waiter
  <1>6. NobodySleeps'
    BY LeftFull DEF NobodySleeps, Live
  <1>7. Holders' = (Holders \ {r}) \cup Seated(n)
    <2>1. \A q \in Seated(n) : q \in Requests /\ pc[q] = "wait" /\ q # r
      BY <1>a, SeatedWaited
    <2>2. fut' = [q \in Requests |-> IF q \in Seated(n) THEN "woken" ELSE fut[q]]
      BY <1>a, <1>b, SeatedWaited
    <2>3. pc' = [pc EXCEPT ![r] = "done"] /\ pc \in [Requests -> Points]
      BY DEF TypeOK
    <2> HIDE DEF IInv, _wake_next_locked, Goto
    <2> QED
      BY <2>1, <2>2, <2>3 DEF Holders
  <1>8. Cardinality(Holders') = Cardinality(Holders \ {r}) + (Taken(n) - n)
    BY <1>7, SeatedCount
  <1>9. Cardinality(Holders \ {r}) \in Nat
    BY SeatedCount
  <1>10. SlotsExact'
    BY <1>1, <1>8, <1>9, HoldersFinite DEF SlotsExact
  <1> QED
    BY <1>4, <1>5, <1>6, <1>10

LEMMA NewNoHolder ==
  ASSUME TypeOK, Placed, NEW r \in Requests, pc[r] = "new"
  PROVE  Holders \ {r} = Holders
  BY DEF Holders

LEMMA DeniedStep ==
  ASSUME IInv, NEW r \in Requests, AcquireDenied(r)
  PROVE  IInv'
  <1>1. CASE draining
    <2> USE <1>1 DEF IInv, AcquireDenied, Goto
    <2>1. (TypeOK /\ Heap /\ Placed /\ NobodySleeps)'
      BY DEF TypeOK, Heap, Placed, NobodySleeps, Live, Points, Waiter
    <2>2. Holders' = Holders
      BY DEF Holders, TypeOK
    <2> QED
      BY <2>1, <2>2 DEF SlotsExact
  <1>2. CASE ~draining
    <2>1. in_flight = Cardinality(Holders \ {r}) + Cardinality(lost)
      BY NewNoHolder DEF IInv, AcquireDenied, SlotsExact
    <2>2. in_flight \in 0 .. MaxInFlight
      BY InFlightRange DEF IInv
    <2> QED
      BY <1>2, <2>1, <2>2, WakeStep DEF AcquireDenied
  <1> QED
    BY <1>1, <1>2

LEMMA ReleaseStep ==
  ASSUME IInv, NEW r \in Requests, Release(r)
  PROVE  IInv'
  <1>1. in_flight \in Nat /\ in_flight <= MaxInFlight /\ pc[r] = "run" /\ r \in Holders
    BY DEF IInv, TypeOK, SlotsExact, Release, Holders
  <1>2. /\ IsFiniteSet(Holders) /\ Cardinality(Holders) \in Nat /\ Cardinality(lost) \in Nat
        /\ Cardinality(Holders \ {r}) = Cardinality(Holders) - 1
    BY <1>1, HoldersFinite, FS_RemoveElement DEF IInv
  <1>3. Cardinality(Holders \ {r}) \in Nat
    BY <1>2, FS_RemoveElement, FS_CardinalityType
  <1>4. in_flight > 0 /\ in_flight - 1 = Cardinality(Holders \ {r}) + Cardinality(lost)
    BY <1>1, <1>2, <1>3 DEF IInv, SlotsExact
  <1>5. in_flight - 1 \in 0 .. MaxInFlight
    BY <1>1, <1>4
  <1>6. _wake_next_locked(in_flight - 1) /\ Goto(r, "done")
        /\ UNCHANGED <<waiter_seq, draining, lost, faults>>
    BY <1>4 DEF Release, GiveBack
  <1> QED
    BY <1>1, <1>4, <1>5, <1>6, WakeStep

\* A newcomer waits only when the slots are taken: had one been free, the wake
\* would have emptied the heap.
LEMMA WaitStep ==
  ASSUME IInv, NEW r \in Requests, AcquireWait(r)
  PROVE  IInv'
  <1> DEFINE n    == in_flight
             left == waiters \ Popped(in_flight)
             v    == [rank |-> Rank[r], seq |-> waiter_seq, req |-> r]
  <1>1. TypeOK /\ Heap /\ Placed /\ SlotsExact /\ pc[r] = "new"
    BY DEF IInv, AcquireWait
  <1>2. n \in 0 .. MaxInFlight
    BY <1>1, InFlightRange
  <1>3. /\ waiters' = left \cup {v} /\ waiter_seq' = waiter_seq + 1
        /\ fut' = [WakeFut(n) EXCEPT ![r] = "pending"]
        /\ pc' = [pc EXCEPT ![r] = "wait"]
        /\ in_flight' = Taken(n) /\ queued' = queued - Cardinality(Popped(n)) + 1
        /\ UNCHANGED <<draining, lost, faults>>
    BY DEF AcquireWait, Goto
  <1>4. Taken(n) = MaxInFlight
    <2>1. Taken(n) \in n .. MaxInFlight
      BY <1>1, <1>2, WokenCount
    <2>2. CASE left # {}
      BY <1>1, <1>2, <2>2, LeftFull
    <2>3. CASE left = {}
      BY <2>1, <2>3, <1>2 DEF AcquireWait, MayTake
    <2> QED
      BY <2>2, <2>3
  <1>5. /\ left \in SUBSET Waiter
        /\ WakeFut(n) \in [Requests -> {"none", "pending", "woken", "cancelled"}]
        /\ \A u, w \in left : u.seq = w.seq \/ u.req = w.req => u = w
        /\ \A w \in left : /\ w.seq < waiter_seq
                           /\ pc[w.req] \in {"wait", "unwind"}
                           /\ WakeFut(n)[w.req] \in {"pending", "cancelled"}
        /\ \A q \in Requests : /\ WakeFut(n)[q] = "pending" => pc[q] = "wait"
                               /\ pc[q] = "new" => WakeFut(n)[q] = "none"
    BY <1>1, <1>2, WakeKeeps
  <1>6. IsFiniteSet(left) /\ queued - Cardinality(Popped(n)) = Cardinality(left)
    BY <1>1, <1>2, WokenCount
  <1>7. v \in Waiter /\ v \notin left
    BY <1>1, <1>5 DEF TypeOK, Waiter
  <1>8. /\ IsFiniteSet(left \cup {v}) /\ Cardinality(left \cup {v}) = Cardinality(left) + 1
        /\ Cardinality(left) \in Nat
    BY <1>6, <1>7, FS_AddElement, FS_CardinalityType
  <1>9. Holders' = Holders \cup Seated(n)
    <2>1. /\ WakeFut(n) = [q \in Requests |-> IF q \in Seated(n) THEN "woken" ELSE fut[q]]
          /\ \A q \in Seated(n) : q \in Requests /\ pc[q] = "wait"
      BY <1>1, <1>2, SeatedWaited
    <2> QED
      BY <1>1, <1>3, <2>1 DEF Holders, TypeOK
  <1>10. Cardinality(Holders') = Cardinality(Holders) + (Taken(n) - n) /\ Cardinality(Holders) \in Nat
    BY <1>1, <1>2, <1>9, SeatedCount
  <1> HIDE DEF left, v
  <1>11. TypeOK'
    <2>1. in_flight' \in Nat /\ queued' \in Nat /\ queued' = Cardinality(waiters')
      BY <1>3, <1>4, <1>6, <1>8
    <2>2. waiters' \in SUBSET Waiter /\ IsFiniteSet(waiters')
      BY <1>3, <1>5, <1>7, <1>8
    <2>3. fut' \in [Requests -> {"none", "pending", "woken", "cancelled"}]
      BY <1>3, <1>5
    <2>4. pc' \in [Requests -> Points]
      BY <1>1, <1>3 DEF TypeOK, Points
    <2> QED
      BY <1>1, <1>3, <2>1, <2>2, <2>3, <2>4 DEF TypeOK
  <1>12. Heap'
    <2>1. v.req = r /\ v.seq = waiter_seq
      BY DEF v
    <2>2. \A w \in left : w.req \in Requests /\ w.req # r /\ w.seq # waiter_seq /\ w.seq \in Nat
      BY <1>1, <1>5 DEF TypeOK, Waiter
    <2>3. waiter_seq \in Nat /\ pc \in [Requests -> Points]
      BY <1>1 DEF TypeOK
    <2>4. \A u, w \in waiters' : u.seq = w.seq \/ u.req = w.req => u = w
      BY <1>3, <1>5, <2>1, <2>2
    <2>5. \A w \in waiters' : w.seq < waiter_seq'
      BY <1>3, <1>5, <2>1, <2>2, <2>3
    <2>6. \A w \in waiters' : pc'[w.req] \in {"wait", "unwind"} /\ fut'[w.req] \in {"pending", "cancelled"}
      BY <1>3, <1>5, <2>1, <2>2, <2>3
    <2> QED
      BY <2>4, <2>5, <2>6 DEF Heap
  <1>13. Placed'
    BY <1>1, <1>3, <1>5 DEF Placed, TypeOK
  <1>14. SlotsExact'
    BY <1>1, <1>2, <1>3, <1>4, <1>10, HoldersFinite DEF SlotsExact
  <1>15. NobodySleeps'
    BY <1>3, <1>4 DEF NobodySleeps
  <1> QED
    BY <1>11, <1>12, <1>13, <1>14, <1>15 DEF IInv

LEMMA ResumeStep ==
  ASSUME IInv, NEW r \in Requests, Resume(r)
  PROVE  IInv'
  <1> USE DEF IInv, Resume, Goto, gate
  <1>1. (TypeOK /\ NobodySleeps)'
    BY DEF TypeOK, NobodySleeps, Live, Points
  <1>2. (Heap /\ Placed)'
    BY DEF TypeOK, Heap, Placed, Points, Waiter
  <1>3. Holders' = Holders
    BY DEF Holders, TypeOK
  <1> QED
    BY <1>1, <1>2, <1>3 DEF SlotsExact

LEMMA CancelStep ==
  ASSUME IInv, NEW r \in Requests, Cancel(r)
  PROVE  IInv'
  <1> USE DEF IInv, Cancel, Goto
  <1>1. TypeOK'
    BY DEF TypeOK, Points
  <1>2. (Heap /\ Placed)'
    BY DEF TypeOK, Heap, Placed, Points, Waiter
  <1>3. NobodySleeps'
    BY DEF TypeOK, NobodySleeps, Live, Waiter
  <1>4. Holders' = Holders
    BY DEF Holders, TypeOK
  <1> QED
    BY <1>1, <1>2, <1>3, <1>4 DEF SlotsExact

\* The entry goes; or, when there is none, the slot the request was given.
LEMMA DropStep ==
  ASSUME IInv, NEW r \in Requests, _drop_waiter(r)
  PROVE  IInv'
  <1> USE DEF IInv, _drop_waiter, Goto
  <1> DEFINE mine == {w \in waiters : w.req = r}
  <1>1. /\ waiters' = waiters \ mine /\ waiters \cap mine = mine
        /\ queued' = Cardinality(waiters) - Cardinality(mine) /\ IsFiniteSet(waiters)
    BY DEF TypeOK
  <1>2. /\ IsFiniteSet(waiters') /\ Cardinality(waiters') \in Nat
        /\ queued' = Cardinality(waiters')
    <2> HIDE DEF IInv, _drop_waiter, mine
    <2>1. IsFiniteSet(waiters \ mine)
      BY <1>1, FS_Difference
    <2>2. Cardinality(waiters \ mine) = Cardinality(waiters) - Cardinality(mine)
      BY <1>1, FS_Difference
    <2> QED
      BY <1>1, <2>1, <2>2, FS_CardinalityType
  <1>3. TypeOK'
    BY <1>2 DEF TypeOK, Points
  <1>4. (Heap /\ Placed)'
    BY DEF TypeOK, Heap, Placed, Points, Waiter
  <1>5. NobodySleeps'
    BY DEF TypeOK, NobodySleeps, Live, Waiter
  <1>6. IsFiniteSet(Holders) /\ IsFiniteSet(lost) /\ Cardinality(Holders) \in Nat /\ Cardinality(lost) \in Nat
    BY HoldersFinite
  <1>7. CASE fut[r] = "woken"
    <2>1. r \in Holders /\ r \notin lost
      BY <1>7 DEF Holders, Placed
    <2>2. Holders' = Holders \ {r} /\ lost' = lost \cup {r}
      BY <1>7 DEF Holders, TypeOK
    <2>3. Cardinality(Holders') = Cardinality(Holders) - 1 /\ Cardinality(lost') = Cardinality(lost) + 1
      BY <1>6, <2>1, <2>2, FS_AddElement, FS_RemoveElement
    <2> QED
      BY <1>3, <1>4, <1>5, <1>6, <2>3 DEF SlotsExact
  <1>8. CASE fut[r] # "woken"
    <2>1. Holders' = Holders /\ lost' = lost
      BY <1>8 DEF Holders, TypeOK
    <2> QED
      BY <1>3, <1>4, <1>5, <2>1 DEF SlotsExact
  <1> QED
    BY <1>7, <1>8

LEMMA StoreErrorStep ==
  ASSUME IInv, NEW r \in Requests, StoreError(r)
  PROVE  IInv'
  <1> USE DEF IInv, StoreError, Goto, gate
  <1>1. TypeOK'
    BY DEF TypeOK, Points
  <1>2. (Heap /\ Placed)'
    BY DEF TypeOK, Heap, Placed, Points, Waiter
  <1>3. NobodySleeps'
    BY DEF NobodySleeps, Live
  <1>4. IsFiniteSet(Holders) /\ IsFiniteSet(lost) /\ Cardinality(Holders) \in Nat /\ Cardinality(lost) \in Nat
    BY HoldersFinite
  <1>5. r \in Holders /\ r \notin lost /\ Holders' = Holders \ {r} /\ lost' = lost \cup {r}
    BY DEF Holders, Placed, TypeOK
  <1>6. Cardinality(Holders') = Cardinality(Holders) - 1 /\ Cardinality(lost') = Cardinality(lost) + 1
    <2> HIDE DEF IInv, StoreError, Goto, gate
    <2> QED BY <1>4, <1>5, FS_AddElement, FS_RemoveElement
  <1> QED
    BY <1>1, <1>2, <1>3, <1>4, <1>6 DEF SlotsExact

LEMMA IdleStep ==
  ASSUME IInv, begin_drain \/ UNCHANGED vars
  PROVE  IInv'
  <1> USE DEF IInv, begin_drain, vars, gate
  <1>1. (TypeOK /\ Heap /\ Placed /\ NobodySleeps)'
    BY DEF TypeOK, Heap, Placed, NobodySleeps, Live
  <1>2. Holders' = Holders
    BY DEF Holders
  <1> QED
    BY <1>1, <1>2 DEF SlotsExact

LEMMA StepIInv ==
  ASSUME IInv, [Next]_vars
  PROVE  IInv'
  <1>1. ASSUME NEW r \in Requests, acquire(r)
        PROVE  IInv'
    BY <1>1, TakeStep, DeniedStep, WaitStep, ResumeStep, DropStep DEF acquire
  <1>2. ASSUME NEW r \in Requests, Release(r) \/ Cancel(r) \/ StoreError(r)
        PROVE  IInv'
    BY <1>2, ReleaseStep, CancelStep, StoreErrorStep
  <1> QED
    BY <1>1, <1>2, IdleStep DEF Next

-----------------------------------------------------------------------------
\* rate_limit.py: the invariant of the gate, of which the theorems are parts.
THEOREM Invariance == Spec => []IInv
  BY InitIInv, StepIInv, PTL DEF Spec

\* The types of the gate, and queued is the size of the heap.
THEOREM TypeCorrect == Spec => []TypeOK
  <1>1. IInv => TypeOK
    BY DEF IInv
  <1> QED
    BY <1>1, Invariance, PTL

\* in_flight counts the requests that acquire let in and that did not release,
\* and those only: the cap of max_in_flight holds however tasks are cancelled.
THEOREM GateCounts == Spec => []SlotsExact
  <1>1. IInv => SlotsExact
    BY DEF IInv
  <1> QED
    BY <1>1, Invariance, PTL

\* While somebody waits whose future is pending, every slot is taken: no
\* interleaving of releases, cancellations and newcomers loses a wake.
THEOREM NoLostWake == Spec => []NobodySleeps
  <1>1. IInv => NobodySleeps
    BY DEF IInv
  <1> QED
    BY <1>1, Invariance, PTL

-----------------------------------------------------------------------------
(***************************************************************************)
(* Priority, then arrival.                                                 *)
(***************************************************************************)

\* The waiters a wake seats come before those it leaves.
LEMMA SeatedFirst ==
  ASSUME TypeOK, Heap, NEW n \in 0 .. MaxInFlight,
         NEW w \in waiters, w.req \in Seated(n), NEW v \in waiters \ Popped(n)
  PROVE  w.rank < v.rank \/ (w.rank = v.rank /\ w.seq < v.seq)
  <1> DEFINE V == {u \in Live : Before(u, v)}
             W == {u \in Live : Before(u, w)}
  <1>1. w \in Woken(n) /\ waiters \subseteq Waiter /\ v # w /\ v.seq # w.seq
    BY DEF Seated, Woken, Popped, Live, Heap, TypeOK
  <1>2. IsFiniteSet(V) /\ IsFiniteSet(W) /\ Cardinality(V) \in Nat /\ Cardinality(W) \in Nat
    BY FS_Subset, FS_CardinalityType DEF Live, TypeOK
  <1>3. Cardinality(W) < Free(n) /\ ~(Cardinality(V) < Free(n))
    BY <1>1 DEF Woken, Popped
  <1>4. Free(n) \in Nat
    BY DEF Free
  <1>5. ~(V \subseteq W)
    <2> SUFFICES ASSUME V \subseteq W PROVE FALSE
      OBVIOUS
    <2>1. Cardinality(V) <= Cardinality(W)
      BY <1>2, FS_Subset
    <2> HIDE DEF V, W
    <2> QED BY <2>1, <1>2, <1>3, <1>4
  <1>6. Live \subseteq Waiter /\ v \in Waiter /\ w \in Waiter
    BY <1>1 DEF Live
  <1>7. ~Before(v, w)
    BY <1>5, <1>6 DEF Before, Waiter
  <1> QED
    BY <1>1, <1>6, <1>7 DEF Before, Waiter

\* What InTurn says of one step.
Turn ==
    /\ \A r \in Requests : pc[r] = "new" /\ pc'[r] = "run" =>
         \A w \in Live' : Rank[r] < w.rank
    /\ \A w \in waiters : fut[w.req] = "pending" /\ fut'[w.req] = "woken" =>
         \A v \in Live' \cap waiters :
             w.rank < v.rank \/ (w.rank = v.rank /\ w.seq < v.seq)

\* A step that wakes, whatever else it does, wakes in turn.
LEMMA WakeInTurn ==
  ASSUME TypeOK, Heap, Placed, NEW n \in 0 .. MaxInFlight,
         \A q \in Requests : fut'[q] = "woken" => WakeFut(n)[q] = "woken",
         waiters' \cap waiters \subseteq waiters \ Popped(n)
  PROVE  \A w \in waiters : fut[w.req] = "pending" /\ fut'[w.req] = "woken" =>
           \A v \in Live' \cap waiters :
               w.rank < v.rank \/ (w.rank = v.rank /\ w.seq < v.seq)
  <1> SUFFICES ASSUME NEW w \in waiters, fut[w.req] = "pending", fut'[w.req] = "woken",
                      NEW v \in Live' \cap waiters
               PROVE  w.rank < v.rank \/ (w.rank = v.rank /\ w.seq < v.seq)
    OBVIOUS
  <1>1. v \in waiters \ Popped(n)
    BY DEF Live
  <1>2. w.req \in Requests
    BY DEF TypeOK, Waiter
  <1>3. w.req \in Seated(n)
    BY <1>2, SeatedWaited
  <1> QED
    BY <1>1, <1>3, SeatedFirst

LEMMA StepTurn ==
  ASSUME IInv, [Next]_vars
  PROVE  Turn
  <1> USE DEF Goto
  <1>0. TypeOK /\ Heap /\ Placed /\ in_flight \in 0 .. MaxInFlight
    BY InFlightRange DEF IInv
  <1>1. ASSUME NEW r \in Requests, AcquireTake(r)
        PROVE  Turn
    <2>1. waiters' = {}
      BY <1>0, <1>1, WokenCount DEF AcquireTake, MayTake
    <2> QED
      BY <2>1 DEF Turn, Live
  <1>2. ASSUME NEW r \in Requests, AcquireDenied(r)
        PROVE  Turn
    <2>1. CASE draining
      BY <1>0, <1>2, <2>1 DEF AcquireDenied, Turn, TypeOK, Waiter
    <2>2. CASE ~draining
      <3>1. \A w \in waiters : fut[w.req] = "pending" /\ fut'[w.req] = "woken" =>
              \A v \in Live' \cap waiters :
                  w.rank < v.rank \/ (w.rank = v.rank /\ w.seq < v.seq)
        BY <1>0, <1>2, <2>2, WakeInTurn DEF AcquireDenied, _wake_next_locked
      <3>2. \A q \in Requests : pc[q] = "new" => pc'[q] # "run"
        BY <1>0, <1>2 DEF AcquireDenied, TypeOK
      <3> QED
        BY <3>1, <3>2 DEF Turn
    <2> QED
      BY <2>1, <2>2
  <1>3. ASSUME NEW r \in Requests, AcquireWait(r)
        PROVE  Turn
    <2> DEFINE v == [rank |-> Rank[r], seq |-> waiter_seq, req |-> r]
    <2>1. v \notin waiters
      BY <1>0 DEF Heap, TypeOK
    <2>2. waiters' \cap waiters \subseteq waiters \ Popped(in_flight)
      BY <1>3, <2>1 DEF AcquireWait
    <2>3. fut' = [WakeFut(in_flight) EXCEPT ![r] = "pending"]
      BY <1>3 DEF AcquireWait
    <2>4. \A q \in Requests : fut'[q] = "woken" => WakeFut(in_flight)[q] = "woken"
      BY <1>0, <2>3, WakeKeeps
    <2>5. \A q \in Requests : pc[q] = "new" => pc'[q] # "run"
      BY <1>0, <1>3 DEF AcquireWait, TypeOK
    <2> HIDE DEF v
    <2> QED
      BY <1>0, <2>2, <2>4, <2>5, WakeInTurn DEF Turn
  <1>4. ASSUME NEW r \in Requests, Release(r)
        PROVE  Turn
    <2> DEFINE n == IF in_flight > 0 THEN in_flight - 1 ELSE 0
    <2>1. n \in 0 .. MaxInFlight
      BY <1>0
    <2>2. _wake_next_locked(n)
      BY <1>4 DEF Release, GiveBack
    <2>3. \A q \in Requests : pc[q] = "new" => pc'[q] # "run"
      BY <1>0, <1>4 DEF Release, TypeOK
    <2> HIDE DEF n
    <2> QED
      BY <1>0, <2>1, <2>2, <2>3, WakeInTurn DEF Turn, _wake_next_locked
  <1>5. ASSUME NEW r \in Requests, Resume(r) \/ Cancel(r) \/ _drop_waiter(r) \/ StoreError(r)
        PROVE  Turn
    BY <1>0, <1>5 DEF Resume, Cancel, _drop_waiter, StoreError, gate, Turn, TypeOK, Waiter
  <1>6. ASSUME begin_drain \/ UNCHANGED vars
        PROVE  Turn
    BY <1>6 DEF begin_drain, vars, gate, Turn
  <1> QED
    BY <1>1, <1>2, <1>3, <1>4, <1>5, <1>6 DEF Next, acquire

\* rate_limit.py, the heap of (rank, seq): whoever is let in, as a newcomer or
\* from the heap, leaves nobody behind who was due before.
THEOREM ServedInTurn == Spec => InTurn
  <1>1. IInv /\ [Next]_vars => [Turn]_vars
    BY StepTurn
  <1>2. Spec => [][Turn]_vars
    BY <1>1, Invariance, PTL DEF Spec
  <1> QED
    BY <1>2 DEF Turn, InTurn

=============================================================================
