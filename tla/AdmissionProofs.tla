--------------------------- MODULE AdmissionProofs ---------------------------
(***************************************************************************)
(* Proofs about Admission for any replicas, requests, gauges and limits.   *)
(* As long as no call to Redis has failed, a gauge goes up and down with   *)
(* the set of the requests that count in it. The loops over the gauges     *)
(* need that no gauge is twice in what a request has still to give back.   *)
(***************************************************************************)
EXTENDS Admission, SequenceTheorems, FiniteSetTheorems, TLAPS

USE AdmissionAssumption

\* Where the loops are: at a gauge, and with something to give back.
LoopsSound ==
    \A r \in Requests :
        /\ pc[r] = "check" => pos[r] <= Len(Checks[r])
        /\ pc[r] = "lease" => pos[r] <= Len(Leases[r])
        /\ pc[r] \in {"undo", "exit"} => todo[r] # <<>> /\ NoRepeat(todo[r])

IInv == TypeOK /\ LoopsSound /\ GaugesExact /\ CapHeld

-----------------------------------------------------------------------------
\* The lists of gauges.
In(g, s) == \E i \in DOMAIN s : s[i] = g

LEMMA SeqDomain ==
  ASSUME NEW S, NEW s \in Seq(S)
  PROVE  Len(s) \in Nat /\ DOMAIN s = 1..Len(s) /\ \A i \in 1..Len(s) : s[i] \in S
  BY LenProperties

\* The first gauges of a list.
LEMMA Prefix ==
  ASSUME NEW s \in Seq(Gauges), NEW i \in 1..Len(s)
  PROVE  /\ SubSeq(s, 1, i - 1) \in Seq(Gauges)
         /\ Len(SubSeq(s, 1, i - 1)) = i - 1
         /\ \A j \in 1..(i - 1) : SubSeq(s, 1, i - 1)[j] = s[j]
  <1>1. Len(s) \in Nat /\ i \in Nat /\ \A j \in 1..(i - 1) : s[j] \in Gauges
    BY SeqDomain
  <1>2. 1 \in Int /\ i - 1 \in Int
    BY <1>1
  <1>3. /\ SubSeq(s, 1, i - 1) \in Seq(Gauges)
        /\ Len(SubSeq(s, 1, i - 1)) = IF 1 <= i - 1 THEN i - 1 - 1 + 1 ELSE 0
        /\ \A j \in 1..(i - 1 - 1 + 1) : SubSeq(s, 1, i - 1)[j] = s[1 + j - 1]
    BY <1>1, <1>2, SubSeqProperties
  <1> QED
    BY <1>1, <1>3

\* What a denial gives back: the gauge that denied, and each one before it.
LEMMA UndoneIs ==
  ASSUME NEW r \in Requests, pos[r] \in 1..Len(Leases[r])
  PROVE  /\ Undone(r) \in Seq(Gauges) /\ Undone(r) # <<>> /\ NoRepeat(Undone(r))
         /\ \A g : In(g, Undone(r)) <=>
                 g = Leases[r][pos[r]] \/ \E j \in 1..(pos[r] - 1) : Leases[r][j] = g
  <1> DEFINE s == Leases[r]
             i == pos[r]
             u == SubSeq(s, 1, i - 1)
             t == <<s[i]>> \o u
  <1>0. s \in Seq(Gauges) /\ i \in 1..Len(s) /\ NoRepeat(s) /\ Undone(r) = t
    BY DEF Undone, AdmissionAssumption
  <1> HIDE DEF s, i
  <1>1. Len(s) \in Nat /\ DOMAIN s = 1..Len(s) /\ s[i] \in Gauges /\ i \in 1..Len(s)
    BY <1>0, SeqDomain
  <1>2. /\ u \in Seq(Gauges) /\ Len(u) = i - 1
        /\ \A j \in 1..(i - 1) : u[j] = s[j]
    BY <1>0, Prefix
  <1>3. <<s[i]>> \in Seq(Gauges) /\ Len(<<s[i]>>) = 1 /\ <<s[i]>>[1] = s[i]
    BY <1>1
  <1> HIDE DEF u
  <1>4. /\ t \in Seq(Gauges) /\ Len(t) = Len(<<s[i]>>) + Len(u)
        /\ \A j \in 1..(Len(<<s[i]>>) + Len(u)) :
              t[j] = IF j <= Len(<<s[i]>>) THEN <<s[i]>>[j] ELSE u[j - Len(<<s[i]>>)]
    BY <1>2, <1>3, ConcatProperties
  <1> HIDE DEF t
  <1>5. /\ Len(t) = i
        /\ t[1] = s[i]
        /\ \A j \in 2..i : t[j] = s[j - 1]
    <2>1. i \in Nat /\ i >= 1 /\ Len(<<s[i]>>) + Len(u) = i
      BY <1>1, <1>2, <1>3
    <2>2. \A j \in 1..i : t[j] = IF j <= 1 THEN <<s[i]>>[j] ELSE u[j - 1]
      BY <1>3, <1>4, <2>1
    <2>3. t[1] = s[i]
      BY <1>3, <2>1, <2>2
    <2>4. ASSUME NEW j \in 2..i
          PROVE  t[j] = s[j - 1]
      <3>1. j \in 1..i /\ ~(j <= 1) /\ j - 1 \in 1..(i - 1)
        BY <2>1
      <3> QED
        BY <1>2, <2>2, <3>1
    <2> QED
      BY <1>4, <2>1, <2>3, <2>4
  <1>6. DOMAIN t = 1..i
    BY <1>4, <1>5, SeqDomain
  <1>7. t # <<>>
    BY <1>1, <1>5, EmptySeq
  <1>8. NoRepeat(t)
    <2>0. \A j, k \in 1..Len(s) : s[j] = s[k] => j = k
      BY <1>0, <1>1 DEF NoRepeat
    <2>1. ASSUME NEW j \in 2..i
          PROVE  t[j] = s[j - 1] /\ s[j - 1] # s[i]
      <3>1. j - 1 \in 1..Len(s) /\ j - 1 # i
        BY <1>1
      <3> QED
        BY <1>1, <1>5, <2>0, <3>1
    <2>2. ASSUME NEW j \in 2..i, NEW k \in 2..i, t[j] = t[k]
          PROVE  j = k
      <3>1. j - 1 \in 1..Len(s) /\ k - 1 \in 1..Len(s) /\ s[j - 1] = s[k - 1]
        BY <1>1, <1>5, <2>2
      <3>2. j - 1 = k - 1
        BY <2>0, <3>1
      <3> QED
        BY <1>1, <3>2
    <2>3. \A j \in 1..i : j = 1 \/ j \in 2..i
      BY <1>1
    <2> QED
      BY <1>5, <1>6, <2>1, <2>2, <2>3 DEF NoRepeat
  <1>9. \A g : In(g, t) <=> g = s[i] \/ \E j \in 1..(i - 1) : s[j] = g
    <2> TAKE g
    <2>1. ASSUME NEW j \in 1..(i - 1), s[j] = g
          PROVE  In(g, t)
      <3>1. j + 1 \in 1..i /\ t[j + 1] = g
        BY <1>1, <1>5, <2>1
      <3> QED
        BY <1>6, <3>1 DEF In
    <2>2. g = s[i] => In(g, t)
      <3>1. 1 \in 1..i
        BY <1>1
      <3> QED
        BY <1>5, <1>6, <3>1 DEF In
    <2>3. ASSUME NEW j \in 1..i, t[j] = g, g # s[i]
          PROVE  \E k \in 1..(i - 1) : s[k] = g
      <3>1. j - 1 \in 1..(i - 1) /\ s[j - 1] = g
        BY <1>1, <1>5, <2>3
      <3> QED
        BY <3>1
    <2> QED
      BY <1>6, <2>1, <2>2, <2>3 DEF In
  <1> QED
    BY <1>0, <1>4, <1>7, <1>8, <1>9 DEF s, i

\* After its head was given back, the tail is left, without that gauge.
LEMMA TailIs ==
  ASSUME NEW s \in Seq(Gauges), s # <<>>, NoRepeat(s)
  PROVE  /\ Head(s) \in Gauges /\ In(Head(s), s)
         /\ Tail(s) \in Seq(Gauges) /\ NoRepeat(Tail(s)) /\ Len(Tail(s)) = Len(s) - 1
         /\ Len(s) > 1 => Tail(s) # <<>>
         /\ \A g : In(g, Tail(s)) <=> In(g, s) /\ g # Head(s)
  <1>1. /\ Len(s) \in Nat \ {0} /\ DOMAIN s = 1..Len(s) /\ Head(s) = s[1]
    BY SeqDomain, EmptySeq
  <1>2. /\ Head(s) \in Gauges /\ Tail(s) \in Seq(Gauges) /\ Len(Tail(s)) = Len(s) - 1
        /\ \A i \in 1..Len(Tail(s)) : Tail(s)[i] = s[i + 1]
    BY HeadTailProperties
  <1>3. DOMAIN Tail(s) = 1..(Len(s) - 1)
    BY <1>2, SeqDomain
  <1> DEFINE t == Tail(s)
  <1>4. /\ \A i \in 1..(Len(s) - 1) : t[i] = s[i + 1]
        /\ DOMAIN t = 1..(Len(s) - 1)
    BY <1>2, <1>3
  <1>5. Len(t) = Len(s) - 1
    BY <1>2
  <1> HIDE DEF t
  <1>6. Len(s) > 1 => t # <<>>
    BY <1>1, <1>5, EmptySeq
  <1>7. NoRepeat(t)
    <2>1. \A i, j \in 1..Len(s) : s[i] = s[j] => i = j
      BY <1>1 DEF NoRepeat
    <2>2. ASSUME NEW i \in 1..(Len(s) - 1), NEW j \in 1..(Len(s) - 1), t[i] = t[j]
          PROVE  i = j
      <3>1. i + 1 \in 1..Len(s) /\ j + 1 \in 1..Len(s) /\ s[i + 1] = s[j + 1]
        BY <1>1, <1>4, <2>2
      <3>2. i + 1 = j + 1
        BY <2>1, <3>1
      <3> QED
        BY <1>1, <3>2
    <2> QED
      BY <1>4, <2>2 DEF NoRepeat
  <1>8. \A g : In(g, t) <=> In(g, s) /\ g # Head(s)
    <2> TAKE g
    <2>1. ASSUME NEW i \in 1..(Len(s) - 1), t[i] = g
          PROVE  In(g, s) /\ g # Head(s)
      <3>1. i + 1 \in 1..Len(s) /\ s[i + 1] = g /\ 1 \in 1..Len(s) /\ i + 1 # 1
        BY <1>1, <1>4, <2>1
      <3> QED
        BY <1>1, <3>1 DEF In, NoRepeat
    <2>2. ASSUME NEW i \in 1..Len(s), s[i] = g, g # Head(s)
          PROVE  In(g, t)
      <3>1. i - 1 \in 1..(Len(s) - 1) /\ t[i - 1] = g
        BY <1>1, <1>4, <2>2
      <3> QED
        BY <1>4, <3>1 DEF In
    <2> QED
      BY <1>1, <1>4, <2>1, <2>2 DEF In
  <1>9. In(Head(s), s)
    <2>1. 1 \in DOMAIN s
      BY <1>1
    <2> QED
      BY <1>1, <2>1 DEF In
  <1> QED
    BY <1>2, <1>7, <1>8, <1>9, <1>6 DEF t

\* The whole list is what was taken when the last gauge was.
LEMMA ListsOf ==
  ASSUME NEW r \in Requests
  PROVE  /\ Leases[r] \in Seq(Gauges) /\ Len(Leases[r]) \in Nat
         /\ DOMAIN Leases[r] = 1..Len(Leases[r])
         /\ \A i \in 1..Len(Leases[r]) : Leases[r][i] \in Gauges
         /\ Leases[r] # <<>> => Len(Leases[r]) > 0
         /\ Checks[r] \in Seq(Counters) /\ Len(Checks[r]) \in Nat
         /\ \A i \in 1..Len(Checks[r]) : Checks[r][i] \in Counters
         /\ Checks[r] # <<>> => Len(Checks[r]) > 0
  <1>1. Leases[r] \in Seq(Gauges) /\ Checks[r] \in Seq(Counters)
    BY DEF AdmissionAssumption
  <1>2. Leases[r] # <<>> => Len(Leases[r]) \in Nat \ {0}
    BY <1>1, EmptySeq
  <1>3. Checks[r] # <<>> => Len(Checks[r]) \in Nat \ {0}
    BY <1>1, EmptySeq
  <1> QED
    BY <1>1, <1>2, <1>3, SeqDomain

-----------------------------------------------------------------------------
\* One call to the stores.
LEMMA FallbackType ==
  ASSUME TypeOK, NEW p \in Replicas, NEW k \in Names, NEW d \in {1, -1},
         NEW base \in [Stores -> [Names -> Int]], Fallback(p, k, d, base)
  PROVE  /\ count' \in [Stores -> [Names -> Int]]
         /\ degraded' \in SUBSET Replicas /\ outage' \in SUBSET Replicas
  <1>1. p \in Stores
    BY DEF Stores
  <1>2. \A n \in Int : AtLeastZero(n + d) \in Int
    BY DEF AtLeastZero
  <1>3. base[p][k] \in Int /\ base[p] \in [Names -> Int]
    BY <1>1
  <1>4. AtLeastZero(base[p][k] + d) \in Int
    BY <1>2, <1>3
  <1>5. [base EXCEPT ![p][k] = AtLeastZero(@ + d)] \in [Stores -> [Names -> Int]]
    BY <1>1, <1>3, <1>4
  <1> QED
    BY <1>5 DEF Fallback, TypeOK

LEMMA AdjustType ==
  ASSUME TypeOK, NEW p \in Replicas, NEW k \in Names, NEW d \in {1, -1}, Adjust(p, k, d)
  PROVE  /\ count' \in [Stores -> [Names -> Int]]
         /\ degraded' \in SUBSET Replicas /\ outage' \in SUBSET Replicas
         /\ faults' \in Nat
  <1>1. /\ count \in [Stores -> [Names -> Int]]
        /\ [count EXCEPT ![Redis][k] = @ + d] \in [Stores -> [Names -> Int]]
    BY DEF TypeOK, Stores
  <1>2. CASE Shared(p, k, d)
    BY <1>1, <1>2 DEF Shared, Add, TypeOK
  <1>3. CASE Local(p, k, d)
    BY <1>1, <1>3, FallbackType DEF Local, TypeOK
  <1>4. CASE Fails(p, k, d)
    <2>1. PICK base \in {count, [count EXCEPT ![Redis][k] = @ + d]} : Fallback(p, k, d, base)
      BY <1>4 DEF Fails
    <2>2. base \in [Stores -> [Names -> Int]]
      BY <1>1
    <2>3. faults' \in Nat
      BY <1>4 DEF Fails, TypeOK
    <2> QED
      BY <2>1, <2>2, <2>3, FallbackType
  <1> QED
    BY <1>2, <1>3, <1>4 DEF Adjust

LEMMA AskedType ==
  ASSUME TypeOK, NEW r \in Requests, NEW g \in Gauges, NEW d \in {1, -1}, Asked(r, g, d)
  PROVE  /\ count' \in [Stores -> [Names -> Int]]
         /\ degraded' \in SUBSET Replicas /\ outage' \in SUBSET Replicas
         /\ faults' \in Nat /\ wiping' \in SUBSET Requests
  <1>1. Home[r] \in Replicas /\ g \in Names
    BY DEF AdmissionAssumption, Names
  <1>2. CASE r \in wiping
    <2>1. CASE count' = [count EXCEPT ![Redis][g] = 0] /\ UNCHANGED <<degraded, outage, faults>>
      <3>1. [count EXCEPT ![Redis][g] = 0] \in [Stores -> [Names -> Int]]
        BY <1>1 DEF TypeOK, Stores
      <3> QED
        BY <1>2, <2>1, <3>1 DEF Asked, TypeOK
    <2>2. CASE Fallback(Home[r], g, d, count) /\ faults' = faults + 1
      BY <1>1, <1>2, <2>2, FallbackType DEF Asked, TypeOK
    <2> QED
      BY <1>2, <2>1, <2>2 DEF Asked, SetZero
  <1>3. CASE r \notin wiping
    <2>1. Adjust(Home[r], g, d)
      BY <1>3 DEF Asked
    <2> QED
      BY <1>1, <1>3, <2>1, AdjustType DEF Asked, TypeOK
  <1> QED
    BY <1>2, <1>3

\* Types, and the places of the requests, are kept by every step.
LEMMA StepSound ==
  ASSUME TypeOK, LoopsSound, NEW r \in Requests, Step(r)
  PROVE  TypeOK' /\ LoopsSound'
  <1>1. /\ pos[r] \in Nat \ {0} /\ pos[r] + 1 \in Nat \ {0} /\ 1 \in Nat \ {0}
        /\ pc[r] \in Points
    BY DEF TypeOK
  <1>2. CASE Enter(r)
    <2>1. Checks[r] # <<>> => Len(Checks[r]) >= 1
      BY ListsOf
    <2>2. pc'[r] \in {"slot", "check"} /\ pc'[r] = "check" => Checks[r] # <<>>
      BY <1>2 DEF Enter, Goto, TypeOK
    <2>3. TypeOK'
      BY <1>1, <1>2 DEF Enter, Goto, TypeOK, Points, InLoop, Ended
    <2>4. LoopsSound'
      BY <1>2, <2>1 DEF Enter, Goto, TypeOK, LoopsSound
    <2> QED
      BY <2>3, <2>4
  <1>3. CASE Check(r)
    <2> DEFINE c == Checks[r][pos[r]]
    <2>1. pos[r] \in 1..Len(Checks[r]) /\ Len(Checks[r]) \in Nat /\ c \in Counters
      BY <1>1, <1>3, ListsOf DEF Check, LoopsSound
    <2>2. Home[r] \in Replicas /\ c \in Names
      BY <2>1 DEF AdmissionAssumption, Names
    <2> HIDE DEF c
    <2>3. Adjust(Home[r], c, 1)
      BY <1>3 DEF Check, c
    <2>4. /\ count' \in [Stores -> [Names -> Int]]
          /\ degraded' \in SUBSET Replicas /\ outage' \in SUBSET Replicas
          /\ faults' \in Nat
      BY <2>2, <2>3, AdjustType
    <2>5. /\ UNCHANGED <<fail_open, todo, wiping, crashes, windows>>
          /\ \/ pc' = [pc EXCEPT ![r] = "refused"] /\ UNCHANGED <<pos, passed>>
             \/ /\ passed' = [passed EXCEPT ![c] = @ \cup {r}]
                /\ pos' = [pos EXCEPT ![r] = @ + 1]
                /\ pc' = [pc EXCEPT ![r] = IF pos[r] = Len(Checks[r]) THEN "slot" ELSE "check"]
      BY <1>3 DEF Check, Goto, c
    <2>6. TypeOK'
      <3>1. pc' \in [Requests -> Points]
        BY <2>5 DEF TypeOK, Points, InLoop, Ended
      <3>2. pos' \in [Requests -> Nat \ {0}]
        BY <1>1, <2>5 DEF TypeOK
      <3>3. passed' \in [Counters -> SUBSET Requests]
        <4>1. passed[c] \cup {r} \in SUBSET Requests
          BY <2>1 DEF TypeOK
        <4>2. [passed EXCEPT ![c] = passed[c] \cup {r}] \in [Counters -> SUBSET Requests]
          BY <4>1 DEF TypeOK
        <4> QED
          BY <2>5, <4>2 DEF TypeOK
      <3> QED
        BY <2>4, <2>5, <3>1, <3>2, <3>3 DEF TypeOK
    <2>7. LoopsSound'
      <3>1. CASE pc' = [pc EXCEPT ![r] = "refused"] /\ UNCHANGED <<pos, passed>>
        BY <2>5, <3>1 DEF TypeOK, LoopsSound
      <3>2. CASE /\ pos' = [pos EXCEPT ![r] = @ + 1]
                 /\ pc' = [pc EXCEPT ![r] = IF pos[r] = Len(Checks[r]) THEN "slot" ELSE "check"]
        BY <1>1, <2>1, <2>5, <3>2 DEF TypeOK, LoopsSound
      <3> QED
        BY <2>5, <3>1, <3>2
    <2> QED
      BY <2>6, <2>7
  <1>4. CASE Acquire(r)
    <2>1. Leases[r] # <<>> => Len(Leases[r]) >= 1
      BY ListsOf
    <2>3. TypeOK'
      BY <1>1, <1>4 DEF Acquire, Goto, TypeOK, Points, InLoop, Ended
    <2>4. LoopsSound'
      BY <1>4, <2>1 DEF Acquire, Goto, TypeOK, LoopsSound
    <2> QED
      BY <2>3, <2>4
  <1>5. CASE Lease(r)
    <2> DEFINE g == Leases[r][pos[r]]
    <2>1. pos[r] \in 1..Len(Leases[r]) /\ Len(Leases[r]) \in Nat /\ g \in Gauges
      BY <1>1, <1>5, ListsOf DEF Lease, LoopsSound
    <2>2. Undone(r) \in Seq(Gauges) /\ Undone(r) # <<>> /\ NoRepeat(Undone(r))
      BY <2>1, UndoneIs
    <2> HIDE DEF g
    <2>3. Asked(r, g, 1)
      BY <1>5 DEF Lease, g
    <2>4. /\ count' \in [Stores -> [Names -> Int]]
          /\ degraded' \in SUBSET Replicas /\ outage' \in SUBSET Replicas
          /\ faults' \in Nat /\ wiping' \in SUBSET Requests
      BY <2>1, <2>3, AskedType
    <2>5. /\ UNCHANGED <<fail_open, passed, crashes, windows>>
          /\ \/ UNCHANGED <<pc, pos, todo>>
             \/ /\ pc' = [pc EXCEPT ![r] = "undo"]
                /\ todo' = [todo EXCEPT ![r] = Undone(r)]
                /\ UNCHANGED pos
             \/ /\ pos' = [pos EXCEPT ![r] = @ + 1]
                /\ pc' = [pc EXCEPT ![r] = IF pos[r] = Len(Leases[r]) THEN "run" ELSE "lease"]
                /\ UNCHANGED todo
      BY <1>5 DEF Lease, Goto, g
    <2>6. TypeOK'
      <3>1. pc' \in [Requests -> Points]
        BY <2>5 DEF TypeOK, Points, InLoop, Ended
      <3>2. pos' \in [Requests -> Nat \ {0}]
        BY <1>1, <2>5 DEF TypeOK
      <3>3. todo' \in [Requests -> Seq(Gauges)]
        BY <2>2, <2>5 DEF TypeOK
      <3> QED
        BY <2>4, <2>5, <3>1, <3>2, <3>3 DEF TypeOK
    <2>7. LoopsSound'
      <3>1. CASE UNCHANGED <<pc, pos, todo>>
        BY <3>1 DEF LoopsSound
      <3>2. CASE /\ pc' = [pc EXCEPT ![r] = "undo"]
                 /\ todo' = [todo EXCEPT ![r] = Undone(r)]
                 /\ UNCHANGED pos
        BY <2>2, <3>2 DEF TypeOK, LoopsSound
      <3>3. CASE /\ pos' = [pos EXCEPT ![r] = @ + 1]
                 /\ pc' = [pc EXCEPT ![r] = IF pos[r] = Len(Leases[r]) THEN "run" ELSE "lease"]
                 /\ UNCHANGED todo
        BY <1>1, <2>1, <3>3 DEF TypeOK, LoopsSound
      <3> QED
        BY <2>5, <3>1, <3>2, <3>3
    <2> QED
      BY <2>6, <2>7
  <1>6. CASE GiveBack(r)
    <2>1. todo[r] \in Seq(Gauges) /\ todo[r] # <<>> /\ NoRepeat(todo[r])
      BY <1>6 DEF GiveBack, LoopsSound, TypeOK
    <2>2. /\ Head(todo[r]) \in Gauges
          /\ Tail(todo[r]) \in Seq(Gauges) /\ NoRepeat(Tail(todo[r]))
          /\ Len(Tail(todo[r])) = Len(todo[r]) - 1 /\ Len(todo[r]) \in Nat
      BY <2>1, TailIs, SeqDomain
    <2>3. Len(todo[r]) > 1 => Tail(todo[r]) # <<>>
      BY <2>1, TailIs
    <2>4. /\ count' \in [Stores -> [Names -> Int]]
          /\ degraded' \in SUBSET Replicas /\ outage' \in SUBSET Replicas
          /\ faults' \in Nat /\ wiping' \in SUBSET Requests
      BY <1>6, <2>2, AskedType DEF GiveBack
    <2>5. /\ UNCHANGED <<fail_open, pos, passed, crashes, windows>>
          /\ pc[r] \in {"undo", "exit"}
          /\ \/ UNCHANGED <<pc, todo>>
             \/ /\ todo' = [todo EXCEPT ![r] = Tail(@)]
                /\ \/ Len(todo[r]) > 1 /\ UNCHANGED pc
                   \/ pc' = [pc EXCEPT ![r] = IF pc[r] = "undo" THEN "refused" ELSE "done"]
      BY <1>6 DEF GiveBack, Goto
    <2>6. TypeOK'
      <3>1. pc' \in [Requests -> Points]
        BY <2>5 DEF TypeOK, Points, InLoop, Ended
      <3>2. todo' \in [Requests -> Seq(Gauges)]
        BY <2>2, <2>5 DEF TypeOK
      <3> QED
        BY <2>4, <2>5, <3>1, <3>2 DEF TypeOK
    <2>7. LoopsSound'
      <3>1. CASE UNCHANGED <<pc, todo>>
        BY <2>5, <3>1 DEF LoopsSound
      <3>2. CASE todo' = [todo EXCEPT ![r] = Tail(@)] /\ Len(todo[r]) > 1 /\ UNCHANGED pc
        BY <2>2, <2>3, <2>5, <3>2 DEF TypeOK, LoopsSound
      <3>3. CASE /\ todo' = [todo EXCEPT ![r] = Tail(@)]
                 /\ pc' = [pc EXCEPT ![r] = IF pc[r] = "undo" THEN "refused" ELSE "done"]
        BY <2>5, <3>3 DEF TypeOK, LoopsSound
      <3> QED
        BY <2>5, <3>1, <3>2, <3>3
    <2> QED
      BY <2>6, <2>7
  <1>7. CASE Answered(r)
    <2>1. Leases[r] \in Seq(Gauges) /\ NoRepeat(Leases[r])
      BY DEF AdmissionAssumption
    <2>2. /\ pc' = [pc EXCEPT ![r] = IF Leases[r] = <<>> THEN "done" ELSE "exit"]
          /\ todo' = [todo EXCEPT ![r] = Leases[r]]
      BY <1>7 DEF Answered, Goto
    <2>3. TypeOK'
      <3>1. pc' \in [Requests -> Points]
        BY <2>2 DEF TypeOK, Points, InLoop, Ended
      <3>2. todo' \in [Requests -> Seq(Gauges)]
        BY <2>1, <2>2 DEF TypeOK
      <3> QED
        BY <1>7, <3>1, <3>2 DEF Answered, TypeOK
    <2>4. LoopsSound'
      BY <1>7, <2>1 DEF Answered, Goto, TypeOK, LoopsSound
    <2> QED
      BY <2>3, <2>4
  <1> QED
    BY <1>2, <1>3, <1>4, <1>5, <1>6, <1>7 DEF Step

LEMMA Sound ==
  ASSUME TypeOK, LoopsSound, [Next]_vars
  PROVE  TypeOK' /\ LoopsSound'
  <1>1. CASE \E r \in Requests : Step(r)
    BY <1>1, StepSound
  <1>2. ASSUME NEW p \in Replicas, Crash(p)
        PROVE  TypeOK' /\ LoopsSound'
    <2>1. TypeOK'
      BY <1>2 DEF Crash, TypeOK, Points, Ended
    <2>2. LoopsSound'
      BY <1>2 DEF Crash, TypeOK, LoopsSound
    <2> QED
      BY <2>1, <2>2
  <1>3. ASSUME NEW g \in Gauges, Expire(g)
        PROVE  TypeOK' /\ LoopsSound'
    <2>0. g \in Names /\ Redis \in Stores
      BY DEF Names, Stores
    <2>1. [count EXCEPT ![Redis][g] = 0] \in [Stores -> [Names -> Int]]
      BY <2>0 DEF TypeOK
    <2>2. TypeOK'
      BY <1>3, <2>1 DEF Expire, TypeOK, path
    <2>3. LoopsSound'
      BY <1>3 DEF Expire, LoopsSound, path
    <2> QED
      BY <2>2, <2>3
  <1>4. CASE NextWindow
    <2>1. TypeOK'
      BY <1>4 DEF NextWindow, TypeOK, path
    <2>2. LoopsSound'
      BY <1>4 DEF NextWindow, LoopsSound, path
    <2> QED
      BY <2>1, <2>2
  <1>5. CASE UNCHANGED vars
    BY <1>5 DEF vars, TypeOK, LoopsSound
  <1> QED
    BY <1>1, <1>2, <1>3, <1>4, <1>5 DEF Next

-----------------------------------------------------------------------------
\* While no call has failed: one call to the stores changes Redis, and nothing
\* is degraded or negative.
LEMMA NoFault ==
  ASSUME TypeOK, GaugesExact, NEW r \in Requests, NEW g \in Gauges, NEW d \in {1, -1},
         Asked(r, g, d), faults' = 0, count[Redis][g] + d >= 0
  PROVE  /\ faults = 0 /\ wiping' = {} /\ degraded' = {}
         /\ count' = [count EXCEPT ![Redis][g] = @ + d]
         /\ Answer(Home[r], g) = count[Redis][g] + d
  <1>1. g \in Names /\ Redis \in Stores /\ count[Redis][g] \in Int /\ faults \in Nat
    BY DEF Names, Stores, TypeOK
  <1>2. faults = 0
    BY <1>1 DEF Asked, SetZero, Adjust, Shared, Local, Fails
  <1>3. wiping = {} /\ degraded = {}
    BY <1>2 DEF GaugesExact
  <1>4. Shared(Home[r], g, d) /\ wiping' = IF Answer(Home[r], g) < 0 THEN {r} ELSE {}
    BY <1>1, <1>2, <1>3 DEF Asked, Adjust, Local, Fails
  <1>5. count' = [count EXCEPT ![Redis][g] = @ + d] /\ degraded' = {}
    BY <1>3, <1>4 DEF Shared, Add
  <1>6. count'[Redis][g] = count[Redis][g] + d
    BY <1>1, <1>5 DEF TypeOK
  <1>7. Answer(Home[r], g) = count[Redis][g] + d
    BY <1>5, <1>6 DEF Answer
  <1> QED
    BY <1>1, <1>2, <1>4, <1>5, <1>7

LEMMA CountingFinite ==
  \A g : IsFiniteSet(Counting(g)) /\ Cardinality(Counting(g)) \in Nat
  <1> TAKE g
  <1>1. Counting(g) \subseteq Requests
    BY DEF Counting
  <1>2. IsFiniteSet(Counting(g))
    BY <1>1, FS_Subset DEF AdmissionAssumption
  <1> QED
    BY <1>2, FS_CardinalityType

\* The leases are a part of what is counted.
LEMMA HoldersFinite ==
  ASSUME NEW g
  PROVE  /\ IsFiniteSet(Holders(g)) /\ Cardinality(Holders(g)) \in Nat
         /\ Cardinality(Holders(g)) <= Cardinality(Counting(g))
  <1>1. Holders(g) \subseteq Counting(g)
    BY DEF Holders
  <1>2. IsFiniteSet(Holders(g)) /\ Cardinality(Holders(g)) <= Cardinality(Counting(g))
    BY <1>1, CountingFinite, FS_Subset
  <1> QED
    BY <1>2, FS_CardinalityType

\* A request that does not move counts where it counted.
LEMMA OthersStay ==
  ASSUME NEW q, NEW g, pc'[q] = pc[q], pos'[q] = pos[q], todo'[q] = todo[q]
  PROVE  Counted(q, g)' <=> Counted(q, g)
  BY DEF Counted

\* No step that only takes leases away exceeds a cap.
LEMMA FewerHolders ==
  ASSUME CapHeld, faults' = 0 => faults = 0,
         \A g \in Gauges : Holders(g)' \subseteq Holders(g)
  PROVE  CapHeld'
  <1> SUFFICES ASSUME faults' = 0, NEW g \in Gauges
               PROVE  Cardinality(Holders(g)') <= Cap[g]
    BY DEF CapHeld
  <1>1. Cardinality(Holders(g)) <= Cap[g] /\ Cap[g] \in Nat
    BY DEF CapHeld, AdmissionAssumption
  <1>2. IsFiniteSet(Holders(g)) /\ Cardinality(Holders(g)) \in Nat
    BY HoldersFinite
  <1>3. IsFiniteSet(Holders(g)') /\ Cardinality(Holders(g)') <= Cardinality(Holders(g))
    BY <1>2, FS_Subset
  <1>4. Cardinality(Holders(g)') \in Nat
    BY <1>3, FS_CardinalityType
  <1> QED
    BY <1>1, <1>2, <1>3, <1>4

\* A gauge goes up with one request that starts to count in it.
LEMMA OneMore ==
  ASSUME TypeOK, GaugesExact, NEW r \in Requests, NEW g \in Gauges,
         faults = 0, UNCHANGED crashes, wiping' = {}, degraded' = {},
         count' = [count EXCEPT ![Redis][g] = @ + 1],
         r \notin Counting(g), Counting(g)' = Counting(g) \cup {r},
         \A h \in Gauges \ {g} : Counting(h)' = Counting(h)
  PROVE  GaugesExact'
  <1> SUFFICES ASSUME NEW h \in Gauges
               PROVE  /\ count'[Redis][h] >= Cardinality(Counting(h)')
                      /\ crashes = 0 => count'[Redis][h] = Cardinality(Counting(h)')
    BY DEF GaugesExact
  <1>1. /\ count[Redis][h] >= Cardinality(Counting(h))
        /\ crashes = 0 => count[Redis][h] = Cardinality(Counting(h))
        /\ h \in Names /\ Redis \in Stores /\ count[Redis][h] \in Int
        /\ Cardinality(Counting(h)) \in Nat
    BY CountingFinite DEF GaugesExact, TypeOK, Stores, Names
  <1>2. CASE h = g
    <2>1. Cardinality(Counting(h)') = Cardinality(Counting(h)) + 1
      <3>1. IsFiniteSet(Counting(g))
        BY CountingFinite
      <3>2. Cardinality(Counting(g) \cup {r}) = Cardinality(Counting(g)) + 1
        BY <3>1, FS_AddElement
      <3> QED
        BY <1>2, <3>2
    <2>2. count'[Redis][h] = count[Redis][h] + 1
      BY <1>1, <1>2 DEF TypeOK
    <2> QED
      BY <1>1, <2>1, <2>2
  <1>3. CASE h # g
    <2>1. Counting(h)' = Counting(h)
      BY <1>3
    <2>2. count'[Redis][h] = count[Redis][h]
      BY <1>1, <1>3 DEF TypeOK
    <2> QED
      BY <1>1, <2>1, <2>2
  <1> QED
    BY <1>2, <1>3

\* A gauge goes down with one request that stops to count in it.
LEMMA OneLess ==
  ASSUME TypeOK, GaugesExact, NEW r \in Requests, NEW g \in Gauges,
         faults = 0, UNCHANGED crashes, wiping' = {}, degraded' = {},
         count' = [count EXCEPT ![Redis][g] = @ + -1],
         r \in Counting(g), Counting(g)' = Counting(g) \ {r},
         \A h \in Gauges \ {g} : Counting(h)' = Counting(h)
  PROVE  GaugesExact'
  <1> SUFFICES ASSUME NEW h \in Gauges
               PROVE  /\ count'[Redis][h] >= Cardinality(Counting(h)')
                      /\ crashes = 0 => count'[Redis][h] = Cardinality(Counting(h)')
    BY DEF GaugesExact
  <1>1. /\ count[Redis][h] >= Cardinality(Counting(h))
        /\ crashes = 0 => count[Redis][h] = Cardinality(Counting(h))
        /\ h \in Names /\ Redis \in Stores /\ count[Redis][h] \in Int
        /\ Cardinality(Counting(h)) \in Nat
    BY CountingFinite DEF GaugesExact, TypeOK, Stores, Names
  <1>2. CASE h = g
    <2>1. Cardinality(Counting(h)') = Cardinality(Counting(h)) - 1
      <3>1. IsFiniteSet(Counting(g))
        BY CountingFinite
      <3>2. Cardinality(Counting(g) \ {r}) = Cardinality(Counting(g)) - 1
        BY <3>1, FS_RemoveElement
      <3> QED
        BY <1>2, <3>2
    <2>2. count'[Redis][h] = count[Redis][h] - 1
      BY <1>1, <1>2 DEF TypeOK
    <2> QED
      BY <1>1, <2>1, <2>2
  <1>3. CASE h # g
    <2>1. Counting(h)' = Counting(h)
      BY <1>3
    <2>2. count'[Redis][h] = count[Redis][h]
      BY <1>1, <1>3 DEF TypeOK
    <2> QED
      BY <1>1, <2>1, <2>2
  <1> QED
    BY <1>2, <1>3

\* No request counts anywhere else than before.
LEMMA SameCounting ==
  ASSUME GaugesExact, faults' = 0 => faults = 0 /\ wiping' = {} /\ degraded' = {},
         UNCHANGED crashes,
         \A g \in Gauges : Counting(g)' = Counting(g) /\ count'[Redis][g] = count[Redis][g]
  PROVE  GaugesExact'
  BY DEF GaugesExact

-----------------------------------------------------------------------------
\* Counts are never below zero while no call has failed.
LEMMA NotNegative ==
  ASSUME TypeOK, GaugesExact, faults = 0, NEW g \in Gauges
  PROVE  count[Redis][g] \in Nat /\ (Counting(g) # {} => count[Redis][g] > 0)
  <1>1. count[Redis][g] \in Int /\ count[Redis][g] >= Cardinality(Counting(g))
    BY DEF TypeOK, Stores, Names, GaugesExact
  <1>2. /\ Cardinality(Counting(g)) \in Nat
        /\ Counting(g) # {} => Cardinality(Counting(g)) # 0
    BY CountingFinite, FS_EmptySet
  <1> QED
    BY <1>1, <1>2

\* Faults never go down.
LEMMA FaultsGrow ==
  ASSUME TypeOK, NEW r \in Requests, NEW g \in Gauges, NEW d \in {1, -1},
         Asked(r, g, d), faults' = 0
  PROVE  faults = 0
  BY DEF TypeOK, Asked, SetZero, Adjust, Shared, Local, Fails

LEMMA LeaseKeeps ==
  ASSUME IInv, NEW r \in Requests, Lease(r)
  PROVE  GaugesExact' /\ CapHeld'
  <1>0. CASE faults' # 0
    BY <1>0 DEF GaugesExact, CapHeld
  <1> SUFFICES ASSUME faults' = 0
               PROVE  GaugesExact' /\ CapHeld'
    BY <1>0
  <1>1. /\ pc[r] = "lease" /\ pos[r] \in 1..Len(Leases[r]) /\ pos[r] \in Nat \ {0}
        /\ Len(Leases[r]) \in Nat /\ DOMAIN Leases[r] = 1..Len(Leases[r])
        /\ Leases[r] \in Seq(Gauges) /\ NoRepeat(Leases[r])
        /\ Leases[r][pos[r]] \in Gauges
    BY ListsOf DEF Lease, IInv, LoopsSound, TypeOK, AdmissionAssumption
  <1> PICK g \in Gauges : g = Leases[r][pos[r]]
    BY <1>1
  <1>2. /\ Undone(r) \in Seq(Gauges)
        /\ \A h : In(h, Undone(r)) <=> h = g \/ \E j \in 1..(pos[r] - 1) : Leases[r][j] = h
    BY <1>1, UndoneIs
  <1>3. Asked(r, g, 1)
    BY DEF Lease
  <1>4. faults = 0
    BY <1>1, <1>3, FaultsGrow DEF IInv
  <1>5. count[Redis][g] \in Nat
    BY <1>1, <1>4, NotNegative DEF IInv
  <1>6. /\ wiping' = {} /\ degraded' = {}
        /\ count' = [count EXCEPT ![Redis][g] = @ + 1]
        /\ Answer(Home[r], g) = count[Redis][g] + 1
    BY <1>1, <1>3, <1>5, NoFault DEF IInv
  <1>7. /\ UNCHANGED crashes
        /\ \/ /\ pc' = [pc EXCEPT ![r] = "undo"]
              /\ todo' = [todo EXCEPT ![r] = Undone(r)]
              /\ UNCHANGED pos
           \/ /\ ~Denied(Answer(Home[r], g), Cap[g])
              /\ pos' = [pos EXCEPT ![r] = @ + 1]
              /\ pc' = [pc EXCEPT ![r] = IF pos[r] = Len(Leases[r]) THEN "run" ELSE "lease"]
              /\ UNCHANGED todo
    BY <1>6 DEF Lease, Goto
  <1>8. \A h : \A q \in Requests \ {r} : Counted(q, h)' <=> Counted(q, h)
    BY <1>7, OthersStay DEF IInv, TypeOK
  <1>9. \A h : Counted(r, h) <=> \E j \in 1..(pos[r] - 1) : Leases[r][j] = h
    BY <1>1 DEF Counted
  <1>10. \A h : Counted(r, h)' <=> h = g \/ Counted(r, h)
    <2> TAKE h
    <2>1. CASE /\ pc' = [pc EXCEPT ![r] = "undo"]
               /\ todo' = [todo EXCEPT ![r] = Undone(r)]
      <3>1. pc'[r] = "undo" /\ todo'[r] = Undone(r)
        BY <2>1 DEF IInv, TypeOK
      <3>2. Counted(r, h)' <=> In(h, Undone(r))
        BY <3>1 DEF Counted, In
      <3> QED
        BY <1>2, <1>9, <3>2
    <2>2. CASE /\ pos' = [pos EXCEPT ![r] = @ + 1]
               /\ pc' = [pc EXCEPT ![r] = IF pos[r] = Len(Leases[r]) THEN "run" ELSE "lease"]
      <3>1. pos'[r] = pos[r] + 1 /\ pc'[r] = IF pos[r] = Len(Leases[r]) THEN "run" ELSE "lease"
        BY <2>2 DEF IInv, TypeOK
      <3>2. Counted(r, h)' <=> \E j \in 1..pos[r] : Leases[r][j] = h
        <4>1. CASE pos[r] = Len(Leases[r])
          BY <1>1, <3>1, <4>1 DEF Counted
        <4>2. CASE pos[r] # Len(Leases[r])
          <5>1. pc'[r] = "lease" /\ pos'[r] - 1 = pos[r]
            BY <1>1, <3>1, <4>2
          <5> QED
            BY <5>1 DEF Counted
        <4> QED
          BY <4>1, <4>2
      <3>3. \A j \in 1..pos[r] : j = pos[r] \/ j \in 1..(pos[r] - 1)
        BY <1>1
      <3>4. pos[r] \in 1..pos[r] /\ \A j \in 1..(pos[r] - 1) : j \in 1..pos[r]
        BY <1>1
      <3> QED
        BY <1>9, <3>2, <3>3, <3>4
    <2> QED
      BY <1>7, <2>1, <2>2
  <1>11. ~Counted(r, g)
    <2>1. ASSUME NEW j \in 1..(pos[r] - 1), Leases[r][j] = g
          PROVE  FALSE
      <3>1. j \in DOMAIN Leases[r] /\ pos[r] \in DOMAIN Leases[r] /\ j # pos[r]
        BY <1>1
      <3> QED
        BY <1>1, <2>1, <3>1 DEF NoRepeat
    <2> QED
      BY <1>9, <2>1
  <1>12. /\ r \notin Counting(g) /\ Counting(g)' = Counting(g) \cup {r}
         /\ \A h \in Gauges \ {g} : Counting(h)' = Counting(h)
    <2>1. r \notin Counting(g)
      BY <1>11 DEF Counting
    <2>2. Counting(g)' = Counting(g) \cup {r}
      BY <1>8, <1>10 DEF Counting
    <2>3. ASSUME NEW h \in Gauges \ {g}
          PROVE  Counting(h)' = Counting(h)
      BY <1>8, <1>10 DEF Counting
    <2> QED
      BY <2>1, <2>2, <2>3
  <1>13. GaugesExact'
    BY <1>1, <1>4, <1>6, <1>7, <1>12, OneMore DEF IInv
  <1>14. CapHeld'
    <2>1. CASE pc' = [pc EXCEPT ![r] = "undo"]
      <3>1. \A h \in Gauges : Holders(h)' \subseteq Holders(h)
        BY <1>8, <2>1 DEF Holders, Counting, IInv, TypeOK
      <3> QED
        BY <1>4, <3>1, FewerHolders DEF IInv
    <2>2. CASE /\ ~Denied(Answer(Home[r], g), Cap[g])
               /\ pc' = [pc EXCEPT ![r] = IF pos[r] = Len(Leases[r]) THEN "run" ELSE "lease"]
      <3> SUFFICES ASSUME NEW h \in Gauges
                   PROVE  Cardinality(Holders(h)') <= Cap[h]
        BY DEF CapHeld
      <3>1. CASE h = g
        <4>1. count[Redis][g] + 1 <= Cap[g] /\ Cap[g] \in Nat
          BY <1>1, <1>5, <1>6, <2>2 DEF Denied, AdmissionAssumption
        <4>2. count'[Redis][g] = count[Redis][g] + 1
          BY <1>1, <1>6 DEF IInv, TypeOK, Stores, Names
        <4>3. /\ Cardinality(Holders(g)') <= Cardinality(Counting(g)')
              /\ Cardinality(Holders(g)') \in Nat /\ Cardinality(Counting(g)') \in Nat
          <5>1. Holders(g)' \subseteq Counting(g)'
            BY DEF Holders
          <5>2. IsFiniteSet(Counting(g)')
            BY <1>12, CountingFinite, FS_AddElement
          <5> QED
            BY <5>1, <5>2, FS_Subset, FS_CardinalityType
        <4>4. count'[Redis][g] >= Cardinality(Counting(g)')
          BY <1>1, <1>13 DEF GaugesExact
        <4> QED
          BY <1>5, <3>1, <4>1, <4>2, <4>3, <4>4
      <3>2. CASE h # g
        <4>1. pc'[r] # "undo" /\ \A q \in Requests \ {r} : pc'[q] = pc[q]
          BY <2>2 DEF IInv, TypeOK
        <4>2. Holders(h)' = Holders(h)
          BY <1>1, <1>12, <3>2, <4>1 DEF Holders, Counting
        <4> QED
          BY <1>4, <4>2 DEF IInv, CapHeld
      <3> QED
        BY <3>1, <3>2
    <2> QED
      BY <1>7, <2>1, <2>2
  <1> QED
    BY <1>13, <1>14

LEMMA GiveBackKeeps ==
  ASSUME IInv, NEW r \in Requests, GiveBack(r)
  PROVE  GaugesExact' /\ CapHeld'
  <1>0. CASE faults' # 0
    BY <1>0 DEF GaugesExact, CapHeld
  <1> SUFFICES ASSUME faults' = 0
               PROVE  GaugesExact' /\ CapHeld'
    BY <1>0
  <1>1. todo[r] \in Seq(Gauges) /\ todo[r] # <<>> /\ NoRepeat(todo[r]) /\ pc[r] \in {"undo", "exit"}
    BY DEF GiveBack, IInv, LoopsSound, TypeOK
  <1> PICK g \in Gauges : g = Head(todo[r])
    BY <1>1, TailIs
  <1>2. /\ In(g, todo[r]) /\ Len(Tail(todo[r])) = Len(todo[r]) - 1
        /\ Tail(todo[r]) \in Seq(Gauges)
        /\ \A h : In(h, Tail(todo[r])) <=> In(h, todo[r]) /\ h # g
    BY <1>1, TailIs
  <1>3. Asked(r, g, -1)
    BY DEF GiveBack
  <1>4. faults = 0
    BY <1>2, <1>3, FaultsGrow DEF IInv
  <1>5. \A h : Counted(r, h) <=> In(h, todo[r])
    BY <1>1 DEF Counted, In
  <1>6. r \in Counting(g)
    BY <1>2, <1>5 DEF Counting
  <1>7. count[Redis][g] \in Nat /\ count[Redis][g] > 0
    BY <1>2, <1>4, <1>6, NotNegative DEF IInv
  <1>8. /\ wiping' = {} /\ degraded' = {}
        /\ count' = [count EXCEPT ![Redis][g] = @ + -1]
    <2>1. count[Redis][g] + -1 >= 0
      BY <1>7
    <2> QED
      BY <1>3, <2>1, NoFault DEF IInv
  <1>9. /\ UNCHANGED <<crashes, pos>>
        /\ todo' = [todo EXCEPT ![r] = Tail(@)]
        /\ \/ Len(todo[r]) > 1 /\ UNCHANGED pc
           \/ /\ ~(Len(todo[r]) > 1)
              /\ pc' = [pc EXCEPT ![r] = IF pc[r] = "undo" THEN "refused" ELSE "done"]
    BY <1>8 DEF GiveBack, Goto
  <1>10. \A q \in Requests \ {r} : pc'[q] = pc[q] /\ todo'[q] = todo[q] /\ pos'[q] = pos[q]
    BY <1>9 DEF IInv, TypeOK
  <1>11. \A h : \A q \in Requests \ {r} : Counted(q, h)' <=> Counted(q, h)
    BY <1>10, OthersStay
  <1>12. \A h : Counted(r, h)' <=> Counted(r, h) /\ h # g
    <2> TAKE h
    <2>1. todo'[r] = Tail(todo[r])
      BY <1>9 DEF IInv, TypeOK
    <2>2. CASE UNCHANGED pc
      <3>1. Counted(r, h)' <=> In(h, Tail(todo[r]))
        BY <1>1, <2>1, <2>2 DEF Counted, In
      <3> QED
        BY <1>2, <1>5, <3>1
    <2>3. CASE /\ ~(Len(todo[r]) > 1)
               /\ pc' = [pc EXCEPT ![r] = IF pc[r] = "undo" THEN "refused" ELSE "done"]
      <3>1. pc'[r] \in {"refused", "done"}
        BY <1>1, <2>3 DEF IInv, TypeOK
      <3>2. ~Counted(r, h)'
        BY <3>1 DEF Counted
      <3>3. ~In(h, Tail(todo[r]))
        <4>1. /\ Len(Tail(todo[r])) \in Nat /\ Len(todo[r]) \in Nat
              /\ DOMAIN Tail(todo[r]) = 1..Len(Tail(todo[r]))
          BY <1>1, <1>2, SeqDomain
        <4>2. Len(Tail(todo[r])) <= 0
          BY <1>2, <2>3, <4>1
        <4>3. 1..Len(Tail(todo[r])) = {}
          BY <4>1, <4>2
        <4> QED
          BY <4>1, <4>3 DEF In
      <3> QED
        BY <1>2, <1>5, <3>2, <3>3
    <2> QED
      BY <1>9, <2>2, <2>3
  <1>13. /\ Counting(g)' = Counting(g) \ {r}
         /\ \A h \in Gauges \ {g} : Counting(h)' = Counting(h)
    BY <1>11, <1>12 DEF Counting
  <1>14. GaugesExact'
    BY <1>2, <1>4, <1>6, <1>8, <1>9, <1>13, OneLess DEF IInv
  <1>15. \A h \in Gauges : Holders(h)' \subseteq Holders(h)
    <2>1. pc'[r] # "undo" => pc[r] # "undo" \/ \A h : ~Counted(r, h)'
      BY <1>1, <1>9 DEF Counted, IInv, TypeOK
    <2> QED
      BY <1>10, <1>11, <1>12, <2>1 DEF Holders, Counting
  <1> QED
    BY <1>4, <1>14, <1>15, FewerHolders DEF IInv

\* The other steps of a request move it where it counts as before.
LEMMA QuietKeeps ==
  ASSUME IInv, NEW r \in Requests, Enter(r) \/ Check(r) \/ Acquire(r) \/ Answered(r)
  PROVE  GaugesExact' /\ CapHeld'
  <1>1. \A q \in Requests \ {r} : pc'[q] = pc[q] /\ todo'[q] = todo[q] /\ pos'[q] = pos[q]
    BY DEF Enter, Check, Acquire, Answered, Goto, IInv, TypeOK
  <1>2. \A h : \A q \in Requests \ {r} : Counted(q, h)' <=> Counted(q, h)
    BY <1>1, OthersStay
  <1>3. \A h : Counted(r, h)' <=> Counted(r, h)
    <2> TAKE h
    <2>1. CASE Enter(r) \/ Check(r)
      <3>1. pc[r] \in {"new", "check"} /\ pc'[r] \in {"slot", "check", "refused"}
        BY <2>1 DEF Enter, Check, Goto, IInv, TypeOK
      <3> QED
        BY <3>1 DEF Counted
    <2>2. CASE Acquire(r)
      <3>1. /\ pc[r] = "slot"
            /\ \/ pc'[r] = "refused"
               \/ pc'[r] = "lease" /\ pos'[r] = 1
               \/ pc'[r] = "run" /\ Leases[r] = <<>>
        BY <2>2 DEF Acquire, Goto, IInv, TypeOK
      <3>2. CASE pc'[r] = "run" /\ Leases[r] = <<>>
        <4>1. DOMAIN Leases[r] = {}
          BY <3>2
        <4> QED
          BY <3>1, <3>2, <4>1 DEF Counted
      <3>3. CASE pc'[r] = "lease" /\ pos'[r] = 1
        <4>1. 1..(pos'[r] - 1) = {}
          BY <3>3
        <4> QED
          BY <3>1, <3>3, <4>1 DEF Counted
      <3> QED
        BY <3>1, <3>2, <3>3 DEF Counted
    <2>3. CASE Answered(r)
      <3>1. /\ pc[r] = "run" /\ todo'[r] = Leases[r]
            /\ pc'[r] = IF Leases[r] = <<>> THEN "done" ELSE "exit"
        BY <2>3 DEF Answered, Goto, IInv, TypeOK
      <3>2. CASE Leases[r] = <<>>
        <4>1. DOMAIN Leases[r] = {}
          BY <3>2
        <4> QED
          BY <3>1, <3>2, <4>1 DEF Counted
      <3>3. CASE Leases[r] # <<>>
        BY <3>1, <3>3 DEF Counted
      <3> QED
        BY <3>2, <3>3
    <2> QED
      BY <2>1, <2>2, <2>3
  <1>4. \A h : Counting(h)' = Counting(h)
    BY <1>2, <1>3 DEF Counting
  <1>5. \A h \in Gauges : Holders(h)' \subseteq Holders(h)
    <2>1. pc[r] # "undo"
      BY DEF Enter, Check, Acquire, Answered
    <2> QED
      BY <1>1, <1>4, <2>1 DEF Holders, Counting
  <1>6. /\ UNCHANGED crashes
        /\ faults' = 0 => faults = 0 /\ wiping' = wiping /\ (degraded = {} => degraded' = {})
        /\ faults' = 0 /\ degraded = {} => \A h \in Gauges : count'[Redis][h] = count[Redis][h]
    <2>1. CASE Enter(r) \/ Acquire(r) \/ Answered(r)
      BY <2>1 DEF Enter, Acquire, Answered
    <2>2. CASE Check(r)
      <3>1. PICK c \in Counters : Adjust(Home[r], c, 1)
        BY <2>2, ListsOf DEF Check, IInv, LoopsSound, TypeOK
      <3>2. UNCHANGED <<crashes, wiping>> /\ faults \in Nat
        BY <2>2 DEF Check, IInv, TypeOK
      <3>3. faults' = 0 => faults = 0 /\ (Shared(Home[r], c, 1) \/ Local(Home[r], c, 1))
        BY <3>1, <3>2 DEF Adjust, Shared, Local, Fails
      <3>4. faults' = 0 /\ degraded = {} => Shared(Home[r], c, 1)
        BY <3>3 DEF Local
      <3>5. \A h \in Gauges : h # c
        BY DEF AdmissionAssumption
      <3>6. Shared(Home[r], c, 1) => \A h \in Gauges : count'[Redis][h] = count[Redis][h]
        <4>1. ASSUME Shared(Home[r], c, 1), NEW h \in Gauges
              PROVE  count'[Redis][h] = count[Redis][h]
          <5>1. count' = [count EXCEPT ![Redis][c] = @ + 1] /\ h # c
            BY <3>5, <4>1 DEF Shared, Add
          <5>2. Redis \in Stores /\ h \in Names /\ count \in [Stores -> [Names -> Int]]
            BY DEF Stores, Names, IInv, TypeOK
          <5> QED
            BY <5>1, <5>2
        <4> QED
          BY <4>1
      <3>7. Shared(Home[r], c, 1) /\ degraded = {} => degraded' = {}
        BY DEF Shared
      <3> QED
        BY <3>2, <3>3, <3>4, <3>6, <3>7
    <2> QED
      BY <2>1, <2>2
  <1>7. GaugesExact'
    BY <1>4, <1>6 DEF IInv, GaugesExact
  <1> QED
    BY <1>5, <1>6, <1>7, FewerHolders DEF IInv

\* A replica that dies takes its requests out of the count, not out of Redis.
LEMMA CrashKeeps ==
  ASSUME IInv, NEW p \in Replicas, Crash(p)
  PROVE  GaugesExact' /\ CapHeld'
  <1>1. \A h : \A q \in Requests : Counted(q, h)' => Counted(q, h) /\ pc'[q] = pc[q]
    <2> TAKE h
    <2> TAKE q \in Requests
    <2>1. pos'[q] = pos[q] /\ todo'[q] = todo[q] /\ pc'[q] \in {pc[q], "dead"}
      BY DEF Crash, IInv, TypeOK
    <2>2. CASE pc'[q] = "dead"
      BY <2>2 DEF Counted
    <2>3. CASE pc'[q] = pc[q]
      BY <2>1, <2>3 DEF Counted
    <2> QED
      BY <2>1, <2>2, <2>3
  <1>2. \A h : Counting(h)' \subseteq Counting(h)
    BY <1>1 DEF Counting
  <1>3. \A h \in Gauges : Holders(h)' \subseteq Holders(h)
    BY <1>1 DEF Holders, Counting
  <1>4. CapHeld'
    BY <1>3, FewerHolders DEF IInv, Crash
  <1>5. GaugesExact'
    <2> SUFFICES ASSUME faults = 0
                 PROVE  GaugesExact'
      BY DEF GaugesExact, Crash
    <2>1. wiping' = {} /\ degraded' = {}
      BY DEF GaugesExact, Crash, IInv
    <2>2. crashes' # 0
      BY DEF Crash, IInv, TypeOK
    <2>3. ASSUME NEW h \in Gauges
          PROVE  count'[Redis][h] >= Cardinality(Counting(h)')
      <3>1. /\ count'[Redis][h] = count[Redis][h] /\ count[Redis][h] \in Int
            /\ count[Redis][h] >= Cardinality(Counting(h))
        BY DEF Crash, IInv, TypeOK, GaugesExact, Stores, Names
      <3>2. IsFiniteSet(Counting(h)) /\ Cardinality(Counting(h)) \in Nat
        BY CountingFinite
      <3>3. IsFiniteSet(Counting(h)') /\ Cardinality(Counting(h)') <= Cardinality(Counting(h))
        BY <1>2, <3>2, FS_Subset
      <3>4. Cardinality(Counting(h)') \in Nat
        BY <3>3, FS_CardinalityType
      <3> QED
        BY <3>1, <3>2, <3>3, <3>4
    <2> QED
      BY <2>1, <2>2, <2>3 DEF GaugesExact
  <1> QED
    BY <1>4, <1>5

\* A TTL that ends, and the next window.
LEMMA ClockKeeps ==
  ASSUME IInv, NextWindow \/ \E g \in Gauges : Expire(g)
  PROVE  GaugesExact' /\ CapHeld'
  <1>1. UNCHANGED <<pc, pos, todo, wiping, degraded, faults, crashes>>
    BY DEF NextWindow, Expire, path
  <1>2. \A h : Counting(h)' = Counting(h) /\ Holders(h)' = Holders(h)
    BY <1>1 DEF Counting, Holders, Counted
  <1>3. CapHeld'
    BY <1>1, <1>2 DEF IInv, CapHeld
  <1>4. GaugesExact'
    <2>1. CASE NextWindow
      <3>1. \A h \in Gauges : count'[Redis][h] = count[Redis][h]
        BY <2>1 DEF NextWindow, Stores, Names, AdmissionAssumption
      <3> QED
        BY <1>1, <1>2, <3>1 DEF IInv, GaugesExact
    <2>2. ASSUME NEW g \in Gauges, Expire(g)
          PROVE  GaugesExact'
      <3> SUFFICES ASSUME NEW h \in Gauges, faults = 0
                   PROVE  /\ count'[Redis][h] >= Cardinality(Counting(h))
                          /\ crashes = 0 => count'[Redis][h] = Cardinality(Counting(h))
        BY <1>1, <1>2 DEF IInv, GaugesExact
      <3>1. CASE h = g
        <4>1. count'[Redis][h] = 0
          BY <2>2, <3>1 DEF Expire, IInv, TypeOK, Stores, Names
        <4>2. Cardinality(Counting(h)) = 0
          BY <2>2, <3>1, FS_EmptySet DEF Expire
        <4> QED
          BY <4>1, <4>2
      <3>2. CASE h # g
        <4>1. count'[Redis][h] = count[Redis][h]
          BY <2>2, <3>2 DEF Expire, IInv, TypeOK, Stores, Names
        <4> QED
          BY <4>1 DEF IInv, GaugesExact
      <3> QED
        BY <3>1, <3>2
    <2> QED
      BY <2>1, <2>2
  <1> QED
    BY <1>3, <1>4

-----------------------------------------------------------------------------
LEMMA InitInv == Init => IInv
  <1> SUFFICES ASSUME Init
               PROVE  IInv
    OBVIOUS
  <1>1. TypeOK
    BY DEF Init, TypeOK, Points, Names, Stores
  <1>2. LoopsSound
    BY DEF Init, LoopsSound
  <1>3. \A g : Counting(g) = {} /\ Holders(g) = {}
    BY DEF Init, Counting, Holders, Counted
  <1>4. GaugesExact
    <2>1. \A g \in Gauges : count[Redis][g] = 0 /\ Cardinality(Counting(g)) = 0
      BY <1>3, FS_EmptySet DEF Init, Stores, Names
    <2>2. wiping = {} /\ degraded = {}
      BY DEF Init
    <2>3. \A g \in Gauges : count[Redis][g] >= Cardinality(Counting(g))
      BY <2>1
    <2> QED
      BY <2>1, <2>2, <2>3 DEF GaugesExact
  <1>5. CapHeld
    <2>1. ASSUME NEW g \in Gauges
          PROVE  Cardinality(Holders(g)) <= Cap[g]
      <3>1. Cardinality(Holders(g)) = 0
        BY <1>3, FS_EmptySet
      <3>2. Cap[g] \in Nat
        BY DEF AdmissionAssumption
      <3> QED
        BY <3>1, <3>2
    <2> QED
      BY <2>1 DEF CapHeld
  <1> QED
    BY <1>1, <1>2, <1>4, <1>5 DEF IInv

LEMMA NextInv == IInv /\ [Next]_vars => IInv'
  <1> SUFFICES ASSUME IInv, [Next]_vars
               PROVE  IInv'
    OBVIOUS
  <1>1. TypeOK' /\ LoopsSound'
    BY Sound DEF IInv
  <1>2. GaugesExact' /\ CapHeld'
    <2>1. ASSUME NEW r \in Requests, Step(r)
          PROVE  GaugesExact' /\ CapHeld'
      BY <2>1, LeaseKeeps, GiveBackKeeps, QuietKeeps DEF Step
    <2>2. CASE UNCHANGED vars
      <3>1. \A h : Counting(h)' = Counting(h) /\ Holders(h)' = Holders(h)
        BY <2>2 DEF vars, Counting, Holders, Counted
      <3> QED
        BY <2>2, <3>1 DEF vars, IInv, GaugesExact, CapHeld
    <2> QED
      BY <2>1, <2>2, CrashKeeps, ClockKeeps DEF Next
  <1> QED
    BY <1>1, <1>2 DEF IInv

\* The inductive invariant.
THEOREM Invariance == Spec => []IInv
  BY InitInv, NextInv, PTL DEF Spec

\* Every reachable state of the middleware and its stores is well typed.
THEOREM TypeCorrect == Spec => []TypeOK
  <1>1. IInv => TypeOK
    BY DEF IInv
  <1> QED
    BY <1>1, Invariance, PTL

\* While no call to Redis has failed, a gauge of Redis is the number of requests
\* that count in it (at least that many after a crash): try_acquire_gauges and
\* release_gauges take and give back each gauge once, on every path.
THEOREM GaugesCount == Spec => []GaugesExact
  <1>1. IInv => GaugesExact
    BY DEF IInv
  <1> QED
    BY <1>1, Invariance, PTL

\* While no call to Redis has failed, no key, team or model has more requests in
\* flight on all replicas together than its max_in_flight.
THEOREM CapsHold == Spec => []CapHeld
  <1>1. IInv => CapHeld
    BY DEF IInv
  <1> QED
    BY <1>1, Invariance, PTL

-----------------------------------------------------------------------------
(***************************************************************************)
(* LimitHeld says nothing of the counts, so it is not inductive. A request *)
(* that passes a counter draws a ticket: the store that counted it, and    *)
(* the count it was answered. A store of which a count was taken is Redis  *)
(* or had an outage in this window, the count was within the limit, and    *)
(* no two requests draw the same ticket, because within a window no count  *)
(* of a store goes down. There are as many tickets as LimitHeld allows.    *)
(***************************************************************************)
Sharers == {Redis} \cup outage

Tickets(c) == Sharers \X (1..Limit[c])

\* t is a way to draw the tickets of counter c.
Drawn(c, t) ==
    /\ t \in [passed[c] -> Tickets(c)]
    /\ \A r, q \in passed[c] : t[r] = t[q] => r = q
    /\ \A r \in passed[c] : t[r][2] <= count[t[r][1]][c]

LimitInv ==
    /\ degraded \subseteq outage
    /\ \A s \in Stores, c \in Counters : count[s][c] >= 0
    /\ ~fail_open => \A c \in Counters : \E t : Drawn(c, t)

\* There are enough tickets for as many requests as LimitHeld allows, and no more.
LEMMA EnoughTickets ==
  ASSUME TypeOK, NEW c \in Counters, NEW t, Drawn(c, t)
  PROVE  Cardinality(passed[c]) <= Limit[c] * (1 + Cardinality(outage))
  <1>1. IsFiniteSet(outage) /\ Redis \notin outage /\ Limit[c] \in Nat \ {0}
    BY FS_Subset DEF TypeOK, AdmissionAssumption
  <1>2. IsFiniteSet(Sharers) /\ Cardinality(Sharers) = Cardinality(outage) + 1
    <2>1. Sharers = outage \cup {Redis}
      BY DEF Sharers
    <2> QED
      BY <1>1, <2>1, FS_AddElement
  <1>3. IsFiniteSet(1..Limit[c]) /\ Cardinality(1..Limit[c]) = Limit[c]
    <2>1. 1 \in Int /\ Limit[c] \in Int /\ ~(1 > Limit[c]) /\ Limit[c] - 1 + 1 = Limit[c]
      BY <1>1
    <2> QED
      BY <2>1, FS_Interval
  <1>4. IsFiniteSet(Tickets(c))
        /\ Cardinality(Tickets(c)) = Cardinality(Sharers) * Cardinality(1..Limit[c])
    BY <1>2, <1>3, FS_Product DEF Tickets
  <1>5. t \in Injection(passed[c], Tickets(c))
    BY DEF Drawn, Injection, IsInjective
  <1>6. Cardinality(passed[c]) <= Cardinality(Tickets(c))
    BY <1>4, <1>5, FS_Injection
  <1>7. Cardinality(outage) \in Nat
    BY <1>1, FS_CardinalityType
  <1>8. (Cardinality(outage) + 1) * Limit[c] = Limit[c] * (1 + Cardinality(outage))
    BY <1>1, <1>7
  <1> QED
    BY <1>2, <1>3, <1>4, <1>6, <1>8

\* No count goes down and nobody passes: the tickets stay.
LEMMA TicketsStay ==
  ASSUME TypeOK, NEW c \in Counters, NEW t, Drawn(c, t),
         passed'[c] = passed[c], outage \subseteq outage',
         \A s \in Stores : count[s][c] <= count'[s][c],
         \A s \in Stores : count[s][c] \in Int /\ count'[s][c] \in Int
  PROVE  Drawn(c, t)'
  <1>1. ASSUME NEW r \in passed[c]
        PROVE  t[r] \in Tickets(c) /\ t[r][1] \in Stores /\ t[r][2] \in Int
    BY <1>1 DEF Drawn, Tickets, Sharers, Stores, TypeOK
  <1>2. Tickets(c) \subseteq Tickets(c)'
    BY DEF Tickets, Sharers
  <1>3. t \in [passed'[c] -> Tickets(c)']
    BY <1>2 DEF Drawn
  <1>4. ASSUME NEW r \in passed[c] PROVE t[r][2] <= count'[t[r][1]][c]
    <2> DEFINE s == t[r][1]
               v == t[r][2]
    <2>1. s \in Stores /\ v \in Int /\ v <= count[s][c]
      BY <1>1 DEF Drawn
    <2> HIDE DEF s, v
    <2>2. v <= count'[s][c]
      BY <2>1
    <2> QED
      BY <2>2 DEF s, v
  <1> QED
    BY <1>3, <1>4 DEF Drawn

\* Store s counts once more, and the request that it answers draws this count.
LEMMA TicketDrawn ==
  ASSUME TypeOK, NEW c \in Counters, NEW t, Drawn(c, t), NEW r \in Requests,
         passed'[c] = passed[c] \cup {r}, outage \subseteq outage', outage' \subseteq Replicas,
         NEW s \in Stores, s \in Sharers', count[s][c] >= 0, count'[s][c] = count[s][c] + 1,
         count'[s][c] <= Limit[c],
         \A q \in Stores : count[q][c] <= count'[q][c],
         \A q \in Stores : count[q][c] \in Int /\ count'[q][c] \in Int
  PROVE  \E u : Drawn(c, u)'
  <1>1. CASE r \in passed[c]
    <2>1. passed'[c] = passed[c]
      BY <1>1
    <2> QED
      BY <2>1, TicketsStay
  <1>2. CASE r \notin passed[c]
    <2> DEFINE u == [q \in passed'[c] |-> IF q = r THEN <<s, count'[s][c]>> ELSE t[q]]
    <2>1. ASSUME NEW q \in passed[c]
          PROVE  /\ t[q] \in Tickets(c) /\ t[q][1] \in Stores /\ t[q][2] \in Int
                 /\ t[q][2] <= count[t[q][1]][c]
                 /\ u[q] = t[q]
      BY <1>2, <2>1 DEF Drawn, Tickets, Sharers, Stores, TypeOK
    <2>2. Tickets(c) \subseteq Tickets(c)'
      BY DEF Tickets, Sharers
    <2>3. Limit[c] \in Nat /\ u[r] = <<s, count'[s][c]>> /\ u[r] \in Tickets(c)'
      BY DEF Tickets, AdmissionAssumption
    <2>4. u \in [passed'[c] -> Tickets(c)']
      BY <2>1, <2>2, <2>3
    <2>5. ASSUME NEW q \in passed[c] PROVE u[q] # u[r]
      <3>1. SUFFICES ASSUME t[q] = <<s, count'[s][c]>> PROVE FALSE
        BY <2>1, <2>3
      <3>2. t[q][1] = s /\ t[q][2] = count[s][c] + 1
        BY <3>1
      <3>3. count[s][c] + 1 <= count[s][c] /\ count[s][c] \in Int
        BY <2>1, <3>2, Zenon
      <3> QED
        BY <3>3
    <2>6. ASSUME NEW q \in passed'[c], NEW p \in passed'[c], u[q] = u[p] PROVE q = p
      <3>0. q \in passed[c] \cup {r} /\ p \in passed[c] \cup {r}
        OBVIOUS
      <3> HIDE DEF u
      <3>1. CASE q = r \/ p = r
        BY <2>5, <2>6, <3>0, <3>1
      <3>2. CASE q \in passed[c] /\ p \in passed[c]
        BY <2>1, <2>6, <3>2 DEF Drawn
      <3> QED
        BY <3>0, <3>1, <3>2
    <2>7. ASSUME NEW q \in passed'[c] PROVE u[q][2] <= count'[u[q][1]][c]
      <3>1. CASE q = r
        BY <2>3, <3>1
      <3>2. CASE q \in passed[c]
        <4> DEFINE z == t[q][1]
                   v == t[q][2]
        <4>1. z \in Stores /\ v \in Int /\ v <= count[z][c] /\ u[q] = t[q]
          BY <2>1, <3>2
        <4> HIDE DEF z, v
        <4>2. v <= count'[z][c]
          BY <4>1
        <4> QED
          BY <4>1, <4>2 DEF z, v
      <3> QED
        BY <3>1, <3>2
    <2> HIDE DEF u
    <2> QED
      BY <2>4, <2>6, <2>7 DEF Drawn
  <1> QED
    BY <1>1, <1>2

\* What a call of p about k may change: the count of k at Redis and in the file
\* of p, which now counts for itself or does not.
LEMMA FallbackTouches ==
  ASSUME TypeOK, NEW p \in Replicas, NEW k \in Names, NEW d \in {1, -1}, NEW base,
         base \in {count, [count EXCEPT ![Redis][k] = @ + d]}, Fallback(p, k, d, base)
  PROVE  /\ \A s \in Stores, c \in Names \ {k} : count'[s][c] = count[s][c]
         /\ degraded' = degraded \cup {p} /\ outage' = outage \cup {p}
         /\ count'[Redis][k] \in {count[Redis][k], count[Redis][k] + d}
         /\ \A s \in Replicas : count'[s][k] = IF s = p /\ ~fail_open
                                               THEN AtLeastZero(count[s][k] + d)
                                               ELSE count[s][k]
  <1>1. /\ count \in [Stores -> [Names -> Int]]
        /\ p \in Stores /\ Redis \in Stores /\ Redis # p /\ Redis \notin Replicas
        /\ Replicas \subseteq Stores
    BY DEF TypeOK, Stores, AdmissionAssumption
  <1>2. /\ base \in [Stores -> [Names -> Int]]
        /\ \A s \in Stores, c \in Names \ {k} : base[s][c] = count[s][c]
        /\ \A s \in Replicas : base[s][k] = count[s][k]
        /\ base[Redis][k] \in {count[Redis][k], count[Redis][k] + d}
    <2>1. CASE base = count
      BY <1>1, <2>1
    <2>2. CASE base = [count EXCEPT ![Redis][k] = count[Redis][k] + d]
      <3>1. count[Redis][k] + d \in Int
        BY <1>1
      <3>2. base = [count EXCEPT ![Redis] = [count[Redis] EXCEPT ![k] = count[Redis][k] + d]]
        BY <2>2
      <3> QED
        BY <1>1, <3>1, <3>2
    <2> QED
      BY <2>1, <2>2
  <1>3. CASE fail_open
    BY <1>1, <1>2, <1>3 DEF Fallback
  <1>4. CASE ~fail_open
    <2>1. count' = [base EXCEPT ![p][k] = AtLeastZero(base[p][k] + d)]
      BY <1>4 DEF Fallback
    <2>2. \A s \in Stores, c \in Names :
             count'[s][c] = IF s = p /\ c = k THEN AtLeastZero(base[s][c] + d) ELSE base[s][c]
      BY <1>1, <1>2, <2>1
    <2> QED
      BY <1>1, <1>2, <1>4, <2>2 DEF Fallback
  <1> QED
    BY <1>3, <1>4

LEMMA SharedTouches ==
  ASSUME TypeOK, NEW p \in Replicas, NEW k \in Names, NEW d \in {1, -1}, Shared(p, k, d)
  PROVE  /\ \A s \in Stores, c \in Names \ {k} : count'[s][c] = count[s][c]
         /\ degraded' = degraded \ {p} /\ outage' = outage
         /\ count'[Redis][k] = count[Redis][k] + d
         /\ \A s \in Replicas : count'[s][k] = count[s][k]
  BY DEF Shared, Add, TypeOK, Stores, AdmissionAssumption

\* A call about a counter: the store that answers has counted one more, and no
\* store one less.
LEMMA CounterCalled ==
  ASSUME TypeOK, LimitInv, NEW p \in Replicas, NEW k \in Counters, Adjust(p, k, 1)
  PROVE  /\ \A s \in Stores, c \in Counters : count[s][c] <= count'[s][c]
         /\ degraded' \subseteq outage' /\ outage \subseteq outage'
         /\ ~fail_open => \E s \in Stores : /\ s \in Sharers'
                                            /\ count'[s][k] = count[s][k] + 1
                                            /\ Answer(p, k) = count'[s][k]
  <1>0. /\ k \in Names /\ Counters \subseteq Names /\ Redis \in Stores /\ Replicas \subseteq Stores
        /\ Stores = Replicas \cup {Redis} /\ p # Redis
        /\ \A s \in Stores, c \in Counters : count[s][c] \in Nat
    BY DEF Names, Stores, TypeOK, LimitInv, AdmissionAssumption
  <1>1. CASE Shared(p, k, 1)
    <2>1. /\ \A s \in Stores, c \in Names \ {k} : count'[s][c] = count[s][c]
          /\ degraded' = degraded \ {p} /\ outage' = outage
          /\ count'[Redis][k] = count[Redis][k] + 1
          /\ \A s \in Replicas : count'[s][k] = count[s][k]
      BY <1>0, <1>1, SharedTouches
    <2>2. Answer(p, k) = count'[Redis][k]
      BY <2>1 DEF Answer
    <2>3. \A s \in Stores : count[s][k] <= count'[s][k]
      BY <1>0, <2>1
    <2>4. ASSUME NEW s \in Stores, NEW c \in Counters PROVE count[s][c] <= count'[s][c]
      <3>1. CASE c # k
        BY <1>0, <2>1, <3>1
      <3> QED
        BY <2>3, <3>1
    <2> QED
      BY <1>0, <2>1, <2>2, <2>4 DEF Sharers, LimitInv
  <1>2. ASSUME NEW base \in {count, [count EXCEPT ![Redis][k] = @ + 1]}, Fallback(p, k, 1, base)
        PROVE  /\ \A s \in Stores, c \in Counters : count[s][c] <= count'[s][c]
               /\ degraded' \subseteq outage' /\ outage \subseteq outage'
               /\ ~fail_open => /\ p \in Sharers'
                                /\ count'[p][k] = count[p][k] + 1
                                /\ Answer(p, k) = count'[p][k]
    <2>1. /\ \A s \in Stores, c \in Names \ {k} : count'[s][c] = count[s][c]
          /\ degraded' = degraded \cup {p} /\ outage' = outage \cup {p}
          /\ count'[Redis][k] \in {count[Redis][k], count[Redis][k] + 1}
          /\ \A s \in Replicas : count'[s][k] = IF s = p /\ ~fail_open
                                                THEN AtLeastZero(count[s][k] + 1)
                                                ELSE count[s][k]
      BY <1>0, <1>2, FallbackTouches
    <2>2. \A s \in Replicas : AtLeastZero(count[s][k] + 1) = count[s][k] + 1
      BY <1>0 DEF AtLeastZero
    <2>3. ASSUME NEW s \in Stores PROVE count[s][k] <= count'[s][k]
      <3>1. count[s][k] \in Int
        BY <1>0
      <3>2. CASE s = Redis
        BY <2>1, <3>1, <3>2
      <3>3. CASE s \in Replicas
        <4>1. count'[s][k] \in {count[s][k], count[s][k] + 1}
          BY <2>1, <2>2, <3>3
        <4> QED
          BY <3>1, <4>1
      <3> QED
        BY <3>2, <3>3 DEF Stores
    <2>4. ASSUME NEW s \in Stores, NEW c \in Counters PROVE count[s][c] <= count'[s][c]
      <3>1. CASE c # k
        BY <1>0, <2>1, <3>1
      <3> QED
        BY <2>3, <3>1
    <2>5. ~fail_open => Answer(p, k) = count'[p][k]
      BY <2>1 DEF Answer
    <2> QED
      BY <2>1, <2>2, <2>4, <2>5 DEF Sharers, LimitInv
  <1>3. CASE Local(p, k, 1) \/ Fails(p, k, 1)
    <2>1. PICK base \in {count, [count EXCEPT ![Redis][k] = @ + 1]} : Fallback(p, k, 1, base)
      BY <1>3 DEF Local, Fails
    <2> QED
      BY <1>0, <1>2, <2>1
  <1> QED
    BY <1>1, <1>3 DEF Adjust

\* A call about a gauge leaves the counters.
LEMMA GaugeCalled ==
  ASSUME TypeOK, LimitInv, NEW r \in Requests, NEW g \in Gauges, NEW d \in {1, -1},
         Asked(r, g, d)
  PROVE  /\ \A s \in Stores, c \in Counters : count'[s][c] = count[s][c]
         /\ degraded' \subseteq outage' /\ outage \subseteq outage'
  <1>0. Home[r] \in Replicas /\ g \in Names /\ Counters \subseteq Names \ {g} /\ Redis \in Stores
    BY DEF Names, Stores, AdmissionAssumption
  <1>1. CASE r \in wiping /\ count' = [count EXCEPT ![Redis][g] = 0]
             /\ UNCHANGED <<degraded, outage, faults>>
    BY <1>0, <1>1 DEF TypeOK, LimitInv
  <1>2. CASE Shared(Home[r], g, d)
    BY <1>0, <1>2, SharedTouches DEF LimitInv
  <1>3. ASSUME NEW base \in {count, [count EXCEPT ![Redis][g] = @ + d]},
               Fallback(Home[r], g, d, base)
        PROVE  /\ \A s \in Stores, c \in Counters : count'[s][c] = count[s][c]
               /\ degraded' \subseteq outage' /\ outage \subseteq outage'
    BY <1>0, <1>3, FallbackTouches DEF LimitInv
  <1> QED
    BY <1>1, <1>2, <1>3 DEF Asked, SetZero, Adjust, Local, Fails

\* Nothing is counted in the window counters, and nobody passes.
LEMMA LimitUntouched ==
  ASSUME TypeOK, LimitInv, UNCHANGED <<passed, fail_open>>,
         \A s \in Stores, c \in Counters : count'[s][c] = count[s][c],
         degraded' \subseteq outage', outage \subseteq outage'
  PROVE  LimitInv'
  <1>1. \A s \in Stores, c \in Counters : count[s][c] \in Int
    BY DEF TypeOK, Names
  <1>2. ASSUME ~fail_open, NEW c \in Counters PROVE \E t : Drawn(c, t)'
    <2>1. PICK t : Drawn(c, t)
      BY <1>2 DEF LimitInv
    <2>2. \A s \in Stores : count[s][c] <= count'[s][c] /\ count[s][c] \in Int /\ count'[s][c] \in Int
      BY <1>1
    <2> QED
      BY <2>1, <2>2, TicketsStay
  <1> QED
    BY <1>2 DEF LimitInv

LEMMA CheckKeepsLimit ==
  ASSUME TypeOK, TypeOK', LoopsSound, LimitInv, NEW r \in Requests, Check(r)
  PROVE  LimitInv'
  <1> DEFINE k == Checks[r][pos[r]]
             p == Home[r]
  <1>1. k \in Counters /\ p \in Replicas
    BY ListsOf DEF Check, LoopsSound, TypeOK, AdmissionAssumption
  <1>2. /\ Adjust(p, k, 1) /\ UNCHANGED fail_open
        /\ \/ UNCHANGED passed
           \/ ~Denied(Answer(p, k), Limit[k]) /\ passed' = [passed EXCEPT ![k] = @ \cup {r}]
    BY DEF Check
  <1> HIDE DEF k, p
  <1>3. /\ \A s \in Stores, c \in Counters : count[s][c] <= count'[s][c]
        /\ degraded' \subseteq outage' /\ outage \subseteq outage'
        /\ ~fail_open => \E s \in Stores : /\ s \in Sharers'
                                           /\ count'[s][k] = count[s][k] + 1
                                           /\ Answer(p, k) = count'[s][k]
    BY <1>1, <1>2, CounterCalled
  <1>4. \A s \in Stores, c \in Counters : count[s][c] \in Nat /\ count'[s][c] \in Int
    BY DEF TypeOK, Names, LimitInv
  <1>5. ASSUME ~fail_open, NEW c \in Counters PROVE \E t : Drawn(c, t)'
    <2>1. PICK t : Drawn(c, t)
      BY <1>5 DEF LimitInv
    <2>2. \A s \in Stores : count[s][c] <= count'[s][c] /\ count[s][c] \in Int /\ count'[s][c] \in Int
      BY <1>3, <1>4
    <2>3. CASE passed'[c] = passed[c]
      BY <1>3, <2>1, <2>2, <2>3, TicketsStay
    <2>4. CASE passed'[c] # passed[c]
      <3>1. c = k /\ passed'[c] = passed[c] \cup {r} /\ ~Denied(Answer(p, k), Limit[k])
        BY <1>1, <1>2, <2>4 DEF TypeOK
      <3>2. PICK s \in Stores : /\ s \in Sharers'
                                /\ count'[s][c] = count[s][c] + 1
                                /\ Answer(p, c) = count'[s][c]
        BY <1>3, <1>5, <3>1
      <3>3. count[s][c] >= 0 /\ count'[s][c] <= Limit[c]
        BY <1>4, <3>1, <3>2 DEF Denied, AdmissionAssumption
      <3>4. outage' \subseteq Replicas
        BY DEF TypeOK
      <3> QED
        BY <1>3, <2>1, <2>2, <3>1, <3>2, <3>3, <3>4, TicketDrawn
    <2> QED
      BY <2>3, <2>4
  <1>6. ASSUME NEW s \in Stores, NEW c \in Counters PROVE count'[s][c] >= 0
    <2>1. count[s][c] <= count'[s][c] /\ count[s][c] \in Nat /\ count'[s][c] \in Int
      BY <1>3, <1>4
    <2> QED
      BY <2>1
  <1> QED
    BY <1>2, <1>3, <1>5, <1>6 DEF LimitInv

LEMMA LimitStep == IInv /\ LimitInv /\ [Next]_vars => LimitInv'
  <1> SUFFICES ASSUME IInv, LimitInv, [Next]_vars PROVE LimitInv'
    OBVIOUS
  <1>0. TypeOK /\ LoopsSound /\ TypeOK'
    BY NextInv DEF IInv
  <1>1. ASSUME NEW r \in Requests, Step(r) PROVE LimitInv'
    <2>1. CASE Check(r)
      BY <1>0, <2>1, CheckKeepsLimit
    <2>2. CASE Enter(r) \/ Acquire(r) \/ Answered(r)
      BY <1>0, <2>2, LimitUntouched DEF Enter, Acquire, Answered, LimitInv
    <2>3. CASE Lease(r)
      <3> DEFINE g == Leases[r][pos[r]]
      <3>1. g \in Gauges
        BY <1>0, <2>3, ListsOf DEF Lease, LoopsSound, TypeOK
      <3>2. Asked(r, g, 1) /\ UNCHANGED <<passed, fail_open>>
        BY <2>3 DEF Lease
      <3> HIDE DEF g
      <3> QED
        BY <1>0, <3>1, <3>2, GaugeCalled, LimitUntouched
    <2>4. CASE GiveBack(r)
      <3> DEFINE g == Head(todo[r])
      <3>1. g \in Gauges
        BY <1>0, <2>4, TailIs DEF GiveBack, LoopsSound, TypeOK
      <3>2. Asked(r, g, -1) /\ UNCHANGED <<passed, fail_open>>
        BY <2>4 DEF GiveBack
      <3> HIDE DEF g
      <3> QED
        BY <1>0, <3>1, <3>2, GaugeCalled, LimitUntouched
    <2> QED
      BY <1>1, <2>1, <2>2, <2>3, <2>4 DEF Step
  <1>2. ASSUME NEW p \in Replicas, Crash(p) PROVE LimitInv'
    <2>1. degraded' \subseteq outage' /\ UNCHANGED <<count, passed, fail_open, outage>>
      BY <1>2 DEF Crash, LimitInv
    <2> QED
      BY <1>0, <2>1, LimitUntouched
  <1>3. ASSUME NEW g \in Gauges, Expire(g) PROVE LimitInv'
    <2>1. g \in Names /\ Counters \subseteq Names \ {g} /\ Redis \in Stores
      BY DEF Names, Stores, AdmissionAssumption
    <2>2. count' = [count EXCEPT ![Redis][g] = 0] /\ UNCHANGED <<degraded, fail_open, passed, outage>>
      BY <1>3 DEF Expire
    <2>3. \A s \in Stores, c \in Counters : count'[s][c] = count[s][c]
      BY <1>0, <2>1, <2>2 DEF TypeOK
    <2> QED
      BY <1>0, <2>2, <2>3, LimitUntouched DEF LimitInv
  <1>4. CASE NextWindow
    <2>1. /\ degraded' \subseteq outage'
          /\ \A s \in Stores, c \in Counters : count'[s][c] = 0
          /\ \A c \in Counters : passed'[c] = {}
      BY <1>4 DEF NextWindow, Names
    <2>2. ASSUME NEW c \in Counters PROVE Drawn(c, [r \in {} |-> 0])'
      BY <2>1 DEF Drawn
    <2> QED
      BY <2>1, <2>2 DEF LimitInv
  <1>5. CASE UNCHANGED vars
    BY <1>0, <1>5, LimitUntouched DEF vars, LimitInv
  <1> QED
    BY <1>1, <1>2, <1>3, <1>4, <1>5 DEF Next

\* Without fail_open, a counter lets through in one window at most its limit for
\* Redis, and its limit for each replica that had to count in its own file
\* (RateLimiter.check over both stores).
THEOREM LimitsHold == Spec => []LimitHeld
  <1>1. Init => LimitInv
    <2> SUFFICES ASSUME Init PROVE LimitInv
      OBVIOUS
    <2>1. \A c \in Counters : Drawn(c, [r \in {} |-> 0])
      BY DEF Init, Drawn
    <2>2. \A s \in Stores, c \in Counters : count[s][c] = 0
      BY DEF Init, Names
    <2>3. \A s \in Stores, c \in Counters : count[s][c] >= 0
      BY <2>2
    <2> QED
      BY <2>1, <2>3 DEF Init, LimitInv
  <1>2. IInv /\ LimitInv /\ [Next]_vars => LimitInv'
    BY LimitStep
  <1>3. IInv /\ LimitInv => LimitHeld
    BY EnoughTickets DEF IInv, LimitInv, LimitHeld
  <1> QED
    BY <1>1, <1>2, <1>3, Invariance, PTL DEF Spec

=============================================================================
