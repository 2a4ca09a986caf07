-------------------------- MODULE SharedRowProofs --------------------------
(***************************************************************************)
(* Proofs about rows that several processes read and write, each of which  *)
(* acts on what it read earlier: background jobs of the Responses API      *)
(* (ResponseJobs) and the hash chain of the audit log (AuditChain).        *)
(*                                                                         *)
(* Jobs. TerminalIsFinal and DeletedStaysGone say of a write what its      *)
(* author knew. The invariant therefore ties every actor between its read  *)
(* and its write to the row: as long as no other write has come in         *)
(* between, what it read still holds (ReadsHold). The job alone may meet a *)
(* status it did not look for, failed, and only after its lease ran out    *)
(* (LateLease).                                                            *)
(*                                                                         *)
(* Audit. The chain is what the hash of the last row commits to; the first *)
(* part says what it is of any table, and what a row that is added,        *)
(* changed, removed or hashed again makes of it. The invariant AuditInv    *)
(* then ties what a writer has read to the log.                            *)
(***************************************************************************)
EXTENDS ResponseJobs, AuditChain, FiniteSetTheorems, SequenceTheorems,
        WellFoundedInduction, TLAPS

Writing == {"claim", "finish", "fail"}

\* The job between two awaits.
AtWork == {"claim", "finish", "except", "fail"}

\* On one replica, only one is between two awaits.
OneAtATime ==
    /\ \A r, s \in Requests : On[r] = On[s] /\ Busy(r) /\ Busy(s) => r = s
    /\ \A r \in Requests : On[r] = Owner /\ Busy(r) => job \notin AtWork /\ beat # "write"
    /\ beat = "write" => job \notin AtWork

\* What an actor read is still so, unless the row was written since.
ReadsHold ==
    /\ \A r \in Gets : pc[r] = "write" /\ r \notin stale => row \in Active /\ ~fresh
    /\ \A r \in Cancels : pc[r] = "write" /\ r \notin stale => row \in Active
    /\ beat = "write" /\ "beat" \notin stale => row \in Active
    /\ job \in Writing /\ "job" \notin stale => row \notin {"none", "cancelled"}

\* Before the job there is nothing; until it fails, it has not been completed, and
\* it has been given up, or is about to be, only after its lease ran out.
LateLease ==
    /\ job = "new" => row = "none" /\ beat = "none" /\ \A r \in Requests : pc[r] = "new"
    /\ job \notin {"new", "done", "except", "fail"} => row # "completed"
    /\ /\ job \notin {"new", "done"}
       /\ row = "failed" \/ (row \in Active /\ ~fresh) \/ \E r \in Gets : pc[r] = "write"
       => late

IInv == TypeOK /\ OneAtATime /\ ReadsHold /\ LateLease

\* Nobody has read or written anything yet.
LEMMA InitIInv == Init => IInv
<1> SUFFICES ASSUME Init PROVE IInv
  OBVIOUS
<1> USE DEF Init
<1>1. TypeOK
  <2>1. notes \in [Terminal -> 0..2] /\ pc \in [Requests -> Points]
    BY DEF Points
  <2> QED
    BY <2>1 DEF TypeOK, Statuses, Active, JobPoints, BeatPoints
<1>2. OneAtATime
  BY DEF OneAtATime, Busy, AtWork
<1>3. ReadsHold
  BY DEF ReadsHold, Requests, Writing
<1>4. LateLease
  BY DEF LateLease, Requests, Active
<1> QED
  BY <1>1, <1>2, <1>3, <1>4 DEF IInv

\* Nothing starts on a replica where something is between two awaits.
LEMMA OneAtATimeStep == TypeOK /\ OneAtATime /\ [Next]_vars => OneAtATime'
<1> USE DEF OneAtATime, AtWork, Busy, Requests, Points
<1> SUFFICES ASSUME TypeOK, OneAtATime, [Next]_vars PROVE OneAtATime'
  OBVIOUS
<1>0. pc \in [Requests -> Points]
  BY DEF TypeOK
<1>1. CASE Create
  BY <1>1 DEF Create
<1>2. CASE JobReads
  BY <1>2 DEF JobReads, Turn
<1>3. CASE JobGivesUp
  BY <1>3 DEF JobGivesUp, JobEnds
<1>4. CASE Claim
  BY <1>4 DEF Claim
<1>5. CASE RouteFails
  BY <1>5 DEF RouteFails, Turn
<1>6. CASE JobWrites
  BY <1>6 DEF JobWrites, JobEnds
<1>7. CASE BeatReads
  BY <1>7 DEF BeatReads, Turn
<1>8. CASE BeatWrites
  BY <1>8 DEF BeatWrites
<1>9. CASE Watch
  BY <1>9 DEF Watch, Stop, JobEnds
<1>10. CASE StoreRaises
  BY <1>10 DEF StoreRaises, JobEnds, Turn
<1>11. CASE BeatRaises
  BY <1>11 DEF BeatRaises
<1>12. CASE LeaseExpires
  BY <1>12 DEF LeaseExpires
<1>13. CASE Crash
  BY <1>0, <1>13 DEF Crash, JobEnds
<1>14. ASSUME NEW r \in Requests, Handler(r) PROVE OneAtATime'
  <2> USE <1>0
  <2>1. CASE GetReads(r)
    BY <2>1 DEF GetReads, Turn
  <2>2. CASE Reclaim(r)
    BY <2>2 DEF Reclaim, Reply
  <2>3. CASE CancelReads(r)
    BY <2>3 DEF CancelReads, Turn
  <2>4. CASE CancelWrites(r)
    BY <2>4 DEF CancelWrites
  <2>5. CASE CancelSignals(r)
    BY <2>5 DEF CancelSignals, signal_cancel, Stop, JobEnds, Reply
  <2>6. CASE DeleteReads(r)
    BY <2>6 DEF DeleteReads, Turn
  <2>7. CASE DeleteSignals(r)
    BY <2>7 DEF DeleteSignals, signal_cancel, Stop, JobEnds
  <2>8. CASE DeleteWrites(r)
    BY <2>8 DEF DeleteWrites, Reply
  <2> QED
    BY <1>14, <2>1, <2>2, <2>3, <2>4, <2>5, <2>6, <2>7, <2>8 DEF Handler
<1>15. ASSUME NEW r \in Requests, RequestRaises(r) PROVE OneAtATime'
  BY <1>0, <1>15 DEF RequestRaises, Reply
<1>16. CASE UNCHANGED vars
  BY <1>16 DEF vars
<1> QED
  BY <1>1, <1>2, <1>3, <1>4, <1>5, <1>6, <1>7, <1>8, <1>9, <1>10, <1>11, <1>12, <1>13,
     <1>14, <1>15, <1>16 DEF Next, Task

\* Webhooks are counted for one status, up to 2.
LEMMA NotifyType ==
    ASSUME notes \in [Terminal -> 0..2], NEW s \in Terminal, Notify(s)
    PROVE  notes' \in [Terminal -> 0..2]
<1>1. (IF notes[s] < 2 THEN notes[s] + 1 ELSE 2) \in 0..2
  OBVIOUS
<1> QED
  BY <1>1 DEF Notify

\* Every action keeps the types, and marks as stale only who is about to write.
LEMMA TypeStep == TypeOK /\ OneAtATime /\ [Next]_vars => TypeOK'
<1> USE ResponsesAssumption DEF TypeOK, Between, Requests, Statuses, Terminal, Active,
        JobPoints, BeatPoints, Points, AtWork
<1> SUFFICES ASSUME TypeOK, OneAtATime, [Next]_vars PROVE TypeOK'
  OBVIOUS
<1>0. beat = "write" => job \notin AtWork
  BY DEF OneAtATime
<1>00. ASSUME NEW r \in Requests, On[r] = Owner, Busy(r)
       PROVE  job \notin AtWork /\ beat # "write"
  BY <1>00 DEF OneAtATime
<1>1. CASE Create
  BY <1>1 DEF Create, Put
<1>2. CASE JobReads
  BY <1>2 DEF JobReads
<1>3. CASE JobGivesUp
  BY <1>0, <1>3 DEF Turn, JobGivesUp, JobEnds
<1>4. CASE Claim
  BY <1>4 DEF Claim, Put, Storing
<1>5. CASE RouteFails
  BY <1>5 DEF RouteFails
<1>6. CASE JobWrites
  <2>1. notes' \in [Terminal -> 0..2]
    BY <1>6, NotifyType DEF JobWrites, Storing
  <2> QED
    BY <1>0, <1>6, <2>1 DEF JobWrites, Put, JobEnds, Storing
<1>7. CASE BeatReads
  BY <1>7 DEF BeatReads
<1>8. CASE BeatWrites
  BY <1>8 DEF BeatWrites, Put
<1>9. CASE Watch
  BY <1>0, <1>9 DEF Turn, Watch, Stop, JobEnds
<1>10. CASE StoreRaises
  <2>1. /\ job' \in JobPoints /\ beat' \in BeatPoints /\ faults' \in Nat
        /\ job' \in {"except", "done"} /\ beat' # "write" /\ UNCHANGED <<pc, flag, local, notes, late>>
        /\ beat' \in {"sleep", "write"} => job' = "except"
    BY <1>0, <1>10 DEF StoreRaises, Fault, JobEnds
  <2>2. CASE stale' = stale \ {"job"} /\ UNCHANGED <<row, fresh, lost>>
    BY <1>0, <1>10, <2>1, <2>2 DEF StoreRaises
  <2>3. CASE job \in DOMAIN Storing /\ Put("job", Storing[job]) /\ fresh' = TRUE
    <3>1. row' \in Statuses /\ lost' \in BOOLEAN /\ stale' = (stale \cup Between) \ {"job"}
      BY <2>3 DEF Put, Storing
    <3>2. beat # "write" /\ stale' \subseteq Between'
      BY <1>0, <2>1, <2>3, <3>1 DEF Storing
    <3> QED
      BY <2>1, <2>3, <3>1, <3>2
  <2> QED
    BY <1>10, <2>2, <2>3 DEF StoreRaises
<1>11. CASE BeatRaises
  <2>1. beat' = "done" /\ faults' \in Nat /\ UNCHANGED <<job, pc, flag, local, notes, late>>
    BY <1>11 DEF BeatRaises, Fault
  <2>2. CASE stale' = stale \ {"beat"} /\ UNCHANGED <<row, fresh, lost>>
    BY <2>1, <2>2
  <2>3. CASE beat = "write" /\ Put("beat", "in_progress") /\ fresh' = TRUE
    BY <2>1, <2>3 DEF Put
  <2> QED
    BY <1>11, <2>2, <2>3 DEF BeatRaises
<1>12. CASE LeaseExpires
  BY <1>12 DEF LeaseExpires
<1>13. CASE Crash
  BY <1>13 DEF Crash, Fault, JobEnds
<1>14. ASSUME NEW r \in Requests, Handler(r) PROVE TypeOK'
  <2>1. CASE GetReads(r)
    BY <2>1 DEF GetReads
  <2>2. CASE Reclaim(r)
    <3>1. notes' \in [Terminal -> 0..2]
      BY <2>2, NotifyType DEF Reclaim
    <3> QED
      BY <2>2, <3>1 DEF Reclaim, Put, Reply
  <2>3. CASE CancelReads(r)
    BY <2>3 DEF CancelReads
  <2>4. CASE CancelWrites(r)
    BY <2>4 DEF CancelWrites, Put
  <2>5. CASE CancelSignals(r)
    <3>1. notes' \in [Terminal -> 0..2]
      BY <2>5, NotifyType DEF CancelSignals
    <3>2. On[r] = Owner => job \notin AtWork /\ beat # "write"
      BY <1>00, <2>5 DEF CancelSignals, Busy
    <3>3. local' \subseteq Replicas /\ flag' \in BOOLEAN /\ faults' \in Nat
      <4>1. signal_cancel(r)
        BY <2>5 DEF CancelSignals
      <4>2. local' \subseteq Replicas
        BY <4>1 DEF signal_cancel
      <4>3. flag' \in BOOLEAN
        BY <4>1 DEF signal_cancel
      <4>4. faults' \in Nat
        BY <4>1 DEF signal_cancel, Fault
      <4> QED
        BY <4>2, <4>3, <4>4
    <3>4. pc' \in [Requests -> Points] /\ \A s \in Requests : pc[s] = "write" => pc'[s] = "write"
      BY <2>5 DEF CancelSignals, Reply
    <3>5. job' \in JobPoints /\ beat' \in BeatPoints
          /\ ((job' = job /\ beat' = beat)
              \/ (job \notin AtWork /\ beat # "write" /\ job' = "done" /\ beat' = "done"))
      BY <2>5, <3>2 DEF CancelSignals, signal_cancel, Stop, JobEnds
    <3> QED
      BY <2>5, <3>1, <3>3, <3>4, <3>5 DEF CancelSignals
  <2>6. CASE DeleteReads(r)
    BY <2>6 DEF DeleteReads
  <2>7. CASE DeleteSignals(r)
    <3>2. On[r] = Owner => job \notin AtWork /\ beat # "write"
      BY <1>00, <2>7 DEF DeleteSignals, Busy
    <3>3. local' \subseteq Replicas /\ flag' \in BOOLEAN /\ faults' \in Nat
      <4>1. signal_cancel(r)
        BY <2>7 DEF DeleteSignals
      <4>2. local' \subseteq Replicas
        BY <4>1 DEF signal_cancel
      <4>3. flag' \in BOOLEAN
        BY <4>1 DEF signal_cancel
      <4>4. faults' \in Nat
        BY <4>1 DEF signal_cancel, Fault
      <4> QED
        BY <4>2, <4>3, <4>4
    <3>4. pc' \in [Requests -> Points] /\ \A s \in Requests : pc[s] = "write" => pc'[s] = "write"
      BY <2>7 DEF DeleteSignals
    <3>5. job' \in JobPoints /\ beat' \in BeatPoints
          /\ ((job' = job /\ beat' = beat)
              \/ (job \notin AtWork /\ beat # "write" /\ job' = "done" /\ beat' = "done"))
      BY <2>7, <3>2 DEF DeleteSignals, signal_cancel, Stop, JobEnds
    <3> QED
      BY <2>7, <3>3, <3>4, <3>5 DEF DeleteSignals
  <2>8. CASE DeleteWrites(r)
    BY <2>8 DEF DeleteWrites, Reply
  <2> QED
    BY <1>14, <2>1, <2>2, <2>3, <2>4, <2>5, <2>6, <2>7, <2>8 DEF Handler
<1>15. ASSUME NEW r \in Requests, RequestRaises(r) PROVE TypeOK'
  <2>1. /\ faults' \in Nat /\ UNCHANGED <<fresh, job, beat, flag, local, notes, late>>
        /\ pc' \in [Requests -> Points]
        /\ \A q \in Requests : q # r /\ pc[q] = "write" => pc'[q] = "write"
    BY <1>15 DEF RequestRaises, Fault, Reply
  <2>2. stale' \subseteq (stale \cup Between) \ {r}
        /\ row' \in Statuses \cup {"none"} /\ lost' \in BOOLEAN
    <3>1. CASE stale' = stale \ {r} /\ UNCHANGED <<row, lost>>
      BY <3>1
    <3>2. CASE Put(r, "failed") \/ Put(r, "cancelled")
      BY <3>2 DEF Put
    <3>3. CASE row' = "none" /\ stale' = (stale \cup Between) \ {r} /\ UNCHANGED lost
      BY <3>3
    <3> QED
      BY <1>15, <3>1, <3>2, <3>3 DEF RequestRaises
  <2>3. stale' \subseteq Between'
    BY <2>1, <2>2
  <2> QED
    BY <2>1, <2>2, <2>3
<1>16. CASE UNCHANGED vars
  BY <1>16 DEF vars
<1> QED
  BY <1>1, <1>2, <1>3, <1>4, <1>5, <1>6, <1>7, <1>8, <1>9, <1>10, <1>11, <1>12, <1>13,
     <1>14, <1>15, <1>16 DEF Next, Task

\* What TypeOK says of the actors, in the form the steps below use it.
LEMMA Readers ==
    ASSUME TypeOK
    PROVE  /\ \A r \in Requests : r \in Between <=> pc[r] = "write"
           /\ "job" \in Between <=> job \in Writing
           /\ "beat" \in Between <=> beat = "write"
           /\ Gets \subseteq Requests /\ Cancels \subseteq Requests /\ Deletes \subseteq Requests
           /\ pc \in [Requests -> Points]
           /\ row \in Statuses \cup {"none"}
           /\ "job" \notin Requests /\ "beat" \notin Requests
           /\ \A r \in Gets : r \notin Cancels /\ r \notin Deletes
           /\ \A r \in Cancels : r \notin Deletes
BY ResponsesAssumption DEF TypeOK, Between, Writing, Requests

\* A write leaves everybody else stale, and itself at another point.
LEMMA PutStep ==
    ASSUME TypeOK, NEW a, NEW s, Put(a, s)
    PROVE  \A b \in Between : b # a => b \in stale'
BY DEF Put

\* Every action keeps both parts.
LEMMA HoldStep == IInv /\ [Next]_vars => ReadsHold' /\ LateLease'
<1> SUFFICES ASSUME IInv, [Next]_vars PROVE ReadsHold' /\ LateLease'
  OBVIOUS
<1> USE Readers DEF ReadsHold, LateLease, Writing, Active
<1>0. TypeOK /\ OneAtATime /\ ReadsHold /\ LateLease
  BY DEF IInv
<1>1. CASE Create
  BY <1>0, <1>1, PutStep DEF Create, Put
<1>2. CASE JobReads
  BY <1>0, <1>2 DEF JobReads, GivenUp
<1>3. CASE JobGivesUp
  BY <1>0, <1>3 DEF JobGivesUp, JobEnds
<1>4. CASE Claim
  BY <1>0, <1>4, PutStep DEF Claim, Put, Storing
<1>5. CASE RouteFails
  BY <1>0, <1>5 DEF RouteFails
<1>6. CASE JobWrites
  BY <1>0, <1>6, PutStep DEF JobWrites, Put, JobEnds, Storing
<1>7. CASE BeatReads
  <2>1. /\ beat = "sleep" /\ (beat' = "write" => row \in Active)
        /\ UNCHANGED <<row, fresh, job, pc, stale, late>>
    BY <1>7 DEF BeatReads
  <2>2. job # "new"
    BY <1>0, <2>1
  <2>3. ReadsHold'
    BY <1>0, <2>1
  <2>4. LateLease'
    BY <1>0, <2>1, <2>2
  <2> QED
    BY <2>3, <2>4
<1>8. CASE BeatWrites
  BY <1>0, <1>8, PutStep DEF BeatWrites, Put
<1>9. CASE Watch
  BY <1>0, <1>9 DEF Watch, Stop, JobEnds
<1>10. CASE StoreRaises
  <2>1. CASE stale' = stale \ {"job"} /\ UNCHANGED <<row, fresh, lost>>
    BY <1>0, <1>10, <2>1 DEF StoreRaises, JobEnds
  <2>2. CASE job \in DOMAIN Storing /\ Put("job", Storing[job]) /\ fresh' = TRUE
    BY <1>0, <1>10, <2>2, PutStep DEF StoreRaises, JobEnds, Put, Storing
  <2> QED
    BY <1>10, <2>1, <2>2 DEF StoreRaises
<1>11. CASE BeatRaises
  <2>1. CASE stale' = stale \ {"beat"} /\ UNCHANGED <<row, fresh, lost>>
    BY <1>0, <1>11, <2>1 DEF BeatRaises
  <2>2. CASE beat = "write" /\ Put("beat", "in_progress") /\ fresh' = TRUE
    BY <1>0, <1>11, <2>2, PutStep DEF BeatRaises, Put
  <2> QED
    BY <1>11, <2>1, <2>2 DEF BeatRaises
<1>12. CASE LeaseExpires
  BY <1>0, <1>12 DEF LeaseExpires
<1>13. CASE Crash
  <2>1. job' = "done" /\ beat' = "done" /\ UNCHANGED <<row, fresh, late>>
    BY <1>13 DEF Crash, JobEnds
  <2>2. ASSUME NEW r \in Requests, pc'[r] = "write"
        PROVE  pc[r] = "write" /\ (r \notin stale' => r \notin stale)
    BY <1>13, <2>2 DEF Crash, Busy
  <2> QED
    BY <1>0, <2>1, <2>2
<1>14. ASSUME NEW r \in Requests, Handler(r) PROVE ReadsHold' /\ LateLease'
  <2>1. CASE GetReads(r)
    BY <1>0, <2>1 DEF GetReads
  <2>2. CASE Reclaim(r)
    BY <1>0, <2>2, PutStep DEF Reclaim, Put, Reply
  <2>3. CASE CancelReads(r)
    BY <1>0, <2>3 DEF CancelReads
  <2>4. CASE CancelWrites(r)
    BY <1>0, <2>4, PutStep DEF CancelWrites, Put
  <2>5. CASE CancelSignals(r)
    BY <1>0, <2>5 DEF CancelSignals, signal_cancel, Stop, JobEnds, Reply
  <2>6. CASE DeleteReads(r)
    BY <1>0, <2>6 DEF DeleteReads
  <2>7. CASE DeleteSignals(r)
    BY <1>0, <2>7 DEF DeleteSignals, signal_cancel, Stop, JobEnds
  <2>8. CASE DeleteWrites(r)
    BY <1>0, <2>8 DEF DeleteWrites, Reply
  <2> QED
    BY <1>14, <2>1, <2>2, <2>3, <2>4, <2>5, <2>6, <2>7, <2>8 DEF Handler
<1>15. ASSUME NEW r \in Requests, RequestRaises(r) PROVE ReadsHold' /\ LateLease'
  <2>1. CASE stale' = stale \ {r} /\ UNCHANGED <<row, lost>>
    BY <1>0, <1>15, <2>1 DEF RequestRaises, Reply
  <2>2. CASE r \in Gets /\ Put(r, "failed")
    BY <1>0, <1>15, <2>2, PutStep DEF RequestRaises, Put, Reply
  <2>3. CASE r \in Cancels /\ Put(r, "cancelled")
    BY <1>0, <1>15, <2>3, PutStep DEF RequestRaises, Put, Reply
  <2>4. CASE r \in Deletes /\ row' = "none" /\ stale' = (stale \cup Between) \ {r}
    BY <1>0, <1>15, <2>4 DEF RequestRaises, Reply
  <2> QED
    BY <1>15, <2>1, <2>2, <2>3, <2>4 DEF RequestRaises
<1>16. CASE UNCHANGED vars
  BY <1>0, <1>16 DEF vars
<1> QED
  BY <1>1, <1>2, <1>3, <1>4, <1>5, <1>6, <1>7, <1>8, <1>9, <1>10, <1>11, <1>12, <1>13,
     <1>14, <1>15, <1>16 DEF Next, Task

\* Nothing of the four parts is ever lost.
THEOREM Invariance == Spec => []IInv
<1>1. IInv /\ [Next]_vars => IInv'
  BY TypeStep, OneAtATimeStep, HoldStep DEF IInv
<1> QED
  BY <1>1, InitIInv, PTL DEF Spec

\* The types are kept, no update is counted as lost that nobody was about to make,
\* and the heartbeat lives no longer than the task (_run_background's finally).
THEOREM TypeCorrect == Spec => []TypeOK
<1>1. IInv => TypeOK
  BY DEF IInv
<1> QED
  BY <1>1, Invariance, PTL

\* Who changes the status knows it, or is stale: only the job may do so without
\* being stale, when GET has given it up or its own completed was stored and raised.
LEMMA WriteStep ==
    ASSUME IInv, [Next]_vars, job # "new", row' # row, row' # "none"
    PROVE  \E a \in Actors : /\ Writer(a)
                             /\ \/ a \in stale
                                \/ row \in Active
                                \/ a = "job" /\ row = "failed" /\ late
                                \/ a = "job" /\ row = "completed" /\ job = "fail"
<1> USE Readers DEF Writer, Actors, ReadsHold, LateLease, Writing, Terminal
<1>0. TypeOK /\ OneAtATime /\ ReadsHold /\ LateLease
  BY DEF IInv
<1>a. row \in Active \/ row \in {"none", "completed", "failed", "cancelled"}
  BY <1>0 DEF Statuses, Terminal
<1>1. ASSUME Claim \/ JobWrites \/ StoreRaises
      PROVE  Writer("job") /\ \/ "job" \in stale
                              \/ row \in Active
                              \/ row = "failed" /\ late
                              \/ row = "completed" /\ job = "fail"
  <2>1. job \in Writing /\ job' # job
    BY <1>1 DEF Claim, JobWrites, StoreRaises, JobEnds, Storing
  <2>2. ASSUME "job" \notin stale, row \notin Active
        PROVE  \/ row = "failed" /\ late
               \/ row = "completed" /\ job = "fail"
    <3>1. row \in {"completed", "failed"}
      BY <1>0, <1>a, <2>1, <2>2
    <3>2. row = "failed" => late
      BY <1>0, <2>1
    <3>3. row = "completed" => job = "fail"
      BY <1>0, <2>1
    <3> QED
      BY <3>1, <3>2, <3>3
  <2> QED
    BY <2>1, <2>2
<1>2. CASE BeatWrites \/ BeatRaises
  <2>1. beat = "write" /\ beat' # beat
    BY <1>2 DEF BeatWrites, BeatRaises
  <2> QED
    BY <1>0, <2>1
<1>3. ASSUME NEW r \in Requests, Reclaim(r) \/ CancelWrites(r) \/ RequestRaises(r)
      PROVE  Writer(r) /\ (r \in stale \/ row \in Active)
  <2>1. pc[r] = "write" /\ pc'[r] # pc[r] /\ r \in Gets \cup Cancels
    BY <1>0, <1>3 DEF Reclaim, CancelWrites, RequestRaises, Reply
  <2> QED
    BY <1>0, <2>1
<1>4. ASSUME NEW r \in Requests, Handler(r)
      PROVE  Reclaim(r) \/ CancelWrites(r)
  BY <1>4 DEF Handler, GetReads, CancelReads, CancelSignals, DeleteReads, DeleteSignals, DeleteWrites
<1>5. \/ Claim \/ JobWrites \/ StoreRaises \/ BeatWrites \/ BeatRaises
      \/ \E r \in Requests : Handler(r) \/ RequestRaises(r)
  BY DEF Next, Task, vars, Create, JobReads, JobGivesUp, RouteFails, BeatReads, Watch,
     LeaseExpires, Crash
<1> QED
  BY <1>1, <1>2, <1>3, <1>4, <1>5

\* A terminal status is final: no write overwrites it whose author has read the row
\* since, but for the job that outlived its lease or fails on a commit that was stored
\* (_run_background, _reclaim_expired_job, cancel_response).
THEOREM TerminalStays == Spec => TerminalIsFinal
<1>1. ASSUME IInv, [Next]_vars, row \in Terminal, row' \notin {row, "none"}
      PROVE  \E a \in Actors : /\ Writer(a)
                               /\ \/ a \in stale
                                  \/ a = "job" /\ row = "failed" /\ late
                                  \/ a = "job" /\ row = "completed" /\ job = "fail"
  <2>1. job # "new" /\ row \notin Active
    BY <1>1 DEF IInv, LateLease, Terminal, Active
  <2> QED
    BY <1>1, <2>1, WriteStep
<1>2. IInv /\ [Next]_vars =>
        ((row \in Terminal /\ row' \notin {row, "none"}) =>
           \E a \in Actors : /\ Writer(a)
                             /\ \/ a \in stale
                                \/ a = "job" /\ row = "failed" /\ late
                                \/ a = "job" /\ row = "completed" /\ job = "fail")
  BY <1>1
<1> QED
  BY <1>2, Invariance, PTL DEF Spec, TerminalIsFinal

\* A deleted row comes back only by a stale write (delete_response).
THEOREM DeletedStays == Spec => DeletedStaysGone
<1>1. ASSUME IInv, [Next]_vars
      PROVE  (row = "none" /\ job # "new" /\ row' # "none") => \E a \in stale : Writer(a)
  BY <1>1, WriteStep DEF Active
<1> QED
  BY <1>1, Invariance, PTL DEF Spec, DeletedStaysGone

-----------------------------------------------------------------------------
\* No update is lost.
NoStaleWrite == stale = {} /\ ~lost

\* On one replica nothing comes between a read and its write.
LEMMA AloneStep ==
    ASSUME \A r \in Requests : On[r] = Owner, IInv, NoStaleWrite, [Next]_vars
    PROVE  NoStaleWrite'
<1> USE DEF NoStaleWrite
<1>0. TypeOK /\ OneAtATime
  BY DEF IInv
<1>1. ASSUME NEW a \in Between, NEW b \in Between PROVE a = b
  BY <1>0, <1>1, Readers DEF OneAtATime, Busy, AtWork, Writing, Between, Requests
<1>2. ASSUME NEW a, NEW s, a \in Between \/ Between = {}, Put(a, s) PROVE NoStaleWrite'
  BY <1>1, <1>2 DEF Put
<1>3. CASE Create
  <2>1. Between = {}
    BY <1>0, <1>3, Readers DEF Create, Turn, Busy, Between
  <2> QED
    BY <1>2, <1>3, <2>1 DEF Create
<1>4. CASE Claim \/ JobWrites \/ StoreRaises
  BY <1>0, <1>2, <1>4, Readers DEF Claim, JobWrites, StoreRaises, Writing, Storing
<1>5. CASE BeatWrites \/ BeatRaises
  BY <1>0, <1>2, <1>5, Readers DEF BeatWrites, BeatRaises
<1>6. ASSUME NEW r \in Requests, Handler(r) PROVE NoStaleWrite'
  <2>1. CASE Reclaim(r) \/ CancelWrites(r)
    BY <1>0, <1>2, <2>1, Readers DEF Reclaim, CancelWrites
  <2>2. CASE DeleteWrites(r)
    BY <1>0, <1>1, <2>2, Readers DEF DeleteWrites
  <2> QED
    BY <1>6, <2>1, <2>2 DEF Handler, GetReads, CancelReads, CancelSignals, DeleteReads, DeleteSignals
<1>7. ASSUME NEW r \in Requests, RequestRaises(r) PROVE NoStaleWrite'
  BY <1>0, <1>1, <1>2, <1>7, Readers DEF RequestRaises
<1> QED
  BY <1>3, <1>4, <1>5, <1>6, <1>7 DEF Next, Task, vars, JobReads, JobGivesUp, RouteFails,
     BeatReads, Watch, LeaseExpires, Crash

\* A gateway of one replica loses no update of a job: its handlers and the task
\* read and write the store without an await in between.
THEOREM OneReplicaLosesNothing ==
    ASSUME \A r \in Requests : On[r] = Owner
    PROVE  Spec => []NoStaleWrite
<1>1. Init => NoStaleWrite
  BY DEF Init, NoStaleWrite
<1>2. IInv /\ NoStaleWrite /\ [Next]_vars => NoStaleWrite'
  BY AloneStep
<1> QED
  BY <1>1, <1>2, Invariance, PTL DEF Spec

-----------------------------------------------------------------------------
(***************************************************************************)
(* ToldOnce is not inductive. A cancel writes the row first and tells the  *)
(* client in a later step: between the two, nobody may have told it        *)
(* anything, and no second cancel may have come as far. And a completed    *)
(* whose commit raised is stored but not told.                             *)
(***************************************************************************)

\* No webhook has been scheduled.
Silent == \A s \in Terminal : notes[s] = 0

\* The client is told once, and what the row says; a cancel that has stored its
\* status is the only one, and nothing has been told yet.
ToldRight ==
    /\ \A s \in Terminal : notes[s] <= 1 /\ (notes[s] > 0 => row \in {s, "none"})
    /\ \A s, t \in Terminal : notes[s] > 0 /\ notes[t] > 0 => s = t
    /\ \A r \in Cancels : pc[r] = "signal" => row \in {"cancelled", "none"} /\ Silent
    /\ \A r, q \in Cancels : pc[r] = "signal" /\ pc[q] = "signal" => r = q

ToldInv ==
    /\ job = "new" => Silent
    /\ job # "done" => notes["completed"] = 0
    /\ ~late /\ ~lost => ToldRight

\* As long as the row is active, or its completed is not told, nothing has been told
\* and no cancel has written.
LEMMA ActiveIsSilent ==
    ASSUME TypeOK, ToldRight, row \in Active \/ (row = "completed" /\ notes["completed"] = 0)
    PROVE  Silent /\ \A r \in Cancels : pc[r] # "signal"
<1>1. row \notin {"failed", "cancelled", "none"} /\ (row = "completed" => notes["completed"] = 0)
  BY DEF Active
<1>2. ASSUME NEW s \in Terminal PROVE notes[s] = 0
  <2>1. notes[s] \in 0..2 /\ (notes[s] > 0 => row = s)
    BY <1>1, <1>2 DEF TypeOK, ToldRight
  <2>2. s \in {"completed", "failed", "cancelled"}
    BY DEF Terminal
  <2> QED
    BY <1>1, <2>1, <2>2
<1>3. \A r \in Cancels : pc[r] # "signal"
  BY <1>1 DEF ToldRight
<1> QED
  BY <1>2, <1>3 DEF Silent

\* Whoever completes, fails or reclaims a silent job tells what it stores.
LEMMA TellsWhatItStores ==
    ASSUME TypeOK, Silent, \A r \in Cancels : pc'[r] # "signal",
           NEW s \in Terminal, Notify(s), row' = s
    PROVE  ToldRight'
<1>1. \A t \in Terminal : notes'[t] = IF t = s THEN 1 ELSE 0
  BY DEF Notify, Silent, TypeOK
<1> QED
  BY <1>1 DEF ToldRight, Silent

\* A write of a status that is not told, or of cancelled by the one cancel r.
LEMMA StaysSilent ==
    ASSUME TypeOK, Silent, UNCHANGED notes,
           \A q, r \in Cancels : pc'[q] = "signal" /\ pc'[r] = "signal" => q = r,
           \A q \in Cancels : pc'[q] = "signal" => row' = "cancelled"
    PROVE  ToldRight'
BY DEF ToldRight, Silent

\* A cancel that has stored its status tells it.
LEMMA CancelTells ==
    ASSUME TypeOK, ToldRight, NEW r \in Cancels, pc[r] = "signal",
           Notify("cancelled"), Reply(r), UNCHANGED row
    PROVE  ToldRight'
<1>1. Silent /\ row \in {"cancelled", "none"} /\ \A q \in Cancels : pc[q] = "signal" => q = r
  BY DEF ToldRight
<1>2. \A t \in Terminal : notes'[t] = IF t = "cancelled" THEN 1 ELSE 0
  BY <1>1 DEF Notify, Silent, TypeOK, Terminal
<1>3. \A q \in Cancels : pc'[q] # "signal"
  BY <1>1 DEF Reply, TypeOK, Requests
<1> QED
  BY <1>1, <1>2, <1>3 DEF ToldRight, Terminal

\* Everything that leaves the row, or deletes it, and tells nobody.
LEMMA TellsNothing ==
    ASSUME TypeOK, ToldRight, UNCHANGED notes, row' \in {row, "none"},
           \A q \in Cancels : pc'[q] = "signal" => pc[q] = "signal"
    PROVE  ToldRight'
BY DEF ToldRight, Silent

\* Nobody but the task tells of completed, and it ends with that.
LEMMA CompletesLast ==
    ASSUME TypeOK, job # "done" => notes["completed"] = 0, [Next]_vars
    PROVE  job' # "done" => notes'["completed"] = 0
<1> USE DEF TypeOK, Terminal
<1>1. ASSUME NEW s \in {"failed", "cancelled"}, Notify(s)
      PROVE  notes'["completed"] = notes["completed"]
  BY <1>1 DEF Notify
<1>2. CASE JobWrites
  BY <1>2 DEF JobWrites, JobEnds
<1>3. ASSUME UNCHANGED notes, job = "done" => job' = "done"
      PROVE  job' # "done" => notes'["completed"] = 0
  BY <1>3
<1>4. ASSUME NEW r \in Requests, Handler(r)
      PROVE  /\ notes'["completed"] = notes["completed"]
             /\ job = "done" => job' = "done"
  <2>1. CASE Reclaim(r)
    BY <1>1, <2>1 DEF Reclaim
  <2>2. CASE CancelSignals(r)
    BY <1>1, <2>2 DEF CancelSignals, signal_cancel, Stop, JobEnds
  <2>3. CASE GetReads(r) \/ CancelReads(r) \/ CancelWrites(r) \/ DeleteReads(r)
             \/ DeleteSignals(r) \/ DeleteWrites(r)
    BY <2>3 DEF GetReads, CancelReads, CancelWrites, DeleteReads, DeleteSignals, DeleteWrites,
       signal_cancel, Stop, JobEnds
  <2> QED
    BY <1>4, <2>1, <2>2, <2>3 DEF Handler
<1>5. ASSUME NEW r \in Requests, RequestRaises(r)
      PROVE  UNCHANGED <<notes, job>>
  BY <1>5 DEF RequestRaises
<1>6. CASE Create \/ JobReads \/ JobGivesUp \/ Claim \/ RouteFails \/ BeatReads \/ BeatWrites
           \/ Watch \/ StoreRaises \/ BeatRaises \/ LeaseExpires \/ Crash \/ UNCHANGED vars
  BY <1>3, <1>6 DEF Create, JobReads, JobGivesUp, Claim, RouteFails, BeatReads, BeatWrites, Watch,
     StoreRaises, BeatRaises, LeaseExpires, Crash, Stop, JobEnds, vars
<1> QED
  BY <1>2, <1>4, <1>5, <1>6 DEF Next, Task

\* Every step keeps it: who writes without being stale has read an active row, but for
\* the task that fails on its own completed.
LEMMA ToldStep == IInv /\ ToldInv /\ [Next]_vars => ToldInv'
<1> SUFFICES ASSUME IInv, ToldInv, [Next]_vars PROVE ToldInv'
  OBVIOUS
<1> USE Readers DEF ToldInv
<1>z. job' # "done" => notes'["completed"] = 0
  BY CompletesLast DEF IInv
<1>0. TypeOK /\ OneAtATime /\ ReadsHold /\ LateLease
  BY DEF IInv
<1>1. CASE Create
  <2>1. Silent /\ \A r \in Cancels : pc[r] = "new"
    BY <1>0, <1>1 DEF Create, LateLease
  <2>2. ToldRight'
    BY <1>0, <1>1, <2>1, StaysSilent DEF Create
  <2> QED
    BY <1>1, <1>z, <2>2 DEF Create
<1>2. ASSUME UNCHANGED notes, row' \in {row, "none"}, late \in BOOLEAN, lost \in BOOLEAN,
             late => late', lost => lost', job' = "new" => job = "new",
             \A q \in Cancels : pc'[q] = "signal" => pc[q] = "signal"
      PROVE  ToldInv'
  BY <1>0, <1>2, <1>z, TellsNothing DEF Silent
<1> DEFINE Untold == row \in Active \/ (row = "completed" /\ notes["completed"] = 0)
<1>3. ASSUME job' # "new", Untold, late => late', lost => lost',
             \/ /\ UNCHANGED notes
                /\ \A q \in Cancels : pc'[q] = "signal" => pc[q] = "signal"
             \/ /\ \E s \in Terminal : Notify(s) /\ row' = s
                /\ \A q \in Cancels : pc'[q] = pc[q]
             \/ /\ UNCHANGED notes /\ row' = "cancelled"
                /\ \E r \in Cancels : pc' = [pc EXCEPT ![r] = "signal"]
      PROVE  ToldInv'
  <2>1. SUFFICES ASSUME ToldRight PROVE ToldRight'
    BY <1>3, <1>z
  <2>2. Silent /\ \A q \in Cancels : pc[q] # "signal"
    BY <1>0, <1>3, <2>1, ActiveIsSilent
  <2>3. CASE /\ UNCHANGED notes
             /\ \A q \in Cancels : pc'[q] = "signal" => pc[q] = "signal"
    BY <1>0, <2>2, <2>3, StaysSilent
  <2>4. CASE /\ \E s \in Terminal : Notify(s) /\ row' = s
             /\ \A q \in Cancels : pc'[q] = pc[q]
    BY <1>0, <2>2, <2>4, TellsWhatItStores
  <2>5. CASE /\ UNCHANGED notes /\ row' = "cancelled"
             /\ \E r \in Cancels : pc' = [pc EXCEPT ![r] = "signal"]
    <3>1. \A q, r \in Cancels : pc'[q] = "signal" /\ pc'[r] = "signal" => q = r
      BY <1>0, <2>2, <2>5
    <3>2. \A q \in Cancels : pc'[q] = "signal" => row' = "cancelled"
      BY <2>5
    <3> QED
      BY <1>0, <2>2, <2>5, <3>1, <3>2, StaysSilent
  <2> QED
    BY <1>3, <2>3, <2>4, <2>5
<1>w. ASSUME job \in Writing PROVE "job" \in stale \/ late \/ Untold
  <2>1. SUFFICES ASSUME "job" \notin stale, ~late, row \notin Active
                 PROVE  row = "completed" /\ notes["completed"] = 0
    OBVIOUS
  <2>2. row \notin {"none", "cancelled", "failed"}
    BY <1>0, <1>w, <2>1 DEF ReadsHold, LateLease, Writing
  <2>3. row = "completed"
    BY <1>0, <2>1, <2>2 DEF Statuses, Terminal
  <2> QED
    BY <1>w, <2>3 DEF Writing
<1> HIDE DEF Untold
<1>u. row \in Active => Untold
  BY DEF Untold
<1>4. ASSUME \/ Claim
             \/ StoreRaises /\ job \in DOMAIN Storing /\ Put("job", Storing[job])
      PROVE  ToldInv'
  <2>1. job \in Writing /\ Put("job", Storing[job])
    BY <1>4 DEF Claim, Storing, Writing
  <2>2. job' # "new" /\ UNCHANGED <<notes, pc, late>>
    BY <1>4 DEF Claim, StoreRaises, JobEnds
  <2>3. (lost => lost') /\ (lost' \/ late \/ Untold)
    BY <1>w, <2>1 DEF Put
  <2>4. CASE Untold
    BY <1>3, <2>2, <2>3, <2>4
  <2> QED
    BY <1>0, <1>z, <2>2, <2>3, <2>4
<1>b. ASSUME beat = "write", Put("beat", "in_progress"), UNCHANGED <<job, notes, pc, late>>
      PROVE  ToldInv'
  <2>1. job # "new" /\ (lost => lost') /\ (lost' \/ Untold)
    BY <1>0, <1>b, <1>u DEF Put, LateLease, ReadsHold
  <2>2. CASE Untold
    BY <1>3, <1>b, <2>1, <2>2
  <2> QED
    BY <1>b, <1>z, <2>1, <2>2
<1>5. CASE JobWrites
  <2>1. job \in Writing /\ Put("job", Storing[job]) /\ row' \in Terminal /\ Notify(row')
    BY <1>5 DEF JobWrites, Put, Storing, Writing, Terminal
  <2>2. job' # "new" /\ UNCHANGED <<pc, late>>
    BY <1>5 DEF JobWrites, JobEnds
  <2>3. (lost => lost') /\ (lost' \/ late \/ Untold)
    BY <1>w, <2>1 DEF Put
  <2>4. CASE Untold
    BY <1>3, <2>1, <2>2, <2>3, <2>4
  <2> QED
    BY <1>0, <1>z, <2>2, <2>3, <2>4
<1>6. CASE JobReads \/ JobGivesUp \/ RouteFails \/ BeatReads \/ Watch
  BY <1>0, <1>2, <1>6
  DEF JobReads, JobGivesUp, RouteFails, BeatReads, Watch, Stop, JobEnds, TypeOK
<1>7. CASE StoreRaises \/ BeatRaises \/ BeatWrites
  <2>1. /\ job' = "new" => job = "new"
        /\ UNCHANGED <<notes, pc, late>>
    BY <1>7 DEF StoreRaises, BeatRaises, BeatWrites, JobEnds
  <2>2. CASE UNCHANGED <<row, lost>>
    BY <1>0, <1>2, <2>1, <2>2 DEF TypeOK
  <2> QED
    BY <1>4, <1>7, <1>b, <2>2 DEF StoreRaises, BeatRaises, BeatWrites
<1>8. CASE LeaseExpires
  BY <1>0, <1>2, <1>8 DEF LeaseExpires, TypeOK
<1>9. CASE Crash
  BY <1>0, <1>2, <1>9 DEF Crash, JobEnds, TypeOK
<1>10. ASSUME NEW r \in Requests, Handler(r) PROVE ToldInv'
  <2>0. job # "new" \/ GetReads(r) \/ CancelReads(r) \/ DeleteReads(r)
    BY <1>0, <1>10 DEF Handler, LateLease, Reclaim, CancelWrites, CancelSignals,
       DeleteSignals, DeleteWrites
  <2>1. CASE GetReads(r) \/ CancelReads(r)
    BY <1>0, <1>2, <2>1 DEF GetReads, CancelReads, TypeOK
  <2>2. CASE Reclaim(r)
    <3>1. job' # "new" /\ (late => late') /\ (lost => lost')
          /\ (\A q \in Cancels : pc'[q] = pc[q]) /\ \E s \in Terminal : Notify(s) /\ row' = s
      BY <1>0, <2>0, <2>2 DEF Reclaim, Put, Reply, Terminal, GetReads, CancelReads, DeleteReads
    <3>2. lost' \/ Untold
      BY <1>0, <1>u, <2>2 DEF Reclaim, Put, ReadsHold
    <3> QED
      BY <1>0, <1>3, <1>z, <3>1, <3>2
  <2>3. CASE CancelWrites(r)
    <3>1. job' # "new" /\ (late => late') /\ (lost => lost') /\ UNCHANGED notes
          /\ row' = "cancelled" /\ r \in Cancels /\ pc' = [pc EXCEPT ![r] = "signal"]
      BY <1>0, <2>0, <2>3 DEF CancelWrites, Put, GetReads, CancelReads, DeleteReads
    <3>2. lost' \/ Untold
      BY <1>0, <1>u, <2>3 DEF CancelWrites, Put, ReadsHold
    <3> QED
      BY <1>0, <1>3, <1>z, <3>1, <3>2
  <2>4. CASE CancelSignals(r)
    <3>1. job # "new" /\ job' # "new"
      BY <1>0, <2>4 DEF CancelSignals, signal_cancel, Stop, JobEnds, LateLease
    <3>2. ToldRight => ToldRight'
      BY <1>0, <2>4, CancelTells DEF CancelSignals
    <3> QED
      BY <1>z, <2>4, <3>1, <3>2 DEF CancelSignals
  <2>5. CASE DeleteReads(r)
    BY <1>0, <1>2, <2>5 DEF DeleteReads, TypeOK
  <2>6. CASE DeleteSignals(r)
    BY <1>0, <1>2, <2>6 DEF DeleteSignals, signal_cancel, Stop, JobEnds, TypeOK
  <2>7. CASE DeleteWrites(r)
    BY <1>0, <1>2, <2>7 DEF DeleteWrites, Reply, TypeOK
  <2> QED
    BY <1>10, <2>1, <2>2, <2>3, <2>4, <2>5, <2>6, <2>7 DEF Handler
<1>11. CASE UNCHANGED vars
  BY <1>0, <1>2, <1>11 DEF vars, TypeOK
<1>12. ASSUME NEW r \in Requests, RequestRaises(r) PROVE ToldInv'
  <2>1. /\ UNCHANGED <<job, notes, late>> /\ pc[r] = "write" /\ job # "new"
        /\ \A q \in Cancels : pc'[q] = "signal" => pc[q] = "signal"
    BY <1>0, <1>12 DEF RequestRaises, Reply, LateLease
  <2>2. CASE row' \in {row, "none"} /\ UNCHANGED lost
    BY <1>0, <1>2, <2>1, <2>2 DEF TypeOK
  <2>3. CASE r \in Gets \cup Cancels /\ (Put(r, "failed") \/ Put(r, "cancelled"))
    <3>1. (lost => lost') /\ (lost' \/ Untold)
      BY <1>0, <1>u, <2>1, <2>3 DEF Put, ReadsHold
    <3>2. CASE Untold
      BY <1>3, <2>1, <3>1, <3>2
    <3> QED
      BY <1>z, <2>1, <3>1, <3>2
  <2> QED
    BY <1>12, <2>2, <2>3 DEF RequestRaises
<1> QED
  BY <1>1, <1>4, <1>5, <1>6, <1>7, <1>8, <1>9, <1>10, <1>11, <1>12 DEF Next, Task

\* Unless the lease ran out under a live task or a stale write happened, the client
\* gets one completion webhook, and it says what the row says
\* (_notify_responses_completion, its three callers).
THEOREM ClientToldOnce == Spec => []ToldOnce
<1>1. Init => ToldInv
  BY ResponsesAssumption DEF Init, ToldInv, ToldRight, Silent, Requests, Terminal
<1>2. IInv /\ ToldInv /\ [Next]_vars => ToldInv'
  BY ToldStep
<1>3. IInv /\ ToldInv => ToldOnce
  <2> SUFFICES ASSUME IInv, ToldInv, ~late, ~lost
               PROVE  /\ notes["completed"] + notes["failed"] + notes["cancelled"] <= 1
                      /\ \A s \in Terminal : notes[s] > 0 => row \in {s, "none"}
    BY DEF ToldOnce
  <2>1. ToldRight /\ \A s \in Terminal : notes[s] \in 0..2
    BY DEF IInv, TypeOK, ToldInv
  <2>2. /\ notes["completed"] \in 0..1 /\ notes["failed"] \in 0..1 /\ notes["cancelled"] \in 0..1
        /\ ~(notes["completed"] > 0 /\ notes["failed"] > 0)
        /\ ~(notes["completed"] > 0 /\ notes["cancelled"] > 0)
        /\ ~(notes["failed"] > 0 /\ notes["cancelled"] > 0)
    BY <2>1 DEF ToldRight, Terminal
  <2>3. notes["completed"] + notes["failed"] + notes["cancelled"] <= 1
    BY <2>2
  <2> QED
    BY <2>1, <2>3 DEF ToldRight
<1> QED
  BY <1>1, <1>2, <1>3, Invariance, PTL DEF Spec

-----------------------------------------------------------------------------
(***************************************************************************)
(* The audit chain: the rows of a log, in order of seq.                    *)
(***************************************************************************)

\* No two rows share a seq, the primary key.
Unique(rows) == \A r, q \in rows : r.seq = q.seq => r = q

Table(rows) == rows \in SUBSET Rows /\ IsFiniteSet(rows) /\ Unique(rows)

LEMMA PartOfTable ==
    ASSUME NEW rows, Table(rows), NEW part \in SUBSET rows
    PROVE  Table(part)
BY FS_Subset DEF Table, Unique

LEMMA BeforeType ==
    ASSUME NEW rows, Table(rows), NEW r \in rows
    PROVE  /\ r.seq \in Nat /\ r.ts \in Nat
           /\ Table(Before(r, rows)) /\ Before(r, rows) \subseteq rows \ {r}
           /\ Cardinality(Before(r, rows)) \in Nat /\ Cardinality(rows) \in Nat
           /\ Cardinality(Before(r, rows)) + 1 <= Cardinality(rows)
<1>1. r.seq \in Nat /\ r.ts \in Nat /\ IsFiniteSet(rows)
  BY DEF Table, Rows
<1>2. Before(r, rows) \subseteq rows \ {r}
  BY <1>1 DEF Before
<1>3. IsFiniteSet(rows \ {r}) /\ Cardinality(rows \ {r}) = Cardinality(rows) - 1
  BY <1>1, FS_RemoveElement
<1>4. IsFiniteSet(Before(r, rows)) /\ Cardinality(Before(r, rows)) <= Cardinality(rows \ {r})
  BY <1>2, <1>3, FS_Subset
<1>5. /\ Cardinality(Before(r, rows)) \in Nat /\ Cardinality(rows) \in Nat
      /\ Cardinality(rows \ {r}) \in Nat
  BY <1>1, <1>3, <1>4, FS_CardinalityType
<1>6. Table(Before(r, rows))
  BY <1>2, PartOfTable
<1> QED
  BY <1>1, <1>2, <1>3, <1>4, <1>5, <1>6

\* Each number of predecessors belongs to one row.
LEMMA RankOnto ==
    ASSUME NEW rows, Table(rows)
    PROVE  /\ Cardinality(rows) \in Nat
           /\ \A i \in 1..Cardinality(rows) :
                 \E r \in rows : Cardinality(Before(r, rows)) = i - 1
<1> DEFINE n == Cardinality(rows)
           rank == [r \in rows |-> Cardinality(Before(r, rows)) + 1]
<1>1. n \in Nat /\ IsFiniteSet(rows)
  BY FS_CardinalityType DEF Table
<1>2. IsFiniteSet(1..n) /\ Cardinality(1..n) = n
  <2>1. 1 \in Int /\ n \in Int /\ (IF 1 > n THEN 0 ELSE n - 1 + 1) = n
    BY <1>1
  <2> QED
    BY <2>1, FS_Interval
<1>3. \A r \in rows : Cardinality(Before(r, rows)) \in Nat /\ Cardinality(Before(r, rows)) + 1 <= n
  BY BeforeType
<1>4. ASSUME NEW q \in rows, NEW r \in rows, q.seq < r.seq
      PROVE  Cardinality(Before(q, rows)) < Cardinality(Before(r, rows))
  <2>1. q.seq \in Nat /\ r.seq \in Nat /\ \A x \in rows : x.seq \in Nat
    BY BeforeType
  <2>2. Before(q, rows) \subseteq Before(r, rows)
    BY <1>4, <2>1 DEF Before
  <2>3. q \in Before(r, rows) /\ q \notin Before(q, rows)
    BY <1>4, <2>1 DEF Before
  <2>4. IsFiniteSet(Before(r, rows))
    BY BeforeType DEF Table
  <2>5. Cardinality(Before(q, rows)) <= Cardinality(Before(r, rows))
        /\ Cardinality(Before(q, rows)) # Cardinality(Before(r, rows))
    BY <2>2, <2>3, <2>4, FS_Subset
  <2> QED
    BY <1>3, <2>5
<1>5. rank \in [rows -> 1..n]
  BY <1>1, <1>3
<1>6. ASSUME NEW q \in rows, NEW r \in rows, rank[q] = rank[r] PROVE q = r
  <2>1. Cardinality(Before(q, rows)) = Cardinality(Before(r, rows))
    BY <1>3, <1>6
  <2>2. q.seq \in Nat /\ r.seq \in Nat
    BY BeforeType
  <2>3. q.seq = r.seq
    BY <1>3, <1>4, <2>1, <2>2
  <2> QED
    BY <2>3 DEF Table, Unique
<1> HIDE DEF rank
<1>7. rank \in Injection(rows, 1..n)
  BY <1>5, <1>6 DEF Injection, IsInjective
<1>8. rank \in Surjection(rows, 1..n)
  BY <1>2, <1>7, FS_Injection
<1>9. ASSUME NEW i \in 1..n
      PROVE  \E r \in rows : Cardinality(Before(r, rows)) = i - 1
  <2>1. PICK r \in rows : rank[r] = i
    BY <1>8 DEF Surjection
  <2>2. Cardinality(Before(r, rows)) + 1 = i
    BY <2>1 DEF rank
  <2> QED
    BY <1>3, <2>2
<1> QED
  BY <1>1, <1>9

\* A log with rows has a last one.
LEMMA LastIs ==
    ASSUME NEW rows, Table(rows), rows # {}
    PROVE  Last(rows) \in rows /\ \A q \in rows : q.seq <= Last(rows).seq
<1>1. Cardinality(rows) \in Nat /\ Cardinality(rows) # 0
  BY FS_CardinalityType, FS_EmptySet DEF Table
<1>2. PICK r \in rows : Cardinality(Before(r, rows)) = Cardinality(rows) - 1
  BY <1>1, RankOnto
<1>3. IsFiniteSet(rows \ {r}) /\ Cardinality(rows \ {r}) = Cardinality(rows) - 1
  BY FS_RemoveElement DEF Table
<1>4. Before(r, rows) = rows \ {r}
  BY <1>2, <1>3, BeforeType, FS_Subset
<1>5. \A q \in rows : q.seq <= r.seq
  <2>1. TAKE q \in rows
  <2>2. q.seq \in Nat /\ r.seq \in Nat
    BY BeforeType
  <2> QED
    BY <1>4, <2>2 DEF Before
<1> QED
  BY <1>5 DEF Last

LEMMA LastUnique ==
    ASSUME NEW rows, Table(rows), NEW r \in rows, \A q \in rows : q.seq <= r.seq
    PROVE  Last(rows) = r
<1>1. Last(rows) \in rows /\ r.seq <= Last(rows).seq /\ Last(rows).seq <= r.seq
  BY LastIs
<1>2. Last(rows).seq \in Nat /\ r.seq \in Nat
  BY <1>1, BeforeType
<1> QED
  BY <1>1, <1>2 DEF Table, Unique

-----------------------------------------------------------------------------
\* What a chain over a table is.
LEMMA ChainType ==
    ASSUME NEW rows, Table(rows)
    PROVE  Chain(rows) \in Hashes /\ Len(Chain(rows)) = Cardinality(rows)
<1> DEFINE n == Cardinality(rows)
           pair(i) == <<After(i - 1, rows).seq, After(i - 1, rows).ts>>
<1>1. n \in Nat
  BY RankOnto
<1>2. \A i \in 1..n : After(i - 1, rows) \in rows
  BY RankOnto DEF After
<1>3. \A i \in 1..n : pair(i) \in Nat \X Nat
  BY <1>2, BeforeType
<1>4. Chain(rows) = [i \in 1..n |-> pair(i)]
  BY DEF Chain
<1> HIDE DEF pair
<1>5. [i \in 1..n |-> pair(i)] \in [1..n -> Nat \X Nat]
  BY <1>3
<1>6. Chain(rows) \in Seq(Nat \X Nat)
  BY <1>1, <1>4, <1>5, SeqDef
<1> QED
  BY <1>1, <1>4, <1>6, LenProperties DEF Hashes

\* A chain grows by its last row.
LEMMA ChainAppend ==
    ASSUME NEW rows, Table(rows), NEW m \in rows, \A q \in rows : q.seq <= m.seq
    PROVE  Chain(rows) = Append(Chain(rows \ {m}), <<m.seq, m.ts>>)
<1> DEFINE rest == rows \ {m}
           n == Cardinality(rest)
<1>1. Table(rest)
  BY PartOfTable
<1>2. Cardinality(rows) = n + 1 /\ n \in Nat
  BY <1>1, RankOnto, FS_RemoveElement DEF Table
<1>3. \A r \in rows : r.seq \in Nat /\ r.ts \in Nat
  BY BeforeType
<1>4. \A r \in rest : r.seq < m.seq
  BY <1>3 DEF Table, Unique
<1>5. Before(m, rows) = rest
  BY <1>3, <1>4 DEF Before
<1>6. \A r \in rest : Before(r, rows) = Before(r, rest)
  BY <1>3, <1>4 DEF Before
<1>7. \A r \in rest : Cardinality(Before(r, rest)) \in Nat /\ Cardinality(Before(r, rest)) < n
  <2>1. TAKE r \in rest
  <2>2. Cardinality(Before(r, rest)) \in Nat /\ Cardinality(Before(r, rest)) + 1 <= n
    BY <1>1, BeforeType
  <2> QED
    BY <1>2, <2>2
<1>8. ASSUME NEW i \in 1..n PROVE After(i - 1, rows) = After(i - 1, rest)
  <2>1. i - 1 < n /\ i - 1 # n
    BY <1>2
  <2>2. \A r : (r \in rows /\ Cardinality(Before(r, rows)) = i - 1)
                 <=> (r \in rest /\ Cardinality(Before(r, rest)) = i - 1)
    BY <1>5, <1>6, <2>1
  <2> QED
    BY <2>2 DEF After
<1>9. After(n, rows) = m
  <2>1. \A r \in rows : Cardinality(Before(r, rows)) = n <=> r = m
    <3>1. TAKE r \in rows
    <3>2. CASE r = m
      BY <1>5, <3>2
    <3>3. CASE r \in rest
      BY <1>2, <1>6, <1>7, <3>3
    <3> QED
      BY <3>2, <3>3
  <2> HIDE DEF rest
  <2> QED
    BY <2>1 DEF After
<1> DEFINE pair(t, k) == <<After(k, t).seq, After(k, t).ts>>
           old(i) == pair(rest, i - 1)
           new(i) == pair(rows, i - 1)
<1>10. Chain(rest) = [i \in 1..n |-> old(i)] /\ Chain(rows) = [i \in 1..(n + 1) |-> new(i)]
  BY <1>2 DEF Chain
<1>11. \A i \in 1..n : new(i) = old(i)
  BY <1>8
<1>a. pair(rows, n) = <<m.seq, m.ts>>
  BY <1>9
<1> HIDE DEF pair
<1>b. new(n + 1) = <<m.seq, m.ts>>
  <2>1. n + 1 - 1 = n
    BY <1>2
  <2> QED
    BY <1>2, <1>a, <2>1
<1> HIDE DEF old, new
<1> DEFINE p == <<m.seq, m.ts>>
<1>12. Chain(rest) \in Seq(Nat \X Nat) /\ Len(Chain(rest)) = n /\ p \in Nat \X Nat
  BY <1>1, <1>3, ChainType DEF Hashes
<1> HIDE DEF rest
<1>13. /\ Append(Chain(rest), p) \in Seq(Nat \X Nat) /\ Len(Append(Chain(rest), p)) = n + 1
       /\ \A i \in 1..n : Append(Chain(rest), p)[i] = Chain(rest)[i]
       /\ Append(Chain(rest), p)[n + 1] = p
  BY <1>12, AppendProperties
<1>14. Chain(rows) \in Seq(Nat \X Nat) /\ Len(Chain(rows)) = n + 1
  BY <1>2, ChainType DEF Hashes
<1>15. \A i \in 1..(n + 1) : Chain(rows)[i] = Append(Chain(rest), p)[i]
  <2>1. TAKE i \in 1..(n + 1)
  <2>2. CASE i = n + 1
    BY <1>2, <1>10, <1>b, <1>13, <2>2
  <2>3. CASE i # n + 1
    <3>1. i \in 1..n
      BY <1>2, <2>3
    <3> QED
      BY <1>2, <1>10, <1>11, <1>13, <3>1
  <2> QED
    BY <2>2, <2>3
<1>16. Chain(rows) = Append(Chain(rest), p)
  BY <1>13, <1>14, <1>15, SeqEqual
<1> QED
  BY <1>16 DEF rest

LEMMA ChainEmpty == Chain({}) = Genesis
<1>1. Table({})
  BY FS_EmptySet DEF Table, Unique
<1>2. Chain({}) \in Seq(Nat \X Nat) /\ Len(Chain({})) = 0
  BY <1>1, ChainType, FS_EmptySet DEF Hashes
<1> QED
  BY <1>2, EmptySeq DEF Genesis

-----------------------------------------------------------------------------
\* What a row becomes when the chain is hashed again.
Rehashed(r, rows) ==
    IF r.hash = NoHash THEN r ELSE Row(r.seq, r.ts, Chain(Before(r, Hashed(rows))))

LEMMA RehashedIs ==
    ASSUME NEW rows, Table(rows), NEW r \in rows
    PROVE  /\ Rehashed(r, rows) \in Rows
           /\ Rehashed(r, rows).seq = r.seq /\ Rehashed(r, rows).ts = r.ts
           /\ Rehashed(r, rows).hash = NoHash <=> r.hash = NoHash
           /\ r.hash # NoHash =>
                 /\ Rehashed(r, rows).prev = Chain(Before(r, Hashed(rows)))
                 /\ Rehashed(r, rows).hash =
                       compute_row_hash(r.seq, r.ts, Chain(Before(r, Hashed(rows))))
<1>0. r \in Rows /\ r.seq \in Nat /\ r.ts \in Nat /\ NoHash \notin Hashes
  BY BeforeType, AuditAssumption DEF Table, Hashes
<1>1. CASE r.hash = NoHash
  BY <1>0, <1>1 DEF Rehashed
<1>2. CASE r.hash # NoHash
  <2> DEFINE prev == Chain(Before(r, Hashed(rows)))
  <2>1. Before(r, Hashed(rows)) \in SUBSET rows
    BY DEF Before, Hashed
  <2>2. prev \in Hashes
    BY <2>1, PartOfTable, ChainType
  <2>3. compute_row_hash(r.seq, r.ts, prev) \in Hashes
    BY <1>0, <2>2, AppendProperties DEF compute_row_hash, Hashes
  <2>4. Rehashed(r, rows) = [seq |-> r.seq, ts |-> r.ts, prev |-> prev,
                             hash |-> compute_row_hash(r.seq, r.ts, prev)]
    BY <1>2 DEF Rehashed, Row
  <2> HIDE DEF prev
  <2>5. Rehashed(r, rows) \in Rows
    BY <1>0, <2>2, <2>3, <2>4 DEF Rows
  <2> QED
    BY <1>0, <1>2, <2>3, <2>4, <2>5 DEF prev
<1> QED
  BY <1>1, <1>2

\* A chain that was hashed again has the same rows, and every hash of it matches.
LEMMA Reanchored ==
    ASSUME NEW rows, Table(rows), NEW new, new = _reanchor_chain(rows)
    PROVE  /\ new = {Rehashed(r, rows) : r \in rows}
           /\ Table(new)
           /\ \A r \in new : ~Mismatch(r, new)
<1>1. new = {Rehashed(r, rows) : r \in rows}
  BY DEF _reanchor_chain, Rehashed, Hashed
<1>2. \A q, r \in rows : Rehashed(q, rows).seq = Rehashed(r, rows).seq => q = r
  BY RehashedIs DEF Table, Unique
<1>3. Unique(new) /\ new \in SUBSET Rows
  BY <1>1, <1>2, RehashedIs DEF Unique
<1>4. IsFiniteSet(new)
  <2> DEFINE f == [r \in rows |-> Rehashed(r, rows)]
  <2>1. f \in Surjection(rows, new)
    BY <1>1 DEF Surjection
  <2> QED
    BY <2>1, FS_Surjection DEF Table
<1>5. Table(new)
  BY <1>3, <1>4 DEF Table
<1>6. ASSUME NEW r \in rows, r.hash # NoHash
      PROVE  Tip(Before(Rehashed(r, rows), new)) = Chain(Before(r, Hashed(rows)))
  <2> DEFINE old == Before(r, Hashed(rows))
             hashed == Hashed(Before(Rehashed(r, rows), new))
  <2>1. hashed = {Rehashed(q, rows) : q \in old}
    <3>1. ASSUME NEW q \in rows
          PROVE  q \in old <=> Rehashed(q, rows) \in hashed
      <4>1. Rehashed(q, rows) \in new
        BY <1>1
      <4> QED
        BY <4>1, RehashedIs DEF Before, Hashed
    <3>2. old \subseteq rows /\ hashed \subseteq new
      BY DEF Before, Hashed
    <3> QED
      BY <1>1, <3>1, <3>2
  <2>2. CASE old = {}
    <3>1. hashed = {}
      BY <2>1, <2>2
    <3> QED
      BY <2>2, <3>1, ChainEmpty DEF Tip
  <2>3. CASE old # {}
    <3>1. Table(old) /\ old \subseteq rows /\ old \subseteq Hashed(rows)
      <4>1. old \in SUBSET rows
        BY DEF Before, Hashed
      <4> QED
        BY <4>1, PartOfTable DEF Before
    <3> DEFINE m == Last(old)
    <3>2. m \in old /\ \A q \in old : q.seq <= m.seq
      BY <2>3, <3>1, LastIs
    <3>3. Before(m, Hashed(rows)) = old \ {m}
      <4>1. \A q \in Hashed(rows) : q \in rows /\ q.seq \in Nat
        BY BeforeType DEF Hashed
      <4>2. r.seq \in Nat /\ m \in Hashed(rows) /\ m.seq < r.seq
        BY <3>1, <3>2, BeforeType DEF Before
      <4>3. ASSUME NEW q \in Hashed(rows)
            PROVE  q.seq < m.seq <=> q.seq < r.seq /\ q # m
        <5>1. q.seq \in Nat /\ m.seq \in Nat /\ (q.seq = m.seq => q = m)
          BY <4>1, <4>2 DEF Table, Unique
        <5>2. q.seq < r.seq => q.seq <= m.seq
          BY <3>2 DEF Before
        <5> HIDE DEF m
        <5> QED
          BY <4>2, <5>1, <5>2
      <4> QED
        BY <4>2, <4>3 DEF Before
    <3> HIDE DEF m
    <3>4. Chain(old) = Append(Chain(old \ {m}), <<m.seq, m.ts>>)
      BY <3>1, <3>2, ChainAppend
    <3>5. m \in rows /\ m.hash # NoHash
      BY <3>1, <3>2 DEF Hashed
    <3>6. Rehashed(m, rows).hash = Chain(old)
      BY <3>3, <3>4, <3>5, RehashedIs DEF compute_row_hash
    <3>7. Table(hashed)
      <4>1. hashed \in SUBSET new
        BY DEF Before, Hashed
      <4> QED
        BY <1>5, <4>1, PartOfTable
    <3>8. Rehashed(m, rows) \in hashed /\ \A q \in hashed : q.seq <= Rehashed(m, rows).seq
      <4>1. \A q \in old : Rehashed(q, rows).seq <= Rehashed(m, rows).seq
        BY <3>1, <3>2, <3>5, RehashedIs
      <4> HIDE DEF hashed
      <4> QED
        BY <2>1, <3>2, <4>1
    <3>9. Last(hashed) = Rehashed(m, rows)
      BY <3>7, <3>8, LastUnique
    <3> QED
      BY <3>6, <3>8, <3>9 DEF Tip
  <2> QED
    BY <2>2, <2>3
<1>7. ASSUME NEW r \in new PROVE ~Mismatch(r, new)
  <2>1. PICK q \in rows : r = Rehashed(q, rows)
    BY <1>1
  <2> QED
    BY <1>6, <2>1, RehashedIs DEF Mismatch
<1> QED
  BY <1>1, <1>5, <1>7

-----------------------------------------------------------------------------
LEMMA LeastNat ==
    ASSUME NEW T, T \subseteq Nat, T # {}
    PROVE  \E n \in T : \A k \in T : n <= k
<1> DEFINE less == OpToRel(<, Nat)
<1>1. IsWellFoundedOn(less, Nat)
  BY NatLessThanWellFounded
<1> HIDE DEF less
<1>2. PICK n \in T : \A k \in T : <<k, n>> \notin less
  BY <1>1, WFMin
<1>3. \A k \in T : ~(k < n)
  BY <1>2 DEF less, OpToRel
<1> QED
  BY <1>2, <1>3

\* No row breaks the chain.
Linked(rows) == \A r \in rows : ~Gap(r, rows) /\ ~Mismatch(r, rows)

LEMMA VerifyOk ==
    ASSUME NEW rows
    PROVE  verify(rows) = "ok" <=> Linked(rows)
<1> DEFINE broken == {r \in rows : Gap(r, rows) \/ Mismatch(r, rows)}
<1>1. broken = {} <=> Linked(rows)
  BY DEF Linked
<1>2. verify(rows) = "ok" <=> broken = {}
  BY DEF verify
<1> QED
  BY <1>1, <1>2

\* Without a mismatch, what verify finds first is a gap.
LEMMA VerifyMatch ==
    ASSUME NEW rows, Table(rows), \A r \in rows : ~Mismatch(r, rows)
    PROVE  verify(rows) # "hash_mismatch"
<1> DEFINE broken == {r \in rows : Gap(r, rows) \/ Mismatch(r, rows)}
           first == CHOOSE r \in broken : \A q \in broken : r.seq <= q.seq
<1>1. CASE broken = {}
  BY <1>1 DEF verify
<1>2. CASE broken # {}
  <2> DEFINE seqs == {r.seq : r \in broken}
  <2>1. seqs \subseteq Nat /\ seqs # {}
    BY <1>2, BeforeType
  <2> HIDE DEF seqs
  <2>3. PICK n \in seqs : \A k \in seqs : n <= k
    BY <2>1, LeastNat
  <2>5. \E r \in broken : \A q \in broken : r.seq <= q.seq
    BY <2>3 DEF seqs
  <2>6. first \in broken
    BY <2>5
  <2>7. Gap(first, rows)
    BY <2>6
  <2> HIDE DEF first
  <2>8. verify(rows) = "seq_gap"
    BY <1>2, <2>7 DEF verify, first
  <2> QED
    BY <2>8
<1> QED
  BY <1>1, <1>2

\* A row that comes after all others changes nothing for them.
LEMMA LaterRow ==
    ASSUME NEW rows, Table(rows), NEW x \in Rows, \A q \in rows : q.seq < x.seq
    PROVE  /\ Table(rows \cup {x}) /\ Before(x, rows \cup {x}) = rows
           /\ \A r \in rows : /\ Gap(r, rows \cup {x}) <=> Gap(r, rows)
                              /\ Mismatch(r, rows \cup {x}) <=> Mismatch(r, rows)
<1>0. x.seq \in Nat /\ \A q \in rows : q.seq \in Nat
  BY BeforeType DEF Rows
<1>1. Table(rows \cup {x})
  BY <1>0, FS_AddElement DEF Table, Unique
<1>2. Before(x, rows \cup {x}) = rows
  BY <1>0 DEF Before
<1>3. \A r \in rows : Before(r, rows \cup {x}) = Before(r, rows)
  BY <1>0 DEF Before
<1>4. \A r \in rows : x.seq + 1 # r.seq
  BY <1>0
<1> QED
  BY <1>1, <1>2, <1>3, <1>4 DEF Gap, Mismatch

LEMMA NextSeqIs ==
    ASSUME NEW rows, Table(rows)
    PROVE  /\ NextSeq(rows) \in Nat /\ NextSeq(rows) > 0
           /\ \A q \in rows : q.seq < NextSeq(rows)
<1>1. CASE rows = {}
  BY <1>1 DEF NextSeq
<1>2. CASE rows # {}
  <2>1. Last(rows) \in rows /\ \A q \in rows : q.seq <= Last(rows).seq
    BY <1>2, LastIs
  <2>2. \A q \in rows : q.seq \in Nat
    BY BeforeType
  <2> QED
    BY <1>2, <2>1, <2>2 DEF NextSeq
<1> QED
  BY <1>1, <1>2

LEMMA TipIs ==
    ASSUME NEW rows, Table(rows)
    PROVE  Tip(rows) \in Hashes
<1>1. Hashed(rows) \in SUBSET rows
  BY DEF Hashed
<1>2. Hashed(rows) # {} => Last(Hashed(rows)) \in Hashed(rows)
  BY <1>1, PartOfTable, LastIs
<1>3. \A r \in Hashed(rows) : r.hash \in Hashes
  BY DEF Hashed, Table, Rows
<1>4. Genesis \in Hashes
  BY EmptySeq DEF Genesis, Hashes
<1> QED
  BY <1>2, <1>3, <1>4 DEF Tip

\* A hash commits to its own row at least.
LEMMA HashIs ==
    ASSUME NEW seq \in Nat, NEW ts \in Nat, NEW prev \in Hashes
    PROVE  compute_row_hash(seq, ts, prev) \in Hashes \ {Genesis, NoHash}
<1>1. prev \in Seq(Nat \X Nat) /\ <<seq, ts>> \in Nat \X Nat
  BY DEF Hashes
<1>2. /\ Append(prev, <<seq, ts>>) \in Seq(Nat \X Nat)
      /\ Append(prev, <<seq, ts>>) # << >>
  BY <1>1, AppendProperties
<1>3. NoHash \notin Seq(Nat \X Nat)
  BY AuditAssumption
<1> QED
  BY <1>2, <1>3 DEF compute_row_hash, Hashes, Genesis

LEMMA RowType ==
    ASSUME NEW seq \in Nat, NEW ts \in Nat, NEW prev \in Hashes
    PROVE  /\ Row(seq, ts, prev) \in Rows /\ Row(seq, ts, prev).hash # NoHash
           /\ Row(seq, ts, prev).seq = seq /\ Row(seq, ts, prev).ts = ts
           /\ Row(seq, ts, prev).prev = prev
           /\ Row(seq, ts, prev).hash = compute_row_hash(seq, ts, prev)
<1>1. compute_row_hash(seq, ts, prev) \in Hashes \ {Genesis, NoHash}
  BY HashIs
<1> QED
  BY <1>1 DEF Row, Rows

\* A row that knows the last one keeps the chain.
LEMMA AppendLinked ==
    ASSUME NEW rows, Table(rows), Linked(rows), NEW ts \in Nat
    PROVE  Linked(rows \cup {Row(NextSeq(rows), ts, Tip(rows))})
<1> DEFINE x == Row(NextSeq(rows), ts, Tip(rows))
<1>1. x \in Rows /\ x.seq = NextSeq(rows) /\ x.prev = Tip(rows)
      /\ x.hash = compute_row_hash(x.seq, x.ts, x.prev)
  BY NextSeqIs, TipIs, RowType
<1>2. \A q \in rows : q.seq < x.seq
  BY <1>1, NextSeqIs
<1> HIDE DEF x
<1>3. /\ Before(x, rows \cup {x}) = rows
      /\ \A r \in rows : ~Gap(r, rows \cup {x}) /\ ~Mismatch(r, rows \cup {x})
  BY <1>1, <1>2, LaterRow DEF Linked
<1>4. ~Mismatch(x, rows \cup {x})
  BY <1>1, <1>3 DEF Mismatch
<1>5. ~Gap(x, rows \cup {x})
  <2>1. rows # {} => Last(rows) \in rows /\ Last(rows).seq + 1 = x.seq
    BY <1>1, LastIs DEF NextSeq
  <2> QED
    BY <1>3, <2>1 DEF Gap
<1>6. Linked(rows \cup {x})
  BY <1>3, <1>4, <1>5 DEF Linked
<1> QED
  BY <1>6 DEF x

\* Old rows can go: their successors are hashed again.
LEMMA PruneLinked ==
    ASSUME NEW rows, Table(rows), Linked(rows), NEW cutoff \in Nat,
           \A r, q \in rows : r.seq < q.seq => r.ts < q.ts
    PROVE  Linked(_reanchor_chain(rows \ Doomed(rows, cutoff)))
<1> DEFINE left == rows \ Doomed(rows, cutoff)
           new == _reanchor_chain(left)
<1>1. Table(left) /\ \A r \in rows : r.seq \in Nat /\ r.ts \in Nat
  BY PartOfTable, BeforeType
<1>2. ASSUME NEW r \in left PROVE ~Gap(r, left)
  <2>1. SUFFICES ASSUME NEW x \in left, x.seq < r.seq
                 PROVE  \E q \in left : q.seq + 1 = r.seq
    BY DEF Gap, Before
  <2>2. PICK q \in rows : q.seq + 1 = r.seq
    BY <2>1 DEF Linked, Gap, Before
  <2>3. q = x \/ x.seq < q.seq
    BY <1>1, <2>1, <2>2 DEF Table, Unique
  <2>4. q.ts >= x.ts /\ ~(x.ts < cutoff)
    BY <1>1, <2>1, <2>3 DEF Doomed
  <2>5. q \in left
    BY <1>1, <2>4 DEF Doomed
  <2> QED
    BY <2>2, <2>5
<1> HIDE DEF left
<1>3. /\ new = {Rehashed(r, left) : r \in left}
      /\ \A r \in new : ~Mismatch(r, new)
  BY <1>1, Reanchored
<1> HIDE DEF new
<1>4. ASSUME NEW r \in left PROVE ~Gap(Rehashed(r, left), new)
  <2>1. \A q \in left : Rehashed(q, left) \in new /\ Rehashed(q, left).seq = q.seq
    BY <1>1, <1>3, RehashedIs
  <2>2. \A p \in new : \E q \in left : p.seq = q.seq
    BY <1>1, <1>3, RehashedIs
  <2> QED
    BY <1>2, <2>1, <2>2 DEF Gap, Before
<1>5. Linked(new)
  BY <1>3, <1>4 DEF Linked
<1> QED
  BY <1>5 DEF new, left

\* A hashed row that was changed breaks the chain.
LEMMA ChangedBreaks ==
    ASSUME NEW rows, Table(rows), Linked(rows), NEW r \in Hashed(rows), r.ts > 0
    PROVE  ~Linked((rows \ {r}) \cup {[r EXCEPT !.ts = 0]})
<1> DEFINE x == [r EXCEPT !.ts = 0]
           new == (rows \ {r}) \cup {x}
<1>0. r \in rows /\ r \in Rows /\ r.hash # NoHash /\ r.seq \in Nat /\ r.ts \in Nat
  BY DEF Hashed, Table, Rows
<1>1. x.seq = r.seq /\ x.ts = 0 /\ x.prev = r.prev /\ x.hash = r.hash
  BY <1>0 DEF Rows
<1>2. r.hash = compute_row_hash(r.seq, r.ts, r.prev) /\ r.prev = Tip(Before(r, rows))
  BY <1>0 DEF Linked, Mismatch
<1>3. r.prev \in Seq(Nat \X Nat)
  BY <1>0, <1>2, BeforeType, TipIs DEF Hashes
<1>4. compute_row_hash(r.seq, r.ts, r.prev) # compute_row_hash(r.seq, 0, r.prev)
  <2>1. <<r.seq, r.ts>> \in Nat \X Nat /\ <<r.seq, 0>> \in Nat \X Nat
        /\ <<r.seq, r.ts>> # <<r.seq, 0>>
    BY <1>0
  <2> QED
    BY <1>3, <2>1, AppendInjective DEF compute_row_hash
<1>5. Mismatch(x, new)
  BY <1>0, <1>1, <1>2, <1>4 DEF Mismatch
<1> QED
  BY <1>5 DEF Linked

\* So does a hashed row that was removed, unless it was the last.
LEMMA RemovedBreaks ==
    ASSUME NEW rows, Table(rows), Linked(rows), NEW r \in Hashed(rows), r # Last(rows),
           \A p, q \in rows : p.hash # NoHash /\ p.seq < q.seq => q.hash # NoHash
    PROVE  ~Linked(rows \ {r})
<1> DEFINE m == Last(rows)
           new == rows \ {r}
<1>0. r \in rows /\ r.hash # NoHash /\ \A q \in rows : q.seq \in Nat
  BY BeforeType DEF Hashed
<1>1. m \in rows /\ r.seq < m.seq
  <2>1. m \in rows /\ r.seq <= m.seq
    BY <1>0, LastIs
  <2> QED
    BY <1>0, <2>1 DEF Table, Unique
<1> HIDE DEF m
<1> DEFINE seqs == {q.seq : q \in {p \in rows : r.seq < p.seq}}
<1>2. seqs \subseteq Nat /\ seqs # {}
  BY <1>0, <1>1
<1> HIDE DEF seqs
<1>3. PICK n \in seqs : \A k \in seqs : n <= k
  BY <1>2, LeastNat
\* The row that came after it.
<1>6. PICK q \in rows : r.seq < q.seq /\ \A p \in rows : r.seq < p.seq => q.seq <= p.seq
  BY <1>3 DEF seqs
<1>7. Before(q, rows) = Before(r, rows) \cup {r} /\ r \notin Before(r, rows)
  BY <1>0, <1>6 DEF Before, Table, Unique
<1>8. q \in new /\ Before(q, new) = Before(r, rows) /\ q.hash # NoHash
  BY <1>0, <1>6, <1>7 DEF Before
<1>9. CASE Before(r, rows) = {}
  <2>1. Tip(Before(q, new)) = Genesis
    BY <1>8, <1>9 DEF Tip, Hashed
  <2>2. q.prev = Tip({r})
    BY <1>6, <1>7, <1>8, <1>9 DEF Linked, Mismatch
  <2>3. Last({r}) = r /\ Hashed({r}) = {r}
    BY <1>0 DEF Last, Hashed
  <2>4. q.prev = compute_row_hash(r.seq, r.ts, r.prev) /\ r.prev = Tip({})
    BY <1>0, <1>9, <2>2, <2>3 DEF Tip, Linked, Mismatch
  <2>5. q.prev # Genesis
    <3>1. r.ts \in Nat /\ Table(Before(r, rows))
      BY <1>0, BeforeType
    <3>2. r.prev \in Hashes
      BY <1>9, <2>4, <3>1, TipIs
    <3> QED
      BY <1>0, <2>4, <3>1, <3>2, HashIs
  <2>7. Mismatch(q, new)
    BY <1>8, <2>1, <2>5 DEF Mismatch
  <2> QED
    BY <1>8, <2>7 DEF Linked
<1>10. CASE Before(r, rows) # {}
  <2>1. \A p \in new : p.seq + 1 # q.seq
    <3>1. SUFFICES ASSUME NEW p \in new, p.seq + 1 = q.seq PROVE FALSE
      OBVIOUS
    <3>2. p.seq \in Nat /\ q.seq \in Nat /\ r.seq \in Nat /\ p.seq # r.seq
      BY <1>0 DEF Table, Unique
    <3>3. r.seq < p.seq \/ p.seq < r.seq
      BY <3>2
    <3>4. CASE r.seq < p.seq
      BY <1>6, <3>1, <3>2, <3>4
    <3>5. CASE p.seq < r.seq
      BY <1>6, <3>1, <3>2, <3>5
    <3> QED
      BY <3>3, <3>4, <3>5
  <2>2. Gap(q, new)
    BY <1>8, <1>10, <2>1 DEF Gap
  <2> QED
    BY <1>8, <2>2 DEF Linked
<1> QED
  BY <1>9, <1>10

-----------------------------------------------------------------------------
(***************************************************************************)
(* The inductive invariant. A chain grows right if the tip and the seq     *)
(* that a writer has read are still those of the log when it inserts: in   *)
(* Postgres by the lock, in SQLite only if nothing has overlapped. A prune *)
(* leaves no gap if the time stamps ascend with the seq.                   *)
(***************************************************************************)
Postgres == backend = "postgres"

LogSound ==
    /\ Table(log)
    /\ ~tampered => \A r \in log : r.ts > 0 /\ r.ts <= clock
    /\ pruning > 0 => Postgres /\ scanned \subseteq log /\ Doomed(scanned, pruning) # {}

\* Where a writer is tells whether it has a stamp, and in Postgres the lock.
WriterSound ==
    /\ Postgres => \A w \in Writers : at[w] \in {"tip", "max", "insert"} => holder = w
    /\ ~Postgres => \A w \in Writers : at[w] \in {"idle", "max", "insert"}
    /\ \A w \in Writers : stamp[w] > 0 <=>
          (Postgres /\ at[w] # "idle") \/ (~Postgres /\ at[w] = "insert")
    /\ \A w \in Writers : stamp[w] <= clock

\* The seq of a writer is free.
FreshSeq ==
    Postgres \/ "append" \notin overlap =>
        \A w \in Writers, r \in log : at[w] = "insert" => r.seq < next_seq[w]

Undisturbed == ~tampered /\ (overlap = {} \/ (Postgres /\ gone = {}))

ChainInv ==
    Undisturbed =>
        /\ Linked(log)
        /\ \A r, q \in log : r.hash # NoHash /\ r.seq < q.seq => q.hash # NoHash
        /\ \A w \in Writers : at[w] \in {"max", "insert"} => tip[w] = Tip(log)
        /\ \A w \in Writers : at[w] = "insert" => next_seq[w] = NextSeq(log)

\* Without overlaps stamps and seqs ascend together.
Ordered ==
    overlap = {} /\ ~tampered =>
        /\ \A r, q \in log : r.seq < q.seq => r.ts < q.ts
        /\ \A w \in Writers, r \in log : stamp[w] > 0 => r.ts < stamp[w]
        /\ pruning > 0 => scanned = log
        /\ Postgres => \A v, w \in Writers : stamp[v] > 0 /\ stamp[w] > 0 => v = w

\* A row that somebody changed, or whose predecessor is gone, stays wrong.
Found == tampered /\ gone = {} /\ overlap = {} => ~Linked(log)

AuditInv ==
    /\ AuditTypeOK /\ LogSound /\ WriterSound /\ FreshSeq
    /\ ChainInv /\ Ordered /\ NothingLost /\ Found

LEMMA AuditInitInv == AuditInit => AuditInv
<1> SUFFICES ASSUME AuditInit PROVE AuditInv
  OBVIOUS
<1> USE DEF AuditInit
<1>1. PICK n \in 0..MaxLegacy :
         /\ log = {[seq |-> i, ts |-> i, prev |-> NoHash, hash |-> NoHash] : i \in 1..n}
         /\ clock = n
  OBVIOUS
<1>2. n \in Nat
  BY <1>1, AuditAssumption
<1>3. /\ \A r \in log : /\ r.seq \in 1..n /\ r.ts = r.seq /\ r.hash = NoHash /\ r.prev = NoHash
                        /\ r \in Rows
      /\ \A i \in 1..n : \E r \in log : r.seq = i /\ r.ts = i
  <2>1. \A i \in 1..n : i \in Nat /\ [seq |-> i, ts |-> i, prev |-> NoHash, hash |-> NoHash] \in Rows
    BY <1>2 DEF Rows
  <2>2. \A r \in log : \E i \in 1..n : r = [seq |-> i, ts |-> i, prev |-> NoHash, hash |-> NoHash]
    BY <1>1
  <2>3. \A i \in 1..n : [seq |-> i, ts |-> i, prev |-> NoHash, hash |-> NoHash] \in log
    BY <1>1
  <2>4. \A i \in 1..n : \E r \in log : r.seq = i /\ r.ts = i
    BY <2>3
  <2> QED
    BY <2>1, <2>2, <2>4
<1>4. Table(log)
  <2> DEFINE f == [i \in 1..n |-> [seq |-> i, ts |-> i, prev |-> NoHash, hash |-> NoHash]]
  <2>1. f \in Surjection(1..n, log)
    BY <1>1 DEF Surjection
  <2>2. IsFiniteSet(1..n)
    BY <1>2, FS_Interval
  <2>3. IsFiniteSet(log)
    BY <2>1, <2>2, FS_Surjection
  <2>4. Unique(log)
    BY <1>1 DEF Unique
  <2> QED
    BY <1>3, <2>3, <2>4 DEF Table
<1>5. AuditTypeOK
  <2>1. Genesis \in Hashes
    BY EmptySeq DEF Genesis, Hashes
  <2>2. log \in SUBSET Rows
    BY <1>3
  <2> QED
    BY <1>1, <1>2, <2>1, <2>2 DEF AuditTypeOK
<1>6. LogSound
  BY <1>1, <1>2, <1>3, <1>4 DEF LogSound
<1>7. WriterSound /\ FreshSeq
  BY <1>1, <1>2 DEF WriterSound, FreshSeq, Postgres
<1>8. ChainInv
  <2>1. Linked(log)
    <3>1. ASSUME NEW r \in log PROVE ~Gap(r, log)
      <4>1. SUFFICES ASSUME NEW q \in log, q.seq < r.seq
                     PROVE  \E p \in log : p.seq + 1 = r.seq
        BY DEF Gap, Before
      <4>2. r.seq - 1 \in 1..n /\ r.seq - 1 + 1 = r.seq
        BY <1>2, <1>3, <4>1
      <4>3. PICK p \in log : p.seq = r.seq - 1
        BY <1>3, <4>2
      <4> QED
        BY <4>2, <4>3
    <3> QED
      BY <1>3, <3>1 DEF Linked, Mismatch
  <2> QED
    BY <1>3, <2>1 DEF ChainInv
<1>9. Ordered
  BY <1>3 DEF Ordered
<1>10. NothingLost
  BY <1>1, <1>2, <1>3 DEF NothingLost, Lost
<1> QED
  BY <1>4, <1>5, <1>6, <1>7, <1>8, <1>9, <1>10 DEF AuditInv, Found

-----------------------------------------------------------------------------
LEMMA AuditTypeStep == AuditInv /\ [AuditNext]_auditVars => AuditTypeOK'
<1> SUFFICES ASSUME AuditInv, [AuditNext]_auditVars PROVE AuditTypeOK'
  OBVIOUS
<1> USE DEF AuditTypeOK, Goto, Note
<1>0. AuditTypeOK /\ Table(log) /\ Genesis \in Hashes /\ (pruning > 0 => scanned \subseteq log)
  BY EmptySeq DEF AuditInv, LogSound, Genesis, Hashes
<1>1. ASSUME NEW w \in Writers, Begin(w) PROVE AuditTypeOK'
  BY <1>0, <1>1 DEF Begin, Stamp
<1>2. ASSUME NEW w \in Writers, Lock(w) PROVE AuditTypeOK'
  BY <1>0, <1>2 DEF Lock
<1>3. ASSUME NEW w \in Writers, ReadTip(w) PROVE AuditTypeOK'
  <2>1. Tip(log) \in Hashes
    BY <1>0, TipIs
  <2> QED
    BY <1>0, <1>3, <2>1 DEF ReadTip
<1>4. ASSUME NEW w \in Writers, ReadMax(w) PROVE AuditTypeOK'
  <2>1. NextSeq(log) \in Nat
    BY <1>0, NextSeqIs
  <2> QED
    BY <1>0, <1>4, <2>1 DEF ReadMax, Stamp
<1>5. ASSUME NEW w \in Writers, Insert(w) PROVE AuditTypeOK'
  <2>1. Row(next_seq[w], stamp[w], tip[w]) \in Rows
    BY <1>0, RowType
  <2>2. log' \in SUBSET Rows
    BY <1>0, <1>5, <2>1 DEF Insert
  <2>4. overlap' \in SUBSET {"append", "prune", "stamp"}
    BY <1>0, <1>5 DEF Insert
  <2>5. fails' \in Nat
    BY <1>0, <1>5 DEF Insert
  <2>3. UNCHANGED <<backend, clock, pruning, scanned, gone, tampered, prunes>> /\ Return(w)
    BY <1>5 DEF Insert
  <2> QED
    BY <1>0, <2>2, <2>3, <2>4, <2>5 DEF Return
<1>6. ASSUME NEW rows \in SUBSET log, NEW c
      PROVE  /\ _reanchor_chain(rows \ Doomed(rows, c)) \in SUBSET Rows
             /\ {r.ts : r \in Doomed(rows, c)} \in SUBSET Nat
  <2>1. Table(rows \ Doomed(rows, c))
    BY <1>0, PartOfTable
  <2>2. _reanchor_chain(rows \ Doomed(rows, c)) \in SUBSET Rows
    BY <2>1, Reanchored DEF Table
  <2>3. \A r \in Doomed(rows, c) : r.ts \in Nat
    BY <1>0 DEF Doomed, Rows
  <2> QED
    BY <2>2, <2>3
<1>7. CASE Prune
  <2>1. PICK c \in Cutoffs : log' = _reanchor_chain(log \ Doomed(log, c)) /\ PruneDone(log, c)
    BY <1>7 DEF Prune
  <2>2. log' \in SUBSET Rows /\ gone' \in SUBSET Nat
    BY <1>0, <1>6, <2>1 DEF PruneDone
  <2>3. overlap' \in SUBSET {"append", "prune", "stamp"} /\ prunes' \in Nat
    BY <1>0, <2>1 DEF PruneDone
  <2> QED
    BY <1>0, <1>7, <2>2, <2>3 DEF Prune
<1>8. CASE PruneScan
  <2>1. PICK c \in Cutoffs : pruning' = c /\ scanned' = log
    BY <1>8 DEF PruneScan
  <2>2. c \in Nat
    BY <1>0, <2>1 DEF Cutoffs
  <2> QED
    BY <1>0, <1>8, <2>1, <2>2 DEF PruneScan
<1>9. CASE PruneCommit
  <2>1. log' \in SUBSET Rows /\ gone' \in SUBSET Nat
    BY <1>0, <1>6, <1>9 DEF PruneCommit, PruneDone
  <2>2. overlap' \in SUBSET {"append", "prune", "stamp"} /\ prunes' \in Nat
    BY <1>0, <1>9 DEF PruneCommit, PruneDone
  <2> QED
    BY <1>0, <1>9, <2>1, <2>2 DEF PruneCommit
<1>10. CASE Tamper
  <2>1. \A r \in log : [r EXCEPT !.ts = 0] \in Rows
    BY <1>0 DEF Rows
  <2>2. log' \in SUBSET Rows
    BY <1>0, <1>10, <2>1 DEF Tamper, Hashed
  <2> QED
    BY <1>0, <1>10, <2>2 DEF Tamper
<1>11. CASE UNCHANGED auditVars
  BY <1>0, <1>11 DEF auditVars
<1> QED
  BY <1>1, <1>2, <1>3, <1>4, <1>5, <1>7, <1>8, <1>9, <1>10, <1>11 DEF AuditNext, record

\* A prune of rows below a cutoff, and what becomes of the log: every row that is
\* left keeps its seq and its stamp.
PruneOf(rows, c) ==
    /\ rows \subseteq log /\ c \in Nat
    /\ log' = _reanchor_chain(rows \ Doomed(rows, c)) \cup (log \ rows)
    /\ PruneDone(rows, c)

LEMMA PruneIs ==
    ASSUME AuditInv, Prune \/ PruneCommit
    PROVE  /\ \E rows, c : /\ PruneOf(rows, c) /\ Doomed(rows, c) # {}
                           /\ (overlap = {} /\ ~tampered => rows = log)
           /\ pruning' = 0
           /\ UNCHANGED <<backend, clock, at, stamp, tip, next_seq, holder, tampered, fails>>
<1>1. CASE Prune
  <2>1. PICK c \in Cutoffs : log' = _reanchor_chain(log \ Doomed(log, c)) /\ PruneDone(log, c)
    BY <1>1 DEF Prune
  <2>2. c \in Nat /\ Doomed(log, c) # {} /\ log \ log = {}
    BY <2>1 DEF Cutoffs, AuditInv, AuditTypeOK
  <2>3. pruning = 0
    BY <1>1 DEF Prune, AuditInv, LogSound, Postgres, AuditTypeOK
  <2>4. PruneOf(log, c)
    BY <2>1, <2>2 DEF PruneOf
  <2> QED
    BY <1>1, <2>2, <2>3, <2>4 DEF Prune
<1>2. CASE PruneCommit
  <2>1. /\ scanned \subseteq log /\ Doomed(scanned, pruning) # {} /\ pruning \in Nat
        /\ overlap = {} /\ ~tampered => scanned = log
    BY <1>2 DEF PruneCommit, AuditInv, LogSound, Ordered, AuditTypeOK
  <2>2. PruneOf(scanned, pruning)
    BY <1>2, <2>1 DEF PruneCommit, PruneOf
  <2> QED
    BY <1>2, <2>1, <2>2 DEF PruneCommit
<1> QED
  BY <1>1, <1>2

LEMMA PruneKeeps ==
    ASSUME Table(log), NEW rows, NEW c, PruneOf(rows, c)
    PROVE  /\ Table(log')
           /\ \A r \in log' : \E q \in log : r.seq = q.seq /\ r.ts = q.ts
           /\ \A q \in log : (\E r \in log' : r.seq = q.seq /\ r.ts = q.ts) \/ q.ts \in gone'
           /\ gone \subseteq gone' /\ (Doomed(rows, c) # {} => gone' # {})
           /\ overlap \subseteq overlap'
           /\ \A w \in Writers : at[w] \in {"max", "insert"} => overlap' # {}
<1> DEFINE left == rows \ Doomed(rows, c)
           new == _reanchor_chain(left)
<1>0. left \subseteq rows /\ rows \subseteq log /\ log' = new \cup (log \ rows) /\ PruneDone(rows, c)
  BY DEF PruneOf
<1>1. Table(left) /\ Table(log \ rows)
  BY <1>0, PartOfTable
<1>2. new = {Rehashed(r, left) : r \in left} /\ Table(new)
  BY <1>1, Reanchored
<1>3. left = {r \in rows : r \notin Doomed(rows, c)}
  OBVIOUS
<1> HIDE DEF left, new
<1>4. /\ \A r \in new : \E q \in left : r.seq = q.seq /\ r.ts = q.ts
      /\ \A q \in left : \E r \in new : r.seq = q.seq /\ r.ts = q.ts
  BY <1>1, <1>2, RehashedIs
<1>5. Table(log')
  <2>1. IsFiniteSet(log') /\ log' \in SUBSET Rows
    BY <1>0, <1>1, <1>2, FS_Union DEF Table
  <2>2. ASSUME NEW r \in new, NEW q \in log \ rows PROVE r.seq # q.seq
    <3>1. PICK p \in left : r.seq = p.seq
      BY <1>4
    <3> QED
      BY <1>0, <3>1 DEF Table, Unique
  <2>3. Unique(log')
    BY <1>0, <1>1, <1>2, <2>2 DEF Table, Unique
  <2> QED
    BY <2>1, <2>3 DEF Table
<1>6. /\ \A q \in Doomed(rows, c) : q.ts \in gone'
      /\ gone \subseteq gone' /\ overlap \subseteq overlap'
      /\ \A w \in Writers : at[w] \in {"max", "insert"} => overlap' # {}
  BY <1>0 DEF PruneDone, Note
<1>7. \A q \in log : (\E r \in log' : r.seq = q.seq /\ r.ts = q.ts) \/ q.ts \in gone'
  <2>1. TAKE q \in log
  <2>2. CASE q \in log \ rows
    BY <1>0, <2>2
  <2>3. CASE q \in left
    BY <1>0, <1>4, <2>3
  <2>4. CASE q \in Doomed(rows, c)
    BY <1>6, <2>4
  <2> QED
    BY <1>3, <2>2, <2>3, <2>4
<1>8. \A r \in log' : \E q \in log : r.seq = q.seq /\ r.ts = q.ts
  <2>1. TAKE r \in log'
  <2>2. CASE r \in new
    BY <1>0, <1>4, <2>2
  <2>3. CASE r \in log \ rows
    BY <2>3
  <2> QED
    BY <1>0, <2>2, <2>3
<1>9. Doomed(rows, c) # {} => gone' # {}
  BY <1>6
<1> QED
  BY <1>5, <1>6, <1>7, <1>8, <1>9

\* The three ends of an INSERT.
Appends(w) ==
    /\ \A r \in log : r.seq # next_seq[w]
    /\ log' = log \cup {Row(next_seq[w], stamp[w], tip[w])}
    /\ overlap \subseteq overlap'
    /\ Reading(w) # {} => "append" \in overlap'
    /\ pruning > 0 => overlap' # {}
    /\ UNCHANGED fails

Refused(w) ==
    UNCHANGED <<log, overlap>> /\ (fails' = fails + 1 \/ \E r \in log : r.seq = next_seq[w])

LEMMA InsertIs ==
    ASSUME NEW w \in Writers, Insert(w)
    PROVE  /\ at[w] = "insert" /\ Return(w) /\ (Appends(w) \/ Refused(w))
           /\ UNCHANGED <<backend, clock, pruning, scanned, gone, tampered, prunes>>
BY DEF Insert, Appends, Refused, Note

\* What the steps before the INSERT leave alone.
LEMMA BeforeInsert ==
    ASSUME NEW w \in Writers, Begin(w) \/ Lock(w) \/ ReadTip(w) \/ ReadMax(w)
    PROVE  /\ UNCHANGED <<log, pruning, scanned, gone, tampered, fails, prunes, backend>>
           /\ overlap \subseteq overlap' /\ clock' \in {clock, clock + 1}
           /\ ("append" \in overlap') <=> ("append" \in overlap)
<1>1. CASE Begin(w)
  BY <1>1 DEF Begin, Stamp, Note
<1>2. CASE Lock(w) \/ ReadTip(w)
  BY <1>2 DEF Lock, ReadTip
<1>3. CASE ReadMax(w)
  BY <1>3 DEF ReadMax, Stamp
<1> QED
  BY <1>1, <1>2, <1>3

LEMMA LogStep == AuditInv /\ [AuditNext]_auditVars => LogSound'
<1> SUFFICES ASSUME AuditInv, [AuditNext]_auditVars PROVE LogSound'
  OBVIOUS
<1> USE DEF LogSound, Postgres
<1>0. LogSound /\ AuditTypeOK /\ WriterSound
  BY DEF AuditInv
<1>1. ASSUME NEW w \in Writers, Begin(w) \/ Lock(w) \/ ReadTip(w) \/ ReadMax(w)
      PROVE  LogSound'
  <2>1. /\ UNCHANGED <<log, pruning, scanned, tampered, backend>>
        /\ clock \in Nat /\ clock' \in {clock, clock + 1}
    BY <1>0, <1>1, BeforeInsert DEF AuditTypeOK
  <2>2. \A r \in log : r.ts \in Nat
    BY <1>0, BeforeType
  <2>3. ~tampered => \A r \in log : r.ts > 0 /\ r.ts <= clock'
    BY <1>0, <2>1, <2>2
  <2> QED
    BY <1>0, <2>1, <2>3
<1>2. ASSUME NEW w \in Writers, Insert(w) PROVE LogSound'
  <2>1. CASE Refused(w)
    BY <1>0, <1>2, <2>1, InsertIs DEF Refused
  <2>2. CASE Appends(w)
    <3> DEFINE x == Row(next_seq[w], stamp[w], tip[w])
    <3>1. x \in Rows /\ x.seq = next_seq[w] /\ x.ts = stamp[w]
      BY <1>0, RowType DEF AuditTypeOK
    <3>2. stamp[w] > 0 /\ stamp[w] <= clock
      BY <1>0, <1>2, InsertIs DEF WriterSound
    <3>3. log' = log \cup {x} /\ \A r \in log : r.seq # x.seq
      BY <2>2, <3>1 DEF Appends
    <3> HIDE DEF x
    <3>4. Table(log')
      BY <1>0, <3>1, <3>3, FS_AddElement DEF Table, Unique
    <3> QED
      BY <1>0, <1>2, <3>1, <3>2, <3>3, <3>4, InsertIs
  <2> QED
    BY <1>2, <2>1, <2>2, InsertIs
<1>3. CASE Prune \/ PruneCommit
  <2>1. pruning' = 0 /\ UNCHANGED <<tampered, clock>>
    BY <1>3, PruneIs
  <2>2. PICK rows, c : PruneOf(rows, c)
    BY <1>3, PruneIs
  <2>3. Table(log') /\ \A r \in log' : \E q \in log : r.ts = q.ts
    BY <1>0, <2>2, PruneKeeps
  <2> QED
    BY <1>0, <2>1, <2>3
<1>4. CASE PruneScan
  BY <1>0, <1>4 DEF PruneScan, Cutoffs
<1>5. CASE Tamper
  <2>1. PICK r \in Hashed(log) :
           \/ log' = log \ {r}
           \/ log' = (log \ {r}) \cup {[r EXCEPT !.ts = 0]}
    BY <1>5 DEF Tamper
  <2>2. r \in log /\ r \in Rows
    BY <1>0 DEF Hashed, Table
  <2>3. [r EXCEPT !.ts = 0] \in Rows /\ [r EXCEPT !.ts = 0].seq = r.seq
    BY <2>2 DEF Rows
  <2>4. Table(log \ {r})
    BY <1>0, PartOfTable
  <2>5. Table((log \ {r}) \cup {[r EXCEPT !.ts = 0]})
    <3>1. \A q \in log \ {r} : q.seq # r.seq
      BY <1>0, <2>2 DEF Table, Unique
    <3> QED
      BY <2>3, <2>4, <3>1, FS_AddElement DEF Table, Unique
  <2>6. Table(log')
    BY <2>1, <2>4, <2>5
  <2> QED
    BY <1>5, <2>6 DEF Tamper
<1>6. CASE UNCHANGED auditVars
  BY <1>0, <1>6 DEF auditVars
<1> QED
  BY <1>1, <1>2, <1>3, <1>4, <1>5, <1>6 DEF AuditNext, record

LEMMA WriterStep == AuditInv /\ [AuditNext]_auditVars => WriterSound'
<1> SUFFICES ASSUME AuditInv, [AuditNext]_auditVars PROVE WriterSound'
  OBVIOUS
<1> USE DEF WriterSound, Postgres, AuditTypeOK, Goto
<1>0. AuditTypeOK /\ WriterSound /\ Nobody \notin Writers
  BY AuditAssumption DEF AuditInv
<1>1. ASSUME NEW w \in Writers, Begin(w) PROVE WriterSound'
  BY <1>0, <1>1 DEF Begin, Stamp
<1>2. ASSUME NEW w \in Writers, Lock(w) PROVE WriterSound'
  BY <1>0, <1>2 DEF Lock, Free
<1>3. ASSUME NEW w \in Writers, ReadTip(w) PROVE WriterSound'
  BY <1>0, <1>3 DEF ReadTip
<1>4. ASSUME NEW w \in Writers, ReadMax(w) PROVE WriterSound'
  BY <1>0, <1>4 DEF ReadMax, Stamp
<1>5. ASSUME NEW w \in Writers, Insert(w) PROVE WriterSound'
  BY <1>0, <1>5, InsertIs DEF Return
<1>6. CASE Prune \/ PruneCommit
  BY <1>0, <1>6, PruneIs
<1>7. CASE PruneScan \/ Tamper
  BY <1>0, <1>7 DEF PruneScan, Tamper
<1>8. CASE UNCHANGED auditVars
  BY <1>0, <1>8 DEF auditVars
<1> QED
  BY <1>1, <1>2, <1>3, <1>4, <1>5, <1>6, <1>7, <1>8 DEF AuditNext, record

\* While nothing is noted, or under the lock, whoever inserts is the only reader.
LEMMA InsertsAlone ==
    ASSUME AuditInv, NEW w \in Writers, Insert(w), Appends(w),
           Postgres \/ "append" \notin overlap'
    PROVE  \A v \in Writers \ {w} : at[v] \notin {"max", "insert"}
<1>1. CASE Postgres
  BY <1>1, InsertIs DEF AuditInv, WriterSound
<1>2. CASE "append" \notin overlap'
  BY <1>2 DEF Appends, Reading
<1> QED
  BY <1>1, <1>2

LEMMA FreshStep == AuditInv /\ [AuditNext]_auditVars => FreshSeq'
<1> SUFFICES ASSUME AuditInv, [AuditNext]_auditVars PROVE FreshSeq'
  OBVIOUS
<1> USE DEF FreshSeq, Postgres
<1>0. AuditTypeOK /\ FreshSeq /\ Table(log)
  BY DEF AuditInv, LogSound
<1>a. at \in [Writers -> {"idle", "lock", "tip", "max", "insert"}] /\ next_seq \in [Writers -> Nat]
  BY <1>0 DEF AuditTypeOK
<1>1. ASSUME NEW w \in Writers, Begin(w) \/ Lock(w) \/ ReadTip(w) PROVE FreshSeq'
  <2>1. UNCHANGED <<log, backend, next_seq>> /\ ("append" \in overlap <=> "append" \in overlap')
    BY <1>1, BeforeInsert DEF Begin, Lock, ReadTip
  <2>2. \A v \in Writers : at'[v] = "insert" => at[v] = "insert"
    BY <1>1, <1>a DEF Begin, Lock, ReadTip, Goto
  <2> QED
    BY <1>0, <2>1, <2>2
<1>2. ASSUME NEW w \in Writers, ReadMax(w) PROVE FreshSeq'
  <2>1. /\ UNCHANGED <<log, backend, overlap>> /\ next_seq' = [next_seq EXCEPT ![w] = NextSeq(log)]
        /\ at' = [at EXCEPT ![w] = "insert"]
    BY <1>2 DEF ReadMax, Goto
  <2>2. \A r \in log : r.seq < NextSeq(log)
    BY <1>0, NextSeqIs
  <2> QED
    BY <1>0, <1>a, <2>1, <2>2
<1>3. ASSUME NEW w \in Writers, Insert(w) PROVE FreshSeq'
  <2>1. /\ at' = [at EXCEPT ![w] = "idle"] /\ next_seq' = [next_seq EXCEPT ![w] = 0]
        /\ UNCHANGED backend
    BY <1>3, InsertIs DEF Return, Goto
  <2>2. CASE Refused(w)
    BY <1>0, <1>a, <2>1, <2>2 DEF Refused
  <2>3. CASE Appends(w)
    <3>1. SUFFICES ASSUME Postgres \/ "append" \notin overlap' PROVE FreshSeq'
      BY <2>1
    <3>2. \A v \in Writers : at'[v] # "insert"
      BY <1>a, <1>3, <2>1, <2>3, <3>1, InsertsAlone
    <3> QED
      BY <3>2
  <2> QED
    BY <1>3, <2>2, <2>3, InsertIs
<1>4. CASE Prune \/ PruneCommit
  <2>1. UNCHANGED <<at, next_seq, backend>>
    BY <1>4, PruneIs
  <2>2. PICK rows, c : PruneOf(rows, c)
    BY <1>4, PruneIs
  <2>3. (\A r \in log' : \E q \in log : r.seq = q.seq) /\ overlap \subseteq overlap'
    BY <1>0, <2>2, PruneKeeps
  <2> QED
    BY <1>0, <2>1, <2>3
<1>5. CASE PruneScan
  BY <1>0, <1>5 DEF PruneScan
<1>6. CASE Tamper
  <2>1. UNCHANGED <<at, next_seq, backend, overlap>>
    BY <1>6 DEF Tamper
  <2>2. \A r \in log : [r EXCEPT !.ts = 0].seq = r.seq
    BY <1>0 DEF Table, Rows
  <2>3. \A r \in log' : \E q \in log : r.seq = q.seq
    BY <1>6, <2>2 DEF Tamper, Hashed
  <2> QED
    BY <1>0, <2>1, <2>3
<1>7. CASE UNCHANGED auditVars
  BY <1>0, <1>7 DEF auditVars
<1> QED
  BY <1>1, <1>2, <1>3, <1>4, <1>5, <1>6, <1>7 DEF AuditNext, record

\* The steps that add to the log or take from it are told apart; all others leave
\* what a chain is made of.
LEMMA ChainStep == AuditInv /\ [AuditNext]_auditVars => ChainInv'
<1> SUFFICES ASSUME AuditInv, [AuditNext]_auditVars, Undisturbed'
             PROVE  /\ Linked(log')
                    /\ \A r, q \in log' : r.hash # NoHash /\ r.seq < q.seq => q.hash # NoHash
                    /\ \A w \in Writers : at'[w] \in {"max", "insert"} => tip'[w] = Tip(log')
                    /\ \A w \in Writers : at'[w] = "insert" => next_seq'[w] = NextSeq(log')
  BY DEF ChainInv
<1> DEFINE Goal == /\ Linked(log')
                   /\ \A r, q \in log' : r.hash # NoHash /\ r.seq < q.seq => q.hash # NoHash
                   /\ \A w \in Writers : at'[w] \in {"max", "insert"} => tip'[w] = Tip(log')
                   /\ \A w \in Writers : at'[w] = "insert" => next_seq'[w] = NextSeq(log')
<1>0. /\ AuditTypeOK /\ FreshSeq /\ ChainInv /\ Ordered /\ Table(log) /\ WriterSound
      /\ \A r \in log : r.seq \in Nat
  BY BeforeType DEF AuditInv, LogSound
<1>a. /\ at \in [Writers -> {"idle", "lock", "tip", "max", "insert"}]
      /\ next_seq \in [Writers -> Nat] /\ tip \in [Writers -> Hashes]
  BY <1>0 DEF AuditTypeOK
<1>1. ASSUME NEW w \in Writers, Begin(w) \/ Lock(w) \/ ReadTip(w) \/ ReadMax(w) PROVE Goal
  <2>1. UNCHANGED log /\ Undisturbed
    BY <1>1, BeforeInsert DEF Undisturbed, Postgres
  <2>2. \A v \in Writers : at'[v] \in {"max", "insert"} => tip'[v] = Tip(log)
    BY <1>0, <1>a, <1>1, <2>1 DEF ChainInv, Begin, Lock, ReadTip, ReadMax, Goto
  <2>3. \A v \in Writers : at'[v] = "insert" => next_seq'[v] = NextSeq(log)
    BY <1>0, <1>a, <1>1, <2>1 DEF ChainInv, Begin, Lock, ReadTip, ReadMax, Goto
  <2> QED
    BY <1>0, <2>1, <2>2, <2>3 DEF ChainInv
<1>2. ASSUME NEW w \in Writers, Insert(w) PROVE Goal
  <2>1. /\ at[w] = "insert" /\ at' = [at EXCEPT ![w] = "idle"]
        /\ next_seq' = [next_seq EXCEPT ![w] = 0] /\ tip' = [tip EXCEPT ![w] = Genesis]
        /\ UNCHANGED <<backend, gone, tampered>>
    BY <1>2, InsertIs DEF Return, Goto
  <2>2. CASE Refused(w)
    <3>1. UNCHANGED log /\ Undisturbed
      BY <2>1, <2>2 DEF Refused, Undisturbed, Postgres
    <3> QED
      BY <1>0, <1>a, <2>1, <3>1 DEF ChainInv
  <2>3. CASE Appends(w)
    <3>1. Undisturbed /\ (Postgres \/ "append" \notin overlap')
      BY <2>1, <2>3 DEF Appends, Undisturbed, Postgres
    <3>2. tip[w] = Tip(log) /\ next_seq[w] = NextSeq(log)
      BY <1>0, <2>1, <3>1 DEF ChainInv
    <3>3. \A v \in Writers : at'[v] \notin {"max", "insert"}
      BY <1>a, <1>2, <2>1, <2>3, <3>1, InsertsAlone
    <3> DEFINE x == Row(NextSeq(log), stamp[w], Tip(log))
    <3>4. stamp[w] \in Nat /\ x.seq = NextSeq(log) /\ x.hash # NoHash
      BY <1>0, NextSeqIs, TipIs, RowType DEF AuditTypeOK
    <3>5. log' = log \cup {x}
      BY <2>3, <3>2 DEF Appends
    <3>6. Linked(log')
      BY <1>0, <3>1, <3>4, <3>5, AppendLinked DEF ChainInv
    <3> HIDE DEF x
    <3>7. \A r, q \in log' : r.hash # NoHash /\ r.seq < q.seq => q.hash # NoHash
      BY <1>0, <3>1, <3>4, <3>5, NextSeqIs DEF ChainInv
    <3> QED
      BY <3>3, <3>6, <3>7
  <2> QED
    BY <1>2, <2>2, <2>3, InsertIs
<1>3. CASE Prune \/ PruneCommit
  <2>1. UNCHANGED <<at, next_seq, tip, tampered, backend>>
    BY <1>3, PruneIs
  <2>2. PICK rows, c : /\ PruneOf(rows, c) /\ Doomed(rows, c) # {}
                       /\ (overlap = {} /\ ~tampered => rows = log)
    BY <1>3, PruneIs
  <2>3. /\ gone' # {} /\ overlap \subseteq overlap'
        /\ \A w \in Writers : at[w] \in {"max", "insert"} => overlap' # {}
    BY <1>0, <2>2, PruneKeeps
  <2>4. overlap' = {} /\ overlap = {} /\ ~tampered
    BY <2>1, <2>3 DEF Undisturbed
  <2>5. /\ c \in Nat
        /\ log' = _reanchor_chain(log \ Doomed(log, c))
    BY <2>2, <2>4 DEF PruneOf
  <2>6. Undisturbed
    BY <2>4 DEF Undisturbed
  <2>7. Linked(log')
    BY <1>0, <2>4, <2>5, <2>6, PruneLinked DEF ChainInv, Ordered
  <2> DEFINE left == log \ Doomed(log, c)
  <2>8. Table(left) /\ left \subseteq log
    BY <1>0, PartOfTable
  <2> HIDE DEF left
  <2>9. log' = {Rehashed(r, left) : r \in left}
    BY <2>5, <2>8, Reanchored DEF left
  <2>10. \A r \in log' : \E q \in log : r.seq = q.seq /\ (r.hash = NoHash <=> q.hash = NoHash)
    BY <2>8, <2>9, RehashedIs
  <2>11. \A r, q \in log' : r.hash # NoHash /\ r.seq < q.seq => q.hash # NoHash
    BY <1>0, <2>6, <2>10 DEF ChainInv
  <2> QED
    BY <2>1, <2>3, <2>4, <2>7, <2>11
<1>4. CASE PruneScan
  BY <1>0, <1>4 DEF PruneScan, ChainInv, Undisturbed, Postgres
<1>5. CASE Tamper
  BY <1>5 DEF Tamper, Undisturbed
<1>6. CASE UNCHANGED auditVars
  BY <1>0, <1>6 DEF auditVars, ChainInv, Undisturbed, Postgres
<1> QED
  BY <1>1, <1>2, <1>3, <1>4, <1>5, <1>6 DEF AuditNext, record

LEMMA OrderStep == AuditInv /\ [AuditNext]_auditVars => Ordered'
<1> SUFFICES ASSUME AuditInv, [AuditNext]_auditVars, overlap' = {}, ~tampered'
             PROVE  /\ \A r, q \in log' : r.seq < q.seq => r.ts < q.ts
                    /\ \A w \in Writers, r \in log' : stamp'[w] > 0 => r.ts < stamp'[w]
                    /\ pruning' > 0 => scanned' = log'
                    /\ Postgres' => \A v, w \in Writers : stamp'[v] > 0 /\ stamp'[w] > 0 => v = w
  BY DEF Ordered
<1> DEFINE Goal == /\ \A r, q \in log' : r.seq < q.seq => r.ts < q.ts
                   /\ \A w \in Writers, r \in log' : stamp'[w] > 0 => r.ts < stamp'[w]
                   /\ pruning' > 0 => scanned' = log'
                   /\ Postgres' => \A v, w \in Writers : stamp'[v] > 0 /\ stamp'[w] > 0 => v = w
<1> USE DEF Postgres
<1>0. /\ Table(log) /\ WriterSound /\ FreshSeq
      /\ \A r \in log : r.seq \in Nat /\ r.ts \in Nat
      /\ clock \in Nat /\ stamp \in [Writers -> Nat] /\ next_seq \in [Writers -> Nat]
      /\ tip \in [Writers -> Hashes]
  BY BeforeType DEF AuditInv, AuditTypeOK, LogSound
\* What the invariant says before a step that notes no overlap.
<1> DEFINE Before0 ==
             /\ \A r, q \in log : r.seq < q.seq => r.ts < q.ts
             /\ \A w \in Writers, r \in log : stamp[w] > 0 => r.ts < stamp[w]
             /\ pruning > 0 => scanned = log
             /\ Postgres => \A v, w \in Writers : stamp[v] > 0 /\ stamp[w] > 0 => v = w
             /\ \A r \in log : r.ts > 0 /\ r.ts <= clock
<1>a. overlap = {} /\ ~tampered => Before0
  BY DEF AuditInv, Ordered, LogSound
<1>1. ASSUME NEW w \in Writers, Begin(w) \/ Lock(w) \/ ReadTip(w) \/ ReadMax(w) PROVE Goal
  <2>1. /\ UNCHANGED <<log, pruning, scanned, backend>> /\ Before0
    BY <1>1, <1>a, BeforeInsert
  <2>2. CASE UNCHANGED stamp
    BY <2>1, <2>2
  <2>3. CASE Begin(w)
    <3>1. stamp' = [stamp EXCEPT ![w] = clock + 1] /\ \A v \in Writers : ~(stamp[v] > 0)
      BY <2>3 DEF Begin, Stamp, Note
    <3>2. \A v \in Writers : stamp'[v] > 0 => v = w /\ stamp'[v] = clock + 1
      BY <1>0, <3>1
    <3>3. \A v \in Writers, r \in log : stamp'[v] > 0 => r.ts < stamp'[v]
      BY <1>0, <2>1, <3>2
    <3> QED
      BY <2>1, <3>2, <3>3
  <2>4. CASE ReadMax(w) /\ Stamp(w) /\ backend = "sqlite"
    <3>1. stamp' = [stamp EXCEPT ![w] = clock + 1]
      BY <2>4 DEF Stamp
    <3>2. \A v \in Writers, r \in log : stamp'[v] > 0 => r.ts < stamp'[v]
      BY <1>0, <2>1, <3>1
    <3> QED
      BY <2>1, <2>4, <3>2
  <2> QED
    BY <1>1, <2>2, <2>3, <2>4 DEF Lock, ReadTip, ReadMax
<1>2. ASSUME NEW w \in Writers, Insert(w) PROVE Goal
  <2>1. /\ at[w] = "insert" /\ stamp' = [stamp EXCEPT ![w] = 0]
        /\ UNCHANGED <<backend, pruning, scanned, tampered>>
    BY <1>2, InsertIs DEF Return
  <2>a. \A v \in Writers : stamp'[v] > 0 => v # w /\ stamp'[v] = stamp[v]
    BY <1>0, <2>1
  <2>2. CASE Refused(w)
    <3>1. UNCHANGED log /\ Before0
      BY <1>a, <2>1, <2>2 DEF Refused
    <3> QED
      BY <2>1, <2>a, <3>1
  <2>3. CASE Appends(w)
    <3>1. overlap = {} /\ Before0 /\ ~(pruning > 0)
      BY <1>a, <2>1, <2>3 DEF Appends
    <3> DEFINE x == Row(next_seq[w], stamp[w], tip[w])
    <3>2. x.seq = next_seq[w] /\ x.ts = stamp[w]
      BY <1>0, RowType
    <3>3. log' = log \cup {x}
      BY <2>3 DEF Appends
    <3>4. \A r \in log : r.seq < x.seq /\ r.ts < x.ts
      <4>1. stamp[w] > 0
        BY <1>0, <2>1 DEF WriterSound
      <4>2. \A r \in log : r.seq < next_seq[w]
        BY <1>0, <2>1, <3>1 DEF FreshSeq
      <4> QED
        BY <3>1, <3>2, <4>1, <4>2
    <3>5. \A v \in Writers : ~(stamp'[v] > 0)
      <4>1. \A v \in Writers \ {w} : at[v] \notin {"max", "insert"}
        BY <1>2, <2>3, InsertsAlone
      <4>2. Postgres => \A v \in Writers : stamp[v] > 0 => v = w
        BY <1>0, <2>1, <3>1 DEF WriterSound
      <4>3. ~Postgres => \A v \in Writers \ {w} : ~(stamp[v] > 0)
        BY <1>0, <4>1 DEF WriterSound
      <4> QED
        BY <2>a, <4>2, <4>3
    <3>6. x.seq \in Nat /\ x.ts \in Nat
      BY <1>0, <3>2
    <3> HIDE DEF x
    <3>7. \A r, q \in log' : r.seq < q.seq => r.ts < q.ts
      BY <1>0, <3>1, <3>3, <3>4, <3>6
    <3> QED
      BY <2>1, <3>1, <3>5, <3>7
  <2> QED
    BY <1>2, <2>2, <2>3, InsertIs
<1>3. CASE Prune \/ PruneCommit
  <2>1. pruning' = 0 /\ UNCHANGED <<tampered, stamp, backend>>
    BY <1>3, PruneIs
  <2>2. PICK rows, c : PruneOf(rows, c)
    BY <1>3, PruneIs
  <2>3. /\ \A r \in log' : \E q \in log : r.seq = q.seq /\ r.ts = q.ts
        /\ overlap = {}
    BY <1>0, <2>2, PruneKeeps
  <2>4. Before0
    BY <1>a, <2>1, <2>3
  <2>5. \A r, q \in log' : r.seq < q.seq => r.ts < q.ts
    BY <2>3, <2>4
  <2>6. \A w \in Writers, r \in log' : stamp[w] > 0 => r.ts < stamp[w]
    BY <2>3, <2>4
  <2> QED
    BY <2>1, <2>4, <2>5, <2>6
<1>4. CASE PruneScan
  BY <1>4, <1>a DEF PruneScan
<1>5. CASE Tamper
  BY <1>5 DEF Tamper
<1>6. CASE UNCHANGED auditVars
  BY <1>6, <1>a DEF auditVars
<1> QED
  BY <1>1, <1>2, <1>3, <1>4, <1>5, <1>6 DEF AuditNext, record

\* Where the record of a stamp is: a row, a row that was pruned, or still with
\* its writer.
Kept(t) == \/ t \in gone
           \/ \E r \in log : r.ts = t
           \/ \E w \in Writers : stamp[w] = t

LEMMA LostIs == Lost = {} <=> \A t \in 1..clock : Kept(t)
BY DEF Lost, Kept

LEMMA LostStep == AuditInv /\ [AuditNext]_auditVars => NothingLost'
<1> SUFFICES ASSUME AuditInv, [AuditNext]_auditVars,
                    ~tampered', fails' = 0, backend' = "sqlite" => "append" \notin overlap'
             PROVE  \A t \in 1..clock' : Kept(t)'
  BY LostIs DEF NothingLost, Lost, Kept
<1> DEFINE Goal == \A t \in 1..clock' : Kept(t)'
           Safe == ~tampered /\ fails = 0 /\ (backend = "sqlite" => "append" \notin overlap)
<1>0. /\ Table(log) /\ WriterSound /\ FreshSeq
      /\ clock \in Nat /\ fails \in Nat
      /\ stamp \in [Writers -> Nat] /\ next_seq \in [Writers -> Nat] /\ tip \in [Writers -> Hashes]
      /\ backend \in {"sqlite", "postgres"}
  BY DEF AuditInv, AuditTypeOK, LogSound
<1>a. Safe => \A t \in 1..clock : Kept(t)
  BY LostIs DEF AuditInv, NothingLost
<1>1. ASSUME NEW w \in Writers, Begin(w) \/ Lock(w) \/ ReadTip(w) \/ ReadMax(w) PROVE Goal
  <2>1. UNCHANGED <<log, gone>> /\ Safe
    BY <1>1, BeforeInsert
  <2>2. CASE UNCHANGED <<stamp, clock>>
    BY <1>a, <2>1, <2>2 DEF Kept
  <2>3. CASE Stamp(w) /\ ~(stamp[w] > 0)
    <3>1. clock' = clock + 1 /\ stamp' = [stamp EXCEPT ![w] = clock + 1] /\ stamp[w] = 0
      BY <1>0, <2>3 DEF Stamp
    <3>2. \A t \in 1..clock : Kept(t)'
      BY <1>0, <1>a, <2>1, <3>1 DEF Kept
    <3>3. \A t : t = clock + 1 => Kept(t)'
      BY <1>0, <3>1 DEF Kept
    <3> QED
      BY <1>0, <3>1, <3>2, <3>3
  <2>4. Begin(w) => Stamp(w) /\ ~(stamp[w] > 0)
    BY <1>0 DEF Begin, WriterSound, Postgres
  <2>5. ReadMax(w) => (Stamp(w) /\ ~(stamp[w] > 0)) \/ UNCHANGED <<stamp, clock>>
    BY <1>0 DEF ReadMax, WriterSound, Postgres
  <2> QED
    BY <1>1, <2>2, <2>3, <2>4, <2>5 DEF Lock, ReadTip
<1>2. ASSUME NEW w \in Writers, Insert(w) PROVE Goal
  <2>1. /\ at[w] = "insert" /\ stamp' = [stamp EXCEPT ![w] = 0]
        /\ UNCHANGED <<backend, clock, gone, tampered>>
    BY <1>2, InsertIs DEF Return
  <2>2. CASE Appends(w)
    <3> DEFINE x == Row(next_seq[w], stamp[w], tip[w])
    <3>1. log' = log \cup {x} /\ x.ts = stamp[w] /\ Safe
      BY <1>0, <2>1, <2>2, RowType DEF Appends
    <3> HIDE DEF x
    <3> QED
      BY <1>0, <1>a, <2>1, <3>1 DEF Kept
  <2>3. CASE Refused(w)
    <3>1. fails' # fails + 1
      BY <1>0
    <3>2. PICK r \in log : r.seq = next_seq[w]
      BY <2>3, <3>1 DEF Refused
    <3>3. Postgres \/ "append" \notin overlap
      BY <1>0, <2>1, <2>3 DEF Refused, Postgres
    <3>4. r.seq < next_seq[w]
      BY <1>0, <2>1, <3>3 DEF FreshSeq
    <3> QED
      BY <1>0, <3>2, <3>4
  <2> QED
    BY <1>2, <2>2, <2>3, InsertIs
<1>3. CASE Prune \/ PruneCommit
  <2>1. UNCHANGED <<backend, tampered, stamp, clock, fails>>
    BY <1>3, PruneIs
  <2>2. PICK rows, c : PruneOf(rows, c)
    BY <1>3, PruneIs
  <2>3. /\ \A q \in log : (\E r \in log' : r.ts = q.ts) \/ q.ts \in gone'
        /\ gone \subseteq gone' /\ overlap \subseteq overlap'
    BY <1>0, <2>2, PruneKeeps
  <2>4. Safe
    BY <2>1, <2>3
  <2> QED
    BY <1>a, <2>1, <2>3, <2>4 DEF Kept
<1>4. CASE PruneScan
  BY <1>4, <1>a DEF PruneScan, Kept
<1>5. CASE Tamper
  BY <1>5 DEF Tamper
<1>6. CASE UNCHANGED auditVars
  BY <1>6, <1>a DEF auditVars, Kept
<1> QED
  BY <1>1, <1>2, <1>3, <1>4, <1>5, <1>6 DEF AuditNext, record

\* Nothing that follows heals a chain that was tampered with, a prune excepted.
LEMMA FoundStep == AuditInv /\ [AuditNext]_auditVars => Found'
<1> SUFFICES ASSUME AuditInv, [AuditNext]_auditVars, tampered', gone' = {}, overlap' = {}
             PROVE  ~Linked(log')
  BY DEF Found
<1>0. /\ Table(log) /\ WriterSound /\ FreshSeq /\ Found /\ ChainInv
      /\ stamp \in [Writers -> Nat] /\ next_seq \in [Writers -> Nat] /\ tip \in [Writers -> Hashes]
      /\ ~tampered => \A r \in log : r.ts > 0
  BY DEF AuditInv, AuditTypeOK, LogSound
<1>1. ASSUME NEW w \in Writers, Begin(w) \/ Lock(w) \/ ReadTip(w) \/ ReadMax(w)
      PROVE  ~Linked(log')
  <2>1. UNCHANGED <<log, gone, tampered>> /\ overlap = {}
    BY <1>1, BeforeInsert
  <2> QED
    BY <1>0, <2>1 DEF Found
<1>2. ASSUME NEW w \in Writers, Insert(w) PROVE ~Linked(log')
  <2>1. at[w] = "insert" /\ UNCHANGED <<gone, tampered>>
    BY <1>2, InsertIs
  <2>2. CASE Refused(w)
    BY <1>0, <2>1, <2>2 DEF Refused, Found
  <2>3. CASE Appends(w)
    <3> DEFINE x == Row(next_seq[w], stamp[w], tip[w])
    <3>1. log' = log \cup {x} /\ x \in Rows /\ x.seq = next_seq[w] /\ overlap = {}
      BY <1>0, <2>3, RowType DEF Appends
    <3>2. \A r \in log : r.seq < x.seq
      BY <1>0, <2>1, <3>1 DEF FreshSeq
    <3> HIDE DEF x
    <3>3. PICK r \in log : Gap(r, log) \/ Mismatch(r, log)
      BY <1>0, <2>1, <3>1 DEF Found, Linked
    <3>4. Gap(r, log') \/ Mismatch(r, log')
      BY <1>0, <3>1, <3>2, <3>3, LaterRow
    <3> QED
      BY <3>1, <3>4 DEF Linked
  <2> QED
    BY <1>2, <2>2, <2>3, InsertIs
<1>3. CASE Prune \/ PruneCommit
  <2>1. PICK rows, c : PruneOf(rows, c) /\ Doomed(rows, c) # {}
    BY <1>3, PruneIs
  <2> QED
    BY <1>0, <2>1, PruneKeeps
<1>4. CASE PruneScan
  BY <1>0, <1>4 DEF PruneScan, Found
<1>5. CASE Tamper
  <2>1. Undisturbed /\ ~tampered
    BY <1>5 DEF Tamper, Undisturbed
  <2>2. /\ Linked(log) /\ \A r \in log : r.ts > 0
        /\ \A p, q \in log : p.hash # NoHash /\ p.seq < q.seq => q.hash # NoHash
    BY <1>0, <2>1 DEF ChainInv
  <2>3. PICK r \in Hashed(log) :
           \/ r # Last(log) /\ log' = log \ {r}
           \/ log' = (log \ {r}) \cup {[r EXCEPT !.ts = 0]}
    BY <1>5 DEF Tamper
  <2>4. CASE r # Last(log) /\ log' = log \ {r}
    BY <1>0, <2>2, <2>4, RemovedBreaks
  <2>5. CASE log' = (log \ {r}) \cup {[r EXCEPT !.ts = 0]}
    <3>1. r.ts > 0
      BY <2>2 DEF Hashed
    <3> QED
      BY <1>0, <2>2, <2>5, <3>1, ChangedBreaks
  <2> QED
    BY <2>3, <2>4, <2>5
<1>6. CASE UNCHANGED auditVars
  BY <1>0, <1>6 DEF auditVars, Found
<1> QED
  BY <1>1, <1>2, <1>3, <1>4, <1>5, <1>6 DEF AuditNext, record

-----------------------------------------------------------------------------
LEMMA AuditInvariance == AuditSpec => []AuditInv
<1>1. AuditInv /\ [AuditNext]_auditVars => AuditInv'
  <2>1. AuditInv /\ [AuditNext]_auditVars =>
          AuditTypeOK' /\ LogSound' /\ WriterSound' /\ FreshSeq'
    BY AuditTypeStep, LogStep, WriterStep, FreshStep
  <2>2. AuditInv /\ [AuditNext]_auditVars =>
          ChainInv' /\ Ordered' /\ NothingLost' /\ Found'
    BY ChainStep, OrderStep, LostStep, FoundStep
  <2> QED
    BY <2>1, <2>2 DEF AuditInv
<1> QED
  BY <1>1, AuditInitInv, PTL DEF AuditSpec

\* What the log and its writers hold is of its type.
THEOREM AuditTypeCorrect == AuditSpec => []AuditTypeOK
<1>1. AuditInv => AuditTypeOK
  BY DEF AuditInv
<1> QED
  BY <1>1, AuditInvariance, PTL

\* verify: the log of any number of writers verifies, in Postgres however their
\* appends interleave, as long as nothing was pruned; otherwise as long as no call
\* has overlapped another.
THEOREM ChainStaysIntact == AuditSpec => []ChainIntact
<1>1. AuditInv => ChainIntact
  BY VerifyOk DEF AuditInv, ChainInv, ChainIntact, Undisturbed, Postgres
<1> QED
  BY <1>1, AuditInvariance, PTL

\* record: whoever returns without an error has left a row.
THEOREM NoRecordIsLost == AuditSpec => []NothingLost
<1>1. AuditInv => NothingLost
  BY DEF AuditInv
<1> QED
  BY <1>1, AuditInvariance, PTL

\* verify reports a log that was tampered with until the chain is hashed again.
THEOREM TamperIsFound == AuditSpec => []TamperFound
<1>1. AuditInv => TamperFound
  BY VerifyOk DEF AuditInv, Found, TamperFound
<1> QED
  BY <1>1, AuditInvariance, PTL

\* prune_before: what it leaves verifies but for gaps, unless rows were appended
\* while it ran.
THEOREM PruneDoesRepair == AuditSpec => PruneRepairs
<1>1. AuditInv /\ [AuditNext]_auditVars =>
        [/\ gone' # gone
         /\ backend = "postgres" => log \subseteq scanned
         => verify(log') # "hash_mismatch"]_auditVars
  <2> SUFFICES ASSUME AuditInv, [AuditNext]_auditVars, gone' # gone,
                      backend = "postgres" => log \subseteq scanned
               PROVE  verify(log') # "hash_mismatch"
    OBVIOUS
  <2>0. Table(log) /\ (pruning > 0 => Postgres /\ scanned \subseteq log)
    BY DEF AuditInv, LogSound
  <2>1. Prune \/ PruneCommit
    <3>1. \A w \in Writers : record(w) => UNCHANGED gone
      BY BeforeInsert, InsertIs DEF record
    <3> QED
      BY <3>1 DEF AuditNext, PruneScan, Tamper, auditVars
  <2>2. PICK left \in SUBSET log : log' = _reanchor_chain(left)
    <3>1. CASE Prune
      BY <3>1 DEF Prune
    <3>2. CASE PruneCommit
      <4>1. scanned = log
        BY <2>0, <3>2 DEF PruneCommit, Postgres
      <4> QED
        BY <3>2, <4>1 DEF PruneCommit
    <3> QED
      BY <2>1, <3>1, <3>2
  <2>3. Table(left)
    BY <2>0, PartOfTable
  <2>4. Table(log') /\ \A r \in log' : ~Mismatch(r, log')
    BY <2>2, <2>3, Reanchored
  <2> QED
    BY <2>4, VerifyMatch
<1> QED
  BY <1>1, AuditInvariance, PTL DEF AuditSpec, PruneRepairs

=============================================================================
