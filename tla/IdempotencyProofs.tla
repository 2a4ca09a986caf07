------------------------- MODULE IdempotencyProofs -------------------------
(***************************************************************************)
(* An undisturbed idempotency key is a lock and then a constant, for any   *)
(* set of requests, bodies and replicas.                                   *)
(***************************************************************************)
EXTENDS Idempotency, TLAPS

\* The strengthening: a completed row names a request of its own body.
AnswerFits ==
    Undisturbed /\ row # NoRow /\ row.state = "complete" =>
        row.answer \in Requests /\ Body[row.answer] = row.hash

IInv == TypeOK /\ OneOwner /\ ReplaySameBody /\ AnswerFits

-----------------------------------------------------------------------------
\* The fields of a row, as facts the provers can cite.
LEMMA RowFields ==
    ASSUME row \in Row
    PROVE  /\ row.hash \in Hashes /\ row.state \in {"pending", "complete"}
           /\ row.answer \in Requests \cup {Nobody} /\ row # NoRow
BY RowAssumption DEF Row

\* A row with its answer stored is a row, with the hash it had.
LEMMA StoredRow ==
    ASSUME row \in Row, NEW r \in Requests
    PROVE  LET new == [row EXCEPT !.state = "complete", !.answer = r]
           IN  /\ new \in Row /\ new # NoRow
               /\ new.state = "complete" /\ new.answer = r /\ new.hash = row.hash
BY RowAssumption DEF Row

\* A row that begin inserts is a pending row of the request's body.
LEMMA BegunRow ==
    ASSUME NEW r \in Requests
    PROVE  LET new == [hash |-> Body[r], state |-> "pending", answer |-> Nobody]
           IN  new \in Row /\ new # NoRow /\ new.state = "pending" /\ new.hash = Body[r]
BY RowAssumption DEF Row, Hashes

\* A step that only moves a waiting request on, or answers it, keeps the
\* invariant: the row and the slots stay.
LEMMA QuietStep ==
    ASSUME IInv, NEW r \in Requests, UNCHANGED <<row, slot, cut, ran>>,
           pc[r] \notin {"run", "dead"},
           \/ \E p \in Points \ {"run", "dead"} : Goto(r, p) /\ reply' = reply
           \/ Answer(r, "conflict", Nobody)
           \/ row # NoRow /\ Settled(r) /\ Settle(r),
           timeouts' \in Nat, stolen' \in Nat, removed' \in Nat, noops' \in Nat,
           Undisturbed' => Undisturbed
    PROVE  IInv'
<1>. USE DEF IInv
<1>1. \E p \in Points \ {"run", "dead"} : pc' = [pc EXCEPT ![r] = p]
  BY DEF Goto, Answer, Settle, Points
<1>2. /\ pc' \in [Requests -> Points]
      /\ \A q \in Requests : pc'[q] \in {"run", "dead"} <=> pc[q] \in {"run", "dead"}
      /\ \A q \in Requests : pc'[q] = "run" <=> pc[q] = "run"
  BY <1>1 DEF TypeOK
<1>3. \/ reply' = reply
      \/ \E kind \in {"conflict", "replay"}, by \in Requests \cup {Nobody} :
            /\ reply' = [reply EXCEPT ![r] = [kind |-> kind, from |-> by]]
            /\ kind = "replay" =>
                 /\ row # NoRow /\ row.state = "complete"
                 /\ by = row.answer /\ row.hash = Body[r]
  <2>1. row # NoRow => row.answer \in Requests \cup {Nobody}
    BY RowFields DEF TypeOK
  <2>. QED  BY <2>1 DEF Answer, Settle, Settled
<1>4. reply' \in [Requests -> Reply]
  BY <1>3 DEF TypeOK, Reply
<1>5. TypeOK'
  BY <1>2, <1>4 DEF TypeOK
<1>6. OneOwner'
  BY <1>2 DEF OneOwner
<1>7. ReplaySameBody'
  BY <1>3, IdempotencyAssumption DEF ReplaySameBody, AnswerFits, TypeOK, Reply
<1>8. AnswerFits'
  BY DEF AnswerFits
<1>. QED  BY <1>5, <1>6, <1>7, <1>8

\* The history counters only grow.
LEMMA CountersGrow ==
    ASSUME TypeOK, [Next]_vars
    PROVE  /\ timeouts' \in Nat /\ stolen' \in Nat /\ removed' \in Nat /\ noops' \in Nat
           /\ Undisturbed' => Undisturbed
<1>. DEFINE Grow == /\ timeouts' \in {timeouts, timeouts + 1} /\ stolen' \in {stolen, stolen + 1}
                    /\ removed' \in {removed, removed + 1} /\ noops' \in {noops, noops + 1}
<1>1. ASSUME UNCHANGED vars PROVE Grow
  BY <1>1 DEF vars, counts
<1>2. ASSUME NEW r \in Requests, resolve_idempotency(r)
      PROVE  Grow
  <2>1. CASE Resolve(r) \/ WaitGone(r) \/ WaitComplete(r) \/ Begin(r)
    BY <2>1 DEF Resolve, WaitGone, WaitComplete, Begin, counts
  <2>2. CASE WaitTimeout(r)
    BY <2>2 DEF WaitTimeout
  <2>3. CASE Abandon(r)
    BY <2>3 DEF Abandon
  <2>4. CASE Reread(r)
    BY <2>4 DEF Reread
  <2>. QED  BY <1>2, <2>1, <2>2, <2>3, <2>4 DEF resolve_idempotency
<1>3. ASSUME NEW r \in Requests, Handler(r) \/ Die(r)
      PROVE  Grow
  BY <1>3 DEF Handler, Complete, CutStream, Fail, Die, counts
<1>4. ASSUME Remove PROVE Grow
  BY <1>4 DEF Remove
<1>5. Grow
  BY <1>1, <1>2, <1>3, <1>4 DEF Next
<1>. QED  BY <1>5 DEF TypeOK, Undisturbed

-----------------------------------------------------------------------------
\* resolve_idempotency keeps the invariant.
LEMMA ResolveStep ==
    ASSUME IInv, [Next]_vars, NEW r \in Requests, resolve_idempotency(r)
    PROVE  IInv'
<1>. USE CountersGrow DEF IInv
<1>1. CASE Resolve(r)
  BY <1>1, QuietStep DEF Resolve, Points
<1>2. CASE WaitGone(r)
  BY <1>2, QuietStep DEF WaitGone, Points
<1>3. CASE WaitComplete(r)
  BY <1>3, QuietStep DEF WaitComplete, Settled
<1>4. CASE WaitTimeout(r)
  BY <1>4, QuietStep DEF WaitTimeout, Points
<1>5. CASE Abandon(r)
  <2>1. CASE row' = row
    BY <1>5, <2>1, QuietStep DEF Abandon, Points
  <2>2. CASE row' # row
    <3>1. row' = NoRow /\ stolen' = stolen + 1 /\ ~Undisturbed'
      BY <1>5, <2>2 DEF Abandon, DropPending, Undisturbed, TypeOK
    <3>2. TypeOK'
      BY <1>5, <3>1 DEF Abandon, Goto, TypeOK, Points
    <3>. QED  BY <3>1, <3>2 DEF OneOwner, ReplaySameBody, AnswerFits
  <2>. QED  BY <2>1, <2>2
<1>6. CASE Begin(r)
  <2>1. CASE row = NoRow
    <3>1. pc[r] = "begin" /\ slot' = slot \cup {r} /\ ran' = ran \cup {r} /\ Goto(r, "run")
      BY <1>6, <2>1 DEF Begin
    <3>2. row' = [hash |-> Body[r], state |-> "pending", answer |-> Nobody]
      BY <1>6, <2>1 DEF Begin
    <3>3. row' \in Row /\ row' # NoRow /\ row'.state = "pending" /\ row'.hash = Body[r]
      BY <3>2, BegunRow
    <3>4. reply' = reply /\ UNCHANGED cut
      BY <1>6 DEF Begin
    <3>5. TypeOK'
      BY <3>1, <3>3, <3>4 DEF Goto, TypeOK, Points
    <3>6. Undisturbed => slot = {}
      BY <2>1 DEF OneOwner
    <3>7. OneOwner'
      BY <3>1, <3>3, <3>6 DEF OneOwner, Goto, TypeOK
    <3>8. ReplaySameBody' /\ AnswerFits'
      BY <3>3, <3>4 DEF ReplaySameBody, AnswerFits
    <3>. QED  BY <3>5, <3>7, <3>8
  <2>2. CASE row # NoRow
    BY <1>6, <2>2, QuietStep DEF Begin, Points
  <2>. QED  BY <2>1, <2>2
<1>7. CASE Reread(r)
  <2>1. CASE row = NoRow
    <3>1. noops' = noops + 1 /\ ~Undisturbed'
      BY <1>7, <2>1 DEF Reread, Undisturbed, TypeOK
    <3>2. TypeOK'
      BY <1>7, <2>1, <3>1 DEF Reread, Goto, TypeOK, Points
    <3>. QED  BY <3>1, <3>2 DEF OneOwner, ReplaySameBody, AnswerFits
  <2>2. CASE row # NoRow
    BY <1>7, <2>2, QuietStep DEF Reread, Points
  <2>. QED  BY <2>1, <2>2
<1>. QED  BY <1>1, <1>2, <1>3, <1>4, <1>5, <1>6, <1>7 DEF resolve_idempotency

\* A handler that gives its slot up frees the key for the next request.
LEMMA ReleaseStep ==
    ASSUME IInv, NEW r \in Requests, pc[r] = "run", slot' = slot \ {r},
           Goto(r, "done"), UNCHANGED counts,
           reply' \in [Requests -> Reply],
           \A q \in Requests : reply'[q].kind = "replay" => reply'[q] = reply[q],
           cut' \subseteq Requests, ran' = ran,
           row' \in Row \cup {NoRow},
           Undisturbed /\ row' # NoRow /\ row'.state = "complete" =>
               row'.answer \in Requests /\ Body[row'.answer] = row'.hash
    PROVE  IInv'
<1>. USE DEF IInv
<1>1. pc' = [pc EXCEPT ![r] = "done"]
  BY DEF Goto
<1>2. TypeOK'
  BY <1>1 DEF TypeOK, Points, counts
<1>3. Undisturbed' <=> Undisturbed
  BY DEF Undisturbed, counts
<1>4. Undisturbed => slot = {r} /\ slot' = {}
  BY DEF OneOwner, TypeOK
<1>5. OneOwner'
  BY <1>1, <1>3, <1>4 DEF OneOwner, TypeOK
<1>6. ReplaySameBody'
  BY <1>3 DEF ReplaySameBody
<1>7. AnswerFits'
  BY <1>3 DEF AnswerFits
<1>. QED  BY <1>2, <1>5, <1>6, <1>7

\* Storing an answer leaves the key with nothing or with the answer of r, and
\* when nothing interferes r is a request of the row's body.
LEMMA StoreStep ==
    ASSUME IInv, NEW r \in Requests, pc[r] = "run", StoreAnswer(r)
    PROVE  /\ row' \in Row \cup {NoRow}
           /\ Undisturbed /\ row' # NoRow /\ row'.state = "complete" =>
                  row'.answer \in Requests /\ Body[row'.answer] = row'.hash
<1>. USE DEF IInv
<1>1. CASE r \in slot /\ row # NoRow
  <2>1. row \in Row
    BY <1>1 DEF TypeOK
  <2>2. row' = [row EXCEPT !.state = "complete", !.answer = r]
    BY <1>1 DEF StoreAnswer
  <2>3. row' \in Row /\ row'.answer = r /\ row'.hash = row.hash
    BY <2>1, <2>2, StoredRow
  <2>4. Undisturbed => row.hash = Body[r]
    BY <1>1 DEF OneOwner
  <2>. QED  BY <2>3, <2>4
<1>2. CASE ~(r \in slot /\ row # NoRow)
  BY <1>2 DEF StoreAnswer, TypeOK, AnswerFits
<1>. QED  BY <1>1, <1>2

\* The handlers keep the invariant.
LEMMA HandlerStep ==
    ASSUME IInv, NEW r \in Requests, Handler(r)
    PROVE  IInv'
<1>. USE DEF IInv
<1>1. CASE Complete(r)
  <2>1. reply' = [reply EXCEPT ![r] = [kind |-> "own", from |-> r]] /\ Goto(r, "done")
    BY <1>1 DEF Complete, Answer
  <2>2. /\ reply' \in [Requests -> Reply]
        /\ \A q \in Requests : reply'[q].kind = "replay" => reply'[q] = reply[q]
    BY <2>1 DEF TypeOK, Reply
  <2>3. cut' \subseteq Requests
    BY <1>1 DEF Complete, TypeOK
  <2>. QED  BY <1>1, <2>1, <2>2, <2>3, StoreStep, ReleaseStep DEF Complete
<1>2. CASE CutStream(r)
  <2>1. reply' = [reply EXCEPT ![r] = [kind |-> "failed", from |-> r]] /\ Goto(r, "done")
    BY <1>2 DEF CutStream, Answer
  <2>2. /\ reply' \in [Requests -> Reply]
        /\ \A q \in Requests : reply'[q].kind = "replay" => reply'[q] = reply[q]
    BY <2>1 DEF TypeOK, Reply
  <2>3. cut' \subseteq Requests
    BY <1>2 DEF CutStream, TypeOK
  <2>. QED  BY <1>2, <2>1, <2>2, <2>3, StoreStep, ReleaseStep DEF CutStream
<1>3. CASE Fail(r)
  <2>1. reply' = [reply EXCEPT ![r] = [kind |-> "failed", from |-> Nobody]] /\ Goto(r, "done")
    BY <1>3 DEF Fail, Answer
  <2>2. /\ reply' \in [Requests -> Reply]
        /\ \A q \in Requests : reply'[q].kind = "replay" => reply'[q] = reply[q]
    BY <2>1 DEF TypeOK, Reply
  <2>3. row' = row \/ row' = NoRow
    BY <1>3 DEF Fail, DropPending
  <2>4. cut' \subseteq Requests
    BY <1>3 DEF Fail, TypeOK
  <2>5. row' \in Row \cup {NoRow}
    BY <2>3 DEF TypeOK
  <2>6. Undisturbed /\ row' # NoRow /\ row'.state = "complete" =>
            row'.answer \in Requests /\ Body[row'.answer] = row'.hash
    BY <2>3 DEF AnswerFits
  <2>. QED  BY <1>3, <2>1, <2>2, <2>4, <2>5, <2>6, ReleaseStep DEF Fail
<1>. QED  BY <1>1, <1>2, <1>3 DEF Handler

\* A process that dies keeps its row; a removed row ends the undisturbed part.
LEMMA OutsideStep ==
    ASSUME IInv, Remove \/ \E r \in Requests : Die(r)
    PROVE  IInv'
<1>. USE DEF IInv
<1>1. CASE Remove
  <2>1. row' = NoRow /\ ~Undisturbed'
    BY <1>1 DEF Remove, Undisturbed, TypeOK
  <2>2. TypeOK'
    BY <1>1 DEF Remove, TypeOK
  <2>. QED  BY <2>1, <2>2 DEF OneOwner, ReplaySameBody, AnswerFits
<1>2. ASSUME NEW r \in Requests, Die(r)
      PROVE  IInv'
  <2>1. pc[r] = "run" /\ pc' = [pc EXCEPT ![r] = "dead"] /\ UNCHANGED <<row, slot, reply, cut, ran, counts>>
    BY <1>2 DEF Die, Goto
  <2>2. TypeOK'
    BY <2>1 DEF TypeOK, Points, counts
  <2>3. OneOwner' /\ ReplaySameBody' /\ AnswerFits'
    BY <2>1 DEF OneOwner, ReplaySameBody, AnswerFits, Undisturbed, counts, TypeOK
  <2>. QED  BY <2>2, <2>3
<1>. QED  BY <1>1, <1>2

\* The invariant is inductive: a key that nothing interfered with has at most
\* one owner, and its stored answer is one of the owner's body.
THEOREM Invariance == Spec => []IInv
<1>1. Init => IInv
  BY IdempotencyAssumption
     DEF Init, IInv, TypeOK, OneOwner, ReplaySameBody, AnswerFits, Undisturbed, Points, Reply
<1>2. IInv /\ [Next]_vars => IInv'
  <2>. SUFFICES ASSUME IInv, [Next]_vars PROVE IInv'
    OBVIOUS
  <2>1. CASE UNCHANGED vars
    BY <2>1 DEF vars, counts, IInv, TypeOK, OneOwner, ReplaySameBody, AnswerFits, Undisturbed
  <2>2. CASE Next
    BY <2>2, ResolveStep, HandlerStep, OutsideStep DEF Next
  <2>. QED  BY <2>1, <2>2
<1>. QED  BY <1>1, <1>2, PTL DEF Spec

\* Types, for any set of requests and replicas.
THEOREM TypeCorrect == Spec => []TypeOK
BY Invariance, PTL DEF IInv

\* begin is a lock: no two requests run under one undisturbed key.
THEOREM KeyIsALock == Spec => []OneOwner
BY Invariance, PTL DEF IInv

\* A replay under an undisturbed key answers the body that was sent.
THEOREM ReplayFits == Spec => []ReplaySameBody
BY Invariance, PTL DEF IInv

\* Once the answer is stored, no step changes it and none reaches the router.
LEMMA CompleteRowStep ==
    ASSUME IInv, [Next]_vars, Undisturbed', row # NoRow, row.state = "complete"
    PROVE  row' = row /\ ran' = ran
<1>. USE DEF IInv
<1>1. Undisturbed
  BY CountersGrow
<1>2. slot = {} /\ \A r \in Requests : pc[r] # "run"
  BY <1>1 DEF OneOwner, TypeOK
<1>3. CASE UNCHANGED vars
  BY <1>3 DEF vars
<1>4. ASSUME NEW r \in Requests, resolve_idempotency(r)
      PROVE  row' = row /\ ran' = ran
  <2>1. CASE Resolve(r) \/ WaitGone(r) \/ WaitComplete(r) \/ WaitTimeout(r)
    BY <2>1 DEF Resolve, WaitGone, WaitComplete, WaitTimeout
  <2>2. CASE Abandon(r)
    BY <2>2 DEF Abandon, DropPending
  <2>3. CASE Begin(r)
    BY <2>3 DEF Begin
  <2>4. CASE Reread(r)
    BY <2>4 DEF Reread
  <2>. QED  BY <1>4, <2>1, <2>2, <2>3, <2>4 DEF resolve_idempotency
<1>5. ASSUME NEW r \in Requests, Handler(r) \/ Die(r)
      PROVE  row' = row /\ ran' = ran
  BY <1>2, <1>5 DEF Handler, Complete, CutStream, Fail, Die
<1>6. CASE Remove
  BY <1>6 DEF Remove, Undisturbed, TypeOK
<1>. QED  BY <1>3, <1>4, <1>5, <1>6 DEF Next

\* An answered key answers every later use without another call of the router.
THEOREM AnswerStays == Spec => AnswerIsFinal
<1>1. IInv /\ [Next]_vars =>
        [Undisturbed' /\ row # NoRow /\ row.state = "complete" => row' = row /\ ran' = ran]_vars
  BY CompleteRowStep
<1>. QED  BY <1>1, Invariance, PTL DEF Spec, AnswerIsFinal

-----------------------------------------------------------------------------
\* In one process a request between two statements runs alone: at "begin" the
\* key is free, and only a wait that ran out leads to a taken key.
OneProcess ==
    /\ \A r, q \in Requests : pc[r] \in Inner /\ pc[q] \in Inner => r = q
    /\ \A r \in Requests : /\ pc[r] = "begin" => row = NoRow
                           /\ pc[r] # "reread"
                           /\ pc[r] = "abandon" =>
                                row = NoRow \/ (row.state = "pending" /\ stolen < timeouts)
    /\ SlotInOneProcess

\* One step of a single process.
LEMMA OneProcessStep ==
    ASSUME ~Fleet, TypeOK, OneProcess, [Next]_vars
    PROVE  OneProcess'
<1>. USE DEF OneProcess, SlotInOneProcess, Inner
<1>1. CASE UNCHANGED vars
  BY <1>1 DEF vars, counts
<1>2. ASSUME NEW r \in Requests, resolve_idempotency(r)
      PROVE  OneProcess'
  <2>. USE DEF Turn, Goto, TypeOK, Points
  <2>1. CASE Resolve(r)
    BY <2>1 DEF Resolve, Settle, Answer, counts
  <2>2. CASE WaitGone(r)
    BY <2>2 DEF WaitGone, Answer, counts
  <2>3. CASE WaitComplete(r)
    <3>1. pc' = [pc EXCEPT ![r] = "done"] /\ UNCHANGED <<row, slot, ran, counts>>
      BY <2>3 DEF WaitComplete, Settle, Answer
    <3>2. stolen' = stolen /\ timeouts' = timeouts
      BY <3>1 DEF counts
    <3>. QED  BY <3>1, <3>2
  <2>4. CASE WaitTimeout(r)
    <3>1. /\ \E p \in {"done", "abandon"} :
                pc' = [pc EXCEPT ![r] = p] /\ (p = "abandon" => Turn(r) /\ pc[r] = "wait")
          /\ UNCHANGED <<row, slot, ran, stolen>> /\ timeouts' = timeouts + 1
      BY <2>4 DEF WaitTimeout, Settle, Answer
    <3>2. Turn(r) /\ stolen < timeouts' /\ row.state = "pending"
      BY <2>4, <3>1 DEF WaitTimeout
    <3>3. CASE pc' = [pc EXCEPT ![r] = "done"]
      BY <3>1, <3>2, <3>3
    <3>4. CASE pc' = [pc EXCEPT ![r] = "abandon"]
      <4>1. \A q \in Requests \ {r} : pc[q] \notin Inner /\ pc'[q] = pc[q]
        BY <3>2, <3>4
      <4>2. pc'[r] = "abandon" /\ stolen' < timeouts' /\ row'.state = "pending"
        BY <3>1, <3>2, <3>4
      <4>3. \A q \in ran' : q \in slot' \/ pc'[q] \in {"done", "dead"}
        BY <3>1, <3>4, <2>4 DEF WaitTimeout
      <4>. QED  BY <3>1, <4>1, <4>2, <4>3
    <3>. QED  BY <3>1, <3>3, <3>4
  <2>5. CASE Abandon(r)
    <3>1. pc' = [pc EXCEPT ![r] = "begin"] /\ pc[r] = "abandon" /\ UNCHANGED <<slot, ran, timeouts>>
      BY <2>5 DEF Abandon
    <3>2. row' = NoRow /\ (stolen' = stolen \/ (stolen' = stolen + 1 /\ stolen < timeouts))
      BY <2>5 DEF Abandon, DropPending
    <3>3. \A q \in Requests \ {r} : pc[q] \notin Inner /\ pc'[q] = pc[q]
      BY <3>1
    <3>4. stolen' <= timeouts'
      BY <3>1, <3>2
    <3>. QED  BY <3>1, <3>2, <3>3, <3>4
  <2>6. CASE Begin(r)
    BY <2>6 DEF Begin, counts
  <2>7. CASE Reread(r)
    BY <2>7 DEF Reread
  <2>. QED  BY <1>2, <2>1, <2>2, <2>3, <2>4, <2>5, <2>6, <2>7 DEF resolve_idempotency
<1>3. ASSUME NEW r \in Requests, Handler(r)
      PROVE  OneProcess'
  <2>. USE DEF Turn, Goto, TypeOK, Points
  <2>1. CASE Complete(r)
    BY <2>1 DEF Complete, Answer, StoreAnswer, counts
  <2>2. CASE CutStream(r)
    BY <2>2 DEF CutStream, Answer, StoreAnswer, counts
  <2>3. CASE Fail(r)
    BY <2>3 DEF Fail, Answer, DropPending, counts
  <2>. QED  BY <1>3, <2>1, <2>2, <2>3 DEF Handler
<1>4. ASSUME NEW r \in Requests, Die(r)
      PROVE  OneProcess'
  BY <1>4 DEF Die, Goto, TypeOK, Points, counts
<1>5. CASE Remove
  BY <1>5 DEF Remove, TypeOK
<1>. QED  BY <1>1, <1>2, <1>3, <1>4, <1>5 DEF Next

\* In one process no request with a key runs without a slot, and a key is taken
\* from its owner only by a wait that ran out (resolve_idempotency has no await
\* between its statements).
THEOREM SlotsInOneProcess ==
    ASSUME ~Fleet
    PROVE  Spec => []SlotInOneProcess
<1>1. Init => OneProcess
  BY DEF Init, OneProcess, SlotInOneProcess, Inner
<1>2. TypeOK /\ OneProcess /\ [Next]_vars => OneProcess'
  BY OneProcessStep
<1>3. OneProcess => SlotInOneProcess
  BY DEF OneProcess
<1>. QED  BY <1>1, <1>2, <1>3, TypeCorrect, PTL DEF Spec
============================================================================
