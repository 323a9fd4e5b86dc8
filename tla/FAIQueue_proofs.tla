--------------------------- MODULE FAIQueue_proofs ---------------------------
(***************************************************************************)
(* FAIQueue uses its baskets as their theorems assume, so the theorems of  *)
(* KBasketFAI_proofs hold of the queue, HEAD and TAIL leave no item        *)
(* behind, and the answers are those of a FIFO queue, except that over     *)
(* grouped LL/IC objects EMPTY is no answer: for every number of threads,  *)
(* items, baskets and slots.                                               *)
(***************************************************************************)
EXTENDS FAIQueue, KBasketFAI_proofs, Sequences, FiniteSetTheorems

\* A thread inside put or take is there for its enqueue or its dequeue.
Calling ==
  \A p \in Procs :
    /\ pc[p] \in PutPcs => qpc[p] = "enqPut" /\ x[p] = arg[p] /\ bk[p] = tail[p]
    /\ pc[p] \in TakePcs => qpc[p] = "deqTake" /\ bk[p] = head[p]

\* Pending enqueues have different items, stored only when the put is over.
Enqueuing ==
  /\ stored \subseteq used
  /\ \A p \in Procs : qpc[p] \in EnqPcs =>
       /\ arg[p] \in used
       /\ arg[p] \in stored => qpc[p] = "enqPut" /\ pc[p] = "idle" /\ res[p] = OK
       /\ \A q \in Procs : qpc[q] \in EnqPcs /\ arg[p] = arg[q] => p = q

\* The indices in use are those of baskets, and TAIL does not go back.
Bounded ==
  \A p \in Procs :
    /\ qpc[p] = "enqPut" => tail[p] < Capacity /\ tail[p] <= TAIL
    /\ qpc[p] = "deqTake" => head[p] < Capacity

\* HEAD has only passed baskets that a take has reported closed.
Passed ==
  /\ \A b \in Baskets : b < HEAD => b \in drained
  /\ \A p \in Procs :
       qpc[p] = "deqTake" /\ pc[p] = "idle" /\ res[p] = BASKET_CLOSED => head[p] \in drained

\* If no IC is lost, TAIL has passed every basket with an item, or an enqueue is
\* about to move it.
Covered ==
  ~lossy => \A b \in Baskets, s \in Slots :
    A[b][s] \in Items =>
      \/ b < TAIL
      \/ \E p \in Procs : qpc[p] = "enqPut" /\ arg[p] = A[b][s] /\ tail[p] = b

QInv == QueueTypeOK /\ Calling /\ Enqueuing /\ Bounded /\ Passed /\ Covered
-----------------------------------------------------------------------------
LEMMA InitQInv == Init => QInv
<1>. SUFFICES ASSUME Init PROVE QInv
  OBVIOUS
<1>. USE CapacityAssumption, SentinelAssumption DEF Init, BasketInit, QueueInit
<1>1. QueueTypeOK
  BY DEF QueueTypeOK
<1>2. Calling /\ Enqueuing /\ Bounded /\ Passed
  BY DEF Calling, Enqueuing, Bounded, Passed, PutPcs, TakePcs, EnqPcs
<1>3. Covered
  BY DEF Covered
<1>. QED
  BY <1>1, <1>2, <1>3 DEF QInv

\* Every step of the queue is a step of the baskets, or leaves them alone.
LEMMA StepIsBasketStep == QInv /\ [Next]_vars => [BasketNext]_basketVars
<1>. SUFFICES ASSUME QInv, [Next]_vars PROVE [BasketNext]_basketVars
  OBVIOUS
<1>0. QueueTypeOK /\ Calling /\ Enqueuing /\ Bounded
  BY DEF QInv
<1>1. CASE UNCHANGED vars
  BY <1>1 DEF vars, basketVars
<1>2. ASSUME NEW p \in Procs, PutStep(p) \/ TakeStep(p) PROVE BasketNext
  BY <1>2 DEF BasketNext
<1>3. ASSUME NEW p \in Procs, QueueStep(p), BasketCall(p), qpc'[p] = "enqPut"
      PROVE  BasketNext
  <2>1. EnqLL(p) /\ TAIL < Capacity
    BY <1>0, <1>3 DEF QueueStep, EnqStep, DeqStep, EnqLL, EnqIC, DeqHead, DeqTail, DeqItem,
      DeqIC, DeqHHead, DeqTTail, Loop, GoOn, Answer, AnswerEmpty, QueueTypeOK
  <2>2. tail'[p] = TAIL /\ TAIL \in Baskets
    BY <1>0, <2>1, CapacityAssumption DEF EnqLL, QueueTypeOK
  <2>3. arg[p] \in Items \ stored /\ qpc[p] \in EnqPcs
    BY <1>0, <2>1 DEF EnqLL, Enqueuing, QueueTypeOK, EnqPcs
  <2>4. pc[p] = "idle" /\ Fresh(arg[p])
    <3>1. ASSUME NEW q \in Procs, pc[q] \in PutPcs PROVE x[q] # arg[p]
      BY <1>0, <2>1, <2>3, <3>1 DEF Calling, Enqueuing, EnqPcs, EnqLL
    <3>. QED
      BY <1>3, <2>1, <2>3, <3>1 DEF Fresh, BasketCall, PutCall
  <2>. QED
    BY <1>3, <2>2, <2>3, <2>4 DEF BasketCall, BasketNext, Call
<1>4. ASSUME NEW p \in Procs, QueueStep(p), BasketCall(p), qpc'[p] = "deqTake"
      PROVE  BasketNext
  <2>1. head'[p] \in Nat /\ head'[p] < Capacity
    BY <1>0, <1>4, CapacityAssumption DEF QueueStep, EnqStep, DeqStep, EnqLL, EnqIC, DeqHead,
      DeqTail, DeqItem, DeqIC, DeqHHead, DeqTTail, Loop, GoOn, Answer, AnswerEmpty, QueueTypeOK
  <2>. QED
    BY <1>4, <2>1, CapacityAssumption DEF BasketCall, BasketNext, Call
<1>. QED
  BY <1>1, <1>2, <1>3, <1>4 DEF Next, Step, BasketCall
-----------------------------------------------------------------------------
\* The steps inside put and take.
LEMMA BasketStepQInv ==
  ASSUME IInv, QInv, NEW p \in Procs, PutStep(p) \/ TakeStep(p), UNCHANGED queueVars
  PROVE  QInv'
<1>. USE SentinelAssumption DEF queueVars
<1>0. /\ QueueTypeOK /\ Calling /\ Enqueuing /\ Bounded /\ Passed /\ Covered
      /\ UNCHANGED <<HEAD, TAIL, lossy, qpc, arg, head, tail, hhead, used>>
  BY DEF QInv
<1>1. QueueTypeOK' /\ Bounded'
  BY <1>0 DEF QueueTypeOK, Bounded
<1>2. CASE PutStep(p)
  <2>1. Calling' /\ Enqueuing' /\ Passed'
    BY <1>0, <1>2, PutEffect DEF Calling, Enqueuing, Passed, PutPcs, TakePcs, EnqPcs
  <2>2. Covered'
    BY <1>0, <1>2, PutEffect DEF Calling, Covered
  <2>. QED
    BY <1>1, <2>1, <2>2 DEF QInv
<1>3. CASE TakeStep(p)
  <2>1. Calling' /\ Enqueuing' /\ Passed'
    BY <1>0, <1>3, TakeEffect DEF Calling, Enqueuing, Passed, PutPcs, TakePcs, EnqPcs
  <2>2. Covered'
    BY <1>0, <1>3, TakeEffect DEF Covered
  <2>. QED
    BY <1>1, <2>1, <2>2 DEF QInv
<1>. QED
  BY <1>2, <1>3

\* The calls of enqueue and dequeue.
LEMMA CallQInv ==
  ASSUME QInv, NEW p \in Procs, QueueCall(p), UNCHANGED basketVars
  PROVE  QInv'
<1>. USE DEF basketVars, shared, local, history, queueShared, queueHistory, GoOn
<1>0. QueueTypeOK /\ Calling /\ Enqueuing /\ Bounded /\ Passed /\ Covered
  BY DEF QInv
<1>1. UNCHANGED <<A, PUTS, TAKES, State, pc, bk, x, slot, res, stored, removed, drained>>
  OBVIOUS
<1>2. CASE \E v \in Items : Enqueue(p, v)
  <2>. USE <1>0, <1>1, <1>2 DEF Enqueue, QueueTypeOK, EnqPcs, DeqPcs
  <2>1. QueueTypeOK'
    OBVIOUS
  <2>2. Calling' /\ Bounded' /\ Passed'
    BY DEF Calling, Bounded, Passed
  <2>3. Enqueuing'
    BY DEF Enqueuing
  <2>4. Covered'
    BY DEF Covered
  <2>. QED
    BY <2>1, <2>2, <2>3, <2>4 DEF QInv
<1>3. CASE Dequeue(p)
  <2>. USE <1>0, <1>1, <1>3 DEF Dequeue, QueueTypeOK, EnqPcs, DeqPcs
  <2>1. QueueTypeOK'
    OBVIOUS
  <2>2. Calling' /\ Bounded' /\ Passed'
    BY DEF Calling, Bounded, Passed
  <2>3. Enqueuing' /\ Covered'
    BY DEF Enqueuing, Covered
  <2>. QED
    BY <2>1, <2>2, <2>3 DEF QInv
<1>. QED
  BY <1>2, <1>3 DEF QueueCall

\* enqueue: reading TAIL and calling put.
LEMMA EnqLLQInv ==
  ASSUME IInv, QInv, NEW p \in Procs, EnqLL(p), BasketCall(p) PROVE QInv'
<1>. USE DEF EnqLL, GoOn, queueShared, queueHistory
<1>0. TypeOK /\ QueueTypeOK /\ Calling /\ Enqueuing /\ Bounded /\ Passed /\ Covered
  BY DEF QInv, IInv
<1>1. /\ UNCHANGED <<A, res, stored, drained, HEAD, TAIL, lossy, arg, head, hhead, used>>
      /\ \A q \in Procs \ {p} : pc'[q] = pc[q] /\ x'[q] = x[q] /\ bk'[q] = bk[q]
      /\ qpc'[p] = "enqPut" => /\ pc'[p] = "putState" /\ x'[p] = arg[p]
                               /\ bk'[p] = TAIL /\ TAIL < Capacity
      /\ qpc'[p] # "enqPut" => qpc'[p] = "overrun" /\ pc' = pc
      /\ pc[p] = "idle" /\ arg[p] \notin stored
  <2>1. /\ qpc'[p] = IF TAIL < Capacity THEN "enqPut" ELSE "overrun"
        /\ pc[p] \notin PutPcs \cup TakePcs /\ arg[p] \notin stored
    BY <1>0 DEF QueueTypeOK, Calling, Enqueuing, EnqPcs
  <2>2. CASE TAIL < Capacity
    <3>1. PutCall(p, tail'[p], arg[p]) /\ tail'[p] = TAIL
      BY <2>1, <2>2, <1>0 DEF BasketCall, QueueTypeOK
    <3>. QED
      BY <2>1, <2>2, <3>1, <1>0 DEF PutCall, Goto, shared, history, TypeOK
  <2>3. CASE ~(TAIL < Capacity)
    <3>1. UNCHANGED basketVars
      BY <2>1, <2>3, <1>0 DEF BasketCall
    <3>. QED
      BY <2>1, <2>3, <3>1, <1>0 DEF basketVars, shared, local, history, TypeOK
  <2>. QED
    BY <2>2, <2>3
<1>2. QueueTypeOK'
  BY <1>0 DEF QueueTypeOK, EnqPcs
<1>3. Calling'
  BY <1>0, <1>1 DEF Calling, QueueTypeOK, PutPcs, TakePcs
<1>4. Enqueuing'
  BY <1>0, <1>1 DEF Enqueuing, QueueTypeOK, EnqPcs
<1>5. Bounded'
  BY <1>0, <1>1 DEF Bounded, QueueTypeOK
<1>7. Passed'
  BY <1>0, <1>1 DEF Passed, QueueTypeOK
<1>6. Covered'
  BY <1>0, <1>1 DEF Covered, QueueTypeOK
<1>. QED
  BY <1>2, <1>3, <1>4, <1>5, <1>6, <1>7 DEF QInv

\* enqueue: moving TAIL.
LEMMA EnqICQInv ==
  ASSUME QInv, NEW p \in Procs, EnqIC(p), UNCHANGED basketVars PROVE QInv'
<1>. USE DEF EnqIC, IC, ICValues, GoOn, Answer
<1>0. /\ QueueTypeOK /\ Calling /\ Enqueuing /\ Bounded /\ Passed /\ Covered
      /\ UNCHANGED <<A, pc, bk, x, res, stored, drained, HEAD, lossy, arg, head, tail, hhead, used>>
  BY DEF QInv, basketVars, shared, local, history
<1>2. QueueTypeOK' /\ TAIL <= TAIL' /\ (lossy \/ tail[p] < TAIL')
  <2>1. TAIL \in 0 .. Capacity /\ tail[p] \in 0 .. Capacity /\ tail[p] < Capacity
    BY <1>0 DEF QueueTypeOK, Bounded
  <2>2. TAIL' \in 0 .. Capacity /\ TAIL <= TAIL' /\ (lossy \/ tail[p] < TAIL')
    BY <2>1, <1>0, CapacityAssumption DEF Bounded
  <2>. QED
    BY <2>2, <1>0 DEF QueueTypeOK, EnqPcs
<1>1. /\ qpc' \in [Procs -> EnqPcs \cup DeqPcs \cup {"idle"}]
      /\ qpc'[p] \in {"idle", "enqLL"} /\ \A q \in Procs \ {p} : qpc'[q] = qpc[q]
      /\ qpc[p] = "enqPut" /\ pc[p] = "idle"
      /\ qpc'[p] = "enqLL" => res[p] # OK
  BY <1>0 DEF QueueTypeOK, EnqPcs
<1>3. Calling'
  BY <1>0, <1>1 DEF Calling, PutPcs, TakePcs
<1>4. Enqueuing'
  BY <1>0, <1>1 DEF Enqueuing, EnqPcs
<1>5. Bounded' /\ Passed'
  BY <1>0, <1>1, CapacityAssumption DEF Bounded, Passed, QueueTypeOK
<1>6. Covered'
  <2>. SUFFICES ASSUME ~lossy, NEW b \in Baskets, NEW s \in Slots,
                       A[b][s] \in Items
                PROVE  \/ b < TAIL'
                       \/ \E q \in Procs : qpc'[q] = "enqPut" /\ arg[q] = A[b][s] /\ tail[q] = b
    BY <1>0 DEF Covered
  <2>1. CASE b < TAIL
    BY <2>1, <1>0, <1>2, CapacityAssumption DEF QueueTypeOK
  <2>2. CASE \E q \in Procs : qpc[q] = "enqPut" /\ arg[q] = A[b][s] /\ tail[q] = b
    BY <2>2, <1>1, <1>2
  <2>. QED
    BY <2>1, <2>2, <1>0 DEF Covered
<1>. QED
  BY <1>2, <1>3, <1>4, <1>5, <1>6 DEF QInv

\* The steps of dequeue.
LEMMA DeqStepQInv ==
  ASSUME IInv, QInv, NEW p \in Procs, DeqStep(p), BasketCall(p) PROVE QInv'
<1>. USE DEF GoOn, Answer, AnswerEmpty, Loop, queueShared, queueHistory
<1>0. TypeOK /\ QueueTypeOK /\ Calling /\ Enqueuing /\ Bounded /\ Passed /\ Covered
  BY DEF QInv, IInv
<1>1. /\ UNCHANGED <<TAIL, lossy, arg, used>>
      /\ qpc[p] \in DeqPcs /\ pc[p] = "idle"
      /\ qpc' \in [Procs -> EnqPcs \cup DeqPcs \cup {"idle"}]
      /\ qpc'[p] \in DeqPcs \cup {"idle"} /\ \A q \in Procs \ {p} : qpc'[q] = qpc[q]
      /\ head' \in [Procs -> 0 .. Capacity] /\ \A q \in Procs \ {p} : head'[q] = head[q]
      /\ tail' \in [Procs -> 0 .. Capacity] /\ \A q \in Procs \ {p} : tail'[q] = tail[q]
      /\ hhead' \in [Procs -> 0 .. Capacity]
      /\ qpc'[p] = "deqTake" => head'[p] < Capacity
  <2>. USE <1>0, CapacityAssumption DEF QueueTypeOK, DeqPcs, Calling, TypeOK
  <2>1. CASE DeqHead(p)
    BY <2>1 DEF DeqHead
  <2>0. /\ HEAD \in 0 .. Capacity /\ TAIL \in 0 .. Capacity
        /\ head[p] \in 0 .. Capacity /\ hhead[p] \in 0 .. Capacity
    OBVIOUS
  <2>2. CASE DeqTail(p)
    <3>1. qpc'[p] = "deqTake" => head'[p] < Capacity
      BY <2>0, <2>2 DEF DeqTail
    <3>. QED
      BY <2>0, <2>2, <3>1 DEF DeqTail
  <2>3. CASE DeqItem(p)
    BY <2>3 DEF DeqItem
  <2>4. CASE DeqIC(p)
    BY <2>4 DEF DeqIC
  <2>5. CASE DeqHHead(p)
    BY <2>5 DEF DeqHHead
  <2>6. CASE DeqTTail(p)
    <3>1. qpc'[p] = "deqTake" => head'[p] < Capacity
      BY <2>0, <2>6 DEF DeqTTail
    <3>2. CASE hhead[p] = head[p] /\ TAIL = tail[p]
      BY <2>6, <3>1, <3>2 DEF DeqTTail
    <3>3. CASE ~(hhead[p] = head[p] /\ TAIL = tail[p])
      <4>1. /\ head' = [head EXCEPT ![p] = hhead[p]] /\ tail' = [tail EXCEPT ![p] = TAIL]
            /\ qpc' = [qpc EXCEPT ![p] = IF hhead[p] < TAIL THEN "deqTake" ELSE "deqHHead"]
            /\ UNCHANGED <<TAIL, arg, used, hhead>>
        BY <2>6, <3>3 DEF DeqTTail
      <4>. QED
        BY <2>0, <2>6, <3>1, <4>1 DEF DeqTTail
    <3>. QED
      BY <3>2, <3>3
  <2>. QED
    BY <2>1, <2>2, <2>3, <2>4, <2>5, <2>6 DEF DeqStep
<1>2. /\ UNCHANGED <<A, x, res, stored, drained>>
      /\ \A q \in Procs \ {p} : pc'[q] = pc[q] /\ bk'[q] = bk[q]
      /\ IF qpc'[p] = "deqTake" THEN pc'[p] = "takeCount" /\ bk'[p] = head'[p]
                                ELSE pc'[p] = "idle" /\ bk' = bk
  <2>1. qpc'[p] # "enqPut"
    BY <1>1 DEF DeqPcs
  <2>2. CASE qpc'[p] = "deqTake"
    BY <2>1, <2>2, <1>0 DEF BasketCall, TakeCall, Goto, shared, history, TypeOK
  <2>3. CASE qpc'[p] # "deqTake"
    BY <2>1, <2>3, <1>1 DEF BasketCall, basketVars, shared, local, history
  <2>. QED
    BY <2>2, <2>3
<1>3. HEAD' = HEAD \/ (HEAD' = HEAD + 1 /\ HEAD \in drained /\ HEAD < Capacity)
  BY <1>0 DEF DeqStep, DeqHead, DeqTail, DeqItem, DeqIC, DeqHHead, DeqTTail, IC, ICValues, Bounded, Passed
<1>4. QueueTypeOK'
  <2>1. HEAD' \in 0 .. Capacity
    BY <1>0, <1>3, CapacityAssumption DEF QueueTypeOK
  <2>. QED
    BY <2>1, <1>0, <1>1 DEF QueueTypeOK
<1>5. Calling'
  BY <1>0, <1>1, <1>2 DEF Calling, PutPcs, TakePcs
<1>6. Enqueuing'
  BY <1>0, <1>1, <1>2 DEF Enqueuing, EnqPcs, DeqPcs
<1>7. Bounded'
  BY <1>0, <1>1 DEF Bounded, DeqPcs
<1>8. Passed'
  <2>1. \A b \in Baskets : b < HEAD' => b \in drained
    BY <1>0, <1>3, CapacityAssumption DEF Passed, QueueTypeOK
  <2>. QED
    BY <2>1, <1>0, <1>1, <1>2 DEF Passed
<1>9. Covered'
  BY <1>0, <1>1, <1>2 DEF Covered, DeqPcs
<1>. QED
  BY <1>4, <1>5, <1>6, <1>7, <1>8, <1>9 DEF QInv

LEMMA NextQInv == IInv /\ QInv /\ [Next]_vars => QInv'
<1>. SUFFICES ASSUME IInv, QInv, [Next]_vars PROVE QInv'
  OBVIOUS
<1>1. CASE UNCHANGED vars
  BY <1>1 DEF vars, queueVars, basketVars, shared, local, history, QInv, QueueTypeOK, Calling,
    Enqueuing, Bounded, Passed, Covered
<1>2. ASSUME NEW p \in Procs, QueueCall(p), UNCHANGED basketVars PROVE QInv'
  BY <1>2, CallQInv
<1>3. ASSUME NEW p \in Procs, PutStep(p) \/ TakeStep(p), UNCHANGED queueVars PROVE QInv'
  BY <1>3, BasketStepQInv
<1>4. ASSUME NEW p \in Procs, EnqLL(p), BasketCall(p) PROVE QInv'
  BY <1>4, EnqLLQInv
<1>5. ASSUME NEW p \in Procs, EnqIC(p), BasketCall(p) PROVE QInv'
  <2>1. qpc'[p] \in {"idle", "enqLL"}
    BY <1>5 DEF EnqIC, Answer, GoOn, QInv, QueueTypeOK
  <2>2. UNCHANGED basketVars
    BY <1>5, <2>1 DEF BasketCall
  <2>. QED
    BY <1>5, <2>2, EnqICQInv
<1>6. ASSUME NEW p \in Procs, DeqStep(p), BasketCall(p) PROVE QInv'
  BY <1>6, DeqStepQInv
<1>. QED
  BY <1>1, <1>2, <1>3, <1>4, <1>5, <1>6 DEF Next, Step, QueueStep, EnqStep

LEMMA QueueInvariance == Spec => BasketSpec /\ [](IInv /\ QInv)
<1>1. Init => BasketInit /\ IInv /\ QInv
  BY InitIInv, InitQInv DEF Init
<1>2. IInv /\ QInv /\ [Next]_vars => [BasketNext]_basketVars /\ (IInv /\ QInv)'
  BY StepIsBasketStep, NextIInv, NextQInv
<1>. QED
  BY <1>1, <1>2, PTL DEF Spec, BasketSpec

\* The queue makes only calls that the baskets are made for: enqueue never puts
\* an item that is in a basket or being put (basket_queue.hpp 111-145).
THEOREM QueueUsesBaskets == Spec => UsesBaskets
BY QueueInvariance DEF UsesBaskets

\* Every index that enqueue and dequeue pass to the array of baskets is in it;
\* HEAD and TAIL stay in range (basket_queue.hpp 111-145).
THEOREM QueueTypeCorrect == Spec => []QueueTypeOK
<1>1. QInv => QueueTypeOK
  BY DEF QInv
<1>. QED
  BY <1>1, QueueInvariance, PTL

\* In the queue, no item is lost or duplicated in the baskets.
THEOREM QueueConservesItems == Spec => []NoLossNoDuplicate
BY QueueInvariance, ItemsConserved

\* An item whose enqueue has returned is where dequeue looks for it, or belongs
\* to a dequeue in progress: neither a late put into a basket that HEAD has
\* passed nor a TAIL that lags behind makes it invisible (basket_queue.hpp 111-145).
THEOREM QueueLeavesNothingBehind == Spec => []NothingLeftBehind
<1>1. IInv /\ QInv /\ ClosedLeavesNothing => NothingLeftBehind
  <2>. SUFFICES ASSUME IInv, QInv, ClosedLeavesNothing,
                       NEW v \in stored, NEW b \in Baskets, NEW s \in Slots,
                       <<b, s>> \in Places(v),
                       \A p \in Procs : qpc[p] \in EnqPcs => arg[p] # v,
                       ~\E p \in Procs : HoldsTake(p, b, s)
                PROVE  HEAD <= b /\ (lossy \/ b < TAIL)
    BY DEF NothingLeftBehind
  <2>1. v \in Items /\ A[b][s] = v
    BY DEF IInv, TypeOK, Places
  <2>2. lossy \/ b < TAIL
    BY <2>1 DEF QInv, Covered, EnqPcs
  <2>3. ~(b < HEAD)
    BY DEF QInv, Passed, ClosedLeavesNothing
  <2>. QED
    BY <2>2, <2>3, CapacityAssumption DEF QInv, QueueTypeOK
<1>. QED
  BY <1>1, QueueInvariance, ClosedIsSafe, PTL
-----------------------------------------------------------------------------
(***************************************************************************)
(* Linearizability: the items take effect in the order of their slots.     *)
(***************************************************************************)
LP == INSTANCE Linearization_proofs

\* The operators of the queue's instance of Linearization are those the lemmas speak of.
LEMMA SameExplanations ==
  /\ \A c, p, o : LP!TakeEffect(c, p, o) = L!TakeEffect(c, p, o)
  /\ \A C, pending : LP!Explanations(C, pending) = L!Explanations(C, pending)
  /\ \A C, pending, p, r : LP!Respond(C, pending, p, r) = L!Respond(C, pending, p, r)
  /\ \A C, p : LP!Withdraw(C, p) = L!Withdraw(C, p)
<1>1. \A c, p, o : LP!TakeEffect(c, p, o) = L!TakeEffect(c, p, o)
  BY DEF LP!TakeEffect, L!TakeEffect, LP!Answer, L!Answer
<1>2. ASSUME NEW C, NEW pending PROVE LP!Explanations(C, pending) = L!Explanations(C, pending)
  BY DEF LP!TakeEffect, L!TakeEffect, LP!Answer, L!Answer, LP!OneMore, L!OneMore,
     LP!Explanations, L!Explanations, LP!Cardinality, L!Cardinality
<1>3. ASSUME NEW C, NEW pending, NEW p, NEW r
      PROVE  LP!Respond(C, pending, p, r) = L!Respond(C, pending, p, r)
  BY <1>2 DEF LP!Respond, L!Respond
<1>4. \A C, p : LP!Withdraw(C, p) = L!Withdraw(C, p)
  BY DEF LP!Withdraw, L!Withdraw
<1>. QED
  BY <1>1, <1>2, <1>3, <1>4

\* Only finitely many calls are pending.
Few == IsFiniteSet({p \in Procs : qpc[p] # "idle"})

\* What is pending is what the lemmas about explanations ask for.
LEMMA PendingCalls == QInv /\ Few => LP!Calls(Items, Pending)
<1>. SUFFICES ASSUME QInv, Few PROVE LP!Calls(Items, Pending)
  OBVIOUS
<1>1. \A p \in Procs : qpc[p] \in EnqPcs => arg[p] \in Items
  BY DEF QInv, Enqueuing, QueueTypeOK
<1>2. /\ DOMAIN Pending = {p \in Procs : qpc[p] # "idle"}
      /\ \A p \in DOMAIN Pending : Pending[p] \in Items \cup {DEQUEUE}
  BY <1>1 DEF Pending
<1>3. LP!IsFiniteSet(DOMAIN Pending)
  BY <1>2 DEF Few, IsFiniteSet, LP!IsFiniteSet
<1>. QED
  BY <1>2, <1>3, AnswersAssumption DEF LP!Calls

\* What a dequeue has read of HEAD and TAIL; it is back at the second look because of a
\* basket after HEAD's, or because HEAD has moved.
Looks ==
  \A p \in Procs :
    /\ head[p] <= HEAD /\ hhead[p] <= HEAD
    /\ qpc[p] = "deqTake" => head[p] < TAIL
    /\ qpc[p] = "deqHHead" => tail[p] <= head[p] \/ lossy \/ head[p] < HEAD
    /\ qpc[p] = "deqTTail" /\ hhead[p] = head[p] => lossy \/ tail[p] <= head[p]

\* No put has been in a basket after TAIL's.
Reached == \A b \in Baskets, s \in Slots : TAIL < b => A[b][s] \notin Items

\* What a put and a take that are over have returned.
Got ==
  \A p \in Procs : pc[p] = "idle" =>
    /\ qpc[p] = "enqPut" /\ res[p] = OK => arg[p] \in stored
    /\ qpc[p] = "deqTake" => res[p] \in Items \cup {BASKET_CLOSED}

GInv == Few /\ Looks /\ Reached /\ Got

\* v is in slot s of basket b, or on its way into it.
May(v, b, s) ==
  /\ ~Spent(b, s)
  /\ \/ A[b][s] = v
     \/ /\ A[b][s] = BOTTOM
        /\ \E p \in Procs : /\ pc[p] \in PutPcs /\ x[p] = v /\ bk[p] = b
                            /\ s >= PUTS[b] \/ HoldsPut(p, b, s)

Before(b, s, c, t) == b < c \/ (b = c /\ s < t)

Completed(v) == v \in stored /\ \A p \in Procs : qpc[p] \in EnqPcs => arg[p] # v

\* A slot that no take has got has the item of an enqueue that has returned.
Waiting(b, s) == A[b][s] \in Items /\ s >= TAKES[b] /\ Completed(A[b][s])

In(v, q) == \E i \in DOMAIN q : q[i] = v
Given(v, m) == \E t \in Procs : m[t] = v

\* m is what the takes that have got a slot may find there.
Gives(m) ==
  /\ \A t \in Procs : m[t] # NONE => pc[t] = "takeSwap" /\ May(m[t], bk[t], slot[t])
  /\ \A t, u \in Procs : m[t] = m[u] /\ m[t] # NONE => t = u

\* q are items of other slots, in the order of these.
Lists(q, m, home, seat) ==
  /\ \A i, j \in DOMAIN q : q[i] = q[j] => i = j
  /\ \A i \in DOMAIN q : ~Given(q[i], m)
  /\ \A i \in DOMAIN q : May(q[i], home[i], seat[i]) /\ seat[i] >= TAKES[home[i]]
  /\ \A i, j \in DOMAIN q : i < j => Before(home[i], seat[i], home[j], seat[j])

\* Whatever an enqueue that has returned has left is among them.
Complete(q, m) ==
  \A b \in Baskets, s \in Slots :
    A[b][s] \in Items /\ ~Spent(b, s) /\ Completed(A[b][s])
      => In(A[b][s], q) \/ Given(A[b][s], m)

\* The enqueue of an item in q has returned, or that of one after it.
Needed(q, home, seat) ==
  \A i \in DOMAIN q : \E b \in Baskets, s \in Slots :
    Waiting(b, s) /\ ~Before(b, s, home[i], seat[i])

Gifts == [Procs -> Items \cup {NONE}]

FitsAny(q, m) ==
  /\ Gives(m) /\ Complete(q, m)
  /\ \E home \in [DOMAIN q -> Baskets], seat \in [DOMAIN q -> Slots] : Lists(q, m, home, seat)

\* The queue can be taken for q, with m what the takes in progress are to return.
Fits(q, m) ==
  /\ Gives(m) /\ Complete(q, m)
  /\ \E home \in [DOMAIN q -> Baskets], seat \in [DOMAIN q -> Slots] :
       Lists(q, m, home, seat) /\ Needed(q, home, seat)

\* The calls that have taken effect then: the enqueues of the items in q, of those in m
\* and of those taken, and the dequeues that have an item or are to get one.
AnswerIn(p, q, m) ==
  IF qpc[p] = "enqPut" /\ \/ In(arg[p], q) \/ Given(arg[p], m)
                          \/ arg[p] \in stored /\ removed[arg[p]] = 1 THEN OK
  ELSE IF qpc[p] = "deqTake" /\ pc[p] = "idle" /\ res[p] \in Items THEN res[p]
  ELSE m[p]

Config(q, m) == [q |-> q, ans |-> [p \in Procs |-> AnswerIn(p, q, m)]]

Explained(q, m) == Config(q, m) \in L!Explanations(lin, Pending)

\* Every such q and m explain the answers so far.
LinInv ==
  /\ lin \subseteq LP!Configurations(Items)
  /\ \A q \in Seq(Items), m \in Gifts : Fits(q, m) => Explained(q, m)
-----------------------------------------------------------------------------
\* What a queue and gifts stand for is a configuration.
LEMMA ConfigTyped ==
  ASSUME QInv, NEW q \in Seq(Items), NEW m \in Gifts
  PROVE  Config(q, m) \in LP!Configurations(Items)
<1>1. \A t \in Procs : AnswerIn(t, q, m) \in Items \cup {OK, EMPTY, NONE}
  BY DEF AnswerIn, Gifts
<1>. QED
  BY <1>1 DEF Config, LP!Configurations

\* An item has one place.
LEMMA OnePlace ==
  ASSUME IInv, NEW v \in Items, NEW b \in Baskets, NEW s \in Slots, NEW c \in Baskets, NEW t \in Slots,
         A[b][s] = v, ~Spent(b, s), May(v, c, t)
  PROVE  b = c /\ s = t
<1>1. v \in stored
  BY SentinelAssumption DEF IInv, Content
<1>2. A[c][t] = v /\ ~Spent(c, t)
  BY <1>1 DEF IInv, Putting, May
<1>. QED
  BY <1>2, SentinelAssumption DEF IInv, Placed

\* A slot that a take has got and that is not spent belongs to a take in progress.
LEMMA Holder ==
  ASSUME NEW b \in Baskets, NEW s \in Slots, ~Spent(b, s), s < TAKES[b]
  PROVE  \E t \in Procs : HoldsTake(t, b, s)
BY DEF Spent

\* Also the items whose enqueues are pending may take effect, one after the other.
LEMMA Batch ==
  ASSUME IInv, QInv, Few, LinInv, NEW q \in Seq(Items), NEW m \in Gifts, FitsAny(q, m)
  PROVE  Explained(q, m)
<1>. DEFINE S == {n \in Nat : \A r \in Seq(Items) :
                     Len(r) = n /\ FitsAny(r, m) => Explained(r, m)}
<1>0. /\ TypeOK /\ QueueTypeOK /\ \A b \in Baskets : b \in Nat
      /\ \A s \in Slots : s \in Nat
  BY CapacityAssumption DEF IInv, QInv, Slots
<1>1. 0 \in S
  <2>. SUFFICES ASSUME NEW r \in Seq(Items), Len(r) = 0, FitsAny(r, m)
                PROVE  Explained(r, m)
    OBVIOUS
  <2>1. DOMAIN r = {}
    OBVIOUS
  <2>2. Fits(r, m)
    BY <2>1 DEF Fits, FitsAny, Needed
  <2>. QED
    BY <2>2 DEF LinInv
<1>2. ASSUME NEW n \in Nat, n \in S PROVE n + 1 \in S
  <2>. SUFFICES ASSUME NEW r \in Seq(Items), Len(r) = n + 1, FitsAny(r, m)
                PROVE  Explained(r, m)
    OBVIOUS
  <2>. DEFINE v == r[n + 1]
              f == SubSeq(r, 1, n)
  <2>1. /\ DOMAIN r = 1 .. n + 1 /\ v \in Items
        /\ f \in Seq(Items) /\ Len(f) = n /\ DOMAIN f = 1 .. n
        /\ \A i \in 1 .. n : f[i] = r[i]
        /\ r = Append(f, v)
    OBVIOUS
  <2>2. PICK home \in [DOMAIN r -> Baskets], seat \in [DOMAIN r -> Slots] : Lists(r, m, home, seat)
    BY DEF FitsAny
  <2>. DEFINE h == home[n + 1]
              e == seat[n + 1]
  <2>3. /\ n + 1 \in DOMAIN r /\ In(v, r) /\ h \in Baskets /\ e \in Slots
        /\ h \in Nat /\ e \in Nat
        /\ May(v, h, e) /\ e >= TAKES[h] /\ ~Given(v, m)
    <3>1. n + 1 \in DOMAIN r
      BY <2>1
    <3>2. In(v, r)
      BY <3>1 DEF In
    <3>3. h \in Baskets /\ e \in Slots
      BY <2>2, <3>1
    <3>. QED
      BY <1>0, <2>2, <3>1, <3>2, <3>3 DEF Lists
  <2>6. \A w : w # v => (In(w, f) <=> In(w, r))
    <3>. SUFFICES ASSUME NEW w, w # v PROVE In(w, f) <=> In(w, r)
      OBVIOUS
    <3>1. ASSUME NEW i \in DOMAIN f, f[i] = w PROVE In(w, r)
      <4>1. i \in DOMAIN r /\ r[i] = w
        BY <2>1, <3>1
      <4>. QED
        BY <4>1 DEF In
    <3>2. ASSUME NEW i \in DOMAIN r, r[i] = w PROVE In(w, f)
      <4>1. i \in DOMAIN f /\ f[i] = w
        BY <2>1, <3>2
      <4>. QED
        BY <4>1 DEF In
    <3>. QED
      BY <3>1, <3>2 DEF In
  <2>4. CASE \E b \in Baskets, s \in Slots : Waiting(b, s) /\ ~Before(b, s, h, e)
    <3>1. PICK b \in Baskets, s \in Slots : Waiting(b, s) /\ ~Before(b, s, h, e)
      BY <2>4
    <3>2. ASSUME NEW i \in DOMAIN r PROVE ~Before(b, s, home[i], seat[i])
      <4>1. CASE i = n + 1
        BY <3>1, <4>1
      <4>2. CASE i # n + 1
        <5>1. i < n + 1
          BY <2>1, <4>2
        <5>2. Before(home[i], seat[i], h, e) /\ home[i] \in Baskets /\ seat[i] \in Slots
          BY <2>2, <2>3, <5>1 DEF Lists
        <5>3. /\ home[i] \in Nat /\ seat[i] \in Nat /\ b \in Nat /\ s \in Nat
              /\ h \in Nat /\ e \in Nat
          BY <1>0, <2>3, <5>2
        <5>. HIDE DEF h, e
        <5>. QED
          BY <3>1, <5>2, <5>3 DEF Before
      <4>. QED
        BY <4>1, <4>2
    <3>3. Needed(r, home, seat)
      BY <3>1, <3>2 DEF Needed
    <3>4. Fits(r, m)
      BY <2>2, <3>3 DEF Fits, FitsAny
    <3>. QED
      BY <3>4 DEF LinInv
  <2>5. CASE ~\E b \in Baskets, s \in Slots : Waiting(b, s) /\ ~Before(b, s, h, e)
    <3>1. ~Waiting(h, e)
      BY <2>3, <2>5 DEF Before
    <3>2. PICK p \in Procs : qpc[p] = "enqPut" /\ arg[p] = v
      <4>1. CASE A[h][e] = v
        <5>1. v \in stored
          BY <2>1, <2>3, <4>1, SentinelAssumption DEF IInv, Content, May
        <5>. QED
          BY <2>1, <2>3, <3>1, <4>1, <5>1 DEF Waiting, Completed, QInv, Enqueuing
      <4>2. CASE A[h][e] # v
        BY <2>3, <4>2 DEF May, QInv, Calling
      <4>. QED
        BY <4>1, <4>2
    <3>3. ~In(v, f)
      BY <2>1, <2>2 DEF In, Lists
    <3>4. FitsAny(f, m)
      <4>1. Complete(f, m)
        <5>1. Complete(r, m) /\ ~Completed(v)
          BY <3>2 DEF FitsAny, Completed, EnqPcs
        <5>. QED
          BY <5>1, <2>6 DEF Complete
      <4>. DEFINE hh == [i \in DOMAIN f |-> home[i]]
                  ss == [i \in DOMAIN f |-> seat[i]]
      <4>2. hh \in [DOMAIN f -> Baskets] /\ ss \in [DOMAIN f -> Slots]
        BY <2>1
      <4>3. Lists(f, m, hh, ss)
        BY <2>1, <2>2 DEF Lists
      <4>. HIDE DEF hh, ss
      <4>. QED
        BY <4>1, <4>2, <4>3 DEF FitsAny
    <3>5. Explained(f, m)
      BY <1>2, <2>1, <3>4
    <3>6. p \in DOMAIN Pending /\ Pending[p] = v /\ v # DEQUEUE
      BY <3>2, <2>1, AnswersAssumption DEF Pending, EnqPcs
    <3>7. Config(f, m).ans[p] = NONE
      <4>1. ~(v \in stored /\ removed[v] = 1)
        BY <2>1, <2>3, SentinelAssumption DEF May, IInv, Content, Putting
      <4>2. m[p] = NONE
        BY <3>2 DEF FitsAny, Gives, QInv, Calling, TakePcs
      <4>. QED
        BY <2>3, <3>2, <3>3, <4>1, <4>2 DEF Config, AnswerIn
    <3>8. LP!TakeEffect(Config(f, m), p, v) = Config(r, m)
      <4>1. \A t \in Procs \ {p} : qpc[t] = "enqPut" => arg[t] # v
        BY <3>2 DEF QInv, Enqueuing, EnqPcs
      <4>2. \A t \in Procs \ {p} : AnswerIn(t, f, m) = AnswerIn(t, r, m)
        BY <4>1, <2>6 DEF AnswerIn
      <4>3. AnswerIn(p, r, m) = OK
        BY <2>3, <3>2 DEF AnswerIn
      <4>4. LP!TakeEffect(Config(f, m), p, v) =
              [q |-> Append(f, v), ans |-> [Config(f, m).ans EXCEPT ![p] = OK]]
        BY <3>6 DEF LP!TakeEffect, LP!Answer, Config
      <4>5. [Config(f, m).ans EXCEPT ![p] = OK] = Config(r, m).ans
        BY <4>2, <4>3 DEF Config
      <4>. QED
        BY <4>4, <4>5, <2>1 DEF Config
    <3>9. LP!TakeEffect(Config(f, m), p, Pending[p]) \in LP!Explanations(lin, Pending)
      <4>1. Config(f, m) \in LP!Explanations(lin, Pending)
        BY <3>5, SameExplanations DEF Explained
      <4>. QED
        BY <4>1, <3>6, <3>7, PendingCalls, LP!ExplanationsClosed DEF LinInv
    <3>. QED
      BY <3>6, <3>8, <3>9, SameExplanations DEF Explained
  <2>. QED
    BY <2>4, <2>5
<1>3. Nat \subseteq S
  <2>. HIDE DEF S
  <2>. QED
    BY <1>1, <1>2, LP!NatSetInduction
<1>. QED
  BY <1>3
-----------------------------------------------------------------------------
\* What the steps of the queue do outside of put and take.
LEMMA CallEffect ==
  ASSUME IInv, QInv, NEW p \in Procs, QueueCall(p), UNCHANGED basketVars
  PROVE  /\ UNCHANGED <<A, PUTS, TAKES, State, pc, bk, x, slot, res, stored, removed, drained>>
         /\ UNCHANGED <<HEAD, TAIL, lossy, lin, head, tail, hhead>>
         /\ qpc[p] = "idle" /\ qpc'[p] \in {"enqLL", "deqHead"} /\ pc[p] = "idle"
         /\ \A r \in Procs \ {p} : qpc'[r] = qpc[r] /\ arg'[r] = arg[r]
<1>. USE DEF basketVars, shared, local, history, queueShared, queueHistory, GoOn
<1>0. QueueTypeOK /\ Calling /\ TypeOK
  BY DEF QInv, IInv
<1>1. /\ UNCHANGED <<HEAD, TAIL, lossy, lin, head, tail, hhead>>
      /\ qpc[p] = "idle" /\ qpc'[p] \in {"enqLL", "deqHead"}
      /\ \A r \in Procs \ {p} : qpc'[r] = qpc[r] /\ arg'[r] = arg[r]
  BY <1>0 DEF QueueCall, Enqueue, Dequeue, QueueTypeOK
<1>2. pc[p] = "idle"
  BY <1>0, <1>1 DEF Calling, TypeOK
<1>. QED
  BY <1>1, <1>2

LEMMA EnqLLEffect ==
  ASSUME IInv, QInv, NEW p \in Procs, EnqLL(p), BasketCall(p)
  PROVE  /\ UNCHANGED <<A, PUTS, TAKES, State, slot, res, stored, removed, drained>>
         /\ UNCHANGED <<HEAD, TAIL, lossy, lin, arg, head, hhead>>
         /\ qpc[p] = "enqLL" /\ pc[p] = "idle" /\ tail'[p] = TAIL
         /\ \A r \in Procs \ {p} : /\ qpc'[r] = qpc[r] /\ tail'[r] = tail[r]
                                   /\ pc'[r] = pc[r] /\ x'[r] = x[r] /\ bk'[r] = bk[r]
         /\ \/ /\ qpc'[p] = "enqPut" /\ pc'[p] = "putState" /\ x'[p] = arg[p] /\ bk'[p] = TAIL
               /\ TAIL \in Baskets
            \/ qpc'[p] = "overrun" /\ pc' = pc
<1>. USE DEF GoOn, queueShared, queueHistory
<1>0. /\ QueueTypeOK /\ Calling /\ TypeOK
      /\ qpc[p] = "enqLL" /\ UNCHANGED <<HEAD, TAIL, lossy, arg, head, hhead, lin>>
      /\ tail'[p] = TAIL /\ \A r \in Procs \ {p} : tail'[r] = tail[r] /\ qpc'[r] = qpc[r]
      /\ qpc'[p] = IF TAIL < Capacity THEN "enqPut" ELSE "overrun"
  BY DEF QInv, IInv, EnqLL, QueueTypeOK
<1>1. pc[p] = "idle"
  BY <1>0 DEF Calling, TypeOK
<1>2. CASE TAIL < Capacity
  <2>1. PutCall(p, tail'[p], arg[p]) /\ TAIL \in Baskets
    BY <1>0, <1>2, CapacityAssumption DEF BasketCall, QueueTypeOK
  <2>. QED
    BY <1>0, <1>1, <1>2, <2>1 DEF PutCall, Goto, shared, history, TypeOK
<1>3. CASE ~(TAIL < Capacity)
  BY <1>0, <1>1, <1>3 DEF BasketCall, basketVars, shared, local, history
<1>. QED
  BY <1>2, <1>3

LEMMA EnqICEffect ==
  ASSUME IInv, QInv, NEW p \in Procs, EnqIC(p), BasketCall(p)
  PROVE  /\ UNCHANGED <<A, PUTS, TAKES, State, pc, bk, x, slot, res, stored, removed, drained>>
         /\ UNCHANGED <<HEAD, lossy, arg, head, tail, hhead>>
         /\ qpc[p] = "enqPut" /\ pc[p] = "idle" /\ \A r \in Procs \ {p} : qpc'[r] = qpc[r]
         /\ IF res[p] = OK
              THEN qpc'[p] = "idle" /\ lin' = L!Respond(lin, Pending, p, OK)
              ELSE qpc'[p] = "enqLL" /\ lin' = lin
         /\ TAIL <= TAIL'
<1>1. /\ UNCHANGED <<HEAD, lossy, arg, head, tail, hhead>>
      /\ qpc[p] = "enqPut" /\ pc[p] = "idle" /\ \A r \in Procs \ {p} : qpc'[r] = qpc[r]
      /\ IF res[p] = OK
           THEN qpc'[p] = "idle" /\ lin' = L!Respond(lin, Pending, p, OK)
           ELSE qpc'[p] = "enqLL" /\ lin' = lin
      /\ TAIL <= TAIL'
  BY CapacityAssumption DEF QInv, QueueTypeOK, EnqIC, Answer, GoOn, IC, ICValues
<1>2. UNCHANGED basketVars
  BY <1>1 DEF BasketCall
<1>. QED
  BY <1>1, <1>2 DEF basketVars, shared, local, history

LEMMA DeqEffect ==
  ASSUME IInv, QInv, NEW p \in Procs, DeqStep(p), BasketCall(p)
  PROVE  /\ UNCHANGED <<A, PUTS, TAKES, State, x, slot, res, stored, removed, drained>>
         /\ UNCHANGED <<TAIL, lossy, arg>>
         /\ qpc[p] \in DeqPcs /\ pc[p] = "idle" /\ qpc'[p] \in DeqPcs \cup {"idle"}
         /\ \A r \in Procs \ {p} : /\ qpc'[r] = qpc[r] /\ pc'[r] = pc[r] /\ bk'[r] = bk[r]
                                   /\ head'[r] = head[r] /\ tail'[r] = tail[r]
                                   /\ hhead'[r] = hhead[r]
         /\ IF qpc'[p] = "deqTake" THEN pc'[p] = "takeCount" ELSE pc'[p] = "idle"
         /\ HEAD <= HEAD'
<1>. USE SentinelAssumption DEF GoOn, queueShared, queueHistory
<1>0. QueueTypeOK /\ Calling /\ TypeOK /\ HEAD \in Nat /\ TAIL \in Nat
  BY CapacityAssumption DEF QInv, IInv, QueueTypeOK
<1>1. /\ UNCHANGED <<TAIL, lossy, arg>>
      /\ qpc[p] \in DeqPcs /\ pc[p] = "idle" /\ qpc'[p] \in DeqPcs \cup {"idle"}
      /\ \A r \in Procs \ {p} : qpc'[r] = qpc[r] /\ head'[r] = head[r] /\ tail'[r] = tail[r]
      /\ \A r \in Procs \ {p} : hhead'[r] = hhead[r]
  BY <1>0 DEF DeqStep, DeqHead, DeqTail, DeqItem, DeqIC, DeqHHead, DeqTTail, Loop, Answer,
     AnswerEmpty, QueueTypeOK, DeqPcs, Calling, TypeOK
<1>2. /\ UNCHANGED <<A, PUTS, TAKES, State, x, slot, res, stored, removed, drained>>
      /\ \A r \in Procs \ {p} : pc'[r] = pc[r] /\ bk'[r] = bk[r]
      /\ IF qpc'[p] = "deqTake" THEN pc'[p] = "takeCount" ELSE pc'[p] = "idle"
  <2>1. qpc'[p] # "enqPut"
    BY <1>1 DEF DeqPcs
  <2>2. CASE qpc'[p] = "deqTake"
    BY <2>1, <2>2, <1>0 DEF BasketCall, TakeCall, Goto, shared, history, TypeOK
  <2>3. CASE qpc'[p] # "deqTake"
    BY <2>1, <2>3, <1>1 DEF BasketCall, basketVars, shared, local, history
  <2>. QED
    BY <2>2, <2>3
<1>3. HEAD <= HEAD'
  BY <1>0 DEF DeqStep, DeqHead, DeqTail, DeqItem, DeqIC, DeqHHead, DeqTTail, IC, ICValues
<1>. QED
  BY <1>1, <1>2, <1>3
-----------------------------------------------------------------------------
\* One thread more or less has a call pending.
LEMMA FewStays ==
  ASSUME Few, NEW p \in Procs, \A r \in Procs \ {p} : qpc'[r] = qpc[r]
  PROVE  Few'
<1>. DEFINE P == {r \in Procs : qpc[r] # "idle"}
            Q == {r \in Procs : qpc'[r] # "idle"}
<1>1. Q \subseteq P \cup {p}
  OBVIOUS
<1>2. IsFiniteSet(P \cup {p})
  BY FS_AddElement DEF Few
<1>3. IsFiniteSet(Q)
  BY <1>1, <1>2, FS_Subset
<1>. QED
  BY <1>3 DEF Few

LEMMA DeqLooks ==
  ASSUME IInv, QInv, QInv', Looks, NEW p \in Procs, DeqStep(p), BasketCall(p)
  PROVE  Looks'
<1>. USE DEF GoOn, queueShared, queueHistory
<1>0. QueueTypeOK /\ HEAD \in Nat /\ TAIL \in Nat /\ HEAD' \in Nat
  BY CapacityAssumption DEF QInv, QueueTypeOK
<1>1. /\ UNCHANGED <<TAIL, lossy>> /\ HEAD <= HEAD'
      /\ \A r \in Procs \ {p} : /\ qpc'[r] = qpc[r] /\ head'[r] = head[r] /\ tail'[r] = tail[r]
                                /\ hhead'[r] = hhead[r]
  BY DeqEffect
<1>2. ASSUME NEW r \in Procs \ {p}
      PROVE  /\ head'[r] <= HEAD' /\ hhead'[r] <= HEAD'
             /\ qpc'[r] = "deqTake" => head'[r] < TAIL'
             /\ qpc'[r] = "deqHHead" => tail'[r] <= head'[r] \/ lossy' \/ head'[r] < HEAD'
             /\ qpc'[r] = "deqTTail" /\ hhead'[r] = head'[r] => lossy' \/ tail'[r] <= head'[r]
  <2>1. head[r] \in Nat /\ hhead[r] \in Nat
    BY <1>0, CapacityAssumption DEF QueueTypeOK
  <2>. QED
    BY <1>0, <1>1, <2>1 DEF Looks
<1>3. /\ head'[p] <= HEAD' /\ hhead'[p] <= HEAD'
      /\ qpc'[p] = "deqTake" => head'[p] < TAIL'
      /\ qpc'[p] = "deqHHead" => tail'[p] <= head'[p] \/ lossy' \/ head'[p] < HEAD'
      /\ qpc'[p] = "deqTTail" /\ hhead'[p] = head'[p] => lossy' \/ tail'[p] <= head'[p]
  <2>0. /\ head[p] \in Nat /\ hhead[p] \in Nat /\ tail[p] \in Nat
        /\ head[p] <= HEAD /\ hhead[p] <= HEAD
        /\ qpc[p] = "deqTake" => head[p] < TAIL
        /\ qpc[p] = "deqHHead" => tail[p] <= head[p] \/ lossy \/ head[p] < HEAD
        /\ qpc[p] = "deqTTail" /\ hhead[p] = head[p] => lossy \/ tail[p] <= head[p]
    BY <1>0, CapacityAssumption DEF QueueTypeOK, Looks
  <2>. USE <1>0, <2>0, <1>1 DEF QueueTypeOK
  <2>1. CASE DeqHead(p)
    BY <2>1 DEF DeqHead
  <2>2. CASE DeqTail(p)
    BY <2>2 DEF DeqTail, Loop
  <2>3. CASE DeqItem(p)
    BY <2>3 DEF DeqItem, Answer
  <2>4. CASE DeqIC(p)
    BY <2>4 DEF DeqIC, IC, ICValues
  <2>5. CASE DeqHHead(p)
    BY <2>5 DEF DeqHHead
  <2>6. CASE DeqTTail(p)
    <3>1. CASE hhead[p] = head[p] /\ TAIL = tail[p]
      BY <2>6, <3>1 DEF DeqTTail, AnswerEmpty
    <3>2. CASE ~(hhead[p] = head[p] /\ TAIL = tail[p])
      BY <2>6, <3>2 DEF DeqTTail, Loop
    <3>. QED
      BY <3>1, <3>2
  <2>. QED
    BY <2>1, <2>2, <2>3, <2>4, <2>5, <2>6 DEF DeqStep
<1>. QED
  BY <1>2, <1>3 DEF Looks

\* What dequeues have read, and how far puts have got, over every step.
LEMMA NextGInv == IInv /\ QInv /\ QInv' /\ GInv /\ [Next]_vars => GInv'
<1>. SUFFICES ASSUME IInv, QInv, QInv', GInv, [Next]_vars PROVE GInv'
  OBVIOUS
<1>. USE SentinelAssumption
<1>0. /\ Few /\ Looks /\ Reached /\ Got /\ TypeOK /\ QueueTypeOK /\ Calling
      /\ TAIL \in Nat /\ TAIL' \in Nat /\ \A b \in Baskets : b \in Nat
  BY CapacityAssumption DEF GInv, IInv, QInv, QueueTypeOK
<1>1. CASE UNCHANGED vars
  BY <1>0, <1>1 DEF vars, basketVars, queueVars, shared, local, history, GInv, Few, Looks, Reached,
     Got
<1>2. ASSUME NEW p \in Procs, QueueCall(p), UNCHANGED basketVars PROVE GInv'
  <2>1. Few'
    BY <1>0, <1>2, CallEffect, FewStays
  <2>2. Looks' /\ Reached' /\ Got'
    BY <1>0, <1>2, CallEffect DEF Looks, Reached, Got
  <2>. QED
    BY <2>1, <2>2 DEF GInv
<1>3. ASSUME NEW p \in Procs, PutStep(p), UNCHANGED queueVars PROVE GInv'
  <2>1. Few' /\ Looks'
    BY <1>0, <1>3 DEF queueVars, Few, Looks
  <2>2. qpc[p] = "enqPut" /\ bk[p] = tail[p] /\ x[p] = arg[p] /\ bk[p] <= TAIL
    BY <1>0, <1>3, PutEffect DEF Calling, QInv, Bounded
  <2>3. Reached'
    BY <1>0, <1>3, <2>2, PutEffect DEF Reached, queueVars
  <2>4. pc'[p] = "idle" /\ res'[p] = OK => x[p] \in stored'
    BY <1>0, <1>3 DEF PutStep, PutState, PutCount, PutFAI, PutStore, PutTooLate, Goto, Return,
       TypeOK, history
  <2>5. Got'
    BY <1>0, <1>3, <2>2, <2>4, PutEffect DEF Got, queueVars
  <2>. QED
    BY <2>1, <2>3, <2>5 DEF GInv
<1>4. ASSUME NEW p \in Procs, TakeStep(p), UNCHANGED queueVars PROVE GInv'
  <2>1. Few' /\ Looks'
    BY <1>0, <1>4 DEF queueVars, Few, Looks
  <2>2. qpc[p] = "deqTake"
    BY <1>0, <1>4, TakeEffect DEF Calling
  <2>3. Reached'
    BY <1>0, <1>4, TakeEffect DEF Reached, queueVars
  <2>4. pc'[p] = "idle" => res'[p] \in Items \cup {BASKET_CLOSED}
    <3>1. CASE TakeItem(p)
      <4>1. HoldsTake(p, bk[p], slot[p]) /\ bk[p] \in Baskets /\ slot[p] \in Slots
        BY <1>0, <3>1 DEF TakeItem, HoldsTake, TypeOK, IInv, Owners
      <4>2. ~Spent(bk[p], slot[p])
        BY <4>1 DEF Spent
      <4>3. A[bk[p]][slot[p]] \in stored
        BY <3>1, <4>1, <4>2 DEF TakeItem, IInv, Content
      <4>. QED
        BY <1>0, <3>1, <4>3 DEF TakeItem, Return, TypeOK
    <3>2. CASE ~TakeItem(p)
      BY <1>0, <1>4, <3>2 DEF TakeStep, TakeCount, TakeState, TakeFAI, TakeClose, TakeTooEarly,
         Goto, Return, TypeOK
    <3>. QED
      BY <3>1, <3>2
  <2>5. Got'
    BY <1>0, <1>4, <2>2, <2>4, TakeEffect DEF Got, queueVars
  <2>. QED
    BY <2>1, <2>3, <2>5 DEF GInv
<1>5. ASSUME NEW p \in Procs, EnqLL(p), BasketCall(p) PROVE GInv'
  <2>1. Few'
    BY <1>0, <1>5, EnqLLEffect, FewStays
  <2>2. Looks' /\ Reached' /\ Got'
    BY <1>0, <1>5, EnqLLEffect DEF Looks, Reached, Got
  <2>. QED
    BY <2>1, <2>2 DEF GInv
<1>6. ASSUME NEW p \in Procs, EnqIC(p), BasketCall(p) PROVE GInv'
  <2>1. Few'
    BY <1>0, <1>6, EnqICEffect, FewStays
  <2>2. Looks'
    <3>1. \A r \in Procs : head[r] \in Nat
      BY <1>0, CapacityAssumption DEF QueueTypeOK
    <3>. QED
      BY <1>0, <1>6, <3>1, EnqICEffect DEF Looks
  <2>3. Reached' /\ Got'
    BY <1>0, <1>6, EnqICEffect DEF Reached, Got
  <2>. QED
    BY <2>1, <2>2, <2>3 DEF GInv
<1>7. ASSUME NEW p \in Procs, DeqStep(p), BasketCall(p) PROVE GInv'
  <2>1. Few'
    BY <1>0, <1>7, DeqEffect, FewStays
  <2>2. Looks'
    BY <1>0, <1>7, DeqLooks
  <2>3. Reached' /\ Got'
    BY <1>0, <1>7, DeqEffect DEF Reached, Got, DeqPcs
  <2>. QED
    BY <2>1, <2>2, <2>3 DEF GInv
<1>. QED
  BY <1>1, <1>2, <1>3, <1>4, <1>5, <1>6, <1>7 DEF Next, Step, QueueStep, EnqStep
-----------------------------------------------------------------------------
\* Pending calls stay pending.
CallsStay ==
  \A p \in Procs : qpc[p] # "idle" =>
    /\ qpc'[p] # "idle" /\ (qpc[p] \in EnqPcs <=> qpc'[p] \in EnqPcs)
    /\ qpc[p] \in EnqPcs => arg'[p] = arg[p]

\* A step after which what fits explained the answers before.
LEMMA StayExplained ==
  ASSUME QInv', Few', LinInv, CallsStay, lin' = lin,
         \A q \in Seq(Items), m \in Gifts :
           Fits(q, m)' => Explained(q, m) /\ Config(q, m)' = Config(q, m)
  PROVE  LinInv'
<1>. SUFFICES ASSUME NEW q \in Seq(Items), NEW m \in Gifts, Fits(q, m)' PROVE Explained(q, m)'
  BY DEF LinInv, Gifts
<1>1. Config(q, m) \in LP!Explanations(lin, Pending) /\ Config(q, m)' = Config(q, m)
  BY SameExplanations DEF Explained
<1>2. /\ DOMAIN Pending \subseteq DOMAIN Pending'
      /\ \A p \in DOMAIN Pending : Pending'[p] = Pending[p]
  BY DEF CallsStay, Pending
<1>3. LP!IsFiniteSet(DOMAIN Pending')
  <2>1. LP!Calls(Items, Pending)'
    BY PendingCalls, PTL
  <2>. QED
    BY <2>1 DEF LP!Calls
<1>4. Config(q, m) \in LP!Explanations(lin, Pending')
  BY <1>1, <1>2, <1>3, LP!ExplanationsGrow
<1>. QED
  BY <1>1, <1>4, SameExplanations DEF Explained

\* What fits after a step by which slots are only spent, found and given away.
LEMMA FewerFit ==
  ASSUME NEW q \in Seq(Items), NEW m \in Gifts, FitsAny(q, m)',
         \A v \in Items, b \in Baskets, s \in Slots :
           (In(v, q) \/ Given(v, m)) /\ May(v, b, s)' => May(v, b, s),
         \A b \in Baskets, s \in Slots : s >= TAKES'[b] => s >= TAKES[b],
         \A t \in Procs : m[t] # NONE /\ pc'[t] = "takeSwap" =>
           /\ pc[t] = "takeSwap" /\ bk'[t] = bk[t] /\ slot'[t] = slot[t]
           /\ bk[t] \in Baskets /\ slot[t] \in Slots,
         \A b \in Baskets, s \in Slots :
           A[b][s] \in Items /\ ~Spent(b, s) /\ Completed(A[b][s])
             => A'[b][s] = A[b][s] /\ ~Spent(b, s)',
         \A v \in Items : Completed(v) => Completed(v)'
  PROVE  /\ FitsAny(q, m)
         /\ Fits(q, m)' /\ (\A b \in Baskets, s \in Slots : Waiting(b, s)' => Waiting(b, s))
              => Fits(q, m)
<1>1. \A i \in DOMAIN q : q[i] \in Items /\ In(q[i], q)
  BY DEF In
<1>2. \A t \in Procs : m[t] # NONE => m[t] \in Items /\ Given(m[t], m)
  BY DEF Gifts, Given
<1>3. Gives(m)
  BY <1>2 DEF FitsAny, Gives
<1>4. Complete(q, m)
  BY DEF FitsAny, Complete, In, Given
<1>5. ASSUME NEW home \in [DOMAIN q -> Baskets], NEW seat \in [DOMAIN q -> Slots],
             Lists(q, m, home, seat)'
      PROVE  Lists(q, m, home, seat)
  BY <1>1, <1>5 DEF Lists, Given, Before
<1>6. FitsAny(q, m)
  BY <1>3, <1>4, <1>5 DEF FitsAny
<1>7. ASSUME Fits(q, m)', \A b \in Baskets, s \in Slots : Waiting(b, s)' => Waiting(b, s)
      PROVE  Fits(q, m)
  <2>1. PICK home \in [DOMAIN q -> Baskets], seat \in [DOMAIN q -> Slots] :
          Lists(q, m, home, seat)' /\ Needed(q, home, seat)'
    BY <1>7 DEF Fits
  <2>2. Needed(q, home, seat)
    BY <1>7, <2>1 DEF Needed, Before
  <2>. QED
    BY <1>3, <1>4, <1>5, <2>1, <2>2 DEF Fits
<1>. QED
  BY <1>6, <1>7

\* Fits asks for more than FitsAny.
LEMMA FitsIsFitsAny == \A q, m : Fits(q, m) => FitsAny(q, m)
BY DEF Fits, FitsAny

\* A response: what fits after it explained the answer before.
LEMMA Responded ==
  ASSUME QInv, Few, QInv', Few', LinInv, NEW p \in Procs, NEW r, qpc'[p] = "idle",
         pc'[p] = "idle",
         lin' = L!Respond(lin, Pending, p, r),
         \A q \in Seq(Items), m \in Gifts : Fits(q, m)' =>
           LP!Answer(Config(q, m)', p, r, q) \in L!Explanations(lin, Pending)
  PROVE  LinInv'
<1>1. lin' \subseteq LP!Configurations(Items)
  BY PendingCalls, SameExplanations, LP!RespondTyped DEF LinInv
<1>2. ASSUME NEW q \in Seq(Items), NEW m \in Gifts, Fits(q, m)' PROVE Explained(q, m)'
  <2>1. Config(q, m)' \in LP!Configurations(Items)
    <3>1. \A t \in Procs : AnswerIn(t, q, m)' \in Items \cup {OK, EMPTY, NONE}
      BY DEF AnswerIn, Gifts
    <3>. QED
      BY <3>1 DEF Config, LP!Configurations
  <2>2. (Config(q, m)').ans[p] = NONE /\ (Config(q, m)').q = q
    <3>1. m[p] = NONE
      BY <1>2 DEF Fits, Gives
    <3>. QED
      BY <3>1 DEF Config, AnswerIn
  <2>3. LP!IsFiniteSet(DOMAIN Pending')
    <3>1. LP!Calls(Items, Pending)'
      BY PendingCalls, PTL
    <3>. QED
      BY <3>1 DEF LP!Calls
  <2>4. LP!Answer(Config(q, m)', p, r, (Config(q, m)').q) \in LP!Explanations(lin, Pending)
    BY <1>2, <2>2, SameExplanations
  <2>5. Config(q, m)' \in LP!Explanations(LP!Respond(lin, Pending, p, r), Pending')
    BY <2>1, <2>2, <2>3, <2>4, LP!RespondKeeps
  <2>. QED
    BY <2>5, SameExplanations DEF Explained
<1>. QED
  BY <1>1, <1>2 DEF LinInv

-----------------------------------------------------------------------------
\* An empty queue needs no explanation.
LEMMA InitLinInv == Init => GInv /\ LinInv
<1>. SUFFICES ASSUME Init PROVE GInv /\ LinInv
  OBVIOUS
<1>. USE SentinelAssumption DEF Init, BasketInit, QueueInit
<1>1. {p \in Procs : qpc[p] # "idle"} = {}
  OBVIOUS
<1>2. Few
  BY <1>1, FS_EmptySet DEF Few
<1>3. Looks /\ Got /\ Reached
  BY DEF Looks, Got, Reached
<1>4. lin \subseteq LP!Configurations(Items)
  BY LP!StartTyped DEF L!Start, LP!Start
<1>5. ASSUME NEW q \in Seq(Items), NEW m \in Gifts, Fits(q, m) PROVE Explained(q, m)
  <2>1. q = <<>>
    <3>1. \A b \in Baskets, s \in Slots : ~Waiting(b, s)
      BY DEF Waiting
    <3>2. DOMAIN q = {}
      BY <1>5, <3>1 DEF Fits, Needed
    <3>3. ~(1 \in DOMAIN q) /\ DOMAIN q = 1 .. Len(q) /\ Len(q) \in Nat
      BY <3>2
    <3>. QED
      BY <3>3
  <2>2. Config(q, m) \in lin
    <3>1. \A p \in Procs : AnswerIn(p, q, m) = NONE
      BY <1>5 DEF AnswerIn, Fits, Gives
    <3>. QED
      BY <2>1, <3>1 DEF Config, L!Start
  <2>3. DOMAIN Pending = {} 
    BY DEF Pending
  <2>4. LP!IsFiniteSet(DOMAIN Pending)
    <3>1. IsFiniteSet(DOMAIN Pending)
      BY <2>3, FS_EmptySet
    <3>. QED
      BY <3>1 DEF IsFiniteSet, LP!IsFiniteSet
  <2>5. Config(q, m) \in LP!Explanations(lin, Pending)
    BY <2>2, <2>4, LP!ExplanationsStart
  <2>. QED
    BY <2>5, SameExplanations DEF Explained
<1>. QED
  BY <1>2, <1>3, <1>4, <1>5 DEF LinInv, GInv
-----------------------------------------------------------------------------
\* Steps that leave the baskets alone, of a thread that is in no put and no take.
LEMMA QuietLin ==
  ASSUME IInv, QInv, QInv', Few', LinInv, NEW p \in Procs,
         UNCHANGED <<A, PUTS, TAKES, stored, removed, res, slot, lin>>, CallsStay,
         pc[p] = "idle", qpc[p] # "enqPut", qpc'[p] # "enqPut",
         qpc[p] = "deqTake" => res[p] \notin Items,
         qpc'[p] = "deqTake" => pc'[p] # "idle", pc'[p] \in {"idle", "takeCount"},
         \A r \in Procs \ {p} : /\ pc'[r] = pc[r] /\ x'[r] = x[r] /\ bk'[r] = bk[r]
                                /\ qpc'[r] = qpc[r] /\ arg'[r] = arg[r]
  PROVE  LinInv'
<1>0. \A r \in Procs : bk[r] \in Baskets /\ (pc[r] = "takeSwap" => slot[r] \in Slots)
  BY DEF IInv, TypeOK, Owners
<1>1. \A b \in Baskets, s \in Slots : Spent(b, s)' = Spent(b, s)
  BY DEF Spent, HoldsTake
<1>2. \A v \in Items, b \in Baskets, s \in Slots : May(v, b, s)' => May(v, b, s)
  BY <1>1 DEF May, HoldsPut, PutPcs
<1>3. \A v \in Items : Completed(v) <=> Completed(v)'
  BY DEF CallsStay, Completed, QInv, Enqueuing, EnqPcs
<1>4. \A b \in Baskets, s \in Slots : Waiting(b, s)' => Waiting(b, s)
  BY <1>3 DEF Waiting
<1>5. ASSUME NEW q \in Seq(Items), NEW m \in Gifts, Fits(q, m)'
      PROVE  Explained(q, m) /\ Config(q, m)' = Config(q, m)
  <2>1. FitsAny(q, m)'
    BY <1>5 DEF Fits, FitsAny
  <2>2. Fits(q, m)
    BY <1>0, <1>1, <1>2, <1>3, <1>4, <1>5, <2>1, FewerFit
  <2>3. ASSUME NEW r \in Procs PROVE AnswerIn(r, q, m)' = AnswerIn(r, q, m)
    BY DEF AnswerIn, In, Given
  <2>. QED
    BY <2>2, <2>3 DEF Config, LinInv
<1>. QED
  BY <1>5, StayExplained

\* A step inside put: the item it stores was on its way into the slot.
LEMMA PutLin ==
  ASSUME IInv, QInv, QInv', Few', LinInv, NEW p \in Procs, PutStep(p), UNCHANGED queueVars
  PROVE  LinInv'
<1>. USE SentinelAssumption
<1>. DEFINE B == bk[p]
            e == slot[p]
<1>0. /\ TypeOK /\ Owners /\ Content /\ Putting /\ Placed /\ B \in Baskets
      /\ UNCHANGED <<qpc, arg, lin>>
      /\ qpc[p] = "enqPut" /\ x[p] = arg[p] /\ x[p] \in Items \ stored
      /\ pc[p] \in PutPcs
  BY PutEffect DEF IInv, QInv, Calling, queueVars, TypeOK, Putting
<1>1. /\ \A r \in Procs \ {p} : pc'[r] = pc[r] /\ res'[r] = res[r] /\ slot'[r] = slot[r]
      /\ UNCHANGED <<TAKES, removed, bk, x>>
      /\ pc'[p] \in PutPcs \cup {"idle"}
  BY <1>0 DEF PutStep, PutState, PutCount, PutFAI, PutStore, PutTooLate, Goto, Return, shared, history,
     TypeOK, PutPcs
<1>2. \A b \in Baskets, s \in Slots : Spent(b, s)' = Spent(b, s)
  BY <1>0, <1>1 DEF Spent, HoldsTake, PutPcs
<1>3. \/ /\ UNCHANGED <<A, PUTS, stored, slot>>
      \/ /\ UNCHANGED <<A, stored>>
         /\ PUTS' = [PUTS EXCEPT ![B] = @ + 1]
         /\ pc'[p] = "putSwap" => slot'[p] = PUTS[B]
      \/ /\ pc[p] = "putSwap" /\ e \in Slots /\ A[B][e] = BOTTOM /\ ~Spent(B, e)
         /\ A'[B][e] = x[p] /\ stored' = stored \cup {x[p]} /\ pc'[p] = "idle"
         /\ \A b \in Baskets, s \in Slots : b # B \/ s # e => A'[b][s] = A[b][s]
         /\ UNCHANGED <<PUTS, slot>>
      \/ /\ Spent(B, e) /\ UNCHANGED <<PUTS, stored, slot>> /\ e \in Slots /\ pc'[p] = "putState"
         /\ A'[B][e] # BOTTOM
         /\ \A b \in Baskets, s \in Slots : b # B \/ s # e => A'[b][s] = A[b][s]
  <2>1. CASE PutState(p) \/ PutCount(p)
    BY <2>1 DEF PutState, PutCount, shared, history
  <2>2. CASE PutFAI(p)
    BY <1>0, <2>2 DEF PutFAI, history, Goto, Return, TypeOK
  <2>3. CASE PutStore(p)
    <3>1. e \in Slots /\ ~Spent(B, e)
      BY <1>0, <2>3 DEF PutStore, Owners, Content
    <3>. QED
      BY <1>0, <2>3, <3>1 DEF PutStore, Return, TypeOK
  <2>4. CASE PutTooLate(p)
    <3>1. e \in Slots /\ HoldsPut(p, B, e)
      BY <1>0, <2>4 DEF PutTooLate, Owners, HoldsPut
    <3>2. Spent(B, e)
      BY <1>0, <2>4, <3>1 DEF PutTooLate, Content
    <3>3. /\ A' = [A EXCEPT ![B][e] = x[p]] /\ pc' = [pc EXCEPT ![p] = "putState"]
          /\ UNCHANGED <<PUTS, stored, slot>>
      BY <2>4 DEF PutTooLate, Goto, history
    <3>4. /\ A'[B][e] = x[p]
          /\ \A b \in Baskets, s \in Slots : b # B \/ s # e => A'[b][s] = A[b][s]
      BY <1>0, <3>1, <3>3 DEF TypeOK
    <3>5. pc'[p] = "putState" /\ x[p] # BOTTOM
      BY <1>0, <3>3 DEF TypeOK
    <3>. QED
      BY <3>1, <3>2, <3>3, <3>4, <3>5
  <2>. QED
    BY <2>1, <2>2, <2>3, <2>4 DEF PutStep
<1>. HIDE DEF B, e
<1>4. PUTS[B] \in Nat
  BY <1>0 DEF TypeOK
<1>5. ASSUME NEW v \in Items, NEW b \in Baskets, NEW s \in Slots, May(v, b, s)'
      PROVE  May(v, b, s)
  <2>1. ~Spent(b, s)
    BY <1>2, <1>5 DEF May
  <2>2. CASE A'[b][s] = v
    <3>1. CASE b = B /\ s = e /\ pc[p] = "putSwap" /\ A[B][e] = BOTTOM /\ A'[B][e] = x[p]
      BY <1>0, <2>1, <2>2, <3>1 DEF May, HoldsPut, PutPcs, B, e
    <3>2. CASE A'[b][s] = A[b][s]
      BY <2>1, <2>2, <3>2 DEF May
    <3>. QED
      BY <1>3, <2>1, <3>1, <3>2
  <2>3. CASE A'[b][s] = BOTTOM
    <3>1. A[b][s] = BOTTOM
      BY <1>0, <1>3, <2>3
    <3>2. PICK r \in Procs : /\ pc'[r] \in PutPcs /\ x[r] = v /\ bk[r] = b
                             /\ s >= PUTS'[b] \/ HoldsPut(r, b, s)'
      BY <1>1, <1>5, <2>3 DEF May
    <3>3. pc[r] \in PutPcs
      BY <1>0, <1>1, <3>2
    <3>4. s >= PUTS[b] \/ HoldsPut(r, b, s)
      <4>0. s \in Nat /\ PUTS[b] \in Nat
        BY <1>0 DEF TypeOK, Slots
      <4>1. s >= PUTS'[b] => s >= PUTS[b]
        BY <1>0, <1>3, <4>0 DEF TypeOK
      <4>2. CASE r # p
        BY <1>1, <3>2, <4>1, <4>2 DEF HoldsPut
      <4>3. CASE r = p /\ HoldsPut(r, b, s)'
        <5>1. pc'[p] = "putSwap" /\ b = B /\ slot'[p] = s
          BY <1>1, <4>3 DEF HoldsPut, B
        <5>2. CASE slot'[p] = PUTS[B]
          BY <4>0, <5>1, <5>2
        <5>3. CASE UNCHANGED <<A, PUTS, stored, slot>>
          <6>1. CASE pc[p] = "putSwap"
            BY <5>1, <5>3, <6>1, <3>2, <1>1 DEF HoldsPut
          <6>2. CASE pc[p] # "putSwap"
            <7>1. PutState(p) \/ PutCount(p) \/ PutFAI(p)
              BY <6>2 DEF PutStep, PutStore, PutTooLate
            <7>2. PutState(p) \/ PutCount(p) => pc'[p] # "putSwap"
              BY <1>0 DEF PutState, PutCount, Goto, Return, TypeOK
            <7>3. ~PutFAI(p)
              BY <1>0, <5>3 DEF PutFAI, TypeOK
            <7>. QED
              BY <5>1, <7>1, <7>2, <7>3
          <6>. QED
            BY <6>1, <6>2
        <5>. QED
          BY <1>3, <5>1, <5>2, <5>3
      <4>. QED
        BY <3>2, <4>1, <4>2, <4>3
    <3>. QED
      BY <2>1, <3>1, <3>2, <3>3, <3>4 DEF May
  <2>. QED
    BY <1>5, <2>2, <2>3 DEF May
<1>6. \A b \in Baskets, s \in Slots : A[b][s] \in Items /\ ~Spent(b, s) => A'[b][s] = A[b][s]
  BY <1>3
<1>7. \A v \in Items : Completed(v)' <=> Completed(v)
  BY <1>0, <1>3 DEF Completed, EnqPcs
<1>8. \A b \in Baskets, s \in Slots : Waiting(b, s)' => Waiting(b, s)
  <2>. SUFFICES ASSUME NEW b \in Baskets, NEW s \in Slots, Waiting(b, s)' PROVE Waiting(b, s)
    OBVIOUS
  <2>1. /\ A'[b][s] \in Items /\ s >= TAKES[b] /\ s \in Nat /\ TAKES[b] \in Nat
        /\ A'[b][s] \in stored' /\ \A r \in Procs : qpc[r] \in EnqPcs => arg[r] # A'[b][s]
    BY <1>0, <1>1 DEF Waiting, Completed, TypeOK, Slots
  <2>2. ~Spent(b, s)
    BY <2>1 DEF Spent
  <2>3. A'[b][s] # x[p]
    BY <1>0, <2>1 DEF EnqPcs
  <2>4. A'[b][s] = A[b][s]
    BY <1>3, <2>2, <2>3
  <2>5. Completed(A[b][s])
    BY <1>3, <2>1, <2>3, <2>4 DEF Completed
  <2>. QED
    BY <2>1, <2>4, <2>5 DEF Waiting
<1>9. ASSUME NEW q \in Seq(Items), NEW m \in Gifts, Fits(q, m)'
      PROVE  Explained(q, m) /\ Config(q, m)' = Config(q, m)
  <2>1. FitsAny(q, m)'
    BY <1>9 DEF Fits, FitsAny
  <2>2. \A t \in Procs : pc'[t] = "takeSwap" =>
           /\ pc[t] = "takeSwap" /\ bk'[t] = bk[t] /\ slot'[t] = slot[t]
           /\ bk[t] \in Baskets /\ slot[t] \in Slots
    BY <1>0, <1>1 DEF PutPcs, TypeOK, Owners
  <2>3. Fits(q, m)
    BY <1>1, <1>2, <1>5, <1>6, <1>7, <1>8, <1>9, <2>1, <2>2, FewerFit
  <2>4. ASSUME NEW r \in Procs PROVE AnswerIn(r, q, m)' = AnswerIn(r, q, m)
    <3>1. CASE r # p
      <4>1. qpc[r] = "enqPut" => arg[r] # x[p]
        BY <1>0, <3>1 DEF QInv, Enqueuing, EnqPcs
      <4>2. qpc[r] = "enqPut" => (arg[r] \in stored' <=> arg[r] \in stored)
        BY <1>3, <4>1
      <4>. QED
        BY <1>0, <1>1, <3>1, <4>2 DEF AnswerIn, In, Given
    <3>2. CASE r = p
      <4>1. removed[arg[p]] = 0
        BY <1>0 DEF Placed
      <4>. QED
        BY <1>0, <1>1, <3>2, <4>1 DEF AnswerIn, In, Given
    <3>. QED
      BY <3>1, <3>2
  <2>. QED
    BY <2>3, <2>4 DEF Config, LinInv
<1>. QED
  BY <1>0, <1>9, StayExplained DEF CallsStay
-----------------------------------------------------------------------------
\* A step inside take that gets neither an item nor a slot.
LEMMA TakeQuietLin ==
  ASSUME IInv, QInv, QInv', Few', LinInv, NEW p \in Procs, UNCHANGED queueVars,
         \/ TakeCount(p) \/ TakeState(p) \/ TakeClose(p) \/ TakeTooEarly(p)
         \/ TakeFAI(p) /\ TAKES[bk[p]] >= K
  PROVE  LinInv'
<1>. USE SentinelAssumption, KAssumption
<1>. DEFINE B == bk[p]
<1>0. /\ TypeOK /\ Owners /\ B \in Baskets /\ UNCHANGED <<qpc, arg, lin>>
      /\ \A b \in Baskets : TAKES[b] \in Nat
      /\ \A s \in Slots : s \in Nat /\ s < K
  BY DEF IInv, queueVars, TypeOK, Slots
<1>1. /\ UNCHANGED <<PUTS, bk, x, stored, removed>> /\ pc[p] \in TakePcs
      /\ pc'[p] \in TakePcs \cup {"idle"} /\ pc'[p] # "takeSwap"
      /\ \A r \in Procs \ {p} : pc'[r] = pc[r] /\ slot'[r] = slot[r] /\ res'[r] = res[r]
      /\ pc'[p] = "idle" => res'[p] = BASKET_CLOSED
      /\ \A b \in Baskets, s \in Slots : s < TAKES'[b] <=> s < TAKES[b]
      /\ ~TakeTooEarly(p) => A' = A /\ pc[p] # "takeSwap"
  <2>1. CASE TakeCount(p) \/ TakeState(p) \/ TakeClose(p) \/ TakeTooEarly(p)
    BY <1>0, <2>1 DEF TakeCount, TakeState, TakeClose, TakeTooEarly, Goto, Return, shared,
       history, TypeOK, TakePcs
  <2>2. CASE TakeFAI(p) /\ TAKES[B] >= K
    <3>1. \A b \in Baskets, s \in Slots : s < TAKES'[b] <=> s < TAKES[b]
      BY <1>0, <2>2 DEF TakeFAI, TypeOK
    <3>. QED
      BY <1>0, <2>2, <3>1 DEF TakeFAI, Goto, history, TypeOK, TakePcs
  <2>. QED
    BY <2>1, <2>2
<1>2. \A b \in Baskets, s \in Slots :
        /\ A[b][s] # BOTTOM => A'[b][s] = A[b][s]
        /\ A[b][s] = BOTTOM => A'[b][s] \in {BOTTOM, TOP}
        /\ Spent(b, s) => Spent(b, s)'
        /\ A[b][s] # BOTTOM => (Spent(b, s) <=> Spent(b, s)')
  <2>1. CASE TakeTooEarly(p)
    <3>1. A[B][slot[p]] = BOTTOM
      BY <2>1 DEF TakeTooEarly
    <3>2. \A b \in Baskets, s \in Slots : b # B \/ s # slot[p] =>
            A'[b][s] = A[b][s] /\ (Spent(b, s) <=> Spent(b, s)')
      BY <2>1, TakeSwap
    <3>3. /\ A'[B][slot[p]] = TOP
          /\ \A b \in Baskets, s \in Slots : b = B /\ s = slot[p] => Spent(b, s)'
      BY <2>1, TakeSwap
    <3>4. ~Spent(B, slot[p])
      BY <2>1, TakeSwap
    <3>. SUFFICES ASSUME NEW b \in Baskets, NEW s \in Slots
                  PROVE  /\ A[b][s] # BOTTOM => A'[b][s] = A[b][s]
                         /\ A[b][s] = BOTTOM => A'[b][s] \in {BOTTOM, TOP}
                         /\ Spent(b, s) => Spent(b, s)'
                         /\ A[b][s] # BOTTOM => (Spent(b, s) <=> Spent(b, s)')
      OBVIOUS
    <3>5. CASE b = B /\ s = slot[p]
      BY <3>1, <3>3, <3>4, <3>5
    <3>6. CASE b # B \/ s # slot[p]
      BY <3>2, <3>6
    <3>. QED
      BY <3>5, <3>6
  <2>2. CASE ~TakeTooEarly(p)
    <3>1. \A t \in Procs, b \in Baskets, s \in Slots : HoldsTake(t, b, s)' <=> HoldsTake(t, b, s)
      BY <1>1, <2>2 DEF HoldsTake
    <3>. QED
      BY <1>1, <2>2, <3>1 DEF Spent
  <2>. QED
    BY <2>1, <2>2
<1>3. ASSUME NEW v \in Items, NEW b \in Baskets, NEW s \in Slots, May(v, b, s)'
      PROVE  May(v, b, s)
  <2>1. ~Spent(b, s)
    BY <1>2, <1>3 DEF May
  <2>2. CASE A'[b][s] = v
    BY <1>2, <2>1, <2>2 DEF May
  <2>3. CASE A'[b][s] = BOTTOM
    <3>1. PICK r \in Procs : /\ pc'[r] \in PutPcs /\ x'[r] = v /\ bk'[r] = b
                             /\ s >= PUTS'[b] \/ HoldsPut(r, b, s)'
      BY <1>3, <2>3 DEF May
    <3>2. r # p
      BY <1>1, <3>1 DEF PutPcs, TakePcs
    <3>3. A[b][s] = BOTTOM
      BY <1>2, <2>3
    <3>. QED
      BY <1>1, <2>1, <3>1, <3>2, <3>3 DEF May, HoldsPut
  <2>. QED
    BY <1>3, <2>2, <2>3 DEF May
<1>4. \A v \in Items : Completed(v)' <=> Completed(v)
  BY <1>0, <1>1 DEF Completed
<1>5. \A b \in Baskets, s \in Slots : s >= TAKES'[b] => s >= TAKES[b]
  <2>. SUFFICES ASSUME NEW b \in Baskets, NEW s \in Slots, s >= TAKES'[b] PROVE s >= TAKES[b]
    OBVIOUS
  <2>1. TAKES'[b] \in Nat /\ TAKES[b] \in Nat /\ s \in Nat
    <3>1. TAKES' \in [Baskets -> Nat]
      <4>1. TAKES' = TAKES \/ TAKES' = [TAKES EXCEPT ![B] = @ + 1]
        BY DEF TakeCount, TakeState, TakeClose, TakeTooEarly, TakeFAI, shared
      <4>. QED
        BY <1>0, <4>1 DEF TypeOK
    <3>. QED
      BY <1>0, <3>1
  <2>. QED
    BY <1>1, <2>1
<1>6. \A b \in Baskets, s \in Slots : Waiting(b, s)' => Waiting(b, s)
  <2>. SUFFICES ASSUME NEW b \in Baskets, NEW s \in Slots, Waiting(b, s)' PROVE Waiting(b, s)
    OBVIOUS
  <2>1. /\ A'[b][s] \in Items /\ s >= TAKES'[b] /\ A'[b][s] \in stored'
        /\ \A r \in Procs : qpc'[r] \in EnqPcs => arg'[r] # A'[b][s]
    BY DEF Waiting, Completed
  <2>2. A'[b][s] = A[b][s] /\ s >= TAKES[b]
    BY <1>2, <1>5, <2>1
  <2>. QED
    BY <1>0, <1>1, <2>1, <2>2 DEF Waiting, Completed
<1>7. ASSUME NEW q \in Seq(Items), NEW m \in Gifts, Fits(q, m)'
      PROVE  Explained(q, m) /\ Config(q, m)' = Config(q, m)
  <2>1. FitsAny(q, m)'
    BY <1>7 DEF Fits, FitsAny
  <2>2. \A t \in Procs : pc'[t] = "takeSwap" =>
           /\ pc[t] = "takeSwap" /\ bk'[t] = bk[t] /\ slot'[t] = slot[t]
           /\ bk[t] \in Baskets /\ slot[t] \in Slots
    BY <1>0, <1>1 DEF TypeOK, Owners
  <2>3. \A b \in Baskets, s \in Slots :
           A[b][s] \in Items /\ ~Spent(b, s) => A'[b][s] = A[b][s] /\ ~Spent(b, s)'
    BY <1>2
  <2>4. Fits(q, m)
    BY <1>3, <1>4, <1>5, <1>6, <1>7, <2>1, <2>2, <2>3, FewerFit
  <2>5. ASSUME NEW r \in Procs PROVE AnswerIn(r, q, m)' = AnswerIn(r, q, m)
    BY <1>0, <1>1 DEF AnswerIn, In, Given, TakePcs, QInv, Calling
  <2>. QED
    BY <2>4, <2>5 DEF Config, LinInv
<1>. QED
  BY <1>0, <1>7, StayExplained DEF CallsStay
-----------------------------------------------------------------------------
\* A step of a call: what fits after it is an explanation before.
LEMMA StillExplained ==
  ASSUME QInv', Few', LinInv, CallsStay, lin' = lin,
         \A q \in Seq(Items), m \in Gifts :
           Fits(q, m)' => Config(q, m)' \in L!Explanations(lin, Pending)
  PROVE  LinInv'
<1>. SUFFICES ASSUME NEW q \in Seq(Items), NEW m \in Gifts, Fits(q, m)' PROVE Explained(q, m)'
  BY DEF LinInv, Gifts
<1>1. Config(q, m)' \in LP!Explanations(lin, Pending)
  BY SameExplanations
<1>2. /\ DOMAIN Pending \subseteq DOMAIN Pending'
      /\ \A p \in DOMAIN Pending : Pending'[p] = Pending[p]
  BY DEF CallsStay, Pending
<1>3. LP!IsFiniteSet(DOMAIN Pending')
  <2>1. LP!Calls(Items, Pending)'
    BY PendingCalls, PTL
  <2>. QED
    BY <2>1 DEF LP!Calls
<1>4. Config(q, m)' \in LP!Explanations(lin, Pending')
  BY <1>1, <1>2, <1>3, LP!ExplanationsGrow
<1>. QED
  BY <1>4, SameExplanations DEF Explained

\* One more take is to return an item.
LEMMA OneMoreGift ==
  ASSUME NEW m \in Gifts, NEW p \in Procs, m[p] = NONE, NEW v \in Items
  PROVE  /\ [m EXCEPT ![p] = v] \in Gifts
         /\ [m EXCEPT ![p] = v][p] = v
         /\ \A t \in Procs \ {p} : [m EXCEPT ![p] = v][t] = m[t]
         /\ \A w \in Items : Given(w, [m EXCEPT ![p] = v]) <=> Given(w, m) \/ w = v
BY AnswersAssumption DEF Gifts, Given

\* The exchange that takes an item: it is what the take was to return.
LEMMA TakeItemLin ==
  ASSUME IInv, QInv, QInv', Few', LinInv, NEW p \in Procs, TakeItem(p), UNCHANGED queueVars
  PROVE  LinInv'
<1>. USE SentinelAssumption
<1>. DEFINE B == bk[p]
            e == slot[p]
            v == A[B][e]
<1>0. /\ TypeOK /\ Content /\ Putting /\ Owners /\ B \in Baskets /\ e \in Slots
      /\ UNCHANGED <<qpc, arg, lin>> /\ pc[p] = "takeSwap" /\ qpc[p] = "deqTake"
      /\ v \in stored /\ v \in Items /\ removed[v] = 0 /\ ~Spent(B, e)
  <2>1. /\ TypeOK /\ Content /\ Putting /\ Owners /\ UNCHANGED <<qpc, arg, lin>>
        /\ pc[p] = "takeSwap" /\ qpc[p] = "deqTake" /\ v # BOTTOM
    BY DEF IInv, TakeItem, queueVars, QInv, Calling, TakePcs
  <2>2. B \in Baskets /\ e \in Slots /\ ~Spent(B, e)
    BY TakeSwap
  <2>3. v \in stored /\ removed[v] = 0
    BY <2>1, <2>2 DEF Content
  <2>. QED
    BY <2>1, <2>2, <2>3 DEF TypeOK
<1>1. /\ UNCHANGED <<PUTS, TAKES, bk, x, slot, stored>>
      /\ pc'[p] = "idle" /\ res'[p] = v
      /\ \A r \in Procs \ {p} : pc'[r] = pc[r] /\ res'[r] = res[r]
      /\ removed'[v] = 1 /\ \A w \in Items \ {v} : removed'[w] = removed[w]
  <2>1. removed' = [removed EXCEPT ![v] = @ + 1]
    BY DEF TakeItem
  <2>2. removed'[v] = 1 /\ \A w \in Items \ {v} : removed'[w] = removed[w]
    BY <1>0, <2>1 DEF TypeOK
  <2>. HIDE DEF v
  <2>3. res' = [res EXCEPT ![p] = v]
    BY DEF TakeItem, Return, v
  <2>. QED
    BY <1>0, <2>2, <2>3 DEF TakeItem, Return, TypeOK
<1>2. \A b \in Baskets, s \in Slots :
        IF b = B /\ s = e THEN Spent(b, s)'
        ELSE A'[b][s] = A[b][s] /\ (Spent(b, s)' <=> Spent(b, s))
  BY TakeSwap
<1>. HIDE DEF B, e, v
<1>3. ASSUME NEW w \in Items, NEW b \in Baskets, NEW s \in Slots, May(w, b, s)'
      PROVE  May(w, b, s) /\ w # v
  <2>1. ~Spent(b, s) /\ A'[b][s] = A[b][s] /\ ~(b = B /\ s = e)
    BY <1>2, <1>3 DEF May
  <2>2. CASE A[b][s] = w
    <3>1. May(w, b, s)
      BY <2>1, <2>2 DEF May
    <3>2. w # v
      BY <1>0, <2>1, <3>1, OnePlace DEF v
    <3>. QED
      BY <3>1, <3>2
  <2>3. CASE A[b][s] # w
    <3>1. PICK r \in Procs : /\ pc'[r] \in PutPcs /\ x'[r] = w /\ bk'[r] = b
                             /\ s >= PUTS'[b] \/ HoldsPut(r, b, s)'
      BY <1>3, <2>1, <2>3 DEF May
    <3>2. r # p
      BY <1>1, <3>1 DEF PutPcs
    <3>3. May(w, b, s)
      BY <1>1, <1>3, <2>1, <2>3, <3>1, <3>2 DEF May, HoldsPut
    <3>4. w \notin stored
      BY <1>0, <1>1, <3>1, <3>2 DEF Putting
    <3>. QED
      BY <1>0, <3>3, <3>4
  <2>. QED
    BY <2>2, <2>3
<1>4. \A w \in Items : Completed(w)' <=> Completed(w)
  BY <1>0, <1>1 DEF Completed
<1>5. ASSUME NEW q \in Seq(Items), NEW m \in Gifts, Fits(q, m)'
      PROVE  Config(q, m)' \in L!Explanations(lin, Pending)
  <2>. DEFINE g == [m EXCEPT ![p] = v]
  <2>1. m[p] = NONE
    BY <1>1, <1>5 DEF Fits, Gives
  <2>2. /\ g \in Gifts /\ g[p] = v /\ \A t \in Procs \ {p} : g[t] = m[t]
        /\ \A w \in Items : Given(w, g) <=> Given(w, m) \/ w = v
    <3>1. ASSUME NEW w \in Items
          PROVE  /\ [m EXCEPT ![p] = w] \in Gifts
                 /\ [m EXCEPT ![p] = w][p] = w
                 /\ \A t \in Procs \ {p} : [m EXCEPT ![p] = w][t] = m[t]
                 /\ \A y \in Items : Given(y, [m EXCEPT ![p] = w]) <=> Given(y, m) \/ y = w
      BY <2>1, OneMoreGift
    <3>. QED
      BY <1>0, <3>1
  <2>. HIDE DEF g
  <2>3. /\ \A i \in DOMAIN q : q[i] \in Items
        /\ \A t \in Procs : m[t] # NONE => m[t] \in Items
        /\ v # NONE
    BY <1>0, AnswersAssumption DEF Gifts
  <2>4. \A t \in Procs \ {p} : m[t] # NONE =>
          pc[t] = "takeSwap" /\ May(m[t], bk[t], slot[t]) /\ m[t] # v
    <3>. SUFFICES ASSUME NEW t \in Procs \ {p}, m[t] # NONE
                  PROVE  pc[t] = "takeSwap" /\ May(m[t], bk[t], slot[t]) /\ m[t] # v
      OBVIOUS
    <3>1. pc[t] = "takeSwap" /\ May(m[t], bk[t], slot[t])'
      BY <1>1, <1>5 DEF Fits, Gives
    <3>2. bk[t] \in Baskets /\ slot[t] \in Slots
      BY <1>0, <3>1 DEF Owners, TypeOK
    <3>3. \A w \in Items, b \in Baskets, s \in Slots :
            bk'[t] = b /\ slot'[t] = s /\ w = m[t] => May(w, b, s)'
      BY <3>1 DEF May, Spent, HoldsPut, HoldsTake
    <3>. QED
      BY <1>1, <1>3, <2>3, <3>1, <3>2, <3>3
  <2>5. Gives(g)
    <3>1. May(v, B, e)
      BY <1>0 DEF May, v
    <3>2. \A t, u \in Procs : m[t] = m[u] /\ m[t] # NONE => t = u
      BY <1>5 DEF Fits, Gives
    <3>3. ASSUME NEW t \in Procs, g[t] # NONE
          PROVE  pc[t] = "takeSwap" /\ May(g[t], bk[t], slot[t])
      BY <1>0, <2>2, <2>4, <3>1, <3>3 DEF B, e
    <3>4. ASSUME NEW t \in Procs, NEW u \in Procs, g[t] = g[u], g[t] # NONE PROVE t = u
      BY <2>2, <2>3, <2>4, <3>2, <3>4
    <3>. QED
      BY <3>3, <3>4 DEF Gives
  <2>6. Complete(q, g)
    <3>. SUFFICES ASSUME NEW b \in Baskets, NEW s \in Slots, A[b][s] \in Items, ~Spent(b, s),
                         Completed(A[b][s])
                  PROVE  In(A[b][s], q) \/ Given(A[b][s], g)
      BY DEF Complete
    <3>1. CASE b = B /\ s = e
      BY <1>0, <2>2, <3>1 DEF v
    <3>2. CASE ~(b = B /\ s = e)
      <4>1. A'[b][s] = A[b][s] /\ ~Spent(b, s)' /\ Completed(A[b][s])'
        <5>1. A[b][s] \in stored' /\ \A r \in Procs : qpc'[r] \in EnqPcs => arg'[r] # A'[b][s]
          BY <1>0, <1>1, <1>2, <3>2 DEF Completed
        <5>. QED
          BY <1>2, <3>2, <5>1 DEF Completed
      <4>2. In(A[b][s], q) \/ Given(A[b][s], m)
        BY <1>5, <4>1 DEF Fits, Complete, Completed, In, Given
      <4>. QED
        BY <2>2, <4>2
    <3>. QED
      BY <3>1, <3>2
  <2>7. PICK home \in [DOMAIN q -> Baskets], seat \in [DOMAIN q -> Slots] :
          Lists(q, m, home, seat)' /\ Needed(q, home, seat)'
    BY <1>5 DEF Fits
  <2>8. Lists(q, g, home, seat)
    <3>1. \A i \in DOMAIN q : /\ May(q[i], home[i], seat[i]) /\ q[i] # v
                              /\ ~Given(q[i], m) /\ seat[i] >= TAKES[home[i]]
      BY <1>1, <1>3, <2>3, <2>7 DEF Lists, Given
    <3>. QED
      BY <2>2, <2>3, <2>7, <3>1 DEF Lists, Before
  <2>9. Needed(q, home, seat)
    <3>1. \A b \in Baskets, s \in Slots : Waiting(b, s)' => Waiting(b, s)
      <4>. SUFFICES ASSUME NEW b \in Baskets, NEW s \in Slots, Waiting(b, s)' PROVE Waiting(b, s)
        OBVIOUS
      <4>1. /\ A'[b][s] \in Items /\ s >= TAKES[b] /\ A'[b][s] \in stored
            /\ \A r \in Procs : qpc[r] \in EnqPcs => arg[r] # A'[b][s]
        BY <1>0, <1>1 DEF Waiting, Completed
      <4>2. ~Spent(b, s)'
        BY <1>0, <1>1, <4>1 DEF Spent, TypeOK, Slots
      <4>. QED
        BY <1>2, <4>1, <4>2 DEF Waiting, Completed
    <3>. QED
      BY <2>7, <3>1 DEF Needed, Before
  <2>10. Explained(q, g)
    BY <2>2, <2>5, <2>6, <2>7, <2>8, <2>9 DEF Fits, LinInv
  <2>11. ASSUME NEW r \in Procs PROVE AnswerIn(r, q, m)' = AnswerIn(r, q, g)
    <3>1. CASE r = p
      BY <1>0, <1>1, <2>2, <3>1 DEF AnswerIn
    <3>2. CASE r # p
      <4>1. qpc[r] = "enqPut" => arg[r] \in Items
        BY DEF QInv, Enqueuing, QueueTypeOK, EnqPcs
      <4>2. CASE qpc[r] = "enqPut" /\ arg[r] = v
        <5>1. AnswerIn(r, q, g) = OK
          BY <1>0, <2>2, <4>2 DEF AnswerIn
        <5>2. AnswerIn(r, q, m)' = OK
          BY <1>0, <1>1, <4>2 DEF AnswerIn
        <5>. QED
          BY <5>1, <5>2
      <4>3. CASE ~(qpc[r] = "enqPut" /\ arg[r] = v)
        <5>1. qpc[r] = "enqPut" =>
                 /\ Given(arg[r], g) <=> Given(arg[r], m)
                 /\ removed'[arg[r]] = removed[arg[r]]
          BY <1>1, <2>2, <4>1, <4>3
        <5>. QED
          BY <1>0, <1>1, <2>2, <3>2, <5>1 DEF AnswerIn, In, Given
      <4>. QED
        BY <4>2, <4>3
    <3>. QED
      BY <3>1, <3>2
  <2>12. Config(q, m)' = Config(q, g)
    BY <2>11 DEF Config
  <2>. QED
    BY <2>10, <2>12 DEF Explained
<1>. QED
  BY <1>0, <1>5, StillExplained DEF CallsStay
-----------------------------------------------------------------------------
\* What is in a queue with one more item at its head.
LEMMA InCons ==
  ASSUME NEW v \in Items, NEW q \in Seq(Items)
  PROVE  \A w : In(w, <<v>> \o q) <=> In(w, q) \/ w = v
<1>. DEFINE c == <<v>> \o q
<1>. SUFFICES ASSUME NEW w PROVE In(w, c) <=> In(w, q) \/ w = v
  OBVIOUS
<1>0. /\ DOMAIN c = 1 .. Len(q) + 1 /\ DOMAIN q = 1 .. Len(q) /\ Len(q) \in Nat
      /\ c[1] = v /\ \A i \in 1 .. Len(q) : c[i + 1] = q[i]
  BY LP!Cons
<1>. HIDE DEF c
<1>1. ASSUME NEW i \in DOMAIN c, c[i] = w, w # v PROVE In(w, q)
  <2>1. i # 1 /\ i - 1 \in 1 .. Len(q) /\ (i - 1) + 1 = i
    BY <1>0, <1>1
  <2>2. q[i - 1] = w
    BY <1>0, <1>1, <2>1
  <2>. QED
    BY <1>0, <2>1, <2>2 DEF In
<1>2. ASSUME NEW i \in DOMAIN q, q[i] = w PROVE In(w, c)
  <2>1. i + 1 \in DOMAIN c /\ c[i + 1] = w
    BY <1>0, <1>2
  <2>. QED
    BY <2>1 DEF In
<1>3. In(v, c)
  BY <1>0 DEF In
<1>. QED
  BY <1>1, <1>2, <1>3 DEF In

\* A take gets a slot: if it is to return the item of the slot, that is the head of the
\* queue, and the dequeue takes effect.
LEMMA TakeFAILin ==
  ASSUME IInv, QInv, QInv', GInv, Few', LinInv, NEW p \in Procs,
         TakeFAI(p), TAKES[bk[p]] < K, UNCHANGED queueVars
  PROVE  LinInv'
<1>. USE SentinelAssumption, KAssumption
<1>. DEFINE B == bk[p]
            e == TAKES[B]
<1>0. /\ TypeOK /\ Owners /\ B \in Baskets /\ e \in Nat /\ e \in Slots
      /\ B \in Nat /\ HEAD \in Nat /\ B <= HEAD
      /\ UNCHANGED <<qpc, arg, lin>> /\ pc[p] = "takeFAI" /\ qpc[p] = "deqTake"
      /\ \A s \in Slots : s \in Nat /\ s < K
      /\ \A b \in Baskets : b \in Nat /\ TAKES[b] \in Nat
  <2>1. /\ TypeOK /\ Owners /\ UNCHANGED <<qpc, arg, lin>> /\ pc[p] = "takeFAI"
        /\ qpc[p] = "deqTake" /\ B = head[p] /\ head[p] <= HEAD /\ HEAD \in Nat
    BY CapacityAssumption
    DEF IInv, TakeFAI, queueVars, QInv, QueueTypeOK, Calling, TakePcs, GInv, Looks
  <2>2. B \in Baskets /\ e \in Nat
    BY <2>1 DEF TypeOK
  <2>3. e \in Slots
    BY <2>2 DEF Slots
  <2>. HIDE DEF B, e
  <2>4. \A b \in Baskets : b \in Nat /\ TAKES[b] \in Nat
    BY <2>1, CapacityAssumption DEF TypeOK
  <2>5. \A s \in Slots : s \in Nat /\ s < K
    BY DEF Slots
  <2>. QED
    BY <2>1, <2>2, <2>3, <2>4, <2>5
<1>1. /\ UNCHANGED <<A, PUTS, bk, x, res, stored, removed>>
      /\ pc'[p] = "takeSwap" /\ slot'[p] = e /\ TAKES'[B] = e + 1
      /\ \A b \in Baskets \ {B} : TAKES'[b] = TAKES[b]
      /\ \A r \in Procs \ {p} : pc'[r] = pc[r] /\ slot'[r] = slot[r]
  BY <1>0 DEF TakeFAI, Goto, history, TypeOK
<1>. HIDE DEF B, e
<1>2. \A b \in Baskets, s \in Slots : s >= TAKES'[b] <=> s >= TAKES[b] /\ ~(b = B /\ s = e)
  BY <1>0, <1>1 DEF e
<1>3. ASSUME NEW b \in Baskets, NEW s \in Slots PROVE Spent(b, s)' <=> Spent(b, s)
  <2>1. CASE b = B /\ s = e
    <3>1. ~Spent(b, s)
      BY <1>0, <2>1 DEF Spent, e
    <3>2. HoldsTake(p, b, s)'
      BY <1>1, <2>1 DEF HoldsTake, B
    <3>. QED
      BY <3>1, <3>2 DEF Spent
  <2>2. CASE ~(b = B /\ s = e)
    <3>1. \A t \in Procs : HoldsTake(t, b, s)' <=> HoldsTake(t, b, s)
      BY <1>0, <1>1, <2>2 DEF HoldsTake, B
    <3>2. s < TAKES'[b] <=> s < TAKES[b]
      BY <1>0, <1>1, <2>2 DEF e
    <3>. QED
      BY <3>1, <3>2 DEF Spent
  <2>. QED
    BY <2>1, <2>2
<1>4. \A v \in Items, b \in Baskets, s \in Slots : May(v, b, s)' <=> May(v, b, s)
  <2>1. \A r \in Procs, b \in Baskets, s \in Slots : HoldsPut(r, b, s)' <=> HoldsPut(r, b, s)
    BY <1>0, <1>1 DEF HoldsPut
  <2>2. \A r \in Procs : pc'[r] \in PutPcs <=> pc[r] \in PutPcs
    BY <1>0, <1>1 DEF PutPcs
  <2>. QED
    BY <1>1, <1>3, <2>1, <2>2 DEF May
<1>5. \A v : Completed(v)' <=> Completed(v)
  BY <1>0, <1>1 DEF Completed
<1>6. \A b \in Baskets, s \in Slots : Waiting(b, s)' => Waiting(b, s)
  BY <1>1, <1>2, <1>5 DEF Waiting
<1>7. ASSUME NEW q \in Seq(Items), NEW m \in Gifts PROVE Config(q, m)' = Config(q, m)
  <2>1. \A r \in Procs : AnswerIn(r, q, m)' = AnswerIn(r, q, m)
    BY <1>0, <1>1 DEF AnswerIn, In, Given
  <2>. QED
    BY <2>1 DEF Config
<1>8. ASSUME NEW q \in Seq(Items), NEW m \in Gifts, Fits(q, m)' PROVE Explained(q, m)
  <2>0. FitsAny(q, m)'
    BY <1>8 DEF Fits, FitsAny
  <2>1. CASE m[p] = NONE
    <3>1. \A t \in Procs : m[t] # NONE /\ pc'[t] = "takeSwap" =>
             /\ pc[t] = "takeSwap" /\ bk'[t] = bk[t] /\ slot'[t] = slot[t]
             /\ bk[t] \in Baskets /\ slot[t] \in Slots
      BY <1>0, <1>1, <2>1 DEF TypeOK, Owners
    <3>2. Fits(q, m)
      BY <1>1, <1>2, <1>3, <1>4, <1>5, <1>6, <1>8, <2>0, <3>1, FewerFit
    <3>. QED
      BY <3>2 DEF LinInv
  <2>2. CASE m[p] # NONE
    <3>. DEFINE v == m[p]
                g == [m EXCEPT ![p] = NONE]
                c == <<v>> \o q
    <3>1. /\ v \in Items /\ g \in Gifts /\ g[p] = NONE /\ m[p] = v
          /\ \A t \in Procs \ {p} : g[t] = m[t]
          /\ \A i \in DOMAIN q : q[i] \in Items
      BY <2>2 DEF Gifts
    <3>. HIDE DEF g, v
    <3>2. \A w \in Items : Given(w, m) <=> Given(w, g) \/ w = v
      BY <3>1, AnswersAssumption DEF Given
    <3>3. /\ c \in Seq(Items) /\ c # <<>> /\ Head(c) = v /\ Tail(c) = q
          /\ DOMAIN c = 1 .. Len(q) + 1 /\ DOMAIN q = 1 .. Len(q) /\ Len(q) \in Nat
          /\ c[1] = v /\ \A i \in 1 .. Len(q) : c[i + 1] = q[i]
      BY <3>1, LP!Cons
    <3>4. \A w : In(w, c) <=> In(w, q) \/ w = v
      BY <3>1, InCons
    <3>. HIDE DEF c
    <3>0. \A t \in Procs : m[t] # NONE => m[t] \in Items
      BY DEF Gifts
    <3>5. \A t \in Procs : m[t] # NONE => pc'[t] = "takeSwap" /\ May(m[t], bk[t], slot'[t])
      <4>. SUFFICES ASSUME NEW t \in Procs, m[t] # NONE
                    PROVE  pc'[t] = "takeSwap" /\ May(m[t], bk[t], slot'[t])
        OBVIOUS
      <4>1. pc'[t] = "takeSwap" /\ May(m[t], bk[t], slot[t])'
        BY <1>8 DEF Fits, Gives
      <4>2. bk[t] \in Baskets /\ slot'[t] \in Slots
        BY <1>0, <1>1, <4>1 DEF TypeOK, Owners
      <4>3. \A w, b \in Baskets, s \in Slots :
              bk'[t] = b /\ slot'[t] = s /\ w = m[t] => May(w, b, s)'
        BY <4>1 DEF May, Spent, HoldsPut, HoldsTake
      <4>. QED
        BY <1>1, <1>4, <3>0, <4>1, <4>2, <4>3
    <3>6. May(v, B, e)
      BY <1>1, <2>2, <3>5 DEF v, B
    <3>7. Gives(g)
      <4>1. \A t, u \in Procs : m[t] = m[u] /\ m[t] # NONE => t = u
        BY <1>8 DEF Fits, Gives
      <4>. QED
        BY <1>1, <3>1, <3>5, <4>1 DEF Gives
    <3>9. Complete(c, g)
      <4>. SUFFICES ASSUME NEW b \in Baskets, NEW s \in Slots, A[b][s] \in Items, ~Spent(b, s),
                           Completed(A[b][s])
                    PROVE  In(A[b][s], c) \/ Given(A[b][s], g)
        BY DEF Complete
      <4>1. A'[b][s] \in Items /\ ~Spent(b, s)' /\ Completed(A[b][s])'
        BY <1>1, <1>3, <1>5
      <4>2. In(A[b][s], q) \/ Given(A[b][s], m)
        BY <1>1, <1>8, <4>1 DEF Fits, Complete, Completed, In, Given
      <4>. QED
        BY <3>2, <3>4, <4>2
    <3>10. PICK home \in [DOMAIN q -> Baskets], seat \in [DOMAIN q -> Slots] :
            Lists(q, m, home, seat)'
      BY <1>8 DEF Fits
    <3>. DEFINE h == [i \in DOMAIN c |-> IF i = 1 THEN B ELSE home[i - 1]]
                z == [i \in DOMAIN c |-> IF i = 1 THEN e ELSE seat[i - 1]]
    <3>11. \A i \in DOMAIN c : i # 1 =>
             /\ i - 1 \in DOMAIN q /\ c[i] = q[i - 1] /\ h[i] = home[i - 1] /\ z[i] = seat[i - 1]
      <4>. SUFFICES ASSUME NEW i \in DOMAIN c, i # 1
                    PROVE  /\ i - 1 \in DOMAIN q /\ c[i] = q[i - 1]
                           /\ h[i] = home[i - 1] /\ z[i] = seat[i - 1]
        OBVIOUS
      <4>1. i - 1 \in 1 .. Len(q) /\ (i - 1) + 1 = i
        BY <3>3
      <4>. QED
        BY <3>3, <4>1
    <3>12. 1 \in DOMAIN c /\ c[1] = v /\ h[1] = B /\ z[1] = e
      BY <3>3
    <3>13. h \in [DOMAIN c -> Baskets] /\ z \in [DOMAIN c -> Slots]
      BY <1>0, <3>10, <3>11
    <3>. HIDE DEF h, z
    <3>14. /\ \A i, j \in DOMAIN q : q[i] = q[j] => i = j
           /\ \A i \in DOMAIN q : /\ ~Given(q[i], m) /\ May(q[i], home[i], seat[i])
                                  /\ seat[i] >= TAKES'[home[i]] /\ seat[i] >= TAKES[home[i]]
           /\ \A i, j \in DOMAIN q : i < j => Before(home[i], seat[i], home[j], seat[j])
      <4>1. \A i \in DOMAIN q : home[i] \in Baskets /\ seat[i] \in Slots
        BY <3>10
      <4>. QED
        BY <1>2, <1>4, <3>1, <3>10, <4>1 DEF Lists, Given, Before
    <3>15. \A i \in DOMAIN q : Before(B, e, home[i], seat[i])
      <4>. SUFFICES ASSUME NEW i \in DOMAIN q PROVE Before(B, e, home[i], seat[i])
        OBVIOUS
      <4>1. home[i] \in Baskets /\ seat[i] \in Slots /\ seat[i] >= TAKES'[home[i]]
        BY <3>10, <3>14
      <4>2. ~(home[i] < HEAD)
        <5>1. home[i] < HEAD => TAKES[home[i]] >= K
          BY <4>1 DEF QInv, Passed, IInv, Closing
        <5>2. seat[i] >= TAKES[home[i]] /\ seat[i] < K /\ seat[i] \in Nat /\ TAKES[home[i]] \in Nat
          BY <1>0, <3>14, <4>1
        <5>. QED
          BY <5>1, <5>2
      <4>4. home[i] \in Nat /\ seat[i] \in Nat
        BY <1>0, <4>1
      <4>3. home[i] = B => e < seat[i]
        <5>1. home[i] = B => seat[i] >= e + 1
          BY <1>1, <4>1
        <5>. QED
          BY <1>0, <4>4, <5>1
      <4>5. B = home[i] \/ B < home[i]
        BY <1>0, <4>2, <4>4
      <4>. QED
        BY <4>3, <4>5 DEF Before
    <3>16. Lists(c, g, h, z)
      <4>1. \A i \in DOMAIN q : q[i] # v /\ ~Given(q[i], g)
        BY <3>1, <3>2, <3>14
      <4>2. ~Given(v, g)
        <5>1. \A t, u \in Procs : m[t] = m[u] /\ m[t] # NONE => t = u
          BY <1>8 DEF Fits, Gives
        <5>. QED
          BY <2>2, <3>1, <5>1 DEF Given, v
      <4>3. ASSUME NEW i \in DOMAIN c, NEW j \in DOMAIN c, c[i] = c[j] PROVE i = j
        <5>1. CASE i = 1 \/ j = 1
          BY <3>11, <3>12, <4>1, <4>3, <5>1
        <5>2. CASE i # 1 /\ j # 1
          <6>1. i - 1 = j - 1
            BY <3>11, <3>14, <4>3, <5>2
          <6>. QED
            BY <6>1, <3>3
        <5>. QED
          BY <5>1, <5>2
      <4>4. ASSUME NEW i \in DOMAIN c
            PROVE  ~Given(c[i], g) /\ May(c[i], h[i], z[i]) /\ z[i] >= TAKES[h[i]]
        <5>1. CASE i = 1
          BY <1>0, <3>6, <3>12, <4>2, <5>1 DEF e
        <5>2. CASE i # 1
          BY <3>11, <3>14, <4>1, <5>2
        <5>. QED
          BY <5>1, <5>2
      <4>5. ASSUME NEW i \in DOMAIN c, NEW j \in DOMAIN c, i < j
            PROVE  Before(h[i], z[i], h[j], z[j])
        <5>1. j # 1 /\ j - 1 \in DOMAIN q
          BY <3>3, <3>11, <4>5
        <5>2. CASE i = 1
          BY <3>11, <3>12, <3>15, <5>1, <5>2
        <5>3. CASE i # 1
          <6>1. i - 1 \in DOMAIN q /\ i - 1 < j - 1
            BY <3>3, <3>11, <4>5, <5>3
          <6>. QED
            BY <3>11, <3>14, <5>1, <5>3, <6>1
        <5>. QED
          BY <5>2, <5>3
      <4>. QED
        BY <4>3, <4>4, <4>5 DEF Lists
    <3>17. Explained(c, g)
      <4>1. FitsAny(c, g)
        BY <3>7, <3>9, <3>13, <3>16 DEF FitsAny
      <4>. QED
        BY <3>1, <3>3, <4>1, Batch DEF GInv
    <3>18. p \in DOMAIN Pending /\ Pending[p] = DEQUEUE /\ Config(c, g).ans[p] = NONE
      BY <1>0, <3>1 DEF Pending, EnqPcs, Config, AnswerIn
    <3>19. LP!TakeEffect(Config(c, g), p, DEQUEUE) = Config(q, m)
      <4>1. ASSUME NEW r \in Procs \ {p} PROVE AnswerIn(r, c, g) = AnswerIn(r, q, m)
        <5>1. qpc[r] = "enqPut" => arg[r] \in Items
          BY DEF QInv, Enqueuing, QueueTypeOK, EnqPcs
        <5>2. qpc[r] = "enqPut" =>
                (In(arg[r], c) \/ Given(arg[r], g) <=> In(arg[r], q) \/ Given(arg[r], m))
          BY <3>2, <3>4, <5>1
        <5>. QED
          BY <3>1, <5>2 DEF AnswerIn
      <4>2. AnswerIn(p, q, m) = v
        BY <1>0 DEF AnswerIn, v
      <4>3. LP!TakeEffect(Config(c, g), p, DEQUEUE) =
              [q |-> q, ans |-> [Config(c, g).ans EXCEPT ![p] = v]]
        BY <3>3 DEF LP!TakeEffect, LP!Answer, Config
      <4>4. [Config(c, g).ans EXCEPT ![p] = v] = Config(q, m).ans
        BY <4>1, <4>2 DEF Config
      <4>. QED
        BY <4>3, <4>4 DEF Config
    <3>20. LP!TakeEffect(Config(c, g), p, Pending[p]) \in LP!Explanations(lin, Pending)
      <4>1. Config(c, g) \in LP!Explanations(lin, Pending)
        BY <3>17, SameExplanations DEF Explained
      <4>. QED
        BY <4>1, <3>18, PendingCalls, LP!ExplanationsClosed DEF LinInv, GInv
    <3>. QED
      BY <3>18, <3>19, <3>20, SameExplanations DEF Explained
  <2>. QED
    BY <2>1, <2>2
<1>. QED
  BY <1>0, <1>7, <1>8, StayExplained DEF CallsStay
-----------------------------------------------------------------------------
\* An enqueue goes into TAIL's basket: its item comes after all whose enqueues have
\* returned, and no take is there yet.
LEMMA EnqLLLin ==
  ASSUME IInv, QInv, QInv', GInv, Few', LinInv, NEW p \in Procs, EnqLL(p), BasketCall(p)
  PROVE  LinInv'
<1>. USE SentinelAssumption
<1>. DEFINE v == arg[p]
<1>0. /\ TypeOK /\ Owners /\ Content /\ TAIL \in Nat /\ v \in Items \ stored
      /\ \A b \in Baskets : b \in Nat /\ PUTS[b] \in Nat
      /\ \A s \in Slots : s \in Nat
      /\ \A t \in Procs : /\ pc[t] = "takeSwap" => bk[t] < TAIL /\ slot[t] \in Slots
                          /\ pc[t] \in PutPcs => x[t] # v
                          /\ bk[t] \in Baskets
  <2>1. qpc[p] = "enqLL"
    BY EnqLLEffect
  <2>2. TypeOK /\ Owners /\ Content /\ TAIL \in Nat /\ v \in Items \ stored
    BY <2>1, CapacityAssumption DEF IInv, QInv, QueueTypeOK, Enqueuing, EnqPcs
  <2>3. \A t \in Procs : pc[t] \in PutPcs => x[t] # v
    BY <2>1 DEF QInv, Calling, Enqueuing, EnqPcs
  <2>4. \A t \in Procs : pc[t] = "takeSwap" => bk[t] < TAIL /\ slot[t] \in Slots
    BY <2>2 DEF QInv, Calling, TakePcs, GInv, Looks, Owners
  <2>5. \A b \in Baskets : b \in Nat /\ PUTS[b] \in Nat
    BY <2>2, CapacityAssumption DEF TypeOK
  <2>6. \A s \in Slots : s \in Nat
    BY KAssumption DEF Slots
  <2>7. \A t \in Procs : bk[t] \in Baskets
    BY <2>2 DEF TypeOK
  <2>. HIDE DEF v
  <2>. QED
    BY <2>2, <2>3, <2>4, <2>5, <2>6, <2>7
<1>1. /\ UNCHANGED <<A, PUTS, TAKES, slot, res, stored, removed, arg, lin>>
      /\ qpc[p] = "enqLL" /\ pc[p] = "idle"
      /\ \A r \in Procs \ {p} : qpc'[r] = qpc[r] /\ pc'[r] = pc[r] /\ x'[r] = x[r] /\ bk'[r] = bk[r]
      /\ \/ qpc'[p] = "enqPut" /\ pc'[p] = "putState" /\ x'[p] = v /\ bk'[p] = TAIL
         \/ qpc'[p] = "overrun" /\ pc'[p] = "idle"
  BY EnqLLEffect
<1>. HIDE DEF v
<1>2. /\ \A b \in Baskets, s \in Slots : Spent(b, s)' <=> Spent(b, s)
      /\ \A w \in Items : Completed(w)' <=> Completed(w)
      /\ \A b \in Baskets, s \in Slots : Waiting(b, s)' <=> Waiting(b, s)
  <2>1. \A b \in Baskets, s \in Slots : Spent(b, s)' <=> Spent(b, s)
    <3>1. \A t \in Procs, b \in Baskets, s \in Slots : HoldsTake(t, b, s)' <=> HoldsTake(t, b, s)
      BY <1>1 DEF HoldsTake
    <3>. QED
      BY <1>1, <3>1 DEF Spent
  <2>2. \A w \in Items : Completed(w)' <=> Completed(w)
    BY <1>1 DEF Completed, EnqPcs
  <2>. QED
    BY <1>1, <2>1, <2>2 DEF Waiting
<1>3. ASSUME NEW w \in Items, NEW b \in Baskets, NEW s \in Slots, May(w, b, s)'
      PROVE  /\ w # v \/ qpc'[p] # "enqPut" => May(w, b, s)
             /\ w = v /\ qpc'[p] = "enqPut" => b = TAIL /\ s >= PUTS[b]
  <2>1. ~Spent(b, s)
    BY <1>2, <1>3 DEF May
  <2>2. CASE A[b][s] = w
    <3>1. w # v
      BY <1>0, <2>1, <2>2 DEF Content
    <3>. QED
      BY <2>1, <2>2, <3>1 DEF May
  <2>3. CASE A[b][s] # w
    <3>1. PICK r \in Procs : /\ A[b][s] = BOTTOM /\ pc'[r] \in PutPcs /\ x'[r] = w /\ bk'[r] = b
                             /\ s >= PUTS[b] \/ HoldsPut(r, b, s)'
      BY <1>1, <1>3, <2>3 DEF May
    <3>2. CASE r = p
      BY <1>1, <3>1, <3>2 DEF HoldsPut, PutPcs
    <3>3. CASE r # p
      BY <1>0, <1>1, <2>1, <3>1, <3>3 DEF May, HoldsPut
    <3>. QED
      BY <3>2, <3>3
  <2>. QED
    BY <2>2, <2>3
<1>4. ASSUME NEW q \in Seq(Items), NEW m \in Gifts, Fits(q, m)'
      PROVE  Explained(q, m) /\ Config(q, m)' = Config(q, m)
  <2>0. \A i \in DOMAIN q : q[i] \in Items
    OBVIOUS
  <2>1. PICK home \in [DOMAIN q -> Baskets], seat \in [DOMAIN q -> Slots] :
          Lists(q, m, home, seat)' /\ Needed(q, home, seat)'
    BY <1>4 DEF Fits
  <2>2. qpc'[p] = "enqPut" => ~In(v, q)
    <3>. SUFFICES ASSUME qpc'[p] = "enqPut", NEW i \in DOMAIN q, q[i] = v PROVE FALSE
      BY DEF In
    <3>1. home[i] \in Baskets /\ seat[i] \in Slots
      BY <2>1
    <3>2. home[i] = TAIL /\ seat[i] >= PUTS[home[i]]
      BY <1>0, <1>3, <2>1, <3>1 DEF Lists
    <3>3. PICK b \in Baskets, s \in Slots : Waiting(b, s) /\ ~Before(b, s, home[i], seat[i])
      <4>1. \E b \in Baskets, s \in Slots : Waiting(b, s)' /\ ~Before(b, s, home[i], seat[i])'
        BY <2>1 DEF Needed
      <4>. QED
        BY <1>2, <4>1 DEF Before
    <3>4. b = TAIL
      BY <1>0, <3>2, <3>3 DEF GInv, Reached, Waiting, Before
    <3>5. s < PUTS[b]
      <4>1. s >= PUTS[b] => A[b][s] \in {BOTTOM, TOP}
        BY <1>0 DEF Content
      <4>2. A[b][s] \in Items /\ s \in Nat /\ PUTS[b] \in Nat
        BY <1>0, <3>3 DEF Waiting
      <4>. QED
        BY <4>1, <4>2
    <3>6. ~(s < seat[i])
      BY <3>2, <3>3, <3>4 DEF Before
    <3>7. s \in Nat /\ seat[i] \in Nat /\ PUTS[b] \in Nat
      BY <1>0, <3>1
    <3>. QED
      BY <3>2, <3>4, <3>5, <3>6, <3>7
  <2>3. qpc'[p] = "enqPut" => ~Given(v, m)
    <3>. SUFFICES ASSUME qpc'[p] = "enqPut", NEW t \in Procs, m[t] = v PROVE FALSE
      BY DEF Given
    <3>1. v # NONE
      BY <1>0, AnswersAssumption
    <3>2. pc'[t] = "takeSwap" /\ May(m[t], bk[t], slot[t])'
      BY <1>4, <3>1 DEF Fits, Gives
    <3>3. t # p
      BY <1>1, <3>2
    <3>4. bk'[t] = bk[t] /\ slot'[t] = slot[t] /\ bk[t] \in Baskets /\ slot[t] \in Slots /\ bk[t] < TAIL
      BY <1>0, <1>1, <3>2, <3>3
    <3>5. \A w, b, s : bk'[t] = b /\ slot'[t] = s /\ w = m[t] => May(w, b, s)'
      BY <3>2 DEF May, Spent, HoldsPut, HoldsTake
    <3>6. bk[t] = TAIL
      BY <1>0, <1>3, <3>4, <3>5
    <3>. QED
      BY <1>0, <3>4, <3>6
  <2>4. \A w \in Items, b \in Baskets, s \in Slots :
           (In(w, q) \/ Given(w, m)) /\ May(w, b, s)' => May(w, b, s)
    BY <1>3, <2>2, <2>3
  <2>5. \A t \in Procs : pc'[t] = "takeSwap" =>
           /\ pc[t] = "takeSwap" /\ bk'[t] = bk[t] /\ slot'[t] = slot[t]
           /\ bk[t] \in Baskets /\ slot[t] \in Slots
    BY <1>0, <1>1
  <2>6. FitsAny(q, m)'
    BY <1>4 DEF Fits, FitsAny
  <2>7. Fits(q, m)
    BY <1>1, <1>2, <1>4, <2>4, <2>5, <2>6, FewerFit
  <2>8. ASSUME NEW r \in Procs PROVE AnswerIn(r, q, m)' = AnswerIn(r, q, m)
    <3>1. CASE r = p
      <4>1. AnswerIn(p, q, m) = m[p]
        BY <1>1 DEF AnswerIn
      <4>2. AnswerIn(p, q, m)' = m[p]
        BY <1>0, <1>1, <2>2, <2>3 DEF AnswerIn, In, Given, v
      <4>. QED
        BY <3>1, <4>1, <4>2
    <3>2. CASE r # p
      BY <1>1, <3>2 DEF AnswerIn, In, Given
    <3>. QED
      BY <3>1, <3>2
  <2>. QED
    BY <2>7, <2>8 DEF Config, LinInv
<1>5. CallsStay
  BY <1>1 DEF CallsStay, EnqPcs
<1>. QED
  BY <1>1, <1>4, <1>5, StayExplained
-----------------------------------------------------------------------------
\* An enqueue goes on or returns: the item of one that returns is in the queue, on its way
\* out of it or taken.
LEMMA EnqICLin ==
  ASSUME IInv, QInv, QInv', GInv, Few', LinInv, NEW p \in Procs, EnqIC(p), BasketCall(p)
  PROVE  LinInv'
<1>. USE SentinelAssumption
<1>. DEFINE v == arg[p]
<1>0. /\ UNCHANGED <<A, PUTS, TAKES, pc, bk, x, slot, res, stored, removed, arg>>
      /\ qpc[p] = "enqPut" /\ pc[p] = "idle" /\ \A r \in Procs \ {p} : qpc'[r] = qpc[r]
  BY EnqICEffect
<1>1. v \in Items /\ \A r \in Procs \ {p} : qpc[r] \in EnqPcs => arg[r] # v
  BY <1>0 DEF QInv, Enqueuing, QueueTypeOK, EnqPcs
<1>2. \A t \in Procs : bk[t] \in Baskets /\ (pc[t] = "takeSwap" => slot[t] \in Slots)
  BY DEF IInv, TypeOK, Owners
<1>3. \A b \in Baskets, s \in Slots : Spent(b, s)' <=> Spent(b, s)
  BY <1>0 DEF Spent, HoldsTake
<1>4. \A w \in Items, b \in Baskets, s \in Slots : May(w, b, s)' <=> May(w, b, s)
  BY <1>0, <1>3 DEF May, HoldsPut
<1>. HIDE DEF v
<1>5. CASE res[p] # OK
  <2>1. qpc'[p] = "enqLL" /\ lin' = lin
    BY <1>5, EnqICEffect
  <2>2. v \notin stored
    BY <1>0, <1>5 DEF QInv, Enqueuing, EnqPcs, v
  <2>3. \A b \in Baskets, s \in Slots : ~May(v, b, s)
    <3>. SUFFICES ASSUME NEW b \in Baskets, NEW s \in Slots, May(v, b, s) PROVE FALSE
      OBVIOUS
    <3>1. A[b][s] # v
      BY <1>1, <2>2 DEF IInv, Content, May
    <3>2. PICK r \in Procs : pc[r] \in PutPcs /\ x[r] = v
      BY <3>1 DEF May
    <3>3. qpc[r] = "enqPut" /\ arg[r] = v
      BY <3>2 DEF QInv, Calling
    <3>4. r = p
      BY <1>1, <3>3 DEF EnqPcs
    <3>. QED
      BY <1>0, <3>2, <3>4 DEF PutPcs
  <2>4. \A w \in Items : Completed(w)' <=> Completed(w)
    BY <1>0, <2>1 DEF Completed, EnqPcs
  <2>5. \A b \in Baskets, s \in Slots : Waiting(b, s)' => Waiting(b, s)
    BY <1>0, <2>4 DEF Waiting
  <2>6. ASSUME NEW q \in Seq(Items), NEW m \in Gifts, Fits(q, m)'
        PROVE  Explained(q, m) /\ Config(q, m)' = Config(q, m)
    <3>1. FitsAny(q, m)'
      BY <2>6 DEF Fits, FitsAny
    <3>2. Fits(q, m)
      BY <1>0, <1>2, <1>3, <1>4, <2>4, <2>5, <2>6, <3>1, FewerFit
    <3>3. ~In(v, q)
      BY <2>3, <3>2 DEF Fits, Lists, In
    <3>4. ~Given(v, m)
      <4>1. v # NONE
        BY <1>1, AnswersAssumption
      <4>. QED
        BY <1>2, <2>3, <3>2, <4>1 DEF Fits, Gives, Given
    <3>5. ASSUME NEW r \in Procs PROVE AnswerIn(r, q, m)' = AnswerIn(r, q, m)
      <4>1. CASE r = p
        BY <1>0, <2>1, <2>2, <3>3, <3>4, <4>1 DEF AnswerIn, v
      <4>2. CASE r # p
        BY <1>0, <4>2 DEF AnswerIn, In, Given
      <4>. QED
        BY <4>1, <4>2
    <3>. QED
      BY <3>2, <3>5 DEF Config, LinInv
  <2>7. CallsStay
    BY <1>0, <2>1 DEF CallsStay, EnqPcs
  <2>. QED
    BY <2>1, <2>6, <2>7, StayExplained
<1>6. CASE res[p] = OK
  <2>1. qpc'[p] = "idle" /\ lin' = L!Respond(lin, Pending, p, OK)
    BY <1>6, EnqICEffect
  <2>2. v \in stored
    BY <1>0, <1>6 DEF GInv, Got, v
  <2>3. /\ \A w \in Items : Completed(w) => Completed(w)'
        /\ v \in stored' /\ \A r \in Procs : qpc'[r] \in EnqPcs => arg'[r] # v
    BY <1>0, <1>1, <2>1, <2>2 DEF Completed, EnqPcs, v
  <2>4. ASSUME NEW q \in Seq(Items), NEW m \in Gifts, Fits(q, m)'
        PROVE  LP!Answer(Config(q, m)', p, OK, q) \in L!Explanations(lin, Pending)
    <3>1. FitsAny(q, m)'
      BY <2>4 DEF Fits, FitsAny
    <3>2. FitsAny(q, m)
      BY <1>0, <1>2, <1>3, <1>4, <2>3, <3>1, FewerFit
    <3>3. Explained(q, m)
      BY <3>2, Batch DEF GInv
    <3>4. AnswerIn(p, q, m) = OK
      <4>1. CASE removed[v] = 1
        BY <1>0, <2>2, <4>1 DEF AnswerIn, v
      <4>2. CASE removed[v] # 1
        <5>1. removed[v] = 0
          BY <1>1, <4>2 DEF IInv, TypeOK, Placed
        <5>2. PICK b \in Baskets, s \in Slots : A[b][s] = v /\ ~Spent(b, s)
          BY <1>1, <2>2, <5>1 DEF IInv, Placed
        <5>3. In(v, q) \/ Given(v, m)
          <6>1. A'[b][s] = v /\ ~Spent(b, s)'
            BY <1>0, <1>3, <5>2
          <6>2. Completed(A[b][s])'
            BY <1>0, <2>3, <5>2 DEF Completed
          <6>. QED
            BY <1>1, <3>1, <6>1, <6>2 DEF FitsAny, Complete, Completed, In, Given
        <5>. QED
          BY <1>0, <5>3 DEF AnswerIn, v
      <4>. QED
        BY <4>1, <4>2
    <3>5. \A r \in Procs \ {p} : AnswerIn(r, q, m)' = AnswerIn(r, q, m)
      BY <1>0 DEF AnswerIn, In, Given
    <3>6. LP!Answer(Config(q, m)', p, OK, q) = Config(q, m)
      <4>1. [(Config(q, m)').ans EXCEPT ![p] = OK] = Config(q, m).ans
        BY <3>4, <3>5 DEF Config
      <4>. QED
        BY <4>1 DEF LP!Answer, Config
    <3>. QED
      BY <3>3, <3>6 DEF Explained
  <2>. QED
    BY <1>0, <2>1, <2>4, Responded DEF GInv
<1>. QED
  BY <1>5, <1>6
-----------------------------------------------------------------------------
\* A call becomes pending: what explained the answers still does.
LEMMA CallLin ==
  ASSUME IInv, QInv, QInv', Few', LinInv, NEW p \in Procs, QueueCall(p), UNCHANGED basketVars
  PROVE  LinInv'
<1>1. /\ UNCHANGED <<A, PUTS, TAKES, State, pc, bk, x, slot, res, stored, removed, drained>>
      /\ UNCHANGED <<HEAD, TAIL, lossy, lin, head, tail, hhead>>
      /\ qpc[p] = "idle" /\ qpc'[p] \in {"enqLL", "deqHead"} /\ pc[p] = "idle"
      /\ \A r \in Procs \ {p} : qpc'[r] = qpc[r] /\ arg'[r] = arg[r]
  BY CallEffect
<1>2. CallsStay
  BY <1>1 DEF CallsStay
<1>. QED
  BY <1>1, <1>2, QuietLin

\* What fits after the last step of a dequeue has fitted before.
LEMMA DeqFits ==
  ASSUME IInv, QInv, NEW p \in Procs, DeqStep(p), BasketCall(p), qpc'[p] = "idle",
         NEW q \in Seq(Items), NEW m \in Gifts, Fits(q, m)'
  PROVE  /\ Fits(q, m) /\ m[p] = NONE
         /\ \A r \in Procs \ {p} : AnswerIn(r, q, m)' = AnswerIn(r, q, m)
<1>1. /\ UNCHANGED <<A, PUTS, TAKES, State, x, slot, res, stored, removed, arg>>
      /\ qpc[p] \in DeqPcs /\ pc[p] = "idle" /\ pc'[p] = "idle"
      /\ \A r \in Procs \ {p} : qpc'[r] = qpc[r] /\ pc'[r] = pc[r] /\ bk'[r] = bk[r]
  BY DeqEffect
<1>2. \A t \in Procs : bk[t] \in Baskets /\ (pc[t] = "takeSwap" => slot[t] \in Slots)
  BY DEF IInv, TypeOK, Owners
<1>3. \A b \in Baskets, s \in Slots : Spent(b, s)' <=> Spent(b, s)
  BY <1>1 DEF Spent, HoldsTake
<1>4. \A w \in Items, b \in Baskets, s \in Slots : May(w, b, s)' <=> May(w, b, s)
  BY <1>1, <1>3 DEF May, HoldsPut, PutPcs
<1>5. \A w \in Items : Completed(w)' <=> Completed(w)
  BY <1>1 DEF Completed, EnqPcs, DeqPcs
<1>6. \A b \in Baskets, s \in Slots : Waiting(b, s)' => Waiting(b, s)
  BY <1>1, <1>5 DEF Waiting
<1>7. FitsAny(q, m)'
  BY DEF Fits, FitsAny
<1>8. Fits(q, m)
  BY <1>1, <1>2, <1>3, <1>4, <1>5, <1>6, <1>7, FewerFit
<1>9. m[p] = NONE
  BY <1>1, <1>8 DEF Fits, Gives
<1>10. \A r \in Procs \ {p} : AnswerIn(r, q, m)' = AnswerIn(r, q, m)
  BY <1>1 DEF AnswerIn, In, Given
<1>. QED
  BY <1>8, <1>9, <1>10

\* dequeue: the answer of a take is the one that took effect; EMPTY is answered only
\* when HEAD has met TAIL, so that nothing fits but the empty queue, or the dequeue has
\* had no effect.
LEMMA DeqLin ==
  ASSUME IInv, QInv, QInv', GInv, Few', LinInv, NEW p \in Procs, DeqStep(p), BasketCall(p)
  PROVE  LinInv'
<1>. USE SentinelAssumption
<1>0. /\ QueueTypeOK /\ HEAD \in Nat /\ TAIL \in Nat /\ Looks /\ Got /\ Few
      /\ \A b \in Baskets : b \in Nat
  BY CapacityAssumption DEF QInv, QueueTypeOK, GInv
<1>1. /\ UNCHANGED <<A, PUTS, TAKES, State, x, slot, res, stored, removed, arg>>
      /\ qpc[p] \in DeqPcs /\ pc[p] = "idle" /\ qpc'[p] \in DeqPcs \cup {"idle"}
      /\ \A r \in Procs \ {p} : qpc'[r] = qpc[r] /\ pc'[r] = pc[r] /\ bk'[r] = bk[r]
      /\ IF qpc'[p] = "deqTake" THEN pc'[p] = "takeCount" ELSE pc'[p] = "idle"
  BY DeqEffect
<1>2. CASE lin' = lin /\ qpc'[p] # "idle" /\ (qpc[p] = "deqTake" => res[p] \notin Items)
  <2>1. CallsStay
    BY <1>1, <1>2 DEF CallsStay, DeqPcs, EnqPcs
  <2>2. /\ qpc[p] # "enqPut" /\ qpc'[p] # "enqPut" /\ pc'[p] \in {"idle", "takeCount"}
        /\ qpc'[p] = "deqTake" => pc'[p] # "idle"
    BY <1>1 DEF DeqPcs
  <2>3. \A r \in Procs \ {p} : x'[r] = x[r] /\ arg'[r] = arg[r]
    BY <1>1
  <2>. QED
    BY <1>1, <1>2, <2>1, <2>2, <2>3, QuietLin
<1>3. CASE DeqItem(p)
  <2>1. /\ qpc[p] = "deqTake" /\ pc[p] = "idle" /\ res[p] # BASKET_CLOSED
        /\ lin' = L!Respond(lin, Pending, p, res[p]) /\ qpc'[p] = "idle"
    BY <1>0, <1>3 DEF DeqItem, Answer, GoOn, QueueTypeOK
  <2>2. res[p] \in Items
    BY <1>0, <2>1 DEF Got
  <2>3. ASSUME NEW q \in Seq(Items), NEW m \in Gifts, Fits(q, m)'
        PROVE  LP!Answer(Config(q, m)', p, res[p], q) \in L!Explanations(lin, Pending)
    <3>1. Fits(q, m) /\ \A r \in Procs \ {p} : AnswerIn(r, q, m)' = AnswerIn(r, q, m)
      BY <2>1, <2>3, DeqFits
    <3>2. AnswerIn(p, q, m) = res[p]
      BY <2>1, <2>2 DEF AnswerIn
    <3>3. [(Config(q, m)').ans EXCEPT ![p] = res[p]] = Config(q, m).ans
      BY <3>1, <3>2 DEF Config
    <3>4. LP!Answer(Config(q, m)', p, res[p], q) = Config(q, m)
      BY <3>3 DEF LP!Answer, Config
    <3>. QED
      BY <3>1, <3>4 DEF LinInv, Explained
  <2>4. pc'[p] = "idle"
    BY <1>1, <2>1
  <2>. QED
    BY <1>0, <2>1, <2>3, <2>4, Responded
<1>4. CASE DeqTTail(p) /\ hhead[p] = head[p] /\ TAIL = tail[p]
  <2>1. /\ qpc[p] = "deqTTail" /\ qpc'[p] = "idle" /\ pc'[p] = "idle"
        /\ lin' = IF lossy THEN L!Withdraw(lin, p) ELSE L!Respond(lin, Pending, p, EMPTY)
    BY <1>0, <1>1, <1>4 DEF DeqTTail, AnswerEmpty, GoOn, QueueTypeOK
  <2>2. p \in DOMAIN Pending /\ Pending[p] = DEQUEUE
    BY <2>1 DEF Pending, EnqPcs
  <2>3. ASSUME NEW q \in Seq(Items), NEW m \in Gifts, Fits(q, m)'
        PROVE  /\ Fits(q, m) /\ Config(q, m) \in LP!Explanations(lin, Pending)
               /\ Config(q, m)' = Config(q, m) /\ Config(q, m).ans[p] = NONE
    <3>1. /\ Fits(q, m) /\ m[p] = NONE
          /\ \A r \in Procs \ {p} : AnswerIn(r, q, m)' = AnswerIn(r, q, m)
      BY <2>1, <2>3, DeqFits
    <3>2. AnswerIn(p, q, m) = NONE /\ AnswerIn(p, q, m)' = NONE
      BY <2>1, <3>1 DEF AnswerIn
    <3>3. Config(q, m)' = Config(q, m) /\ Config(q, m).ans[p] = NONE
      BY <3>1, <3>2 DEF Config
    <3>. QED
      BY <3>1, <3>3, SameExplanations DEF LinInv, Explained
  <2>4. CASE lossy
    <3>1. lin' = LP!Withdraw(lin, p)
      BY <2>1, <2>4, SameExplanations
    <3>2. /\ DOMAIN Pending' = DOMAIN Pending \ {p}
          /\ \A t \in DOMAIN Pending' : Pending'[t] = Pending[t]
      <4>1. DOMAIN Pending = {t \in Procs : qpc[t] # "idle"}
        BY DEF Pending
      <4>2. DOMAIN Pending' = {t \in Procs : qpc'[t] # "idle"}
        BY DEF Pending
      <4>3. \A t \in Procs \ {p} : qpc'[t] = qpc[t] /\ arg'[t] = arg[t]
        BY <1>1
      <4>. QED
        BY <2>1, <4>1, <4>2, <4>3 DEF Pending
    <3>3. ASSUME NEW q \in Seq(Items), NEW m \in Gifts, Fits(q, m)'
          PROVE  Explained(q, m)'
      <4>1. Config(q, m) \in LP!Explanations(LP!Withdraw(lin, p), Pending')
        <5>1. LP!Calls(Items, Pending) /\ lin \subseteq LP!Configurations(Items)
          BY <1>0, PendingCalls DEF LinInv
        <5>. QED
          BY <2>3, <3>2, <3>3, <5>1, LP!WithdrawKeeps
      <4>. QED
        BY <2>3, <3>1, <3>3, <4>1, SameExplanations DEF Explained
    <3>4. lin' \subseteq LP!Configurations(Items)
      BY <3>1, LP!WithdrawTyped DEF LinInv
    <3>. QED
      BY <3>3, <3>4 DEF LinInv, Gifts
  <2>5. CASE ~lossy
    <3>1. TAIL <= HEAD
      <4>1. TAIL <= head[p] /\ head[p] <= HEAD /\ head[p] \in Nat
        BY <1>0, <1>4, <2>1, <2>5, CapacityAssumption DEF Looks, QueueTypeOK
      <4>. QED
        BY <1>0, <4>1
    <3>2. \A b \in Baskets, s \in Slots : ~Waiting(b, s)
      <4>. SUFFICES ASSUME NEW b \in Baskets, NEW s \in Slots, Waiting(b, s) PROVE FALSE
        OBVIOUS
      <4>1. b < TAIL
        BY <2>5 DEF QInv, Covered, Waiting, Completed, EnqPcs
      <4>2. b < HEAD
        BY <1>0, <3>1, <4>1
      <4>3. TAKES[b] >= K /\ TAKES[b] \in Nat
        BY <4>2 DEF QInv, Passed, IInv, Closing, TypeOK
      <4>4. s \in Nat /\ s < K /\ s >= TAKES[b]
        BY KAssumption DEF Slots, Waiting
      <4>. QED
        BY <4>3, <4>4, KAssumption
    <3>3. ASSUME NEW q \in Seq(Items), NEW m \in Gifts, Fits(q, m)'
          PROVE  LP!Answer(Config(q, m)', p, EMPTY, q) \in L!Explanations(lin, Pending)
      <4>1. DOMAIN q = {}
        BY <2>3, <3>2, <3>3 DEF Fits, Needed
      <4>2. q = <<>>
        <5>1. ~(1 \in DOMAIN q) /\ DOMAIN q = 1 .. Len(q) /\ Len(q) \in Nat
          BY <4>1
        <5>. QED
          BY <5>1
      <4>3. LP!TakeEffect(Config(q, m), p, DEQUEUE) = LP!Answer(Config(q, m), p, EMPTY, q)
        BY <4>2 DEF LP!TakeEffect, Config
      <4>4. LP!TakeEffect(Config(q, m), p, DEQUEUE) \in LP!Explanations(lin, Pending)
        BY <1>0, <2>2, <2>3, <3>3, PendingCalls, LP!ExplanationsClosed DEF LinInv
      <4>. QED
        BY <2>3, <3>3, <4>3, <4>4, SameExplanations
    <3>. QED
      BY <1>0, <2>1, <2>5, <3>3, Responded
  <2>. QED
    BY <2>4, <2>5
<1>5. \/ lin' = lin /\ qpc'[p] # "idle" /\ (qpc[p] = "deqTake" => res[p] \notin Items)
      \/ DeqItem(p)
      \/ DeqTTail(p) /\ hhead[p] = head[p] /\ TAIL = tail[p]
  BY <1>0 DEF DeqStep, DeqHead, DeqTail, DeqIC, DeqHHead, DeqTTail, Loop, GoOn, QueueTypeOK,
     queueHistory
<1>. QED
  BY <1>2, <1>3, <1>4, <1>5
-----------------------------------------------------------------------------
\* Every step keeps the explanations.
LEMMA NextLinInv ==
  IInv /\ QInv /\ QInv' /\ GInv /\ GInv' /\ LinInv /\ [Next]_vars => LinInv'
<1>. SUFFICES ASSUME IInv, QInv, QInv', GInv, GInv', LinInv, [Next]_vars PROVE LinInv'
  OBVIOUS
<1>0. Few'
  BY DEF GInv
<1>1. CASE UNCHANGED vars
  <2>1. /\ UNCHANGED <<A, PUTS, TAKES, State, pc, bk, x, slot, res, stored, removed>>
        /\ UNCHANGED <<qpc, arg, lin>>
    BY <1>1 DEF vars, basketVars, queueVars, shared, local, history
  <2>2. \A t \in Procs : bk[t] \in Baskets /\ (pc[t] = "takeSwap" => slot[t] \in Slots)
    BY DEF IInv, TypeOK, Owners
  <2>3. \A b \in Baskets, s \in Slots : Spent(b, s)' <=> Spent(b, s)
    BY <2>1 DEF Spent, HoldsTake
  <2>4. \A w \in Items, b \in Baskets, s \in Slots : May(w, b, s)' <=> May(w, b, s)
    BY <2>1, <2>3 DEF May, HoldsPut
  <2>5. \A w \in Items : Completed(w)' <=> Completed(w)
    BY <2>1 DEF Completed
  <2>6. \A b \in Baskets, s \in Slots : Waiting(b, s)' => Waiting(b, s)
    BY <2>1, <2>5 DEF Waiting
  <2>7. ASSUME NEW q \in Seq(Items), NEW m \in Gifts, Fits(q, m)'
        PROVE  Explained(q, m) /\ Config(q, m)' = Config(q, m)
    <3>1. FitsAny(q, m)'
      BY <2>7 DEF Fits, FitsAny
    <3>2. Fits(q, m)
      BY <2>1, <2>2, <2>3, <2>4, <2>5, <2>6, <2>7, <3>1, FewerFit
    <3>3. \A r \in Procs : AnswerIn(r, q, m)' = AnswerIn(r, q, m)
      BY <2>1 DEF AnswerIn, In, Given
    <3>. QED
      BY <3>2, <3>3 DEF Config, LinInv
  <2>8. CallsStay
    BY <2>1 DEF CallsStay
  <2>. QED
    BY <1>0, <2>1, <2>7, <2>8, StayExplained
<1>2. ASSUME NEW p \in Procs, QueueCall(p), UNCHANGED basketVars PROVE LinInv'
  BY <1>0, <1>2, CallLin
<1>3. ASSUME NEW p \in Procs, PutStep(p), UNCHANGED queueVars PROVE LinInv'
  BY <1>0, <1>3, PutLin
<1>4. ASSUME NEW p \in Procs, TakeStep(p), UNCHANGED queueVars PROVE LinInv'
  <2>1. CASE TakeFAI(p)
    <3>1. TAKES[bk[p]] \in Nat /\ K \in Nat
      BY KAssumption DEF IInv, TypeOK
    <3>2. TAKES[bk[p]] < K \/ TAKES[bk[p]] >= K
      BY <3>1
    <3>. QED
      BY <1>0, <1>4, <2>1, <3>2, TakeFAILin, TakeQuietLin
  <2>2. CASE TakeItem(p)
    BY <1>0, <1>4, <2>2, TakeItemLin
  <2>3. CASE TakeCount(p) \/ TakeState(p) \/ TakeClose(p) \/ TakeTooEarly(p)
    BY <1>0, <1>4, <2>3, TakeQuietLin
  <2>. QED
    BY <1>4, <2>1, <2>2, <2>3 DEF TakeStep
<1>5. ASSUME NEW p \in Procs, EnqLL(p), BasketCall(p) PROVE LinInv'
  BY <1>0, <1>5, EnqLLLin
<1>6. ASSUME NEW p \in Procs, EnqIC(p), BasketCall(p) PROVE LinInv'
  BY <1>0, <1>6, EnqICLin
<1>7. ASSUME NEW p \in Procs, DeqStep(p), BasketCall(p) PROVE LinInv'
  BY <1>0, <1>7, DeqLin
<1>. QED
  BY <1>1, <1>2, <1>3, <1>4, <1>5, <1>6, <1>7 DEF Next, Step, QueueStep, EnqStep
-----------------------------------------------------------------------------
\* q are the items that no take has got in the slots before slot s of basket b, in the
\* order of these.
Listed(q, home, seat, b, s) ==
  /\ \A i \in DOMAIN q : /\ A[home[i]][seat[i]] = q[i] /\ seat[i] >= TAKES[home[i]]
                         /\ Before(home[i], seat[i], b, s)
  /\ \A i, j \in DOMAIN q : i < j => Before(home[i], seat[i], home[j], seat[j])
  /\ \A c \in Baskets, t \in Slots :
       Before(c, t, b, s) /\ A[c][t] \in Items /\ t >= TAKES[c] => In(A[c][t], q)

Listing(b, s) ==
  \E q \in Seq(Items) : \E home \in [DOMAIN q -> Baskets], seat \in [DOMAIN q -> Slots] :
    Listed(q, home, seat, b, s)

\* One slot more is listed.
LEMMA OneSlotMore ==
  ASSUME NEW b \in Baskets, NEW s \in Slots, Listing(b, s)
  PROVE  Listing(b, s + 1)
<1>0. /\ b \in Nat /\ s \in Nat /\ \A c \in Baskets : c \in Nat
      /\ \A t \in Slots : t \in Nat
  BY CapacityAssumption, KAssumption DEF Slots
<1>1. PICK q \in Seq(Items) :
        \E home \in [DOMAIN q -> Baskets], seat \in [DOMAIN q -> Slots] :
          Listed(q, home, seat, b, s)
  BY DEF Listing
<1>2. PICK home \in [DOMAIN q -> Baskets], seat \in [DOMAIN q -> Slots] :
        Listed(q, home, seat, b, s)
  BY <1>1
<1>3. \A c \in Baskets, t \in Slots :
        /\ Before(c, t, b, s + 1) <=> Before(c, t, b, s) \/ (c = b /\ t = s)
        /\ Before(c, t, b, s) => Before(c, t, b, s + 1)
  <2>. SUFFICES ASSUME NEW c \in Baskets, NEW t \in Slots
                PROVE  /\ Before(c, t, b, s + 1) <=> Before(c, t, b, s) \/ (c = b /\ t = s)
                       /\ Before(c, t, b, s) => Before(c, t, b, s + 1)
    OBVIOUS
  <2>1. c \in Nat /\ t \in Nat
    BY <1>0
  <2>2. t < s + 1 <=> t < s \/ t = s
    BY <1>0, <2>1
  <2>. QED
    BY <2>2 DEF Before
<1>4. \A i \in DOMAIN q : home[i] \in Baskets /\ seat[i] \in Slots
  BY <1>2
<1>5. CASE ~(A[b][s] \in Items /\ s >= TAKES[b])
  <2>1. Listed(q, home, seat, b, s + 1)
    BY <1>2, <1>3, <1>4, <1>5 DEF Listed
  <2>. QED
    BY <2>1 DEF Listing
<1>6. CASE A[b][s] \in Items /\ s >= TAKES[b]
  <2>. DEFINE v == A[b][s]
              n == Len(q)
              r == Append(q, v)
              h == [i \in 1 .. n + 1 |-> IF i = n + 1 THEN b ELSE home[i]]
              z == [i \in 1 .. n + 1 |-> IF i = n + 1 THEN s ELSE seat[i]]
  <2>. HIDE DEF v
  <2>0. v \in Items
    BY <1>6 DEF v
  <2>1. /\ n \in Nat /\ DOMAIN q = 1 .. n
        /\ r \in Seq(Items) /\ DOMAIN r = 1 .. n + 1
        /\ r[n + 1] = v /\ \A i \in 1 .. n : r[i] = q[i]
    BY <2>0
  <2>. HIDE DEF r, n
  <2>2. \A i \in 1 .. n + 1 : i # n + 1 => i \in 1 .. n
    BY <2>1
  <2>3. /\ h \in [DOMAIN r -> Baskets] /\ z \in [DOMAIN r -> Slots]
        /\ h[n + 1] = b /\ z[n + 1] = s
        /\ \A i \in 1 .. n : h[i] = home[i] /\ z[i] = seat[i]
    <3>1. n + 1 \in 1 .. n + 1 /\ \A i \in 1 .. n : i \in 1 .. n + 1 /\ i # n + 1
      BY <2>1
    <3>. QED
      BY <1>4, <2>1, <2>2, <3>1
  <2>. HIDE DEF h, z
  <2>4. ASSUME NEW i \in DOMAIN r
        PROVE  A[h[i]][z[i]] = r[i] /\ z[i] >= TAKES[h[i]] /\ Before(h[i], z[i], b, s + 1)
    <3>1. CASE i = n + 1
      BY <1>3, <1>6, <2>1, <2>3, <3>1 DEF v
    <3>2. CASE i # n + 1
      <4>1. i \in DOMAIN q /\ r[i] = q[i] /\ h[i] = home[i] /\ z[i] = seat[i]
        BY <2>1, <2>2, <2>3, <3>2
      <4>. QED
        BY <1>2, <1>3, <1>4, <4>1 DEF Listed
    <3>. QED
      BY <3>1, <3>2
  <2>5. ASSUME NEW i \in DOMAIN r, NEW j \in DOMAIN r, i < j
        PROVE  Before(h[i], z[i], h[j], z[j])
    <3>1. i \in 1 .. n
      BY <2>1, <2>5
    <3>2. CASE j = n + 1
      BY <1>2, <2>1, <2>3, <3>1, <3>2 DEF Listed
    <3>3. CASE j # n + 1
      <4>1. j \in 1 .. n
        BY <2>1, <2>2, <3>3
      <4>. QED
        BY <1>2, <2>1, <2>3, <2>5, <3>1, <4>1 DEF Listed
    <3>. QED
      BY <3>2, <3>3
  <2>6. \A w : In(w, q) \/ w = v => In(w, r)
    <3>1. \A i \in DOMAIN q : i \in DOMAIN r /\ r[i] = q[i]
      BY <2>1
    <3>2. n + 1 \in DOMAIN r
      BY <2>1
    <3>. QED
      BY <2>1, <3>1, <3>2 DEF In
  <2>7. ASSUME NEW c \in Baskets, NEW t \in Slots, Before(c, t, b, s + 1), A[c][t] \in Items,
               t >= TAKES[c]
        PROVE  In(A[c][t], r)
    BY <1>2, <1>3, <2>6, <2>7 DEF Listed, v
  <2>8. Listed(r, h, z, b, s + 1)
    BY <2>4, <2>5, <2>7 DEF Listed
  <2>. QED
    BY <2>1, <2>3, <2>8 DEF Listing
<1>. QED
  BY <1>5, <1>6

\* In every state something fits: the items that no take has got, slot by slot, and for a
\* take that has got one what the slot holds.
LEMMA SomethingFits ==
  ASSUME IInv
  PROVE  \E q \in Seq(Items) : \E m \in Gifts : FitsAny(q, m)
<1>0. /\ TypeOK /\ Owners /\ Placed /\ K \in Nat
      /\ Capacity \in Nat /\ Baskets = 0 .. Capacity - 1 /\ Slots = 0 .. K - 1
      /\ \A c \in Baskets : c \in Nat /\ TAKES[c] \in Nat
      /\ \A t \in Slots : t \in Nat
  BY CapacityAssumption, KAssumption DEF IInv, TypeOK, Slots
<1>a. ASSUME NEW b \in Baskets, NEW c \in Baskets, NEW s \in Slots, NEW t \in Slots,
             A[b][s] = A[c][t], A[b][s] \in Items, ~Spent(b, s), ~Spent(c, t)
      PROVE  b = c /\ s = t
  BY <1>0, <1>a, SentinelAssumption DEF Placed
<1>1. Listing(0, 0)
  <2>1. ~\E c \in Baskets, t \in Slots : Before(c, t, 0, 0)
    BY <1>0 DEF Before
  <2>2. <<>> \in Seq(Items) /\ DOMAIN <<>> = {}
    OBVIOUS
  <2>3. <<>> \in [DOMAIN <<>> -> Baskets] /\ <<>> \in [DOMAIN <<>> -> Slots]
    BY <2>2
  <2>4. Listed(<<>>, <<>>, <<>>, 0, 0)
    BY <2>1, <2>2 DEF Listed
  <2>. QED
    BY <2>2, <2>3, <2>4 DEF Listing
<1>2. ASSUME NEW b \in Baskets, Listing(b, 0) PROVE Listing(b + 1, 0)
  <2>. DEFINE S == {s \in Nat : s <= K => Listing(b, s)}
  <2>1. 0 \in S
    BY <1>2
  <2>2. ASSUME NEW s \in Nat, s \in S PROVE s + 1 \in S
    <3>. SUFFICES ASSUME s + 1 <= K PROVE Listing(b, s + 1)
      OBVIOUS
    <3>1. s \in Slots /\ Listing(b, s)
      BY <1>0, <2>2
    <3>. QED
      BY <3>1, OneSlotMore
  <2>3. Nat \subseteq S
    <3>. HIDE DEF S
    <3>. QED
      BY <2>1, <2>2, LP!NatSetInduction
  <2>4. Listing(b, K)
    BY <1>0, <2>3
  <2>5. \A c \in Baskets, t \in Slots : Before(c, t, b, K) <=> Before(c, t, b + 1, 0)
    <3>. SUFFICES ASSUME NEW c \in Baskets, NEW t \in Slots
                  PROVE  Before(c, t, b, K) <=> Before(c, t, b + 1, 0)
      OBVIOUS
    <3>1. c \in Nat /\ b \in Nat /\ t \in Nat /\ t < K
      BY <1>0
    <3>. QED
      BY <3>1 DEF Before
  <2>6. PICK q \in Seq(Items) :
          \E home \in [DOMAIN q -> Baskets], seat \in [DOMAIN q -> Slots] :
            Listed(q, home, seat, b, K)
    BY <2>4 DEF Listing
  <2>7. PICK home \in [DOMAIN q -> Baskets], seat \in [DOMAIN q -> Slots] :
          Listed(q, home, seat, b, K)
    BY <2>6
  <2>8. Listed(q, home, seat, b + 1, 0)
    <3>1. \A i \in DOMAIN q : home[i] \in Baskets /\ seat[i] \in Slots
      BY <2>7
    <3>. QED
      BY <2>5, <2>7, <3>1 DEF Listed
  <2>. QED
    BY <2>8 DEF Listing
<1>3. Listing(Capacity, 0)
  <2>. DEFINE S == {b \in Nat : b <= Capacity => Listing(b, 0)}
  <2>1. 0 \in S
    BY <1>1
  <2>2. ASSUME NEW b \in Nat, b \in S PROVE b + 1 \in S
    <3>. SUFFICES ASSUME b + 1 <= Capacity PROVE Listing(b + 1, 0)
      OBVIOUS
    <3>1. b \in Baskets /\ Listing(b, 0)
      BY <1>0, <2>2
    <3>. QED
      BY <1>2, <3>1
  <2>3. Nat \subseteq S
    <3>. HIDE DEF S
    <3>. QED
      BY <2>1, <2>2, LP!NatSetInduction
  <2>. QED
    BY <1>0, <2>3
<1>4. PICK q \in Seq(Items) :
        \E home \in [DOMAIN q -> Baskets], seat \in [DOMAIN q -> Slots] :
          Listed(q, home, seat, Capacity, 0)
  BY <1>3 DEF Listing
<1>5. PICK home \in [DOMAIN q -> Baskets], seat \in [DOMAIN q -> Slots] :
        Listed(q, home, seat, Capacity, 0)
  BY <1>4
<1>. DEFINE m == [t \in Procs |-> IF pc[t] = "takeSwap" /\ A[bk[t]][slot[t]] \in Items
                                   THEN A[bk[t]][slot[t]] ELSE NONE]
<1>6. m \in Gifts
  BY DEF Gifts
<1>7. \A t \in Procs : m[t] # NONE =>
        /\ HoldsTake(t, bk[t], slot[t]) /\ bk[t] \in Baskets /\ slot[t] \in Slots
        /\ slot[t] < TAKES[bk[t]] /\ A[bk[t]][slot[t]] = m[t] /\ m[t] \in Items
        /\ ~Spent(bk[t], slot[t])
  BY <1>0 DEF HoldsTake, Spent, TypeOK, Owners
<1>8. \A t \in Procs, b \in Baskets, s \in Slots :
        HoldsTake(t, b, s) /\ A[b][s] \in Items => m[t] = A[b][s]
  BY DEF HoldsTake
<1>. HIDE DEF m
<1>9. Gives(m)
  <2>1. ASSUME NEW t \in Procs, NEW u \in Procs, m[t] = m[u], m[t] # NONE PROVE t = u
    <3>0. /\ bk[t] \in Baskets /\ bk[u] \in Baskets /\ slot[t] \in Slots /\ slot[u] \in Slots
          /\ A[bk[t]][slot[t]] = A[bk[u]][slot[u]] /\ A[bk[t]][slot[t]] \in Items
          /\ ~Spent(bk[t], slot[t]) /\ ~Spent(bk[u], slot[u])
      BY <1>7, <2>1
    <3>1. bk[t] = bk[u] /\ slot[t] = slot[u]
      BY <1>a, <3>0
    <3>. QED
      BY <1>0, <1>7, <2>1, <3>1 DEF Owners, HoldsTake
  <2>. QED
    BY <1>7, <2>1 DEF Gives, May, HoldsTake
<1>10. \A i \in DOMAIN q : /\ home[i] \in Baskets /\ seat[i] \in Slots /\ q[i] \in Items
                           /\ A[home[i]][seat[i]] = q[i] /\ seat[i] >= TAKES[home[i]]
                           /\ ~(seat[i] < TAKES[home[i]]) /\ ~Spent(home[i], seat[i])
  <2>. SUFFICES ASSUME NEW i \in DOMAIN q
                PROVE  /\ home[i] \in Baskets /\ seat[i] \in Slots /\ q[i] \in Items
                       /\ A[home[i]][seat[i]] = q[i] /\ seat[i] >= TAKES[home[i]]
                       /\ ~(seat[i] < TAKES[home[i]]) /\ ~Spent(home[i], seat[i])
    OBVIOUS
  <2>1. /\ home[i] \in Baskets /\ seat[i] \in Slots /\ q[i] \in Items
        /\ A[home[i]][seat[i]] = q[i] /\ seat[i] >= TAKES[home[i]]
    BY <1>5 DEF Listed
  <2>2. ~(seat[i] < TAKES[home[i]])
    BY <1>0, <2>1
  <2>. QED
    BY <2>1, <2>2 DEF Spent
<1>11. Lists(q, m, home, seat)
  <2>1. ASSUME NEW i \in DOMAIN q, NEW j \in DOMAIN q, q[i] = q[j] PROVE i = j
    <3>1. home[i] = home[j] /\ seat[i] = seat[j]
      BY <1>0, <1>10, <2>1, SentinelAssumption DEF Placed
    <3>2. home[i] \in Nat /\ seat[i] \in Nat
      BY <1>0, <1>10
    <3>3. ~Before(home[i], seat[i], home[j], seat[j]) /\ ~Before(home[j], seat[j], home[i], seat[i])
      BY <3>1, <3>2 DEF Before
    <3>4. ~(i < j) /\ ~(j < i)
      BY <1>5, <3>3 DEF Listed
    <3>5. i \in Nat /\ j \in Nat
      OBVIOUS
    <3>. QED
      BY <3>4, <3>5
  <2>2. ASSUME NEW i \in DOMAIN q PROVE ~Given(q[i], m)
    <3>. SUFFICES ASSUME NEW t \in Procs, m[t] = q[i] PROVE FALSE
      BY DEF Given
    <3>1. m[t] # NONE
      BY <1>10, AnswersAssumption
    <3>0. /\ bk[t] \in Baskets /\ home[i] \in Baskets /\ slot[t] \in Slots /\ seat[i] \in Slots
          /\ A[bk[t]][slot[t]] = A[home[i]][seat[i]] /\ A[bk[t]][slot[t]] \in Items
          /\ ~Spent(bk[t], slot[t]) /\ ~Spent(home[i], seat[i])
      BY <1>7, <1>10, <3>1
    <3>2. bk[t] = home[i] /\ slot[t] = seat[i]
      BY <1>a, <3>0
    <3>. QED
      BY <1>7, <1>10, <3>1, <3>2
  <2>3. \A i, j \in DOMAIN q : i < j => Before(home[i], seat[i], home[j], seat[j])
    BY <1>5 DEF Listed
  <2>. QED
    BY <1>10, <2>1, <2>2, <2>3 DEF Lists, May
<1>12. Complete(q, m)
  <2>. SUFFICES ASSUME NEW b \in Baskets, NEW s \in Slots, A[b][s] \in Items, ~Spent(b, s)
                PROVE  In(A[b][s], q) \/ Given(A[b][s], m)
    BY DEF Complete
  <2>0. b \in Nat /\ s \in Nat /\ TAKES[b] \in Nat /\ b < Capacity
    BY <1>0
  <2>1. CASE s >= TAKES[b]
    <3>1. Before(b, s, Capacity, 0)
      BY <2>0 DEF Before
    <3>. QED
      BY <1>5, <2>1, <3>1 DEF Listed
  <2>2. CASE s < TAKES[b]
    BY <1>8, <2>2, Holder DEF Given
  <2>. QED
    BY <2>0, <2>1, <2>2
<1>. QED
  BY <1>5, <1>6, <1>9, <1>11, <1>12 DEF FitsAny

\* The items come out in the order of their slots, each once, and EMPTY is answered over an
\* exact LL/IC object only when the queue is empty: what the baskets hold, in that order,
\* explains every answer, also over grouped objects (basket_queue.hpp 44-79 and 111-145,
\* kbasket.cpp 37-77).
THEOREM QueueIsLinearizable == Spec => []Linearizable
<1>1. Init => IInv /\ QInv /\ GInv /\ LinInv
  BY InitIInv, InitQInv, InitLinInv DEF Init
<1>2. IInv /\ QInv /\ GInv /\ LinInv /\ [Next]_vars => (IInv /\ QInv /\ GInv /\ LinInv)'
  BY StepIsBasketStep, NextIInv, NextQInv, NextGInv, NextLinInv
<1>3. IInv /\ QInv /\ GInv /\ LinInv => Linearizable
  <2>. SUFFICES ASSUME IInv, QInv, GInv, LinInv PROVE lin # {}
    BY DEF Linearizable
  <2>1. PICK q \in Seq(Items) : \E m \in Gifts : FitsAny(q, m)
    BY SomethingFits
  <2>2. PICK m \in Gifts : FitsAny(q, m)
    BY <2>1
  <2>3. Config(q, m) \in LP!Explanations(lin, Pending)
    BY <2>2, Batch, SameExplanations DEF GInv, Explained
  <2>. QED
    BY <2>3, PendingCalls, LP!ExplanationsOfNone DEF GInv
<1>. QED
  BY <1>1, <1>2, <1>3, PTL DEF Spec
===============================================================================
