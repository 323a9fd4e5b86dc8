---------------------------- MODULE BasketQueue ----------------------------
(***************************************************************************)
(* The part that the queues of basket/include/basket_queue.hpp have in     *)
(* common: enqueue and dequeue over an array of baskets, with two LL/IC    *)
(* objects HEAD and TAIL.  FAIQueue and CASQueue add the baskets.          *)
(*                                                                         *)
(* LL and IC are one step each: what an implementation of the LL/IC object *)
(* does in several steps is module LLIC in one (the implementations that   *)
(* these queues are used with are modules LLICRW and LLICCAS).  CASGQueue  *)
(* and FAIGQueue are the same code over the objects of module LLICGroup,   *)
(* which can lose an IC (lossy = TRUE); the register indices that they     *)
(* carry from LL to IC are part of that module.                            *)
(*                                                                         *)
(* A step that ends at "enqPut" or "deqTake" has called put or take; the   *)
(* queue goes on when the basket's thread is idle again, with its result   *)
(* in res.                                                                 *)
(*                                                                         *)
(* An index behind the last basket is outside of the array: what the call  *)
(* does then is undefined, and the thread's behaviour ends at "overrun".   *)
(***************************************************************************)
EXTENDS Integers, FiniteSets

CONSTANTS
  Procs, Items, OK, BASKET_CLOSED,   \* of the baskets
  EMPTY,     \* the answer of dequeue
  Capacity,  \* capacity, the number of baskets
  Enqueuers, Dequeuers,   \* the threads that call enqueue, that call dequeue
  MaxGroupedItems,  \* bound of the model: enqueues of a queue over grouped objects
  NONE, DEQUEUE

VARIABLES
  pc, res,   \* of the baskets: put and take are over at "idle", with res
  HEAD, TAIL,
  qpc,       \* where each thread is in enqueue or dequeue
  arg,       \* the argument x of enqueue
  head, tail,      \* the locals of that name
  hhead,           \* the local hhead of dequeue
  lossy,           \* the class of HEAD and TAIL, chosen with the queue: TRUE for a
                   \* grouped LL/IC object (CASGQueue, FAIGQueue)
  used,            \* history: the items enqueue was called with
  lin              \* history: the configurations of module Linearization

queueShared == <<HEAD, TAIL, lossy>>
queueHistory == <<used, lin>>

L == INSTANCE Linearization

EnqPcs == {"enqLL", "enqPut", "overrun"}
DeqPcs == {"deqHead", "deqTail", "deqTake", "deqHHead", "deqTTail"}

QueueInit ==
  /\ HEAD = 0
  /\ TAIL = 0
  /\ lossy \in BOOLEAN
  /\ qpc = [p \in Procs |-> "idle"]
  /\ arg = [p \in Procs |-> NONE]
  /\ head = [p \in Procs |-> 0]
  /\ tail = [p \in Procs |-> 0]
  /\ hhead = [p \in Procs |-> 0]
  /\ used = {}
  /\ lin = L!Start

\* Mutant of IC: the value is not compared.
ICUnchecked(link, index) == link + 1

\* IC(index) of an LL/IC object that holds link.
IC(link, index) == IF link = index THEN link + 1 ELSE link

\* What IC may leave: a grouped object can lose an IC (module LLICGroup).
ICValues(link, index) == {IC(link, index)} \cup (IF lossy THEN {link} ELSE {})

GoOn(p, label) == qpc' = [qpc EXCEPT ![p] = label]

\* The pending calls, in the form of module Linearization.
Pending ==
  [p \in {t \in Procs : qpc[t] # "idle"} |-> IF qpc[p] \in EnqPcs THEN arg[p] ELSE DEQUEUE]

Answer(p, r) ==
  /\ GoOn(p, "idle")
  /\ lin' = L!Respond(lin, Pending, p, r)

\* EMPTY, which over a grouped object means no more than that the dequeue has
\* taken nothing.
AnswerEmpty(p) ==
  /\ GoOn(p, "idle")
  /\ lin' = IF lossy THEN L!Withdraw(lin, p) ELSE L!Respond(lin, Pending, p, EMPTY)
-----------------------------------------------------------------------------
\* enqueue(x, process): the call.  Two calls with equal values are two items.
Enqueue(p, v) ==
  /\ qpc[p] = "idle"
  /\ v \notin used
  /\ lossy => Cardinality(used) < MaxGroupedItems
  /\ used' = used \cup {v}
  /\ arg' = [arg EXCEPT ![p] = v]
  /\ GoOn(p, "enqLL")
  /\ UNCHANGED <<queueShared, head, tail, hhead, lin>>

\* tail = TAIL.LL(), and the call of A[tail].put(x)
EnqLL(p) ==
  /\ qpc[p] = "enqLL"
  /\ tail' = [tail EXCEPT ![p] = TAIL]
  /\ GoOn(p, IF TAIL < Capacity THEN "enqPut" ELSE "overrun")
  /\ UNCHANGED <<queueShared, arg, head, hhead, queueHistory>>

\* Mutants of EnqIC: no IC after a successful put, and a return only when the IC has
\* moved TAIL.
EnqICAfterFull(p) ==
  /\ qpc[p] = "enqPut" /\ pc[p] = "idle"
  /\ IF res[p] = OK
       THEN Answer(p, OK) /\ UNCHANGED TAIL
       ELSE GoOn(p, "enqLL") /\ UNCHANGED lin /\ TAIL' \in ICValues(TAIL, tail[p])
  /\ UNCHANGED <<HEAD, lossy, arg, head, tail, hhead, used>>
EnqICOrAgain(p) ==
  /\ qpc[p] = "enqPut" /\ pc[p] = "idle"
  /\ TAIL' \in ICValues(TAIL, tail[p])
  /\ IF res[p] = OK /\ TAIL = tail[p]
       THEN Answer(p, OK)
       ELSE GoOn(p, "enqLL") /\ UNCHANGED lin
  /\ UNCHANGED <<HEAD, lossy, arg, head, tail, hhead, used>>

\* put is over: TAIL.IC(tail, process), then return or the next round.
EnqIC(p) ==
  /\ qpc[p] = "enqPut" /\ pc[p] = "idle"
  /\ TAIL' \in ICValues(TAIL, tail[p])
  /\ IF res[p] = OK
       THEN Answer(p, OK)
       ELSE GoOn(p, "enqLL") /\ UNCHANGED lin
  /\ UNCHANGED <<HEAD, lossy, arg, head, tail, hhead, used>>
-----------------------------------------------------------------------------
\* dequeue(process): the call.
Dequeue(p) ==
  /\ qpc[p] = "idle"
  /\ GoOn(p, "deqHead")
  /\ UNCHANGED <<queueShared, arg, head, tail, hhead, queueHistory>>

\* The top of dequeue's loop: a take if head < tail, the second look if not.
Loop(p, h, t) ==
  /\ head' = [head EXCEPT ![p] = h]
  /\ tail' = [tail EXCEPT ![p] = t]
  /\ GoOn(p, IF h < t THEN "deqTake" ELSE "deqHHead")

\* head = HEAD.LL()
DeqHead(p) ==
  /\ qpc[p] = "deqHead"
  /\ head' = [head EXCEPT ![p] = HEAD]
  /\ GoOn(p, "deqTail")
  /\ UNCHANGED <<queueShared, arg, tail, hhead, queueHistory>>

\* tail = TAIL.LL()
DeqTail(p) ==
  /\ qpc[p] = "deqTail"
  /\ Loop(p, head[p], TAIL)
  /\ UNCHANGED <<queueShared, arg, hhead, queueHistory>>

\* take has returned an item.
DeqItem(p) ==
  /\ qpc[p] = "deqTake" /\ pc[p] = "idle"
  /\ res[p] # BASKET_CLOSED
  /\ Answer(p, res[p])
  /\ UNCHANGED <<queueShared, arg, head, tail, hhead, used>>

\* take has returned BASKET_CLOSED: HEAD.IC(head, process)
DeqIC(p) ==
  /\ qpc[p] = "deqTake" /\ pc[p] = "idle"
  /\ res[p] = BASKET_CLOSED
  /\ HEAD' \in ICValues(HEAD, head[p])
  /\ GoOn(p, "deqHHead")
  /\ UNCHANGED <<TAIL, lossy, arg, head, tail, hhead, queueHistory>>

\* hhead = HEAD.LL()
DeqHHead(p) ==
  /\ qpc[p] = "deqHHead"
  /\ hhead' = [hhead EXCEPT ![p] = HEAD]
  /\ GoOn(p, "deqTTail")
  /\ UNCHANGED <<queueShared, arg, head, tail, queueHistory>>

\* Mutant of DeqTTail: HEAD is not compared.
DeqTTailOnly(p) ==
  /\ qpc[p] = "deqTTail"
  /\ IF TAIL = tail[p]
       THEN AnswerEmpty(p) /\ UNCHANGED <<head, tail>>
       ELSE Loop(p, hhead[p], TAIL) /\ UNCHANGED lin
  /\ UNCHANGED <<queueShared, arg, hhead, used>>

\* ttail = TAIL.LL(): EMPTY if nothing has moved, the next round if it has.
DeqTTail(p) ==
  /\ qpc[p] = "deqTTail"
  /\ IF hhead[p] = head[p] /\ TAIL = tail[p]
       THEN AnswerEmpty(p) /\ UNCHANGED <<head, tail>>
       ELSE Loop(p, hhead[p], TAIL) /\ UNCHANGED lin
  /\ UNCHANGED <<queueShared, arg, hhead, used>>

EnqStep(p) == EnqLL(p) \/ EnqIC(p)
DeqStep(p) ==
  DeqHead(p) \/ DeqTail(p) \/ DeqItem(p) \/ DeqIC(p) \/ DeqHHead(p) \/ DeqTTail(p)
QueueCall(p) ==
  \/ p \in Enqueuers /\ \E v \in Items : Enqueue(p, v)
  \/ p \in Dequeuers /\ Dequeue(p)
QueueStep(p) == EnqStep(p) \/ DeqStep(p)
-----------------------------------------------------------------------------
\* Type invariant of the queue's own state.
QueueTypeOK ==
  /\ lossy \in BOOLEAN
  /\ HEAD \in 0 .. Capacity
  /\ TAIL \in 0 .. Capacity
  /\ qpc \in [Procs -> EnqPcs \cup DeqPcs \cup {"idle"}]
  /\ arg \in [Procs -> Items \cup {NONE}]
  /\ head \in [Procs -> 0 .. Capacity]
  /\ tail \in [Procs -> 0 .. Capacity]
  /\ hhead \in [Procs -> 0 .. Capacity]
  /\ used \subseteq Items

\* Every answer given so far is one that a sequential FIFO queue gives when the
\* calls take effect one by one between invocation and response: items leave in
\* the order in which they came, each once, and EMPTY is answered only when the
\* queue was empty, although a put may be delayed into a basket that HEAD has
\* passed and a dequeue reads HEAD and TAIL at different moments.  Over grouped
\* objects EMPTY says nothing (TAIL may not have left the basket of an item).
Linearizable == lin # {}

\* Every index that is used is one of the array's.
InBounds == \A p \in Procs : qpc[p] # "overrun"
=============================================================================
