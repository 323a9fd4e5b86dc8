---------------------------- MODULE SegmentQueue ----------------------------
(***************************************************************************)
(* Queue of queueTest/include/LLICQueue.hpp: a list of segments, each with *)
(* NODE_SIZE baskets and with LL/IC objects HEAD and TAIL of its own.      *)
(*                                                                         *)
(* Basket i of segment s is basket s * NODE_SIZE + i of module KBasketFAI. *)
(* Segments are numbered in the order in which they are linked.  LL and IC *)
(* are one step each (module LLICCAS).  A retired segment is deleted when  *)
(* its thread has retired 512 of them (MemoryManagementPool.hpp:39), which *)
(* no behaviour with the bounded number of segments does; so the reads     *)
(* that publish a hazard pointer are the loads of Head and of Tail.        *)
(***************************************************************************)
EXTENDS KBasketFAI

CONSTANTS
  NODE_SIZE,
  Segments,     \* bound of the model: how many segments there can be
  EMPTY, Enqueuers, Dequeuers, NONE, DEQUEUE,
  NULL          \* the null pointer

Segment == 0 .. Segments - 1

ASSUME SegmentAssumption ==
  /\ NODE_SIZE \in Nat \ {0} /\ Segments \in Nat \ {0}
  /\ Baskets = 0 .. Segments * NODE_SIZE - 1
  /\ NULL \notin Segment

VARIABLES
  HEAD, TAIL,    \* of every segment
  next,          \* of every segment
  HeadPtr, TailPtr,    \* the queue's pointers
  qpc,           \* where each thread is in enqueue or dequeue
  arg,           \* the argument val of enqueue
  seg,           \* the local lastTail, lastHead
  nxt,           \* the local lastNext, newSegment, next
  head, tail,    \* the locals headTicket and tailTicket; basketTicket is tail
  hhead,         \* the local head of dequeue's inner loop
  used,          \* history: the items enqueue was called with
  lin            \* history: the configurations of module Linearization

segments == <<HEAD, TAIL, next, HeadPtr, TailPtr>>
locals == <<arg, seg, nxt, head, tail, hhead>>
segmentVars == <<segments, qpc, locals, used, lin>>
vars == <<basketVars, segmentVars>>

L == INSTANCE Linearization

EnqPcs == {"enqTail", "enqNext", "enqHelp", "enqLL", "enqFull", "enqPut", "enqLink", "enqSwing"}

BasketOf(s, ticket) == s * NODE_SIZE + ticket

Linked == {s \in Segment : s = 0 \/ \E t \in Segment : next[t] = s}
Unlinked == CHOOSE s \in Segment : s \notin Linked /\ \A t \in Segment : t < s => t \in Linked

Init ==
  /\ BasketInit
  /\ HEAD = [s \in Segment |-> 0]
  /\ TAIL = [s \in Segment |-> 0]
  /\ next = [s \in Segment |-> NULL]
  /\ HeadPtr = 0
  /\ TailPtr = 0
  /\ qpc = [p \in Procs |-> "idle"]
  /\ arg = [p \in Procs |-> NONE]
  /\ seg = [p \in Procs |-> 0]
  /\ nxt = [p \in Procs |-> NULL]
  /\ head = [p \in Procs |-> 0]
  /\ tail = [p \in Procs |-> 0]
  /\ hhead = [p \in Procs |-> 0]
  /\ used = {}
  /\ lin = L!Start

IC(link, index) == IF link = index THEN link + 1 ELSE link

GoOn(p, label) == qpc' = [qpc EXCEPT ![p] = label]

Pending ==
  [p \in {t \in Procs : qpc[t] # "idle"} |-> IF qpc[p] \in EnqPcs THEN arg[p] ELSE DEQUEUE]

\* Return from enqueue, or from dequeue with an item.
Answer(p, r) ==
  /\ GoOn(p, "idle")
  /\ lin' = L!Respond(lin, Pending, p, r)
-----------------------------------------------------------------------------
Enqueue(p, v) ==
  /\ qpc[p] = "idle"
  /\ v \notin used
  /\ used' = used \cup {v}
  /\ arg' = [arg EXCEPT ![p] = v]
  /\ GoOn(p, "enqTail")
  /\ UNCHANGED <<basketVars, segments, seg, nxt, head, tail, hhead, lin>>

\* lastTail = Tail.load(), protected and read again
EnqTail(p) ==
  /\ qpc[p] = "enqTail"
  /\ seg' = [seg EXCEPT ![p] = TailPtr]
  /\ GoOn(p, "enqNext")
  /\ UNCHANGED <<basketVars, segments, arg, nxt, head, tail, hhead, used, lin>>

\* lastNext = lastTail->next.load()
EnqNext(p) ==
  /\ qpc[p] = "enqNext"
  /\ nxt' = [nxt EXCEPT ![p] = next[seg[p]]]
  /\ GoOn(p, IF next[seg[p]] # NULL THEN "enqHelp" ELSE "enqLL")
  /\ UNCHANGED <<basketVars, segments, arg, seg, head, tail, hhead, used, lin>>

\* Tail.compare_exchange_strong(lastTail, nxt), for another enqueue or one's own
SwingTail(p) ==
  /\ TailPtr' = IF TailPtr = seg[p] THEN nxt[p] ELSE TailPtr
  /\ UNCHANGED <<basketVars, HEAD, TAIL, next, HeadPtr, locals, used>>
EnqHelp(p) == qpc[p] = "enqHelp" /\ SwingTail(p) /\ GoOn(p, "enqTail") /\ UNCHANGED lin
EnqSwing(p) == qpc[p] = "enqSwing" /\ SwingTail(p) /\ Answer(p, OK)

\* basketTicket = lastTail->TAIL.LL()
EnqLL(p) ==
  /\ qpc[p] = "enqLL"
  /\ tail' = [tail EXCEPT ![p] = TAIL[seg[p]]]
  /\ GoOn(p, "enqFull")
  /\ UNCHANGED <<basketVars, segments, arg, seg, nxt, head, hhead, used, lin>>

\* isFull(): a new segment, or items[basketTicket].put(val)
EnqFull(p) ==
  /\ qpc[p] = "enqFull"
  /\ IF TAIL[seg[p]] >= NODE_SIZE
       THEN GoOn(p, "enqLink") /\ UNCHANGED basketVars
       ELSE GoOn(p, "enqPut") /\ PutCall(p, BasketOf(seg[p], tail[p]), arg[p])
  /\ UNCHANGED <<segments, locals, used, lin>>

\* Mutant of EnqIC: the item is put again if another thread has moved TAIL.
EnqICOrAgain(p) ==
  /\ qpc[p] = "enqPut" /\ pc[p] = "idle"
  /\ TAIL' = [TAIL EXCEPT ![seg[p]] = IC(@, tail[p])]
  /\ IF res[p] = OK /\ TAIL[seg[p]] = tail[p] THEN Answer(p, OK) ELSE GoOn(p, "enqTail") /\ UNCHANGED lin
  /\ UNCHANGED <<basketVars, HEAD, next, HeadPtr, TailPtr, locals, used>>

\* put is over: IC and return, or the next round without an IC.
EnqIC(p) ==
  /\ qpc[p] = "enqPut" /\ pc[p] = "idle"
  /\ IF res[p] = OK
       THEN Answer(p, OK) /\ TAIL' = [TAIL EXCEPT ![seg[p]] = IC(@, tail[p])]
       ELSE GoOn(p, "enqTail") /\ UNCHANGED <<TAIL, lin>>
  /\ UNCHANGED <<basketVars, HEAD, next, HeadPtr, TailPtr, locals, used>>

\* A new segment has the item in its first basket, and has got an IC with the
\* ticket that was read in the old one: lastTail->next.compare_exchange_strong.
EnqLink(p) ==
  /\ qpc[p] = "enqLink"
  /\ IF next[seg[p]] # NULL
       THEN GoOn(p, "enqTail") /\ UNCHANGED <<basketVars, TAIL, next, nxt>>
       ELSE LET new == Unlinked IN
            /\ Linked # Segment
            /\ next' = [next EXCEPT ![seg[p]] = new]
            /\ nxt' = [nxt EXCEPT ![p] = new]
            /\ TAIL' = [TAIL EXCEPT ![new] = IC(0, tail[p])]
            /\ A' = [A EXCEPT ![BasketOf(new, 0)][0] = arg[p]]
            /\ PUTS' = [PUTS EXCEPT ![BasketOf(new, 0)] = 1]
            /\ stored' = stored \cup {arg[p]}
            /\ GoOn(p, "enqSwing")
            /\ UNCHANGED <<TAKES, State, local, removed, drained>>
  /\ UNCHANGED <<HEAD, HeadPtr, TailPtr, arg, seg, head, tail, hhead, used, lin>>
-----------------------------------------------------------------------------
Dequeue(p) ==
  /\ qpc[p] = "idle"
  /\ GoOn(p, "deqHead")
  /\ UNCHANGED <<basketVars, segments, locals, used, lin>>

\* nullptr, which says no more than that the dequeue has taken nothing.
AnswerEmpty(p) == GoOn(p, "idle") /\ lin' = L!Withdraw(lin, p)

\* lastHead = Head.load(), protected and read again
DeqHead(p) ==
  /\ qpc[p] = "deqHead"
  /\ seg' = [seg EXCEPT ![p] = HeadPtr]
  /\ IF HeadPtr = NULL THEN AnswerEmpty(p) ELSE GoOn(p, "deqClosed") /\ UNCHANGED lin
  /\ UNCHANGED <<basketVars, segments, arg, nxt, head, tail, hhead, used>>

Closed(s) == HEAD[s] >= NODE_SIZE

\* lastHead->isClosed()
DeqClosed(p) ==
  /\ qpc[p] = "deqClosed"
  /\ GoOn(p, IF Closed(seg[p]) THEN "deqNext" ELSE "deqLLHead")
  /\ UNCHANGED <<basketVars, segments, locals, used, lin>>

\* next = lastHead->next.load(), which may still be the null pointer
DeqNext(p) ==
  /\ qpc[p] = "deqNext"
  /\ nxt' = [nxt EXCEPT ![p] = next[seg[p]]]
  /\ GoOn(p, "deqSwing")
  /\ UNCHANGED <<basketVars, segments, arg, seg, head, tail, hhead, used, lin>>

\* Head.compare_exchange_strong(lastHead, next)
DeqSwing(p) ==
  /\ qpc[p] = "deqSwing"
  /\ HeadPtr' = IF HeadPtr = seg[p] THEN nxt[p] ELSE HeadPtr
  /\ GoOn(p, "deqHead")
  /\ UNCHANGED <<basketVars, HEAD, TAIL, next, TailPtr, locals, used, lin>>

\* headTicket = lastHead->HEAD.LL()
DeqLLHead(p) ==
  /\ qpc[p] = "deqLLHead"
  /\ head' = [head EXCEPT ![p] = HEAD[seg[p]]]
  /\ GoOn(p, "deqLLTail")
  /\ UNCHANGED <<basketVars, segments, arg, seg, nxt, tail, hhead, used, lin>>

\* tailTicket = lastHead->TAIL.LL()
DeqLLTail(p) ==
  /\ qpc[p] = "deqLLTail"
  /\ tail' = [tail EXCEPT ![p] = TAIL[seg[p]]]
  /\ GoOn(p, "deqLoop")
  /\ UNCHANGED <<basketVars, segments, arg, seg, nxt, head, hhead, used, lin>>

\* while (!lastHead->isClosed()), and the call of take if there is a ticket for it
DeqLoop(p) ==
  /\ qpc[p] = "deqLoop"
  /\ IF Closed(seg[p]) THEN GoOn(p, "deqHead") /\ UNCHANGED basketVars
     ELSE IF head[p] < tail[p]
       THEN GoOn(p, "deqTake") /\ TakeCall(p, BasketOf(seg[p], head[p]))
       ELSE GoOn(p, "deqHHead") /\ UNCHANGED basketVars
  /\ UNCHANGED <<segments, locals, used, lin>>

\* take is over: return its item, or lastHead->HEAD.IC(headTicket)
DeqIC(p) ==
  /\ qpc[p] = "deqTake" /\ pc[p] = "idle"
  /\ IF res[p] # BASKET_CLOSED
       THEN Answer(p, res[p]) /\ UNCHANGED HEAD
       ELSE /\ HEAD' = [HEAD EXCEPT ![seg[p]] = IC(@, head[p])]
            /\ GoOn(p, "deqHHead")
            /\ UNCHANGED lin
  /\ UNCHANGED <<basketVars, TAIL, next, HeadPtr, TailPtr, locals, used>>

\* head = lastHead->HEAD.LL()
DeqHHead(p) ==
  /\ qpc[p] = "deqHHead"
  /\ hhead' = [hhead EXCEPT ![p] = HEAD[seg[p]]]
  /\ GoOn(p, "deqTTail")
  /\ UNCHANGED <<basketVars, segments, arg, seg, nxt, head, tail, used, lin>>

\* tail = lastHead->TAIL.LL(): nullptr if nothing has moved and the tickets are equal
DeqTTail(p) ==
  /\ qpc[p] = "deqTTail"
  /\ LET ttail == TAIL[seg[p]] IN
     IF head[p] = hhead[p] /\ tail[p] = ttail /\ head[p] = tail[p]
       THEN AnswerEmpty(p) /\ UNCHANGED <<head, tail>>
       ELSE /\ head' = [head EXCEPT ![p] = hhead[p]]
            /\ tail' = [tail EXCEPT ![p] = ttail]
            /\ GoOn(p, "deqLoop")
            /\ UNCHANGED lin
  /\ UNCHANGED <<basketVars, segments, arg, seg, nxt, hhead, used>>
-----------------------------------------------------------------------------
EnqStep(p) ==
  \/ EnqTail(p) \/ EnqNext(p) \/ EnqHelp(p) \/ EnqLL(p)
  \/ EnqFull(p) \/ EnqIC(p) \/ EnqLink(p) \/ EnqSwing(p)

DeqStep(p) ==
  \/ DeqHead(p) \/ DeqClosed(p) \/ DeqNext(p) \/ DeqSwing(p) \/ DeqLLHead(p)
  \/ DeqLLTail(p) \/ DeqLoop(p) \/ DeqIC(p) \/ DeqHHead(p) \/ DeqTTail(p)

Step(p) ==
  \/ EnqStep(p) \/ DeqStep(p)
  \/ (PutStep(p) \/ TakeStep(p)) /\ UNCHANGED segmentVars

Invoke(p) ==
  \/ p \in Enqueuers /\ \E v \in Items : Enqueue(p, v)
  \/ p \in Dequeuers /\ Dequeue(p)

Next == \E p \in Procs : Invoke(p) \/ Step(p)

Spec == Init /\ [][Next]_vars
-----------------------------------------------------------------------------
\* The items that dequeue returns, it returns each once and in the order of a FIFO
\* queue, although Head and Tail move along the list on their own and a put may be
\* late.  What is left out is its null pointer: an item may stay where no dequeue
\* looks for it.
TakenInOrder == lin # {}

\* A put that comes late into a basket which its segment's HEAD has passed leaves
\* nothing there: what a basket behind HEAD holds belongs to a take in progress.
NothingBehindHead ==
  \A v \in stored, s \in Segment, t \in 0 .. NODE_SIZE - 1, k \in Slots :
    <<BasketOf(s, t), k>> \in Places(v) =>
      \/ HEAD[s] <= t
      \/ \E p \in Procs : HoldsTake(p, BasketOf(s, t), k)
=============================================================================
