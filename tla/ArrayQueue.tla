----------------------------- MODULE ArrayQueue -----------------------------
(***************************************************************************)
(* The queues of queueTest/include/LLICQueue.hpp that keep their baskets   *)
(* in nodes of NODE_SIZE: FAIQueueArray, which allocates a node when an    *)
(* enqueue first comes to it, and FAIQueueArray2, whose nodes are all      *)
(* there from the beginning.  Enqueue and dequeue are those of module      *)
(* BasketQueue; a ticket is an index of a node and of a basket in it.      *)
(* With one node of as many baskets as the queue has tickets the second    *)
(* is the FAIQueue of that file.                                           *)
(*                                                                         *)
(* The nodes are never deleted, and HEAD and TAIL are LLICCAS objects.     *)
(***************************************************************************)
EXTENDS KBasketFAI

CONSTANTS
  ARRAY_SIZE, NODE_SIZE,   \* as in the code, where ARRAY_SIZE > NODE_SIZE
  Tickets,                 \* bound of the model: values of HEAD and TAIL that are used
  EMPTY, Enqueuers, Dequeuers, NONE, DEQUEUE

VARIABLES
  nodes,     \* the nodes that array holds
  before,    \* history: <<v, w>> if enqueue(v) had returned when enqueue(w) was called
  HEAD, TAIL, lossy, qpc, arg, head, tail, hhead, used, lin

INSTANCE BasketQueue WITH Capacity <- Tickets, MaxGroupedItems <- 0

queueVars == <<HEAD, TAIL, lossy, qpc, arg, head, tail, hhead, used, lin>>
vars == <<basketVars, nodes, before, queueVars>>

Node(ticket) == ticket \div ARRAY_SIZE

Pos(ticket) == ticket % NODE_SIZE

BasketAt(ticket) == Node(ticket) * NODE_SIZE + Pos(ticket)

SizeAssumption ==
  /\ {ARRAY_SIZE, NODE_SIZE, Tickets} \subseteq Nat \ {0}
  /\ \A ticket \in 0 .. Tickets - 1 : BasketAt(ticket) \in Baskets

Init ==
  /\ BasketInit
  /\ QueueInit /\ ~lossy
  /\ nodes \in {{}, {Node(t) : t \in 0 .. Tickets - 1}}   \* FAIQueueArray, FAIQueueArray2
  /\ before = {}

\* The call of put comes after a look at array[node].
NodeCall(p) ==
  /\ pc[p] = "idle"
  /\ bk' = [bk EXCEPT ![p] = BasketAt(tail'[p])]
  /\ x' = [x EXCEPT ![p] = arg[p]]
  /\ Goto(p, "node")
  /\ UNCHANGED <<shared, slot, res, history>>

\* array[node] == nullptr: a new node is made with the item in its first basket,
\* whatever the position of the ticket.
NodeLoad(p) ==
  /\ pc[p] = "node"
  /\ LET node == bk[p] \div NODE_SIZE IN
     IF node \in nodes
       THEN Goto(p, "putState") /\ UNCHANGED bk
       ELSE Goto(p, "alloc") /\ bk' = [bk EXCEPT ![p] = node * NODE_SIZE]
  /\ UNCHANGED <<shared, x, slot, res, history, nodes>>

\* Mutant of Alloc: the node is stored over another thread's.
AllocStore(p) ==
  /\ pc[p] = "alloc"
  /\ nodes' = nodes \cup {bk[p] \div NODE_SIZE}
  /\ A' = [A EXCEPT ![bk[p]] = [[s \in Slots |-> BOTTOM] EXCEPT ![0] = x[p]]]
  /\ PUTS' = [PUTS EXCEPT ![bk[p]] = 1]
  /\ stored' = stored \cup {x[p]}
  /\ Return(p, OK)
  /\ UNCHANGED <<TAKES, State, bk, x, slot, removed, drained>>

\* The first node of that index to arrive is used, with its item; the others are
\* deleted.  For the queue this is a put that answers OK or FULL.
Alloc(p) ==
  /\ pc[p] = "alloc"
  /\ IF bk[p] \div NODE_SIZE \notin nodes
       THEN /\ nodes' = nodes \cup {bk[p] \div NODE_SIZE}
            /\ A' = [A EXCEPT ![bk[p]][0] = x[p]]
            /\ PUTS' = [PUTS EXCEPT ![bk[p]] = 1]
            /\ stored' = stored \cup {x[p]}
            /\ Return(p, OK)
       ELSE Return(p, FULL) /\ UNCHANGED <<nodes, A, PUTS, stored>>
  /\ UNCHANGED <<TAKES, State, bk, x, slot, removed, drained>>

\* The basket call that a step of the queue by thread p makes, if it makes one.
BasketCall(p) ==
  IF qpc'[p] = "enqPut" THEN NodeCall(p)
  ELSE IF qpc'[p] = "deqTake" THEN TakeCall(p, BasketAt(head'[p]))
  ELSE UNCHANGED basketVars

\* The steps of a thread inside enqueue or dequeue.
Step(p) ==
  \/ QueueStep(p) /\ BasketCall(p) /\ UNCHANGED <<nodes, before>>
  \/ (PutStep(p) \/ TakeStep(p)) /\ UNCHANGED <<nodes, before, queueVars>>
  \/ (NodeLoad(p) \/ Alloc(p)) /\ UNCHANGED <<before, queueVars>>

\* The items whose enqueue has returned.
Returned == {v \in used : \A p \in Procs : qpc[p] \in EnqPcs => arg[p] # v}

Invoke(p) ==
  /\ QueueCall(p)
  /\ before' = before \cup (Returned \X (used' \ used))
  /\ UNCHANGED <<basketVars, nodes>>

Next == \E p \in Procs : Invoke(p) \/ Step(p)

Spec == Init /\ [][Next]_vars
-----------------------------------------------------------------------------
\* A basket has no order, so its items must come from concurrent insertions: an
\* enqueue that begins after another one has returned does not share its basket.
BasketsAreConcurrent ==
  \A b \in Baskets, s, t \in Slots : <<A[b][s], A[b][t]>> \notin before
=============================================================================
