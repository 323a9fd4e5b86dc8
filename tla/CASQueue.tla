------------------------------ MODULE CASQueue ------------------------------
(***************************************************************************)
(* CASQueue of basket/include/basket_queue.hpp: the queue over baskets     *)
(* with one slot per thread.                                               *)
(***************************************************************************)
EXTENDS NBasketCAS, FiniteSets

CONSTANTS EMPTY, Capacity, Enqueuers, Dequeuers, MaxGroupedItems, NONE, DEQUEUE

ASSUME CapacityAssumption == Capacity \in Nat \ {0} /\ Baskets = 0 .. Capacity - 1
ASSUME CallersAssumption == Enqueuers \subseteq Procs /\ Dequeuers \subseteq Procs
ASSUME AnswersAssumption ==
  /\ {EMPTY, NONE, DEQUEUE, TOP} \cap (Items \cup {OK, FULL, BASKET_CLOSED}) = {}
  /\ EMPTY # NONE

VARIABLES HEAD, TAIL, lossy, qpc, arg, head, tail, hhead, used, lin

INSTANCE BasketQueue

queueVars == <<HEAD, TAIL, lossy, qpc, arg, head, tail, hhead, used, lin>>
vars == <<basketVars, queueVars>>

Init == BasketInit /\ QueueInit

\* The basket call that a step of the queue by thread p makes, if it makes one.
BasketCall(p) ==
  IF qpc'[p] = "enqPut" THEN PutCall(p, tail'[p], arg[p])
  ELSE IF qpc'[p] = "deqTake" THEN TakeCall(p, head'[p])
  ELSE UNCHANGED basketVars

\* The steps of a thread inside enqueue or dequeue.
Step(p) ==
  \/ QueueStep(p) /\ BasketCall(p)
  \/ (PutStep(p) \/ TakeStep(p)) /\ UNCHANGED queueVars

Next == \E p \in Procs : (QueueCall(p) /\ UNCHANGED basketVars) \/ Step(p)

Spec == Init /\ [][Next]_vars
-----------------------------------------------------------------------------
\* The calls that the queue makes are calls that the theorems about the baskets
\* assume: no item is put again while a put of it runs or after it was stored,
\* and no thread calls put or take inside another.
UsesBaskets == BasketSpec

\* With the LL/IC object of its own, the queue is linearizable.  Over a grouped
\* object not even the order is kept: a basket that TAIL did not leave for its first
\* item gets items of later enqueues, and takes begin at the slot of their thread.
ExactIsLinearizable == lossy \/ Linearizable

\* Every basket that TAIL has passed was passed for an item of its own: a put
\* that fails finds TAIL already past its basket, so a queue of as many baskets
\* as elements is never left at its end (the sizing of tests and drivers).
TailIsPaidFor == TAIL <= Cardinality(stored)

\* An item whose enqueue has returned is in a basket from HEAD to before TAIL,
\* where dequeue looks for it, until a take gets it.
NothingLeftBehind ==
  \A v \in stored, b \in Baskets, s \in Slots :
    /\ <<b, s>> \in Places(v)
    /\ \A p \in Procs : qpc[p] \in EnqPcs => arg[p] # v
    => HEAD <= b /\ (lossy \/ b < TAIL)
=============================================================================
