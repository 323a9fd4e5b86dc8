-------------------------------- MODULE SBQ --------------------------------
(***************************************************************************)
(* Queue of queueTest/include/SBQQueue.hpp: a list of baskets with a cell  *)
(* per thread.  An enqueue that fails to append its own basket inserts its *)
(* item into the basket of the tail that it reads then; a dequeue draws    *)
(* the cells of a basket one after the other.                              *)
(*                                                                         *)
(* A node is its index: newNode->index is one more than that of the node   *)
(* it is appended to.  A node that loses the race is deleted by its thread.*)
(* next is written once, so loads of it that follow each other are one.    *)
(* unprotect is a step with the last access of its call.                   *)
(***************************************************************************)
EXTENDS Integers, FiniteSets

CONSTANTS
  Procs,       \* the threads 0, 1, ..., one per cell: ENQUEUERS of them
  Items,       \* what is enqueued: two enqueues of one value are two items
  Last,        \* bound of the model: the last index
  NONE,        \* nullptr in a cell and as an item
  TAKEN,       \* empty_ptr
  NULL         \* nullptr as a node

ENQUEUERS == Cardinality(Procs)
Node == 0 .. Last
MAX == Last + 1   \* INT32_MAX

ASSUME ThreadsAssumption == IsFiniteSet(Procs) /\ Procs = 0 .. Cardinality(Procs) - 1
ASSUME LastAssumption == Last \in Nat
ASSUME ValuesAssumption == NONE \notin Items /\ TAKEN \notin Items \cup {NONE} /\ NULL \notin Node

VARIABLES
  next, counter, empty, cells,   \* of every node
  heap,                          \* the nodes that are allocated
  head, tail, retired,
  protectors,
  pc, arg, used,   \* "idle" outside the calls; the item of an enqueue; those enqueued
  node,            \* t, h
  old,             \* of protect and advanceNode: what was read from tail or head
  x,               \* element
  idx,             \* the cell that extract has drawn
  ret, min, i,     \* of freeNodes
  at, floor, due,  \* history: the node of each item; what was there when its enqueue,
                   \* and when a thread's dequeue, began
  shielded         \* history: the threads at work with a node that was not deleted when
                   \* freeNodes began its scan

basket == <<counter, empty, cells>>
list == <<next, head, tail>>
reclaim == <<heap, retired, protectors, ret, min, i, shielded>>
locals == <<node, old, x, idx>>
history == <<at, floor, due>>
vars == <<list, basket, reclaim, pc, arg, used, locals, history>>

NoCells == [p \in Procs |-> NONE]

Init ==
  /\ next = [n \in Node |-> NULL]
  /\ counter = [n \in Node |-> 0]
  /\ empty = [n \in Node |-> FALSE]
  /\ cells = [n \in Node |-> NoCells]
  /\ heap = {0}
  /\ head = 0 /\ tail = 0 /\ retired = 0
  /\ protectors = [p \in Procs |-> NULL]
  /\ pc = [p \in Procs |-> "idle"]
  /\ arg = [p \in Procs |-> NONE]
  /\ used = {}
  /\ node = [p \in Procs |-> 0]
  /\ old = [p \in Procs |-> 0]
  /\ x = [p \in Procs |-> NONE]
  /\ idx = [p \in Procs |-> 0]
  /\ ret = [p \in Procs |-> NULL]
  /\ min = [p \in Procs |-> MAX]
  /\ i = [p \in Procs |-> 0]
  /\ at = [v \in Items |-> -1]
  /\ floor = [v \in Items |-> -1]
  /\ due = [p \in Procs |-> {}]
  /\ shielded = {}

Goto(p, label) == pc' = [pc EXCEPT ![p] = label] /\ UNCHANGED <<arg, used>>

Return(p) ==
  /\ pc' = [pc EXCEPT ![p] = "idle"]
  /\ arg' = [arg EXCEPT ![p] = NONE]
  /\ protectors' = [protectors EXCEPT ![p] = NULL]
  /\ shielded' = shielded \ {p}
  /\ UNCHANGED used

Enqueuing(p) == arg[p] # NONE

\* Thread p has protected a node, from which it works its way along next.
AtWork(p) == pc[p] \notin {"idle", "load", "publish", "check"}

\* The nodes of the items whose enqueue has returned
Placed == {at[v] : v \in {w \in Items : at[w] >= 0 /\ \A p \in Procs : arg[p] # w}}

\* The items of node n in cells that no dequeue has drawn
Undrawn(n) == {cells[n][c] : c \in {d \in Procs : d >= counter[n]}} \cap Items
-----------------------------------------------------------------------------
Enqueue(p, v) ==
  /\ pc[p] = "idle" /\ v \notin used
  /\ pc' = [pc EXCEPT ![p] = "load"]
  /\ arg' = [arg EXCEPT ![p] = v]
  /\ used' = used \cup {v}
  /\ floor' = [floor EXCEPT ![v] = IF Placed = {} THEN -1 ELSE CHOOSE n \in Placed : \A m \in Placed : m <= n]
  /\ UNCHANGED <<list, basket, reclaim, locals, at, due>>

Dequeue(p) ==
  /\ pc[p] = "idle"
  /\ Goto(p, "load")
  /\ due' = [due EXCEPT ![p] = (UNION {Undrawn(n) : n \in Node}) \ {arg[q] : q \in Procs}]
  /\ x' = [x EXCEPT ![p] = NONE]
  /\ UNCHANGED <<list, basket, reclaim, node, old, idx, at, floor>>

\* protect: load, publish, and load again
Pointer(p) == IF Enqueuing(p) THEN tail ELSE head

ProtectLoad(p) ==
  /\ pc[p] = "load"
  /\ old' = [old EXCEPT ![p] = Pointer(p)]
  /\ Goto(p, "publish")
  /\ UNCHANGED <<list, basket, reclaim, node, x, idx, history>>

Publish(p) ==
  /\ pc[p] = "publish"
  /\ protectors' = [protectors EXCEPT ![p] = old[p]]
  /\ Goto(p, "check")
  /\ UNCHANGED <<list, basket, heap, retired, ret, min, i, shielded, locals, history>>

ProtectCheck(p) ==
  /\ pc[p] = "check"
  /\ node' = [node EXCEPT ![p] = old[p]]
  /\ Goto(p, IF Pointer(p) # old[p] THEN "load" ELSE IF Enqueuing(p) THEN "enqTail" ELSE "deqEmpty")
  /\ UNCHANGED <<list, basket, reclaim, old, x, idx, history>>

\* advanceNode(tail, t) or (head, h)
AdvanceLoad(p) ==
  /\ pc[p] = "advLoad"
  /\ old' = [old EXCEPT ![p] = Pointer(p)]
  /\ Goto(p, IF Pointer(p) < node[p] THEN "advCAS" ELSE IF Enqueuing(p) THEN "enqTail" ELSE "freeTake")
  /\ UNCHANGED <<list, basket, reclaim, node, x, idx, history>>

AdvanceCAS(p) ==
  /\ pc[p] = "advCAS"
  /\ Goto(p, IF Pointer(p) # old[p] THEN "advLoad" ELSE IF Enqueuing(p) THEN "enqTail" ELSE "freeTake")
  /\ IF Pointer(p) # old[p] THEN UNCHANGED <<head, tail>>
     ELSE IF Enqueuing(p) THEN tail' = node[p] /\ UNCHANGED head
     ELSE head' = node[p] /\ UNCHANGED tail
  /\ UNCHANGED <<next, basket, reclaim, locals, history>>
-----------------------------------------------------------------------------
\* t = tail.load()
EnqTail(p) ==
  /\ pc[p] = "enqTail"
  /\ node' = [node EXCEPT ![p] = tail]
  /\ Goto(p, "enqNext")
  /\ UNCHANGED <<list, basket, reclaim, old, x, idx, history>>

\* tryAppend: tail->next.load() != nullptr
EnqNext(p) ==
  /\ pc[p] = "enqNext"
  /\ Goto(p, IF next[node[p]] # NULL THEN "enqWalk" ELSE "enqLink")
  /\ UNCHANGED <<list, basket, reclaim, locals, history>>

\* tryAppend: the CAS of next, to a node with the item in the thread's cell
EnqLink(p) ==
  /\ pc[p] = "enqLink"
  /\ node[p] < Last
  /\ LET new == node[p] + 1 IN
     IF next[node[p]] = NULL
       THEN /\ next' = [next EXCEPT ![node[p]] = new]
            /\ cells' = [cells EXCEPT ![new][p] = arg[p]]
            /\ heap' = heap \cup {new}
            /\ at' = [at EXCEPT ![arg[p]] = new]
            /\ Goto(p, "enqSwing")
       ELSE Goto(p, "enqAgain") /\ UNCHANGED <<next, cells, heap, at>>
  /\ UNCHANGED <<head, tail, counter, empty, retired, protectors, ret, min, i, shielded, locals, floor, due>>

\* tail.compare_exchange_strong(t, newNode)
EnqSwing(p) ==
  /\ pc[p] = "enqSwing"
  /\ tail' = IF tail = node[p] THEN node[p] + 1 ELSE tail
  /\ Return(p)
  /\ UNCHANGED <<next, head, basket, heap, retired, ret, min, i, locals, history>>

\* Mutant of EnqAgain: head is read.
EnqAgainHead(p) ==
  /\ pc[p] = "enqAgain"
  /\ node' = [node EXCEPT ![p] = head]
  /\ Goto(p, "enqInsert")
  /\ UNCHANGED <<list, basket, reclaim, old, x, idx, history>>

\* The append was lost: t = tail.load(), which need not be the new tail.
EnqAgain(p) ==
  /\ pc[p] = "enqAgain"
  /\ node' = [node EXCEPT ![p] = tail]
  /\ Goto(p, "enqInsert")
  /\ UNCHANGED <<list, basket, reclaim, old, x, idx, history>>

\* Mutant of EnqInsert: a store.
EnqInsertStore(p) ==
  /\ pc[p] = "enqInsert"
  /\ cells' = [cells EXCEPT ![node[p]][p] = arg[p]]
  /\ at' = [at EXCEPT ![arg[p]] = node[p]]
  /\ Return(p)
  /\ UNCHANGED <<list, counter, empty, heap, retired, ret, min, i, locals, floor, due>>

\* insert: cells[thread_id].compare_exchange_strong(nullVal, elem)
EnqInsert(p) ==
  /\ pc[p] = "enqInsert"
  /\ IF cells[node[p]][p] = NONE
       THEN /\ cells' = [cells EXCEPT ![node[p]][p] = arg[p]]
            /\ at' = [at EXCEPT ![arg[p]] = node[p]]
            /\ Return(p)
       ELSE Goto(p, "enqWalk") /\ UNCHANGED <<cells, at, protectors, shielded>>
  /\ UNCHANGED <<list, counter, empty, heap, retired, ret, min, i, locals, floor, due>>

\* while (t->next != nullptr) t = t->next
EnqWalk(p) ==
  /\ pc[p] = "enqWalk"
  /\ IF next[node[p]] # NULL
       THEN node' = [node EXCEPT ![p] = next[node[p]]] /\ UNCHANGED <<pc, arg, used>>
       ELSE Goto(p, "advLoad") /\ UNCHANGED node
  /\ UNCHANGED <<list, basket, reclaim, old, x, idx, history>>
-----------------------------------------------------------------------------
\* Mutant of DeqEmpty: the basket is left when its last cell may not be drawn.
DeqEmptyUnseen(p) ==
  /\ pc[p] = "deqEmpty"
  /\ Goto(p, IF counter[node[p]] > 0 THEN "deqNext" ELSE "deqTest")
  /\ UNCHANGED <<list, basket, reclaim, locals, history>>

\* h->basket.isEmpty()
DeqEmpty(p) ==
  /\ pc[p] = "deqEmpty"
  /\ Goto(p, IF empty[node[p]] THEN "deqNext" ELSE "deqTest")
  /\ UNCHANGED <<list, basket, reclaim, locals, history>>

\* ... && h->next.load() != nullptr: the next basket
DeqNext(p) ==
  /\ pc[p] = "deqNext"
  /\ IF next[node[p]] # NULL
       THEN node' = [node EXCEPT ![p] = next[node[p]]] /\ Goto(p, "deqEmpty")
       ELSE Goto(p, "deqTest") /\ UNCHANGED node
  /\ UNCHANGED <<list, basket, reclaim, old, x, idx, history>>

\* extract: empty.test()
DeqTest(p) ==
  /\ pc[p] = "deqTest"
  /\ Goto(p, IF empty[node[p]] THEN "deqLast" ELSE "deqDraw")
  /\ UNCHANGED <<list, basket, reclaim, locals, history>>

\* idx = counter.fetch_add(1)
DeqDraw(p) ==
  /\ pc[p] = "deqDraw"
  /\ idx' = [idx EXCEPT ![p] = counter[node[p]]]
  /\ counter' = [counter EXCEPT ![node[p]] = @ + 1]
  /\ LET c == counter[node[p]] IN
     Goto(p, IF c >= ENQUEUERS THEN "deqLast" ELSE IF c = ENQUEUERS - 1 THEN "deqFlag" ELSE "deqCell")
  /\ UNCHANGED <<list, empty, cells, reclaim, node, old, x, history>>

\* empty.test_and_set(), before the last cell is read
DeqFlag(p) ==
  /\ pc[p] = "deqFlag"
  /\ empty' = [empty EXCEPT ![node[p]] = TRUE]
  /\ Goto(p, "deqCell")
  /\ UNCHANGED <<list, counter, cells, reclaim, locals, history>>

\* element = cells[idx].exchange(empty_ptr)
DeqCell(p) ==
  /\ pc[p] = "deqCell"
  /\ x' = [x EXCEPT ![p] = cells[node[p]][idx[p]]]
  /\ cells' = [cells EXCEPT ![node[p]][idx[p]] = TAKEN]
  /\ Goto(p, IF cells[node[p]][idx[p]] = NONE THEN "deqDraw" ELSE "advLoad")
  /\ UNCHANGED <<list, counter, empty, reclaim, node, old, idx, history>>

\* No element: EMPTY if h->next == nullptr, or else the next round.
DeqLast(p) ==
  /\ pc[p] = "deqLast"
  /\ Goto(p, IF next[node[p]] = NULL THEN "advLoad" ELSE "deqEmpty")
  /\ UNCHANGED <<list, basket, reclaim, locals, history>>
-----------------------------------------------------------------------------
\* freeNodes: ret = retired.exchange(nullptr); another thread may be at it.
FreeTake(p) ==
  /\ pc[p] = "freeTake"
  /\ ret' = [ret EXCEPT ![p] = retired]
  /\ retired' = NULL
  /\ min' = [min EXCEPT ![p] = MAX]
  /\ i' = [i EXCEPT ![p] = 0]
  /\ IF retired = NULL THEN Return(p)
     ELSE /\ shielded' = {q \in Procs : AtWork(q) /\ protectors[q] \in heap}
          /\ Goto(p, "freeScan")
          /\ UNCHANGED protectors
  /\ UNCHANGED <<list, basket, heap, locals, history>>

\* The least index of a protected node.  A node that was published too late may have
\* been deleted: its index then is whatever the memory holds.
IndexOf(n) == IF n \in heap THEN {n} ELSE Node \cup {MAX}

\* Mutant of FreeScan: it ends before the last protector.
FreeScanShort(p) ==
  /\ pc[p] = "freeScan"
  /\ Goto(p, "freeLoop")
  /\ UNCHANGED <<list, basket, heap, retired, protectors, ret, min, i, shielded, locals, history>>

FreeScan(p) ==
  /\ pc[p] = "freeScan"
  /\ LET q == protectors[i[p]] IN
     IF q = NULL THEN UNCHANGED min
     ELSE \E index \in IndexOf(q) : min' = [min EXCEPT ![p] = IF index < @ THEN index ELSE @]
  /\ i' = [i EXCEPT ![p] = @ + 1]
  /\ Goto(p, IF i[p] + 1 < ENQUEUERS THEN "freeScan" ELSE "freeLoop")
  /\ UNCHANGED <<list, basket, heap, retired, protectors, ret, shielded, locals, history>>

\* while (ret != head.load() and ret->index < index): delete ret, or else put it back.
FreeLoop(p) ==
  /\ pc[p] = "freeLoop"
  /\ IF ret[p] # head /\ ret[p] < min[p]
       THEN /\ heap' = heap \ {ret[p]}
            /\ ret' = [ret EXCEPT ![p] = next[ret[p]]]
            /\ UNCHANGED <<pc, arg, used>>
       ELSE Goto(p, "freeStore") /\ UNCHANGED <<heap, ret>>
  /\ UNCHANGED <<list, basket, retired, protectors, min, i, shielded, locals, history>>

FreeStore(p) ==
  /\ pc[p] = "freeStore"
  /\ retired' = ret[p]
  /\ Return(p)
  /\ UNCHANGED <<list, basket, heap, ret, min, i, locals, history>>
-----------------------------------------------------------------------------
EnqStep(p) ==
  \/ EnqTail(p) \/ EnqNext(p) \/ EnqLink(p) \/ EnqSwing(p)
  \/ EnqAgain(p) \/ EnqInsert(p) \/ EnqWalk(p)

DeqStep(p) ==
  \/ DeqEmpty(p) \/ DeqNext(p) \/ DeqTest(p) \/ DeqDraw(p) \/ DeqFlag(p) \/ DeqCell(p)
  \/ DeqLast(p) \/ FreeTake(p) \/ FreeScan(p) \/ FreeLoop(p) \/ FreeStore(p)

Next == \E p \in Procs :
  \/ ProtectLoad(p) \/ Publish(p) \/ ProtectCheck(p) \/ AdvanceLoad(p) \/ AdvanceCAS(p)
  \/ EnqStep(p) \/ DeqStep(p)
  \/ Dequeue(p) \/ \E v \in Items : Enqueue(p, v)

Spec == Init /\ [][Next]_vars
-----------------------------------------------------------------------------
\* The item in a cell is still to be asked for: its cell was not drawn yet, in a
\* basket that head has not left, or the dequeue that drew it has not read it.
NothingPassedOver ==
  \A n \in Node : \A c \in Procs :
    cells[n][c] \in Items =>
      \/ counter[n] <= c /\ head <= n
      \/ \E p \in Procs : pc[p] \in {"deqFlag", "deqCell"} /\ node[p] = n /\ idx[p] = c

\* An enqueue that begins after another one has returned does not put its item into
\* an earlier basket, although the tail that it reads may be an old one.
NodesInOrder == \A v \in Items : at[v] >= 0 => at[v] >= floor[v]

\* A dequeue does not pass by the items that were there when it began: it comes to a
\* later basket, or answers EMPTY, only when other dequeues have drawn them.
TakenInOrder ==
  \A p \in Procs :
    /\ pc[p] \in {"deqEmpty", "deqNext", "deqTest", "deqDraw", "deqFlag", "deqCell", "deqLast"} =>
         \A n \in 0 .. node[p] - 1 : Undrawn(n) \cap due[p] = {}
    /\ pc[p] = "advLoad" /\ ~Enqueuing(p) /\ x[p] = NONE =>
         \A n \in Node : Undrawn(n) \cap due[p] = {}

\* freeNodes deletes no node on which a thread was at work, with its protector, before
\* the scan of the protectors began, nor a node which that thread goes on to.
DeletesUnprotected == \A p \in shielded : node[p] \in heap
=============================================================================
