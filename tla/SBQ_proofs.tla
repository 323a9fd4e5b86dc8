------------------------------ MODULE SBQ_proofs ------------------------------
(***************************************************************************)
(* The scalable baskets queue passes over no item, puts items in the order *)
(* of their enqueues, takes what was there before it reports less, and     *)
(* deletes no node that a scan could see in use: for every number of       *)
(* threads, items and nodes.                                               *)
(***************************************************************************)
EXTENDS SBQ, TLAPS, FiniteSetTheorems

EnqLabels == {"enqTail", "enqNext", "enqLink", "enqSwing", "enqAgain", "enqInsert", "enqWalk"}
DrawLabels == {"deqEmpty", "deqNext", "deqTest", "deqDraw", "deqFlag", "deqCell", "deqLast"}
FreeLabels == {"freeScan", "freeLoop", "freeStore"}
Labels == {"idle", "load", "publish", "check", "advLoad", "advCAS", "freeTake"}
            \cup EnqLabels \cup DrawLabels \cup FreeLabels

TypeOK ==
  /\ next \in [Node -> Node \cup {NULL}]
  /\ counter \in [Node -> Nat]
  /\ empty \in [Node -> BOOLEAN]
  /\ cells \in [Node -> [Procs -> Items \cup {NONE, TAKEN}]]
  /\ heap \subseteq Node
  /\ head \in Node /\ tail \in Node /\ retired \in Node \cup {NULL}
  /\ protectors \in [Procs -> Node \cup {NULL}]
  /\ pc \in [Procs -> Labels]
  /\ arg \in [Procs -> Items \cup {NONE}]
  /\ used \subseteq Items
  /\ node \in [Procs -> Node] /\ old \in [Procs -> Node]
  /\ x \in [Procs -> Items \cup {NONE, TAKEN}]
  /\ idx \in [Procs -> Nat]
  /\ ret \in [Procs -> Node \cup {NULL}]
  /\ min \in [Procs -> Nat] /\ i \in [Procs -> Nat]
  /\ at \in [Items -> Node \cup {-1}] /\ floor \in [Items -> Node \cup {-1}]
  /\ due \in [Procs -> SUBSET Items]
  /\ shielded \subseteq Procs

\* A thread has an item to enqueue where its label says so.
CallOK ==
  \A p \in Procs :
    /\ pc[p] \in EnqLabels => arg[p] # NONE
    /\ pc[p] \in DrawLabels \cup FreeLabels \cup {"idle", "freeTake"} => arg[p] = NONE

\* Node n has been appended.
Linked(n) == n = 0 \/ next[n - 1] # NULL

\* The list is without gaps, and everybody is on it.
ListOK ==
  /\ \A n \in Node : next[n] # NULL =>
       next[n] = n + 1 /\ n < Last /\ \A m \in Node : m < n => next[m] # NULL
  /\ \A n \in Node : ~Linked(n) => counter[n] = 0 /\ cells[n] = NoCells
  /\ Linked(head) /\ Linked(tail)
  /\ \A p \in Procs :
       /\ Linked(node[p]) /\ Linked(old[p])
       /\ pc[p] = "enqSwing" => next[node[p]] # NULL
       /\ pc[p] = "advCAS" => old[p] < node[p]

Drawing(p, n, c) == pc[p] \in {"deqFlag", "deqCell"} /\ node[p] = n /\ idx[p] = c
Drawn(n) == counter[n] >= ENQUEUERS

\* A cell that was drawn is taken or about to be.
CellsDrawn ==
  \A n \in Node, c \in Procs :
    c < counter[n] => cells[n][c] = TAKEN \/ \E p \in Procs : Drawing(p, n, c)

\* What thread p has drawn, has found drawn or has passed was drawn.
PlaceDrawn(p) ==
  /\ pc[p] \in {"deqFlag", "deqCell"} => idx[p] < counter[node[p]] /\ idx[p] \in Procs
  /\ pc[p] = "deqFlag" => idx[p] = ENQUEUERS - 1
  /\ pc[p] \in {"deqNext", "deqLast"} => Drawn(node[p])
  /\ ~Enqueuing(p) /\ AtWork(p) => \A n \in Node : n < node[p] => Drawn(n)
  /\ ~Enqueuing(p) /\ pc[p] \in {"publish", "check"} => \A n \in Node : n < old[p] => Drawn(n)

DrawOK ==
  /\ CellsDrawn
  /\ \A n \in Node : empty[n] \/ n < head => Drawn(n)
  /\ \A p \in Procs : PlaceDrawn(p)

\* Every item is enqueued once, and a dequeue is due only what was there before it.
ItemOK ==
  /\ \A p \in Procs : arg[p] # NONE => arg[p] \in used
  /\ \A p, q \in Procs : arg[p] # NONE /\ arg[p] = arg[q] => p = q
  /\ \A v \in Items : at[v] # -1 => v \in used
  /\ \A n \in Node, c \in Procs : cells[n][c] \in Items => cells[n][c] \in used
  /\ \A p \in Procs : due[p] \subseteq used
  /\ \A p, q \in Procs : arg[q] \notin due[p]

\* A dequeue that leaves without an element leaves nothing that it was due.
LeavesNothing(p) ==
  pc[p] \in {"advLoad", "advCAS"} /\ ~Enqueuing(p) /\ x[p] = NONE =>
    \A n \in Node : Undrawn(n) \cap due[p] = {}
DueOK == \A p \in Procs : LeavesNothing(p)

\* An enqueue starts at tail and goes on from there.
InOrder(p) ==
  /\ Enqueuing(p) /\ AtWork(p) => floor[arg[p]] <= node[p]
  /\ Enqueuing(p) /\ pc[p] \in {"publish", "check"} => floor[arg[p]] <= old[p]
  /\ pc[p] = "enqSwing" => at[arg[p]] = node[p] + 1
  /\ pc[p] \in {"enqNext", "enqLink", "enqSwing", "enqInsert"} => node[p] <= tail

\* Items whose enqueue has returned are at tail or before it, so an enqueue is not before
\* those that had returned when it began.
OrderOK ==
  /\ Placed = {} \/ \E n \in Placed : \A m \in Placed : m <= n
  /\ \A n \in Placed : n <= tail
  /\ \A v \in Items : floor[v] <= tail /\ (at[v] >= 0 => at[v] >= floor[v])
  /\ \A p \in Procs : InOrder(p)

\* A thread at work is not before the node that it protects.
Guarded(p) ==
  /\ pc[p] = "check" => protectors[p] = old[p]
  /\ AtWork(p) => protectors[p] \in Node /\ protectors[p] <= node[p]
  /\ AtWork(p) /\ Enqueuing(p) => protectors[p] <= tail

ProtectOK ==
  /\ \A p \in Procs : Guarded(p)
  /\ \A p \in shielded : AtWork(p)

Owner(p) == pc[p] \in FreeLabels

\* n is the first node that is not deleted.
First(n) ==
  /\ n \in Node /\ n <= head
  /\ \A m \in Node : m \in heap <=> Linked(m) /\ n <= m
  /\ \A p \in shielded : n <= protectors[p]

\* One thread at a time has the list of retired nodes, and the least index that it has
\* found is that of no later node than the shielded threads protect.
FreeOK ==
  /\ \A p, q \in Procs : Owner(p) /\ Owner(q) => p = q
  /\ retired = NULL => \E p \in Procs : Owner(p)
  /\ retired # NULL => First(retired) /\ \A p \in Procs : ~Owner(p)
  /\ \A p \in Procs : Owner(p) => First(ret[p])
  /\ \A p \in Procs : pc[p] = "freeScan" => i[p] \in Procs
  /\ \A p \in Procs : Owner(p) =>
       \A q \in shielded : (pc[p] = "freeScan" => q < i[p]) => min[p] <= protectors[q]

Step(p) ==
  \/ ProtectLoad(p) \/ Publish(p) \/ ProtectCheck(p) \/ AdvanceLoad(p) \/ AdvanceCAS(p)
  \/ EnqStep(p) \/ DeqStep(p)
  \/ Dequeue(p) \/ \E v \in Items : Enqueue(p, v)

IInv == TypeOK /\ CallOK /\ ListOK /\ DrawOK /\ ItemOK /\ DueOK /\ OrderOK /\ ProtectOK /\ FreeOK
-----------------------------------------------------------------------------
\* The threads are the first numbers.
LEMMA Threads ==
  /\ ENQUEUERS \in Nat
  /\ Procs = 0 .. ENQUEUERS - 1
BY ThreadsAssumption, FS_CardinalityType DEF ENQUEUERS

\* A node before a linked one is linked, and has a next one.
LEMMA LinkedBefore ==
  ASSUME TypeOK, ListOK, NEW n \in Node, NEW m \in Node, Linked(n), m < n
  PROVE  next[m] # NULL /\ Linked(m)
<1>1. n - 1 \in Node /\ next[n - 1] # NULL /\ m <= n - 1
  BY LastAssumption DEF Linked, Node
<1>2. next[m] # NULL
  BY <1>1, LastAssumption DEF ListOK, Node
<1>3. Linked(m)
  BY <1>2, LastAssumption DEF Linked, ListOK, Node
<1>. QED  BY <1>2, <1>3

\* The next node is linked.
LEMMA LinkedNext ==
  ASSUME TypeOK, ListOK, NEW n \in Node, next[n] # NULL
  PROVE  next[n] = n + 1 /\ n + 1 \in Node /\ Linked(n + 1)
BY LastAssumption DEF ListOK, Linked, Node

THEOREM InitIInv == Init => IInv
<1>. SUFFICES ASSUME Init PROVE IInv
  OBVIOUS
<1>. USE LastAssumption, Threads, ValuesAssumption DEF Init, Node
<1>1. TypeOK
  BY DEF TypeOK, Labels, NoCells, MAX
<1>2. CallOK
  BY DEF CallOK, EnqLabels
<1>3. ListOK
  BY DEF ListOK, Linked
<1>4. DrawOK
  BY DEF DrawOK, CellsDrawn, PlaceDrawn, AtWork
<1>5. ItemOK /\ DueOK
  BY DEF ItemOK, DueOK, LeavesNothing, NoCells
<1>6. OrderOK
  BY DEF OrderOK, InOrder, Placed, Enqueuing
<1>7. ProtectOK
  BY DEF ProtectOK, Guarded, AtWork
<1>8. FreeOK
  BY DEF FreeOK, Owner, FreeLabels, First, Linked
<1>. QED
  BY <1>1, <1>2, <1>3, <1>4, <1>5, <1>6, <1>7, <1>8 DEF IInv
-----------------------------------------------------------------------------
\* The nodes of a freeNodes call are nodes, and so is what its loop goes on to.
LEMMA FreeLoopNext ==
  ASSUME IInv, NEW p \in Procs, Owner(p), ret[p] # head
  PROVE  ret[p] \in Node /\ ret[p] < head /\ next[ret[p]] = ret[p] + 1 /\ ret[p] + 1 \in Node
<1>1. ret[p] \in Node /\ ret[p] <= head /\ head \in Node
  BY DEF IInv, TypeOK, FreeOK, First
<1>2. ret[p] < head
  BY <1>1, LastAssumption DEF Node
<1>3. next[ret[p]] # NULL
  BY <1>1, <1>2, LinkedBefore DEF IInv, ListOK
<1>. QED
  BY <1>1, <1>2, <1>3, LinkedNext DEF IInv

\* What a scan reads as an index is a number.
LEMMA IndexType ==
  ASSUME TypeOK, NEW q \in Procs, NEW index \in IndexOf(protectors[q])
  PROVE  index \in Nat
<1>1. heap \subseteq Nat /\ Node \cup {MAX} \subseteq Nat
  BY LastAssumption DEF TypeOK, Node, MAX
<1>. QED
  BY <1>1 DEF IndexOf

\* Storing an item in a cell leaves the cells cells.
LEMMA CellsType ==
  ASSUME TypeOK, NEW n \in Node, NEW c \in Procs, NEW v \in Items \cup {NONE, TAKEN}
  PROVE  [cells EXCEPT ![n][c] = v] \in [Node -> [Procs -> Items \cup {NONE, TAKEN}]]
<1>1. [cells[n] EXCEPT ![c] = v] \in [Procs -> Items \cup {NONE, TAKEN}]
  BY DEF TypeOK
<1>. QED
  BY <1>1 DEF TypeOK

\* The append of a node, when it is not lost.
LEMMA LinkEffect ==
  ASSUME TypeOK, CallOK, NEW p \in Procs, EnqLink(p), next[node[p]] = NULL
  PROVE  /\ node[p] + 1 \in Node /\ arg[p] \in Items
         /\ next' = [next EXCEPT ![node[p]] = node[p] + 1]
         /\ cells' = [cells EXCEPT ![node[p] + 1][p] = arg[p]]
         /\ heap' = heap \cup {node[p] + 1}
         /\ at' = [at EXCEPT ![arg[p]] = node[p] + 1]
         /\ pc' = [pc EXCEPT ![p] = "enqSwing"]
<1>1. node[p] + 1 \in Node
  <2>1. node[p] \in Node
    BY DEF TypeOK
  <2>2. node[p] < Last
    BY DEF EnqLink
  <2>. QED
    BY <2>1, <2>2, LastAssumption DEF Node
<1>2. arg[p] \in Items
  BY DEF EnqLink, TypeOK, CallOK, EnqLabels
<1>. QED
  BY <1>1, <1>2 DEF EnqLink, Goto

\* The insertion of an item into a basket, when its cell is free.
LEMMA InsertEffect ==
  ASSUME TypeOK, CallOK, NEW p \in Procs, EnqInsert(p), cells[node[p]][p] = NONE
  PROVE  /\ arg[p] \in Items
         /\ cells' = [cells EXCEPT ![node[p]][p] = arg[p]]
         /\ at' = [at EXCEPT ![arg[p]] = node[p]]
         /\ Return(p)
<1>1. arg[p] \in Items
  BY DEF EnqInsert, TypeOK, CallOK, EnqLabels
<1>. QED
  BY <1>1 DEF EnqInsert

\* A step of the scan of the protectors.
LEMMA ScanEffect ==
  ASSUME TypeOK, FreeOK, NEW p \in Procs, FreeScan(p)
  PROVE  /\ i[p] \in Procs
         /\ i' = [i EXCEPT ![p] = i[p] + 1]
         /\ min' \in [Procs -> Nat] /\ \A q \in Procs \ {p} : min'[q] = min[q]
         /\ min'[p] <= min[p]
         /\ protectors[i[p]] \in heap => min'[p] <= protectors[i[p]]
<1>1. i[p] \in Procs
  BY DEF FreeScan, FreeOK
<1>2. i' = [i EXCEPT ![p] = i[p] + 1]
  BY DEF FreeScan
<1>3. CASE protectors[i[p]] = NULL
  <2>1. min' = min
    BY <1>3 DEF FreeScan
  <2>. QED
    BY <1>1, <1>2, <1>3, <2>1, ValuesAssumption DEF TypeOK
<1>4. CASE protectors[i[p]] # NULL
  <2>1. PICK index \in IndexOf(protectors[i[p]]) :
          min' = [min EXCEPT ![p] = IF index < min[p] THEN index ELSE min[p]]
    BY <1>4 DEF FreeScan
  <2>2. index \in Nat
    BY <1>1, IndexType
  <2>3. protectors[i[p]] \in heap => index = protectors[i[p]]
    BY DEF IndexOf
  <2>. QED
    BY <1>1, <1>2, <2>1, <2>2, <2>3 DEF TypeOK
<1>. QED
  BY <1>3, <1>4

LEMMA TypeStep ==
  ASSUME IInv, Next
  PROVE  TypeOK'
<1>0. TypeOK /\ CallOK
  BY DEF IInv
<1>. SUFFICES ASSUME NEW p \in Procs, Step(p)
              PROVE  TypeOK'
  BY DEF Next, Step
<1>. USE <1>0 DEF Labels, EnqLabels, DrawLabels, FreeLabels, list, basket, reclaim, locals, history, Goto, Return
<1>1. CASE ProtectLoad(p)
  BY <1>1 DEF ProtectLoad, Pointer, TypeOK
<1>2. CASE Publish(p)
  BY <1>2 DEF Publish, TypeOK
<1>3. CASE ProtectCheck(p)
  BY <1>3 DEF ProtectCheck, TypeOK
<1>4. CASE AdvanceLoad(p)
  BY <1>4 DEF AdvanceLoad, Pointer, TypeOK
<1>5. CASE AdvanceCAS(p)
  BY <1>5 DEF AdvanceCAS, TypeOK
<1>6. CASE EnqTail(p)
  BY <1>6 DEF EnqTail, TypeOK
<1>7. CASE EnqNext(p)
  BY <1>7 DEF EnqNext, TypeOK
<1>8. CASE EnqLink(p)
  <2>1. CASE next[node[p]] = NULL
    <3>0. /\ node[p] + 1 \in Node /\ arg[p] \in Items
          /\ next' = [next EXCEPT ![node[p]] = node[p] + 1]
          /\ cells' = [cells EXCEPT ![node[p] + 1][p] = arg[p]]
          /\ heap' = heap \cup {node[p] + 1}
          /\ at' = [at EXCEPT ![arg[p]] = node[p] + 1]
      BY <1>8, <2>1, LinkEffect
    <3>1. cells' \in [Node -> [Procs -> Items \cup {NONE, TAKEN}]]
      BY <3>0, CellsType
    <3>2. next' \in [Node -> Node \cup {NULL}] /\ heap' \subseteq Node
      BY <3>0 DEF TypeOK
    <3>3. at' \in [Items -> Node \cup {-1}]
      BY <3>0 DEF TypeOK
    <3>. QED
      BY <1>8, <2>1, <3>1, <3>2, <3>3 DEF EnqLink, TypeOK
  <2>2. CASE next[node[p]] # NULL
    BY <1>8, <2>2 DEF EnqLink, TypeOK
  <2>. QED
    BY <2>1, <2>2
<1>9. CASE EnqSwing(p)
  <2>1. node[p] + 1 \in Node
    BY <1>9, LinkedNext DEF EnqSwing, IInv, ListOK, TypeOK
  <2>. QED
    BY <1>9, <2>1 DEF EnqSwing, TypeOK
<1>10. CASE EnqAgain(p)
  BY <1>10 DEF EnqAgain, TypeOK
<1>11. CASE EnqInsert(p)
  <2>1. CASE cells[node[p]][p] = NONE
    <3>0. /\ arg[p] \in Items /\ Return(p)
          /\ cells' = [cells EXCEPT ![node[p]][p] = arg[p]]
          /\ at' = [at EXCEPT ![arg[p]] = node[p]]
      BY <1>11, <2>1, InsertEffect
    <3>1. node[p] \in Node
      BY DEF TypeOK
    <3>2. cells' \in [Node -> [Procs -> Items \cup {NONE, TAKEN}]]
      BY <3>0, <3>1, CellsType
    <3>3. at' \in [Items -> Node \cup {-1}]
      BY <3>0 DEF TypeOK
    <3>. QED
      BY <1>11, <2>1, <3>0, <3>2, <3>3 DEF EnqInsert, TypeOK
  <2>2. CASE cells[node[p]][p] # NONE
    BY <1>11, <2>2 DEF EnqInsert, TypeOK
  <2>. QED
    BY <2>1, <2>2
<1>12. CASE EnqWalk(p)
  BY <1>12 DEF EnqWalk, TypeOK
<1>13. CASE DeqEmpty(p)
  BY <1>13 DEF DeqEmpty, TypeOK
<1>14. CASE DeqNext(p)
  <2>1. node[p] \in Node /\ next[node[p]] \in Node \cup {NULL}
    BY DEF TypeOK
  <2>2. CASE next[node[p]] = NULL
    BY <1>14, <2>2 DEF DeqNext, TypeOK
  <2>3. CASE next[node[p]] # NULL
    BY <1>14, <2>1, <2>3 DEF DeqNext, TypeOK
  <2>. QED
    BY <2>2, <2>3
<1>15. CASE DeqTest(p)
  BY <1>15 DEF DeqTest, TypeOK
<1>16. CASE DeqDraw(p)
  BY <1>16 DEF DeqDraw, TypeOK
<1>17. CASE DeqFlag(p)
  BY <1>17 DEF DeqFlag, TypeOK
<1>18. CASE DeqCell(p)
  <2>1. idx[p] \in Procs
    BY <1>18 DEF DeqCell, IInv, DrawOK, PlaceDrawn, TypeOK
  <2>. QED
    BY <1>18, <2>1 DEF DeqCell, TypeOK
<1>19. CASE DeqLast(p)
  BY <1>19 DEF DeqLast, TypeOK
<1>20. CASE FreeTake(p)
  <2>1. MAX \in Nat
    BY LastAssumption DEF MAX, TypeOK
  <2>2. CASE retired = NULL
    BY <1>20, <2>1, <2>2 DEF FreeTake, TypeOK
  <2>3. CASE retired # NULL
    BY <1>20, <2>1, <2>3 DEF FreeTake, TypeOK
  <2>. QED
    BY <2>2, <2>3
<1>21. CASE FreeScan(p)
  <2>1. min' \in [Procs -> Nat]
    BY <1>21, ScanEffect DEF IInv
  <2>2. i' \in [Procs -> Nat] /\ pc' \in [Procs -> Labels]
    BY <1>21 DEF FreeScan, TypeOK
  <2>. QED
    BY <1>21, <2>1, <2>2 DEF FreeScan, TypeOK
<1>22. CASE FreeLoop(p)
  <2>1. CASE ret[p] # head /\ ret[p] < min[p]
    <3>1. next[ret[p]] \in Node
      BY <1>22, <2>1, FreeLoopNext DEF FreeLoop, Owner, TypeOK
    <3>. QED
      BY <1>22, <2>1, <3>1 DEF FreeLoop, TypeOK
  <2>2. CASE ~(ret[p] # head /\ ret[p] < min[p])
    BY <1>22, <2>2 DEF FreeLoop, TypeOK
  <2>. QED
    BY <2>1, <2>2
<1>23. CASE FreeStore(p)
  BY <1>23 DEF FreeStore, TypeOK
<1>24. CASE Dequeue(p)
  BY <1>24 DEF Dequeue, Undrawn, TypeOK
<1>25. ASSUME NEW v \in Items, Enqueue(p, v) PROVE TypeOK'
  <2>1. Placed \subseteq Node
    BY LastAssumption DEF Placed, Node, TypeOK
  <2>2. Placed = {} \/ \E n \in Placed : \A m \in Placed : m <= n
    BY DEF IInv, OrderOK
  <2>3. floor'[v] \in Node \cup {-1}
    BY <1>25, <2>1, <2>2 DEF Enqueue, TypeOK
  <2>. QED
    BY <1>25, <2>3 DEF Enqueue, TypeOK
<1>. QED
  BY <1>1, <1>2, <1>3, <1>4, <1>5, <1>6, <1>7, <1>8, <1>9, <1>10, <1>11, <1>12, <1>13, <1>14, <1>15, <1>16,
     <1>17, <1>18, <1>19, <1>20, <1>21, <1>22, <1>23, <1>24, <1>25 DEF Step, EnqStep, DeqStep

\* Labels and items stay together.
LEMMA CallStep ==
  ASSUME IInv, Next
  PROVE  CallOK'
<1>0. TypeOK /\ CallOK
  BY DEF IInv
<1>. SUFFICES ASSUME NEW p \in Procs, Step(p)
              PROVE  CallOK'
  BY DEF Next, Step
<1>. USE <1>0 DEF EnqLabels, DrawLabels, FreeLabels
<1>1. CASE ProtectLoad(p)
  BY <1>1 DEF ProtectLoad, CallOK, TypeOK, Goto, Return, Enqueuing, Pointer
<1>2. CASE Publish(p)
  BY <1>2 DEF Publish, CallOK, TypeOK, Goto, Return, Enqueuing
<1>3. CASE ProtectCheck(p)
  BY <1>3 DEF ProtectCheck, CallOK, TypeOK, Goto, Return, Enqueuing, Pointer
<1>4. CASE AdvanceLoad(p)
  BY <1>4 DEF AdvanceLoad, CallOK, TypeOK, Goto, Return, Enqueuing, Pointer
<1>5. CASE AdvanceCAS(p)
  BY <1>5 DEF AdvanceCAS, CallOK, TypeOK, Goto, Return, Enqueuing, Pointer
<1>6. CASE EnqTail(p)
  BY <1>6 DEF EnqTail, CallOK, TypeOK, Goto, Return, Enqueuing
<1>7. CASE EnqNext(p)
  BY <1>7 DEF EnqNext, CallOK, TypeOK, Goto, Return, Enqueuing
<1>8. CASE EnqLink(p)
  BY <1>8 DEF EnqLink, CallOK, TypeOK, Goto, Return, Enqueuing
<1>9. CASE EnqSwing(p)
  BY <1>9 DEF EnqSwing, CallOK, TypeOK, Goto, Return, Enqueuing
<1>10. CASE EnqAgain(p)
  BY <1>10 DEF EnqAgain, CallOK, TypeOK, Goto, Return, Enqueuing
<1>11. CASE EnqInsert(p)
  <2>1. CASE cells[node[p]][p] = NONE
    <3>1. Return(p)
      BY <1>11, <2>1, InsertEffect
    <3>. QED
      BY <3>1 DEF CallOK, TypeOK, Return
  <2>2. CASE cells[node[p]][p] # NONE
    BY <1>11, <2>2 DEF EnqInsert, CallOK, TypeOK, Goto
  <2>. QED
    BY <2>1, <2>2
<1>12. CASE EnqWalk(p)
  BY <1>12 DEF EnqWalk, CallOK, TypeOK, Goto, Return, Enqueuing
<1>13. CASE DeqEmpty(p)
  BY <1>13 DEF DeqEmpty, CallOK, TypeOK, Goto, Return, Enqueuing
<1>14. CASE DeqNext(p)
  BY <1>14 DEF DeqNext, CallOK, TypeOK, Goto, Return, Enqueuing
<1>15. CASE DeqTest(p)
  BY <1>15 DEF DeqTest, CallOK, TypeOK, Goto, Return, Enqueuing
<1>16. CASE DeqDraw(p)
  BY <1>16 DEF DeqDraw, CallOK, TypeOK, Goto, Return, Enqueuing
<1>17. CASE DeqFlag(p)
  BY <1>17 DEF DeqFlag, CallOK, TypeOK, Goto, Return, Enqueuing
<1>18. CASE DeqCell(p)
  BY <1>18 DEF DeqCell, CallOK, TypeOK, Goto, Return, Enqueuing
<1>19. CASE DeqLast(p)
  BY <1>19 DEF DeqLast, CallOK, TypeOK, Goto, Return, Enqueuing
<1>20. CASE FreeTake(p)
  BY <1>20 DEF FreeTake, CallOK, TypeOK, Goto, Return, Enqueuing
<1>21. CASE FreeScan(p)
  BY <1>21 DEF FreeScan, CallOK, TypeOK, Goto, Return, Enqueuing
<1>22. CASE FreeLoop(p)
  BY <1>22 DEF FreeLoop, CallOK, TypeOK, Goto, Return, Enqueuing
<1>23. CASE FreeStore(p)
  BY <1>23 DEF FreeStore, CallOK, TypeOK, Goto, Return, Enqueuing
<1>24. CASE Dequeue(p)
  BY <1>24 DEF Dequeue, CallOK, TypeOK, Goto, Return, Enqueuing
<1>25. ASSUME NEW v \in Items, Enqueue(p, v) PROVE CallOK'
  BY <1>25 DEF Enqueue, CallOK, TypeOK, Goto, Return, Enqueuing
<1>. QED
  BY <1>1, <1>2, <1>3, <1>4, <1>5, <1>6, <1>7, <1>8, <1>9, <1>10, <1>11, <1>12, <1>13, <1>14, <1>15, <1>16,
     <1>17, <1>18, <1>19, <1>20, <1>21, <1>22, <1>23, <1>24, <1>25 DEF Step, EnqStep, DeqStep

\* The list only grows at its end.
LEMMA ListStep ==
  ASSUME IInv, Next
  PROVE  ListOK'
<1>0. TypeOK /\ CallOK /\ ListOK
  BY DEF IInv
<1>. SUFFICES ASSUME NEW p \in Procs, Step(p)
              PROVE  ListOK'
  BY DEF Next, Step
<1>. USE <1>0 DEF list, basket, reclaim, locals, history
<1>1. CASE ProtectLoad(p)
  BY <1>1 DEF ProtectLoad, ListOK, Linked, TypeOK, Goto, Return, Pointer
<1>2. CASE Publish(p)
  BY <1>2 DEF Publish, ListOK, Linked, TypeOK, Goto, Return
<1>3. CASE ProtectCheck(p)
  BY <1>3 DEF ProtectCheck, ListOK, Linked, TypeOK, Goto, Return, Pointer
<1>4. CASE AdvanceLoad(p)
  BY <1>4 DEF AdvanceLoad, ListOK, Linked, TypeOK, Goto, Return, Pointer
<1>5. CASE AdvanceCAS(p)
  BY <1>5 DEF AdvanceCAS, ListOK, Linked, TypeOK, Goto, Return, Pointer
<1>6. CASE EnqTail(p)
  BY <1>6 DEF EnqTail, ListOK, Linked, TypeOK, Goto, Return
<1>7. CASE EnqNext(p)
  BY <1>7 DEF EnqNext, ListOK, Linked, TypeOK, Goto, Return
<1>8. CASE EnqLink(p)
  <2>1. CASE next[node[p]] = NULL
    <3>0. /\ node[p] + 1 \in Node
          /\ next' = [next EXCEPT ![node[p]] = node[p] + 1]
          /\ cells' = [cells EXCEPT ![node[p] + 1][p] = arg[p]]
          /\ pc' = [pc EXCEPT ![p] = "enqSwing"]
          /\ UNCHANGED <<head, tail, counter, node, old>>
      BY <1>8, <2>1, LinkEffect DEF EnqLink
    <3>1. node[p] \in Node /\ \A m \in Node : m < node[p] => next[m] # NULL
      BY LinkedBefore DEF TypeOK, ListOK
    <3>2. \A n \in Node : node[p] < n => ~Linked(n)
      BY <2>1, <3>1, LinkedBefore
    <3>3. \A n \in Node : next[n] # NULL => next'[n] = next[n]
      BY <2>1, <3>0 DEF TypeOK
    <3>4. \A n \in Node : next'[n] # NULL =>
            next'[n] = n + 1 /\ n < Last /\ \A m \in Node : m < n => next'[m] # NULL
      <4>. SUFFICES ASSUME NEW n \in Node, next'[n] # NULL
                    PROVE  next'[n] = n + 1 /\ n < Last /\ \A m \in Node : m < n => next'[m] # NULL
        OBVIOUS
      <4>1. CASE n = node[p]
        BY <3>0, <3>1, <3>3, <4>1, LastAssumption DEF Node, TypeOK
      <4>2. CASE n # node[p]
        BY <3>0, <3>1, <3>3, <4>2 DEF ListOK, TypeOK
      <4>. QED
        BY <4>1, <4>2
    <3>5. \A n \in Node : Linked(n) => Linked(n)'
      BY <3>3, LastAssumption DEF Linked, Node
    <3>7. next'[node[p]] # NULL
      BY <3>0, <3>1, ValuesAssumption DEF TypeOK
    <3>6. \A n \in Node : ~Linked(n)' => counter'[n] = 0 /\ cells'[n] = NoCells
      <4>. SUFFICES ASSUME NEW n \in Node, ~Linked(n)'
                    PROVE  counter'[n] = 0 /\ cells'[n] = NoCells
        OBVIOUS
      <4>2. ~Linked(n)
        BY <3>5
      <4>3. n # node[p] + 1
        <5>1. ASSUME n = node[p] + 1 PROVE FALSE
          <6>1. n - 1 = node[p] /\ n # 0
            BY <3>1, <5>1, LastAssumption DEF Node
          <6>2. next'[n - 1] # NULL
            BY <3>7, <6>1
          <6>. QED
            BY <6>2 DEF Linked
        <5>. QED
          BY <5>1
      <4>1. ~Linked(n) /\ n # node[p] + 1
        BY <4>2, <4>3
      <4>. QED
        BY <3>0, <4>1 DEF ListOK, TypeOK
    <3>8. \A q \in Procs : Linked(node[q])' /\ Linked(old[q])'
      BY <3>0, <3>5 DEF ListOK, TypeOK
    <3>9. Linked(head)' /\ Linked(tail)'
      BY <3>0, <3>5 DEF ListOK, TypeOK
    <3>10. ASSUME NEW q \in Procs
           PROVE  /\ pc'[q] = "enqSwing" => next'[node'[q]] # NULL
                  /\ pc'[q] = "advCAS" => old'[q] < node'[q]
      BY <3>0, <3>3, <3>7 DEF ListOK, TypeOK
    <3>. QED
      BY ONLY <3>4, <3>6, <3>8, <3>9, <3>10, Zenon DEF ListOK
  <2>2. CASE next[node[p]] # NULL
    BY <1>8, <2>2 DEF EnqLink, ListOK, Linked, TypeOK, Goto
  <2>. QED
    BY <2>1, <2>2
<1>9. CASE EnqSwing(p)
  <2>1. Linked(node[p] + 1)
    BY <1>9, LinkedNext DEF EnqSwing, ListOK, TypeOK
  <2>2. UNCHANGED <<next, head, counter, cells, node, old>> /\ Linked(tail')
    BY <1>9, <2>1 DEF EnqSwing, ListOK
  <2>3. \A q \in Procs : pc'[q] = "enqSwing" \/ pc'[q] = "advCAS" => pc'[q] = pc[q]
    BY <1>9 DEF EnqSwing, Return, TypeOK
  <2>. QED
    BY <2>2, <2>3 DEF ListOK, Linked
<1>10. CASE EnqAgain(p)
  BY <1>10 DEF EnqAgain, ListOK, Linked, TypeOK, Goto, Return
<1>11. CASE EnqInsert(p)
  <2>1. UNCHANGED <<next, head, tail, counter, node, old>>
    BY <1>11 DEF EnqInsert
  <2>2. \A n \in Node : ~Linked(n) => cells'[n] = cells[n]
    BY <1>11 DEF EnqInsert, ListOK, TypeOK
  <2>3. \A q \in Procs : pc'[q] = "enqSwing" \/ pc'[q] = "advCAS" => pc'[q] = pc[q]
    BY <1>11 DEF EnqInsert, Goto, Return, TypeOK
  <2>. QED
    BY <2>1, <2>2, <2>3 DEF ListOK, Linked
<1>12. CASE EnqWalk(p)
  <2>1. next[node[p]] # NULL => next[node[p]] \in Node /\ Linked(next[node[p]])
    BY LinkedNext DEF TypeOK
  <2>2. UNCHANGED <<next, head, tail, counter, cells, old>>
    BY <1>12 DEF EnqWalk
  <2>3. \A q \in Procs : pc'[q] = "enqSwing" \/ pc'[q] = "advCAS" => pc'[q] = pc[q] /\ q # p
    BY <1>12 DEF EnqWalk, Goto, TypeOK
  <2>4. \A q \in Procs : Linked(node'[q]) /\ (q # p => node'[q] = node[q])
    BY <1>12, <2>1 DEF EnqWalk, TypeOK, ListOK
  <2>. QED
    BY <2>2, <2>3, <2>4 DEF ListOK, Linked
<1>13. CASE DeqEmpty(p)
  BY <1>13 DEF DeqEmpty, ListOK, Linked, TypeOK, Goto, Return
<1>14. CASE DeqNext(p)
  <2>1. next[node[p]] # NULL => next[node[p]] \in Node /\ Linked(next[node[p]])
    BY LinkedNext DEF TypeOK
  <2>2. UNCHANGED <<next, head, tail, counter, cells, old>>
    BY <1>14 DEF DeqNext
  <2>3. \A q \in Procs : pc'[q] = "enqSwing" \/ pc'[q] = "advCAS" => pc'[q] = pc[q] /\ q # p
    BY <1>14 DEF DeqNext, Goto, TypeOK
  <2>4. \A q \in Procs : Linked(node'[q]) /\ (q # p => node'[q] = node[q])
    BY <1>14, <2>1 DEF DeqNext, TypeOK, ListOK
  <2>. QED
    BY <2>2, <2>3, <2>4 DEF ListOK, Linked
<1>15. CASE DeqTest(p)
  BY <1>15 DEF DeqTest, ListOK, Linked, TypeOK, Goto, Return
<1>16. CASE DeqDraw(p)
  <2>1. UNCHANGED <<next, head, tail, cells, node, old>>
    BY <1>16 DEF DeqDraw
  <2>2. \A n \in Node : ~Linked(n) => counter'[n] = counter[n]
    BY <1>16 DEF DeqDraw, ListOK, TypeOK
  <2>3. \A q \in Procs : pc'[q] = "enqSwing" \/ pc'[q] = "advCAS" => pc'[q] = pc[q]
    BY <1>16 DEF DeqDraw, Goto, TypeOK
  <2>. QED
    BY <2>1, <2>2, <2>3 DEF ListOK, Linked
<1>17. CASE DeqFlag(p)
  BY <1>17 DEF DeqFlag, ListOK, Linked, TypeOK, Goto, Return
<1>18. CASE DeqCell(p)
  <2>1. UNCHANGED <<next, head, tail, counter, node, old>>
    BY <1>18 DEF DeqCell
  <2>2. \A n \in Node : ~Linked(n) => cells'[n] = cells[n]
    BY <1>18 DEF DeqCell, ListOK, TypeOK
  <2>3. \A q \in Procs : pc'[q] = "enqSwing" \/ pc'[q] = "advCAS" => pc'[q] = pc[q]
    BY <1>18 DEF DeqCell, Goto, TypeOK
  <2>. QED
    BY <2>1, <2>2, <2>3 DEF ListOK, Linked
<1>19. CASE DeqLast(p)
  BY <1>19 DEF DeqLast, ListOK, Linked, TypeOK, Goto, Return
<1>20. CASE FreeTake(p)
  BY <1>20 DEF FreeTake, ListOK, Linked, TypeOK, Goto, Return
<1>21. CASE FreeScan(p)
  BY <1>21 DEF FreeScan, ListOK, Linked, TypeOK, Goto, Return
<1>22. CASE FreeLoop(p)
  BY <1>22 DEF FreeLoop, ListOK, Linked, TypeOK, Goto, Return
<1>23. CASE FreeStore(p)
  BY <1>23 DEF FreeStore, ListOK, Linked, TypeOK, Goto, Return
<1>24. CASE Dequeue(p)
  BY <1>24 DEF Dequeue, ListOK, Linked, TypeOK, Goto, Return
<1>25. ASSUME NEW v \in Items, Enqueue(p, v) PROVE ListOK'
  BY <1>25 DEF Enqueue, ListOK, Linked, TypeOK, Goto, Return
<1>. QED
  BY <1>1, <1>2, <1>3, <1>4, <1>5, <1>6, <1>7, <1>8, <1>9, <1>10, <1>11, <1>12, <1>13, <1>14, <1>15, <1>16,
     <1>17, <1>18, <1>19, <1>20, <1>21, <1>22, <1>23, <1>24, <1>25 DEF Step, EnqStep, DeqStep
-----------------------------------------------------------------------------
\* What a step of thread p leaves alone: the locals of the others, the links that are
\* there, the items that are not its own, and the order of what only grows.
Framed(p) ==
  /\ \A q \in Procs \ {p} :
       /\ pc'[q] = pc[q] /\ arg'[q] = arg[q] /\ protectors'[q] = protectors[q]
       /\ node'[q] = node[q] /\ old'[q] = old[q] /\ x'[q] = x[q] /\ idx'[q] = idx[q]
       /\ ret'[q] = ret[q] /\ min'[q] = min[q] /\ i'[q] = i[q] /\ due'[q] = due[q]
  /\ \A n \in Node : counter[n] <= counter'[n] /\ (next[n] # NULL => next'[n] = next[n])
  /\ \A n \in Node, c \in Procs : cells'[n][c] \in {cells[n][c], arg[p], TAKEN}
  /\ \A v \in Items : v # arg[p] => at'[v] = at[v]
  /\ head <= head' /\ tail <= tail'

LEMMA Frame ==
  ASSUME IInv, NEW p \in Procs, Step(p)
  PROVE  Framed(p)
<1>0. TypeOK /\ CallOK
  BY DEF IInv
<1>1b. head \in Nat /\ tail \in Nat /\ \A n \in Node : counter[n] \in Nat
  BY <1>0, LastAssumption DEF TypeOK, Node
<1>. USE <1>0, <1>1b DEF Framed, TypeOK, Goto, Return, list, basket, reclaim, locals, history
<1>1. CASE ProtectLoad(p)
  BY <1>1 DEF ProtectLoad, Pointer
<1>2. CASE Publish(p)
  BY <1>2 DEF Publish
<1>3. CASE ProtectCheck(p)
  BY <1>3 DEF ProtectCheck, Pointer
<1>4. CASE AdvanceLoad(p)
  BY <1>4 DEF AdvanceLoad, Pointer
<1>5. CASE AdvanceCAS(p)
  <2>1. head \in Nat /\ tail \in Nat /\ node[p] \in Nat
    BY LastAssumption DEF Node
  <2>2. old[p] < node[p]
    BY <1>5 DEF AdvanceCAS, IInv, ListOK
  <2>3. head <= head' /\ tail <= tail'
    BY <1>5, <2>1, <2>2 DEF AdvanceCAS, Pointer
  <2>. QED
    BY <1>5, <2>3 DEF AdvanceCAS
<1>6. CASE EnqTail(p)
  BY <1>6 DEF EnqTail
<1>7. CASE EnqNext(p)
  BY <1>7 DEF EnqNext
<1>8. CASE EnqLink(p)
  <2>1. CASE next[node[p]] = NULL
    <3>1. /\ next' = [next EXCEPT ![node[p]] = node[p] + 1]
          /\ cells' = [cells EXCEPT ![node[p] + 1][p] = arg[p]]
          /\ heap' = heap \cup {node[p] + 1}
          /\ at' = [at EXCEPT ![arg[p]] = node[p] + 1]
          /\ pc' = [pc EXCEPT ![p] = "enqSwing"]
      BY <1>8, <2>1, LinkEffect
    <3>. QED
      BY <1>8, <3>1 DEF EnqLink
  <2>2. CASE next[node[p]] # NULL
    BY <1>8, <2>2 DEF EnqLink
  <2>. QED
    BY <2>1, <2>2
<1>9. CASE EnqSwing(p)
  <2>1. tail \in Nat /\ node[p] \in Nat
    BY LastAssumption DEF Node
  <2>. QED
    BY <1>9, <2>1 DEF EnqSwing
<1>10. CASE EnqAgain(p)
  BY <1>10 DEF EnqAgain
<1>11. CASE EnqInsert(p)
  <2>1. CASE cells[node[p]][p] = NONE
    <3>1. /\ cells' = [cells EXCEPT ![node[p]][p] = arg[p]]
          /\ at' = [at EXCEPT ![arg[p]] = node[p]]
      BY <1>11, <2>1 DEF EnqInsert
    <3>2. \A n \in Node, c \in Procs : cells'[n][c] \in {cells[n][c], arg[p]}
      BY <3>1
    <3>3. \A v \in Items : v # arg[p] => at'[v] = at[v]
      BY <3>1
    <3>. QED
      BY <1>11, <2>1, <3>2, <3>3 DEF EnqInsert
  <2>2. CASE cells[node[p]][p] # NONE
    BY <1>11, <2>2 DEF EnqInsert
  <2>. QED
    BY <2>1, <2>2
<1>12. CASE EnqWalk(p)
  BY <1>12 DEF EnqWalk
<1>13. CASE DeqEmpty(p)
  BY <1>13 DEF DeqEmpty
<1>14. CASE DeqNext(p)
  BY <1>14 DEF DeqNext
<1>15. CASE DeqTest(p)
  BY <1>15 DEF DeqTest
<1>16. CASE DeqDraw(p)
  BY <1>16 DEF DeqDraw
<1>17. CASE DeqFlag(p)
  BY <1>17 DEF DeqFlag
<1>18. CASE DeqCell(p)
  BY <1>18 DEF DeqCell
<1>19. CASE DeqLast(p)
  BY <1>19 DEF DeqLast
<1>20. CASE FreeTake(p)
  BY <1>20 DEF FreeTake
<1>21. CASE FreeScan(p)
  <2>1. \A q \in Procs \ {p} : min'[q] = min[q]
    BY <1>21, ScanEffect DEF IInv
  <2>. QED
    BY <1>21, <2>1 DEF FreeScan
<1>22. CASE FreeLoop(p)
  BY <1>22 DEF FreeLoop
<1>23. CASE FreeStore(p)
  BY <1>23 DEF FreeStore
<1>24. CASE Dequeue(p)
  BY <1>24 DEF Dequeue
<1>25. ASSUME NEW v \in Items, Enqueue(p, v) PROVE Framed(p)
  BY <1>25 DEF Enqueue
<1>. QED
  BY <1>1, <1>2, <1>3, <1>4, <1>5, <1>6, <1>7, <1>8, <1>9, <1>10, <1>11, <1>12, <1>13, <1>14, <1>15, <1>16,
     <1>17, <1>18, <1>19, <1>20, <1>21, <1>22, <1>23, <1>24, <1>25 DEF Step, EnqStep, DeqStep

\* The other threads' places are unaffected.
LEMMA DrawnOthers ==
  ASSUME IInv, NEW p \in Procs, Framed(p), TypeOK', PlaceDrawn(p)'
  PROVE  \A q \in Procs : PlaceDrawn(q)'
<1>. SUFFICES ASSUME NEW q \in Procs, q # p PROVE PlaceDrawn(q)'
  OBVIOUS
<1>1. PlaceDrawn(q)
  BY DEF IInv, DrawOK
<1>2. \A n \in Node : Drawn(n) => Drawn(n)'
  <2>. SUFFICES ASSUME NEW n \in Node, Drawn(n) PROVE Drawn(n)'
    OBVIOUS
  <2>1. counter[n] \in Nat /\ counter'[n] \in Nat /\ counter[n] <= counter'[n]
    BY DEF IInv, TypeOK, Framed
  <2>. QED
    BY <2>1, Threads DEF Drawn
<1>3. counter[node[q]] \in Nat /\ counter'[node[q]] \in Nat /\ counter[node[q]] <= counter'[node[q]]
  BY DEF IInv, TypeOK, Framed
<1>4. idx[q] \in Nat /\ node[q] \in Node /\ old[q] \in Node
  BY DEF IInv, TypeOK
<1>. QED
  BY <1>1, <1>2, <1>3, <1>4 DEF PlaceDrawn, Framed, AtWork, Enqueuing

\* A step that draws nothing and empties nothing.
LEMMA DrawLocal ==
  ASSUME IInv, TypeOK', NEW p \in Procs, Framed(p),
         pc[p] \notin {"deqFlag", "deqCell"}, UNCHANGED <<counter, cells, empty>>,
         \A n \in Node : n < head' => Drawn(n), PlaceDrawn(p)'
  PROVE  DrawOK'
<1>1. \A q \in Procs : PlaceDrawn(q)'
  BY DrawnOthers
<1>2. \A n \in Node, c \in Procs, q \in Procs : Drawing(q, n, c) => Drawing(q, n, c)'
  BY DEF Framed, Drawing
<1>3. CellsDrawn'
  BY <1>2 DEF IInv, DrawOK, CellsDrawn
<1>4. \A n \in Node : empty'[n] \/ n < head' => Drawn(n)'
  BY DEF IInv, DrawOK, Drawn
<1>. QED
  BY <1>1, <1>3, <1>4 DEF DrawOK

\* Cells are drawn one after the other, and nobody passes by one that was not.
LEMMA DrawStep ==
  ASSUME IInv, Next
  PROVE  DrawOK'
<1>0. IInv /\ TypeOK /\ CallOK /\ ListOK /\ DrawOK /\ CellsDrawn
      /\ \A p \in Procs : PlaceDrawn(p)
      /\ \A n \in Node : empty[n] \/ n < head => Drawn(n)
  BY DEF IInv, DrawOK
<1>. SUFFICES ASSUME NEW p \in Procs, Step(p)
              PROVE  DrawOK'
  BY DEF Next, Step
<1>a. Framed(p) /\ TypeOK'
  BY Frame, TypeStep
<1>. USE <1>0, <1>a DEF list, basket, reclaim, locals, history, EnqLabels, DrawLabels, FreeLabels
<1>1. CASE ProtectLoad(p)
  <2>1. PlaceDrawn(p)'
    BY <1>1 DEF ProtectLoad, PlaceDrawn, Drawn, Pointer, Enqueuing, AtWork, CallOK, Goto, Return, TypeOK
  <2>2. UNCHANGED <<counter, cells, empty, head>> /\ pc[p] \notin {"deqFlag", "deqCell"}
    BY <1>1 DEF ProtectLoad
  <2>. QED
    BY <2>1, <2>2, DrawLocal DEF DrawOK
<1>2. CASE Publish(p)
  <2>1. PlaceDrawn(p)'
    BY <1>2 DEF Publish, PlaceDrawn, Drawn, Pointer, Enqueuing, AtWork, CallOK, Goto, Return, TypeOK
  <2>2. UNCHANGED <<counter, cells, empty, head>> /\ pc[p] \notin {"deqFlag", "deqCell"}
    BY <1>2 DEF Publish
  <2>. QED
    BY <2>1, <2>2, DrawLocal DEF DrawOK
<1>3. CASE ProtectCheck(p)
  <2>1. PlaceDrawn(p)'
    BY <1>3 DEF ProtectCheck, PlaceDrawn, Drawn, Pointer, Enqueuing, AtWork, CallOK, Goto, Return, TypeOK
  <2>2. UNCHANGED <<counter, cells, empty, head>> /\ pc[p] \notin {"deqFlag", "deqCell"}
    BY <1>3 DEF ProtectCheck
  <2>. QED
    BY <2>1, <2>2, DrawLocal DEF DrawOK
<1>4. CASE AdvanceLoad(p)
  <2>1. PlaceDrawn(p)'
    BY <1>4 DEF AdvanceLoad, PlaceDrawn, Drawn, Pointer, Enqueuing, AtWork, CallOK, Goto, Return, TypeOK
  <2>2. UNCHANGED <<counter, cells, empty, head>> /\ pc[p] \notin {"deqFlag", "deqCell"}
    BY <1>4 DEF AdvanceLoad
  <2>. QED
    BY <2>1, <2>2, DrawLocal DEF DrawOK
<1>5. CASE AdvanceCAS(p)
  <2>1. PlaceDrawn(p)'
    BY <1>5 DEF AdvanceCAS, PlaceDrawn, Drawn, Enqueuing, AtWork, CallOK, Goto, TypeOK
  <2>2. UNCHANGED <<counter, cells, empty>> /\ pc[p] \notin {"deqFlag", "deqCell"}
    BY <1>5 DEF AdvanceCAS
  <2>3. head' = head \/ (head' = node[p] /\ ~Enqueuing(p) /\ AtWork(p))
    <3>1. AtWork(p)
      BY <1>5 DEF AdvanceCAS, AtWork
    <3>2. CASE Pointer(p) # old[p]
      BY <1>5, <3>2 DEF AdvanceCAS, Pointer
    <3>3. CASE Pointer(p) = old[p]
      BY <1>5, <3>1, <3>3 DEF AdvanceCAS, Pointer
    <3>. QED
      BY <3>2, <3>3
  <2>4. \A n \in Node : n < head' => Drawn(n)
    BY <2>3 DEF PlaceDrawn
  <2>. QED
    BY <2>1, <2>2, <2>4, DrawLocal
<1>6. CASE EnqTail(p)
  <2>1. PlaceDrawn(p)'
    BY <1>6 DEF EnqTail, PlaceDrawn, Drawn, Pointer, Enqueuing, AtWork, CallOK, Goto, Return, TypeOK
  <2>2. UNCHANGED <<counter, cells, empty, head>> /\ pc[p] \notin {"deqFlag", "deqCell"}
    BY <1>6 DEF EnqTail
  <2>. QED
    BY <2>1, <2>2, DrawLocal DEF DrawOK
<1>7. CASE EnqNext(p)
  <2>1. PlaceDrawn(p)'
    BY <1>7 DEF EnqNext, PlaceDrawn, Drawn, Pointer, Enqueuing, AtWork, CallOK, Goto, Return, TypeOK
  <2>2. UNCHANGED <<counter, cells, empty, head>> /\ pc[p] \notin {"deqFlag", "deqCell"}
    BY <1>7 DEF EnqNext
  <2>. QED
    BY <2>1, <2>2, DrawLocal DEF DrawOK
<1>8. CASE EnqLink(p)
  <2>1. PlaceDrawn(p)'
    <3>1. pc'[p] \in {"enqSwing", "enqAgain"} /\ arg'[p] # NONE
      BY <1>8 DEF EnqLink, Goto, TypeOK, CallOK
    <3>. QED
      BY <3>1 DEF PlaceDrawn, Enqueuing
  <2>2. pc[p] \notin {"deqFlag", "deqCell"} /\ UNCHANGED <<counter, empty, head>>
    BY <1>8 DEF EnqLink
  <2>3. CASE next[node[p]] = NULL
    <3>0. node[p] + 1 \in Node /\ cells' = [cells EXCEPT ![node[p] + 1][p] = arg[p]]
      BY <1>8, <2>3, LinkEffect
    <3>1. ~Linked(node[p] + 1)
      <4>1. node[p] + 1 # 0 /\ (node[p] + 1) - 1 = node[p]
        <5>1. node[p] \in Node
          BY DEF TypeOK
        <5>. QED
          BY <5>1, LastAssumption DEF Node
      <4>. QED
        BY <2>3, <4>1 DEF Linked
    <3>2. counter[node[p] + 1] = 0
      BY <3>0, <3>1 DEF ListOK
    <3>3. \A n \in Node, c \in Procs : c < counter[n] => cells'[n][c] = cells[n][c]
      BY <3>0, <3>2, Threads DEF TypeOK
    <3>4. \A n \in Node, c \in Procs, q \in Procs : Drawing(q, n, c) => Drawing(q, n, c)'
      BY <2>2 DEF Framed, Drawing
    <3>5. CellsDrawn'
      BY <2>2, <3>3, <3>4 DEF CellsDrawn
    <3>. QED
      BY <2>1, <2>2, <3>5, DrawnOthers DEF DrawOK, Drawn
  <2>4. CASE next[node[p]] # NULL
    <3>1. UNCHANGED cells
      BY <1>8, <2>4 DEF EnqLink
    <3>. QED
      BY <2>1, <2>2, <3>1, DrawLocal
  <2>. QED
    BY <2>3, <2>4
<1>9. CASE EnqSwing(p)
  <2>1. PlaceDrawn(p)'
    BY <1>9 DEF EnqSwing, PlaceDrawn, Drawn, Pointer, Enqueuing, AtWork, CallOK, Goto, Return, TypeOK
  <2>2. UNCHANGED <<counter, cells, empty, head>> /\ pc[p] \notin {"deqFlag", "deqCell"}
    BY <1>9 DEF EnqSwing
  <2>. QED
    BY <2>1, <2>2, DrawLocal DEF DrawOK
<1>10. CASE EnqAgain(p)
  <2>1. PlaceDrawn(p)'
    BY <1>10 DEF EnqAgain, PlaceDrawn, Drawn, Pointer, Enqueuing, AtWork, CallOK, Goto, Return, TypeOK
  <2>2. UNCHANGED <<counter, cells, empty, head>> /\ pc[p] \notin {"deqFlag", "deqCell"}
    BY <1>10 DEF EnqAgain
  <2>. QED
    BY <2>1, <2>2, DrawLocal DEF DrawOK
<1>11. CASE EnqInsert(p)
  <2>1. PlaceDrawn(p)'
    <3>1. pc'[p] = "idle" \/ (pc'[p] = "enqWalk" /\ arg'[p] # NONE)
      BY <1>11 DEF EnqInsert, Goto, Return, TypeOK, CallOK
    <3>. QED
      BY <3>1 DEF PlaceDrawn, Enqueuing, AtWork
  <2>2. pc[p] \notin {"deqFlag", "deqCell"} /\ UNCHANGED <<counter, empty, head>>
    BY <1>11 DEF EnqInsert
  <2>3. CASE cells[node[p]][p] = NONE
    <3>0. cells' = [cells EXCEPT ![node[p]][p] = arg[p]]
      BY <1>11, <2>3, InsertEffect
    <3>1. \A n \in Node, c \in Procs : cells'[n][c] = cells[n][c] \/ cells[n][c] = NONE
      BY <2>3, <3>0 DEF TypeOK
    <3>2. \A n \in Node, c \in Procs, q \in Procs : Drawing(q, n, c) => Drawing(q, n, c)'
      BY <2>2 DEF Framed, Drawing
    <3>3. CellsDrawn'
      BY <2>2, <3>1, <3>2, ValuesAssumption DEF CellsDrawn
    <3>. QED
      BY <2>1, <2>2, <3>3, DrawnOthers DEF DrawOK, Drawn
  <2>4. CASE cells[node[p]][p] # NONE
    <3>1. UNCHANGED cells
      BY <1>11, <2>4 DEF EnqInsert
    <3>. QED
      BY <2>1, <2>2, <3>1, DrawLocal
  <2>. QED
    BY <2>3, <2>4
<1>12. CASE EnqWalk(p)
  <2>1. PlaceDrawn(p)'
    BY <1>12 DEF EnqWalk, PlaceDrawn, Drawn, Pointer, Enqueuing, AtWork, CallOK, Goto, Return, TypeOK
  <2>2. UNCHANGED <<counter, cells, empty, head>> /\ pc[p] \notin {"deqFlag", "deqCell"}
    BY <1>12 DEF EnqWalk
  <2>. QED
    BY <2>1, <2>2, DrawLocal DEF DrawOK
<1>13. CASE DeqEmpty(p)
  <2>1. PlaceDrawn(p)'
    BY <1>13 DEF DeqEmpty, PlaceDrawn, Drawn, Pointer, Enqueuing, AtWork, CallOK, Goto, Return, TypeOK
  <2>2. UNCHANGED <<counter, cells, empty, head>> /\ pc[p] \notin {"deqFlag", "deqCell"}
    BY <1>13 DEF DeqEmpty
  <2>. QED
    BY <2>1, <2>2, DrawLocal DEF DrawOK
<1>14. CASE DeqNext(p)
  <2>1. ASSUME next[node[p]] # NULL PROVE PlaceDrawn(p)'
    <3>1. node[p] \in Node /\ next[node[p]] = node[p] + 1 /\ node[p] + 1 \in Node
      BY <2>1, LinkedNext DEF TypeOK
    <3>2. pc'[p] = "deqEmpty" /\ arg'[p] = arg[p] /\ arg[p] = NONE /\ node'[p] = node[p] + 1
      BY <1>14, <2>1, <3>1 DEF DeqNext, Goto, TypeOK, CallOK
    <3>3. Drawn(node[p]) /\ \A n \in Node : n < node[p] => Drawn(n)
      BY <1>14, <3>2 DEF DeqNext, PlaceDrawn, AtWork, Enqueuing
    <3>4. \A n \in Node : n < node[p] + 1 => n < node[p] \/ n = node[p]
      BY <3>1, LastAssumption DEF Node
    <3>5. UNCHANGED counter
      BY <1>14 DEF DeqNext
    <3>6. \A n \in Node : n < node'[p] => Drawn(n)'
      BY <3>2, <3>3, <3>4, <3>5 DEF Drawn
    <3>. QED
      BY <3>2, <3>6 DEF PlaceDrawn, AtWork
  <2>2. ASSUME next[node[p]] = NULL PROVE PlaceDrawn(p)'
    <3>1. /\ pc'[p] = "deqTest" /\ arg'[p] = arg[p] /\ arg[p] = NONE /\ node'[p] = node[p]
          /\ UNCHANGED counter
      BY <1>14, <2>2 DEF DeqNext, Goto, TypeOK, CallOK
    <3>2. \A n \in Node : n < node[p] => Drawn(n)
      BY <1>14, <3>1 DEF DeqNext, PlaceDrawn, AtWork, Enqueuing
    <3>. QED
      BY <3>1, <3>2 DEF PlaceDrawn, AtWork, Drawn
  <2>3. UNCHANGED <<counter, cells, empty, head>> /\ pc[p] \notin {"deqFlag", "deqCell"}
    BY <1>14 DEF DeqNext
  <2>. QED
    BY <2>1, <2>2, <2>3, DrawLocal DEF DrawOK
<1>15. CASE DeqTest(p)
  <2>1. PlaceDrawn(p)'
    BY <1>15 DEF DeqTest, PlaceDrawn, Drawn, Pointer, Enqueuing, AtWork, CallOK, Goto, Return, TypeOK
  <2>2. UNCHANGED <<counter, cells, empty, head>> /\ pc[p] \notin {"deqFlag", "deqCell"}
    BY <1>15 DEF DeqTest
  <2>. QED
    BY <2>1, <2>2, DrawLocal DEF DrawOK
<1>16. CASE DeqDraw(p)
  <2>0. node[p] \in Node /\ counter[node[p]] \in Nat /\ arg[p] = NONE
    BY <1>16 DEF DeqDraw, TypeOK, CallOK
  <2>1. /\ counter' = [counter EXCEPT ![node[p]] = counter[node[p]] + 1]
        /\ idx'[p] = counter[node[p]] /\ node'[p] = node[p] /\ UNCHANGED <<cells, empty, head>>
        /\ arg'[p] = NONE
    BY <1>16, <2>0 DEF DeqDraw, Goto, TypeOK
  <2>2. /\ counter'[node[p]] = counter[node[p]] + 1
        /\ \A n \in Node : Drawn(n) => Drawn(n)'
    BY <2>0, <2>1, Threads DEF Drawn, TypeOK
  <2>3. \/ pc'[p] = "deqLast" /\ counter[node[p]] >= ENQUEUERS
        \/ pc'[p] = "deqFlag" /\ counter[node[p]] = ENQUEUERS - 1 /\ counter[node[p]] \in Procs
        \/ pc'[p] = "deqCell" /\ counter[node[p]] \in Procs
    <3>1. pc'[p] = IF counter[node[p]] >= ENQUEUERS THEN "deqLast"
                   ELSE IF counter[node[p]] = ENQUEUERS - 1 THEN "deqFlag" ELSE "deqCell"
      BY <1>16 DEF DeqDraw, Goto, TypeOK
    <3>2. counter[node[p]] >= ENQUEUERS \/ counter[node[p]] \in Procs
      BY <2>0, Threads
    <3>. QED
      BY <3>1, <3>2
  <2>4. PlaceDrawn(p)'
    <3>1. \A n \in Node : n < node[p] => Drawn(n)
      BY <1>16, <2>0 DEF DeqDraw, PlaceDrawn, AtWork, Enqueuing
    <3>2. pc'[p] = "deqLast" => Drawn(node[p])
      BY <2>3 DEF Drawn
    <3>. QED
      BY <2>0, <2>1, <2>2, <2>3, <3>1, <3>2 DEF PlaceDrawn
  <2>5. CellsDrawn'
    <3>. SUFFICES ASSUME NEW n \in Node, NEW c \in Procs, c < counter'[n]
                  PROVE  cells'[n][c] = TAKEN \/ \E q \in Procs : Drawing(q, n, c)'
      BY DEF CellsDrawn
    <3>1. CASE c < counter[n]
      <4>1. \A q \in Procs : Drawing(q, n, c) => q # p /\ Drawing(q, n, c)'
        BY <1>16 DEF DeqDraw, Framed, Drawing
      <4>. QED
        BY <2>1, <3>1, <4>1 DEF CellsDrawn
    <3>2. CASE ~(c < counter[n])
      <4>1. n = node[p] /\ c = counter[n]
        <5>1. c \in Nat /\ counter[n] \in Nat
          BY Threads DEF TypeOK
        <5>2. counter'[n] = IF n = node[p] THEN counter[n] + 1 ELSE counter[n]
          BY <2>1 DEF TypeOK
        <5>. QED
          BY <3>2, <5>1, <5>2
      <4>2. Drawing(p, n, c)'
        BY <2>1, <2>3, <4>1, Threads DEF Drawing
      <4>. QED
        BY <4>2
    <3>. QED
      BY <3>1, <3>2
  <2>. QED
    BY <2>1, <2>2, <2>4, <2>5, DrawnOthers DEF DrawOK
<1>17. CASE DeqFlag(p)
  <2>1. /\ UNCHANGED <<counter, cells, head>> /\ node'[p] = node[p] /\ idx'[p] = idx[p]
        /\ empty' = [empty EXCEPT ![node[p]] = TRUE]
        /\ pc[p] = "deqFlag" /\ pc'[p] = "deqCell" /\ arg'[p] = arg[p]
    BY <1>17 DEF DeqFlag, Goto, TypeOK
  <2>2. PlaceDrawn(p)'
    BY <2>1 DEF PlaceDrawn, Drawn, AtWork, Enqueuing
  <2>3. \A n \in Node, c \in Procs, q \in Procs : Drawing(q, n, c) => Drawing(q, n, c)'
    BY <2>1 DEF Framed, Drawing
  <2>4. CellsDrawn'
    BY <2>1, <2>3 DEF CellsDrawn
  <2>5. Drawn(node[p])
    <3>1. counter[node[p]] \in Nat /\ idx[p] = ENQUEUERS - 1 /\ idx[p] < counter[node[p]]
      BY <2>1 DEF PlaceDrawn, TypeOK
    <3>. QED
      BY <3>1, Threads DEF Drawn
  <2>6. \A n \in Node : empty'[n] \/ n < head' => Drawn(n)'
    BY <2>1, <2>5 DEF Drawn, TypeOK
  <2>. QED
    BY <2>2, <2>4, <2>6, DrawnOthers DEF DrawOK
<1>18. CASE DeqCell(p)
  <2>1. /\ UNCHANGED <<counter, empty, head>> /\ node'[p] = node[p] /\ arg'[p] = arg[p]
        /\ node[p] \in Node /\ idx[p] \in Procs
        /\ cells' = [cells EXCEPT ![node[p]][idx[p]] = TAKEN]
        /\ pc[p] = "deqCell" /\ pc'[p] \in {"deqDraw", "advLoad"}
    BY <1>18 DEF DeqCell, Goto, TypeOK, PlaceDrawn
  <2>2. PlaceDrawn(p)'
    BY <2>1 DEF PlaceDrawn, Drawn, AtWork, Enqueuing
  <2>3. CellsDrawn'
    <3>. SUFFICES ASSUME NEW n \in Node, NEW c \in Procs, c < counter[n]
                  PROVE  cells'[n][c] = TAKEN \/ \E q \in Procs : Drawing(q, n, c)'
      BY <2>1 DEF CellsDrawn
    <3>1. CASE n = node[p] /\ c = idx[p]
      BY <2>1, <3>1 DEF TypeOK
    <3>2. CASE ~(n = node[p] /\ c = idx[p])
      <4>1. cells'[n][c] = cells[n][c]
        BY <2>1, <3>2 DEF TypeOK
      <4>2. \A q \in Procs : Drawing(q, n, c) => Drawing(q, n, c)'
        BY <3>2 DEF Framed, Drawing
      <4>. QED
        BY <4>1, <4>2 DEF CellsDrawn
    <3>. QED
      BY <3>1, <3>2
  <2>. QED
    BY <2>1, <2>2, <2>3, DrawnOthers DEF DrawOK, Drawn
<1>19. CASE DeqLast(p)
  <2>1. PlaceDrawn(p)'
    BY <1>19 DEF DeqLast, PlaceDrawn, Drawn, Pointer, Enqueuing, AtWork, CallOK, Goto, Return, TypeOK
  <2>2. UNCHANGED <<counter, cells, empty, head>> /\ pc[p] \notin {"deqFlag", "deqCell"}
    BY <1>19 DEF DeqLast
  <2>. QED
    BY <2>1, <2>2, DrawLocal DEF DrawOK
<1>20. CASE FreeTake(p)
  <2>1. pc'[p] \in {"idle", "freeScan"} /\ node'[p] = node[p] /\ UNCHANGED counter
    BY <1>20 DEF FreeTake, Goto, Return, TypeOK
  <2>2. \A n \in Node : n < node[p] => Drawn(n)
    BY <1>20 DEF FreeTake, PlaceDrawn, AtWork, Enqueuing, CallOK
  <2>3. PlaceDrawn(p)'
    BY <2>1, <2>2 DEF PlaceDrawn, AtWork, Drawn
  <2>4. UNCHANGED <<counter, cells, empty, head>> /\ pc[p] \notin {"deqFlag", "deqCell"}
    BY <1>20 DEF FreeTake
  <2>. QED
    BY <2>3, <2>4, DrawLocal DEF DrawOK
<1>21. CASE FreeScan(p)
  <2>1. PlaceDrawn(p)'
    BY <1>21 DEF FreeScan, PlaceDrawn, Drawn, Pointer, Enqueuing, AtWork, CallOK, Goto, Return, TypeOK
  <2>2. UNCHANGED <<counter, cells, empty, head>> /\ pc[p] \notin {"deqFlag", "deqCell"}
    BY <1>21 DEF FreeScan
  <2>. QED
    BY <2>1, <2>2, DrawLocal DEF DrawOK
<1>22. CASE FreeLoop(p)
  <2>1. PlaceDrawn(p)'
    BY <1>22 DEF FreeLoop, PlaceDrawn, Drawn, Pointer, Enqueuing, AtWork, CallOK, Goto, Return, TypeOK
  <2>2. UNCHANGED <<counter, cells, empty, head>> /\ pc[p] \notin {"deqFlag", "deqCell"}
    BY <1>22 DEF FreeLoop
  <2>. QED
    BY <2>1, <2>2, DrawLocal DEF DrawOK
<1>23. CASE FreeStore(p)
  <2>1. PlaceDrawn(p)'
    BY <1>23 DEF FreeStore, PlaceDrawn, Drawn, Pointer, Enqueuing, AtWork, CallOK, Goto, Return, TypeOK
  <2>2. UNCHANGED <<counter, cells, empty, head>> /\ pc[p] \notin {"deqFlag", "deqCell"}
    BY <1>23 DEF FreeStore
  <2>. QED
    BY <2>1, <2>2, DrawLocal DEF DrawOK
<1>24. CASE Dequeue(p)
  <2>1. PlaceDrawn(p)'
    BY <1>24 DEF Dequeue, PlaceDrawn, Drawn, Pointer, Enqueuing, AtWork, CallOK, Goto, Return, TypeOK
  <2>2. UNCHANGED <<counter, cells, empty, head>> /\ pc[p] \notin {"deqFlag", "deqCell"}
    BY <1>24 DEF Dequeue
  <2>. QED
    BY <2>1, <2>2, DrawLocal DEF DrawOK
<1>25. ASSUME NEW v \in Items, Enqueue(p, v) PROVE DrawOK'
  <2>1. PlaceDrawn(p)'
    BY <1>25 DEF Enqueue, PlaceDrawn, Drawn, Pointer, Enqueuing, AtWork, CallOK, Goto, Return, TypeOK
  <2>2. UNCHANGED <<counter, cells, empty, head>> /\ pc[p] \notin {"deqFlag", "deqCell"}
    BY <1>25 DEF Enqueue
  <2>. QED
    BY <2>1, <2>2, DrawLocal DEF DrawOK
<1>. QED
  BY <1>1, <1>2, <1>3, <1>4, <1>5, <1>6, <1>7, <1>8, <1>9, <1>10, <1>11, <1>12, <1>13, <1>14, <1>15, <1>16,
     <1>17, <1>18, <1>19, <1>20, <1>21, <1>22, <1>23, <1>24, <1>25 DEF Step, EnqStep, DeqStep

\* A step that begins no call.
LEMMA ItemLocal ==
  ASSUME IInv, TypeOK', NEW p \in Procs, Framed(p),
         used' = used, due' = due, arg'[p] \in {arg[p], NONE},
         arg[p] = NONE => UNCHANGED at
  PROVE  ItemOK'
<1>. USE DEF Framed
<1>0. TypeOK /\ ItemOK
  BY DEF IInv
<1>1. \A q \in Procs : arg'[q] \in {arg[q], NONE}
  OBVIOUS
<1>2. \A q \in Procs : arg'[q] # NONE => arg'[q] \in used'
  BY <1>0, <1>1 DEF ItemOK
<1>3. \A q, r \in Procs : arg'[q] # NONE /\ arg'[q] = arg'[r] => q = r
  BY <1>0, <1>1 DEF ItemOK
<1>4. \A v \in Items : at'[v] # -1 => v \in used'
  BY <1>0 DEF ItemOK
<1>5. \A n \in Node, c \in Procs : cells'[n][c] \in Items => cells'[n][c] \in used'
  BY <1>0, ValuesAssumption DEF ItemOK
<1>6. \A q \in Procs : due'[q] \subseteq used'
  BY <1>0 DEF ItemOK
<1>7. \A q, r \in Procs : arg'[r] \notin due'[q]
  <2>. SUFFICES ASSUME NEW q \in Procs, NEW r \in Procs, arg'[r] \in due[q] PROVE FALSE
    OBVIOUS
  <2>1. arg'[r] = arg[r]
    BY <1>0, <1>1, ValuesAssumption DEF TypeOK
  <2>. QED
    BY <1>0, <2>1 DEF ItemOK
<1>. QED
  BY <1>2, <1>3, <1>4, <1>5, <1>6, <1>7 DEF ItemOK

\* No item is enqueued twice, and what a dequeue is due was placed before it.
LEMMA ItemStep ==
  ASSUME IInv, Next
  PROVE  ItemOK'
<1>0. IInv /\ TypeOK /\ CallOK /\ ItemOK
  BY DEF IInv
<1>. SUFFICES ASSUME NEW p \in Procs, Step(p)
              PROVE  ItemOK'
  BY DEF Next, Step
<1>a. Framed(p) /\ TypeOK'
  BY Frame, TypeStep
<1>. USE <1>0, <1>a DEF list, basket, reclaim, locals, history, EnqLabels, DrawLabels, FreeLabels, Goto, Return, TypeOK
<1>1. CASE ProtectLoad(p)
  <2>1. used' = used /\ due' = due /\ arg'[p] \in {arg[p], NONE} /\ (arg[p] = NONE => at' = at)
    BY <1>1 DEF ProtectLoad
  <2>. QED
    BY <2>1, ItemLocal
<1>2. CASE Publish(p)
  <2>1. used' = used /\ due' = due /\ arg'[p] \in {arg[p], NONE} /\ (arg[p] = NONE => at' = at)
    BY <1>2 DEF Publish
  <2>. QED
    BY <2>1, ItemLocal
<1>3. CASE ProtectCheck(p)
  <2>1. used' = used /\ due' = due /\ arg'[p] \in {arg[p], NONE} /\ (arg[p] = NONE => at' = at)
    BY <1>3 DEF ProtectCheck
  <2>. QED
    BY <2>1, ItemLocal
<1>4. CASE AdvanceLoad(p)
  <2>1. used' = used /\ due' = due /\ arg'[p] \in {arg[p], NONE} /\ (arg[p] = NONE => at' = at)
    BY <1>4 DEF AdvanceLoad
  <2>. QED
    BY <2>1, ItemLocal
<1>5. CASE AdvanceCAS(p)
  <2>1. used' = used /\ due' = due /\ arg'[p] \in {arg[p], NONE} /\ (arg[p] = NONE => at' = at)
    BY <1>5 DEF AdvanceCAS
  <2>. QED
    BY <2>1, ItemLocal
<1>6. CASE EnqTail(p)
  <2>1. used' = used /\ due' = due /\ arg'[p] \in {arg[p], NONE} /\ (arg[p] = NONE => at' = at)
    BY <1>6 DEF EnqTail
  <2>. QED
    BY <2>1, ItemLocal
<1>7. CASE EnqNext(p)
  <2>1. used' = used /\ due' = due /\ arg'[p] \in {arg[p], NONE} /\ (arg[p] = NONE => at' = at)
    BY <1>7 DEF EnqNext
  <2>. QED
    BY <2>1, ItemLocal
<1>8. CASE EnqLink(p)
  <2>1. used' = used /\ due' = due /\ arg'[p] \in {arg[p], NONE} /\ (arg[p] = NONE => at' = at)
    BY <1>8 DEF EnqLink, CallOK
  <2>. QED
    BY <2>1, ItemLocal
<1>9. CASE EnqSwing(p)
  <2>1. used' = used /\ due' = due /\ arg'[p] \in {arg[p], NONE} /\ (arg[p] = NONE => at' = at)
    BY <1>9 DEF EnqSwing
  <2>. QED
    BY <2>1, ItemLocal
<1>10. CASE EnqAgain(p)
  <2>1. used' = used /\ due' = due /\ arg'[p] \in {arg[p], NONE} /\ (arg[p] = NONE => at' = at)
    BY <1>10 DEF EnqAgain
  <2>. QED
    BY <2>1, ItemLocal
<1>11. CASE EnqInsert(p)
  <2>1. used' = used /\ due' = due /\ arg'[p] \in {arg[p], NONE}
    BY <1>11 DEF EnqInsert
  <2>2. arg[p] # NONE
    BY <1>11 DEF EnqInsert, CallOK
  <2>. QED
    BY <2>1, <2>2, ItemLocal
<1>12. CASE EnqWalk(p)
  <2>1. used' = used /\ due' = due /\ arg'[p] \in {arg[p], NONE} /\ (arg[p] = NONE => at' = at)
    BY <1>12 DEF EnqWalk
  <2>. QED
    BY <2>1, ItemLocal
<1>13. CASE DeqEmpty(p)
  <2>1. used' = used /\ due' = due /\ arg'[p] \in {arg[p], NONE} /\ (arg[p] = NONE => at' = at)
    BY <1>13 DEF DeqEmpty
  <2>. QED
    BY <2>1, ItemLocal
<1>14. CASE DeqNext(p)
  <2>1. used' = used /\ due' = due /\ arg'[p] \in {arg[p], NONE} /\ (arg[p] = NONE => at' = at)
    BY <1>14 DEF DeqNext
  <2>. QED
    BY <2>1, ItemLocal
<1>15. CASE DeqTest(p)
  <2>1. used' = used /\ due' = due /\ arg'[p] \in {arg[p], NONE} /\ (arg[p] = NONE => at' = at)
    BY <1>15 DEF DeqTest
  <2>. QED
    BY <2>1, ItemLocal
<1>16. CASE DeqDraw(p)
  <2>1. used' = used /\ due' = due /\ arg'[p] \in {arg[p], NONE} /\ (arg[p] = NONE => at' = at)
    BY <1>16 DEF DeqDraw
  <2>. QED
    BY <2>1, ItemLocal
<1>17. CASE DeqFlag(p)
  <2>1. used' = used /\ due' = due /\ arg'[p] \in {arg[p], NONE} /\ (arg[p] = NONE => at' = at)
    BY <1>17 DEF DeqFlag
  <2>. QED
    BY <2>1, ItemLocal
<1>18. CASE DeqCell(p)
  <2>1. used' = used /\ due' = due /\ arg'[p] \in {arg[p], NONE} /\ (arg[p] = NONE => at' = at)
    BY <1>18 DEF DeqCell
  <2>. QED
    BY <2>1, ItemLocal
<1>19. CASE DeqLast(p)
  <2>1. used' = used /\ due' = due /\ arg'[p] \in {arg[p], NONE} /\ (arg[p] = NONE => at' = at)
    BY <1>19 DEF DeqLast
  <2>. QED
    BY <2>1, ItemLocal
<1>20. CASE FreeTake(p)
  <2>1. used' = used /\ due' = due /\ arg'[p] \in {arg[p], NONE} /\ (arg[p] = NONE => at' = at)
    BY <1>20 DEF FreeTake
  <2>. QED
    BY <2>1, ItemLocal
<1>21. CASE FreeScan(p)
  <2>1. used' = used /\ due' = due /\ arg'[p] \in {arg[p], NONE} /\ (arg[p] = NONE => at' = at)
    BY <1>21 DEF FreeScan
  <2>. QED
    BY <2>1, ItemLocal
<1>22. CASE FreeLoop(p)
  <2>1. used' = used /\ due' = due /\ arg'[p] \in {arg[p], NONE} /\ (arg[p] = NONE => at' = at)
    BY <1>22 DEF FreeLoop
  <2>. QED
    BY <2>1, ItemLocal
<1>23. CASE FreeStore(p)
  <2>1. used' = used /\ due' = due /\ arg'[p] \in {arg[p], NONE} /\ (arg[p] = NONE => at' = at)
    BY <1>23 DEF FreeStore
  <2>. QED
    BY <2>1, ItemLocal
<1>24. CASE Dequeue(p)
  <2>1. /\ UNCHANGED <<used, arg, at, cells>>
        /\ due' = [due EXCEPT ![p] = (UNION {Undrawn(n) : n \in Node}) \ {arg[q] : q \in Procs}]
    BY <1>24 DEF Dequeue
  <2>2. \A n \in Node : Undrawn(n) \subseteq used
    BY DEF Undrawn, ItemOK
  <2>3. due'[p] \subseteq used /\ \A q \in Procs : arg[q] \notin due'[p]
    <3>0. DOMAIN due = Procs
      BY DEF TypeOK
    <3>1. due'[p] = (UNION {Undrawn(n) : n \in Node}) \ {arg[q] : q \in Procs}
      BY ONLY <2>1, <3>0, p \in Procs
    <3>2. ASSUME NEW v \in due'[p] PROVE (\E n \in Node : v \in Undrawn(n)) /\ \A q \in Procs : v # arg[q]
      <4>1. v \in UNION {Undrawn(n) : n \in Node} /\ v \notin {arg[q] : q \in Procs}
        BY ONLY <3>1, v \in due'[p]
      <4>. QED
        BY ONLY <4>1, Zenon
    <3>. QED
      BY <2>2, <3>2
  <2>4. \A r \in Procs : due'[r] \subseteq used /\ \A q \in Procs : arg[q] \notin due'[r]
    BY <2>1, <2>3 DEF TypeOK, ItemOK
  <2>. QED
    BY <2>1, <2>4 DEF ItemOK
<1>25. ASSUME NEW v \in Items, Enqueue(p, v) PROVE ItemOK'
  <2>1. /\ v \notin used /\ used' = used \cup {v} /\ arg' = [arg EXCEPT ![p] = v]
        /\ UNCHANGED <<cells, at, due>>
    BY <1>25 DEF Enqueue
  <2>2. \A q \in Procs : arg'[q] = IF q = p THEN v ELSE arg[q]
    BY <2>1 DEF TypeOK
  <2>. QED
    BY <2>1, <2>2 DEF ItemOK
<1>. QED
  BY <1>1, <1>2, <1>3, <1>4, <1>5, <1>6, <1>7, <1>8, <1>9, <1>10, <1>11, <1>12, <1>13, <1>14, <1>15, <1>16,
     <1>17, <1>18, <1>19, <1>20, <1>21, <1>22, <1>23, <1>24, <1>25 DEF Step, EnqStep, DeqStep

\* What is undrawn after a step was so before it, or is the item of its enqueue.
LEMMA UndrawnShrinks ==
  ASSUME IInv, TypeOK', NEW p \in Procs, Framed(p), NEW n \in Node
  PROVE  Undrawn(n)' \subseteq Undrawn(n) \cup {arg[p]}
<1>. SUFFICES ASSUME NEW c \in Procs, c >= counter'[n], cells'[n][c] \in Items, cells'[n][c] # arg[p]
              PROVE  c >= counter[n] /\ cells[n][c] = cells'[n][c]
  BY DEF Undrawn
<1>1. counter[n] \in Nat /\ counter'[n] \in Nat /\ counter[n] <= counter'[n] /\ c \in Nat
  BY Threads DEF IInv, TypeOK, Framed
<1>2. cells[n][c] = cells'[n][c]
  BY ValuesAssumption DEF Framed
<1>. QED
  BY <1>1, <1>2

\* Nothing is undrawn in a node whose cells were drawn, or that is not linked.
LEMMA DrawnIsDrawn ==
  ASSUME IInv, NEW n \in Node, Drawn(n) \/ ~Linked(n)
  PROVE  Undrawn(n) = {}
<1>1. CASE Drawn(n)
  <2>1. \A c \in Procs : ~(c >= counter[n])
    BY <1>1, Threads DEF Drawn, IInv, TypeOK
  <2>. QED
    BY <2>1 DEF Undrawn
<1>2. CASE ~Linked(n)
  BY <1>2, ValuesAssumption DEF IInv, ListOK, NoCells, Undrawn
<1>. QED
  BY <1>1, <1>2

\* Other threads' steps take nothing back: what they enqueue was not due.
LEMMA LeavesOthers ==
  ASSUME IInv, TypeOK', NEW p \in Procs, Framed(p), LeavesNothing(p)'
  PROVE  DueOK'
<1>. SUFFICES ASSUME NEW q \in Procs, q # p PROVE LeavesNothing(q)'
  BY DEF DueOK
<1>1. LeavesNothing(q) /\ arg[p] \notin due[q]
  BY DEF IInv, DueOK, ItemOK
<1>2. \A n \in Node : Undrawn(n)' \subseteq Undrawn(n) \cup {arg[p]}
  BY UndrawnShrinks
<1>3. pc'[q] = pc[q] /\ arg'[q] = arg[q] /\ x'[q] = x[q] /\ due'[q] = due[q]
  BY DEF Framed
<1>. QED
  BY <1>1, <1>2, <1>3 DEF LeavesNothing, Enqueuing

\* A dequeue leaves without an element only at the end of the list, where all was drawn.
LEMMA DueStep ==
  ASSUME IInv, Next
  PROVE  DueOK'
<1>0. IInv /\ TypeOK /\ CallOK /\ ListOK /\ DrawOK /\ DueOK
  BY DEF IInv
<1>. SUFFICES ASSUME NEW p \in Procs, Step(p)
              PROVE  DueOK'
  BY DEF Next, Step
<1>a. Framed(p) /\ TypeOK'
  BY Frame, TypeStep
<1>. USE <1>0, <1>a DEF list, basket, reclaim, locals, history, EnqLabels, DrawLabels, FreeLabels, Goto, Return, TypeOK
<1>1. CASE ProtectLoad(p)
  BY <1>1, LeavesOthers DEF ProtectLoad, LeavesNothing
<1>2. CASE Publish(p)
  BY <1>2, LeavesOthers DEF Publish, LeavesNothing
<1>3. CASE ProtectCheck(p)
  BY <1>3, LeavesOthers DEF ProtectCheck, LeavesNothing
<1>4. CASE AdvanceLoad(p)
  <2>1. UNCHANGED <<arg, x, due>> /\ pc[p] = "advLoad"
    BY <1>4 DEF AdvanceLoad
  <2>2. \A n \in Node : Undrawn(n)' = Undrawn(n)
    <3>1. UNCHANGED <<counter, cells>>
      BY <1>4 DEF AdvanceLoad
    <3>. QED
      BY ONLY <3>1 DEF Undrawn
  <2>3. LeavesNothing(p)'
    BY <2>1, <2>2 DEF DueOK, LeavesNothing, Enqueuing
  <2>. QED
    BY <2>3, LeavesOthers
<1>5. CASE AdvanceCAS(p)
  <2>1. UNCHANGED <<arg, x, due>> /\ pc[p] = "advCAS"
    BY <1>5 DEF AdvanceCAS
  <2>2. \A n \in Node : Undrawn(n)' = Undrawn(n)
    <3>1. UNCHANGED <<counter, cells>>
      BY <1>5 DEF AdvanceCAS
    <3>. QED
      BY ONLY <3>1 DEF Undrawn
  <2>3. LeavesNothing(p)'
    BY <2>1, <2>2 DEF DueOK, LeavesNothing, Enqueuing
  <2>. QED
    BY <2>3, LeavesOthers
<1>6. CASE EnqTail(p)
  BY <1>6, LeavesOthers DEF EnqTail, LeavesNothing
<1>7. CASE EnqNext(p)
  BY <1>7, LeavesOthers DEF EnqNext, LeavesNothing
<1>8. CASE EnqLink(p)
  BY <1>8, LeavesOthers DEF EnqLink, LeavesNothing
<1>9. CASE EnqSwing(p)
  BY <1>9, LeavesOthers DEF EnqSwing, LeavesNothing
<1>10. CASE EnqAgain(p)
  BY <1>10, LeavesOthers DEF EnqAgain, LeavesNothing
<1>11. CASE EnqInsert(p)
  <2>1. pc'[p] \in {"idle", "enqWalk"}
    BY <1>11 DEF EnqInsert
  <2>. QED
    BY <2>1, LeavesOthers DEF LeavesNothing
<1>12. CASE EnqWalk(p)
  <2>1. arg'[p] # NONE
    BY <1>12 DEF EnqWalk, CallOK
  <2>2. LeavesNothing(p)'
    BY <2>1 DEF LeavesNothing, Enqueuing
  <2>. QED
    BY <2>2, LeavesOthers
<1>13. CASE DeqEmpty(p)
  BY <1>13, LeavesOthers DEF DeqEmpty, LeavesNothing
<1>14. CASE DeqNext(p)
  BY <1>14, LeavesOthers DEF DeqNext, LeavesNothing
<1>15. CASE DeqTest(p)
  BY <1>15, LeavesOthers DEF DeqTest, LeavesNothing
<1>16. CASE DeqDraw(p)
  BY <1>16, LeavesOthers DEF DeqDraw, LeavesNothing
<1>17. CASE DeqFlag(p)
  BY <1>17, LeavesOthers DEF DeqFlag, LeavesNothing
<1>18. CASE DeqCell(p)
  <2>1. pc'[p] = "deqDraw" \/ x'[p] # NONE
    BY <1>18 DEF DeqCell
  <2>. QED
    BY <2>1, LeavesOthers DEF LeavesNothing
<1>19. CASE DeqLast(p)
  <2>1. CASE next[node[p]] = NULL
    <3>1. Drawn(node[p]) /\ (\A n \in Node : n < node[p] => Drawn(n)) /\ node[p] \in Node
      BY <1>19 DEF DeqLast, DrawOK, PlaceDrawn, AtWork, CallOK, Enqueuing
    <3>2. \A n \in Node : node[p] < n => ~Linked(n)
      BY <2>1, <3>1, LinkedBefore
    <3>3. \A n \in Node : n < node[p] \/ n = node[p] \/ node[p] < n
      BY <3>1, LastAssumption DEF Node
    <3>4. \A n \in Node : Undrawn(n) = {}
      BY <3>1, <3>2, <3>3, DrawnIsDrawn
    <3>5. \A n \in Node : Undrawn(n)' = {}
      BY <1>19, <3>4 DEF DeqLast, Undrawn
    <3>6. LeavesNothing(p)'
      BY <3>5 DEF LeavesNothing
    <3>. QED
      BY <3>6, LeavesOthers
  <2>2. CASE next[node[p]] # NULL
    <3>1. LeavesNothing(p)'
      BY <1>19, <2>2 DEF DeqLast, LeavesNothing
    <3>. QED
      BY <3>1, LeavesOthers
  <2>. QED
    BY <2>1, <2>2
<1>20. CASE FreeTake(p)
  <2>1. pc'[p] \in {"idle", "freeScan"}
    BY <1>20 DEF FreeTake
  <2>. QED
    BY <2>1, LeavesOthers DEF LeavesNothing
<1>21. CASE FreeScan(p)
  BY <1>21, LeavesOthers DEF FreeScan, LeavesNothing
<1>22. CASE FreeLoop(p)
  BY <1>22, LeavesOthers DEF FreeLoop, LeavesNothing
<1>23. CASE FreeStore(p)
  BY <1>23, LeavesOthers DEF FreeStore, LeavesNothing
<1>24. CASE Dequeue(p)
  BY <1>24, LeavesOthers DEF Dequeue, LeavesNothing
<1>25. ASSUME NEW v \in Items, Enqueue(p, v) PROVE DueOK'
  BY <1>25, LeavesOthers DEF Enqueue, LeavesNothing
<1>. QED
  BY <1>1, <1>2, <1>3, <1>4, <1>5, <1>6, <1>7, <1>8, <1>9, <1>10, <1>11, <1>12, <1>13, <1>14, <1>15, <1>16,
     <1>17, <1>18, <1>19, <1>20, <1>21, <1>22, <1>23, <1>24, <1>25 DEF Step, EnqStep, DeqStep

\* Nodes are numbers.
Numeric ==
  /\ head \in Nat /\ tail \in Nat /\ Placed \subseteq Nat
  /\ \A p \in Procs : node[p] \in Nat /\ old[p] \in Nat
  /\ \A v \in Items : floor[v] \in Int /\ at[v] \in Int

LEMMA Numbers ==
  ASSUME TypeOK
  PROVE  Numeric
<1>1. Node \subseteq Nat
  BY LastAssumption DEF Node
<1>2. Placed \subseteq Nat
  <2>1. \A v \in Items : at[v] >= 0 => at[v] \in Nat
    <3>. SUFFICES ASSUME NEW v \in Items, at[v] >= 0 PROVE at[v] \in Nat
      OBVIOUS
    <3>1. at[v] \in Node \/ at[v] = -1
      BY DEF TypeOK
    <3>. QED
      BY <3>1, LastAssumption DEF Node
  <2>2. \A n \in Placed : \E v \in Items : n = at[v] /\ at[v] >= 0
    BY DEF Placed
  <2>. QED
    BY <2>1, <2>2
<1>3. \A v \in Items : floor[v] \in Int /\ at[v] \in Int
  <2>. SUFFICES ASSUME NEW v \in Items PROVE floor[v] \in Int /\ at[v] \in Int
    OBVIOUS
  <2>1. floor[v] \in Node \cup {-1} /\ at[v] \in Node \cup {-1}
    BY DEF TypeOK
  <2>. QED
    BY <2>1, LastAssumption DEF Node
<1>4. head \in Nat /\ tail \in Nat /\ \A p \in Procs : node[p] \in Nat /\ old[p] \in Nat
  BY <1>1 DEF TypeOK
<1>. QED
  BY <1>2, <1>3, <1>4 DEF Numeric

LEMMA NextNumbers ==
  ASSUME TypeOK'
  PROVE  tail' \in Nat /\ \A p \in Procs : node'[p] \in Nat
BY LastAssumption DEF TypeOK, Node

\* The nodes of the returned items change only when an enqueue returns.
LEMMA PlacedSame ==
  ASSUME IInv, TypeOK', NEW p \in Procs, Framed(p), \A q \in Procs : arg'[q] = arg[q]
  PROVE  Placed' = Placed
<1>1. \A v \in Items : (\A q \in Procs : arg[q] # v) => at'[v] = at[v]
  BY DEF Framed
<1>2. {w \in Items : at[w] >= 0 /\ \A q \in Procs : arg[q] # w}
        = {w \in Items : at[w] >= 0 /\ \A q \in Procs : arg[q] # w}'
  BY <1>1
<1>3. \A w \in {w \in Items : at[w] >= 0 /\ \A q \in Procs : arg[q] # w} : at'[w] = at[w]
  BY <1>1
<1>. QED
  BY <1>2, <1>3 DEF Placed

LEMMA PlacedReturn ==
  ASSUME IInv, TypeOK', NEW p \in Procs, Framed(p), arg[p] \in Items, arg'[p] = NONE, at'[arg[p]] \in Node
  PROVE  Placed' = Placed \cup {at'[arg[p]]}
<1>1. \A v \in Items : (\A q \in Procs : arg'[q] # v) <=> (v = arg[p] \/ \A q \in Procs : arg[q] # v)
  BY ValuesAssumption DEF Framed, IInv, ItemOK
<1>2. \A v \in Items : v # arg[p] => at'[v] = at[v]
  BY DEF Framed
<1>3. at'[arg[p]] >= 0
  BY LastAssumption DEF Node
<1>4. ASSUME NEW n PROVE n \in Placed' <=> n \in Placed \cup {at'[arg[p]]}
  <2>1. n \in Placed' <=> \E v \in Items : at'[v] = n /\ at'[v] >= 0 /\ \A q \in Procs : arg'[q] # v
    BY DEF Placed
  <2>2. n \in Placed <=> \E v \in Items : at[v] = n /\ at[v] >= 0 /\ \A q \in Procs : arg[q] # v
    BY DEF Placed
  <2>. QED
    BY <1>1, <1>2, <1>3, <2>1, <2>2
<1>. QED
  BY <1>4

\* The others' places in the list are unaffected.
LEMMA OrderOthers ==
  ASSUME IInv, TypeOK', NEW p \in Procs, Framed(p), \A v \in used : floor'[v] = floor[v], InOrder(p)'
  PROVE  \A q \in Procs : InOrder(q)'
<1>. SUFFICES ASSUME NEW q \in Procs, q # p PROVE InOrder(q)'
  OBVIOUS
<1>1. InOrder(q) /\ (pc[q] = "enqSwing" => Enqueuing(q))
  BY DEF IInv, OrderOK, CallOK, EnqLabels, Enqueuing
<1>2. Enqueuing(q) => arg[q] \in used /\ arg[q] \in Items /\ arg[q] # arg[p]
  BY DEF IInv, ItemOK, TypeOK, Enqueuing
<1>3. Enqueuing(q) => floor'[arg[q]] = floor[arg[q]] /\ at'[arg[q]] = at[arg[q]]
  BY <1>2 DEF Framed
<1>4. tail \in Int /\ tail' \in Int /\ tail <= tail' /\ node[q] \in Int
  BY Numbers, NextNumbers DEF IInv, Framed, Numeric
<1>5. pc'[q] = pc[q] /\ arg'[q] = arg[q] /\ node'[q] = node[q] /\ old'[q] = old[q]
  BY DEF Framed
<1>. QED
  BY <1>1, <1>3, <1>4, <1>5 DEF InOrder, AtWork, Enqueuing

\* A step that places and returns nothing.
LEMMA OrderLocal ==
  ASSUME IInv, TypeOK', NEW p \in Procs, Framed(p), \A q \in Procs : arg'[q] = arg[q],
         UNCHANGED <<at, floor>>, InOrder(p)'
  PROVE  OrderOK'
<1>1. Placed' = Placed
  BY PlacedSame
<1>2. \A q \in Procs : InOrder(q)'
  BY OrderOthers
<1>3. tail \in Int /\ tail' \in Int /\ tail <= tail' /\ Placed \subseteq Int /\ \A v \in Items : floor[v] \in Int
  BY Numbers, NextNumbers DEF IInv, Framed, Numeric
<1>. QED
  BY <1>1, <1>2, <1>3 DEF OrderOK, IInv

\* Enqueues keep to the order in which they began.
LEMMA OrderStep ==
  ASSUME IInv, Next
  PROVE  OrderOK'
<1>0. IInv /\ TypeOK /\ CallOK /\ ListOK /\ ItemOK /\ OrderOK /\ \A p \in Procs : InOrder(p)
  BY DEF IInv, OrderOK
<1>. SUFFICES ASSUME NEW p \in Procs, Step(p)
              PROVE  OrderOK'
  BY DEF Next, Step
<1>a. Framed(p) /\ TypeOK'
  BY Frame, TypeStep
<1>b. Numeric /\ tail' \in Nat /\ (\A q \in Procs : node'[q] \in Nat) /\ tail <= tail'
  BY <1>a, Numbers, NextNumbers DEF IInv, Framed
<1>. USE <1>0, <1>a, <1>b DEF list, basket, reclaim, locals, history, EnqLabels, DrawLabels, FreeLabels, Goto, Return
<1>1. CASE ProtectLoad(p)
  <2>1. UNCHANGED <<at, floor, tail>> /\ \A q \in Procs : arg'[q] = arg[q]
    BY <1>1 DEF ProtectLoad, TypeOK
  <2>2. pc'[p] = "publish" /\ (Enqueuing(p) => old'[p] = tail)
    BY <1>1 DEF ProtectLoad, Pointer, TypeOK
  <2>3. Enqueuing(p) => floor[arg[p]] <= tail
    BY DEF OrderOK, Enqueuing, TypeOK
  <2>4. InOrder(p)'
    BY <2>1, <2>2, <2>3 DEF InOrder, Enqueuing, AtWork
  <2>. QED
    BY <2>1, <2>4, OrderLocal
<1>2. CASE Publish(p)
  <2>1. UNCHANGED <<at, floor>> /\ \A q \in Procs : arg'[q] = arg[q]
    BY <1>2 DEF Publish, TypeOK, CallOK
  <2>2. InOrder(p)'
    BY <1>2 DEF Publish, InOrder, AtWork, Enqueuing, TypeOK, CallOK
  <2>. QED
    BY <2>1, <2>2, OrderLocal
<1>3. CASE ProtectCheck(p)
  <2>1. UNCHANGED <<at, floor>> /\ \A q \in Procs : arg'[q] = arg[q]
    BY <1>3 DEF ProtectCheck, TypeOK, CallOK
  <2>2. InOrder(p)'
    BY <1>3 DEF ProtectCheck, InOrder, AtWork, Enqueuing, TypeOK, CallOK
  <2>. QED
    BY <2>1, <2>2, OrderLocal
<1>4. CASE AdvanceLoad(p)
  <2>1. UNCHANGED <<at, floor>> /\ \A q \in Procs : arg'[q] = arg[q]
    BY <1>4 DEF AdvanceLoad, TypeOK, CallOK
  <2>2. InOrder(p)'
    BY <1>4 DEF AdvanceLoad, InOrder, AtWork, Enqueuing, TypeOK, CallOK
  <2>. QED
    BY <2>1, <2>2, OrderLocal
<1>5. CASE AdvanceCAS(p)
  <2>1. UNCHANGED <<at, floor>> /\ \A q \in Procs : arg'[q] = arg[q]
    BY <1>5 DEF AdvanceCAS, TypeOK, CallOK
  <2>2. InOrder(p)'
    BY <1>5 DEF AdvanceCAS, InOrder, AtWork, Enqueuing, TypeOK, CallOK
  <2>. QED
    BY <2>1, <2>2, OrderLocal
<1>6. CASE EnqTail(p)
  <2>1. UNCHANGED <<at, floor, tail>> /\ (\A q \in Procs : arg'[q] = arg[q]) /\ arg[p] \in Items
    BY <1>6 DEF EnqTail, CallOK, TypeOK
  <2>2. pc'[p] = "enqNext" /\ node'[p] = tail
    BY <1>6 DEF EnqTail, TypeOK
  <2>3. floor[arg[p]] <= tail /\ tail <= tail
    BY <2>1 DEF OrderOK, Numeric
  <2>4. InOrder(p)'
    BY <2>1, <2>2, <2>3 DEF InOrder, Enqueuing
  <2>. QED
    BY <2>1, <2>4, OrderLocal
<1>7. CASE EnqNext(p)
  <2>1. UNCHANGED <<at, floor>> /\ \A q \in Procs : arg'[q] = arg[q]
    BY <1>7 DEF EnqNext, TypeOK, CallOK
  <2>2. InOrder(p)'
    BY <1>7 DEF EnqNext, InOrder, AtWork, Enqueuing, TypeOK, CallOK
  <2>. QED
    BY <2>1, <2>2, OrderLocal
<1>8. CASE EnqLink(p)
  <2>1. CASE next[node[p]] = NULL
    <3>0. /\ node[p] + 1 \in Node /\ arg[p] \in Items
          /\ at' = [at EXCEPT ![arg[p]] = node[p] + 1]
          /\ pc' = [pc EXCEPT ![p] = "enqSwing"]
          /\ UNCHANGED <<arg, floor, node, old, tail>>
      BY <1>8, <2>1, LinkEffect DEF EnqLink
    <3>1. pc[p] = "enqLink"
      BY <1>8 DEF EnqLink
    <3>2. /\ floor[arg[p]] <= node[p] /\ node[p] <= tail /\ node[p] \in Nat
          /\ \A v \in Items : floor[v] \in Int
      BY <3>0, <3>1, ValuesAssumption DEF InOrder, AtWork, Enqueuing, Numeric
    <3>3. InOrder(p)'
      <4>1. pc'[p] = "enqSwing" /\ at'[arg[p]] = node[p] + 1
        BY <3>0 DEF TypeOK
      <4>. QED
        BY <3>0, <3>2, <4>1 DEF InOrder, AtWork, Enqueuing
    <3>4. \A q \in Procs : InOrder(q)'
      BY <3>0, <3>3, OrderOthers
    <3>5. Placed' = Placed
      BY <3>0, PlacedSame
    <3>6. \A v \in Items : at'[v] >= 0 => at'[v] >= floor[v]
      BY <3>0, <3>2 DEF OrderOK, TypeOK
    <3>. QED
      BY <3>0, <3>4, <3>5, <3>6 DEF OrderOK
  <2>2. CASE next[node[p]] # NULL
    <3>1. UNCHANGED <<at, floor, arg, node, old, tail>> /\ pc[p] = "enqLink" /\ pc'[p] = "enqAgain"
      BY <1>8, <2>2 DEF EnqLink, TypeOK
    <3>2. InOrder(p)'
      BY <3>1 DEF InOrder, AtWork, Enqueuing
    <3>. QED
      BY <3>1, <3>2, OrderLocal
  <2>. QED
    BY <2>1, <2>2
<1>9. CASE EnqSwing(p)
  <2>a. /\ pc[p] = "enqSwing" /\ arg[p] \in Items /\ node[p] \in Nat /\ tail \in Nat
        /\ at[arg[p]] = node[p] + 1 /\ node[p] <= tail
    BY <1>9 DEF EnqSwing, CallOK, InOrder, Numeric, TypeOK
  <2>b. next[node[p]] # NULL
    BY <2>a DEF ListOK
  <2>c. node[p] + 1 \in Node
    BY <2>b, LinkedNext DEF TypeOK
  <2>0. /\ arg[p] \in Items /\ arg'[p] = NONE /\ pc'[p] = "idle"
        /\ UNCHANGED <<at, floor, node, old>> /\ at'[arg[p]] \in Node
    BY <1>9, <2>a, <2>c DEF EnqSwing, TypeOK
  <2>d. tail' = IF tail = node[p] THEN node[p] + 1 ELSE tail
    BY <1>9 DEF EnqSwing
  <2>1. at'[arg[p]] = node[p] + 1 /\ node[p] + 1 <= tail' /\ at'[arg[p]] \in Nat
    BY <2>0, <2>a, <2>d
  <2>4. Placed' = Placed \cup {at'[arg[p]]}
    BY <2>0, PlacedReturn
  <2>5. \A q \in Procs : InOrder(q)'
    <3>1. InOrder(p)'
      BY <2>0 DEF InOrder, AtWork, Enqueuing
    <3>. QED
      BY <2>0, <3>1, OrderOthers
  <2>6. tail \in Nat /\ tail' \in Nat /\ tail <= tail' /\ Placed \subseteq Nat /\ \A v \in Items : floor[v] \in Int
    BY DEF Numeric
  <2>7. Placed' = {} \/ \E n \in Placed' : \A m \in Placed' : m <= n
    <3>1. CASE Placed = {}
      BY <2>1, <2>4, <3>1
    <3>2. ASSUME NEW n \in Placed, \A m \in Placed : m <= n
          PROVE  \E k \in Placed' : \A m \in Placed' : m <= k
      <4>1. CASE at'[arg[p]] <= n
        BY <2>4, <3>2, <4>1
      <4>2. CASE ~(at'[arg[p]] <= n)
        <5>1. \A m \in Placed' : m <= at'[arg[p]]
          <6>1. at'[arg[p]] \in Nat /\ n \in Nat /\ n < at'[arg[p]]
            BY <2>1, <2>6, <4>2
          <6>2. \A m \in Placed : m \in Nat /\ m <= n
            BY <2>6, <3>2
          <6>. QED
            BY <2>4, <6>1, <6>2
        <5>. QED
          BY <2>4, <5>1
      <4>. QED
        BY <4>1, <4>2
    <3>. QED
      BY <3>1, <3>2 DEF OrderOK
  <2>8. \A n \in Placed' : n <= tail'
    <3>1. \A n \in Placed : n \in Nat /\ n <= tail
      BY <2>6 DEF OrderOK
    <3>2. \A n \in Placed : n <= tail'
      BY <2>6, <3>1
    <3>. QED
      BY <2>1, <2>4, <3>2
  <2>9. \A v \in Items : floor'[v] <= tail' /\ (at'[v] >= 0 => at'[v] >= floor'[v])
    BY <2>0, <2>1, <2>6 DEF OrderOK, Framed, TypeOK
  <2>. QED
    BY <2>5, <2>7, <2>8, <2>9 DEF OrderOK
<1>10. CASE EnqAgain(p)
  <2>1. UNCHANGED <<at, floor, tail>> /\ (\A q \in Procs : arg'[q] = arg[q]) /\ arg[p] \in Items
    BY <1>10 DEF EnqAgain, CallOK, TypeOK
  <2>2. pc'[p] = "enqInsert" /\ node'[p] = tail
    BY <1>10 DEF EnqAgain, TypeOK
  <2>3. floor[arg[p]] <= tail /\ tail <= tail
    BY <2>1 DEF OrderOK, Numeric
  <2>4. InOrder(p)'
    BY <2>1, <2>2, <2>3 DEF InOrder, Enqueuing
  <2>. QED
    BY <2>1, <2>4, OrderLocal
<1>11. CASE EnqInsert(p)
  <2>1. CASE cells[node[p]][p] = NONE
    <3>0. /\ arg[p] \in Items /\ arg'[p] = NONE /\ pc'[p] = "idle"
          /\ at' = [at EXCEPT ![arg[p]] = node[p]]
          /\ at'[arg[p]] \in Node
          /\ UNCHANGED <<floor, node, old, tail>>
      <4>1. arg[p] \in Items /\ at' = [at EXCEPT ![arg[p]] = node[p]] /\ Return(p)
        BY <1>11, <2>1, InsertEffect
      <4>2. UNCHANGED <<floor, node, old, tail>>
        BY <1>11 DEF EnqInsert
      <4>. QED
        BY <4>1, <4>2 DEF TypeOK
    <3>1. at'[arg[p]] = node[p] /\ node[p] \in Nat /\ node[p] <= tail /\ floor[arg[p]] <= node[p]
      <4>1. pc[p] = "enqInsert" /\ at'[arg[p]] = node[p]
        BY <1>11, <3>0 DEF EnqInsert, TypeOK
      <4>. QED
        BY <3>0, <4>1, ValuesAssumption DEF InOrder, AtWork, Enqueuing, Numeric
    <3>4. Placed' = Placed \cup {at'[arg[p]]}
      BY <3>0, PlacedReturn
    <3>5. \A q \in Procs : InOrder(q)'
      <4>1. InOrder(p)'
        BY <3>0 DEF InOrder, AtWork, Enqueuing
      <4>. QED
        BY <3>0, <4>1, OrderOthers
    <3>6. tail \in Nat /\ tail' \in Nat /\ tail <= tail' /\ Placed \subseteq Nat /\ \A v \in Items : floor[v] \in Int
      BY DEF Numeric
    <3>7. Placed' = {} \/ \E n \in Placed' : \A m \in Placed' : m <= n
      <4>1. CASE Placed = {}
        BY <3>1, <3>4, <4>1
      <4>2. ASSUME NEW n \in Placed, \A m \in Placed : m <= n
            PROVE  \E k \in Placed' : \A m \in Placed' : m <= k
        <5>1. CASE at'[arg[p]] <= n
          BY <3>4, <4>2, <5>1
        <5>2. CASE ~(at'[arg[p]] <= n)
          <6>1. \A m \in Placed' : m <= at'[arg[p]]
            <7>1. at'[arg[p]] \in Nat /\ n \in Nat /\ n < at'[arg[p]]
              BY <3>1, <3>6, <5>2
            <7>2. \A m \in Placed : m \in Nat /\ m <= n
              BY <3>6, <4>2
            <7>. QED
              BY <3>4, <7>1, <7>2
          <6>. QED
            BY <3>4, <6>1
        <5>. QED
          BY <5>1, <5>2
      <4>. QED
        BY <4>1, <4>2 DEF OrderOK
    <3>8. \A n \in Placed' : n <= tail'
      <4>1. \A n \in Placed : n \in Nat /\ n <= tail
        BY <3>6 DEF OrderOK
      <4>2. \A n \in Placed : n <= tail'
        BY <3>6, <4>1
      <4>3. at'[arg[p]] <= tail'
        BY <3>1, <3>6
      <4>. QED
        BY <3>4, <4>2, <4>3
    <3>9. \A v \in Items : floor'[v] <= tail' /\ (at'[v] >= 0 => at'[v] >= floor'[v])
      BY <3>0, <3>1, <3>6 DEF OrderOK, Framed, TypeOK
    <3>. QED
      BY <3>5, <3>7, <3>8, <3>9 DEF OrderOK
  <2>2. CASE cells[node[p]][p] # NONE
    <3>1. UNCHANGED <<at, floor, arg, node, old, tail>> /\ pc[p] = "enqInsert" /\ pc'[p] = "enqWalk"
      BY <1>11, <2>2 DEF EnqInsert, TypeOK
    <3>2. InOrder(p)'
      BY <3>1 DEF InOrder, AtWork, Enqueuing
    <3>. QED
      BY <3>1, <3>2, OrderLocal
  <2>. QED
    BY <2>1, <2>2
<1>12. CASE EnqWalk(p)
  <2>1. UNCHANGED <<at, floor, tail>> /\ \A q \in Procs : arg'[q] = arg[q]
    BY <1>12 DEF EnqWalk, TypeOK
  <2>2. pc'[p] \in {"enqWalk", "advLoad"} /\ pc[p] = "enqWalk" /\ Enqueuing(p)
    BY <1>12 DEF EnqWalk, CallOK, Enqueuing, TypeOK
  <2>3. node'[p] = node[p] \/ (next[node[p]] # NULL /\ node'[p] = next[node[p]])
    BY <1>12 DEF EnqWalk, TypeOK
  <2>4. node[p] \in Int /\ node'[p] \in Int /\ node[p] <= node'[p]
    <3>1. node[p] \in Node
      BY DEF TypeOK
    <3>2. next[node[p]] # NULL => next[node[p]] = node[p] + 1
      BY <3>1, LinkedNext
    <3>. QED
      BY <2>3, <3>2 DEF Numeric
  <2>5. floor[arg[p]] \in Int /\ floor[arg[p]] <= node[p]
    <3>1. arg[p] \in Items
      BY <2>2 DEF Enqueuing, TypeOK
    <3>. QED
      BY <2>2, <3>1 DEF InOrder, AtWork, Numeric
  <2>6. InOrder(p)'
    BY <2>1, <2>2, <2>4, <2>5 DEF InOrder, Enqueuing
  <2>. QED
    BY <2>1, <2>6, OrderLocal
<1>13. CASE DeqEmpty(p)
  <2>1. UNCHANGED <<at, floor>> /\ \A q \in Procs : arg'[q] = arg[q]
    BY <1>13 DEF DeqEmpty, TypeOK, CallOK
  <2>2. InOrder(p)'
    BY <1>13 DEF DeqEmpty, InOrder, AtWork, Enqueuing, TypeOK, CallOK
  <2>. QED
    BY <2>1, <2>2, OrderLocal
<1>14. CASE DeqNext(p)
  <2>1. UNCHANGED <<at, floor>> /\ \A q \in Procs : arg'[q] = arg[q]
    BY <1>14 DEF DeqNext, TypeOK, CallOK
  <2>2. InOrder(p)'
    BY <1>14 DEF DeqNext, InOrder, AtWork, Enqueuing, TypeOK, CallOK
  <2>. QED
    BY <2>1, <2>2, OrderLocal
<1>15. CASE DeqTest(p)
  <2>1. UNCHANGED <<at, floor>> /\ \A q \in Procs : arg'[q] = arg[q]
    BY <1>15 DEF DeqTest, TypeOK, CallOK
  <2>2. InOrder(p)'
    BY <1>15 DEF DeqTest, InOrder, AtWork, Enqueuing, TypeOK, CallOK
  <2>. QED
    BY <2>1, <2>2, OrderLocal
<1>16. CASE DeqDraw(p)
  <2>1. UNCHANGED <<at, floor>> /\ \A q \in Procs : arg'[q] = arg[q]
    BY <1>16 DEF DeqDraw, TypeOK, CallOK
  <2>2. InOrder(p)'
    BY <1>16 DEF DeqDraw, InOrder, AtWork, Enqueuing, TypeOK, CallOK
  <2>. QED
    BY <2>1, <2>2, OrderLocal
<1>17. CASE DeqFlag(p)
  <2>1. UNCHANGED <<at, floor>> /\ \A q \in Procs : arg'[q] = arg[q]
    BY <1>17 DEF DeqFlag, TypeOK, CallOK
  <2>2. InOrder(p)'
    BY <1>17 DEF DeqFlag, InOrder, AtWork, Enqueuing, TypeOK, CallOK
  <2>. QED
    BY <2>1, <2>2, OrderLocal
<1>18. CASE DeqCell(p)
  <2>1. UNCHANGED <<at, floor>> /\ \A q \in Procs : arg'[q] = arg[q]
    BY <1>18 DEF DeqCell, TypeOK, CallOK
  <2>2. InOrder(p)'
    BY <1>18 DEF DeqCell, InOrder, AtWork, Enqueuing, TypeOK, CallOK
  <2>. QED
    BY <2>1, <2>2, OrderLocal
<1>19. CASE DeqLast(p)
  <2>1. UNCHANGED <<at, floor>> /\ \A q \in Procs : arg'[q] = arg[q]
    BY <1>19 DEF DeqLast, TypeOK, CallOK
  <2>2. InOrder(p)'
    BY <1>19 DEF DeqLast, InOrder, AtWork, Enqueuing, TypeOK, CallOK
  <2>. QED
    BY <2>1, <2>2, OrderLocal
<1>20. CASE FreeTake(p)
  <2>1. UNCHANGED <<at, floor>> /\ \A q \in Procs : arg'[q] = arg[q]
    BY <1>20 DEF FreeTake, TypeOK, CallOK
  <2>2. InOrder(p)'
    BY <1>20 DEF FreeTake, InOrder, AtWork, Enqueuing, TypeOK, CallOK
  <2>. QED
    BY <2>1, <2>2, OrderLocal
<1>21. CASE FreeScan(p)
  <2>1. UNCHANGED <<at, floor>> /\ \A q \in Procs : arg'[q] = arg[q]
    BY <1>21 DEF FreeScan, TypeOK, CallOK
  <2>2. InOrder(p)'
    BY <1>21 DEF FreeScan, InOrder, AtWork, Enqueuing, TypeOK, CallOK
  <2>. QED
    BY <2>1, <2>2, OrderLocal
<1>22. CASE FreeLoop(p)
  <2>1. UNCHANGED <<at, floor>> /\ \A q \in Procs : arg'[q] = arg[q]
    BY <1>22 DEF FreeLoop, TypeOK, CallOK
  <2>2. InOrder(p)'
    BY <1>22 DEF FreeLoop, InOrder, AtWork, Enqueuing, TypeOK, CallOK
  <2>. QED
    BY <2>1, <2>2, OrderLocal
<1>23. CASE FreeStore(p)
  <2>1. UNCHANGED <<at, floor>> /\ \A q \in Procs : arg'[q] = arg[q]
    BY <1>23 DEF FreeStore, TypeOK, CallOK
  <2>2. InOrder(p)'
    BY <1>23 DEF FreeStore, InOrder, AtWork, Enqueuing, TypeOK, CallOK
  <2>. QED
    BY <2>1, <2>2, OrderLocal
<1>24. CASE Dequeue(p)
  <2>1. UNCHANGED <<at, floor>> /\ \A q \in Procs : arg'[q] = arg[q]
    BY <1>24 DEF Dequeue, TypeOK, CallOK
  <2>2. InOrder(p)'
    BY <1>24 DEF Dequeue, InOrder, AtWork, Enqueuing, TypeOK, CallOK
  <2>. QED
    BY <2>1, <2>2, OrderLocal
<1>25. ASSUME NEW v \in Items, Enqueue(p, v) PROVE OrderOK'
  <2>1. /\ v \notin used /\ arg' = [arg EXCEPT ![p] = v] /\ UNCHANGED <<at, node, old, tail>>
        /\ pc[p] = "idle" /\ pc'[p] = "load"
        /\ floor' = [floor EXCEPT ![v] =
             IF Placed = {} THEN -1 ELSE CHOOSE n \in Placed : \A m \in Placed : m <= n]
    BY <1>25 DEF Enqueue, TypeOK
  <2>2. at[v] = -1 /\ arg[p] = NONE
    BY <2>1 DEF ItemOK, CallOK
  <2>3. tail \in Nat
    BY DEF Numeric
  <2>4. floor'[v] <= tail
    BY <2>1, <2>3 DEF OrderOK, TypeOK
  <2>5. \A w \in Items : w # v => floor'[w] = floor[w]
    BY <2>1 DEF TypeOK
  <2>6. InOrder(p)'
    BY <2>1 DEF InOrder, AtWork
  <2>7. \A q \in Procs : InOrder(q)'
    BY <2>1, <2>5, <2>6, OrderOthers
  <2>8. Placed' = Placed
    <3>1. \A w \in Items : at[w] >= 0 => ((\A q \in Procs : arg'[q] # w) <=> \A q \in Procs : arg[q] # w)
      BY <2>1, <2>2, ValuesAssumption DEF TypeOK
    <3>2. {w \in Items : at[w] >= 0 /\ \A q \in Procs : arg'[q] # w}
            = {w \in Items : at[w] >= 0 /\ \A q \in Procs : arg[q] # w}
      BY ONLY <3>1
    <3>. QED
      BY ONLY <2>1, <3>2 DEF Placed
  <2>9. \A w \in Items : floor'[w] <= tail /\ (at[w] >= 0 => at[w] >= floor'[w])
    BY <2>2, <2>4, <2>5 DEF OrderOK
  <2>. QED
    BY <2>1, <2>7, <2>8, <2>9 DEF OrderOK
<1>. QED
  BY <1>1, <1>2, <1>3, <1>4, <1>5, <1>6, <1>7, <1>8, <1>9, <1>10, <1>11, <1>12, <1>13, <1>14, <1>15, <1>16,
     <1>17, <1>18, <1>19, <1>20, <1>21, <1>22, <1>23, <1>24, <1>25 DEF Step, EnqStep, DeqStep

\* The other threads' protections are unaffected.
LEMMA GuardOthers ==
  ASSUME IInv, TypeOK', NEW p \in Procs, Framed(p), Guarded(p)',
         \A q \in shielded' : AtWork(q), AtWork(p)' \/ p \notin shielded'
  PROVE  ProtectOK'
<1>1. tail \in Nat /\ tail' \in Nat /\ tail <= tail'
  BY Numbers, NextNumbers DEF IInv, Framed, Numeric
<1>2. ASSUME NEW q \in Procs, q # p PROVE Guarded(q)' /\ (AtWork(q) => AtWork(q)')
  <2>1. Guarded(q)
    BY DEF IInv, ProtectOK
  <2>2. /\ pc'[q] = pc[q] /\ arg'[q] = arg[q] /\ node'[q] = node[q] /\ old'[q] = old[q]
        /\ protectors'[q] = protectors[q]
    BY <1>2 DEF Framed
  <2>3. protectors[q] \in Node => protectors[q] \in Nat
    BY LastAssumption DEF Node
  <2>. QED
    BY <1>1, <2>1, <2>2, <2>3 DEF Guarded, AtWork, Enqueuing
<1>3. shielded' \subseteq Procs
  BY DEF TypeOK
<1>4. \A q \in shielded' : AtWork(q)'
  BY <1>2, <1>3
<1>. QED
  BY <1>2, <1>4 DEF ProtectOK

\* A thread keeps the node that it protects while it goes on along the list.
LEMMA GuardStays ==
  ASSUME NEW p \in Procs, Guarded(p), AtWork(p), pc'[p] # "check",
         protectors[p] \in Nat, node[p] \in Nat, node'[p] \in Nat, tail \in Nat, tail' \in Nat,
         protectors'[p] = protectors[p], node[p] <= node'[p], tail <= tail',
         arg'[p] = arg[p] \/ arg'[p] = NONE
  PROVE  Guarded(p)'
BY DEF Guarded, Enqueuing

\* A thread goes on from the node that it protects.
LEMMA ProtectStep ==
  ASSUME IInv, Next
  PROVE  ProtectOK'
<1>0. IInv /\ TypeOK /\ CallOK /\ ListOK /\ ProtectOK /\ \A p \in Procs : Guarded(p)
  BY DEF IInv, ProtectOK
<1>. SUFFICES ASSUME NEW p \in Procs, Step(p)
              PROVE  ProtectOK'
  BY DEF Next, Step
<1>a. Framed(p) /\ TypeOK'
  BY Frame, TypeStep
<1>b. Numeric /\ tail' \in Nat /\ (\A q \in Procs : node'[q] \in Nat) /\ tail <= tail'
  BY <1>a, Numbers, NextNumbers DEF IInv, Framed
<1>c. /\ tail \in Nat /\ node[p] \in Nat /\ node[p] <= node[p] /\ Guarded(p)
      /\ AtWork(p) => protectors[p] \in Nat
  <2>1. AtWork(p) => protectors[p] \in Node
    BY <1>0 DEF Guarded
  <2>. QED
    BY <2>1, <1>0, <1>b, LastAssumption DEF Numeric, Node
<1>. USE <1>0, <1>a, <1>b DEF list, basket, reclaim, locals, history, EnqLabels, DrawLabels, FreeLabels, Goto, Return
<1>1. CASE ProtectLoad(p)
  <2>1. Guarded(p)'
    BY <1>1 DEF ProtectLoad, Guarded, AtWork, Enqueuing, Pointer, TypeOK, CallOK
  <2>2. (\A q \in shielded' : AtWork(q)) /\ (AtWork(p)' \/ p \notin shielded')
    BY <1>1 DEF ProtectLoad, AtWork, ProtectOK, TypeOK
  <2>. QED
    BY <2>1, <2>2, GuardOthers
<1>2. CASE Publish(p)
  <2>1. Guarded(p)'
    BY <1>2 DEF Publish, Guarded, AtWork, Enqueuing, Pointer, TypeOK, CallOK
  <2>2. (\A q \in shielded' : AtWork(q)) /\ (AtWork(p)' \/ p \notin shielded')
    BY <1>2 DEF Publish, AtWork, ProtectOK, TypeOK
  <2>. QED
    BY <2>1, <2>2, GuardOthers
<1>3. CASE ProtectCheck(p)
  <2>1. Guarded(p)'
    BY <1>3 DEF ProtectCheck, Guarded, AtWork, Enqueuing, Pointer, TypeOK, CallOK
  <2>2. (\A q \in shielded' : AtWork(q)) /\ (AtWork(p)' \/ p \notin shielded')
    BY <1>3 DEF ProtectCheck, AtWork, ProtectOK, TypeOK
  <2>. QED
    BY <2>1, <2>2, GuardOthers
<1>4. CASE AdvanceLoad(p)
  <2>1. Guarded(p)'
    BY <1>4 DEF AdvanceLoad, Guarded, AtWork, Enqueuing, Pointer, TypeOK, CallOK
  <2>2. (\A q \in shielded' : AtWork(q)) /\ (AtWork(p)' \/ p \notin shielded')
    BY <1>4 DEF AdvanceLoad, AtWork, ProtectOK, TypeOK
  <2>. QED
    BY <2>1, <2>2, GuardOthers
<1>5. CASE AdvanceCAS(p)
  <2>1. Guarded(p)'
    BY <1>5, <1>c, GuardStays DEF AdvanceCAS, AtWork, TypeOK
  <2>2. (\A q \in shielded' : AtWork(q)) /\ (AtWork(p)' \/ p \notin shielded')
    BY <1>5 DEF AdvanceCAS, AtWork, ProtectOK, TypeOK
  <2>. QED
    BY <2>1, <2>2, GuardOthers
<1>6. CASE EnqTail(p)
  <2>1. Guarded(p)'
    BY <1>6 DEF EnqTail, Guarded, AtWork, Enqueuing, Pointer, TypeOK, CallOK
  <2>2. (\A q \in shielded' : AtWork(q)) /\ (AtWork(p)' \/ p \notin shielded')
    BY <1>6 DEF EnqTail, AtWork, ProtectOK, TypeOK
  <2>. QED
    BY <2>1, <2>2, GuardOthers
<1>7. CASE EnqNext(p)
  <2>1. Guarded(p)'
    BY <1>7 DEF EnqNext, Guarded, AtWork, Enqueuing, Pointer, TypeOK, CallOK
  <2>2. (\A q \in shielded' : AtWork(q)) /\ (AtWork(p)' \/ p \notin shielded')
    BY <1>7 DEF EnqNext, AtWork, ProtectOK, TypeOK
  <2>. QED
    BY <2>1, <2>2, GuardOthers
<1>8. CASE EnqLink(p)
  <2>1. Guarded(p)'
    BY <1>8, <1>c, GuardStays DEF EnqLink, AtWork, TypeOK
  <2>2. (\A q \in shielded' : AtWork(q)) /\ (AtWork(p)' \/ p \notin shielded')
    BY <1>8 DEF EnqLink, AtWork, ProtectOK, TypeOK
  <2>. QED
    BY <2>1, <2>2, GuardOthers
<1>9. CASE EnqSwing(p)
  <2>1. Guarded(p)'
    BY <1>9 DEF EnqSwing, Guarded, AtWork, Enqueuing, Pointer, TypeOK, CallOK
  <2>2. (\A q \in shielded' : AtWork(q)) /\ (AtWork(p)' \/ p \notin shielded')
    BY <1>9 DEF EnqSwing, AtWork, ProtectOK, TypeOK
  <2>. QED
    BY <2>1, <2>2, GuardOthers
<1>10. CASE EnqAgain(p)
  <2>1. Guarded(p)'
    BY <1>10 DEF EnqAgain, Guarded, AtWork, Enqueuing, Pointer, TypeOK, CallOK
  <2>2. (\A q \in shielded' : AtWork(q)) /\ (AtWork(p)' \/ p \notin shielded')
    BY <1>10 DEF EnqAgain, AtWork, ProtectOK, TypeOK
  <2>. QED
    BY <2>1, <2>2, GuardOthers
<1>11. CASE EnqInsert(p)
  <2>1. CASE cells[node[p]][p] = NONE
    <3>1. Return(p)
      BY <1>11, <2>1, InsertEffect
    <3>2. Guarded(p)' /\ shielded' = shielded \ {p}
      BY <3>1 DEF Guarded, AtWork, TypeOK
    <3>. QED
      BY <3>2, GuardOthers DEF ProtectOK
  <2>2. CASE cells[node[p]][p] # NONE
    <3>1. /\ UNCHANGED <<arg, node, protectors, shielded, tail>>
          /\ pc[p] = "enqInsert" /\ pc'[p] = "enqWalk"
      BY <1>11, <2>2 DEF EnqInsert, TypeOK
    <3>2. Guarded(p)' /\ AtWork(p)'
      BY <3>1 DEF Guarded, AtWork, Enqueuing
    <3>. QED
      BY <3>1, <3>2, GuardOthers DEF ProtectOK
  <2>. QED
    BY <2>1, <2>2
<1>12. CASE EnqWalk(p)
  <2>1. Guarded(p)'
    <3>1. node[p] \in Node /\ protectors[p] \in Node
      BY <1>12 DEF EnqWalk, TypeOK, Guarded, AtWork
    <3>2. node'[p] = node[p] \/ (next[node[p]] # NULL /\ node'[p] = next[node[p]])
      BY <1>12 DEF EnqWalk, TypeOK
    <3>3. node[p] <= node'[p]
      BY <3>1, <3>2, LinkedNext DEF Numeric
    <3>4. AtWork(p) /\ AtWork(p)' /\ pc'[p] # "check" /\ UNCHANGED <<protectors, arg, tail>>
      BY <1>12 DEF EnqWalk, AtWork, TypeOK
    <3>5. protectors[p] \in Nat
      BY <3>1, LastAssumption DEF Node
    <3>. QED
      BY <3>1, <3>3, <3>4, <3>5 DEF Guarded, Enqueuing, Numeric
  <2>2. (\A q \in shielded' : AtWork(q)) /\ (AtWork(p)' \/ p \notin shielded')
    BY <1>12 DEF EnqWalk, AtWork, ProtectOK, TypeOK
  <2>. QED
    BY <2>1, <2>2, GuardOthers
<1>13. CASE DeqEmpty(p)
  <2>1. Guarded(p)'
    BY <1>13, <1>c, GuardStays DEF DeqEmpty, AtWork, TypeOK
  <2>2. (\A q \in shielded' : AtWork(q)) /\ (AtWork(p)' \/ p \notin shielded')
    BY <1>13 DEF DeqEmpty, AtWork, ProtectOK, TypeOK
  <2>. QED
    BY <2>1, <2>2, GuardOthers
<1>14. CASE DeqNext(p)
  <2>1. Guarded(p)'
    <3>1. node[p] \in Node /\ protectors[p] \in Node
      BY <1>14 DEF DeqNext, TypeOK, Guarded, AtWork
    <3>2. node'[p] = node[p] \/ (next[node[p]] # NULL /\ node'[p] = next[node[p]])
      BY <1>14 DEF DeqNext, TypeOK
    <3>3. node[p] <= node'[p]
      BY <3>1, <3>2, LinkedNext DEF Numeric
    <3>4. AtWork(p) /\ AtWork(p)' /\ pc'[p] # "check" /\ UNCHANGED <<protectors, arg, tail>>
      BY <1>14 DEF DeqNext, AtWork, TypeOK
    <3>5. protectors[p] \in Nat
      BY <3>1, LastAssumption DEF Node
    <3>. QED
      BY <3>1, <3>3, <3>4, <3>5 DEF Guarded, Enqueuing, Numeric
  <2>2. (\A q \in shielded' : AtWork(q)) /\ (AtWork(p)' \/ p \notin shielded')
    BY <1>14 DEF DeqNext, AtWork, ProtectOK, TypeOK
  <2>. QED
    BY <2>1, <2>2, GuardOthers
<1>15. CASE DeqTest(p)
  <2>1. Guarded(p)'
    BY <1>15, <1>c, GuardStays DEF DeqTest, AtWork, TypeOK
  <2>2. (\A q \in shielded' : AtWork(q)) /\ (AtWork(p)' \/ p \notin shielded')
    BY <1>15 DEF DeqTest, AtWork, ProtectOK, TypeOK
  <2>. QED
    BY <2>1, <2>2, GuardOthers
<1>16. CASE DeqDraw(p)
  <2>1. Guarded(p)'
    BY <1>16, <1>c, GuardStays DEF DeqDraw, AtWork, TypeOK
  <2>2. (\A q \in shielded' : AtWork(q)) /\ (AtWork(p)' \/ p \notin shielded')
    BY <1>16 DEF DeqDraw, AtWork, ProtectOK, TypeOK
  <2>. QED
    BY <2>1, <2>2, GuardOthers
<1>17. CASE DeqFlag(p)
  <2>1. Guarded(p)'
    BY <1>17, <1>c, GuardStays DEF DeqFlag, AtWork, TypeOK
  <2>2. (\A q \in shielded' : AtWork(q)) /\ (AtWork(p)' \/ p \notin shielded')
    BY <1>17 DEF DeqFlag, AtWork, ProtectOK, TypeOK
  <2>. QED
    BY <2>1, <2>2, GuardOthers
<1>18. CASE DeqCell(p)
  <2>1. Guarded(p)'
    BY <1>18, <1>c, GuardStays DEF DeqCell, AtWork, TypeOK
  <2>2. (\A q \in shielded' : AtWork(q)) /\ (AtWork(p)' \/ p \notin shielded')
    BY <1>18 DEF DeqCell, AtWork, ProtectOK, TypeOK
  <2>. QED
    BY <2>1, <2>2, GuardOthers
<1>19. CASE DeqLast(p)
  <2>1. Guarded(p)'
    BY <1>19, <1>c, GuardStays DEF DeqLast, AtWork, TypeOK
  <2>2. (\A q \in shielded' : AtWork(q)) /\ (AtWork(p)' \/ p \notin shielded')
    BY <1>19 DEF DeqLast, AtWork, ProtectOK, TypeOK
  <2>. QED
    BY <2>1, <2>2, GuardOthers
<1>20. CASE FreeTake(p)
  <2>0. UNCHANGED <<node, tail>> /\ pc[p] = "freeTake"
    BY <1>20 DEF FreeTake
  <2>1. CASE retired = NULL
    <3>1. Return(p)
      BY <1>20, <2>1 DEF FreeTake
    <3>2. Guarded(p)' /\ shielded' = shielded \ {p}
      BY <3>1 DEF Guarded, AtWork, TypeOK
    <3>. QED
      BY <3>2, GuardOthers DEF ProtectOK
  <2>2. CASE retired # NULL
    <3>1. /\ UNCHANGED <<arg, protectors>> /\ pc'[p] = "freeScan"
          /\ \A q \in shielded' : AtWork(q)
      BY <1>20, <2>2 DEF FreeTake, TypeOK
    <3>2. Guarded(p)' /\ AtWork(p)'
      BY <2>0, <3>1 DEF Guarded, AtWork, Enqueuing
    <3>. QED
      BY <3>1, <3>2, GuardOthers
  <2>. QED
    BY <2>1, <2>2
<1>21. CASE FreeScan(p)
  <2>1. Guarded(p)'
    BY <1>21, <1>c, GuardStays DEF FreeScan, AtWork, TypeOK
  <2>2. (\A q \in shielded' : AtWork(q)) /\ (AtWork(p)' \/ p \notin shielded')
    BY <1>21 DEF FreeScan, AtWork, ProtectOK, TypeOK
  <2>. QED
    BY <2>1, <2>2, GuardOthers
<1>22. CASE FreeLoop(p)
  <2>1. Guarded(p)'
    BY <1>22, <1>c, GuardStays DEF FreeLoop, AtWork, TypeOK
  <2>2. (\A q \in shielded' : AtWork(q)) /\ (AtWork(p)' \/ p \notin shielded')
    BY <1>22 DEF FreeLoop, AtWork, ProtectOK, TypeOK
  <2>. QED
    BY <2>1, <2>2, GuardOthers
<1>23. CASE FreeStore(p)
  <2>1. Guarded(p)'
    BY <1>23 DEF FreeStore, Guarded, AtWork, Enqueuing, Pointer, TypeOK, CallOK
  <2>2. (\A q \in shielded' : AtWork(q)) /\ (AtWork(p)' \/ p \notin shielded')
    BY <1>23 DEF FreeStore, AtWork, ProtectOK, TypeOK
  <2>. QED
    BY <2>1, <2>2, GuardOthers
<1>24. CASE Dequeue(p)
  <2>1. Guarded(p)'
    BY <1>24 DEF Dequeue, Guarded, AtWork, Enqueuing, Pointer, TypeOK, CallOK
  <2>2. (\A q \in shielded' : AtWork(q)) /\ (AtWork(p)' \/ p \notin shielded')
    BY <1>24 DEF Dequeue, AtWork, ProtectOK, TypeOK
  <2>. QED
    BY <2>1, <2>2, GuardOthers
<1>25. ASSUME NEW v \in Items, Enqueue(p, v) PROVE ProtectOK'
  <2>1. Guarded(p)'
    BY <1>25 DEF Enqueue, Guarded, AtWork, Enqueuing, Pointer, TypeOK, CallOK
  <2>2. (\A q \in shielded' : AtWork(q)) /\ (AtWork(p)' \/ p \notin shielded')
    BY <1>25 DEF Enqueue, AtWork, ProtectOK, TypeOK
  <2>. QED
    BY <2>1, <2>2, GuardOthers
<1>. QED
  BY <1>1, <1>2, <1>3, <1>4, <1>5, <1>6, <1>7, <1>8, <1>9, <1>10, <1>11, <1>12, <1>13, <1>14, <1>15, <1>16,
     <1>17, <1>18, <1>19, <1>20, <1>21, <1>22, <1>23, <1>24, <1>25 DEF Step, EnqStep, DeqStep

\* A step outside freeNodes.
LEMMA FreeLocal ==
  ASSUME IInv, TypeOK', NEW p \in Procs, Framed(p), ~Owner(p), ~Owner(p)',
         UNCHANGED <<retired, heap, next, ret, min, i>>,
         shielded' \subseteq shielded, \A q \in shielded' : protectors'[q] = protectors[q]
  PROVE  FreeOK'
<1>0. FreeOK
  BY DEF IInv
<1>1. \A q \in Procs : (Owner(q)' <=> Owner(q)) /\ (Owner(q) => pc'[q] = pc[q])
  BY DEF Framed, Owner
<1>2. head \in Nat /\ head' \in Nat /\ head <= head'
  BY LastAssumption DEF Framed, IInv, TypeOK, Node
<1>3. \A n \in Node : First(n) => First(n)'
  <2>. SUFFICES ASSUME NEW n \in Node, First(n) PROVE First(n)'
    OBVIOUS
  <2>1. n <= head'
    BY <1>2, LastAssumption DEF First, Node
  <2>. QED
    BY <2>1 DEF First, Linked
<1>4. retired # NULL => First(retired)'
  BY <1>0, <1>3 DEF FreeOK, First
<1>5. \A q \in Procs : Owner(q) => First(ret[q])'
  BY <1>0, <1>3 DEF FreeOK, First
<1>6. \A q \in Procs : pc'[q] = "freeScan" => pc[q] = "freeScan"
  BY <1>1 DEF Owner, FreeLabels
<1>. QED
  BY <1>0, <1>1, <1>4, <1>5, <1>6 DEF FreeOK

\* freeNodes deletes nodes from the first on, up to those that it has seen protected.
LEMMA FreeStep ==
  ASSUME IInv, Next
  PROVE  FreeOK'
<1>0. IInv /\ TypeOK /\ CallOK /\ ListOK /\ ProtectOK /\ FreeOK
  BY DEF IInv
<1>. SUFFICES ASSUME NEW p \in Procs, Step(p)
              PROVE  FreeOK'
  BY DEF Next, Step
<1>a. Framed(p) /\ TypeOK'
  BY Frame, TypeStep
<1>b. Numeric
  BY <1>0, Numbers
<1>. USE <1>0, <1>a, <1>b DEF list, basket, reclaim, locals, history, EnqLabels, DrawLabels, FreeLabels, Goto, Return
<1>1. CASE ProtectLoad(p)
  <2>1. UNCHANGED <<retired, heap, next, ret, min, i>> /\ ~Owner(p) /\ ~Owner(p)'
    BY <1>1 DEF ProtectLoad, Owner, TypeOK
  <2>2. shielded' \subseteq shielded /\ \A q \in shielded' : protectors'[q] = protectors[q]
    BY <1>1 DEF ProtectLoad, AtWork, ProtectOK, TypeOK
  <2>. QED
    BY <2>1, <2>2, FreeLocal
<1>2. CASE Publish(p)
  <2>1. UNCHANGED <<retired, heap, next, ret, min, i>> /\ ~Owner(p) /\ ~Owner(p)'
    BY <1>2 DEF Publish, Owner, TypeOK
  <2>2. shielded' \subseteq shielded /\ \A q \in shielded' : protectors'[q] = protectors[q]
    BY <1>2 DEF Publish, AtWork, ProtectOK, TypeOK
  <2>. QED
    BY <2>1, <2>2, FreeLocal
<1>3. CASE ProtectCheck(p)
  <2>1. UNCHANGED <<retired, heap, next, ret, min, i>> /\ ~Owner(p) /\ ~Owner(p)'
    BY <1>3 DEF ProtectCheck, Owner, TypeOK
  <2>2. shielded' \subseteq shielded /\ \A q \in shielded' : protectors'[q] = protectors[q]
    BY <1>3 DEF ProtectCheck, AtWork, ProtectOK, TypeOK
  <2>. QED
    BY <2>1, <2>2, FreeLocal
<1>4. CASE AdvanceLoad(p)
  <2>1. UNCHANGED <<retired, heap, next, ret, min, i>> /\ ~Owner(p) /\ ~Owner(p)'
    BY <1>4 DEF AdvanceLoad, Owner, TypeOK
  <2>2. shielded' \subseteq shielded /\ \A q \in shielded' : protectors'[q] = protectors[q]
    BY <1>4 DEF AdvanceLoad, AtWork, ProtectOK, TypeOK
  <2>. QED
    BY <2>1, <2>2, FreeLocal
<1>5. CASE AdvanceCAS(p)
  <2>1. UNCHANGED <<retired, heap, next, ret, min, i>> /\ ~Owner(p) /\ ~Owner(p)'
    BY <1>5 DEF AdvanceCAS, Owner, TypeOK
  <2>2. shielded' \subseteq shielded /\ \A q \in shielded' : protectors'[q] = protectors[q]
    BY <1>5 DEF AdvanceCAS, AtWork, ProtectOK, TypeOK
  <2>. QED
    BY <2>1, <2>2, FreeLocal
<1>6. CASE EnqTail(p)
  <2>1. UNCHANGED <<retired, heap, next, ret, min, i>> /\ ~Owner(p) /\ ~Owner(p)'
    BY <1>6 DEF EnqTail, Owner, TypeOK
  <2>2. shielded' \subseteq shielded /\ \A q \in shielded' : protectors'[q] = protectors[q]
    BY <1>6 DEF EnqTail, AtWork, ProtectOK, TypeOK
  <2>. QED
    BY <2>1, <2>2, FreeLocal
<1>7. CASE EnqNext(p)
  <2>1. UNCHANGED <<retired, heap, next, ret, min, i>> /\ ~Owner(p) /\ ~Owner(p)'
    BY <1>7 DEF EnqNext, Owner, TypeOK
  <2>2. shielded' \subseteq shielded /\ \A q \in shielded' : protectors'[q] = protectors[q]
    BY <1>7 DEF EnqNext, AtWork, ProtectOK, TypeOK
  <2>. QED
    BY <2>1, <2>2, FreeLocal
<1>8. CASE EnqLink(p)
  <2>1. CASE next[node[p]] = NULL
    <3>0. /\ node[p] + 1 \in Node /\ node[p] \in Node
          /\ next' = [next EXCEPT ![node[p]] = node[p] + 1]
          /\ heap' = heap \cup {node[p] + 1}
      BY <1>8, <2>1, LinkEffect DEF TypeOK
    <3>1. /\ pc[p] = "enqLink" /\ pc'[p] = "enqSwing"
          /\ UNCHANGED <<head, retired, ret, min, i, shielded, protectors>>
      BY <1>8, <2>1 DEF EnqLink, TypeOK
    <3>2. \A m \in Node : Linked(m)' <=> Linked(m) \/ m = node[p] + 1
      <4>1. \A m \in Node : m # 0 => m - 1 \in Node
        BY LastAssumption DEF Node
      <4>2. \A m \in Node : m # 0 => (m - 1 = node[p] <=> m = node[p] + 1)
        BY <3>0, LastAssumption DEF Node
      <4>3. node[p] + 1 # 0 /\ node[p] + 1 # NULL
        BY <3>0, ValuesAssumption, LastAssumption DEF Node
      <4>4. \A m \in Node : next'[m] = IF m = node[p] THEN node[p] + 1 ELSE next[m]
        BY <3>0 DEF TypeOK
      <4>. QED
        BY <4>1, <4>2, <4>3, <4>4 DEF Linked
    <3>3. ~Linked(node[p] + 1)
      <4>1. node[p] + 1 # 0 /\ (node[p] + 1) - 1 = node[p]
        BY <3>0, LastAssumption DEF Node
      <4>. QED
        BY <2>1, <4>1 DEF Linked
    <3>4. head < node[p] + 1
      <4>1. head \in Node /\ Linked(head) /\ node[p] + 1 # head
        BY <3>3 DEF TypeOK, ListOK
      <4>2. ~(node[p] + 1 < head)
        BY <3>0, <3>3, <4>1, LinkedBefore
      <4>. QED
        BY <3>0, <4>1, <4>2, LastAssumption DEF Node
    <3>5. ASSUME NEW n \in Node, First(n) PROVE First(n)'
      <4>1. n <= node[p] + 1
        BY <3>0, <3>4, <3>5, LastAssumption DEF First, TypeOK, Node
      <4>. QED
        BY <3>0, <3>1, <3>2, <3>5, <4>1 DEF First
    <3>6. \A q \in Procs : Owner(q)' <=> Owner(q)
      BY <3>1 DEF Owner, Framed
    <3>7. \A q \in Procs : First(ret[q]) => First(ret[q])'
      BY <3>1, <3>5 DEF First
    <3>8. First(retired) => First(retired)'
      BY <3>1, <3>5 DEF First
    <3>9. \A q \in Procs : pc'[q] = pc[q] \/ ~Owner(q)
      BY <3>1 DEF Owner, Framed
    <3>. QED
      BY <3>1, <3>6, <3>7, <3>8, <3>9 DEF FreeOK, Owner
  <2>2. CASE next[node[p]] # NULL
    <3>1. /\ pc[p] = "enqLink" /\ pc'[p] = "enqAgain"
          /\ UNCHANGED <<retired, ret, min, i, shielded, heap, next, protectors>>
      BY <1>8, <2>2 DEF EnqLink, TypeOK
    <3>. QED
      BY <3>1, FreeLocal DEF Owner
  <2>. QED
    BY <2>1, <2>2
<1>9. CASE EnqSwing(p)
  <2>1. UNCHANGED <<retired, heap, next, ret, min, i>> /\ ~Owner(p) /\ ~Owner(p)'
    BY <1>9 DEF EnqSwing, Owner, TypeOK
  <2>2. shielded' \subseteq shielded /\ \A q \in shielded' : protectors'[q] = protectors[q]
    BY <1>9 DEF EnqSwing, AtWork, ProtectOK, TypeOK
  <2>. QED
    BY <2>1, <2>2, FreeLocal
<1>10. CASE EnqAgain(p)
  <2>1. UNCHANGED <<retired, heap, next, ret, min, i>> /\ ~Owner(p) /\ ~Owner(p)'
    BY <1>10 DEF EnqAgain, Owner, TypeOK
  <2>2. shielded' \subseteq shielded /\ \A q \in shielded' : protectors'[q] = protectors[q]
    BY <1>10 DEF EnqAgain, AtWork, ProtectOK, TypeOK
  <2>. QED
    BY <2>1, <2>2, FreeLocal
<1>11. CASE EnqInsert(p)
  <2>1. UNCHANGED <<retired, heap, next, ret, min, i>> /\ ~Owner(p) /\ ~Owner(p)'
    BY <1>11 DEF EnqInsert, Owner, TypeOK
  <2>2. shielded' \subseteq shielded /\ \A q \in shielded' : protectors'[q] = protectors[q]
    BY <1>11 DEF EnqInsert, AtWork, ProtectOK, TypeOK
  <2>. QED
    BY <2>1, <2>2, FreeLocal
<1>12. CASE EnqWalk(p)
  <2>1. UNCHANGED <<retired, heap, next, ret, min, i>> /\ ~Owner(p) /\ ~Owner(p)'
    BY <1>12 DEF EnqWalk, Owner, TypeOK
  <2>2. shielded' \subseteq shielded /\ \A q \in shielded' : protectors'[q] = protectors[q]
    BY <1>12 DEF EnqWalk, AtWork, ProtectOK, TypeOK
  <2>. QED
    BY <2>1, <2>2, FreeLocal
<1>13. CASE DeqEmpty(p)
  <2>1. UNCHANGED <<retired, heap, next, ret, min, i>> /\ ~Owner(p) /\ ~Owner(p)'
    BY <1>13 DEF DeqEmpty, Owner, TypeOK
  <2>2. shielded' \subseteq shielded /\ \A q \in shielded' : protectors'[q] = protectors[q]
    BY <1>13 DEF DeqEmpty, AtWork, ProtectOK, TypeOK
  <2>. QED
    BY <2>1, <2>2, FreeLocal
<1>14. CASE DeqNext(p)
  <2>1. UNCHANGED <<retired, heap, next, ret, min, i>> /\ ~Owner(p) /\ ~Owner(p)'
    BY <1>14 DEF DeqNext, Owner, TypeOK
  <2>2. shielded' \subseteq shielded /\ \A q \in shielded' : protectors'[q] = protectors[q]
    BY <1>14 DEF DeqNext, AtWork, ProtectOK, TypeOK
  <2>. QED
    BY <2>1, <2>2, FreeLocal
<1>15. CASE DeqTest(p)
  <2>1. UNCHANGED <<retired, heap, next, ret, min, i>> /\ ~Owner(p) /\ ~Owner(p)'
    BY <1>15 DEF DeqTest, Owner, TypeOK
  <2>2. shielded' \subseteq shielded /\ \A q \in shielded' : protectors'[q] = protectors[q]
    BY <1>15 DEF DeqTest, AtWork, ProtectOK, TypeOK
  <2>. QED
    BY <2>1, <2>2, FreeLocal
<1>16. CASE DeqDraw(p)
  <2>1. UNCHANGED <<retired, heap, next, ret, min, i>> /\ ~Owner(p) /\ ~Owner(p)'
    BY <1>16 DEF DeqDraw, Owner, TypeOK
  <2>2. shielded' \subseteq shielded /\ \A q \in shielded' : protectors'[q] = protectors[q]
    BY <1>16 DEF DeqDraw, AtWork, ProtectOK, TypeOK
  <2>. QED
    BY <2>1, <2>2, FreeLocal
<1>17. CASE DeqFlag(p)
  <2>1. UNCHANGED <<retired, heap, next, ret, min, i>> /\ ~Owner(p) /\ ~Owner(p)'
    BY <1>17 DEF DeqFlag, Owner, TypeOK
  <2>2. shielded' \subseteq shielded /\ \A q \in shielded' : protectors'[q] = protectors[q]
    BY <1>17 DEF DeqFlag, AtWork, ProtectOK, TypeOK
  <2>. QED
    BY <2>1, <2>2, FreeLocal
<1>18. CASE DeqCell(p)
  <2>1. UNCHANGED <<retired, heap, next, ret, min, i>> /\ ~Owner(p) /\ ~Owner(p)'
    BY <1>18 DEF DeqCell, Owner, TypeOK
  <2>2. shielded' \subseteq shielded /\ \A q \in shielded' : protectors'[q] = protectors[q]
    BY <1>18 DEF DeqCell, AtWork, ProtectOK, TypeOK
  <2>. QED
    BY <2>1, <2>2, FreeLocal
<1>19. CASE DeqLast(p)
  <2>1. UNCHANGED <<retired, heap, next, ret, min, i>> /\ ~Owner(p) /\ ~Owner(p)'
    BY <1>19 DEF DeqLast, Owner, TypeOK
  <2>2. shielded' \subseteq shielded /\ \A q \in shielded' : protectors'[q] = protectors[q]
    BY <1>19 DEF DeqLast, AtWork, ProtectOK, TypeOK
  <2>. QED
    BY <2>1, <2>2, FreeLocal
<1>20. CASE FreeTake(p)
  <2>0. /\ pc[p] = "freeTake" /\ UNCHANGED <<next, heap, head>>
        /\ ret' = [ret EXCEPT ![p] = retired] /\ retired' = NULL
        /\ i' = [i EXCEPT ![p] = 0]
    BY <1>20 DEF FreeTake
  <2>1. CASE retired = NULL
    <3>1. Return(p)
      BY <1>20, <2>1 DEF FreeTake
    <3>2. pc'[p] = "idle" /\ shielded' = shielded \ {p}
      BY <3>1 DEF TypeOK
    <3>3. PICK q \in Procs : Owner(q)
      BY <2>1 DEF FreeOK
    <3>4. q # p
      BY <2>0, <3>3 DEF Owner
    <3>5. \A r \in Procs : Owner(r)' <=> Owner(r)
      BY <2>0, <3>2 DEF Owner, Framed
    <3>6. \A r \in Procs : Owner(r) =>
            /\ pc'[r] = pc[r] /\ ret'[r] = ret[r] /\ min'[r] = min[r] /\ i'[r] = i[r]
      BY <2>0 DEF Owner, Framed
    <3>7. \A r \in shielded' : protectors'[r] = protectors[r]
      BY <3>2 DEF Framed, TypeOK
    <3>8. \A n \in Node : First(n) => First(n)'
      BY <2>0, <3>2, <3>7 DEF First, Linked
    <3>9. \A r \in Procs : Owner(r) => First(ret[r])'
      BY <3>6, <3>8 DEF First, FreeOK
    <3>10. \A r \in Procs : pc'[r] = "freeScan" => i'[r] \in Procs
      BY <3>5, <3>6 DEF Owner, FreeOK
    <3>11. \A r \in Procs : Owner(r) =>
             \A k \in shielded' : (pc'[r] = "freeScan" => k < i'[r]) => min'[r] <= protectors'[k]
      BY <3>2, <3>6, <3>7 DEF FreeOK
    <3>. QED
      BY <2>0, <3>3, <3>5, <3>9, <3>10, <3>11 DEF FreeOK
  <2>2. CASE retired # NULL
    <3>1. /\ UNCHANGED protectors /\ pc'[p] = "freeScan"
          /\ shielded' = {q \in Procs : AtWork(q) /\ protectors[q] \in heap}
      BY <1>20, <2>2 DEF FreeTake, TypeOK
    <3>2. First(retired) /\ \A q \in Procs : ~Owner(q)
      BY <2>2 DEF FreeOK
    <3>3. \A q \in Procs : Owner(q)' <=> q = p
      BY <3>1, <3>2 DEF Owner, Framed
    <3>4. ret'[p] = retired /\ i'[p] = 0
      BY <2>0 DEF TypeOK
    <3>5. \A q \in shielded' : retired <= protectors[q]
      BY <3>1, <3>2 DEF First, TypeOK
    <3>6. First(retired) /\ UNCHANGED <<next, heap, head, protectors>>
      BY <2>0, <3>1, <3>2
    <3>7. First(ret[p])'
      BY <3>4, <3>5, <3>6 DEF First, Linked
    <3>8. 0 \in Procs /\ \A q \in Procs : ~(q < 0)
      BY Threads
    <3>9. \A q \in Procs : q # p => pc'[q] # "freeScan"
      BY <3>3 DEF Owner
    <3>10. shielded' \subseteq Procs
      BY <3>1
    <3>. QED
      BY <2>0, <3>1, <3>3, <3>4, <3>7, <3>8, <3>9, <3>10 DEF FreeOK
  <2>. QED
    BY <2>1, <2>2
<1>21. CASE FreeScan(p)
  <2>0. /\ pc[p] = "freeScan" /\ UNCHANGED <<next, heap, head, retired, protectors, ret, shielded>>
        /\ pc'[p] = IF i[p] + 1 < ENQUEUERS THEN "freeScan" ELSE "freeLoop"
    BY <1>21 DEF FreeScan, TypeOK
  <2>1. /\ i[p] \in Procs /\ i' = [i EXCEPT ![p] = i[p] + 1]
        /\ min'[p] <= min[p] /\ min'[p] \in Nat
        /\ protectors[i[p]] \in heap => min'[p] <= protectors[i[p]]
    BY <1>21, ScanEffect
  <2>2. Owner(p) /\ \A q \in Procs : Owner(q)' <=> Owner(q)
    BY <2>0 DEF Owner, Framed
  <2>3. \A q \in Procs : Owner(q) => q = p
    BY <2>2 DEF FreeOK
  <2>4. First(ret[p])
    BY <2>2 DEF FreeOK
  <2>5. First(ret[p])'
    BY <2>0, <2>4 DEF First, Linked
  <2>6. pc'[p] = "freeScan" => i'[p] \in Procs
    <3>1. i'[p] = i[p] + 1
      BY <2>1 DEF TypeOK
    <3>. QED
      BY <2>0, <2>1, <3>1, Threads
  <2>7. ASSUME NEW q \in shielded, pc'[p] = "freeScan" => q < i'[p]
        PROVE  min'[p] <= protectors[q]
    <3>1. q \in Procs /\ protectors[q] \in Node /\ protectors[q] \in Nat /\ protectors[q] <= node[q]
      BY LastAssumption DEF TypeOK, ProtectOK, Guarded, Node
    <3>2. q < i[p] \/ q = i[p]
      <4>1. i'[p] = i[p] + 1
        BY <2>1 DEF TypeOK
      <4>. QED
        BY <2>0, <2>1, <2>7, <3>1, <4>1, Threads
    <3>3. CASE q < i[p]
      <4>1. min[p] <= protectors[q] /\ min[p] \in Nat
        BY <2>0, <2>2, <3>3 DEF FreeOK, TypeOK
      <4>. QED
        BY <2>1, <3>1, <4>1
    <3>4. CASE q = i[p]
      <4>1. Linked(protectors[q])
        <5>1. node[q] \in Node /\ Linked(node[q])
          BY <3>1 DEF TypeOK, ListOK
        <5>2. protectors[q] < node[q] \/ protectors[q] = node[q]
          BY <3>1, <5>1 DEF Numeric
        <5>. QED
          BY <3>1, <5>1, <5>2, LinkedBefore
      <4>2. protectors[q] \in heap
        BY <2>4, <3>1, <4>1 DEF First
      <4>. QED
        BY <2>1, <3>4, <4>2
    <3>. QED
      BY <3>2, <3>3, <3>4
  <2>8. \A q \in Procs : Owner(q)' => First(ret[q])'
    BY <2>2, <2>3, <2>5
  <2>9. \A q \in Procs : pc'[q] = "freeScan" => i'[q] \in Procs
    BY <2>2, <2>3, <2>6 DEF Owner
  <2>10. \A q \in Procs : Owner(q)' =>
           \A r \in shielded' : (pc'[q] = "freeScan" => r < i'[q]) => min'[q] <= protectors'[r]
    BY <2>0, <2>2, <2>3, <2>7
  <2>. QED
    BY <2>0, <2>2, <2>3, <2>8, <2>9, <2>10 DEF FreeOK
<1>22. CASE FreeLoop(p)
  <2>0. /\ pc[p] = "freeLoop" /\ UNCHANGED <<next, head, retired, protectors, min, i, shielded>>
        /\ pc'[p] \in {"freeLoop", "freeStore"}
    BY <1>22 DEF FreeLoop, TypeOK
  <2>1. Owner(p) /\ \A q \in Procs : Owner(q)' <=> Owner(q)
    BY <2>0 DEF Owner, Framed
  <2>2. \A q \in Procs : Owner(q) => q = p
    BY <2>1 DEF FreeOK
  <2>3. First(ret[p]) /\ (\A q \in shielded : min[p] <= protectors[q]) /\ retired = NULL
    BY <2>0, <2>1 DEF FreeOK
  <2>4. First(ret[p])'
    <3>1. CASE ret[p] # head /\ ret[p] < min[p]
      <4>1. /\ ret[p] \in Node /\ ret[p] < head /\ next[ret[p]] = ret[p] + 1 /\ ret[p] + 1 \in Node
        BY <2>1, <3>1, FreeLoopNext
      <4>2. heap' = heap \ {ret[p]} /\ ret'[p] = ret[p] + 1
        BY <1>22, <3>1, <4>1 DEF FreeLoop, TypeOK
      <4>3. \A m \in Node : ret[p] + 1 <= m <=> (ret[p] <= m /\ m # ret[p])
        BY <4>1, LastAssumption DEF Node
      <4>4. \A m \in Node : m \in heap' <=> Linked(m) /\ ret[p] + 1 <= m
        BY <2>3, <4>2, <4>3 DEF First
      <4>5. ret[p] + 1 <= head
        BY <4>1, LastAssumption DEF TypeOK, Node
      <4>6. ASSUME NEW q \in shielded PROVE ret[p] + 1 <= protectors[q]
        <5>1. min[p] <= protectors[q] /\ ret[p] < min[p] /\ min[p] \in Nat
          BY <2>3, <3>1 DEF TypeOK
        <5>2. protectors[q] \in Node
          BY DEF TypeOK, ProtectOK, Guarded
        <5>. QED
          BY <4>1, <5>1, <5>2, LastAssumption DEF Node
      <4>. QED
        BY <2>0, <4>1, <4>2, <4>4, <4>5, <4>6 DEF First, Linked
    <3>2. CASE ~(ret[p] # head /\ ret[p] < min[p])
      <4>1. UNCHANGED <<heap, ret>>
        BY <1>22, <3>2 DEF FreeLoop
      <4>. QED
        BY <2>0, <2>3, <4>1 DEF First, Linked
    <3>. QED
      BY <3>1, <3>2
  <2>5. \A q \in Procs : Owner(q)' => First(ret[q])'
    BY <2>1, <2>2, <2>4
  <2>6. \A q \in Procs : pc'[q] # "freeScan"
    BY <2>0, <2>1, <2>2 DEF Owner
  <2>7. \A q \in Procs : Owner(q)' => \A r \in shielded' : min'[q] <= protectors'[r]
    BY <2>0, <2>1, <2>2, <2>3
  <2>. QED
    BY <2>0, <2>1, <2>2, <2>3, <2>5, <2>6, <2>7 DEF FreeOK
<1>23. CASE FreeStore(p)
  <2>0. /\ pc[p] = "freeStore" /\ UNCHANGED <<next, head, heap>> /\ retired' = ret[p]
        /\ pc'[p] = "idle" /\ shielded' = shielded \ {p}
    BY <1>23 DEF FreeStore, TypeOK
  <2>1. First(ret[p]) /\ \A q \in Procs : Owner(q) => q = p
    BY <2>0 DEF FreeOK, Owner
  <2>2. \A q \in Procs : ~Owner(q)'
    BY <2>0, <2>1 DEF Owner, Framed
  <2>3. \A q \in shielded' : q \in shielded /\ protectors'[q] = protectors[q]
    BY <2>0 DEF Framed, TypeOK
  <2>4. First(retired)'
    BY <2>0, <2>1, <2>3 DEF First, Linked
  <2>5. retired' # NULL
    BY <2>0, <2>1, ValuesAssumption DEF First
  <2>6. \A q \in Procs : pc'[q] # "freeScan"
    BY <2>2 DEF Owner
  <2>. QED
    BY <2>2, <2>4, <2>5, <2>6 DEF FreeOK
<1>24. CASE Dequeue(p)
  <2>1. UNCHANGED <<retired, heap, next, ret, min, i>> /\ ~Owner(p) /\ ~Owner(p)'
    BY <1>24 DEF Dequeue, Owner, TypeOK
  <2>2. shielded' \subseteq shielded /\ \A q \in shielded' : protectors'[q] = protectors[q]
    BY <1>24 DEF Dequeue, AtWork, ProtectOK, TypeOK
  <2>. QED
    BY <2>1, <2>2, FreeLocal
<1>25. ASSUME NEW v \in Items, Enqueue(p, v) PROVE FreeOK'
  <2>1. UNCHANGED <<retired, heap, next, ret, min, i>> /\ ~Owner(p) /\ ~Owner(p)'
    BY <1>25 DEF Enqueue, Owner, TypeOK
  <2>2. shielded' \subseteq shielded /\ \A q \in shielded' : protectors'[q] = protectors[q]
    BY <1>25 DEF Enqueue, AtWork, ProtectOK, TypeOK
  <2>. QED
    BY <2>1, <2>2, FreeLocal
<1>. QED
  BY <1>1, <1>2, <1>3, <1>4, <1>5, <1>6, <1>7, <1>8, <1>9, <1>10, <1>11, <1>12, <1>13, <1>14, <1>15, <1>16,
     <1>17, <1>18, <1>19, <1>20, <1>21, <1>22, <1>23, <1>24, <1>25 DEF Step, EnqStep, DeqStep
-----------------------------------------------------------------------------
\* What the invariant says of a state.
LEMMA Inside ==
  ASSUME IInv
  PROVE  NothingPassedOver /\ NodesInOrder /\ TakenInOrder /\ DeletesUnprotected
<1>1. NothingPassedOver
  <2>. SUFFICES ASSUME NEW n \in Node, NEW c \in Procs, cells[n][c] \in Items
                PROVE  \/ counter[n] <= c /\ head <= n
                       \/ \E p \in Procs : Drawing(p, n, c)
    BY DEF NothingPassedOver, Drawing
  <2>1. CASE c < counter[n]
    BY <2>1, ValuesAssumption DEF IInv, DrawOK, CellsDrawn
  <2>2. CASE ~(c < counter[n])
    <3>1. counter[n] \in Nat /\ c \in Nat /\ c < ENQUEUERS /\ head \in Nat /\ n \in Nat
      BY Threads, LastAssumption DEF IInv, TypeOK, Node
    <3>2. ~Drawn(n)
      BY <2>2, <3>1, Threads DEF Drawn
    <3>3. ~(n < head)
      BY <3>2 DEF IInv, DrawOK
    <3>. QED
      BY <2>2, <3>1, <3>3
  <2>. QED
    BY <2>1, <2>2
<1>2. NodesInOrder
  BY DEF NodesInOrder, IInv, OrderOK
<1>3. TakenInOrder
  <2>. SUFFICES ASSUME NEW p \in Procs
                PROVE  /\ pc[p] \in DrawLabels =>
                            \A n \in 0 .. node[p] - 1 : Undrawn(n) \cap due[p] = {}
                       /\ pc[p] = "advLoad" /\ ~Enqueuing(p) /\ x[p] = NONE =>
                            \A n \in Node : Undrawn(n) \cap due[p] = {}
    BY DEF TakenInOrder, DrawLabels
  <2>1. ASSUME pc[p] \in DrawLabels, NEW n \in 0 .. node[p] - 1
        PROVE  Undrawn(n) \cap due[p] = {}
    <3>1. n \in Node /\ n < node[p]
      BY LastAssumption DEF IInv, TypeOK, Node
    <3>2. ~Enqueuing(p) /\ AtWork(p)
      BY <2>1 DEF IInv, CallOK, Enqueuing, AtWork, DrawLabels
    <3>3. Drawn(n)
      BY <3>1, <3>2 DEF IInv, DrawOK, PlaceDrawn
    <3>. QED
      BY <3>1, <3>3, DrawnIsDrawn
  <2>. QED
    BY <2>1 DEF IInv, DueOK, LeavesNothing
<1>4. DeletesUnprotected
  <2>. SUFFICES ASSUME NEW p \in shielded PROVE node[p] \in heap
    BY DEF DeletesUnprotected
  <2>1. p \in Procs /\ node[p] \in Node /\ Linked(node[p])
    BY DEF IInv, TypeOK, ListOK
  <2>2. protectors[p] \in Node /\ protectors[p] <= node[p]
    BY <2>1 DEF IInv, ProtectOK, Guarded
  <2>3. PICK n : First(n)
    BY DEF IInv, FreeOK
  <2>4. n <= node[p]
    BY <2>1, <2>2, <2>3, LastAssumption DEF First, Node
  <2>. QED
    BY <2>1, <2>3, <2>4 DEF First
<1>. QED
  BY <1>1, <1>2, <1>3, <1>4

\* Every reachable state satisfies the invariant.
THEOREM Invariance == Spec => []IInv
<1>1. ASSUME IInv, UNCHANGED vars PROVE IInv'
  <2>. USE <1>1 DEF vars, list, basket, reclaim, locals, history
  <2>1. TypeOK' /\ CallOK' /\ ListOK'
    BY DEF IInv, TypeOK, CallOK, ListOK, Linked
  <2>2. DrawOK'
    BY DEF IInv, DrawOK, CellsDrawn, PlaceDrawn, Drawing, Drawn, AtWork, Enqueuing
  <2>3. ItemOK' /\ DueOK'
    BY DEF IInv, ItemOK, DueOK, LeavesNothing, Undrawn, Enqueuing
  <2>4. OrderOK'
    BY DEF IInv, OrderOK, InOrder, Placed, AtWork, Enqueuing
  <2>5. ProtectOK' /\ FreeOK'
    BY DEF IInv, ProtectOK, Guarded, FreeOK, First, Linked, Owner, AtWork, Enqueuing
  <2>. QED
    BY <2>1, <2>2, <2>3, <2>4, <2>5 DEF IInv
<1>2. ASSUME IInv, Next PROVE IInv'
  BY <1>2, TypeStep, CallStep, ListStep, DrawStep, ItemStep, DueStep, OrderStep, ProtectStep, FreeStep
  DEF IInv
<1>3. IInv /\ [Next]_vars => IInv'
  BY <1>1, <1>2
<1>. QED
  BY InitIInv, <1>3, PTL DEF Spec

\* An item in a cell is still to be asked for: neither head nor a drawn number has passed
\* it by, however the insertions of lost appends and the draws interleave.
THEOREM ItemsAreNotPassedOver == Spec => []NothingPassedOver
BY Invariance, Inside, PTL

\* An enqueue that begins after another one has returned does not put its item into an
\* earlier basket.
THEOREM EnqueuesKeepOrder == Spec => []NodesInOrder
BY Invariance, Inside, PTL

\* A dequeue passes by no item that was there when it began, and answers EMPTY only when
\* all of those were drawn.
THEOREM DequeuesKeepOrder == Spec => []TakenInOrder
BY Invariance, Inside, PTL

\* No node is deleted that a thread protected before the scan, or that it goes on to.
THEOREM DeletionIsSafe == Spec => []DeletesUnprotected
BY Invariance, Inside, PTL
===============================================================================
