-------------------------------- MODULE LCRQ --------------------------------
(***************************************************************************)
(* Queue of queueTest/include/LCRQ.hpp: a list of ring queues (CRQ), each  *)
(* closed when an enqueue finds it full or finds no cell.                  *)
(*                                                                         *)
(* Bit 63 of a ring's tail (it is closed) and of a cell's idx (the cell is *)
(* unsafe: a dequeue gave its ticket up while an older item was there) are *)
(* fields of their own; both are read and written with the rest of their   *)
(* word.  CAS2 replaces val and idx of a cell together.                    *)
(*                                                                         *)
(* Rings are numbered in the order in which they are linked; one that      *)
(* loses the race is deleted by its thread.  A number is not used again.   *)
(* Reading head or tail, publishing it and reading it again is one step,   *)
(* the last load, as in module FAAArrayQueue; so is clear.                 *)
(***************************************************************************)
EXTENDS Integers, QueueCalls

CONSTANTS
  NODE_SIZE,
  Tries, Spins,   \* 10 and 200000 in the code
  Segments,       \* bound of the model: the rings there can be
  Tickets,        \* bound of the model: the tickets drawn from head and tail of a ring
  Threshold,      \* of module HazardPointers
  NULL

Segment == 0 .. Segments - 1

ASSUME RingAssumption == {NODE_SIZE, Segments} \subseteq Nat \ {0}
ASSUME LimitsAssumption == {Tries, Spins, Tickets} \subseteq Nat
ASSUME CellAssumption == NULL \notin Items \cup Segment

VARIABLES
  hp, retired, heap, scan,  \* of module HazardPointers
  ring,                     \* of every segment: the cells
  crqHead, crqTail, next,   \* of every segment: head, tail and next
  head, tail,
  seg,      \* ltail, lhead
  tkt,      \* tailTkt, headTkt
  nxt,      \* lnext, newNode
  cell,     \* idx or node_idx, and val, as they were read
  tt,       \* the value of crqTail that was read: tt, tail_idx
  r,        \* r, try_close
  h         \* head_idx of fixState

INSTANCE HazardPointers WITH Nodes <- Segment, HPs <- 1

ASSUME PoolAssumption == ThreadsAssumption /\ ThresholdAssumption /\ NullAssumption

pool == <<hp, retired, heap, scan>>

crq == <<ring, crqHead, crqTail, next, head, tail>>
locals == <<seg, tkt, nxt, cell, tt, r, h>>
vars == <<pool, crq, locals, calls>>

Open(i) == [idx |-> i, closed |-> FALSE]
Cell(v, i, u) == [val |-> v, idx |-> i, unsafe |-> u]
NewRing == [i \in 0 .. NODE_SIZE - 1 |-> Cell(NULL, i, FALSE)]

RingsInit ==
  /\ ring = [s \in Segment |-> NewRing]
  /\ crqHead = [s \in Segment |-> 0]
  /\ crqTail = [s \in Segment |-> Open(0)]
  /\ tkt = [p \in Procs |-> 0]
  /\ cell = [p \in Procs |-> Cell(NULL, 0, FALSE)]
  /\ tt = [p \in Procs |-> Open(0)]
  /\ r = [p \in Procs |-> 0]
  /\ h = [p \in Procs |-> 0]

Init ==
  /\ RingsInit
  /\ next = [s \in Segment |-> NULL]
  /\ head = 0
  /\ tail = 0
  /\ seg = [p \in Procs |-> 0]
  /\ nxt = [p \in Procs |-> NULL]
  /\ PoolInit
  /\ heap = {0}
  /\ CallsInit

Linked == {0} \cup {next[s] : s \in {t \in Segment : next[t] # NULL}}
Unlinked == Segment \ Linked

At(p) == tkt[p] % NODE_SIZE

\* CAS2 on the cell of the ticket: it succeeds if the cell is as it was read.
CASCell(p, read, new) ==
  IF ring[seg[p]][At(p)] = read THEN ring' = [ring EXCEPT ![seg[p]][At(p)] = new] ELSE UNCHANGED ring

SetClosed(s) == crqTail' = [crqTail EXCEPT ![s].closed = TRUE]
-----------------------------------------------------------------------------
Enqueue(p, v) ==
  /\ CallEnqueue(p, v, "enqTail")
  /\ r' = [r EXCEPT ![p] = 0]
  /\ UNCHANGED <<pool, crq, seg, tkt, nxt, cell, tt, h>>

\* ltail = protectPointer(0, tail.load()), and ltail == tail.load()
EnqTail(p) ==
  /\ pc[p] = "enqTail"
  /\ seg' = [seg EXCEPT ![p] = tail]
  /\ Publish(p, 0, tail)
  /\ Goto(p, "enqNext")
  /\ UNCHANGED <<retired, heap, scan, crq, tkt, nxt, cell, tt, r, h>>

EnqNext(p) ==
  /\ pc[p] = "enqNext"
  /\ nxt' = [nxt EXCEPT ![p] = next[seg[p]]]
  /\ Goto(p, IF next[seg[p]] = NULL THEN "enqTkt" ELSE "enqHelp")
  /\ UNCHANGED <<pool, crq, seg, tkt, cell, tt, r, h>>

\* tail.compare_exchange_strong(ltail, lnext) or (ltail, newNode)
SwingTail(p) ==
  /\ tail' = IF tail = seg[p] THEN nxt[p] ELSE tail
  /\ UNCHANGED <<retired, heap, scan, ring, crqHead, crqTail, next, head, locals>>
EnqHelp(p) == pc[p] = "enqHelp" /\ SwingTail(p) /\ Goto(p, "enqTail") /\ UNCHANGED hp
EnqSwing(p) == pc[p] = "enqSwing" /\ SwingTail(p) /\ Answer(p, OK) /\ Clear(p)

\* tailTkt = ltail->tail.fetch_add(1)
EnqTkt(p) ==
  /\ pc[p] = "enqTkt"
  /\ crqTail[seg[p]].idx < Tickets
  /\ tkt' = [tkt EXCEPT ![p] = crqTail[seg[p]].idx]
  /\ crqTail' = [crqTail EXCEPT ![seg[p]].idx = @ + 1]
  /\ Goto(p, IF crqTail[seg[p]].closed THEN "enqLink" ELSE "enqIdx")
  /\ UNCHANGED <<pool, ring, crqHead, next, head, tail, seg, nxt, cell, tt, r, h>>

\* ltail->next.compare_exchange_strong(nullNode, newNode), whose first cell has the item
EnqLink(p) ==
  /\ pc[p] = "enqLink"
  /\ IF next[seg[p]] = NULL
       THEN \E new \in Unlinked :
            /\ \A s \in Unlinked : new <= s
            /\ next' = [next EXCEPT ![seg[p]] = new]
            /\ nxt' = [nxt EXCEPT ![p] = new]
            /\ ring' = [ring EXCEPT ![new][0] = Cell(arg[p], 0, FALSE)]
            /\ crqTail' = [crqTail EXCEPT ![new] = Open(1)]
            /\ heap' = heap \cup {new}
            /\ Goto(p, "enqSwing")
       ELSE Goto(p, "enqTail") /\ UNCHANGED <<next, nxt, ring, crqTail, heap>>
  /\ UNCHANGED <<hp, retired, scan, crqHead, head, tail, seg, tkt, cell, tt, r, h>>

\* idx = cell->idx.load()
EnqIdx(p) ==
  /\ pc[p] = "enqIdx"
  /\ cell' = [cell EXCEPT ![p] = [ring[seg[p]][At(p)] EXCEPT !.val = NULL]]
  /\ Goto(p, "enqVal")
  /\ UNCHANGED <<pool, crq, seg, tkt, nxt, tt, r, h>>

\* Mutant of EnqVal: an unsafe cell is taken for a safe one.
EnqValUnsafe(p) ==
  /\ pc[p] = "enqVal"
  /\ Goto(p, IF ring[seg[p]][At(p)].val # NULL \/ cell[p].idx > tkt[p] THEN "enqFull" ELSE "enqCAS")
  /\ UNCHANGED <<pool, crq, locals>>

\* cell->val.load() == nullptr and idx <= tailTkt, and unless the cell is unsafe
EnqVal(p) ==
  /\ pc[p] = "enqVal"
  /\ Goto(p, IF ring[seg[p]][At(p)].val # NULL \/ cell[p].idx > tkt[p] THEN "enqFull"
             ELSE IF cell[p].unsafe THEN "enqHead" ELSE "enqCAS")
  /\ UNCHANGED <<pool, crq, locals>>

\* ... ltail->head.load() < tailTkt: the dequeue with that ticket is still to come
EnqHead(p) ==
  /\ pc[p] = "enqHead"
  /\ Goto(p, IF crqHead[seg[p]] < tkt[p] THEN "enqCAS" ELSE "enqFull")
  /\ UNCHANGED <<pool, crq, locals>>

\* CAS2(cell, nullptr, idx, elem, tailTkt)
EnqCAS(p) ==
  /\ pc[p] = "enqCAS"
  /\ CASCell(p, cell[p], Cell(arg[p], tkt[p], FALSE))
  /\ IF ring[seg[p]][At(p)] = cell[p] THEN Answer(p, OK) /\ Clear(p)
     ELSE Goto(p, "enqFull") /\ UNCHANGED hp
  /\ UNCHANGED <<retired, heap, scan, crqHead, crqTail, next, head, tail, locals>>

\* tailTkt - ltail->head.load() >= NODE_SIZE, then ++try_close
EnqFull(p) ==
  /\ pc[p] = "enqFull"
  /\ IF tkt[p] - crqHead[seg[p]] >= NODE_SIZE
       THEN Goto(p, "enqClose") /\ r' = [r EXCEPT ![p] = IF @ < Tries THEN @ + 1 ELSE @]
       ELSE Goto(p, "enqTail") /\ UNCHANGED r
  /\ UNCHANGED <<pool, crq, seg, tkt, nxt, cell, tt, h>>

\* closeCRQ: whatever it answers, enqueue starts again.
EnqClose(p) ==
  /\ pc[p] = "enqClose"
  /\ IF r[p] < Tries => crqTail[seg[p]] = Open(tkt[p] + 1) THEN SetClosed(seg[p]) ELSE UNCHANGED crqTail
  /\ Goto(p, "enqTail")
  /\ UNCHANGED <<pool, ring, crqHead, next, head, tail, locals>>
-----------------------------------------------------------------------------
Dequeue(p) == CallDequeue(p, "deqHead") /\ UNCHANGED <<pool, crq, locals>>

DeqHead(p) ==
  /\ pc[p] = "deqHead"
  /\ seg' = [seg EXCEPT ![p] = head]
  /\ Publish(p, 0, head)
  /\ Goto(p, "deqTkt")
  /\ UNCHANGED <<retired, heap, scan, crq, tkt, nxt, cell, tt, r, h>>

\* headTkt = lhead->head.fetch_add(1)
DeqTkt(p) ==
  /\ pc[p] = "deqTkt"
  /\ crqHead[seg[p]] < Tickets
  /\ tkt' = [tkt EXCEPT ![p] = crqHead[seg[p]]]
  /\ crqHead' = [crqHead EXCEPT ![seg[p]] = @ + 1]
  /\ r' = [r EXCEPT ![p] = 0]
  /\ tt' = [tt EXCEPT ![p] = Open(0)]
  /\ Goto(p, "deqIdx")
  /\ UNCHANGED <<pool, ring, crqTail, next, head, tail, seg, nxt, cell, h>>

\* node_idx = node->idx.load()
DeqIdx(p) ==
  /\ pc[p] = "deqIdx"
  /\ cell' = [cell EXCEPT ![p] = [ring[seg[p]][At(p)] EXCEPT !.val = NULL]]
  /\ Goto(p, "deqVal")
  /\ UNCHANGED <<pool, crq, seg, tkt, nxt, tt, r, h>>

\* What an empty cell is left for: the ring has no item of this ticket, or it came too late.
Passed(p, t) == t.idx < tkt[p] + 1 \/ r[p] > Spins \/ t.closed

\* An empty cell, with the value t of the ring's tail
EmptyCell(p, t) ==
  IF cell[p].unsafe \/ Passed(p, t)
    THEN Goto(p, "deqSkip") /\ UNCHANGED r
    ELSE Goto(p, "deqIdx") /\ r' = [r EXCEPT ![p] = @ + 1]

\* val = node->val.load()
DeqVal(p) ==
  /\ pc[p] = "deqVal"
  /\ LET v == ring[seg[p]][At(p)].val IN
     /\ cell' = [cell EXCEPT ![p].val = v]
     /\ IF cell[p].idx > tkt[p] THEN Goto(p, "deqEnd") /\ UNCHANGED r
        ELSE IF v # NULL
          THEN Goto(p, IF cell[p].idx = tkt[p] THEN "deqTake" ELSE "deqMark") /\ UNCHANGED r
        ELSE IF r[p] % NODE_SIZE = 0 THEN Goto(p, "deqTail") /\ UNCHANGED r
        ELSE EmptyCell(p, tt[p])
  /\ UNCHANGED <<pool, crq, seg, tkt, nxt, tt, h>>

\* tt = lhead->tail.load()
DeqTail(p) ==
  /\ pc[p] = "deqTail"
  /\ tt' = [tt EXCEPT ![p] = crqTail[seg[p]]]
  /\ EmptyCell(p, crqTail[seg[p]])
  /\ UNCHANGED <<pool, crq, seg, tkt, nxt, cell, h>>

\* The item of this ticket
DeqTake(p) ==
  /\ pc[p] = "deqTake"
  /\ CASCell(p, cell[p], Cell(NULL, tkt[p] + NODE_SIZE, cell[p].unsafe))
  /\ IF ring[seg[p]][At(p)] = cell[p] THEN Answer(p, cell[p].val) /\ Clear(p)
     ELSE Goto(p, "deqIdx") /\ UNCHANGED hp
  /\ UNCHANGED <<retired, heap, scan, crqHead, crqTail, next, head, tail, locals>>

\* An older item: mark its cell unsafe.
DeqMark(p) ==
  /\ pc[p] = "deqMark"
  /\ CASCell(p, cell[p], [cell[p] EXCEPT !.unsafe = TRUE])
  /\ Goto(p, IF ring[seg[p]][At(p)] = cell[p] THEN "deqEnd" ELSE "deqIdx")
  /\ UNCHANGED <<pool, crqHead, crqTail, next, head, tail, locals>>

\* No item: leave the cell to the next lap.
DeqSkip(p) ==
  /\ pc[p] = "deqSkip"
  /\ CASCell(p, cell[p], [cell[p] EXCEPT !.idx = tkt[p] + NODE_SIZE])
  /\ Goto(p, IF ring[seg[p]][At(p)] # cell[p] THEN "deqIdx"
             ELSE IF ~cell[p].unsafe /\ r[p] > Spins /\ (tt[p].closed \/ tt[p].idx > NODE_SIZE)
               THEN "deqClose" ELSE "deqEnd")
  /\ UNCHANGED <<pool, crqHead, crqTail, next, head, tail, locals>>

DeqClose(p) ==
  /\ pc[p] = "deqClose"
  /\ SetClosed(seg[p])
  /\ Goto(p, "deqEnd")
  /\ UNCHANGED <<pool, ring, crqHead, next, head, tail, locals>>

\* tailIndex(lhead->tail.load()) <= headTkt + 1: there may be nothing left.
DeqEnd(p) ==
  /\ pc[p] = "deqEnd"
  /\ Goto(p, IF crqTail[seg[p]].idx <= tkt[p] + 1 THEN "fixTail" ELSE "deqHead")
  /\ UNCHANGED <<pool, crq, locals>>

\* fixState: head may have passed tail; tail is moved up to it.
FixTail(p) ==
  /\ pc[p] = "fixTail"
  /\ tt' = [tt EXCEPT ![p] = crqTail[seg[p]]]
  /\ Goto(p, "fixHead")
  /\ UNCHANGED <<pool, crq, seg, tkt, nxt, cell, r, h>>

FixHead(p) ==
  /\ pc[p] = "fixHead"
  /\ h' = [h EXCEPT ![p] = crqHead[seg[p]]]
  /\ Goto(p, "fixCheck")
  /\ UNCHANGED <<pool, crq, seg, tkt, nxt, cell, tt, r>>

\* A closed tail is never less than head: its bit 63 is compared too.
FixCheck(p) ==
  /\ pc[p] = "fixCheck"
  /\ Goto(p, IF crqTail[seg[p]] # tt[p] THEN "fixTail"
             ELSE IF h[p] > tt[p].idx /\ ~tt[p].closed THEN "fixCAS" ELSE "deqNext")
  /\ UNCHANGED <<pool, crq, locals>>

FixCAS(p) ==
  /\ pc[p] = "fixCAS"
  /\ IF crqTail[seg[p]] = tt[p]
       THEN crqTail' = [crqTail EXCEPT ![seg[p]] = Open(h[p])] /\ Goto(p, "deqNext")
       ELSE Goto(p, "fixTail") /\ UNCHANGED crqTail
  /\ UNCHANGED <<pool, ring, crqHead, next, head, tail, locals>>

\* lnext = lhead->next.load(): empty if there is none
DeqNext(p) ==
  /\ pc[p] = "deqNext"
  /\ nxt' = [nxt EXCEPT ![p] = next[seg[p]]]
  /\ IF next[seg[p]] = NULL THEN Answer(p, EMPTY) /\ Clear(p) ELSE Goto(p, "deqLast") /\ UNCHANGED hp
  /\ UNCHANGED <<retired, heap, scan, crq, seg, tkt, cell, tt, r, h>>

\* tailIndex(lhead->tail) <= headTkt + 1, again
DeqLast(p) ==
  /\ pc[p] = "deqLast"
  /\ Goto(p, IF crqTail[seg[p]].idx <= tkt[p] + 1 THEN "deqSwing" ELSE "deqHead")
  /\ UNCHANGED <<pool, crq, locals>>

\* head.compare_exchange_strong(lhead, lnext), and retire(lhead)
DeqSwing(p) ==
  /\ pc[p] = "deqSwing"
  /\ IF head = seg[p]
       THEN head' = nxt[p] /\ RetireCall(p, seg[p]) /\ Goto(p, "deqScan")
       ELSE Goto(p, "deqHead") /\ UNCHANGED <<head, retired, heap, scan>>
  /\ UNCHANGED <<hp, ring, crqHead, crqTail, next, tail, locals>>

DeqScan(p) ==
  /\ pc[p] = "deqScan"
  /\ IF Scanning(p) THEN (ScanLoad(p) \/ ScanDelete(p)) /\ UNCHANGED calls
     ELSE Goto(p, "deqHead") /\ UNCHANGED pool
  /\ UNCHANGED <<crq, locals>>
-----------------------------------------------------------------------------
EnqStep(p) ==
  \/ EnqTail(p) \/ EnqNext(p) \/ EnqHelp(p) \/ EnqSwing(p) \/ EnqTkt(p) \/ EnqLink(p)
  \/ EnqIdx(p) \/ EnqVal(p) \/ EnqHead(p) \/ EnqCAS(p) \/ EnqFull(p) \/ EnqClose(p)

DeqStep(p) ==
  \/ DeqHead(p) \/ DeqTkt(p) \/ DeqIdx(p) \/ DeqVal(p) \/ DeqTail(p) \/ DeqTake(p)
  \/ DeqMark(p) \/ DeqSkip(p) \/ DeqClose(p) \/ DeqEnd(p)
  \/ FixTail(p) \/ FixHead(p) \/ FixCheck(p) \/ FixCAS(p)
  \/ DeqNext(p) \/ DeqLast(p) \/ DeqSwing(p) \/ DeqScan(p)

Next == \E p \in Procs :
  \/ EnqStep(p) \/ DeqStep(p)
  \/ Dequeue(p) \/ \E v \in Items : Enqueue(p, v)

Spec == Init /\ [][Next]_vars
-----------------------------------------------------------------------------
\* Thread p runs dequeue with ticket t of segment s, and has not decided yet.
Serves(p, s, t) ==
  pc[p] \in {"deqIdx", "deqVal", "deqTail", "deqTake", "deqMark", "deqSkip"}
    /\ seg[p] = s /\ tkt[p] = t

\* Every item in a ring is still to be asked for: its ticket was not drawn from the
\* ring's head yet, or the dequeue that drew it is looking at the cell.
NothingPassedOver ==
  \A s \in Segment : \A i \in DOMAIN ring[s] :
    ring[s][i].val # NULL =>
      \/ crqHead[s] <= ring[s][i].idx
      \/ \E p \in Procs : Serves(p, s, ring[s][i].idx)

\* The segment that the next step of thread p reads or writes.
Accessed(p) ==
  IF pc[p] \in {"idle", "enqTail", "enqHelp", "enqSwing", "deqHead", "deqSwing", "deqScan"}
    THEN {} ELSE {seg[p]}

\* No thread reads or writes a ring that was deleted.
NoUseAfterFree == \A p \in Procs : Accessed(p) \subseteq heap
=============================================================================
