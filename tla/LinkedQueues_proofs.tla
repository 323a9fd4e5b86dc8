---------------------------- MODULE LinkedQueues_proofs ----------------------------
(***************************************************************************)
(* What holds of the linked queues for every number of threads, nodes,     *)
(* cells and items: no dequeue of LCRQ gives its ticket up while the item  *)
(* of that ticket is in the ring and no enqueue puts an item under a       *)
(* ticket given up; and no thread of MSQueue, FAAArrayQueue or LCRQ        *)
(* touches a node that was deleted, in MSQueue as long as no CAS that      *)
(* compared a node's address has replaced a link; so long MSQueue also     *)
(* answers as a FIFO queue does.                                           *)
(***************************************************************************)
EXTENDS MCLinkedQueues, FiniteSetTheorems, SequenceTheorems, TLAPS

Position == 0 .. NODE_SIZE - 1
CellType == [val : Items \cup {NULL}, idx : Nat, unsafe : BOOLEAN]
TailType == [idx : Nat, closed : BOOLEAN]

\* The labels at which a thread has read a cell that it may still change.
EnqReading == {"enqVal", "enqHead", "enqCAS"}
DeqReading == {"deqVal", "deqTail", "deqTake", "deqMark", "deqSkip"}
EnqPcs ==
  {"enqTail", "enqNext", "enqHelp", "enqSwing", "enqTkt", "enqLink", "enqIdx", "enqVal", "enqHead",
   "enqCAS", "enqFull", "enqClose"}
DeqPcs ==
  {"deqHead", "deqTkt", "deqIdx", "deqVal", "deqTail", "deqTake", "deqMark", "deqSkip", "deqClose",
   "deqEnd", "fixTail", "fixHead", "fixCheck", "fixCAS", "deqNext", "deqLast", "deqSwing", "deqScan"}
Moving == {"enqHelp", "enqSwing", "deqLast", "deqSwing"}

TypeOK ==
  /\ ring \in [Segment -> [Position -> CellType]]
  /\ crqHead \in [Segment -> Nat]
  /\ crqTail \in [Segment -> TailType]
  /\ next \in [Segment -> Segment \cup {NULL}]
  /\ seg \in [Procs -> Segment]
  /\ tkt \in [Procs -> Nat]
  /\ nxt \in [Procs -> Segment \cup {NULL}]
  /\ cell \in [Procs -> CellType]
  /\ h \in [Procs -> Nat]

\* An enqueue has its item.
CallOK ==
  /\ pc \in [Procs -> {"idle"} \cup EnqPcs \cup DeqPcs]
  /\ arg \in [Procs -> Items \cup {NONE}]
  /\ \A p \in Procs : pc[p] \in EnqPcs => arg[p] \in Items

\* Threads are only in rings that are linked, and nothing was dequeued from the others.
ListOK ==
  /\ {head, tail} \subseteq Linked
  /\ \A p \in Procs : seg[p] \in Linked /\ (pc[p] \in Moving => nxt[p] \in Linked)
  /\ \A s \in Segment \ Linked : crqHead[s] = 0

\* What thread p knows of the cell it has read: the cell's index only grows, and the
\* step that p has chosen is the one for what it read.
ReadOK(p) ==
  /\ pc[p] \in EnqReading \cup DeqReading => cell[p].idx <= ring[seg[p]][At(p)].idx
  /\ pc[p] \in EnqReading \cup {"deqTail", "deqSkip"} => cell[p].val = NULL
  /\ pc[p] \in {"enqHead", "enqCAS", "deqTail", "deqSkip"} => cell[p].idx <= tkt[p]
  /\ pc[p] = "deqTake" => cell[p].idx = tkt[p] /\ cell[p].val # NULL
  /\ pc[p] = "deqMark" => cell[p].idx < tkt[p] /\ cell[p].val # NULL

\* Ticket t of ring s was drawn by a dequeue that has given it up, or found its item.
GivenUp(s, t) == t < crqHead[s] /\ \A p \in Procs : ~Serves(p, s, t)

\* The cell of such a ticket is not left as it was: its index is past the ticket, or
\* it is unsafe.
LeftOK ==
  \A s \in Segment, t \in Nat : GivenUp(s, t) =>
    LET c == ring[s][t % NODE_SIZE] IN c.idx > t \/ c.unsafe

\* An enqueue whose CAS would succeed holds a ticket that was not given up, nor was a
\* later one of the same cell.
CASOK ==
  \A p \in Procs : pc[p] = "enqCAS" /\ ring[seg[p]][At(p)] = cell[p] =>
    \A t \in Nat : tkt[p] <= t /\ t % NODE_SIZE = At(p) => ~GivenUp(seg[p], t)

\* An item is in the cell of its ticket.
PlaceOK ==
  \A s \in Segment, i \in Position : ring[s][i].val # NULL => ring[s][i].idx % NODE_SIZE = i

IInv ==
  /\ TypeOK /\ CallOK /\ ListOK /\ LeftOK /\ CASOK /\ PlaceOK /\ NothingPassedOver
  /\ \A p \in Procs : ReadOK(p)
-----------------------------------------------------------------------------
LEMMA Positions == ASSUME NEW t \in Nat PROVE t % NODE_SIZE \in Position
BY RingAssumption DEF Position

LEMMA LinkedSegments == ASSUME TypeOK PROVE Linked \subseteq Segment
<1>1. 0 \in Segment
  BY RingAssumption DEF Segment
<1>2. \A s \in Segment : next[s] # NULL => next[s] \in Segment
  BY DEF TypeOK
<1>3. QED
  BY <1>1, <1>2 DEF Linked

\* The words that the steps write, and what they keep.
LEMMA Cells ==
  /\ \A v \in Items \cup {NULL}, n \in Nat, u \in BOOLEAN :
       Cell(v, n, u) \in CellType /\ Cell(v, n, u).val = v /\ Cell(v, n, u).idx = n
         /\ Cell(v, n, u).unsafe = u
  /\ \A c \in CellType : c.val \in Items \cup {NULL} /\ c.idx \in Nat /\ c.unsafe \in BOOLEAN
BY DEF Cell, CellType

LEMMA CellChange ==
  ASSUME NEW c \in CellType, NEW v \in Items \cup {NULL}, NEW n \in Nat
  PROVE  /\ [c EXCEPT !.val = v] \in CellType /\ [c EXCEPT !.val = v].idx = c.idx
         /\ [c EXCEPT !.val = v].val = v /\ [c EXCEPT !.val = v].unsafe = c.unsafe
         /\ [c EXCEPT !.unsafe = TRUE] \in CellType /\ [c EXCEPT !.unsafe = TRUE].idx = c.idx
         /\ [c EXCEPT !.unsafe = TRUE].val = c.val /\ [c EXCEPT !.unsafe = TRUE].unsafe
         /\ [c EXCEPT !.idx = n] \in CellType /\ [c EXCEPT !.idx = n].idx = n
         /\ [c EXCEPT !.idx = n].val = c.val /\ [c EXCEPT !.idx = n].unsafe = c.unsafe
BY DEF CellType

\* The cell that a dequeue leaves to the next lap.
LEMMA NextLap ==
  ASSUME NEW c \in CellType, NEW n \in Nat
  PROVE  /\ Cell(NULL, n, c.unsafe) \in CellType /\ Cell(NULL, n, c.unsafe).val = NULL
         /\ Cell(NULL, n, c.unsafe).idx = n /\ Cell(NULL, n, c.unsafe).unsafe = c.unsafe
         /\ c.val = NULL =>
              /\ [c EXCEPT !.idx = n] \in CellType /\ [c EXCEPT !.idx = n].val = NULL
              /\ [c EXCEPT !.idx = n].idx = n /\ [c EXCEPT !.idx = n].unsafe = c.unsafe
BY DEF CellType, Cell

LEMMA TailChange ==
  ASSUME NEW t \in TailType, NEW n \in Nat
  PROVE  /\ t.idx \in Nat /\ [t EXCEPT !.closed = TRUE] \in TailType
         /\ [t EXCEPT !.idx = n] \in TailType /\ Open(n) \in TailType
BY DEF TailType, Open

LEMMA InitIInv == Init => IInv
<1> SUFFICES ASSUME Init PROVE IInv
  OBVIOUS
<1> USE DEF Init, RingsInit
<1>1. TypeOK /\ CallOK
  BY RingAssumption DEF TypeOK, CallOK, NewRing, Cell, CellType, Open, TailType, Position, Segment,
    CallsInit, EnqPcs, DeqPcs
<1>2. 0 \in Linked
  BY DEF Linked
<1>3. ListOK
  BY <1>2 DEF ListOK, CallsInit, Moving
<1>4. LeftOK
  BY DEF LeftOK, GivenUp
<1>5. CASOK /\ \A p \in Procs : ReadOK(p)
  BY DEF CASOK, ReadOK, CallsInit, EnqReading, DeqReading
<1>6. PlaceOK /\ NothingPassedOver
  BY DEF PlaceOK, NothingPassedOver, NewRing, Cell, Position
<1>7. QED
  BY <1>1, <1>3, <1>4, <1>5, <1>6 DEF IInv
-----------------------------------------------------------------------------
\* Steps and the types.
LEMMA EnqGoes ==
  ASSUME NEW p \in Procs, EnqStep(p)
  PROVE  /\ pc[p] \in EnqPcs
         /\ \/ \E l \in EnqPcs : Goto(p, l)
            \/ Answer(p, OK)
<1> USE DEF EnqPcs
<1>1. CASE EnqTail(p) \/ EnqNext(p) \/ EnqHelp(p) \/ EnqSwing(p) \/ EnqTkt(p)
  BY <1>1 DEF EnqTail, EnqNext, EnqHelp, EnqSwing, EnqTkt
<1>2. CASE EnqLink(p)
  BY <1>2 DEF EnqLink
<1>3. CASE EnqIdx(p) \/ EnqVal(p) \/ EnqHead(p)
  BY <1>3 DEF EnqIdx, EnqVal, EnqHead
<1>4. CASE EnqCAS(p) \/ EnqFull(p) \/ EnqClose(p)
  BY <1>4 DEF EnqCAS, EnqFull, EnqClose
<1>5. QED
  BY <1>1, <1>2, <1>3, <1>4 DEF EnqStep

LEMMA DeqGoes ==
  ASSUME NEW p \in Procs, DeqStep(p)
  PROVE  /\ pc[p] \in DeqPcs
         /\ \/ \E l \in DeqPcs : Goto(p, l)
            \/ \E a : Answer(p, a)
            \/ UNCHANGED calls
<1> USE DEF DeqPcs
<1>1. CASE DeqHead(p) \/ DeqTkt(p) \/ DeqIdx(p)
  BY <1>1 DEF DeqHead, DeqTkt, DeqIdx
<1>2. CASE DeqVal(p) \/ DeqTail(p)
  BY <1>2 DEF DeqVal, DeqTail, EmptyCell
<1>3. CASE DeqTake(p)
  BY <1>3 DEF DeqTake
<1>4. CASE DeqMark(p) \/ DeqSkip(p) \/ DeqClose(p) \/ DeqEnd(p)
  BY <1>4 DEF DeqMark, DeqSkip, DeqClose, DeqEnd
<1>5. CASE FixTail(p) \/ FixHead(p) \/ FixCheck(p)
  BY <1>5 DEF FixTail, FixHead, FixCheck
<1>6. CASE FixCAS(p)
  BY <1>6 DEF FixCAS
<1>7. CASE DeqNext(p)
  BY <1>7 DEF DeqNext
<1>8. CASE DeqLast(p) \/ DeqSwing(p) \/ DeqScan(p)
  BY <1>8 DEF DeqLast, DeqSwing, DeqScan
<1>9. QED
  BY <1>1, <1>2, <1>3, <1>4, <1>5, <1>6, <1>7, <1>8 DEF DeqStep

LEMMA CallStep ==
  ASSUME CallOK, NEW p \in Procs,
         \/ EnqStep(p) \/ DeqStep(p)
         \/ Dequeue(p) \/ \E v \in Items : Enqueue(p, v)
  PROVE  CallOK'
<1>1. ASSUME NEW l \in {"idle"} \cup EnqPcs \cup DeqPcs, NEW a \in Items \cup {NONE},
             pc' = [pc EXCEPT ![p] = l], arg' = [arg EXCEPT ![p] = a], l \in EnqPcs => a \in Items
      PROVE  CallOK'
  BY <1>1 DEF CallOK
<1>2. "idle" \notin EnqPcs /\ EnqPcs \cap DeqPcs = {} /\ "deqHead" \in DeqPcs /\ "enqTail" \in EnqPcs
  BY DEF EnqPcs, DeqPcs
<1>3. arg[p] \in Items \cup {NONE} /\ (pc[p] \in EnqPcs => arg[p] \in Items)
      /\ arg = [arg EXCEPT ![p] = arg[p]]
  BY DEF CallOK
<1>4. ASSUME NEW l \in EnqPcs, Goto(p, l), pc[p] \in EnqPcs PROVE CallOK'
  BY <1>1, <1>3, <1>4 DEF Goto
<1>5. ASSUME NEW l \in DeqPcs, Goto(p, l) PROVE CallOK'
  BY <1>1, <1>2, <1>3, <1>5 DEF Goto
<1>6. ASSUME NEW a, Answer(p, a) PROVE CallOK'
  BY <1>1, <1>2, <1>6 DEF Answer
<1>7. CASE EnqStep(p)
  BY <1>4, <1>6, <1>7, EnqGoes
<1>8. CASE DeqStep(p)
  <2>1. CASE UNCHANGED calls
    BY <2>1 DEF calls, CallOK
  <2>2. QED
    BY <1>5, <1>6, <1>8, <2>1, DeqGoes
<1>9. CASE Dequeue(p)
  BY <1>2, <1>5, <1>9 DEF Dequeue, CallDequeue
<1>10. ASSUME NEW v \in Items, Enqueue(p, v) PROVE CallOK'
  BY <1>1, <1>2, <1>10 DEF Enqueue, CallEnqueue
<1>11. QED
  BY <1>7, <1>8, <1>9, <1>10

LEMMA RingTypes ==
  ASSUME TypeOK, NEW p \in Procs, NEW made \in CellType, CASCell(p, cell[p], made)
  PROVE  ring' \in [Segment -> [Position -> CellType]]
<1>1. At(p) \in Position /\ seg[p] \in Segment
  BY Positions DEF At, TypeOK
<1>2. CASE ring[seg[p]][At(p)] = cell[p]
  <2>1. [ring[seg[p]] EXCEPT ![At(p)] = made] \in [Position -> CellType]
    BY <1>1 DEF TypeOK
  <2>2. ring' = [ring EXCEPT ![seg[p]] = [ring[seg[p]] EXCEPT ![At(p)] = made]]
    BY <1>2 DEF CASCell
  <2>3. QED
    BY <1>1, <2>1, <2>2 DEF TypeOK
<1>3. CASE ring[seg[p]][At(p)] # cell[p]
  BY <1>3 DEF CASCell, TypeOK
<1>4. QED
  BY <1>2, <1>3

LEMMA EnqTypes == ASSUME IInv, NEW p \in Procs, EnqStep(p) PROVE TypeOK'
<1> USE RingAssumption, CellAssumption DEF TypeOK, crq, locals
<1>0. /\ TypeOK /\ Linked \subseteq Segment /\ At(p) \in Position
      /\ {head, tail} \subseteq Segment
      /\ ring[seg[p]][At(p)] \in CellType /\ cell[p] \in CellType /\ tkt[p] \in Nat
      /\ crqTail[seg[p]] \in TailType /\ seg[p] \in Segment
  BY LinkedSegments, Positions DEF At, IInv, ListOK
<1>1. CASE EnqTail(p)
  BY <1>0, <1>1 DEF EnqTail
<1>2. CASE EnqNext(p)
  BY <1>0, <1>2 DEF EnqNext
<1>3. CASE EnqHelp(p) \/ EnqSwing(p)
  BY <1>0, <1>3 DEF EnqHelp, EnqSwing, SwingTail
<1>4. CASE EnqTkt(p)
  <2>1. PICK n \in Nat : n = crqTail[seg[p]].idx
    BY <1>0, TailChange
  <2>2. n + 1 \in Nat
    OBVIOUS
  <2>3. [crqTail[seg[p]] EXCEPT !.idx = n + 1] \in TailType
    BY <1>0, <2>2, TailChange
  <2>4. tkt' \in [Procs -> Nat]
    BY <1>0, <1>4, <2>1 DEF EnqTkt
  <2>5. crqTail' = [crqTail EXCEPT ![seg[p]] = [crqTail[seg[p]] EXCEPT !.idx = n + 1]]
    BY <1>0, <1>4, <2>1 DEF EnqTkt
  <2>6. crqTail' \in [Segment -> TailType]
    BY <1>0, <2>3, <2>5
  <2>7. QED
    BY <1>0, <1>4, <2>4, <2>6 DEF EnqTkt
<1>5. CASE EnqLink(p)
  <2>1. CASE next[seg[p]] = NULL
    <3>1. PICK made \in Segment :
            /\ next' = [next EXCEPT ![seg[p]] = made]
            /\ nxt' = [nxt EXCEPT ![p] = made]
            /\ ring' = [ring EXCEPT ![made][0] = Cell(arg[p], 0, FALSE)]
            /\ crqTail' = [crqTail EXCEPT ![made] = Open(1)]
      BY <1>5, <2>1 DEF EnqLink, Unlinked
    <3>2. arg[p] \in Items
      BY <1>5 DEF EnqLink, IInv, CallOK, EnqPcs
    <3>3. Cell(arg[p], 0, FALSE) \in CellType /\ Open(1) \in TailType
      BY <1>0, <3>2, Cells, TailChange
    <3>4. QED
      BY <1>0, <1>5, <3>1, <3>2, <3>3 DEF EnqLink, Position
  <2>2. CASE next[seg[p]] # NULL
    BY <1>0, <1>5, <2>2 DEF EnqLink
  <2>3. QED
    BY <2>1, <2>2
<1>6. CASE EnqIdx(p)
  <2>1. [ring[seg[p]][At(p)] EXCEPT !.val = NULL] \in CellType
    BY <1>0, CellChange
  <2>2. QED
    BY <1>0, <1>6, <2>1 DEF EnqIdx
<1>7. CASE EnqVal(p) \/ EnqHead(p) \/ EnqFull(p)
  BY <1>0, <1>7 DEF EnqVal, EnqHead, EnqFull
<1>8. CASE EnqCAS(p)
  <2>1. arg[p] \in Items
    BY <1>8 DEF EnqCAS, IInv, CallOK, EnqPcs
  <2>2. Cell(arg[p], tkt[p], FALSE) \in CellType
    BY <1>0, <2>1, Cells
  <2>3. QED
    BY <1>0, <1>8, <2>2, RingTypes DEF EnqCAS
<1>9. CASE EnqClose(p)
  <2>1. [crqTail[seg[p]] EXCEPT !.closed = TRUE] \in TailType
    BY <1>0, TailChange
  <2>2. crqTail' = crqTail \/ crqTail' = [crqTail EXCEPT ![seg[p]] = [crqTail[seg[p]] EXCEPT !.closed = TRUE]]
    BY <1>9 DEF EnqClose, SetClosed
  <2>3. crqTail' \in [Segment -> TailType]
    <3>1. CASE crqTail' = crqTail
      BY <1>0, <3>1
    <3>2. CASE crqTail' = [crqTail EXCEPT ![seg[p]] = [crqTail[seg[p]] EXCEPT !.closed = TRUE]]
      <4>1. seg[p] \in Segment /\ crqTail \in [Segment -> TailType]
        BY <1>0
      <4>2. QED
        BY ONLY <2>1, <3>2, <4>1
    <3>3. QED
      BY <2>2, <3>1, <3>2
  <2>4. QED
    BY <1>0, <1>9, <2>3 DEF EnqClose
<1>10. QED
  BY <1>1, <1>2, <1>3, <1>4, <1>5, <1>6, <1>7, <1>8, <1>9 DEF EnqStep

LEMMA DeqTypes == ASSUME IInv, NEW p \in Procs, DeqStep(p) PROVE TypeOK'
<1> USE RingAssumption, CellAssumption DEF TypeOK, crq, locals
<1>0. /\ TypeOK /\ Linked \subseteq Segment /\ At(p) \in Position
      /\ {head, tail} \subseteq Segment
      /\ ring[seg[p]][At(p)] \in CellType /\ cell[p] \in CellType /\ tkt[p] + NODE_SIZE \in Nat
      /\ crqTail[seg[p]] \in TailType /\ seg[p] \in Segment
  BY LinkedSegments, Positions DEF At, IInv, ListOK
<1>1. CASE DeqHead(p)
  BY <1>0, <1>1 DEF DeqHead
<1>2. CASE DeqTkt(p)
  BY <1>0, <1>2 DEF DeqTkt
<1>3. CASE DeqIdx(p)
  <2>1. [ring[seg[p]][At(p)] EXCEPT !.val = NULL] \in CellType
    BY <1>0, CellChange
  <2>2. QED
    BY <1>0, <1>3, <2>1 DEF DeqIdx
<1>4. CASE DeqVal(p)
  <2>1. ring[seg[p]][At(p)].val \in Items \cup {NULL}
    BY <1>0, Cells
  <2>2. [cell[p] EXCEPT !.val = ring[seg[p]][At(p)].val] \in CellType
    BY <1>0, <2>1, CellChange
  <2>3. cell' \in [Procs -> CellType]
    BY <1>0, <1>4, <2>2 DEF DeqVal
  <2>4. QED
    BY <1>0, <1>4, <2>3 DEF DeqVal
<1>5. CASE DeqTail(p)
  BY <1>0, <1>5 DEF DeqTail
<1>6. CASE DeqTake(p)
  <2>1. Cell(NULL, tkt[p] + NODE_SIZE, cell[p].unsafe) \in CellType
    BY <1>0, Cells
  <2>2. QED
    BY <1>0, <1>6, <2>1, RingTypes DEF DeqTake
<1>7. CASE DeqMark(p)
  <2>1. [cell[p] EXCEPT !.unsafe = TRUE] \in CellType
    BY <1>0, CellChange
  <2>2. QED
    BY <1>0, <1>7, <2>1, RingTypes DEF DeqMark
<1>8. CASE DeqSkip(p)
  <2>1. [cell[p] EXCEPT !.idx = tkt[p] + NODE_SIZE] \in CellType
    BY <1>0, CellChange
  <2>2. QED
    BY <1>0, <1>8, <2>1, RingTypes DEF DeqSkip
<1>9. CASE DeqClose(p)
  <2>1. [crqTail[seg[p]] EXCEPT !.closed = TRUE] \in TailType
    BY <1>0, TailChange
  <2>2. QED
    BY <1>0, <1>9, <2>1 DEF DeqClose, SetClosed
<1>10. CASE DeqEnd(p) \/ FixTail(p) \/ FixHead(p) \/ FixCheck(p)
  BY <1>0, <1>10 DEF DeqEnd, FixTail, FixHead, FixCheck
<1>11. CASE FixCAS(p)
  <2>1. h[p] \in Nat /\ Open(h[p]) \in TailType
    BY <1>0, TailChange
  <2>2. QED
    BY <1>0, <1>11, <2>1 DEF FixCAS
<1>12. CASE DeqNext(p) \/ DeqLast(p)
  BY <1>0, <1>12 DEF DeqNext, DeqLast
<1>13. CASE DeqSwing(p) \/ DeqScan(p)
  BY <1>0, <1>13 DEF DeqSwing, DeqScan
<1>14. QED
  BY <1>1, <1>2, <1>3, <1>4, <1>5, <1>6, <1>7, <1>8, <1>9, <1>10, <1>11, <1>12, <1>13 DEF DeqStep
-----------------------------------------------------------------------------
\* Steps and the list.
LEMMA NoLink == ASSUME UNCHANGED next PROVE Linked' = Linked
BY DEF Linked

\* The segment that is linked.
LEMMA OneLinked ==
  ASSUME next \in [Segment -> Segment \cup {NULL}], NEW s \in Segment, NEW f \in Unlinked, next[s] = NULL,
         next' = [next EXCEPT ![s] = f]
  PROVE  Linked' = Linked \cup {f}
<1>1. f \in Segment /\ f # NULL /\ f \notin Linked
  BY CellAssumption DEF Unlinked
<1>2. next'[s] = f /\ \A t \in Segment \ {s} : next'[t] = next[t]
  BY <1>1
<1>3. \A n : n \in Linked' <=> n = 0 \/ \E t \in Segment : next'[t] # NULL /\ n = next'[t]
  BY DEF Linked
<1>4. \A n : n \in Linked <=> n = 0 \/ \E t \in Segment : next[t] # NULL /\ n = next[t]
  BY DEF Linked
<1>5. ASSUME NEW n PROVE n \in Linked' <=> n \in Linked \cup {f}
  BY <1>1, <1>2, <1>3, <1>4
<1>6. QED
  BY <1>5

LEMMA LinkStep ==
  ASSUME IInv, NEW p \in Procs, NEW f \in Unlinked, next[seg[p]] = NULL,
         next' = [next EXCEPT ![seg[p]] = f]
  PROVE  Linked' = Linked \cup {f}
<1>1. seg[p] \in Segment /\ next \in [Segment -> Segment \cup {NULL}]
  BY DEF IInv, TypeOK
<1>2. QED
  BY <1>1, OneLinked

LEMMA EnqList == ASSUME IInv, NEW p \in Procs, EnqStep(p) PROVE ListOK'
<1> USE DEF Goto, Answer, Moving, crq, locals
<1>0. /\ ListOK /\ seg \in [Procs -> Segment] /\ nxt \in [Procs -> Segment \cup {NULL}]
      /\ DOMAIN pc = Procs
  BY DEF IInv, TypeOK, CallOK
<1>1. CASE EnqTail(p)
  BY <1>0, <1>1, NoLink DEF EnqTail, ListOK
<1>2. CASE EnqNext(p)
  <2>1. next[seg[p]] # NULL => next[seg[p]] \in Linked
    BY <1>0 DEF Linked
  <2>2. QED
    BY <1>0, <1>2, <2>1, NoLink DEF EnqNext, ListOK
<1>3. CASE EnqHelp(p) \/ EnqSwing(p)
  BY <1>0, <1>3, NoLink DEF EnqHelp, EnqSwing, SwingTail, ListOK
<1>4. CASE EnqTkt(p) \/ EnqIdx(p) \/ EnqVal(p) \/ EnqHead(p)
  BY <1>0, <1>4, NoLink DEF EnqTkt, EnqIdx, EnqVal, EnqHead, ListOK
<1>5. CASE EnqLink(p)
  <2>1. CASE next[seg[p]] = NULL
    <3>1. PICK made \in Unlinked :
            /\ next' = [next EXCEPT ![seg[p]] = made]
            /\ nxt' = [nxt EXCEPT ![p] = made]
      BY <1>5, <2>1 DEF EnqLink
    <3>2. Linked' = Linked \cup {made}
      BY <2>1, <3>1, LinkStep
    <3>3. QED
      BY <1>0, <1>5, <3>1, <3>2 DEF EnqLink, ListOK
  <2>2. CASE next[seg[p]] # NULL
    BY <1>0, <1>5, <2>2, NoLink DEF EnqLink, ListOK
  <2>3. QED
    BY <2>1, <2>2
<1>6. CASE EnqCAS(p) \/ EnqFull(p) \/ EnqClose(p)
  BY <1>0, <1>6, NoLink DEF EnqCAS, EnqFull, EnqClose, ListOK
<1>7. QED
  BY <1>1, <1>2, <1>3, <1>4, <1>5, <1>6 DEF EnqStep

LEMMA DeqList == ASSUME IInv, NEW p \in Procs, DeqStep(p) PROVE ListOK'
<1> USE DEF Goto, Answer, Moving, crq, locals, calls
<1>0. /\ ListOK /\ seg \in [Procs -> Segment] /\ nxt \in [Procs -> Segment \cup {NULL}]
      /\ DOMAIN pc = Procs /\ crqHead \in [Segment -> Nat]
  BY DEF IInv, TypeOK, CallOK
<1>1. CASE DeqHead(p) \/ DeqTkt(p) \/ DeqIdx(p)
  BY <1>0, <1>1, NoLink DEF DeqHead, DeqTkt, DeqIdx, ListOK
<1>2. CASE DeqVal(p) \/ DeqTail(p)
  BY <1>0, <1>2, NoLink DEF DeqVal, DeqTail, EmptyCell, ListOK
<1>3. CASE DeqTake(p) \/ DeqMark(p) \/ DeqSkip(p)
  BY <1>0, <1>3, NoLink DEF DeqTake, DeqMark, DeqSkip, ListOK
<1>4. CASE DeqClose(p) \/ DeqEnd(p) \/ FixTail(p) \/ FixHead(p) \/ FixCheck(p) \/ FixCAS(p)
  BY <1>0, <1>4, NoLink DEF DeqClose, DeqEnd, FixTail, FixHead, FixCheck, FixCAS, ListOK
<1>5. CASE DeqNext(p)
  <2>1. next[seg[p]] # NULL => next[seg[p]] \in Linked
    BY <1>0 DEF Linked
  <2>2. QED
    BY <1>0, <1>5, <2>1, NoLink DEF DeqNext, ListOK
<1>6. CASE DeqLast(p) \/ DeqSwing(p) \/ DeqScan(p)
  BY <1>0, <1>6, NoLink DEF DeqLast, DeqSwing, DeqScan, ListOK
<1>7. QED
  BY <1>1, <1>2, <1>3, <1>4, <1>5, <1>6 DEF DeqStep
-----------------------------------------------------------------------------
OthersStay(p) ==
  \A q \in Procs \ {p} :
    pc'[q] = pc[q] /\ seg'[q] = seg[q] /\ tkt'[q] = tkt[q] /\ cell'[q] = cell[q]

\* The part of the invariant that the next lemmas are about.
CellInv == LeftOK /\ CASOK /\ PlaceOK /\ NothingPassedOver /\ \A p \in Procs : ReadOK(p)

\* A step that writes no cell, and gives a ticket up only if its cell is past it.
LEMMA QuietCells ==
  ASSUME IInv, NEW p \in Procs, TypeOK', OthersStay(p), UNCHANGED <<ring, crqHead>>, ReadOK(p)',
         \A s \in Segment, t \in Nat :
           Serves(p, s, t) => Serves(p, s, t)' \/ ring[s][t % NODE_SIZE].idx > t,
         (pc[p] = "enqCAS")' =>
           /\ pc[p] \in EnqReading
           /\ (ring[seg[p]][At(p)] = cell[p])' =>
                \A t \in Nat : tkt'[p] <= t /\ t % NODE_SIZE = At(p)' => ~GivenUp(seg'[p], t)
  PROVE  CellInv'
<1>0. TypeOK /\ ListOK /\ LeftOK /\ CASOK /\ PlaceOK /\ NothingPassedOver /\ \A q \in Procs : ReadOK(q)
  BY DEF IInv
<1>1. \A s, t : \A q \in Procs \ {p} : Serves(q, s, t)' <=> Serves(q, s, t)
  BY DEF OthersStay, Serves
<1>2. ASSUME NEW s \in Segment, NEW t \in Nat, GivenUp(s, t)'
      PROVE  GivenUp(s, t) \/ (Serves(p, s, t) /\ ring[s][t % NODE_SIZE].idx > t)
  BY <1>1, <1>2 DEF GivenUp
<1>3. LeftOK'
  BY <1>0, <1>2 DEF LeftOK
<1>4. ASSUME NEW q \in Procs, NEW t \in Nat,
             (pc[q] = "enqCAS" /\ ring[seg[q]][At(q)] = cell[q])',
             (tkt[q] <= t /\ t % NODE_SIZE = At(q) /\ GivenUp(seg[q], t))'
      PROVE  FALSE
  <2>0. PICK s \in Segment : s = seg'[q]
    BY DEF TypeOK
  <2>1. GivenUp(s, t)' /\ tkt'[q] \in Nat /\ t % NODE_SIZE = At(q)' /\ tkt'[q] <= t
    BY <1>4, <2>0 DEF GivenUp, TypeOK
  <2>2. GivenUp(s, t) \/ (Serves(p, s, t) /\ ring[s][t % NODE_SIZE].idx > t)
    BY <1>2, <2>1
  <2>3. CASE q = p
    BY <1>4, <2>0, <2>1, <2>2, <2>3 DEF Serves, EnqReading
  <2>4. CASE q # p
    <3>1. pc[q] = "enqCAS" /\ s = seg[q] /\ tkt'[q] = tkt[q] /\ cell'[q] = cell[q] /\ At(q)' = At(q)
      BY <1>4, <2>0, <2>4 DEF OthersStay, At
    <3>2. ring[s][At(q)] = cell[q] /\ cell[q].idx <= tkt[q]
      <4>1. cell[q].idx <= tkt[q]
        BY <1>0, <3>1 DEF ReadOK
      <4>2. ring[s][At(q)] = cell[q]
        BY <1>4, <2>0, <3>1 DEF At
      <4>3. QED
        BY <4>1, <4>2
    <3>3. ~GivenUp(s, t)
      BY <1>0, <2>1, <3>1, <3>2 DEF CASOK
    <3>4. cell[q] \in CellType
      BY <1>0 DEF TypeOK
    <3>5. cell[q].idx \in Nat
      BY <3>4, Cells
    <3>6. QED
      BY <2>1, <2>2, <3>1, <3>2, <3>3, <3>5
  <2>5. QED
    BY <2>3, <2>4
<1>5. PlaceOK'
  BY <1>0 DEF PlaceOK
<1>6. ASSUME NEW s \in Segment, NEW i \in Position, ring[s][i].val # NULL
      PROVE  \/ crqHead[s] <= ring[s][i].idx
             \/ \E q \in Procs : Serves(q, s, ring[s][i].idx)'
  <2>1. ring[s][i].idx \in Nat /\ ring[s][i].idx % NODE_SIZE = i
    <3>1. ring[s][i] \in CellType
      BY <1>0 DEF TypeOK
    <3>2. QED
      BY <1>0, <1>6, <3>1, Cells DEF PlaceOK
  <2>2. \/ crqHead[s] <= ring[s][i].idx
        \/ \E q \in Procs : Serves(q, s, ring[s][i].idx)
    BY <1>0, <1>6 DEF NothingPassedOver, TypeOK
  <2>3. Serves(p, s, ring[s][i].idx) => Serves(p, s, ring[s][i].idx)'
    BY <2>1
  <2>4. QED
    BY <1>1, <2>2, <2>3
<1>7. \A q \in Procs : ReadOK(q)'
  BY <1>0 DEF OthersStay, ReadOK, At
<1>8. CASOK'
  BY <1>4 DEF CASOK
<1>9. NothingPassedOver'
  BY <1>0, <1>6 DEF NothingPassedOver, TypeOK
<1>10. QED
  BY <1>3, <1>5, <1>7, <1>8, <1>9 DEF CellInv

\* A step that writes the cell that thread p has read, and is then done with it.
LEMMA WriteCells ==
  ASSUME IInv, NEW p \in Procs, TypeOK', OthersStay(p), UNCHANGED crqHead,
         pc'[p] \in {"idle", "deqEnd", "deqClose"},
         pc[p] \in EnqReading \cup DeqReading, ring[seg[p]][At(p)] = cell[p],
         NEW made \in CellType, ring' = [ring EXCEPT ![seg[p]][At(p)] = made],
         made.idx >= cell[p].idx, made.val # NULL \/ made.idx > cell[p].idx,
         made.val # NULL =>
           /\ made.idx % NODE_SIZE = At(p)
           /\ crqHead[seg[p]] <= made.idx \/ \E q \in Procs \ {p} : Serves(q, seg[p], made.idx),
         \A t \in Nat : t % NODE_SIZE = At(p) /\ (GivenUp(seg[p], t) \/ Serves(p, seg[p], t)) =>
           made.idx > t \/ made.unsafe
  PROVE  CellInv'
<1>0. TypeOK /\ LeftOK /\ CASOK /\ PlaceOK /\ NothingPassedOver /\ \A q \in Procs : ReadOK(q)
  BY DEF IInv
<1>1. \A s, t : \A q \in Procs \ {p} : Serves(q, s, t)' <=> Serves(q, s, t)
  BY DEF OthersStay, Serves
<1>2. /\ seg[p] \in Segment /\ At(p) \in Position /\ cell[p] \in CellType
      /\ \A s \in Segment, i \in Position : ring[s][i] \in CellType /\ ring[s][i].idx \in Nat
      /\ cell[p].idx \in Nat /\ made.idx \in Nat /\ tkt[p] \in Nat
  BY <1>0, Positions, Cells DEF TypeOK, At
<1>3. /\ ring'[seg[p]][At(p)] = made
      /\ \A s \in Segment, i \in Position : s # seg[p] \/ i # At(p) => ring'[s][i] = ring[s][i]
  BY <1>0, <1>2 DEF TypeOK
<1>4. ASSUME NEW s \in Segment, NEW t \in Nat, GivenUp(s, t)'
      PROVE  GivenUp(s, t) \/ (Serves(p, s, t) /\ s = seg[p] /\ t % NODE_SIZE = At(p))
  BY <1>1, <1>4 DEF GivenUp, Serves, At
<1>5. LeftOK'
  <2>1. ASSUME NEW s \in Segment, NEW t \in Nat, GivenUp(s, t)'
        PROVE  ring'[s][t % NODE_SIZE].idx > t \/ ring'[s][t % NODE_SIZE].unsafe
    <3>1. CASE s = seg[p] /\ t % NODE_SIZE = At(p)
      BY <1>3, <1>4, <2>1, <3>1
    <3>2. CASE s # seg[p] \/ t % NODE_SIZE # At(p)
      BY <1>0, <1>3, <1>4, <2>1, <3>2, Positions DEF LeftOK
    <3>3. QED
      BY <3>1, <3>2
  <2>2. QED
    BY <2>1 DEF LeftOK
\* The index of a cell only grows.
<1>6. \A s \in Segment, i \in Position : ring'[s][i].idx >= ring[s][i].idx
  BY <1>2, <1>3
<1>7. ASSUME NEW q \in Procs, q # p, pc[q] \in EnqReading \cup DeqReading
      PROVE  /\ seg[q] \in Segment /\ At(q) \in Position /\ cell[q] \in CellType
             /\ cell[q].idx <= ring[seg[q]][At(q)].idx /\ cell[q].idx \in Nat
             /\ seg'[q] = seg[q] /\ At(q)' = At(q) /\ cell'[q] = cell[q] /\ tkt'[q] = tkt[q]
  BY <1>0, <1>7, Positions, Cells DEF TypeOK, At, ReadOK, OthersStay
<1>8. ASSUME NEW q \in Procs PROVE ReadOK(q)'
  <2>1. CASE q = p \/ pc[q] \notin EnqReading \cup DeqReading
    <3>1. pc'[q] \notin EnqReading \cup DeqReading
      BY <2>1 DEF OthersStay, EnqReading, DeqReading
    <3>2. QED
      BY <3>1 DEF ReadOK, EnqReading, DeqReading
  <2>2. CASE q # p /\ pc[q] \in EnqReading \cup DeqReading
    <3>1. cell[q].idx <= ring'[seg[q]][At(q)].idx
      <4>1. ring'[seg[q]][At(q)].idx >= ring[seg[q]][At(q)].idx /\ ring[seg[q]][At(q)].idx \in Nat
            /\ ring'[seg[q]][At(q)].idx \in Nat
        BY <1>2, <1>3, <1>6, <1>7, <2>2
      <4>2. QED
        BY <1>7, <2>2, <4>1
    <3>2. ReadOK(q) /\ pc'[q] = pc[q]
      BY <1>0, <2>2 DEF OthersStay
    <3>3. QED
      BY <1>7, <2>2, <3>1, <3>2 DEF ReadOK
  <2>3. QED
    BY <2>1, <2>2
<1>9. CASOK'
  <2>1. ASSUME NEW q \in Procs, NEW t \in Nat,
               (pc[q] = "enqCAS" /\ ring[seg[q]][At(q)] = cell[q])',
               (tkt[q] <= t /\ t % NODE_SIZE = At(q) /\ GivenUp(seg[q], t))'
        PROVE  FALSE
    <3>1. q # p
      BY <2>1
    <3>2. pc[q] = "enqCAS" /\ pc[q] \in EnqReading
      BY <2>1, <3>1 DEF OthersStay, EnqReading
    <3>3. ring'[seg[q]][At(q)] = cell[q] /\ tkt[q] <= t /\ t % NODE_SIZE = At(q) /\ GivenUp(seg[q], t)'
      BY <1>7, <2>1, <3>1, <3>2 DEF GivenUp
    <3>4. ReadOK(q) /\ cell[q].val = NULL
      BY <1>0, <3>2 DEF ReadOK
    <3>5. seg[q] # seg[p] \/ At(q) # At(p)
      <4> SUFFICES ASSUME seg[q] = seg[p], At(q) = At(p) PROVE FALSE
        OBVIOUS
      <4>1. made = cell[q]
        BY <1>3, <3>3
      <4>2. made.idx > cell[p].idx
        BY <3>4, <4>1
      <4>3. QED
        BY <1>2, <1>7, <3>1, <3>2, <4>1, <4>2
    <3>6. ring[seg[q]][At(q)] = cell[q]
      BY <1>3, <1>7, <3>1, <3>2, <3>3, <3>5
    <3>7. GivenUp(seg[q], t)
      BY <1>4, <1>7, <3>1, <3>2, <3>3, <3>5
    <3>8. QED
      BY <1>0, <3>2, <3>3, <3>6, <3>7 DEF CASOK
  <2>2. QED
    BY <2>1 DEF CASOK
<1>10. PlaceOK'
  <2>1. ASSUME NEW s \in Segment, NEW i \in Position, ring'[s][i].val # NULL
        PROVE  ring'[s][i].idx % NODE_SIZE = i
    BY <1>0, <1>3, <2>1 DEF PlaceOK
  <2>2. QED
    BY <2>1 DEF PlaceOK
<1>11. NothingPassedOver'
  <2>1. ASSUME NEW s \in Segment, NEW i \in Position, NEW n, ring'[s][i].val # NULL, n = ring'[s][i].idx
        PROVE  crqHead[s] <= n \/ \E q \in Procs : Serves(q, s, n)'
    <3>1. CASE s = seg[p] /\ i = At(p)
      BY <1>1, <1>3, <2>1, <3>1
    <3>2. CASE s # seg[p] \/ i # At(p)
      <4>1. ring'[s][i] = ring[s][i] /\ ring[s][i].val # NULL /\ n = ring[s][i].idx
        BY <1>3, <2>1, <3>2
      <4>2. n % NODE_SIZE = i
        BY <1>0, <4>1 DEF PlaceOK
      <4>3. crqHead[s] <= n \/ \E q \in Procs : Serves(q, s, n)
        BY <1>0, <4>1 DEF NothingPassedOver, TypeOK
      <4>4. ~Serves(p, s, n)
        BY <3>2, <4>2 DEF Serves, At
      <4>5. QED
        BY <1>1, <4>3, <4>4
    <3>3. QED
      BY <3>1, <3>2
  <2>2. ASSUME NEW s \in Segment, NEW i \in Position, (ring[s][i].val # NULL)'
        PROVE  (crqHead[s] <= ring[s][i].idx \/ \E q \in Procs : Serves(q, s, ring[s][i].idx))'
    BY <2>1, <2>2 DEF Serves
  <2>3. QED
    BY <2>2 DEF NothingPassedOver, TypeOK
<1>12. QED
  BY <1>5, <1>8, <1>9, <1>10, <1>11 DEF CellInv
-----------------------------------------------------------------------------
\* The enqueue, step by step.
LEMMA Stays ==
  ASSUME IInv, NEW p \in Procs,
         \/ EnqStep(p) \/ DeqStep(p)
         \/ Dequeue(p) \/ \E v \in Items : Enqueue(p, v)
  PROVE  OthersStay(p)
<1> USE DEF OthersStay, IInv, TypeOK, CallOK, locals, calls, Goto, Answer
<1>1. CASE EnqStep(p)
  <2>1. \A q \in Procs \ {p} : pc'[q] = pc[q]
    BY <1>1, EnqGoes
  <2>2. \A q \in Procs \ {p} : seg'[q] = seg[q] /\ tkt'[q] = tkt[q] /\ cell'[q] = cell[q]
    BY <1>1 DEF EnqStep, EnqTail, EnqNext, EnqHelp, EnqSwing, SwingTail, EnqTkt, EnqLink, EnqIdx,
      EnqVal, EnqHead, EnqCAS, EnqFull, EnqClose
  <2>3. QED
    BY <2>1, <2>2
<1>2. CASE DeqStep(p)
  <2>1. \A q \in Procs \ {p} : pc'[q] = pc[q]
    BY <1>2, DeqGoes
  <2>2. \A q \in Procs \ {p} : seg'[q] = seg[q] /\ tkt'[q] = tkt[q] /\ cell'[q] = cell[q]
    BY <1>2 DEF DeqStep, DeqHead, DeqTkt, DeqIdx, DeqVal, DeqTail, DeqTake, DeqMark, DeqSkip, DeqClose,
      DeqEnd, FixTail, FixHead, FixCheck, FixCAS, DeqNext, DeqLast, DeqSwing, DeqScan
  <2>3. QED
    BY <2>1, <2>2
<1>3. CASE Dequeue(p) \/ \E v \in Items : Enqueue(p, v)
  BY <1>3 DEF Dequeue, CallDequeue, Enqueue, CallEnqueue
<1>4. QED
  BY <1>1, <1>2, <1>3

\* The new ring of EnqLink holds its first item, and no thread is in it.
LEMMA LinkCells ==
  ASSUME IInv, NEW p \in Procs, TypeOK', OthersStay(p), UNCHANGED crqHead, NEW made \in Unlinked,
         \A s, t : ~Serves(p, s, t), pc'[p] = "enqSwing",
         NEW v \in Items, ring' = [ring EXCEPT ![made][0] = Cell(v, 0, FALSE)]
  PROVE  CellInv'
<1>0. /\ TypeOK /\ ListOK /\ LeftOK /\ CASOK /\ PlaceOK /\ NothingPassedOver
      /\ \A q \in Procs : ReadOK(q)
  BY DEF IInv
<1>1. \A s, t : \A q \in Procs : Serves(q, s, t)' <=> Serves(q, s, t)
  BY DEF OthersStay, Serves
<1>2. made \in Segment /\ made \notin Linked /\ crqHead[made] = 0 /\ 0 \in Position
  BY <1>0, RingAssumption DEF Unlinked, ListOK, Position
<1>3. /\ ring'[made][0] = Cell(v, 0, FALSE)
      /\ \A s \in Segment, i \in Position : s # made \/ i # 0 => ring'[s][i] = ring[s][i]
  BY <1>0, <1>2 DEF TypeOK
<1>4. \A s \in Segment, t \in Nat : GivenUp(s, t)' => GivenUp(s, t) /\ s # made
  BY <1>1, <1>2 DEF GivenUp
<1>5. LeftOK'
  <2>1. ASSUME NEW s \in Segment, NEW t \in Nat, GivenUp(s, t)'
        PROVE  ring'[s][t % NODE_SIZE].idx > t \/ ring'[s][t % NODE_SIZE].unsafe
    BY <1>0, <1>3, <1>4, <2>1, Positions DEF LeftOK
  <2>2. QED
    BY <2>1 DEF LeftOK
<1>6. \A q \in Procs : seg[q] \in Segment /\ seg[q] # made /\ At(q) \in Position
  BY <1>0, <1>2, Positions DEF TypeOK, ListOK, At
<1>7. ASSUME NEW q \in Procs, q # p
      PROVE  /\ pc'[q] = pc[q] /\ seg'[q] = seg[q] /\ At(q)' = At(q) /\ cell'[q] = cell[q] /\ tkt'[q] = tkt[q]
             /\ ring'[seg[q]][At(q)] = ring[seg[q]][At(q)]
  BY <1>3, <1>6, <1>7 DEF At, OthersStay
<1>8. ASSUME NEW q \in Procs PROVE ReadOK(q)'
  <2>1. CASE q = p
    BY <2>1 DEF ReadOK, EnqReading, DeqReading
  <2>2. CASE q # p
    BY <1>0, <1>7, <2>2 DEF ReadOK
  <2>3. QED
    BY <2>1, <2>2
<1>9. CASOK'
  <2>1. ASSUME NEW q \in Procs, NEW t \in Nat,
               (pc[q] = "enqCAS" /\ ring[seg[q]][At(q)] = cell[q])',
               (tkt[q] <= t /\ t % NODE_SIZE = At(q) /\ GivenUp(seg[q], t))'
        PROVE  FALSE
    <3>1. q # p
      BY <2>1
    <3>2. pc[q] = "enqCAS" /\ ring[seg[q]][At(q)] = cell[q] /\ tkt[q] <= t /\ t % NODE_SIZE = At(q)
      BY <1>7, <2>1, <3>1
    <3>3. PICK s \in Segment : s = seg[q] /\ s = seg'[q]
      BY <1>6, <1>7, <3>1
    <3>4. GivenUp(s, t)'
      BY <2>1, <3>3 DEF GivenUp
    <3>5. GivenUp(seg[q], t)
      BY <1>4, <3>3, <3>4
    <3>6. QED
      BY <1>0, <3>2, <3>5 DEF CASOK
  <2>2. QED
    BY <2>1 DEF CASOK
<1>10. PlaceOK'
  <2>1. 0 % NODE_SIZE = 0
    BY RingAssumption
  <2>2. ASSUME NEW s \in Segment, NEW i \in Position, ring'[s][i].val # NULL
        PROVE  ring'[s][i].idx % NODE_SIZE = i
    BY <1>0, <1>3, <2>1, <2>2 DEF PlaceOK, Cell
  <2>3. QED
    BY <2>2 DEF PlaceOK
<1>11. NothingPassedOver'
  <2>1. ASSUME NEW s \in Segment, NEW i \in Position, NEW n, ring'[s][i].val # NULL, n = ring'[s][i].idx
        PROVE  crqHead[s] <= n \/ \E q \in Procs : Serves(q, s, n)'
    <3>1. CASE s = made /\ i = 0
      BY <1>2, <1>3, <2>1, <3>1 DEF Cell
    <3>2. CASE s # made \/ i # 0
      <4>1. ring'[s][i] = ring[s][i] /\ ring[s][i].val # NULL /\ n = ring[s][i].idx
        BY <1>3, <2>1, <3>2
      <4>2. crqHead[s] <= n \/ \E q \in Procs : Serves(q, s, n)
        BY <1>0, <4>1 DEF NothingPassedOver, TypeOK
      <4>3. QED
        BY <1>1, <4>2
    <3>3. QED
      BY <3>1, <3>2
  <2>2. ASSUME NEW s \in Segment, NEW i \in Position, (ring[s][i].val # NULL)'
        PROVE  (crqHead[s] <= ring[s][i].idx \/ \E q \in Procs : Serves(q, s, ring[s][i].idx))'
    <3>1. PICK n : n = ring'[s][i].idx
      OBVIOUS
    <3>2. crqHead[s] <= n \/ \E q \in Procs : Serves(q, s, n)'
      BY <2>1, <2>2, <3>1
    <3>3. QED
      BY <3>1, <3>2 DEF Serves
  <2>3. QED
    BY <2>2 DEF NothingPassedOver, TypeOK
<1>12. QED
  BY <1>5, <1>8, <1>9, <1>10, <1>11 DEF CellInv

LEMMA EnqCells == ASSUME IInv, NEW p \in Procs, EnqStep(p), TypeOK' PROVE CellInv'
<1> DEFINE S == {"enqTail", "enqNext", "enqHelp", "enqSwing", "enqTkt", "enqLink", "enqIdx", "enqFull", "enqClose"}
<1>0. /\ TypeOK /\ CallOK /\ ListOK /\ LeftOK /\ ReadOK(p) /\ OthersStay(p) /\ DOMAIN pc = Procs
      /\ seg[p] \in Segment /\ tkt[p] \in Nat /\ At(p) \in Position /\ cell[p] \in CellType
      /\ ring[seg[p]][At(p)] \in CellType /\ DOMAIN cell = Procs
  BY Stays, Positions DEF IInv, TypeOK, CallOK, At
<1>1. \A s, t : ~Serves(p, s, t)
  BY EnqGoes DEF Serves, EnqPcs
\* A step after which the thread does not know a cell.
<1>2. ASSUME UNCHANGED <<ring, crqHead>>, pc'[p] \in {"idle"} \cup S PROVE CellInv'
  <2>1. ReadOK(p)'
    BY <1>2 DEF ReadOK, EnqReading, DeqReading
  <2>2. QED
    BY <1>0, <1>1, <1>2, <2>1, QuietCells
<1>3. CASE EnqTail(p) \/ EnqNext(p) \/ EnqHelp(p) \/ EnqSwing(p)
  BY <1>0, <1>2, <1>3 DEF EnqTail, EnqNext, EnqHelp, EnqSwing, SwingTail, Goto, Answer, crq
<1>4. CASE EnqTkt(p) \/ EnqFull(p) \/ EnqClose(p)
  BY <1>0, <1>2, <1>4 DEF EnqTkt, EnqFull, EnqClose, Goto, crq
<1>5. CASE EnqLink(p)
  <2>1. CASE next[seg[p]] = NULL
    <3>1. PICK made \in Unlinked : ring' = [ring EXCEPT ![made][0] = Cell(arg[p], 0, FALSE)]
      BY <1>5, <2>1 DEF EnqLink
    <3>2. UNCHANGED crqHead /\ pc'[p] = "enqSwing" /\ arg[p] \in Items
      BY <1>0, <1>5, <2>1 DEF EnqLink, Goto, CallOK, EnqPcs
    <3>3. QED
      BY <1>0, <1>1, <3>1, <3>2, LinkCells
  <2>2. CASE next[seg[p]] # NULL
    BY <1>0, <1>2, <1>5, <2>2 DEF EnqLink, Goto
  <2>3. QED
    BY <2>1, <2>2
<1>6. CASE EnqIdx(p)
  <2>1. /\ UNCHANGED <<ring, crqHead, seg, tkt>> /\ pc'[p] = "enqVal"
        /\ cell'[p] = [ring[seg[p]][At(p)] EXCEPT !.val = NULL]
    BY <1>0, <1>6 DEF EnqIdx, Goto, crq
  <2>2. cell'[p].idx = ring[seg[p]][At(p)].idx /\ cell'[p].val = NULL
    BY <1>0, <2>1, CellChange
  <2>3. At(p)' = At(p) /\ ring[seg[p]][At(p)].idx \in Nat
    BY <1>0, <2>1, Cells DEF At
  <2>4. ReadOK(p)'
    BY <2>1, <2>2, <2>3 DEF ReadOK, EnqReading, DeqReading
  <2>5. QED
    BY <1>0, <1>1, <2>1, <2>4, QuietCells
<1>7. CASE EnqVal(p)
  <2>1. /\ UNCHANGED <<ring, crqHead, seg, tkt, cell>> /\ At(p)' = At(p) /\ pc[p] = "enqVal"
        /\ cell[p].idx \in Nat
    BY <1>0, <1>7, Cells DEF EnqVal, crq, locals, At
  <2>2. \/ pc'[p] = "enqFull"
        \/ pc'[p] = "enqHead" /\ cell[p].idx <= tkt[p]
        \/ pc'[p] = "enqCAS" /\ cell[p].idx <= tkt[p] /\ ~cell[p].unsafe
    BY <1>0, <1>7, <2>1 DEF EnqVal, Goto
  <2>3. ReadOK(p)'
    BY <1>0, <2>1, <2>2 DEF ReadOK, EnqReading, DeqReading
  <2>4. ASSUME pc'[p] = "enqCAS", ring[seg[p]][At(p)] = cell[p], NEW t \in Nat, tkt[p] <= t, t % NODE_SIZE = At(p)
        PROVE  ~GivenUp(seg[p], t)
    BY <1>0, <2>1, <2>2, <2>4 DEF LeftOK
  <2>5. QED
    BY <1>0, <1>1, <2>1, <2>3, <2>4, QuietCells DEF EnqReading
<1>8. CASE EnqHead(p)
  <2>1. /\ UNCHANGED <<ring, crqHead, seg, tkt, cell>> /\ At(p)' = At(p) /\ pc[p] = "enqHead"
    BY <1>0, <1>8 DEF EnqHead, crq, locals, At
  <2>2. pc'[p] = "enqFull" \/ (pc'[p] = "enqCAS" /\ crqHead[seg[p]] < tkt[p])
    BY <1>0, <1>8 DEF EnqHead, Goto
  <2>3. ReadOK(p)'
    BY <1>0, <2>1, <2>2 DEF ReadOK, EnqReading, DeqReading
  <2>4. ASSUME pc'[p] = "enqCAS", NEW t \in Nat, tkt[p] <= t
        PROVE  ~GivenUp(seg[p], t)
    BY <1>0, <2>2, <2>4 DEF GivenUp, TypeOK
  <2>5. QED
    BY <1>0, <1>1, <2>1, <2>3, <2>4, QuietCells DEF EnqReading
<1>9. CASE EnqCAS(p)
  <2>1. CASE ring[seg[p]][At(p)] # cell[p]
    BY <1>0, <1>2, <1>9, <2>1 DEF EnqCAS, CASCell, Goto
  <2>2. CASE ring[seg[p]][At(p)] = cell[p]
    <3>1. /\ UNCHANGED crqHead /\ pc[p] = "enqCAS" /\ pc'[p] = "idle" /\ arg[p] \in Items
          /\ ring' = [ring EXCEPT ![seg[p]][At(p)] = Cell(arg[p], tkt[p], FALSE)]
      BY <1>0, <1>9, <2>2 DEF EnqCAS, CASCell, Answer, CallOK, EnqPcs
    <3>2. PICK made \in CellType : made = Cell(arg[p], tkt[p], FALSE) /\ made.val = arg[p] /\ made.idx = tkt[p]
      <4>1. arg[p] \in Items \cup {NULL} /\ tkt[p] \in Nat /\ FALSE \in BOOLEAN
        BY <1>0, <3>1
      <4>2. Cell(arg[p], tkt[p], FALSE) \in CellType /\ Cell(arg[p], tkt[p], FALSE).val = arg[p]
            /\ Cell(arg[p], tkt[p], FALSE).idx = tkt[p]
        BY <4>1 DEF Cell, CellType
      <4>3. QED
        BY <4>2
    <3>3. \A t \in Nat : tkt[p] <= t /\ t % NODE_SIZE = At(p) => ~GivenUp(seg[p], t)
      BY <2>2, <3>1 DEF IInv, CASOK
    <3>4. cell[p].idx <= tkt[p] /\ cell[p].idx \in Nat
      BY <1>0, <3>1, Cells DEF ReadOK
    <3>5. ~GivenUp(seg[p], tkt[p])
      BY <1>0, <3>3 DEF At
    <3>6. crqHead[seg[p]] <= tkt[p] \/ \E q \in Procs \ {p} : Serves(q, seg[p], tkt[p])
      BY <1>0, <1>1, <3>5 DEF GivenUp, TypeOK
    <3>7. ASSUME NEW t \in Nat, t % NODE_SIZE = At(p), GivenUp(seg[p], t) \/ Serves(p, seg[p], t)
          PROVE  made.idx > t
      <4>1. ~(tkt[p] <= t)
        BY <1>1, <3>3, <3>7
      <4>2. tkt[p] \in Nat /\ t \in Nat /\ made.idx = tkt[p]
        BY <1>0, <3>2
      <4>3. QED
        BY <4>1, <4>2
    <3>8. made.val # NULL /\ made.idx % NODE_SIZE = At(p) /\ made.idx >= cell[p].idx
      BY <1>0, <3>1, <3>2, <3>4, CellAssumption DEF At
    <3>9. pc[p] \in EnqReading \cup DeqReading /\ ring' = [ring EXCEPT ![seg[p]][At(p)] = made]
      BY <3>1, <3>2 DEF EnqReading
    <3>10. QED
      BY <1>0, <2>2, <3>1, <3>2, <3>6, <3>7, <3>8, <3>9, WriteCells
  <2>3. QED
    BY <2>1, <2>2
<1>10. QED
  BY <1>3, <1>4, <1>5, <1>6, <1>7, <1>8, <1>9 DEF EnqStep

\* The dequeue, step by step.
LEMMA TicketCells == ASSUME IInv, NEW p \in Procs, DeqTkt(p), OthersStay(p) PROVE CellInv'
<1>0. /\ TypeOK /\ CallOK /\ LeftOK /\ CASOK /\ PlaceOK /\ NothingPassedOver /\ \A q \in Procs : ReadOK(q)
      /\ DOMAIN pc = Procs /\ crqHead[seg[p]] \in Nat /\ seg[p] \in Segment
  BY DEF IInv, TypeOK, CallOK
<1>1. /\ UNCHANGED <<ring, seg>> /\ pc'[p] = "deqIdx" /\ pc[p] = "deqTkt" /\ tkt'[p] = crqHead[seg[p]]
      /\ crqHead' = [crqHead EXCEPT ![seg[p]] = crqHead[seg[p]] + 1]
  BY <1>0, DeqTkt(p) DEF DeqTkt, Goto, crq, TypeOK
<1>2. \A s \in Segment : crqHead[s] \in Nat /\ crqHead'[s] = IF s = seg[p] THEN crqHead[s] + 1 ELSE crqHead[s]
  BY <1>0, <1>1 DEF TypeOK
<1>3. /\ \A s, t : \A q \in Procs : Serves(q, s, t) => Serves(q, s, t)'
      /\ \A s, t : s = seg[p] /\ t = crqHead[s] => Serves(p, s, t)'
  BY <1>1 DEF OthersStay, Serves
<1>4. ASSUME NEW s \in Segment, NEW t \in Nat, GivenUp(s, t)' PROVE GivenUp(s, t)
  BY <1>2, <1>3, <1>4 DEF GivenUp
<1>5. LeftOK'
  BY <1>0, <1>1, <1>4 DEF LeftOK
<1>6. ASSUME NEW q \in Procs PROVE ReadOK(q)'
  <2>1. CASE q = p
    BY <1>1, <2>1 DEF ReadOK, EnqReading, DeqReading
  <2>2. CASE q # p
    BY <1>0, <1>1, <2>2 DEF ReadOK, OthersStay, At
  <2>3. QED
    BY <2>1, <2>2
<1>7. CASOK'
  <2>1. ASSUME NEW q \in Procs, NEW t \in Nat,
               (pc[q] = "enqCAS" /\ ring[seg[q]][At(q)] = cell[q])',
               (tkt[q] <= t /\ t % NODE_SIZE = At(q) /\ GivenUp(seg[q], t))'
        PROVE  FALSE
    <3>1. q # p
      BY <1>1, <2>1
    <3>2. pc[q] = "enqCAS" /\ ring[seg[q]][At(q)] = cell[q] /\ tkt[q] <= t /\ t % NODE_SIZE = At(q)
      BY <1>1, <2>1, <3>1 DEF OthersStay, At
    <3>3. PICK s \in Segment : s = seg[q] /\ s = seg'[q]
      BY <1>0, <1>1 DEF TypeOK
    <3>4. GivenUp(s, t)'
      BY <2>1, <3>3 DEF GivenUp
    <3>5. GivenUp(seg[q], t)
      BY <1>4, <3>3, <3>4
    <3>6. QED
      BY <1>0, <3>2, <3>5 DEF CASOK
  <2>2. QED
    BY <2>1 DEF CASOK
<1>8. PlaceOK'
  BY <1>0, <1>1 DEF PlaceOK
<1>9. NothingPassedOver'
  <2>1. ASSUME NEW s \in Segment, NEW i \in Position, NEW n, ring[s][i].val # NULL, n = ring[s][i].idx
        PROVE  crqHead'[s] <= n \/ \E q \in Procs : Serves(q, s, n)'
    <3>1. crqHead[s] <= n \/ \E q \in Procs : Serves(q, s, n)
      BY <1>0, <2>1 DEF NothingPassedOver, TypeOK
    <3>2. n \in Nat
      <4>1. ring[s][i] \in CellType
        BY <1>0 DEF TypeOK
      <4>2. QED
        BY <2>1, <4>1, Cells
    <3>3. QED
      BY <1>2, <1>3, <3>1, <3>2
  <2>2. ASSUME NEW s \in Segment, NEW i \in Position, (ring[s][i].val # NULL)'
        PROVE  (crqHead[s] <= ring[s][i].idx \/ \E q \in Procs : Serves(q, s, ring[s][i].idx))'
    <3>1. PICK n : n = ring[s][i].idx
      OBVIOUS
    <3>2. crqHead'[s] <= n \/ \E q \in Procs : Serves(q, s, n)'
      BY <1>1, <2>1, <2>2, <3>1
    <3>3. QED
      BY <1>1, <3>1, <3>2 DEF Serves
  <2>3. QED
    BY <1>0, <1>1, <2>2 DEF NothingPassedOver, TypeOK
<1>10. QED
  BY <1>5, <1>6, <1>7, <1>8, <1>9 DEF CellInv

LEMMA DeqCells == ASSUME IInv, NEW p \in Procs, DeqStep(p), TypeOK' PROVE CellInv'
<1> DEFINE Out == {"idle", "deqHead", "deqTkt", "deqIdx", "deqClose", "deqEnd", "fixTail", "fixHead", "fixCheck",
                   "fixCAS", "deqNext", "deqLast", "deqSwing", "deqScan"}
           Same == UNCHANGED <<ring, crqHead, seg, tkt, cell>>
<1>0. /\ TypeOK /\ CallOK /\ ListOK /\ LeftOK /\ PlaceOK /\ NothingPassedOver
      /\ ReadOK(p) /\ OthersStay(p) /\ DOMAIN pc = Procs
      /\ seg[p] \in Segment /\ tkt[p] \in Nat /\ At(p) \in Position /\ cell[p] \in CellType
      /\ ring[seg[p]][At(p)] \in CellType /\ DOMAIN cell = Procs /\ NODE_SIZE \in Nat \ {0}
      /\ cell[p].idx \in Nat /\ ring[seg[p]][At(p)].idx \in Nat
  BY Stays, Positions, Cells, RingAssumption DEF IInv, TypeOK, CallOK, At
<1>1. \A s, t : Serves(p, s, t) => s = seg[p] /\ t = tkt[p] /\ t % NODE_SIZE = At(p)
  BY DEF Serves, At
\* A step that gives nothing up and knows no cell after it.
<1>2. ASSUME UNCHANGED <<ring, crqHead>>, pc'[p] \in Out, \A s, t : ~Serves(p, s, t) PROVE CellInv'
  <2>1. ReadOK(p)'
    BY <1>2 DEF ReadOK, EnqReading, DeqReading
  <2>2. QED
    BY <1>0, <1>2, <2>1, QuietCells
\* A CAS that fails: back to the cell.
<1>3. ASSUME Same, pc'[p] = "deqIdx" PROVE CellInv'
  <2>1. ReadOK(p)'
    BY <1>3 DEF ReadOK, EnqReading, DeqReading
  <2>2. \A s, t : Serves(p, s, t) => Serves(p, s, t)'
    BY <1>3 DEF Serves
  <2>3. QED
    BY <1>0, <1>3, <2>1, <2>2, QuietCells
<1>4. CASE DeqHead(p)
  BY <1>0, <1>2, <1>4 DEF DeqHead, Goto, crq, Serves
<1>5. CASE DeqClose(p) \/ DeqEnd(p) \/ FixTail(p) \/ FixHead(p) \/ FixCheck(p) \/ FixCAS(p)
  BY <1>0, <1>2, <1>5 DEF DeqClose, DeqEnd, FixTail, FixHead, FixCheck, FixCAS, Goto, crq, Serves
<1>6. CASE DeqNext(p) \/ DeqLast(p) \/ DeqSwing(p) \/ DeqScan(p)
  BY <1>0, <1>2, <1>6 DEF DeqNext, DeqLast, DeqSwing, DeqScan, Goto, Answer, crq, calls, Serves
<1>7. CASE DeqTkt(p)
  BY <1>0, <1>7, TicketCells
<1>8. CASE DeqIdx(p)
  <2>1. /\ UNCHANGED <<ring, crqHead, seg, tkt>> /\ pc'[p] = "deqVal" /\ pc[p] = "deqIdx"
        /\ cell'[p] = [ring[seg[p]][At(p)] EXCEPT !.val = NULL]
    BY <1>0, <1>8 DEF DeqIdx, Goto, crq
  <2>2. cell'[p].idx = ring[seg[p]][At(p)].idx
    BY <1>0, <2>1, CellChange
  <2>3. At(p)' = At(p)
    BY <2>1 DEF At
  <2>4. ReadOK(p)'
    BY <1>0, <2>1, <2>2, <2>3 DEF ReadOK, EnqReading, DeqReading
  <2>5. \A s, t : Serves(p, s, t) => Serves(p, s, t)'
    BY <2>1 DEF Serves
  <2>6. QED
    BY <1>0, <2>1, <2>4, <2>5, QuietCells
<1>9. CASE DeqVal(p)
  <2>0. PICK v \in Items \cup {NULL} : v = ring[seg[p]][At(p)].val
    BY <1>0, Cells
  <2>1. /\ UNCHANGED <<ring, crqHead, seg, tkt>> /\ pc[p] = "deqVal" /\ At(p)' = At(p)
        /\ cell'[p] = [cell[p] EXCEPT !.val = v]
    BY <1>0, <1>9, <2>0 DEF DeqVal, crq, At
  <2>2. \/ pc'[p] = "deqEnd" /\ cell[p].idx > tkt[p]
        \/ pc'[p] = "deqTake" /\ v # NULL /\ cell[p].idx = tkt[p]
        \/ pc'[p] = "deqMark" /\ v # NULL /\ cell[p].idx < tkt[p]
        \/ pc'[p] \in {"deqTail", "deqSkip"} /\ v = NULL /\ cell[p].idx <= tkt[p]
        \/ pc'[p] = "deqIdx"
    BY <1>0, <1>9, <2>0 DEF DeqVal, EmptyCell, Goto
  <2>3. cell'[p].idx = cell[p].idx /\ cell'[p].val = v
    BY <1>0, <2>1, CellChange
  <2>4. cell[p].idx <= ring[seg[p]][At(p)].idx
    BY <1>0, <2>1 DEF ReadOK, DeqReading
  <2>5. ReadOK(p)'
    BY <1>0, <2>1, <2>2, <2>3, <2>4 DEF ReadOK, EnqReading, DeqReading
  <2>6. ASSUME NEW s, NEW t, Serves(p, s, t)
        PROVE  Serves(p, s, t)' \/ ring[s][t % NODE_SIZE].idx > t
    <3>1. CASE pc'[p] = "deqEnd"
      BY <1>0, <1>1, <2>2, <2>4, <2>6, <3>1
    <3>2. CASE pc'[p] # "deqEnd"
      BY <2>1, <2>2, <2>6, <3>2 DEF Serves
    <3>3. QED
      BY <3>1, <3>2
  <2>7. QED
    BY <1>0, <2>1, <2>2, <2>5, <2>6, QuietCells
<1>11. CASE DeqTail(p)
  <2>1. Same /\ pc[p] = "deqTail" /\ pc'[p] \in {"deqSkip", "deqIdx"} /\ At(p)' = At(p)
    BY <1>0, <1>11 DEF DeqTail, EmptyCell, Goto, crq, At
  <2>2. ReadOK(p)'
    BY <1>0, <2>1 DEF ReadOK, EnqReading, DeqReading
  <2>3. \A s, t : Serves(p, s, t) => Serves(p, s, t)'
    BY <2>1 DEF Serves
  <2>4. QED
    BY <1>0, <2>1, <2>2, <2>3, QuietCells
\* The CAS that leaves the cell to the next lap.
<1>10. ASSUME UNCHANGED crqHead, pc[p] \in {"deqTake", "deqSkip"}, pc'[p] \in {"idle", "deqEnd", "deqClose"},
              ring[seg[p]][At(p)] = cell[p], cell[p].idx <= tkt[p], NEW made \in CellType,
              ring' = [ring EXCEPT ![seg[p]][At(p)] = made],
              made.val = NULL, made.idx = tkt[p] + NODE_SIZE, made.unsafe = cell[p].unsafe
       PROVE  CellInv'
  <2>1. made.idx > tkt[p] /\ made.idx > cell[p].idx /\ made.idx >= cell[p].idx /\ made.idx \in Nat
    BY <1>0, <1>10
  <2>2. ASSUME NEW t \in Nat, t % NODE_SIZE = At(p), GivenUp(seg[p], t) \/ Serves(p, seg[p], t)
        PROVE  made.idx > t \/ made.unsafe
    <3>1. CASE GivenUp(seg[p], t)
      <4>1. cell[p].idx > t \/ cell[p].unsafe
        BY <1>0, <1>10, <2>2, <3>1 DEF LeftOK
      <4>2. QED
        BY <1>0, <1>10, <2>1, <2>2, <4>1
    <3>2. CASE Serves(p, seg[p], t)
      BY <1>1, <2>1, <3>2
    <3>3. QED
      BY <2>2, <3>1, <3>2
  <2>3. pc[p] \in EnqReading \cup DeqReading
    BY <1>10 DEF DeqReading
  <2>4. QED
    BY <1>0, <1>10, <2>1, <2>2, <2>3, WriteCells
<1>12. CASE DeqTake(p)
  <2>1. CASE ring[seg[p]][At(p)] # cell[p]
    BY <1>0, <1>3, <1>12, <2>1 DEF DeqTake, CASCell, Goto, locals
  <2>2. CASE ring[seg[p]][At(p)] = cell[p]
    <3>1. /\ UNCHANGED crqHead /\ pc[p] = "deqTake" /\ pc'[p] \in {"idle", "deqEnd", "deqClose"}
          /\ ring' = [ring EXCEPT ![seg[p]][At(p)] = Cell(NULL, tkt[p] + NODE_SIZE, cell[p].unsafe)]
      BY <1>0, <1>12, <2>2 DEF DeqTake, CASCell, Answer
    <3>2. tkt[p] + NODE_SIZE \in Nat /\ cell[p].unsafe \in BOOLEAN /\ NULL \in Items \cup {NULL}
      BY <1>0, Cells
    <3>3. cell[p].idx <= tkt[p]
      BY <1>0, <3>1 DEF ReadOK
    <3>4. PICK n \in Nat : n = tkt[p] + NODE_SIZE
      BY <3>2
    <3>5. PICK made \in CellType : /\ made = Cell(NULL, n, cell[p].unsafe)
                                  /\ made.val = NULL /\ made.idx = n /\ made.unsafe = cell[p].unsafe
      <4>1. Cell(NULL, n, cell[p].unsafe) \in CellType /\ Cell(NULL, n, cell[p].unsafe).val = NULL
            /\ Cell(NULL, n, cell[p].unsafe).idx = n /\ Cell(NULL, n, cell[p].unsafe).unsafe = cell[p].unsafe
        <5>1. cell[p] \in CellType /\ n \in Nat
          BY <1>0
        <5>2. QED
          BY <3>3, <5>1, NextLap, Zenon
      <4>2. QED
        BY <4>1
    <3>6. QED
      BY <1>0, <1>10, <2>2, <3>1, <3>3, <3>4, <3>5
  <2>3. QED
    BY <2>1, <2>2
<1>13. CASE DeqMark(p)
  <2>1. CASE ring[seg[p]][At(p)] # cell[p]
    BY <1>0, <1>3, <1>13, <2>1 DEF DeqMark, CASCell, Goto, locals
  <2>2. CASE ring[seg[p]][At(p)] = cell[p]
    <3>1. /\ UNCHANGED crqHead /\ pc[p] = "deqMark" /\ pc'[p] = "deqEnd"
          /\ ring' = [ring EXCEPT ![seg[p]][At(p)] = [cell[p] EXCEPT !.unsafe = TRUE]]
      BY <1>0, <1>13, <2>2 DEF DeqMark, CASCell, Goto
    <3>2. PICK made \in CellType : /\ made = [cell[p] EXCEPT !.unsafe = TRUE]
                                  /\ made.val = cell[p].val /\ made.idx = cell[p].idx /\ made.unsafe
      BY <1>0, CellChange
    <3>3. cell[p].idx < tkt[p] /\ cell[p].val # NULL
      BY <1>0, <3>1 DEF ReadOK
    <3>4. made.idx % NODE_SIZE = At(p)
      BY <1>0, <2>2, <3>2, <3>3 DEF PlaceOK
    <3>5. crqHead[seg[p]] <= made.idx \/ \E q \in Procs : Serves(q, seg[p], made.idx)
      BY <1>0, <2>2, <3>2, <3>3 DEF NothingPassedOver, TypeOK
    <3>6. ~Serves(p, seg[p], made.idx)
      BY <1>0, <1>1, <3>2, <3>3
    <3>7. pc[p] \in EnqReading \cup DeqReading /\ pc'[p] \in {"idle", "deqEnd", "deqClose"}
      BY <3>1 DEF DeqReading
    <3>8. /\ ring' = [ring EXCEPT ![seg[p]][At(p)] = made] /\ made.val # NULL /\ made.idx >= cell[p].idx
          /\ crqHead[seg[p]] <= made.idx \/ \E q \in Procs \ {p} : Serves(q, seg[p], made.idx)
      BY <1>0, <3>1, <3>2, <3>3, <3>5, <3>6
    <3>9. QED
      BY <1>0, <2>2, <3>1, <3>2, <3>4, <3>7, <3>8, WriteCells
  <2>3. QED
    BY <2>1, <2>2
<1>14. CASE DeqSkip(p)
  <2>1. CASE ring[seg[p]][At(p)] # cell[p]
    BY <1>0, <1>3, <1>14, <2>1 DEF DeqSkip, CASCell, Goto, locals
  <2>2. CASE ring[seg[p]][At(p)] = cell[p]
    <3>1. /\ UNCHANGED crqHead /\ pc[p] = "deqSkip" /\ pc'[p] \in {"idle", "deqEnd", "deqClose"}
          /\ ring' = [ring EXCEPT ![seg[p]][At(p)] = [cell[p] EXCEPT !.idx = tkt[p] + NODE_SIZE]]
      BY <1>0, <1>14, <2>2 DEF DeqSkip, CASCell, Goto
    <3>2. tkt[p] + NODE_SIZE \in Nat /\ cell[p].unsafe \in BOOLEAN /\ NULL \in Items \cup {NULL}
      BY <1>0, Cells
    <3>3. cell[p].idx <= tkt[p] /\ cell[p].val = NULL
      BY <1>0, <3>1 DEF ReadOK
    <3>4. PICK n \in Nat : n = tkt[p] + NODE_SIZE
      BY <3>2
    <3>5. PICK made \in CellType : /\ made = [cell[p] EXCEPT !.idx = n]
                                  /\ made.val = NULL /\ made.idx = n /\ made.unsafe = cell[p].unsafe
      <4>1. [cell[p] EXCEPT !.idx = n] \in CellType /\ [cell[p] EXCEPT !.idx = n].val = NULL
            /\ [cell[p] EXCEPT !.idx = n].idx = n /\ [cell[p] EXCEPT !.idx = n].unsafe = cell[p].unsafe
        <5>1. cell[p] \in CellType /\ n \in Nat
          BY <1>0
        <5>2. QED
          BY <3>3, <5>1, NextLap, Zenon
      <4>2. QED
        BY <4>1
    <3>6. QED
      BY <1>0, <1>10, <2>2, <3>1, <3>3, <3>4, <3>5
  <2>3. QED
    BY <2>1, <2>2
<1>15. QED
  BY <1>4, <1>5, <1>6, <1>7, <1>8, <1>9, <1>11, <1>12, <1>13, <1>14 DEF DeqStep

LEMMA CallCells ==
  ASSUME IInv, NEW p \in Procs, Dequeue(p) \/ \E v \in Items : Enqueue(p, v)
  PROVE  TypeOK' /\ ListOK' /\ CellInv'
<1>0. /\ TypeOK /\ CallOK /\ ListOK /\ OthersStay(p) /\ DOMAIN pc = Procs
      /\ UNCHANGED <<crq, seg, tkt, nxt, cell, h>> /\ pc'[p] \in {"enqTail", "deqHead"} /\ pc[p] = "idle"
      /\ \A q \in Procs \ {p} : pc'[q] = pc[q]
  BY Stays DEF IInv, Dequeue, CallDequeue, Enqueue, CallEnqueue, Goto, CallOK, locals, OthersStay
<1>1. TypeOK'
  BY <1>0 DEF TypeOK, crq
<1>2. ListOK'
  <2>1. UNCHANGED <<next, head, tail, crqHead, seg, nxt>> /\ Linked' = Linked
    BY <1>0, NoLink DEF crq
  <2>2. \A q \in Procs : (pc[q] \in Moving)' => pc[q] \in Moving
    BY <1>0 DEF Moving
  <2>3. QED
    BY <1>0, <2>1, <2>2 DEF ListOK
<1>3. ReadOK(p)' /\ \A s, t : ~Serves(p, s, t)
  BY <1>0 DEF ReadOK, EnqReading, DeqReading, Serves
<1>4. UNCHANGED <<ring, crqHead>> /\ pc'[p] # "enqCAS"
  BY <1>0 DEF crq
<1>5. CellInv'
  BY <1>0, <1>1, <1>3, <1>4, QuietCells
<1>6. QED
  BY <1>1, <1>2, <1>5

LEMMA NextIInv == IInv /\ [Next]_vars => IInv'
<1> SUFFICES ASSUME IInv, [Next]_vars PROVE IInv'
  OBVIOUS
<1>1. ASSUME NEW p \in Procs, EnqStep(p) PROVE IInv'
  BY <1>1, CallStep, EnqTypes, EnqList, EnqCells DEF IInv, CellInv
<1>2. ASSUME NEW p \in Procs, DeqStep(p) PROVE IInv'
  BY <1>2, CallStep, DeqTypes, DeqList, DeqCells DEF IInv, CellInv
<1>3. ASSUME NEW p \in Procs, Dequeue(p) \/ \E v \in Items : Enqueue(p, v) PROVE IInv'
  BY <1>3, CallStep, CallCells DEF IInv, CellInv
<1>4. CASE UNCHANGED vars
  <2>1. TypeOK' /\ CallOK' /\ ListOK'
    BY <1>4 DEF IInv, vars, crq, locals, calls, TypeOK, CallOK, ListOK, Linked
  <2>2. LeftOK' /\ CASOK' /\ PlaceOK' /\ NothingPassedOver' /\ \A p \in Procs : ReadOK(p)'
    BY <1>4 DEF IInv, vars, crq, locals, calls, LeftOK, CASOK, PlaceOK, NothingPassedOver, ReadOK,
      GivenUp, Serves, At
  <2>3. QED
    BY <2>1, <2>2 DEF IInv
<1>5. QED
  BY <1>1, <1>2, <1>3, <1>4 DEF Next

\* NothingPassedOver (lines 139-223 of LCRQ.hpp): a dequeue gives its ticket up only
\* over a cell that it has left to a later lap or marked unsafe, or whose index was
\* past the ticket, and the CAS of an enqueue fails on such a cell or is not tried.
THEOREM ItemsAreNotPassedOver == Spec => []NothingPassedOver
<1>1. Init => IInv
  BY InitIInv
<1>2. IInv /\ [Next]_vars => IInv'
  BY NextIInv
<1>3. IInv => NothingPassedOver
  BY DEF IInv
<1>4. QED
  BY <1>1, <1>2, <1>3, PTL DEF Spec

-----------------------------------------------------------------------------
(***************************************************************************)
(* Reclamation in a list of rings, as LCRQ has it.  They are retired in    *)
(* the order of the list, and tail is never before the one that the last   *)
(* retirer was in.  That thread's own hazard pointer is still on this      *)
(* one, so its scan keeps it; the others of its list are before head and   *)
(* tail, so that no thread publishes them any more, and what the scan has  *)
(* not met in a thread's pointer it would not meet there later.            *)
(*                                                                         *)
(* e and d are the labels of a thread of enqueue and of dequeue that is in *)
(* a ring, m those of them where it holds the next one.                    *)
(***************************************************************************)
Labels(e, d, m) ==
  /\ {"idle", "enqTail", "deqHead"} \cap (e \cup d) = {} /\ e \cap d = {}
  /\ "deqScan" \in d /\ m \subseteq (e \cup d) \ {"deqScan"}

SegsOK ==
  /\ next \in [Segment -> Segment \cup {NULL}]
  /\ seg \in [Procs -> Segment] /\ nxt \in [Procs -> Segment \cup {NULL}]
  /\ DOMAIN pc = Procs
  /\ {head, tail} \subseteq Linked /\ \A p \in Procs : seg[p] \in Linked

PoolTypeOK ==
  /\ hp \in [Procs -> [{0} -> Segment \cup {NULL}]]
  /\ retired \in [Procs -> Seq(Segment)]
  /\ scan \in [Procs -> [node : Nat, at : Nat]]
  /\ heap \subseteq Segment

\* Segments are linked one after the other, and tail is at the last or the one before.
OrderOK ==
  /\ \E k \in Segment : Linked = 0 .. k /\ \A s \in Segment : next[s] = IF s < k THEN s + 1 ELSE NULL
  /\ \A s \in Segment : next[s] # NULL => s <= tail

\* Threads are not past head or tail, and head and tail are moved one segment on.
WhereOK(p, e, d, m) ==
  /\ pc[p] \in e => seg[p] <= tail
  /\ pc[p] \in d => seg[p] <= head
  /\ pc[p] \in m => nxt[p] = next[seg[p]] /\ next[seg[p]] # NULL

\* The segments that thread p has retired; those its scan is looking for.
RetireOK(p) ==
  /\ \A n \in 1 .. Len(retired[p]) : retired[p][n] < head
  /\ pc[p] = "deqScan" =>
       /\ seg[p] < head /\ seg[p] <= tail
       /\ \A n \in 1 .. Len(retired[p]) : retired[p][n] <= seg[p]
  /\ Scanning(p) =>
       /\ pc[p] = "deqScan"
       /\ scan[p].node \in 1 .. Len(retired[p]) /\ scan[p].at \in 0 .. Loads
       /\ retired[p][scan[p].node] = seg[p] => scan[p].at <= p
       /\ retired[p][scan[p].node] # seg[p] =>
            \A q \in Procs : q < scan[p].at => hp[q][0] # retired[p][scan[p].node]

\* A thread in a segment publishes it, and the segment is allocated.
ProtectOK(p, e, d) == pc[p] \in e \cup d => hp[p][0] = seg[p] /\ seg[p] \in heap

\* Only segments before head and tail are deleted.
HeapOK == \A s \in Linked : s \in heap \/ (s < head /\ s < tail)

RInv(e, d, m) ==
  /\ SegsOK /\ PoolTypeOK /\ OrderOK /\ HeapOK
  /\ \A p \in Procs : WhereOK(p, e, d, m) /\ RetireOK(p) /\ ProtectOK(p, e, d)

ListInit ==
  /\ next = [s \in Segment |-> NULL] /\ head = 0 /\ tail = 0
  /\ seg = [p \in Procs |-> 0] /\ nxt = [p \in Procs |-> NULL]
  /\ PoolInit /\ heap = {0} /\ pc = [p \in Procs |-> "idle"]
-----------------------------------------------------------------------------
LEMMA Threads ==
  /\ Loads \in Nat /\ Procs = 0 .. Loads - 1
  /\ \A p \in Procs : p \in Nat /\ p < Loads
  /\ \A n \in Nat : n < Loads => n \in Procs /\ HazardAt(n) = hp[n][0]
<1>1. Loads \in Nat /\ Procs = 0 .. Loads - 1
  <2>1. Cardinality(Procs) \in Nat
    BY PoolAssumption, FS_CardinalityType DEF ThreadsAssumption
  <2>2. Loads = Cardinality(Procs)
    BY <2>1 DEF Loads
  <2>3. QED
    BY <2>1, <2>2, PoolAssumption DEF ThreadsAssumption
<1>2. \A n \in Nat : n \div 1 = n /\ 1 - 1 - (n % 1) = 0
  OBVIOUS
<1>3. QED
  BY <1>1, <1>2 DEF HazardAt

LEMMA SegmentNumbers ==
  Segment \subseteq Nat /\ NULL \notin Segment /\ 0 \in Segment
BY RingAssumption, CellAssumption DEF Segment

\* What is left of a list when a node is erased.
LEMMA ErasedAt ==
  ASSUME NEW S, NEW s \in Seq(S), NEW i \in 1 .. Len(s)
  PROVE  /\ RemoveAt(s, i) \in Seq(S) /\ Len(RemoveAt(s, i)) = Len(s) - 1
         /\ \A n \in 1 .. Len(s) - 1 : RemoveAt(s, i)[n] = s[IF n < i THEN n ELSE n + 1]
<1>1. SubSeq(s, 1, i - 1) \in Seq(S) /\ Len(SubSeq(s, 1, i - 1)) = i - 1
      /\ \A n \in 1 .. i - 1 : SubSeq(s, 1, i - 1)[n] = s[n]
  OBVIOUS
<1>2. SubSeq(s, i + 1, Len(s)) \in Seq(S) /\ Len(SubSeq(s, i + 1, Len(s))) = Len(s) - i
      /\ \A n \in 1 .. Len(s) - i : SubSeq(s, i + 1, Len(s))[n] = s[i + n]
  OBVIOUS
<1>3. PICK a \in Seq(S), b \in Seq(S) :
        /\ a = SubSeq(s, 1, i - 1) /\ b = SubSeq(s, i + 1, Len(s))
        /\ Len(a) = i - 1 /\ \A n \in 1 .. i - 1 : a[n] = s[n]
        /\ Len(b) = Len(s) - i /\ \A n \in 1 .. Len(s) - i : b[n] = s[i + n]
  BY <1>1, <1>2
<1>4. RemoveAt(s, i) = a \o b
  BY <1>3 DEF RemoveAt
<1>5. /\ a \o b \in Seq(S) /\ Len(a \o b) = Len(a) + Len(b)
      /\ \A n \in 1 .. Len(a) + Len(b) : (a \o b)[n] = IF n <= Len(a) THEN a[n] ELSE b[n - Len(a)]
  BY ConcatProperties
<1>6. Len(s) \in Nat /\ i \in Nat /\ 1 <= i /\ i <= Len(s)
  OBVIOUS
<1>7. Len(a) + Len(b) = Len(s) - 1
  <2>1. Len(a) = i - 1 /\ Len(b) = Len(s) - i
    BY <1>3
  <2>2. QED
    BY <1>6, <2>1
<1>8. ASSUME NEW n \in 1 .. Len(s) - 1 PROVE (a \o b)[n] = s[IF n < i THEN n ELSE n + 1]
  <2>1. (a \o b)[n] = IF n <= i - 1 THEN a[n] ELSE b[n - (i - 1)]
    BY <1>3, <1>5, <1>7
  <2>2. CASE n < i
    <3>1. n \in 1 .. i - 1 /\ n <= i - 1
      BY <1>6, <2>2
    <3>2. QED
      BY <1>3, <2>1, <2>2, <3>1
  <2>3. CASE ~(n < i)
    <3>1. n - (i - 1) \in 1 .. Len(s) - i /\ i + (n - (i - 1)) = n + 1 /\ ~(n <= i - 1)
      BY <1>6, <2>3
    <3>2. QED
      BY <1>3, <2>1, <2>3, <3>1
  <2>4. QED
    BY <2>2, <2>3
<1>9. QED
  BY <1>4, <1>5, <1>7, <1>8

\* What is left of a list when a node is erased.
LEMMA Erased ==
  ASSUME NEW S, NEW list \in Seq(S), NEW i \in 1 .. Len(list)
  PROVE  /\ RemoveAt(list, i) \in Seq(S)
         /\ \A n \in 1 .. Len(RemoveAt(list, i)) :
              \E m \in 1 .. Len(list) : RemoveAt(list, i)[n] = list[m]
<1>1. /\ RemoveAt(list, i) \in Seq(S) /\ Len(RemoveAt(list, i)) = Len(list) - 1
      /\ \A n \in 1 .. Len(list) - 1 : RemoveAt(list, i)[n] = list[IF n < i THEN n ELSE n + 1]
  BY ErasedAt
<1>2. \A n \in 1 .. Len(list) - 1 : (IF n < i THEN n ELSE n + 1) \in 1 .. Len(list)
  OBVIOUS
<1>3. QED
  BY <1>1, <1>2


LEMMA InitRInv == ASSUME NEW e, NEW d, NEW m, Labels(e, d, m), ListInit PROVE RInv(e, d, m)
<1> USE SegmentNumbers DEF ListInit, PoolInit
<1>1. PoolTypeOK
  BY DEF PoolTypeOK, Idle
<1>2. Linked = 0 .. 0
  BY DEF Linked
<1>3. SegsOK /\ OrderOK /\ HeapOK
  BY <1>2 DEF SegsOK, OrderOK, HeapOK
<1>4. \A p \in Procs : WhereOK(p, e, d, m) /\ ProtectOK(p, e, d)
  BY DEF WhereOK, ProtectOK, Labels
<1>5. \A p \in Procs : RetireOK(p)
  <2>1. \A p \in Procs : retired[p] = <<>> /\ ~Scanning(p) /\ pc[p] # "deqScan"
    BY DEF Scanning
  <2>2. Len(<<>>) = 0 /\ 1 .. 0 = {}
    OBVIOUS
  <2>3. \A p \in Procs : 1 .. Len(retired[p]) = {}
    BY <2>1, <2>2
  <2>4. QED
    BY <2>1, <2>3 DEF RetireOK
<1>6. QED
  BY <1>1, <1>3, <1>4, <1>5 DEF RInv

\* Where the numbers of segments are, and that head and tail are allocated.
LEMMA Rings ==
  ASSUME NEW e, NEW d, NEW m, RInv(e, d, m)
  PROVE  /\ {head, tail} \subseteq Linked /\ Linked \subseteq Segment /\ Segment \subseteq Nat
         /\ NULL \notin Segment
         /\ {head, tail} \subseteq heap
         /\ \A q \in Procs : seg[q] \in Linked
         /\ \A q \in Procs : Len(retired[q]) \in Nat
         /\ \A q \in Procs : \A n \in 1 .. Len(retired[q]) : retired[q][n] \in Segment
<1>1. {head, tail} \subseteq Linked /\ Linked \subseteq Segment /\ \A q \in Procs : seg[q] \in Linked
  BY SegmentNumbers DEF RInv, SegsOK, Linked
<1>2. {head, tail} \subseteq heap
  <2>1. head \in Nat /\ tail \in Nat
    BY <1>1, SegmentNumbers
  <2>2. ~(head < head) /\ ~(tail < tail)
    BY <2>1
  <2>3. QED
    BY <1>1, <2>2 DEF RInv, HeapOK
<1>3. \A q \in Procs : retired[q] \in Seq(Segment)
  BY DEF RInv, PoolTypeOK
<1>4. QED
  BY <1>1, <1>2, <1>3, SegmentNumbers

\* What a thread has retired before its last segment is before head and tail.
LEMMA RetiredBefore ==
  ASSUME NEW e, NEW d, NEW m, RInv(e, d, m), NEW q \in Procs, pc[q] = "deqScan",
         NEW n \in 1 .. Len(retired[q]), retired[q][n] # seg[q]
  PROVE  /\ retired[q][n] < seg[q] /\ retired[q][n] < head /\ retired[q][n] < tail
         /\ retired[q][n] \in Nat
<1>1. {retired[q][n], seg[q], head, tail} \subseteq Nat
  BY Rings
<1>2. seg[q] < head /\ seg[q] <= tail /\ retired[q][n] <= seg[q]
  BY DEF RInv, RetireOK
<1>3. QED
  BY <1>1, <1>2

\* Every thread other than p is where it was.
OthersStand(p) ==
  /\ \A q \in Procs \ {p} : pc'[q] = pc[q] /\ seg'[q] = seg[q] /\ nxt'[q] = nxt[q]
  /\ DOMAIN pc' = Procs

\* A step that retires and deletes nothing, and publishes nothing but head or tail.
LEMMA PointerStep ==
  ASSUME NEW e, NEW d, NEW m, Labels(e, d, m), RInv(e, d, m), NEW p \in Procs, OthersStand(p),
         UNCHANGED <<retired, heap, scan, head, next>>,
         tail' \in Linked, tail <= tail',
         seg' \in [Procs -> Segment], nxt' \in [Procs -> Segment \cup {NULL}], seg'[p] \in Linked,
         hp' \in [Procs -> [{0} -> Segment \cup {NULL}]],
         \A q \in Procs \ {p} : hp'[q] = hp[q],
         hp'[p][0] \in {hp[p][0], head, tail, NULL},
         ~Scanning(p), pc'[p] # "deqScan", WhereOK(p, e, d, m)', ProtectOK(p, e, d)'
  PROVE  RInv(e, d, m)'
<1>1. Linked' = Linked
  BY NoLink
<1>2. {head, tail, tail'} \subseteq Nat /\ \A q \in Procs : seg[q] \in Nat
  BY Rings
<1>3. PoolTypeOK'
  BY DEF RInv, PoolTypeOK
<1>4. SegsOK' /\ OrderOK'
  <2>1. PICK k \in Segment : Linked = 0 .. k /\ \A s \in Segment : next[s] = IF s < k THEN s + 1 ELSE NULL
    BY DEF RInv, OrderOK
  <2>2. \A s \in Segment : next[s] # NULL => s <= tail'
    BY <1>2, SegmentNumbers DEF RInv, OrderOK
  <2>3. OrderOK'
    BY <1>1, <2>1, <2>2 DEF OrderOK
  <2>4. SegsOK'
    BY <1>1 DEF RInv, SegsOK, OthersStand
  <2>5. QED
    BY <2>3, <2>4
<1>5. HeapOK'
  <2>1. Linked \subseteq Nat
    BY Rings
  <2>2. QED
    BY <1>1, <1>2, <2>1 DEF RInv, HeapOK
<1>6. ASSUME NEW q \in Procs \ {p} PROVE WhereOK(q, e, d, m)' /\ ProtectOK(q, e, d)'
  <2>1. WhereOK(q, e, d, m) /\ ProtectOK(q, e, d) /\ pc'[q] = pc[q] /\ seg'[q] = seg[q] /\ nxt'[q] = nxt[q]
    BY DEF RInv, OthersStand
  <2>2. QED
    BY <1>2, <2>1 DEF WhereOK, ProtectOK
<1>7. ASSUME NEW q \in Procs \ {p} PROVE RetireOK(q)'
  <2>1. RetireOK(q) /\ pc'[q] = pc[q] /\ seg'[q] = seg[q] /\ seg[q] \in Nat
    BY <1>2 DEF RInv, OthersStand
  <2>2. (Scanning(q))' <=> Scanning(q)
    BY DEF Scanning
  <2>3. CASE pc[q] = "deqScan" /\ Scanning(q)
    <3>1. PICK b : b = retired[q][scan[q].node] /\ b \in Segment
      BY <2>1, <2>3, Rings DEF RetireOK
    <3>2. b # seg[q] => b < seg[q] /\ b < head /\ b < tail /\ b \in Nat
      <4>1. scan[q].node \in 1 .. Len(retired[q])
        BY <2>1, <2>3 DEF RetireOK
      <4>2. QED
        BY <2>3, <3>1, <4>1, RetiredBefore
    <3>3. b # seg[q] => b \notin {head, tail, NULL}
      BY <1>2, <3>1, <3>2, SegmentNumbers
    <3>4. b # seg[q] => \A t \in Procs : t < scan[q].at => hp[t][0] # b
      BY <2>1, <2>3, <3>1 DEF RetireOK
    <3>5. b # seg[q] => \A t \in Procs : t < scan[q].at => hp'[t][0] # b
      BY <3>3, <3>4
    <3>6. (\A n \in 1 .. Len(retired[q]) : retired[q][n] < head)' /\ (seg[q] < head /\ seg[q] <= tail)'
      BY <1>2, <2>1, <2>3 DEF RetireOK
    <3>7. QED
      BY <2>1, <2>2, <2>3, <3>1, <3>5, <3>6 DEF RetireOK
  <2>4. CASE pc[q] = "deqScan" /\ ~Scanning(q)
    <3>1. (seg[q] < head /\ seg[q] <= tail)'
      BY <1>2, <2>1, <2>4 DEF RetireOK
    <3>2. QED
      BY <2>1, <2>2, <2>4, <3>1 DEF RetireOK
  <2>5. CASE pc[q] # "deqScan"
    BY <2>1, <2>2, <2>5 DEF RetireOK
  <2>6. QED
    BY <2>3, <2>4, <2>5
<1>8. RetireOK(p)'
  <2>1. ~(Scanning(p))'
    BY DEF Scanning
  <2>2. QED
    BY <2>1 DEF RInv, RetireOK
<1>9. QED
  BY <1>3, <1>4, <1>5, <1>6, <1>7, <1>8 DEF RInv


\* A step that only goes on to another label.
LEMMA GoesOn ==
  ASSUME NEW e, NEW d, NEW m, Labels(e, d, m), RInv(e, d, m), NEW p \in Procs, NEW l,
         pc' = [pc EXCEPT ![p] = l], UNCHANGED <<hp, retired, heap, scan, head, tail, next, seg, nxt>>,
         ~Scanning(p),
         \/ l \in {"enqTail", "deqHead"}
         \/ pc[p] \in e /\ l \in e \ m
         \/ pc[p] \in d /\ l \in d \ (m \cup {"deqScan"})
         \/ pc[p] \in m \cap d /\ l \in m \cap d
  PROVE  RInv(e, d, m)'
<1>1. pc'[p] = l /\ OthersStand(p)
  BY DEF RInv, SegsOK, OthersStand
<1>2. hp \in [Procs -> [{0} -> Segment \cup {NULL}]] /\ tail \in Linked /\ tail <= tail
      /\ seg \in [Procs -> Segment] /\ nxt \in [Procs -> Segment \cup {NULL}] /\ seg[p] \in Linked
  <2>1. tail \in Linked /\ tail <= tail
    BY Rings
  <2>2. QED
    BY <2>1 DEF RInv, PoolTypeOK, SegsOK
<1>3. WhereOK(p, e, d, m) /\ ProtectOK(p, e, d)
  BY DEF RInv
<1>4. WhereOK(p, e, d, m)' /\ ProtectOK(p, e, d)' /\ l # "deqScan"
  BY <1>1, <1>3 DEF WhereOK, ProtectOK, Labels
<1>5. QED
  BY <1>1, <1>2, <1>4, PointerStep

\* The hazard pointer is cleared at the end of a call, whose last step may move tail
\* or read next.
LEMMA Leaves ==
  ASSUME NEW e, NEW d, NEW m, Labels(e, d, m), RInv(e, d, m), NEW p \in Procs,
         pc' = [pc EXCEPT ![p] = "idle"], Clear(p),
         UNCHANGED <<retired, heap, scan, head, next, seg>>,
         \E s \in Segment \cup {NULL} : nxt' = [nxt EXCEPT ![p] = s],
         tail' \in Linked, tail <= tail', pc[p] # "deqScan"
  PROVE  RInv(e, d, m)'
<1>1. pc'[p] = "idle" /\ OthersStand(p)
  BY DEF RInv, SegsOK, OthersStand
<1>2. hp' \in [Procs -> [{0} -> Segment \cup {NULL}]] /\ hp'[p][0] = NULL
      /\ \A q \in Procs \ {p} : hp'[q] = hp[q]
  BY DEF Clear, RInv, PoolTypeOK
<1>3. WhereOK(p, e, d, m)' /\ ProtectOK(p, e, d)'
  BY <1>1 DEF WhereOK, ProtectOK, Labels
<1>4. ~Scanning(p) /\ seg \in [Procs -> Segment] /\ seg[p] \in Linked /\ nxt' \in [Procs -> Segment \cup {NULL}]
  BY DEF RInv, RetireOK, SegsOK
<1>5. QED
  BY <1>1, <1>2, <1>3, <1>4, PointerStep

\* head or tail is published, and the thread is in that segment.
LEMMA Enters ==
  ASSUME NEW e, NEW d, NEW m, Labels(e, d, m), RInv(e, d, m), NEW p \in Procs, NEW s \in {head, tail}, NEW l,
         seg' = [seg EXCEPT ![p] = s], Publish(p, 0, s), pc' = [pc EXCEPT ![p] = l],
         UNCHANGED <<retired, heap, scan, head, tail, next, nxt>>, pc[p] # "deqScan",
         l \notin m \cup {"deqScan"}, (l \in e /\ s = tail) \/ (l \in d /\ s = head)
  PROVE  RInv(e, d, m)'
<1>1. pc'[p] = l /\ OthersStand(p) /\ seg'[p] = s
  BY DEF RInv, SegsOK, OthersStand
<1>2. tail \in Linked /\ tail <= tail /\ head <= head /\ s \in Segment /\ s \in heap /\ s \in Linked
  BY Rings
<1>3. hp' \in [Procs -> [{0} -> Segment \cup {NULL}]] /\ hp'[p][0] = s
      /\ \A q \in Procs \ {p} : hp'[q] = hp[q]
  BY <1>2 DEF Publish, RInv, PoolTypeOK
<1>4. WhereOK(p, e, d, m)' /\ ProtectOK(p, e, d)'
  BY <1>1, <1>2, <1>3 DEF WhereOK, ProtectOK, Labels
<1>5. ~Scanning(p) /\ seg' \in [Procs -> Segment] /\ nxt \in [Procs -> Segment \cup {NULL}]
  BY <1>2 DEF RInv, RetireOK, SegsOK
<1>6. QED
  BY <1>1, <1>2, <1>3, <1>4, <1>5, PointerStep

\* The next segment was read: where there is none, the thread holds none.
LEMMA Follows ==
  ASSUME NEW e, NEW d, NEW m, Labels(e, d, m), RInv(e, d, m), NEW p \in Procs, NEW l,
         nxt' = [nxt EXCEPT ![p] = next[seg[p]]], pc' = [pc EXCEPT ![p] = l],
         UNCHANGED <<hp, retired, heap, scan, head, tail, next, seg>>, pc[p] # "deqScan", l # "deqScan",
         \/ pc[p] \in e /\ l \in e
         \/ pc[p] \in d /\ l \in d,
         l \in m => next[seg[p]] # NULL
  PROVE  RInv(e, d, m)'
<1>1. pc'[p] = l /\ OthersStand(p) /\ nxt'[p] = next[seg[p]]
  BY DEF RInv, SegsOK, OthersStand
<1>2. hp \in [Procs -> [{0} -> Segment \cup {NULL}]] /\ tail \in Linked /\ tail <= tail
      /\ seg \in [Procs -> Segment] /\ nxt' \in [Procs -> Segment \cup {NULL}] /\ seg[p] \in Linked
  <2>1. tail \in Linked /\ tail <= tail
    BY Rings
  <2>2. QED
    BY <2>1 DEF RInv, PoolTypeOK, SegsOK
<1>3. WhereOK(p, e, d, m) /\ ProtectOK(p, e, d)
  BY DEF RInv
<1>4. WhereOK(p, e, d, m)' /\ ProtectOK(p, e, d)'
  BY <1>1, <1>3 DEF WhereOK, ProtectOK, Labels
<1>5. ~Scanning(p)
  BY DEF RInv, RetireOK
<1>6. QED
  BY <1>1, <1>2, <1>4, <1>5, PointerStep

\* A thread that holds the next segment holds the one after its own.
LEMMA NextOne ==
  ASSUME NEW e, NEW d, NEW m, Labels(e, d, m), RInv(e, d, m), NEW p \in Procs, pc[p] \in m
  PROVE  nxt[p] = seg[p] + 1 /\ nxt[p] \in Linked /\ seg[p] <= tail
<1>1. nxt[p] = next[seg[p]] /\ next[seg[p]] # NULL /\ seg[p] \in Segment
  BY Rings DEF RInv, WhereOK
<1>2. nxt[p] = seg[p] + 1 /\ seg[p] <= tail
  BY <1>1 DEF RInv, OrderOK
<1>3. QED
  BY <1>1, <1>2 DEF Linked

\* The CAS on tail moves it on, or finds it moved.
LEMMA TailMoves ==
  ASSUME NEW e, NEW d, NEW m, Labels(e, d, m), RInv(e, d, m), NEW p \in Procs, pc[p] \in m,
         tail' = IF tail = seg[p] THEN nxt[p] ELSE tail
  PROVE  tail' \in Linked /\ tail <= tail'
BY NextOne, Rings

\* A CAS on next links the segment after the last one.
LEMMA Links ==
  ASSUME NEW e, NEW d, NEW m, Labels(e, d, m), RInv(e, d, m), NEW p \in Procs, next[seg[p]] = NULL,
         NEW f \in Unlinked, \A s \in Unlinked : f <= s,
         next' = [next EXCEPT ![seg[p]] = f], nxt' = [nxt EXCEPT ![p] = f], heap' = heap \cup {f},
         NEW l \in m \cap e, pc' = [pc EXCEPT ![p] = l],
         UNCHANGED <<hp, retired, scan, head, tail, seg>>, pc[p] \in e
  PROVE  RInv(e, d, m)'
<1>1. seg[p] \in Segment /\ pc[p] # "deqScan" /\ l # "deqScan" /\ l \notin d
  BY DEF RInv, SegsOK, Labels
<1>2. next \in [Segment -> Segment \cup {NULL}]
  BY DEF RInv, SegsOK
<1>3. PICK k \in Segment : Linked = 0 .. k /\ \A s \in Segment : next[s] = IF s < k THEN s + 1 ELSE NULL
  BY DEF RInv, OrderOK
<1>4. k \in Nat /\ f \in Segment /\ f \in Nat /\ f # NULL
  BY <1>1, SegmentNumbers DEF Unlinked
<1>5. seg[p] = k
  <2>1. seg[p] \in 0 .. k /\ seg[p] \in Segment
    BY <1>3, Rings
  <2>2. seg[p] < k => seg[p] + 1 \in Linked /\ next[seg[p]] = seg[p] + 1
    BY <1>3, <1>4, <2>1
  <2>3. ~(seg[p] < k)
    BY <2>2, Rings
  <2>4. QED
    BY <1>4, <2>1, <2>3
<1>6. f = k + 1
  <2>1. k < f
    BY <1>3, <1>4 DEF Unlinked
  <2>2. k + 1 \in Segment
    BY <1>4, <2>1, RingAssumption DEF Segment
  <2>3. k + 1 \in Unlinked
    BY <1>3, <1>4, <2>2 DEF Unlinked
  <2>4. QED
    BY <1>4, <2>1, <2>3
<1>7. Linked' = 0 .. k + 1
  <2>1. Linked' = Linked \cup {f}
    BY <1>1, <1>2, <1>4, OneLinked
  <2>2. QED
    BY <1>3, <1>4, <1>6, <2>1
<1>8. next'[k] = k + 1 /\ \A s \in Segment \ {k} : next'[s] = next[s]
  BY <1>2, <1>4, <1>5, <1>6
<1>9. k <= tail
  BY <1>1, <1>5 DEF RInv, WhereOK
<1>10. OrderOK'
  <2>1. \A s \in Segment : next'[s] = IF s < k + 1 THEN s + 1 ELSE NULL
    BY <1>3, <1>4, <1>8, SegmentNumbers
  <2>2. \A s \in Segment : next'[s] # NULL => s <= tail
    BY <1>8, <1>9 DEF RInv, OrderOK
  <2>3. k + 1 \in Segment
    BY <1>4, <1>6
  <2>4. QED
    BY <1>7, <2>1, <2>2, <2>3 DEF OrderOK
<1>11. HeapOK'
  BY <1>3, <1>4, <1>6, <1>7 DEF RInv, HeapOK
<1>12. PoolTypeOK'
  BY <1>4 DEF RInv, PoolTypeOK
<1>13. pc'[p] = l /\ nxt'[p] = f /\ OthersStand(p)
  BY DEF RInv, SegsOK, OthersStand
<1>14. SegsOK'
  <2>1. Linked \subseteq Linked'
    BY <1>3, <1>4, <1>7
  <2>2. QED
    BY <1>4, <1>13, <2>1 DEF RInv, SegsOK, OthersStand
<1>15. ASSUME NEW q \in Procs PROVE WhereOK(q, e, d, m)' /\ RetireOK(q)' /\ ProtectOK(q, e, d)'
  <2>1. WhereOK(q, e, d, m) /\ RetireOK(q) /\ ProtectOK(q, e, d) /\ ProtectOK(p, e, d)
    BY DEF RInv
  <2>2. CASE q = p
    <3>1. WhereOK(p, e, d, m)'
      BY <1>1, <1>4, <1>5, <1>6, <1>8, <1>9, <1>13 DEF WhereOK
    <3>2. RetireOK(p)'
      BY <1>1, <1>13, <2>1, <2>2 DEF RetireOK, Scanning
    <3>3. ProtectOK(p, e, d)'
      BY <1>13, <2>1 DEF ProtectOK
    <3>4. QED
      BY <2>2, <3>1, <3>2, <3>3
  <2>3. CASE q # p
    <3>1. pc'[q] = pc[q] /\ seg'[q] = seg[q] /\ nxt'[q] = nxt[q]
      BY <1>13, <2>3 DEF OthersStand
    <3>2. seg[q] \in Segment
      BY Rings
    <3>3. WhereOK(q, e, d, m)'
      BY <1>5, <1>8, <2>1, <3>1, <3>2 DEF WhereOK
    <3>4. RetireOK(q)'
      BY <2>1, <3>1 DEF RetireOK, Scanning
    <3>5. ProtectOK(q, e, d)'
      BY <2>1, <3>1 DEF ProtectOK
    <3>6. QED
      BY <3>3, <3>4, <3>5
  <2>4. QED
    BY <2>2, <2>3
<1>16. QED
  BY <1>10, <1>11, <1>12, <1>14, <1>15 DEF RInv

\* A dequeue moves head off its segment and retires that.
LEMMA Retires ==
  ASSUME NEW e, NEW d, NEW m, Labels(e, d, m), RInv(e, d, m), NEW p \in Procs, pc[p] \in m \cap d,
         head = seg[p], head' = nxt[p], RetireCall(p, seg[p]), pc' = [pc EXCEPT ![p] = "deqScan"],
         UNCHANGED <<hp, next, tail, seg, nxt>>
  PROVE  RInv(e, d, m)'
<1>1. pc[p] \in d /\ "deqScan" \in d \ (e \cup m) /\ UNCHANGED heap
  BY DEF Labels, RetireCall
<1>2. seg[p] \in Segment /\ seg[p] \in Nat /\ {head, tail} \subseteq Nat
  BY Rings
<1>3. head' = seg[p] + 1 /\ head' \in Linked /\ seg[p] <= tail
  BY NextOne
<1>4. Linked' = Linked
  BY NoLink
<1>5. SegsOK' /\ OrderOK' /\ HeapOK'
  <2>1. Linked \subseteq Nat
    BY Rings
  <2>2. HeapOK'
    BY <1>1, <1>2, <1>3, <1>4, <2>1 DEF RInv, HeapOK
  <2>3. OrderOK'
    BY <1>4 DEF RInv, OrderOK
  <2>4. SegsOK'
    BY <1>3, <1>4 DEF RInv, SegsOK
  <2>5. QED
    BY <2>2, <2>3, <2>4
<1>6. PICK list \in Seq(Segment) : list = Append(retired[p], seg[p])
  BY <1>2, AppendProperties DEF RInv, PoolTypeOK
<1>7. /\ Len(list) = Len(retired[p]) + 1
      /\ \A n \in 1 .. Len(list) : list[n] < head' /\ list[n] <= seg[p]
  <2>1. retired[p] \in Seq(Segment)
    BY DEF RInv, PoolTypeOK
  <2>2. /\ Len(list) = Len(retired[p]) + 1 /\ list[Len(retired[p]) + 1] = seg[p]
        /\ \A n \in 1 .. Len(retired[p]) : list[n] = retired[p][n]
    BY <1>2, <1>6, <2>1, AppendProperties
  <2>3. \A n \in 1 .. Len(retired[p]) : list[n] < seg[p] /\ list[n] \in Nat
    <3>1. \A n \in 1 .. Len(retired[p]) : retired[p][n] \in Nat
      BY Rings
    <3>2. QED
      BY <2>2, <3>1 DEF RInv, RetireOK
  <2>4. Len(retired[p]) \in Nat
    BY Rings
  <2>5. \A n \in 1 .. Len(retired[p]) + 1 : n \in 1 .. Len(retired[p]) \/ n = Len(retired[p]) + 1
    BY <2>4
  <2>6. head' = seg[p] + 1
    BY <1>3
  <2>7. ASSUME NEW n \in 1 .. Len(retired[p]) + 1 PROVE list[n] < head' /\ list[n] <= seg[p]
    <3>1. CASE n \in 1 .. Len(retired[p])
      BY <1>2, <2>3, <2>6, <3>1
    <3>2. CASE n = Len(retired[p]) + 1
      BY <1>2, <2>2, <2>6, <3>2
    <3>3. QED
      BY <2>5, <3>1, <3>2
  <2>8. QED
    BY <2>2, <2>7
<1>8. /\ retired' = [retired EXCEPT ![p] = list]
      /\ \E i \in {Idle, [node |-> 1, at |-> 0]} : scan' = [scan EXCEPT ![p] = i]
  BY <1>1, <1>6 DEF RetireCall
<1>9. PoolTypeOK'
  BY <1>1, <1>8 DEF RInv, PoolTypeOK, Idle
<1>10. /\ retired'[p] = list /\ scan'[p] \in {Idle, [node |-> 1, at |-> 0]}
       /\ \A q \in Procs \ {p} : retired'[q] = retired[q] /\ scan'[q] = scan[q]
  BY <1>8 DEF RInv, PoolTypeOK
<1>11. pc'[p] = "deqScan" /\ OthersStand(p)
  BY DEF RInv, SegsOK, OthersStand
<1>12. RetireOK(p)'
  <2>1. (\A n \in 1 .. Len(retired[p]) : retired[p][n] < head /\ retired[p][n] <= seg[p])'
    BY <1>1, <1>7, <1>10
  <2>2. (seg[p] < head /\ seg[p] <= tail)'
    BY <1>1, <1>2, <1>3
  <2>3. (Scanning(p))' => scan'[p].node = 1 /\ scan'[p].at = 0
    BY <1>10 DEF Scanning
  <2>4. 1 \in 1 .. Len(list) /\ 0 \in 0 .. Loads /\ 0 <= p /\ \A q \in Procs : ~(q < 0)
    BY <1>7, Rings, Threads
  <2>5. QED
    BY <1>10, <1>11, <2>1, <2>2, <2>3, <2>4 DEF RetireOK
<1>13. WhereOK(p, e, d, m)' /\ ProtectOK(p, e, d)'
  BY <1>1, <1>2, <1>3, <1>11 DEF RInv, WhereOK, ProtectOK
<1>14. ASSUME NEW q \in Procs \ {p} PROVE WhereOK(q, e, d, m)' /\ RetireOK(q)' /\ ProtectOK(q, e, d)'
  <2>1. /\ WhereOK(q, e, d, m) /\ RetireOK(q) /\ ProtectOK(q, e, d) /\ pc'[q] = pc[q] /\ seg'[q] = seg[q] /\ nxt'[q] = nxt[q]
        /\ seg[q] \in Nat /\ head < head' /\ head' \in Nat
    <3>1. seg[q] \in Nat /\ head < head' /\ head' \in Nat
      BY <1>2, <1>3, Rings
    <3>2. QED
      BY <1>11, <3>1 DEF RInv, OthersStand
  <2>2. WhereOK(q, e, d, m)' /\ ProtectOK(q, e, d)'
    BY <1>1, <1>2, <2>1 DEF WhereOK, ProtectOK
  <2>3. retired'[q] = retired[q] /\ scan'[q] = scan[q] /\ ((Scanning(q))' <=> Scanning(q))
    BY <1>10 DEF Scanning
  <2>4. \A n \in 1 .. Len(retired[q]) : retired[q][n] < head /\ retired[q][n] \in Nat
    BY <2>1, Rings DEF RetireOK
  <2>5. \A n \in 1 .. Len(retired[q]) : retired[q][n] < head'
    BY <1>2, <2>1, <2>4
  <2>6. seg[q] < head => seg[q] < head'
    BY <1>2, <2>1
  <2>7. RetireOK(q)'
    BY <1>1, <2>1, <2>3, <2>5, <2>6 DEF RetireOK
  <2>8. QED
    BY <2>2, <2>7
<1>15. QED
  BY <1>5, <1>9, <1>12, <1>13, <1>14 DEF RInv


\* The scan goes on to the next node of a list whose segments are not past the thread's own.
LEMMA ScanFacts ==
  ASSUME NEW e, NEW d, NEW m, Labels(e, d, m), RInv(e, d, m), NEW p \in Procs, pc[p] = "deqScan", Scanning(p)
  PROVE  /\ scan[p].node \in 1 .. Len(retired[p]) /\ scan[p].at \in 0 .. Loads
         /\ hp[p][0] = seg[p] /\ seg[p] \in Nat /\ tail \in Nat /\ head \in Nat /\ p < Loads
         /\ retired[p][scan[p].node] \in Segment /\ retired[p][scan[p].node] \in Nat
         /\ retired[p][scan[p].node] = seg[p] => scan[p].at <= p
         /\ retired[p][scan[p].node] # seg[p] =>
              /\ retired[p][scan[p].node] < seg[p]
              /\ retired[p][scan[p].node] < head /\ retired[p][scan[p].node] < tail
              /\ \A q \in Procs : q < scan[p].at => hp[q][0] # retired[p][scan[p].node]
<1>1. RetireOK(p) /\ ProtectOK(p, e, d) /\ seg[p] \in Nat /\ tail \in Nat /\ head \in Nat /\ p < Loads
  <2>1. seg[p] \in Nat /\ tail \in Nat /\ head \in Nat /\ p < Loads
    BY Rings, Threads
  <2>2. QED
    BY <2>1 DEF RInv
<1>2. scan[p].node \in 1 .. Len(retired[p]) /\ scan[p].at \in 0 .. Loads /\ hp[p][0] = seg[p]
  BY <1>1 DEF RetireOK, ProtectOK, Labels
<1>3. PICK b : b = retired[p][scan[p].node] /\ b \in Segment /\ b \in Nat
  BY <1>2, Rings
<1>4. b < head /\ b <= seg[p] /\ seg[p] <= tail
  BY <1>1, <1>2, <1>3 DEF RetireOK
<1>5. b # seg[p] => b < seg[p] /\ b < tail
  BY <1>1, <1>3, <1>4
<1>6. QED
  BY <1>1, <1>2, <1>3, <1>4, <1>5 DEF RetireOK

LEMMA ScanLoads ==
  ASSUME NEW e, NEW d, NEW m, Labels(e, d, m), RInv(e, d, m), NEW p \in Procs, pc[p] = "deqScan", ScanLoad(p),
         UNCHANGED <<pc, head, tail, next, seg, nxt>>
  PROVE  RInv(e, d, m)'
<1> DEFINE n == scan[p].node
           b == retired[p][n]
<1>1. Scanning(p) /\ scan[p].at < Loads /\ UNCHANGED <<hp, retired, heap>> /\ UNCHANGED pc
  BY DEF ScanLoad
<1>2. scan[p].at \in Nat /\ scan[p].at \in Procs /\ HazardAt(scan[p].at) = hp[scan[p].at][0]
  <2>1. scan[p].at \in 0 .. Loads /\ Loads \in Nat
    BY <1>1, ScanFacts, Threads
  <2>2. scan[p].at \in Nat
    BY <2>1
  <2>3. QED
    BY <1>1, <2>2, Threads
<1>3. PICK i \in [node : Nat, at : Nat] :
        /\ scan' = [scan EXCEPT ![p] = i]
        /\ i # Idle => i.node \in 1 .. Len(retired[p]) /\ i.at \in 0 .. Loads
        /\ i # Idle /\ retired[p][i.node] = seg[p] => i.at <= p
        /\ i # Idle /\ retired[p][i.node] # seg[p] =>
             \A q \in Procs : q < i.at => hp[q][0] # retired[p][i.node]
  <2>1. CASE hp[scan[p].at][0] = b
    <3>1. PICK i \in {Idle, [node |-> n + 1, at |-> 0]} :
            scan' = [scan EXCEPT ![p] = i] /\ (i # Idle => n + 1 <= Len(retired[p]) /\ i = [node |-> n + 1, at |-> 0])
      BY <1>2, <2>1, Rings, ScanFacts, <1>1 DEF ScanLoad, NextNode
    <3>2. n \in Nat /\ n + 1 \in Nat /\ Len(retired[p]) \in Nat /\ 1 <= n + 1
      BY <1>1, ScanFacts, Rings
    <3>3. i \in [node : Nat, at : Nat]
      BY <3>1, <3>2 DEF Idle
    <3>4. i # Idle => i.node = n + 1 /\ i.at = 0 /\ n + 1 \in 1 .. Len(retired[p])
      BY <3>1, <3>2
    <3>5. 0 \in 0 .. Loads /\ 0 <= p /\ \A q \in Procs : ~(q < 0)
      BY Threads
    <3>6. QED
      BY <3>1, <3>3, <3>4, <3>5
  <2>2. CASE hp[scan[p].at][0] # b
    <3>1. scan[p] \in [node : Nat, at : Nat]
      BY DEF RInv, PoolTypeOK
    <3>2. PICK i \in [node : Nat, at : Nat] :
            i = [scan[p] EXCEPT !.at = scan[p].at + 1] /\ i.node = n /\ i.at = scan[p].at + 1
      <4>1. PICK k \in Nat : k = scan[p].at + 1
        BY <1>2
      <4>2. [scan[p] EXCEPT !.at = k] \in [node : Nat, at : Nat] /\ [scan[p] EXCEPT !.at = k].node = n
            /\ [scan[p] EXCEPT !.at = k].at = k
        BY <3>1
      <4>3. QED
        BY <4>1, <4>2
    <3>3. scan' = [scan EXCEPT ![p] = i]
      BY <1>2, <2>2, <3>2 DEF ScanLoad
    <3>4. i.at \in 0 .. Loads /\ n \in 1 .. Len(retired[p])
      BY <1>1, <1>2, <3>2, ScanFacts, Threads
    <3>5. b = seg[p] => i.at <= p
      <4>1. b = seg[p] => scan[p].at # p /\ scan[p].at <= p
        BY <1>1, <2>2, ScanFacts
      <4>2. QED
        BY <1>2, <3>2, <4>1, Threads
    <3>6. b # seg[p] => \A q \in Procs : q < i.at => hp[q][0] # b
      <4>1. \A q \in Procs : q < scan[p].at + 1 => q < scan[p].at \/ q = scan[p].at
        BY <1>2, Threads
      <4>2. QED
        BY <1>1, <2>2, <3>2, <4>1, ScanFacts
    <3>7. QED
      BY <3>2, <3>3, <3>4, <3>5, <3>6
  <2>3. QED
    BY <2>1, <2>2
<1>4. scan'[p] = i /\ \A q \in Procs \ {p} : scan'[q] = scan[q]
  BY <1>3 DEF RInv, PoolTypeOK
<1>5. SegsOK' /\ PoolTypeOK' /\ OrderOK' /\ HeapOK'
  <2>1. PoolTypeOK'
    BY <1>1, <1>3 DEF RInv, PoolTypeOK
  <2>2. SegsOK' /\ OrderOK' /\ HeapOK'
    BY <1>1, NoLink DEF RInv, OrderOK, HeapOK, SegsOK
  <2>3. QED
    BY <2>1, <2>2
<1>6. \A q \in Procs : WhereOK(q, e, d, m)' /\ ProtectOK(q, e, d)'
  BY <1>1 DEF RInv, WhereOK, ProtectOK
<1>7. RetireOK(p)'
  BY <1>1, <1>3, <1>4 DEF RInv, RetireOK, Scanning
<1>8. \A q \in Procs \ {p} : RetireOK(q)'
  BY <1>1, <1>4 DEF RInv, RetireOK, Scanning
<1>9. QED
  BY <1>5, <1>6, <1>7, <1>8 DEF RInv

\* What is deleted is a segment that the thread has retired before the one it was in.
LEMMA ScanDeletes ==
  ASSUME NEW e, NEW d, NEW m, Labels(e, d, m), RInv(e, d, m), NEW p \in Procs, pc[p] = "deqScan", ScanDelete(p),
         UNCHANGED <<pc, head, tail, next, seg, nxt>>
  PROVE  RInv(e, d, m)'
<1>1. Scanning(p) /\ scan[p].at = Loads /\ UNCHANGED <<hp, pc>>
  BY DEF ScanDelete
<1>2. PICK n \in 1 .. Len(retired[p]), b \in Segment :
        n = scan[p].node /\ b = retired[p][n]
  BY <1>1, ScanFacts
<1>3. /\ heap' = heap \ {b} /\ b < head /\ b < tail
      /\ \A q \in Procs : hp[q][0] # b
  <2>1. b # seg[p]
    BY <1>1, <1>2, ScanFacts, Threads
  <2>2. QED
    BY <1>1, <1>2, <2>1, ScanFacts, Threads DEF ScanDelete
<1>4. PICK list \in Seq(Segment) :
        /\ list = RemoveAt(retired[p], n)
        /\ \A k \in 1 .. Len(list) : \E o \in 1 .. Len(retired[p]) : list[k] = retired[p][o]
  <2>1. retired[p] \in Seq(Segment)
    BY DEF RInv, PoolTypeOK
  <2>2. /\ RemoveAt(retired[p], n) \in Seq(Segment)
        /\ \A k \in 1 .. Len(RemoveAt(retired[p], n)) :
             \E o \in 1 .. Len(retired[p]) : RemoveAt(retired[p], n)[k] = retired[p][o]
    BY <2>1, Erased
  <2>3. QED
    BY <2>2
<1>5. retired' = [retired EXCEPT ![p] = list] /\ retired'[p] = list
      /\ \A q \in Procs \ {p} : retired'[q] = retired[q]
  BY <1>2, <1>4 DEF ScanDelete, RInv, PoolTypeOK
<1>6. PICK i \in [node : Nat, at : Nat] :
        /\ scan' = [scan EXCEPT ![p] = i]
        /\ i # Idle => i.node \in 1 .. Len(list) /\ i.at = 0
  <2>1. scan' = [scan EXCEPT ![p] = IF n > Len(list) THEN Idle ELSE [node |-> n, at |-> 0]]
    BY <1>2, <1>5 DEF ScanDelete, NextNode
  <2>2. n \in Nat /\ 1 <= n /\ Len(list) \in Nat
    BY Rings
  <2>3. CASE n > Len(list)
    <3>1. scan' = [scan EXCEPT ![p] = Idle] /\ Idle \in [node : Nat, at : Nat]
      BY <2>1, <2>3 DEF Idle
    <3>2. QED
      BY <3>1
  <2>4. CASE ~(n > Len(list))
    <3>1. PICK i \in [node : Nat, at : Nat] : i = [node |-> n, at |-> 0]
      BY <2>2
    <3>2. scan' = [scan EXCEPT ![p] = i] /\ i.node = n /\ i.at = 0 /\ n \in 1 .. Len(list)
      BY <2>1, <2>2, <2>4, <3>1
    <3>3. QED
      BY <3>1, <3>2
  <2>5. QED
    BY <2>3, <2>4
<1>7. scan'[p] = i /\ \A q \in Procs \ {p} : scan'[q] = scan[q]
  BY <1>6 DEF RInv, PoolTypeOK
<1>8. SegsOK' /\ PoolTypeOK' /\ OrderOK' /\ HeapOK'
  <2>1. PoolTypeOK'
    BY <1>1, <1>3, <1>5, <1>6 DEF RInv, PoolTypeOK
  <2>2. Linked' = Linked
    BY NoLink
  <2>3. SegsOK' /\ OrderOK'
    BY <2>2 DEF RInv, OrderOK, SegsOK
  <2>4. HeapOK'
    BY <1>3, <2>2 DEF RInv, HeapOK
  <2>5. QED
    BY <2>1, <2>3, <2>4
<1>9. ASSUME NEW q \in Procs PROVE WhereOK(q, e, d, m)' /\ ProtectOK(q, e, d)'
  <2>1. WhereOK(q, e, d, m)'
    BY <1>1 DEF RInv, WhereOK
  <2>2. ProtectOK(q, e, d)'
    BY <1>1, <1>3 DEF RInv, ProtectOK
  <2>3. QED
    BY <2>1, <2>2
<1>10. RetireOK(p)'
  <2>1. \A k \in 1 .. Len(list) : list[k] < head /\ list[k] <= seg[p]
    BY <1>4 DEF RInv, RetireOK
  <2>2. 0 \in 0 .. Loads /\ 0 <= p /\ \A q \in Procs : ~(q < 0)
    BY Threads
  <2>3. seg[p] < head /\ seg[p] <= tail
    BY DEF RInv, RetireOK
  <2>4. (Scanning(p))' => scan'[p].node \in 1 .. Len(list) /\ scan'[p].at = 0
    BY <1>6, <1>7 DEF Scanning
  <2>5. QED
    BY <1>1, <1>5, <2>1, <2>2, <2>3, <2>4 DEF RetireOK
<1>11. ASSUME NEW q \in Procs \ {p} PROVE RetireOK(q)'
  <2>1. RetireOK(q) /\ retired'[q] = retired[q] /\ scan'[q] = scan[q] /\ pc' = pc /\ hp' = hp
        /\ UNCHANGED <<head, tail, seg>>
    BY <1>1, <1>5, <1>7 DEF RInv
  <2>2. QED
    BY <2>1 DEF RetireOK, Scanning
<1>12. QED
  BY <1>8, <1>9, <1>10, <1>11 DEF RInv

LEMMA Unchanged ==
  ASSUME NEW e, NEW d, NEW m, RInv(e, d, m),
         UNCHANGED <<pc, hp, retired, heap, scan, head, tail, next, seg, nxt>>
  PROVE  RInv(e, d, m)'
<1>1. Linked' = Linked
  BY NoLink
<1>2. SegsOK' /\ OrderOK' /\ HeapOK' /\ PoolTypeOK'
  BY <1>1 DEF RInv, SegsOK, OrderOK, HeapOK, PoolTypeOK
<1>3. \A p \in Procs : WhereOK(p, e, d, m)' /\ RetireOK(p)' /\ ProtectOK(p, e, d)'
  BY DEF RInv, WhereOK, RetireOK, ProtectOK, Scanning
<1>4. QED
  BY <1>2, <1>3 DEF RInv


-----------------------------------------------------------------------------
(***************************************************************************)
(* The rings of LCRQ.                                                      *)
(***************************************************************************)
EnqIn == EnqPcs \ {"enqTail"}
DeqIn == DeqPcs \ {"deqHead"}
RingInv == RInv(EnqIn, DeqIn, Moving)

LEMMA RingLabels == Labels(EnqIn, DeqIn, Moving)
BY DEF Labels, EnqIn, DeqIn, EnqPcs, DeqPcs, Moving

\* A step that only goes on to another label.
LEMMA RingGoesOn ==
  ASSUME RingInv, NEW p \in Procs, NEW l, Goto(p, l),
         UNCHANGED <<hp, retired, heap, scan, head, tail, next, seg, nxt>>,
         ~Scanning(p),
         \/ l \in {"enqTail", "deqHead"}
         \/ pc[p] \in EnqIn /\ l \in EnqIn \ Moving
         \/ pc[p] \in DeqIn /\ l \in DeqIn \ (Moving \cup {"deqScan"})
         \/ pc[p] = "deqLast" /\ l = "deqSwing"
  PROVE  RingInv'
<1>1. pc' = [pc EXCEPT ![p] = l]
  BY DEF Goto
<1>2. \/ l \in {"enqTail", "deqHead"}
      \/ pc[p] \in EnqIn /\ l \in EnqIn \ Moving
      \/ pc[p] \in DeqIn /\ l \in DeqIn \ (Moving \cup {"deqScan"})
      \/ pc[p] \in Moving \cap DeqIn /\ l \in Moving \cap DeqIn
  BY DEF Moving, DeqIn, DeqPcs
<1>3. QED
  BY <1>1, <1>2, RingLabels, GoesOn DEF RingInv

\* The CAS on tail moves it on, or finds it moved.
LEMMA RingSwing ==
  ASSUME RingInv, NEW p \in Procs, SwingTail(p), pc[p] \in {"enqHelp", "enqSwing"}
  PROVE  tail' \in Linked /\ tail <= tail'
BY RingLabels, TailMoves DEF SwingTail, RingInv, Moving

\* An answer: the hazard pointer is cleared.
LEMMA RingAnswers ==
  ASSUME RingInv, NEW p \in Procs, NEW a, Answer(p, a), Clear(p),
         UNCHANGED <<retired, heap, scan, head, next, seg, nxt>>,
         tail' \in Linked, tail <= tail', pc[p] # "deqScan"
  PROVE  RingInv'
<1>1. pc' = [pc EXCEPT ![p] = "idle"]
  BY DEF Answer
<1>2. nxt[p] \in Segment \cup {NULL} /\ nxt' = [nxt EXCEPT ![p] = nxt[p]]
  BY DEF RingInv, RInv, SegsOK
<1>3. QED
  BY <1>1, <1>2, RingLabels, Leaves DEF RingInv

LEMMA EnqRings == ASSUME RingInv, NEW p \in Procs, EnqStep(p) PROVE RingInv'
<1> USE DEF pool, crq, locals
<1>0. pc[p] # "deqScan" /\ ~Scanning(p) /\ tail \in Linked /\ tail <= tail
  <2>1. pc[p] # "deqScan"
    BY EnqGoes DEF EnqPcs
  <2>2. tail \in Linked /\ tail <= tail
    BY RingLabels, Rings DEF RingInv
  <2>3. QED
    BY <2>1, <2>2 DEF RingInv, RInv, RetireOK
<1>1. CASE EnqTail(p)
  <2>1. "enqNext" \in EnqIn \ (Moving \cup {"deqScan"})
    BY DEF EnqIn, EnqPcs, Moving
  <2>2. QED
    BY <1>0, <1>1, <2>1, RingLabels, Enters DEF EnqTail, Goto, RingInv
<1>2. CASE EnqNext(p)
  <2>1. PICK l \in {"enqTkt", "enqHelp"} : Goto(p, l) /\ (l = "enqHelp" => next[seg[p]] # NULL)
    BY <1>2 DEF EnqNext
  <2>2. pc[p] \in EnqIn /\ l \in EnqIn /\ l # "deqScan" /\ (l \in Moving => next[seg[p]] # NULL)
    BY <1>2, <2>1 DEF EnqNext, EnqIn, EnqPcs, Moving
  <2>3. nxt' = [nxt EXCEPT ![p] = next[seg[p]]] /\ pc' = [pc EXCEPT ![p] = l]
        /\ UNCHANGED <<hp, retired, heap, scan, head, tail, next, seg>>
    BY <1>2, <2>1 DEF EnqNext, Goto
  <2>4. QED
    BY <1>0, <2>2, <2>3, RingLabels, Follows DEF RingInv
<1>3. CASE EnqHelp(p)
  <2>1. tail' \in Linked /\ tail <= tail'
    BY <1>3, RingSwing DEF EnqHelp
  <2>2. pc'[p] = "enqTail" /\ OthersStand(p) /\ UNCHANGED <<hp, retired, heap, scan, head, next, seg, nxt>>
    BY <1>3 DEF EnqHelp, SwingTail, Goto, RingInv, RInv, SegsOK, OthersStand
  <2>3. WhereOK(p, EnqIn, DeqIn, Moving)' /\ ProtectOK(p, EnqIn, DeqIn)'
    BY <2>2 DEF WhereOK, ProtectOK, EnqIn, DeqIn, EnqPcs, DeqPcs, Moving
  <2>4. /\ hp \in [Procs -> [{0} -> Segment \cup {NULL}]] /\ seg[p] \in Linked
        /\ seg \in [Procs -> Segment] /\ nxt \in [Procs -> Segment \cup {NULL}]
    BY DEF RingInv, RInv, PoolTypeOK, SegsOK
  <2>5. QED
    BY <1>0, <2>1, <2>2, <2>3, <2>4, RingLabels, PointerStep DEF RingInv
<1>4. CASE EnqSwing(p)
  <2>1. tail' \in Linked /\ tail <= tail'
    BY <1>4, RingSwing DEF EnqSwing
  <2>2. QED
    BY <1>0, <1>4, <2>1, RingAnswers DEF EnqSwing, SwingTail
<1>5. CASE EnqLink(p)
  <2>1. CASE next[seg[p]] # NULL
    BY <1>0, <1>5, <2>1, RingGoesOn DEF EnqLink
  <2>2. CASE next[seg[p]] = NULL
    <3>1. PICK f \in Unlinked :
            /\ \A s \in Unlinked : f <= s
            /\ next' = [next EXCEPT ![seg[p]] = f] /\ nxt' = [nxt EXCEPT ![p] = f]
            /\ heap' = heap \cup {f} /\ Goto(p, "enqSwing")
      BY <1>5, <2>2 DEF EnqLink
    <3>2. UNCHANGED <<hp, retired, scan, head, tail, seg>> /\ pc' = [pc EXCEPT ![p] = "enqSwing"]
          /\ "enqSwing" \in Moving \cap EnqIn /\ pc[p] \in EnqIn
      BY <1>5, <3>1 DEF EnqLink, Goto, Moving, EnqIn, EnqPcs
    <3>3. QED
      BY <2>2, <3>1, <3>2, RingLabels, Links DEF RingInv
  <2>3. QED
    BY <2>1, <2>2
<1>6. CASE EnqTkt(p) \/ EnqIdx(p) \/ EnqVal(p) \/ EnqHead(p)
  <2>1. PICK l \in EnqIn \ Moving : Goto(p, l) /\ pc[p] \in EnqIn
    BY <1>6 DEF EnqTkt, EnqIdx, EnqVal, EnqHead, EnqIn, EnqPcs, Moving
  <2>2. QED
    BY <1>0, <1>6, <2>1, RingGoesOn DEF EnqTkt, EnqIdx, EnqVal, EnqHead
<1>7. CASE EnqCAS(p)
  <2>1. CASE ring[seg[p]][At(p)] = cell[p]
    BY <1>0, <1>7, <2>1, RingAnswers DEF EnqCAS
  <2>2. CASE ring[seg[p]][At(p)] # cell[p]
    <3>1. pc[p] \in EnqIn /\ "enqFull" \in EnqIn \ Moving
      BY <1>7 DEF EnqCAS, EnqIn, EnqPcs, Moving
    <3>2. QED
      BY <1>0, <1>7, <2>2, <3>1, RingGoesOn DEF EnqCAS
  <2>3. QED
    BY <2>1, <2>2
<1>8. CASE EnqFull(p) \/ EnqClose(p)
  <2>1. PICK l \in EnqPcs \ Moving : Goto(p, l) /\ pc[p] \in EnqIn
    BY <1>8 DEF EnqFull, EnqClose, EnqIn, EnqPcs, Moving
  <2>2. l = "enqTail" \/ l \in EnqIn \ Moving
    BY <2>1 DEF EnqIn
  <2>3. QED
    BY <1>0, <1>8, <2>1, <2>2, RingGoesOn DEF EnqFull, EnqClose
<1>9. QED
  BY <1>1, <1>2, <1>3, <1>4, <1>5, <1>6, <1>7, <1>8 DEF EnqStep

LEMMA DeqRings == ASSUME RingInv, NEW p \in Procs, DeqStep(p) PROVE RingInv'
<1> USE DEF pool, crq, locals
<1>0. pc[p] \in DeqPcs /\ tail \in Linked /\ tail <= tail /\ (pc[p] # "deqScan" => ~Scanning(p))
  <2>1. tail \in Linked /\ tail <= tail
    BY RingLabels, Rings DEF RingInv
  <2>2. QED
    BY <2>1, DeqGoes DEF RingInv, RInv, RetireOK
<1>1. ASSUME pc[p] \notin {"deqHead", "deqScan"}, NEW l, Goto(p, l),
             l = "deqHead" \/ l \in DeqPcs \ (Moving \cup {"deqScan"}) \/ (pc[p] = "deqLast" /\ l = "deqSwing"),
             UNCHANGED <<hp, retired, heap, scan, head, tail, next, seg, nxt>>
      PROVE  RingInv'
  <2>1. pc[p] \in DeqIn /\ (l \in DeqPcs => l = "deqHead" \/ l \in DeqIn)
    BY <1>0, <1>1 DEF DeqIn
  <2>2. QED
    BY <1>0, <1>1, <2>1, RingGoesOn
<1>2. CASE DeqHead(p)
  <2>1. "deqTkt" \in DeqIn \ (Moving \cup {"deqScan"})
    BY DEF DeqIn, DeqPcs, Moving
  <2>2. QED
    BY <1>0, <1>2, <2>1, RingLabels, Enters DEF DeqHead, Goto, RingInv
<1>3. CASE DeqTkt(p) \/ DeqIdx(p)
  BY <1>1, <1>3 DEF DeqTkt, DeqIdx, DeqPcs, Moving
<1>4. CASE DeqVal(p)
  <2>1. PICK l \in DeqPcs \ (Moving \cup {"deqScan"}) : Goto(p, l)
    BY <1>4 DEF DeqVal, EmptyCell, DeqPcs, Moving
  <2>2. QED
    BY <1>1, <1>4, <2>1 DEF DeqVal
<1>5. CASE DeqTail(p)
  <2>1. PICK l \in DeqPcs \ (Moving \cup {"deqScan"}) : Goto(p, l)
    BY <1>5 DEF DeqTail, EmptyCell, DeqPcs, Moving
  <2>2. QED
    BY <1>1, <1>5, <2>1 DEF DeqTail
<1>6. CASE DeqTake(p)
  <2>1. CASE ring[seg[p]][At(p)] = cell[p]
    BY <1>0, <1>6, <2>1, RingAnswers DEF DeqTake
  <2>2. CASE ring[seg[p]][At(p)] # cell[p]
    BY <1>1, <1>6, <2>2 DEF DeqTake, DeqPcs, Moving
  <2>3. QED
    BY <2>1, <2>2
<1>7. CASE DeqMark(p) \/ DeqSkip(p) \/ DeqClose(p) \/ DeqEnd(p)
  <2>1. PICK l \in DeqPcs \ (Moving \cup {"deqScan"}) : Goto(p, l) /\ pc[p] \notin {"deqHead", "deqScan"}
    BY <1>7 DEF DeqMark, DeqSkip, DeqClose, DeqEnd, DeqPcs, Moving
  <2>2. QED
    BY <1>1, <1>7, <2>1 DEF DeqMark, DeqSkip, DeqClose, DeqEnd
<1>8. CASE FixTail(p) \/ FixHead(p) \/ FixCheck(p) \/ FixCAS(p)
  <2>1. PICK l \in DeqPcs \ (Moving \cup {"deqScan"}) : Goto(p, l) /\ pc[p] \notin {"deqHead", "deqScan"}
    BY <1>8 DEF FixTail, FixHead, FixCheck, FixCAS, DeqPcs, Moving
  <2>2. QED
    BY <1>1, <1>8, <2>1 DEF FixTail, FixHead, FixCheck, FixCAS
<1>9. CASE DeqNext(p)
  <2>1. next[seg[p]] \in Segment \cup {NULL}
    BY DEF RingInv, RInv, SegsOK
  <2>2. CASE next[seg[p]] = NULL
    <3>1. pc' = [pc EXCEPT ![p] = "idle"] /\ Clear(p) /\ pc[p] # "deqScan"
          /\ UNCHANGED <<retired, heap, scan, head, tail, next, seg>>
          /\ nxt' = [nxt EXCEPT ![p] = next[seg[p]]]
      BY <1>9, <2>2 DEF DeqNext, Answer
    <3>2. QED
      BY <1>0, <2>1, <3>1, RingLabels, Leaves DEF RingInv
  <2>3. CASE next[seg[p]] # NULL
    <3>1. pc' = [pc EXCEPT ![p] = "deqLast"] /\ pc[p] \in DeqIn \ {"deqScan"} /\ "deqLast" \in DeqIn
          /\ UNCHANGED <<hp, retired, heap, scan, head, tail, next, seg>>
          /\ nxt' = [nxt EXCEPT ![p] = next[seg[p]]]
      BY <1>9, <2>3 DEF DeqNext, Goto, DeqIn, DeqPcs
    <3>2. QED
      BY <1>0, <2>3, <3>1, RingLabels, Follows DEF RingInv
  <2>4. QED
    BY <2>2, <2>3
<1>10. CASE DeqLast(p)
  <2>1. PICK l \in {"deqHead", "deqSwing"} : Goto(p, l) /\ pc[p] = "deqLast"
    BY <1>10 DEF DeqLast
  <2>2. QED
    BY <1>1, <1>10, <2>1 DEF DeqLast
<1>11. CASE DeqSwing(p)
  <2>1. CASE head # seg[p]
    BY <1>1, <1>11, <2>1 DEF DeqSwing
  <2>2. CASE head = seg[p]
    <3>1. pc[p] \in Moving \cap DeqIn
      BY <1>11 DEF DeqSwing, Moving, DeqIn, DeqPcs
    <3>2. /\ head' = nxt[p] /\ RetireCall(p, seg[p]) /\ pc' = [pc EXCEPT ![p] = "deqScan"]
          /\ UNCHANGED <<hp, next, tail, seg, nxt>>
      BY <1>11, <2>2 DEF DeqSwing, Goto
    <3>3. QED
      BY <2>2, <3>1, <3>2, RingLabels, Retires DEF RingInv
  <2>3. QED
    BY <2>1, <2>2
<1>12. CASE DeqScan(p)
  <2>1. pc[p] = "deqScan" /\ UNCHANGED <<head, tail, next, seg, nxt>>
    BY <1>12 DEF DeqScan
  <2>2. CASE Scanning(p)
    <3>1. ScanLoad(p) \/ ScanDelete(p)
      BY <1>12, <2>2 DEF DeqScan
    <3>2. UNCHANGED pc
      BY <1>12, <2>2 DEF DeqScan, calls
    <3>3. QED
      BY <2>1, <3>1, <3>2, RingLabels, ScanLoads, ScanDeletes DEF RingInv
  <2>3. CASE ~Scanning(p)
    BY <1>12, <2>3, RingGoesOn DEF DeqScan
  <2>4. QED
    BY <2>2, <2>3
<1>13. QED
  BY <1>2, <1>3, <1>4, <1>5, <1>6, <1>7, <1>8, <1>9, <1>10, <1>11, <1>12 DEF DeqStep

LEMMA NextRingInv == RingInv /\ [Next]_vars => RingInv'
<1> SUFFICES ASSUME RingInv, [Next]_vars PROVE RingInv'
  OBVIOUS
<1>1. ASSUME NEW p \in Procs, Dequeue(p) \/ \E v \in Items : Enqueue(p, v) PROVE RingInv'
  <2>1. PICK l \in {"enqTail", "deqHead"} :
          pc' = [pc EXCEPT ![p] = l] /\ pc[p] = "idle"
          /\ UNCHANGED <<hp, retired, heap, scan, head, tail, next, seg, nxt>>
    BY <1>1 DEF Dequeue, Enqueue, CallDequeue, CallEnqueue, Goto, pool, crq, locals
  <2>2. ~Scanning(p)
    BY <2>1 DEF RingInv, RInv, RetireOK
  <2>3. QED
    BY <2>1, <2>2, RingLabels, GoesOn DEF RingInv
<1>2. CASE UNCHANGED vars
  BY <1>2, Unchanged DEF vars, pool, crq, locals, calls, RingInv
<1>3. QED
  BY <1>1, <1>2, EnqRings, DeqRings DEF Next

LEMMA InitRingInv == Init => RingInv
<1> SUFFICES ASSUME Init PROVE RingInv
  OBVIOUS
<1>1. ListInit
  BY DEF Init, ListInit, CallsInit
<1>2. QED
  BY <1>1, RingLabels, InitRInv DEF RingInv

LEMMA RingsSafe == IInv /\ RingInv => NoUseAfterFree
<1>1. ASSUME IInv, RingInv, NEW p \in Procs PROVE Accessed(p) \subseteq heap
  <2>1. pc[p] \in EnqIn \cup DeqIn => seg[p] \in heap
    BY <1>1 DEF RingInv, RInv, ProtectOK
  <2>2. pc[p] \in {"idle"} \cup EnqPcs \cup DeqPcs
    BY <1>1 DEF IInv, CallOK
  <2>3. QED
    BY <2>1, <2>2 DEF Accessed, EnqIn, DeqIn
<1>2. QED
  BY <1>1 DEF NoUseAfterFree

\* NoUseAfterFree (lines 139-241 of LCRQ.hpp, with retire of MemoryManagementPool.hpp):
\* whatever the number of threads and however long the lists of retired rings are, a
\* thread's enqueue or dequeue touches only rings that are still allocated.
THEOREM RingsInUseAreAllocated == Spec => []NoUseAfterFree
BY InitIInv, NextIInv, InitRingInv, NextRingInv, RingsSafe, PTL DEF Spec

-----------------------------------------------------------------------------
(***************************************************************************)
(* The segments of FAAArrayQueue, which are addresses.  They have numbers, *)
(* larger for those that were linked later.  A CAS of next that compares   *)
(* with a segment may replace a link, so that the segments need be no      *)
(* list; but where head or tail go they go to a later segment, and tail to *)
(* one of enqueue's own before anything is linked there.  This is enough   *)
(* for their reclamation, also after such a CAS.                           *)
(***************************************************************************)
ArrayEnq == {"enqIdx", "enqLast", "enqNext", "enqLink", "enqHelp", "enqSwing", "enqItem"}
ArrayDeq == {"deqDeqIdx", "deqEnqIdx", "deqLast", "deqIdx", "deqNext", "deqItem", "deqSwing"}
ArrayIn == ArrayEnq \cup ArrayDeq
ArrayPcs == {"idle", "enqTail", "enqHp", "deqHead", "deqHp", "deqScan"} \cup ArrayIn

ArrayTypeOK ==
  /\ pc \in [Procs -> ArrayPcs]
  /\ hp \in [Procs -> [{0} -> Nodes \cup {NULL}]]
  /\ retired \in [Procs -> Seq(Nodes)]
  /\ scan \in [Procs -> [node : Nat, at : Nat]]
  /\ next \in [Nodes -> Nodes \cup {NULL}]
  /\ seg \in [Procs -> Nodes \cup {NULL}] /\ nxt \in [Procs -> Nodes \cup {NULL}]
  /\ heap \subseteq Nodes /\ {head, tail} \subseteq heap

\* Something is linked behind tail or a segment before it; from head and from tail on, it
\* is a later segment.
AgesOK(rank) ==
  /\ \A m, n \in heap : rank[m] = rank[n] => m = n
  /\ \E top \in Nat : \A n \in heap : rank[n] <= top
  /\ \A n \in heap : next[n] # NULL => rank[n] <= rank[tail]
  /\ \A n \in heap : next[n] # NULL /\ (rank[head] <= rank[n] \/ rank[tail] <= rank[n]) =>
       next[n] \in heap /\ rank[n] < rank[next[n]]

\* A thread in a segment publishes it, and it is allocated and not after tail or head.
HoldsOK(rank, p) ==
  /\ pc[p] \in {"enqTail", "deqHead"} /\ seg[p] # NULL => hp[p][0] = seg[p]
  /\ pc[p] \in ArrayIn \cup {"deqScan"} => hp[p][0] = seg[p]
  /\ pc[p] \in ArrayIn => seg[p] \in heap
  /\ pc[p] \in ArrayEnq => rank[seg[p]] <= rank[tail]
  /\ pc[p] \in ArrayDeq => rank[seg[p]] <= rank[head]
  /\ pc[p] \in {"enqHelp", "enqSwing"} /\ seg[p] = tail => nxt[p] \in heap /\ rank[tail] < rank[nxt[p]]
  /\ pc[p] = "deqSwing" /\ seg[p] = head =>
       nxt[p] \in heap /\ rank[head] < rank[nxt[p]] /\ next[head] # NULL

\* The segments that thread p has retired.  Only the last of them, which p still
\* publishes, may be tail.
BuriedOK(rank, p) ==
  /\ \A n \in 1 .. Len(retired[p]) : retired[p][n] \in heap /\ rank[retired[p][n]] < rank[head]
  /\ \A q \in Procs : \A n \in 1 .. Len(retired[p]), m \in 1 .. Len(retired[q]) :
       retired[p][n] = retired[q][m] => p = q /\ n = m
  /\ pc[p] = "deqScan" =>
       \A n \in 1 .. Len(retired[p]) : retired[p][n] = seg[p] \/ rank[retired[p][n]] < rank[tail]

\* A scan that looks for another segment than its thread's own has passed no thread in it.
SoughtOK(p) ==
  Scanning(p) =>
    /\ pc[p] = "deqScan"
    /\ scan[p].node \in 1 .. Len(retired[p]) /\ scan[p].at \in 0 .. Loads
    /\ retired[p][scan[p].node] = seg[p] => scan[p].at <= p
    /\ retired[p][scan[p].node] # seg[p] =>
         \A q \in Procs : q < scan[p].at /\ pc[q] \in ArrayIn => seg[q] # retired[p][scan[p].node]

Aged(rank) ==
  /\ ArrayTypeOK /\ AgesOK(rank)
  /\ \A p \in Procs : HoldsOK(rank, p) /\ BuriedOK(rank, p) /\ SoughtOK(p)

ArrayInv == \E rank \in [Nodes -> Nat] : Aged(rank)

LEMMA ArrayCalls ==
  /\ \A p, l : F!Goto(p, l) => pc' = [pc EXCEPT ![p] = l]
  /\ \A p, a : F!Answer(p, a) => pc' = [pc EXCEPT ![p] = "idle"]
BY DEF F!Goto, F!Answer

LEMMA ArrayPool ==
  /\ \A p, s : F!Publish(p, 0, s) => Publish(p, 0, s)
  /\ \A p : F!Clear(p) => Clear(p)
  /\ \A p, s : F!RetireCall(p, s) => RetireCall(p, s)
  /\ \A p : F!Scanning(p) <=> Scanning(p)
  /\ \A p : F!ScanLoad(p) => ScanLoad(p)
  /\ \A p : F!ScanDelete(p) => ScanDelete(p)
<1>1. \A p, s : F!Publish(p, 0, s) => Publish(p, 0, s)
  BY DEF F!Publish, Publish
<1>2. \A p : F!Clear(p) => Clear(p)
  BY DEF F!Clear, Clear
<1>3. \A p, s : F!RetireCall(p, s) => RetireCall(p, s)
  BY DEF F!RetireCall, RetireCall, F!Idle, Idle
<1>4. \A p : F!Scanning(p) <=> Scanning(p)
  BY DEF F!Scanning, Scanning, F!Idle, Idle
<1>5. F!Loads = Loads /\ \A n : F!HazardAt(n) = HazardAt(n)
  BY DEF F!Loads, Loads, F!HazardAt, HazardAt, F!Cardinality, Cardinality
<1>6. \A p, list, n : F!NextNode(p, list, n) <=> NextNode(p, list, n)
  BY DEF F!NextNode, NextNode, F!Idle, Idle
<1>7. ASSUME NEW p, F!ScanLoad(p) PROVE ScanLoad(p)
  BY <1>4, <1>5, <1>6, <1>7 DEF F!ScanLoad, ScanLoad
<1>8. ASSUME NEW p, F!ScanDelete(p) PROVE ScanDelete(p)
  BY <1>4, <1>5, <1>6, <1>8 DEF F!ScanDelete, ScanDelete, F!RemoveAt, RemoveAt
<1>9. QED
  BY <1>1, <1>2, <1>3, <1>4, <1>7, <1>8

LEMMA ArrayFacts ==
  ASSUME NEW rank, rank \in [Nodes -> Nat], Aged(rank)
  PROVE  /\ NULL \notin Nodes /\ heap \subseteq Nodes /\ {head, tail} \subseteq heap
         /\ \A n \in heap : rank[n] \in Nat /\ next[n] \in Nodes \cup {NULL}
         /\ \A m, n \in heap : rank[m] = rank[n] => m = n
         /\ \A p \in Procs : Len(retired[p]) \in Nat
<1>1. NULL \notin Nodes
  BY ListAssumption DEF M!NullAssumption
<1>2. ASSUME NEW p \in Procs PROVE Len(retired[p]) \in Nat
  <2>1. retired[p] \in Seq(Nodes)
    BY DEF Aged, ArrayTypeOK
  <2>2. QED
    BY <2>1
<1>3. QED
  BY <1>1, <1>2 DEF Aged, ArrayTypeOK, AgesOK

\* Every thread other than p is where it was.
ArrayOthers(p) ==
  \A q \in Procs \ {p} : pc'[q] = pc[q] /\ hp'[q] = hp[q] /\ seg'[q] = seg[q] /\ nxt'[q] = nxt[q]

\* A step that changes nothing shared but tail, and nothing else but the thread's own.
LEMMA ArrayLocal ==
  ASSUME NEW rank, rank \in [Nodes -> Nat], Aged(rank), NEW p \in Procs, ArrayOthers(p), ArrayTypeOK',
         HoldsOK(rank, p)', UNCHANGED <<heap, retired, scan, head, next>>,
         tail' = tail \/ rank[tail] < rank[tail'], ~Scanning(p), pc'[p] # "deqScan",
         pc'[p] \in ArrayIn => seg'[p] \in {head, tail} \/ (pc[p] \in ArrayIn /\ seg'[p] = seg[p])
  PROVE  Aged(rank)'
<1>1. /\ heap \subseteq Nodes /\ {head, tail, tail'} \subseteq heap
      /\ \A n \in heap : rank[n] \in Nat
      /\ \A m, n \in heap : rank[m] = rank[n] => m = n
  BY ArrayFacts DEF ArrayTypeOK
<1>2. rank[tail] <= rank[tail']
  BY <1>1
<1>3. AgesOK(rank)'
  BY <1>1, <1>2 DEF Aged, AgesOK
<1>4. ASSUME NEW q \in Procs \ {p} PROVE HoldsOK(rank, q)'
  <2>1. HoldsOK(rank, q) /\ pc'[q] = pc[q] /\ hp'[q] = hp[q] /\ seg'[q] = seg[q] /\ nxt'[q] = nxt[q]
    BY DEF Aged, ArrayOthers
  <2>2. pc[q] \in ArrayEnq => rank[seg[q]] <= rank[tail']
    BY <1>1, <1>2, <2>1 DEF HoldsOK, ArrayIn
  <2>3. pc[q] \in {"enqHelp", "enqSwing"} /\ seg[q] = tail' => tail' = tail
    BY <1>1, <2>1 DEF HoldsOK, ArrayEnq
  <2>4. QED
    BY <2>1, <2>2, <2>3 DEF HoldsOK
<1>5. ASSUME NEW q \in Procs PROVE BuriedOK(rank, q)'
  <2>1. BuriedOK(rank, q)
    BY DEF Aged
  <2>2. pc'[q] = "deqScan" => pc[q] = "deqScan" /\ seg'[q] = seg[q]
    BY DEF ArrayOthers
  <2>3. QED
    BY <1>1, <1>2, <2>1, <2>2 DEF BuriedOK
<1>6. ASSUME NEW q \in Procs, Scanning(q)' PROVE SoughtOK(q)'
  <2>1. Scanning(q) /\ q # p /\ SoughtOK(q) /\ BuriedOK(rank, q) /\ pc'[q] = pc[q] /\ seg'[q] = seg[q]
    BY <1>6 DEF Scanning, Aged, ArrayOthers
  <2>2. PICK b : b = retired[q][scan[q].node] /\ b \in heap /\ rank[b] < rank[head]
                 /\ (b = seg[q] \/ rank[b] < rank[tail])
    BY <2>1 DEF SoughtOK, BuriedOK
  <2>3. b # head /\ (b = seg[q] \/ b # tail)
    BY <1>1, <2>2
  <2>4. b # seg[q] =>
          \A t \in Procs : t < scan[q].at /\ pc'[t] \in ArrayIn => seg'[t] # b
    BY <2>1, <2>2, <2>3 DEF SoughtOK, ArrayOthers
  <2>5. QED
    BY <2>1, <2>2, <2>4 DEF SoughtOK
<1>7. QED
  BY <1>3, <1>4, <1>5, <1>6 DEF Aged, SoughtOK

\* The CAS of next: the new segment is the youngest, whatever the CAS has replaced.
LEMMA ArrayLinks ==
  ASSUME NEW rank, rank \in [Nodes -> Nat], Aged(rank), NEW p \in Procs, pc[p] = "enqLink",
         NEW f \in Nodes \ heap, heap' = heap \cup {f},
         next' = [next EXCEPT ![seg[p]] = f, ![f] = NULL], nxt' = [nxt EXCEPT ![p] = f],
         pc' = [pc EXCEPT ![p] = "enqSwing"], UNCHANGED <<hp, retired, scan, head, tail, seg>>
  PROVE  ArrayInv'
<1>1. /\ heap \subseteq Nodes /\ {head, tail} \subseteq heap
      /\ \A n \in heap : rank[n] \in Nat /\ n # f
      /\ \A m, n \in heap : rank[m] = rank[n] => m = n
      /\ NULL \notin Nodes
  BY ArrayFacts
<1>2. PICK top \in Nat : \A n \in heap : rank[n] <= top
  BY DEF Aged, AgesOK
<1>3. PICK number \in [Nodes -> Nat] : number[f] = top + 1 /\ \A n \in heap : number[n] = rank[n]
  <2>1. [rank EXCEPT ![f] = top + 1] \in [Nodes -> Nat]
    OBVIOUS
  <2>2. QED
    BY <1>1, <2>1
<1>4. seg[p] \in heap /\ rank[seg[p]] <= rank[tail] /\ hp[p][0] = seg[p]
  BY DEF Aged, HoldsOK, ArrayIn, ArrayEnq
<1>5. /\ pc'[p] = "enqSwing" /\ nxt'[p] = f
      /\ \A q \in Procs \ {p} : pc'[q] = pc[q] /\ nxt'[q] = nxt[q]
      /\ next'[f] = NULL /\ next'[seg[p]] = f /\ \A n \in heap \ {seg[p]} : next'[n] = next[n]
  BY <1>1, <1>4 DEF Aged, ArrayTypeOK
<1>6. ArrayTypeOK'
  BY <1>1, <1>4 DEF Aged, ArrayTypeOK, ArrayPcs, ArrayIn, ArrayEnq
<1>7. AgesOK(number)'
  <2>1. \A m, n \in heap' : number[m] = number[n] => m = n
    BY <1>1, <1>2, <1>3
  <2>2. \A n \in heap' : number[n] <= top + 1
    BY <1>1, <1>2, <1>3
  <2>3. ASSUME NEW n \in heap', next'[n] # NULL PROVE number[n] <= number[tail]
    <3>1. n \in heap /\ (n = seg[p] \/ next[n] # NULL)
      BY <1>5, <2>3
    <3>2. QED
      BY <1>1, <1>3, <1>4, <3>1 DEF Aged, AgesOK
  <2>4. ASSUME NEW n \in heap', next'[n] # NULL, number[head] <= number[n] \/ number[tail] <= number[n]
        PROVE  next'[n] \in heap' /\ number[n] < number[next'[n]]
    <3>1. n \in heap
      BY <1>5, <2>4
    <3>2. CASE n = seg[p]
      <4>1. next'[n] = f /\ f \in heap'
        BY <1>5, <3>2
      <4>2. number[n] \in Nat /\ number[n] <= top /\ number[f] = top + 1
        BY <1>1, <1>2, <1>3, <3>1
      <4>3. QED
        BY <4>1, <4>2
    <3>3. CASE n # seg[p]
      <4>1. next'[n] = next[n] /\ (rank[head] <= rank[n] \/ rank[tail] <= rank[n])
        BY <1>1, <1>3, <1>5, <2>4, <3>1, <3>3
      <4>2. next[n] \in heap /\ rank[n] < rank[next[n]]
        BY <2>4, <3>1, <4>1 DEF Aged, AgesOK
      <4>3. number[n] = rank[n] /\ number[next[n]] = rank[next[n]]
        BY <1>3, <3>1, <4>2
      <4>4. QED
        BY <4>1, <4>2, <4>3
    <3>4. QED
      BY <3>2, <3>3
  <2>5. top + 1 \in Nat
    OBVIOUS
  <2>6. QED
    BY <2>1, <2>2, <2>3, <2>4, <2>5 DEF AgesOK
<1>8. ASSUME NEW q \in Procs PROVE HoldsOK(number, q)'
  <2>1. CASE q = p
    <3>1. pc'[q] = "enqSwing" /\ number[seg[q]] <= number[tail] /\ f \in heap' /\ seg[q] \in heap'
          /\ number[tail] < number[f]
      BY <1>1, <1>2, <1>3, <1>4, <1>5, <2>1
    <3>2. QED
      BY <1>4, <1>5, <2>1, <3>1 DEF HoldsOK, ArrayIn, ArrayEnq, ArrayDeq
  <2>2. CASE q # p
    <3>1. HoldsOK(rank, q) /\ pc'[q] = pc[q] /\ nxt'[q] = nxt[q]
      BY <1>5, <2>2 DEF Aged
    <3>2. next[head] # NULL => next'[head] # NULL
      <4>1. f # NULL /\ head \in heap
        BY <1>1
      <4>2. CASE head = seg[p]
        BY <1>5, <4>1, <4>2
      <4>3. CASE head # seg[p]
        BY <1>5, <4>1, <4>3
      <4>4. QED
        BY <4>2, <4>3
    <3>3. QED
      BY <1>1, <1>3, <3>1, <3>2 DEF HoldsOK, ArrayIn
  <2>3. QED
    BY <2>1, <2>2
<1>9. ASSUME NEW q \in Procs PROVE BuriedOK(number, q)' /\ SoughtOK(q)'
  <2>1. BuriedOK(rank, q) /\ SoughtOK(q)
    BY DEF Aged
  <2>2. pc'[q] = "deqScan" <=> pc[q] = "deqScan"
    BY <1>5
  <2>3. BuriedOK(number, q)'
    BY <1>1, <1>3, <2>1, <2>2 DEF BuriedOK
  <2>4. \A t \in Procs : pc'[t] \in ArrayIn => pc[t] \in ArrayIn
    BY <1>5 DEF ArrayIn, ArrayEnq
  <2>5. SoughtOK(q)'
    BY <2>1, <2>2, <2>4 DEF SoughtOK, Scanning
  <2>6. QED
    BY <2>3, <2>5
<1>10. QED
  BY <1>6, <1>7, <1>8, <1>9 DEF Aged, ArrayInv

\* The CAS of head: it goes to a later segment, and the old one, which is not after tail, is retired.
LEMMA ArrayRetires ==
  ASSUME NEW rank, rank \in [Nodes -> Nat], Aged(rank), NEW p \in Procs, pc[p] = "deqSwing", head = seg[p],
         head' = nxt[p], RetireCall(p, seg[p]), pc' = [pc EXCEPT ![p] = "deqScan"],
         UNCHANGED <<hp, tail, next, seg, nxt>>
  PROVE  Aged(rank)'
<1>1. /\ heap \subseteq Nodes /\ {head, tail} \subseteq heap
      /\ \A n \in heap : rank[n] \in Nat
      /\ \A m, n \in heap : rank[m] = rank[n] => m = n
      /\ Len(retired[p]) \in Nat
  BY ArrayFacts
<1>2. head' \in heap /\ rank[head] < rank[head'] /\ rank[head] <= rank[tail] /\ hp[p][0] = seg[p]
  BY <1>1 DEF Aged, AgesOK, HoldsOK, ArrayIn, ArrayDeq
<1>3. PICK o \in {Idle, [node |-> 1, at |-> 0]} :
        retired' = [retired EXCEPT ![p] = Append(@, seg[p])] /\ scan' = [scan EXCEPT ![p] = o] /\ heap' = heap
  BY DEF RetireCall
<1>4. /\ pc'[p] = "deqScan" /\ scan'[p] = o /\ retired'[p] = Append(retired[p], seg[p])
      /\ \A q \in Procs \ {p} : pc'[q] = pc[q] /\ scan'[q] = scan[q] /\ retired'[q] = retired[q]
  BY <1>3 DEF Aged, ArrayTypeOK
<1>5. /\ Len(retired'[p]) = Len(retired[p]) + 1 /\ retired'[p][Len(retired[p]) + 1] = seg[p]
      /\ \A n \in 1 .. Len(retired[p]) : retired'[p][n] = retired[p][n]
      /\ retired'[p] \in Seq(Nodes)
  <2>1. retired[p] \in Seq(Nodes) /\ seg[p] \in Nodes
    BY <1>1 DEF Aged, ArrayTypeOK
  <2>2. QED
    BY <1>4, <2>1
<1>6. ArrayTypeOK'
  <2>1. o \in [node : Nat, at : Nat]
    BY DEF Idle
  <2>2. retired' \in [Procs -> Seq(Nodes)]
    BY <1>3, <1>4, <1>5 DEF Aged, ArrayTypeOK
  <2>3. QED
    BY <1>2, <1>3, <2>1, <2>2 DEF Aged, ArrayTypeOK, ArrayPcs
<1>7. AgesOK(rank)'
  BY <1>1, <1>2, <1>3 DEF Aged, AgesOK
<1>8. ASSUME NEW q \in Procs PROVE HoldsOK(rank, q)'
  <2>1. CASE q = p
    BY <1>2, <1>4, <2>1 DEF HoldsOK, ArrayIn, ArrayEnq, ArrayDeq
  <2>2. CASE q # p
    <3>1. HoldsOK(rank, q) /\ pc'[q] = pc[q]
      BY <1>4, <2>2 DEF Aged
    <3>2. pc[q] \in ArrayDeq => seg[q] \in heap /\ rank[seg[q]] <= rank[head'] /\ seg[q] # head'
      BY <1>1, <1>2, <3>1 DEF HoldsOK, ArrayIn
    <3>3. pc[q] = "deqSwing" => seg[q] # head'
      BY <3>2 DEF ArrayDeq
    <3>4. QED
      BY <1>3, <3>1, <3>2, <3>3 DEF HoldsOK
  <2>3. QED
    BY <2>1, <2>2
<1>9. \A q \in Procs : \A n \in 1 .. Len(retired'[q]) :
        \/ n \in 1 .. Len(retired[q]) /\ retired'[q][n] = retired[q][n]
        \/ q = p /\ n = Len(retired[p]) + 1 /\ retired'[q][n] = head
  <2>1. ASSUME NEW q \in Procs, NEW n \in 1 .. Len(retired'[q])
        PROVE  \/ n \in 1 .. Len(retired[q]) /\ retired'[q][n] = retired[q][n]
               \/ q = p /\ n = Len(retired[p]) + 1 /\ retired'[q][n] = head
    <3>1. CASE q = p
      <4>1. n \in 1 .. Len(retired[p]) \/ n = Len(retired[p]) + 1
        BY <1>1, <1>5, <3>1
      <4>2. QED
        BY <1>5, <3>1, <4>1
    <3>2. CASE q # p
      BY <1>4, <3>2
    <3>3. QED
      BY <3>1, <3>2
  <2>2. QED
    BY <2>1
<1>10. \A q \in Procs : \A n \in 1 .. Len(retired[q]) :
         retired[q][n] \in heap /\ rank[retired[q][n]] < rank[head] /\ retired[q][n] # head
  <2>1. \A q \in Procs : \A n \in 1 .. Len(retired[q]) :
          retired[q][n] \in heap /\ rank[retired[q][n]] < rank[head]
    BY DEF Aged, BuriedOK
  <2>2. QED
    BY <1>1, <2>1
<1>11. ASSUME NEW q \in Procs PROVE BuriedOK(rank, q)'
  <2>1. \A n \in 1 .. Len(retired'[q]) : retired'[q][n] \in heap /\ rank[retired'[q][n]] < rank[head']
    <3>1. ASSUME NEW n \in 1 .. Len(retired'[q])
          PROVE  retired'[q][n] \in heap /\ rank[retired'[q][n]] < rank[head']
      <4>1. retired'[q][n] \in heap /\ rank[retired'[q][n]] <= rank[head]
        <5>1. CASE retired'[q][n] = head
          BY <1>1, <5>1
        <5>2. CASE retired'[q][n] # head
          <6>1. n \in 1 .. Len(retired[q]) /\ retired'[q][n] = retired[q][n]
            BY <1>9, <5>2
          <6>2. retired[q][n] \in heap /\ rank[retired[q][n]] < rank[head]
            BY <1>10, <6>1
          <6>3. QED
            BY <1>1, <6>1, <6>2
        <5>3. QED
          BY <5>1, <5>2
      <4>2. QED
        BY <1>1, <1>2, <4>1
    <3>2. QED
      BY <3>1
  <2>2. ASSUME NEW t \in Procs, NEW n \in 1 .. Len(retired'[q]), NEW m \in 1 .. Len(retired'[t]),
               retired'[q][n] = retired'[t][m]
        PROVE  q = t /\ n = m
    <3>1. BuriedOK(rank, q)
      BY DEF Aged
    <3>2. CASE retired'[q][n] = head
      <4>1. q = p /\ n = Len(retired[p]) + 1
        BY <1>9, <1>10, <3>2
      <4>2. t = p /\ m = Len(retired[p]) + 1
        BY <1>9, <1>10, <2>2, <3>2
      <4>3. QED
        BY <4>1, <4>2
    <3>3. CASE retired'[q][n] # head
      <4>1. n \in 1 .. Len(retired[q]) /\ m \in 1 .. Len(retired[t]) /\ retired[q][n] = retired[t][m]
        BY <1>9, <2>2, <3>3
      <4>2. QED
        BY <3>1, <4>1 DEF BuriedOK
    <3>4. QED
      BY <3>2, <3>3
  <2>3. ASSUME pc'[q] = "deqScan", NEW n \in 1 .. Len(retired'[q])
        PROVE  retired'[q][n] = seg[q] \/ rank[retired'[q][n]] < rank[tail]
    <3>1. CASE q = p
      BY <1>1, <1>2, <1>9, <1>10, <3>1
    <3>2. CASE q # p
      BY <1>4, <2>3, <3>2 DEF Aged, BuriedOK
    <3>3. QED
      BY <3>1, <3>2
  <2>4. QED
    BY <1>3, <2>1, <2>2, <2>3 DEF BuriedOK
<1>12. ASSUME NEW q \in Procs PROVE SoughtOK(q)'
  <2>1. CASE q = p
    <3>1. CASE o = Idle
      BY <1>4, <2>1, <3>1 DEF SoughtOK, Scanning
    <3>2. CASE o = [node |-> 1, at |-> 0]
      <4>1. scan'[p].node = 1 /\ scan'[p].at = 0 /\ 1 \in 1 .. Len(retired'[p])
        BY <1>1, <1>4, <1>5, <3>2
      <4>2. 0 \in 0 .. Loads /\ \A t \in Procs : t \in Nat
        BY Threads
      <4>3. QED
        BY <1>4, <2>1, <4>1, <4>2 DEF SoughtOK
    <3>3. QED
      BY <3>1, <3>2
  <2>2. CASE q # p
    <3>1. SoughtOK(q) /\ pc'[q] = pc[q] /\ scan'[q] = scan[q] /\ retired'[q] = retired[q]
      BY <1>4, <2>2 DEF Aged
    <3>2. \A t \in Procs : pc'[t] \in ArrayIn => pc[t] \in ArrayIn
      BY <1>4 DEF ArrayIn, ArrayEnq, ArrayDeq
    <3>3. QED
      BY <3>1, <3>2 DEF SoughtOK, Scanning
  <2>3. QED
    BY <2>1, <2>2
<1>13. QED
  BY <1>6, <1>7, <1>8, <1>11, <1>12 DEF Aged

\* ScanLoad: the scan has passed one more thread, or goes on to the next segment.
LEMMA ArrayScanLoads ==
  ASSUME NEW rank, rank \in [Nodes -> Nat], Aged(rank), NEW p \in Procs, ScanLoad(p),
         UNCHANGED <<head, tail, next, seg, nxt, pc>>
  PROVE  Aged(rank)'
<1>1. UNCHANGED <<hp, retired, heap>>
  BY DEF ScanLoad
<1>2. PICK i \in Nat, a \in Nat : scan[p] = [node |-> i, at |-> a]
  BY DEF Aged, ArrayTypeOK
<1>3. /\ Scanning(p) /\ SoughtOK(p) /\ pc[p] = "deqScan" /\ i \in 1 .. Len(retired[p]) /\ a < Loads
      /\ Len(retired[p]) \in Nat
  <2>1. SoughtOK(p) /\ Scanning(p) /\ a < Loads
    BY <1>2 DEF ScanLoad, Aged
  <2>2. QED
    BY <1>2, <2>1, ArrayFacts DEF SoughtOK
<1>4. PICK o \in {Idle, [node |-> i + 1, at |-> 0], [node |-> i, at |-> a + 1]} :
        /\ scan' = [scan EXCEPT ![p] = o]
        /\ o = [node |-> i + 1, at |-> 0] => i + 1 \in 1 .. Len(retired[p])
        /\ o = [node |-> i, at |-> a + 1] => HazardAt(a) # retired[p][i]
  <2>1. CASE HazardAt(a) = retired[p][i]
    <3>1. scan' = [scan EXCEPT ![p] = IF i + 1 > Len(retired[p]) THEN Idle ELSE [node |-> i + 1, at |-> 0]]
      BY <1>2, <2>1 DEF ScanLoad, NextNode
    <3>2. [node |-> i + 1, at |-> 0] # [node |-> i, at |-> a + 1] /\ Idle # [node |-> i + 1, at |-> 0]
          /\ Idle # [node |-> i, at |-> a + 1]
      BY <1>3 DEF Idle
    <3>3. ~(i + 1 > Len(retired[p])) => i + 1 \in 1 .. Len(retired[p])
      BY <1>3
    <3>4. QED
      BY <3>1, <3>2, <3>3
  <2>2. CASE HazardAt(a) # retired[p][i]
    <3>1. scan' = [scan EXCEPT ![p] = [scan[p] EXCEPT !.at = a + 1]]
      BY <1>2, <2>2 DEF ScanLoad
    <3>2. [scan[p] EXCEPT !.at = a + 1] = [node |-> i, at |-> a + 1]
      BY <1>2
    <3>3. [node |-> i, at |-> a + 1] # [node |-> i + 1, at |-> 0]
      BY <1>3
    <3>4. QED
      BY <2>2, <3>1, <3>2, <3>3
  <2>3. QED
    BY <2>1, <2>2
<1>5. scan'[p] = o /\ \A q \in Procs \ {p} : scan'[q] = scan[q]
  BY <1>4 DEF Aged, ArrayTypeOK
<1>6. ArrayTypeOK'
  <2>1. o \in [node : Nat, at : Nat]
    BY DEF Idle
  <2>2. QED
    BY <1>1, <1>4, <2>1 DEF Aged, ArrayTypeOK
<1>7. AgesOK(rank)' /\ \A q \in Procs : HoldsOK(rank, q)' /\ BuriedOK(rank, q)'
  BY <1>1 DEF Aged, AgesOK, HoldsOK, BuriedOK
<1>8. ASSUME NEW q \in Procs \ {p} PROVE SoughtOK(q)'
  <2>1. SoughtOK(q) /\ scan'[q] = scan[q]
    BY <1>5 DEF Aged
  <2>2. QED
    BY <1>1, <2>1 DEF SoughtOK, Scanning
<1>9. SoughtOK(p)'
  <2>0. Loads \in Nat /\ \A t \in Procs : t \in Nat
    BY Threads
  <2>1. CASE o = Idle
    BY <1>5, <2>1 DEF SoughtOK, Scanning
  <2>2. CASE o = [node |-> i + 1, at |-> 0]
    <3>1. scan'[p].node = i + 1 /\ scan'[p].at = 0 /\ i + 1 \in 1 .. Len(retired'[p])
      BY <1>1, <1>4, <1>5, <2>2
    <3>2. 0 \in 0 .. Loads /\ 0 <= p /\ \A t \in Procs : ~(t < 0)
      BY <2>0
    <3>3. QED
      BY <1>1, <1>3, <3>1, <3>2 DEF SoughtOK
  <2>3. CASE o = [node |-> i, at |-> a + 1]
    <3>1. scan'[p].node = i /\ scan'[p].at = a + 1 /\ HazardAt(a) # retired[p][i]
      BY <1>4, <1>5, <2>3
    <3>2. a \in Procs /\ hp[a][0] # retired[p][i] /\ a + 1 \in 0 .. Loads
      BY <1>3, <2>0, <3>1, Threads
    <3>3. retired[p][i] = seg[p] => a + 1 <= p
      <4>1. HoldsOK(rank, p)
        BY DEF Aged
      <4>2. retired[p][i] = seg[p] => a # p /\ a <= p
        BY <1>2, <1>3, <3>2, <4>1 DEF HoldsOK, SoughtOK
      <4>3. QED
        BY <2>0, <4>2
    <3>4. ASSUME retired[p][i] # seg[p], NEW t \in Procs, t < a + 1, pc[t] \in ArrayIn
          PROVE  seg[t] # retired[p][i]
      <4>1. CASE t = a
        <5>1. HoldsOK(rank, t)
          BY DEF Aged
        <5>2. QED
          BY <3>2, <3>4, <4>1, <5>1 DEF HoldsOK
      <4>2. CASE t # a
        <5>1. t < a
          BY <2>0, <3>4, <4>2
        <5>2. QED
          BY <1>2, <1>3, <3>4, <5>1 DEF SoughtOK
      <4>3. QED
        BY <4>1, <4>2
    <3>5. QED
      BY <1>1, <1>3, <3>1, <3>2, <3>3, <3>4 DEF SoughtOK
  <2>4. QED
    BY <2>1, <2>2, <2>3
<1>10. QED
  BY <1>6, <1>7, <1>8, <1>9 DEF Aged

\* ScanDelete: no thread is in the segment, which the scan has not met in any hazard pointer.
LEMMA ArrayScanDeletes ==
  ASSUME NEW rank, rank \in [Nodes -> Nat], Aged(rank), NEW p \in Procs, ScanDelete(p),
         UNCHANGED <<head, tail, next, seg, nxt, pc>>
  PROVE  Aged(rank)'
<1>1. UNCHANGED hp
  BY DEF ScanDelete
<1>2. PICK i \in Nat, a \in Nat : scan[p] = [node |-> i, at |-> a]
  BY DEF Aged, ArrayTypeOK
<1>3. /\ Scanning(p) /\ SoughtOK(p) /\ BuriedOK(rank, p)
      /\ pc[p] = "deqScan" /\ i \in 1 .. Len(retired[p]) /\ a = Loads
      /\ Len(retired[p]) \in Nat
  <2>1. SoughtOK(p) /\ Scanning(p) /\ a = Loads /\ BuriedOK(rank, p)
    BY <1>2 DEF ScanDelete, Aged
  <2>2. QED
    BY <1>2, <2>1, ArrayFacts DEF SoughtOK
<1>4. /\ heap \subseteq Nodes /\ {head, tail} \subseteq heap
      /\ \A n \in heap : rank[n] \in Nat
  BY ArrayFacts
<1>5. Loads \in Nat /\ \A t \in Procs : t \in Nat /\ t < Loads
  BY Threads
<1>6. PICK b : b = retired[p][i] /\ b \in heap /\ rank[b] < rank[head] /\ rank[b] < rank[tail] /\ b # seg[p]
  <2>1. retired[p][i] # seg[p]
    <3>1. ~(a <= p)
      BY <1>3, <1>5
    <3>2. QED
      BY <1>2, <1>3, <3>1 DEF SoughtOK
  <2>2. QED
    BY <1>3, <2>1 DEF BuriedOK
<1>7. \A q \in Procs : pc[q] \in ArrayIn => seg[q] # b
  BY <1>2, <1>3, <1>5, <1>6 DEF SoughtOK
<1>8. PICK s \in Seq(Nodes) :
        /\ s = RemoveAt(retired[p], i) /\ Len(s) = Len(retired[p]) - 1
        /\ \A n \in 1 .. Len(retired[p]) - 1 : s[n] = retired[p][IF n < i THEN n ELSE n + 1]
  <2>1. retired[p] \in Seq(Nodes)
    BY DEF Aged, ArrayTypeOK
  <2>2. QED
    BY <1>3, <2>1, ErasedAt
<1>9. PICK o \in {Idle, [node |-> i, at |-> 0]} :
        /\ retired' = [retired EXCEPT ![p] = s] /\ heap' = heap \ {b} /\ scan' = [scan EXCEPT ![p] = o]
        /\ o = [node |-> i, at |-> 0] => i \in 1 .. Len(s)
  <2>1. retired' = [retired EXCEPT ![p] = s] /\ heap' = heap \ {b} /\ retired'[p] = s
    BY <1>2, <1>6, <1>8 DEF ScanDelete, Aged, ArrayTypeOK
  <2>2. scan' = [scan EXCEPT ![p] = IF i > Len(s) THEN Idle ELSE [node |-> i, at |-> 0]]
    <3>1. NextNode(p, s, i)
      BY <1>2, <2>1 DEF ScanDelete
    <3>2. QED
      BY <3>1 DEF NextNode
  <2>3. ~(i > Len(s)) => i \in 1 .. Len(s)
    BY <1>3, <1>8
  <2>4. Idle # [node |-> i, at |-> 0]
    BY <1>3 DEF Idle
  <2>5. QED
    BY <2>1, <2>2, <2>3, <2>4
<1>10. /\ retired'[p] = s /\ scan'[p] = o
       /\ \A q \in Procs \ {p} : retired'[q] = retired[q] /\ scan'[q] = scan[q]
  BY <1>9 DEF Aged, ArrayTypeOK
<1>11. ArrayTypeOK'
  <2>1. o \in [node : Nat, at : Nat]
    BY DEF Idle
  <2>2. head # b /\ tail # b
    BY <1>4, <1>6
  <2>3. QED
    BY <1>1, <1>9, <2>1, <2>2 DEF Aged, ArrayTypeOK
<1>12. AgesOK(rank)'
  <2>1. ASSUME NEW n \in heap \ {b}, next[n] # NULL, rank[head] <= rank[n] \/ rank[tail] <= rank[n]
        PROVE  next[n] \in heap \ {b} /\ rank[n] < rank[next[n]]
    <3>1. next[n] \in heap /\ rank[n] < rank[next[n]]
      BY <2>1 DEF Aged, AgesOK
    <3>2. QED
      BY <1>4, <1>6, <2>1, <3>1
  <2>2. QED
    BY <1>9, <2>1 DEF Aged, AgesOK
<1>13. ASSUME NEW q \in Procs PROVE HoldsOK(rank, q)'
  <2>1. HoldsOK(rank, q)
    BY DEF Aged
  <2>2. \A n \in heap : rank[head] < rank[n] \/ rank[tail] < rank[n] => n # b
    BY <1>4, <1>6
  <2>3. QED
    BY <1>1, <1>7, <1>9, <2>1, <2>2 DEF HoldsOK
<1>14. \A q \in Procs : \A j \in 1 .. Len(retired[q]) : retired[q][j] = b => q = p /\ j = i
  BY <1>3, <1>6 DEF BuriedOK
<1>15. \A q \in Procs : \A j \in 1 .. Len(retired'[q]) :
         \E m \in 1 .. Len(retired[q]) :
           /\ retired'[q][j] = retired[q][m] /\ retired[q][m] # b
           /\ m = IF q = p /\ j >= i THEN j + 1 ELSE j
  <2>1. ASSUME NEW q \in Procs, NEW j \in 1 .. Len(retired'[q])
        PROVE  \E m \in 1 .. Len(retired[q]) :
                 /\ retired'[q][j] = retired[q][m] /\ retired[q][m] # b
                 /\ m = IF q = p /\ j >= i THEN j + 1 ELSE j
    <3>1. CASE q = p
      <4>1. j \in 1 .. Len(retired[p]) - 1
        BY <1>8, <1>10, <3>1
      <4>2. PICK m : m = IF j >= i THEN j + 1 ELSE j
        OBVIOUS
      <4>3. m \in 1 .. Len(retired[p]) /\ m # i /\ m = IF j < i THEN j ELSE j + 1
        BY <1>3, <4>1, <4>2
      <4>4. retired'[q][j] = retired[q][m]
        BY <1>8, <1>10, <3>1, <4>1, <4>3
      <4>5. retired[q][m] # b
        BY <1>14, <3>1, <4>3
      <4>6. QED
        BY <3>1, <4>2, <4>3, <4>4, <4>5
    <3>2. CASE q # p
      BY <1>10, <1>14, <3>2
    <3>3. QED
      BY <3>1, <3>2
  <2>2. QED
    BY <2>1
<1>16. ASSUME NEW q \in Procs PROVE BuriedOK(rank, q)'
  <2>1. BuriedOK(rank, q)
    BY DEF Aged
  <2>2. ASSUME NEW j \in 1 .. Len(retired'[q])
        PROVE  /\ retired'[q][j] \in heap \ {b} /\ rank[retired'[q][j]] < rank[head]
               /\ pc[q] = "deqScan" => retired'[q][j] = seg[q] \/ rank[retired'[q][j]] < rank[tail]
    <3>1. PICK m \in 1 .. Len(retired[q]) : retired'[q][j] = retired[q][m] /\ retired[q][m] # b
      BY <1>15
    <3>2. QED
      BY <2>1, <3>1 DEF BuriedOK
  <2>3. ASSUME NEW j \in 1 .. Len(retired'[q]), NEW t \in Procs, NEW n \in 1 .. Len(retired'[t]),
               retired'[q][j] = retired'[t][n]
        PROVE  q = t /\ j = n
    <3>1. PICK m \in 1 .. Len(retired[q]) :
            retired'[q][j] = retired[q][m] /\ m = IF q = p /\ j >= i THEN j + 1 ELSE j
      BY <1>15
    <3>2. PICK l \in 1 .. Len(retired[t]) :
            retired'[t][n] = retired[t][l] /\ l = IF t = p /\ n >= i THEN n + 1 ELSE n
      BY <1>15
    <3>3. t = q /\ l = m
      <4>1. retired[q][m] = retired[t][l]
        BY <2>3, <3>1, <3>2
      <4>2. QED
        BY <2>1, <4>1 DEF BuriedOK
    <3>4. Len(retired'[q]) \in Nat /\ i \in Nat
      <4>1. retired'[q] \in Seq(Nodes)
        BY <1>11 DEF ArrayTypeOK
      <4>2. QED
        BY <1>3, <4>1
    <3>5. QED
      BY <3>1, <3>2, <3>3, <3>4
  <2>4. \A t \in Procs : \A j \in 1 .. Len(retired'[q]), n \in 1 .. Len(retired'[t]) :
          retired'[q][j] = retired'[t][n] => q = t /\ j = n
    BY <2>3
  <2>5. heap' = heap \ {b} /\ UNCHANGED <<head, tail, pc, seg>>
    BY <1>9
  <2>6. /\ \A j \in 1 .. Len(retired'[q]) : retired'[q][j] \in heap' /\ rank[retired'[q][j]] < rank[head']
        /\ pc'[q] = "deqScan" =>
             \A j \in 1 .. Len(retired'[q]) : retired'[q][j] = seg'[q] \/ rank[retired'[q][j]] < rank[tail']
    BY <2>2, <2>5
  <2>7. QED
    BY <2>4, <2>6 DEF BuriedOK
<1>17. ASSUME NEW q \in Procs PROVE SoughtOK(q)'
  <2>1. CASE q # p
    <3>1. SoughtOK(q) /\ scan'[q] = scan[q] /\ retired'[q] = retired[q]
      BY <1>10, <2>1 DEF Aged
    <3>2. QED
      BY <3>1 DEF SoughtOK, Scanning
  <2>2. CASE q = p /\ o = Idle
    BY <1>10, <2>2 DEF SoughtOK, Scanning
  <2>3. CASE q = p /\ o = [node |-> i, at |-> 0]
    <3>1. scan'[p].node = i /\ scan'[p].at = 0 /\ i \in 1 .. Len(retired'[p])
      BY <1>9, <1>10, <2>3
    <3>2. 0 \in 0 .. Loads /\ 0 <= p /\ \A t \in Procs : ~(t < 0)
      BY <1>5
    <3>3. QED
      BY <1>3, <2>3, <3>1, <3>2 DEF SoughtOK
  <2>4. QED
    BY <2>1, <2>2, <2>3
<1>18. QED
  BY <1>11, <1>12, <1>13, <1>16, <1>17 DEF Aged

\* protect: the load that confirms what was published, one that does not, and the store.
LEMMA ArrayProtects ==
  ASSUME NEW rank, rank \in [Nodes -> Nat], Aged(rank), NEW p \in Procs, NEW load, NEW store, NEW to, NEW atom,
         \/ load = "enqTail" /\ store = "enqHp" /\ to = "enqIdx" /\ atom = tail
         \/ load = "deqHead" /\ store = "deqHp" /\ to = "deqDeqIdx" /\ atom = head,
         F!ProtectLoad(p, load, atom, store, to) \/ F!ProtectStore(p, store, load)
  PROVE  Aged(rank)'
<1> USE DEF F!pool, F!segments, F!locals
<1>1. /\ heap \subseteq Nodes /\ {head, tail} \subseteq heap /\ NULL \notin Nodes
      /\ \A n \in heap : rank[n] \in Nat
  BY ArrayFacts
<1>2. /\ atom \in Nodes /\ pc[p] \in {load, store} /\ UNCHANGED <<heap, retired, scan, head, tail, next, nxt>>
      /\ pc[p] # "deqScan" /\ ~Scanning(p)
  <2>1. atom \in Nodes /\ pc[p] \in {load, store} /\ UNCHANGED <<heap, retired, scan, head, tail, next, nxt>>
    BY <1>1 DEF F!ProtectLoad, F!ProtectStore
  <2>2. pc[p] # "deqScan"
    BY <2>1
  <2>3. QED
    BY <2>1, <2>2 DEF Aged, SoughtOK
<1>3. {load, store, to} \subseteq ArrayPcs /\ {load, store} \cap ArrayIn = {} /\ "deqScan" \notin {load, store, to}
      /\ (to \in ArrayEnq <=> to = "enqIdx") /\ (to \in ArrayDeq <=> to = "deqDeqIdx")
  BY DEF ArrayPcs, ArrayIn, ArrayEnq, ArrayDeq
<1>4. CASE F!ProtectLoad(p, load, atom, store, to)
  <2>1. /\ pc[p] = load /\ seg' = [seg EXCEPT ![p] = atom] /\ UNCHANGED hp
        /\ pc' = [pc EXCEPT ![p] = IF atom = seg[p] THEN to ELSE store]
    BY <1>4, ArrayCalls DEF F!ProtectLoad
  <2>2. seg'[p] = atom /\ pc'[p] = (IF atom = seg[p] THEN to ELSE store) /\ ArrayOthers(p)
    BY <1>2, <2>1 DEF Aged, ArrayTypeOK, ArrayOthers
  <2>3. ArrayTypeOK'
    BY <1>2, <1>3, <2>1 DEF Aged, ArrayTypeOK
  <2>4. atom = seg[p] => hp'[p][0] = atom
    BY <1>1, <1>2, <2>1 DEF Aged, HoldsOK
  <2>5. HoldsOK(rank, p)'
    <3>1. CASE atom = seg[p]
      <4>1. pc'[p] = to /\ seg'[p] = atom /\ hp'[p][0] = atom /\ atom \in heap /\ rank[atom] \in Nat
        BY <1>1, <2>2, <2>4, <3>1
      <4>2. QED
        BY <1>2, <1>3, <4>1 DEF HoldsOK, ArrayIn
    <3>2. CASE atom # seg[p]
      <4>1. pc'[p] = store /\ store \notin ArrayIn \cup ArrayEnq \cup ArrayDeq
        BY <1>3, <2>2, <3>2 DEF ArrayIn
      <4>2. QED
        BY <4>1 DEF HoldsOK
    <3>3. QED
      BY <3>1, <3>2
  <2>6. seg'[p] \in {head, tail} /\ pc'[p] # "deqScan"
    BY <1>3, <2>2
  <2>7. QED
    BY <1>2, <2>2, <2>3, <2>5, <2>6, ArrayLocal
<1>5. CASE F!ProtectStore(p, store, load)
  <2>1. hp' = [hp EXCEPT ![p][0] = seg[p]] /\ pc' = [pc EXCEPT ![p] = load] /\ UNCHANGED seg
    BY <1>5, ArrayCalls DEF F!ProtectStore, F!Publish
  <2>2. hp'[p][0] = seg[p] /\ pc'[p] = load /\ ArrayOthers(p)
    BY <1>2, <2>1 DEF Aged, ArrayTypeOK, ArrayOthers
  <2>3. ArrayTypeOK'
    BY <1>2, <1>3, <2>1 DEF Aged, ArrayTypeOK
  <2>4. pc'[p] \notin ArrayIn \cup ArrayEnq \cup ArrayDeq
    BY <1>3, <2>2 DEF ArrayIn
  <2>5. HoldsOK(rank, p)'
    BY <2>1, <2>2, <2>4 DEF HoldsOK
  <2>6. QED
    BY <1>2, <1>3, <2>2, <2>3, <2>4, <2>5, ArrayLocal
<1>6. QED
  BY <1>4, <1>5

\* A step within a segment, the end of a round and the end of a call.
LEMMA ArrayGoesOn ==
  ASSUME NEW rank, rank \in [Nodes -> Nat], Aged(rank), NEW p \in Procs, NEW l,
         pc' = [pc EXCEPT ![p] = l], UNCHANGED <<heap, retired, scan, head, next>>,
         ~Scanning(p), \E s \in Nodes \cup {NULL} : nxt' = [nxt EXCEPT ![p] = s],
         tail' \in heap, tail' = tail \/ rank[tail] < rank[tail'],
         \/ /\ l \in {"enqTail", "deqHead"} /\ seg' = [seg EXCEPT ![p] = NULL] /\ UNCHANGED hp
         \/ l = "idle" /\ F!Clear(p) /\ UNCHANGED seg
         \/ /\ UNCHANGED <<hp, seg, tail>>
            /\ \/ pc[p] \in ArrayEnq /\ l \in ArrayEnq
               \/ pc[p] \in ArrayDeq /\ l \in ArrayDeq
            /\ l \in {"enqHelp", "enqSwing"} /\ seg[p] = tail => nxt'[p] \in heap /\ rank[tail] < rank[nxt'[p]]
            /\ l = "deqSwing" /\ seg[p] = head =>
                 nxt'[p] \in heap /\ rank[head] < rank[nxt'[p]] /\ next[head] # NULL
  PROVE  Aged(rank)'
<1>1. NULL \notin Nodes /\ head \in heap
  BY ArrayFacts
<1>2. l \in ArrayPcs /\ l # "deqScan"
  BY DEF ArrayPcs, ArrayIn, ArrayEnq, ArrayDeq
<1>3. ArrayTypeOK' /\ ArrayOthers(p) /\ pc'[p] = l
  <2>1. hp' \in [Procs -> [{0} -> Nodes \cup {NULL}]] /\ \A q \in Procs \ {p} : hp'[q] = hp[q]
    <3>1. CASE UNCHANGED hp
      BY <3>1 DEF Aged, ArrayTypeOK
    <3>2. CASE F!Clear(p)
      <4>1. hp' = [hp EXCEPT ![p] = [k \in {0} |-> NULL]]
        <5>1. 0 .. 1 - 1 = {0}
          OBVIOUS
        <5>2. QED
          BY <3>2, <5>1 DEF F!Clear
      <4>2. QED
        BY <4>1 DEF Aged, ArrayTypeOK
    <3>3. QED
      BY <3>1, <3>2
  <2>2. seg' \in [Procs -> Nodes \cup {NULL}] /\ \A q \in Procs \ {p} : seg'[q] = seg[q]
    BY DEF Aged, ArrayTypeOK
  <2>3. QED
    BY <1>1, <1>2, <2>1, <2>2 DEF Aged, ArrayTypeOK, ArrayOthers
<1>4. CASE l \in {"enqTail", "deqHead"} /\ seg' = [seg EXCEPT ![p] = NULL] /\ UNCHANGED hp
  <2>1. seg'[p] = NULL /\ l \notin ArrayIn \cup ArrayEnq \cup ArrayDeq
    BY <1>4 DEF Aged, ArrayTypeOK, ArrayIn, ArrayEnq, ArrayDeq
  <2>2. HoldsOK(rank, p)'
    BY <1>2, <1>3, <1>4, <2>1 DEF HoldsOK
  <2>3. QED
    BY <1>2, <1>3, <2>1, <2>2, ArrayLocal
<1>5. CASE l = "idle"
  <2>1. l \notin ArrayIn \cup ArrayEnq \cup ArrayDeq
    BY <1>5 DEF ArrayIn, ArrayEnq, ArrayDeq
  <2>2. HoldsOK(rank, p)'
    BY <1>2, <1>3, <1>5, <2>1 DEF HoldsOK
  <2>3. QED
    BY <1>2, <1>3, <2>1, <2>2, ArrayLocal
<1>6. CASE /\ UNCHANGED <<hp, seg, tail>>
           /\ \/ pc[p] \in ArrayEnq /\ l \in ArrayEnq
              \/ pc[p] \in ArrayDeq /\ l \in ArrayDeq
           /\ l \in {"enqHelp", "enqSwing"} /\ seg[p] = tail => nxt'[p] \in heap /\ rank[tail] < rank[nxt'[p]]
           /\ l = "deqSwing" /\ seg[p] = head =>
                nxt'[p] \in heap /\ rank[head] < rank[nxt'[p]] /\ next[head] # NULL
  <2>1. /\ pc[p] \in ArrayIn /\ l \in ArrayIn /\ l \notin {"enqTail", "deqHead"}
        /\ l \in ArrayEnq => pc[p] \in ArrayEnq
        /\ l \in ArrayDeq => pc[p] \in ArrayDeq
    BY <1>6 DEF ArrayIn, ArrayEnq, ArrayDeq
  <2>2. HoldsOK(rank, p)
    BY DEF Aged
  <2>3. HoldsOK(rank, p)'
    BY <1>3, <1>6, <2>1, <2>2 DEF HoldsOK
  <2>4. QED
    BY <1>2, <1>3, <1>6, <2>1, <2>3, ArrayLocal
<1>7. QED
  BY <1>4, <1>5, <1>6

\* Where tail goes from here is a later segment.
LEMMA ArraySwing ==
  ASSUME NEW rank, rank \in [Nodes -> Nat], Aged(rank), NEW p \in Procs, pc[p] \in {"enqHelp", "enqSwing"},
         F!SwingTail(p)
  PROVE  /\ tail' \in heap /\ (tail' = tail \/ rank[tail] < rank[tail'])
         /\ UNCHANGED <<retired, heap, scan, next, head, nxt>>
BY DEF F!SwingTail, Aged, HoldsOK, ArrayTypeOK

LEMMA ArrayEnqueues == ASSUME ArrayInv, NEW p \in Procs, F!EnqStep(p) PROVE ArrayInv'
<1> USE DEF F!pool, F!segments, F!locals
<1>0. PICK rank \in [Nodes -> Nat] : Aged(rank)
  BY DEF ArrayInv
<1>1. /\ {head, tail} \subseteq heap /\ nxt = [nxt EXCEPT ![p] = nxt[p]] /\ nxt[p] \in Nodes \cup {NULL}
      /\ pc[p] \in ArrayIn => seg[p] \in heap /\ next[seg[p]] \in Nodes \cup {NULL}
      /\ HoldsOK(rank, p)
  <2>1. nxt = [nxt EXCEPT ![p] = nxt[p]] /\ nxt[p] \in Nodes \cup {NULL} /\ HoldsOK(rank, p)
    BY <1>0 DEF Aged, ArrayTypeOK
  <2>2. QED
    BY <1>0, <2>1, ArrayFacts DEF HoldsOK
<1>2. pc[p] # "deqScan" => ~Scanning(p)
  BY <1>0 DEF Aged, SoughtOK
<1>3. pc[p] \in ArrayPcs
  BY <1>0 DEF Aged, ArrayTypeOK
<1>4. CASE F!EnqTail(p)
  BY <1>0, <1>4, ArrayProtects DEF F!EnqTail, ArrayInv
<1>5. CASE F!EnqIdx(p)
  <2>1. PICK l \in {"enqLast", "enqItem"} :
          /\ pc' = [pc EXCEPT ![p] = l] /\ pc[p] = "enqIdx"
          /\ UNCHANGED <<hp, retired, heap, scan, next, head, tail, seg, nxt>>
    BY <1>5, ArrayCalls DEF F!EnqIdx
  <2>2. pc[p] \in ArrayEnq /\ l \in ArrayEnq
    BY <2>1 DEF ArrayEnq
  <2>3. QED
    BY <1>0, <1>1, <1>2, <2>1, <2>2, ArrayGoesOn DEF ArrayInv
<1>6. CASE F!EnqLast(p)
  <2>1. pc[p] = "enqLast" /\ UNCHANGED <<hp, retired, heap, scan, next, head, tail, nxt>>
    BY <1>6 DEF F!EnqLast
  <2>2. CASE seg[p] # tail
    <3>1. pc' = [pc EXCEPT ![p] = "enqTail"] /\ seg' = [seg EXCEPT ![p] = NULL]
      BY <1>6, <2>2, ArrayCalls DEF F!EnqLast, F!Round
    <3>2. QED
      BY <1>0, <1>1, <1>2, <2>1, <3>1, ArrayGoesOn DEF ArrayInv
  <2>3. CASE seg[p] = tail
    <3>1. pc' = [pc EXCEPT ![p] = "enqNext"] /\ UNCHANGED seg
      BY <1>6, <2>3, ArrayCalls DEF F!EnqLast
    <3>2. pc[p] \in ArrayEnq /\ "enqNext" \in ArrayEnq
      BY <2>1 DEF ArrayEnq
    <3>3. QED
      BY <1>0, <1>1, <1>2, <2>1, <3>1, <3>2, ArrayGoesOn DEF ArrayInv
  <2>4. QED
    BY <2>2, <2>3
<1>7. CASE F!EnqNext(p)
  <2>1. PICK l \in {"enqLink", "enqHelp"} :
          /\ pc' = [pc EXCEPT ![p] = l] /\ pc[p] = "enqNext" /\ nxt' = [nxt EXCEPT ![p] = next[seg[p]]]
          /\ l = "enqHelp" => next[seg[p]] # NULL
          /\ UNCHANGED <<hp, retired, heap, scan, next, head, tail, seg>>
    BY <1>7, ArrayCalls DEF F!EnqNext
  <2>2. pc[p] \in ArrayEnq /\ l \in ArrayEnq /\ pc[p] \in ArrayIn
    BY <2>1 DEF ArrayEnq, ArrayIn
  <2>3. nxt'[p] = next[seg[p]]
    BY <1>0, <2>1 DEF Aged, ArrayTypeOK
  <2>4. l = "enqHelp" /\ seg[p] = tail => nxt'[p] \in heap /\ rank[tail] < rank[nxt'[p]]
    <3>1. rank[tail] <= rank[tail]
      BY <1>0, <1>1, ArrayFacts
    <3>2. QED
      BY <1>0, <1>1, <2>1, <2>3, <3>1 DEF Aged, AgesOK
  <2>5. QED
    BY <1>0, <1>1, <1>2, <2>1, <2>2, <2>4, ArrayGoesOn DEF ArrayInv
<1>8. CASE F!EnqLink(p)
  <2>1. pc[p] = "enqLink" /\ UNCHANGED <<hp, retired, scan, head, tail>>
    BY <1>8 DEF F!EnqLink
  <2>2. CASE next[seg[p]] = expect[p]
    <3>1. PICK f \in Nodes \ heap :
            /\ heap' = heap \cup {f} /\ next' = [next EXCEPT ![seg[p]] = f, ![f] = NULL]
            /\ nxt' = [nxt EXCEPT ![p] = f] /\ F!Goto(p, "enqSwing") /\ UNCHANGED seg
      BY <1>8, <2>2 DEF F!EnqLink
    <3>2. pc' = [pc EXCEPT ![p] = "enqSwing"]
      BY <3>1, ArrayCalls
    <3>3. QED
      BY <1>0, <2>1, <3>1, <3>2, ArrayLinks
  <2>3. CASE next[seg[p]] # expect[p]
    <3>1. /\ pc' = [pc EXCEPT ![p] = "enqTail"] /\ seg' = [seg EXCEPT ![p] = NULL]
          /\ UNCHANGED <<heap, next, nxt>>
      BY <1>8, <2>3, ArrayCalls DEF F!EnqLink, F!Round
    <3>2. QED
      BY <1>0, <1>1, <1>2, <2>1, <3>1, ArrayGoesOn DEF ArrayInv
  <2>4. QED
    BY <2>2, <2>3
<1>9. CASE F!EnqHelp(p)
  <2>1. /\ pc[p] = "enqHelp" /\ pc' = [pc EXCEPT ![p] = "enqTail"] /\ seg' = [seg EXCEPT ![p] = NULL]
        /\ UNCHANGED hp /\ F!SwingTail(p)
    BY <1>9, ArrayCalls DEF F!EnqHelp, F!Round
  <2>2. /\ tail' \in heap /\ (tail' = tail \/ rank[tail] < rank[tail'])
        /\ UNCHANGED <<retired, heap, scan, next, head, nxt>>
    BY <1>0, <2>1, ArraySwing
  <2>3. QED
    BY <1>0, <1>1, <1>2, <2>1, <2>2, ArrayGoesOn DEF ArrayInv
<1>10. CASE F!EnqSwing(p)
  <2>1. /\ pc[p] = "enqSwing" /\ pc' = [pc EXCEPT ![p] = "idle"] /\ F!Clear(p) /\ UNCHANGED seg
        /\ F!SwingTail(p)
    BY <1>10, ArrayCalls DEF F!EnqSwing
  <2>2. /\ tail' \in heap /\ (tail' = tail \/ rank[tail] < rank[tail'])
        /\ UNCHANGED <<retired, heap, scan, next, head, nxt>>
    BY <1>0, <2>1, ArraySwing
  <2>3. QED
    BY <1>0, <1>1, <1>2, <2>1, <2>2, ArrayGoesOn DEF ArrayInv
<1>11. CASE F!EnqItem(p)
  <2>1. pc[p] = "enqItem" /\ UNCHANGED <<retired, heap, scan, next, head, tail, nxt>>
    BY <1>11 DEF F!EnqItem
  <2>2. \/ pc' = [pc EXCEPT ![p] = "idle"] /\ F!Clear(p) /\ UNCHANGED seg
        \/ pc' = [pc EXCEPT ![p] = "enqTail"] /\ seg' = [seg EXCEPT ![p] = NULL] /\ UNCHANGED hp
    BY <1>11, ArrayCalls DEF F!EnqItem, F!Round
  <2>3. QED
    BY <1>0, <1>1, <1>2, <2>1, <2>2, ArrayGoesOn DEF ArrayInv
<1>12. QED
  BY <1>4, <1>5, <1>6, <1>7, <1>8, <1>9, <1>10, <1>11 DEF F!EnqStep

LEMMA ArrayDequeues == ASSUME ArrayInv, NEW p \in Procs, F!DeqStep(p) PROVE ArrayInv'
<1> USE DEF F!pool, F!segments, F!locals
<1>0. PICK rank \in [Nodes -> Nat] : Aged(rank)
  BY DEF ArrayInv
<1>1. /\ {head, tail} \subseteq heap /\ nxt = [nxt EXCEPT ![p] = nxt[p]] /\ nxt[p] \in Nodes \cup {NULL}
      /\ pc[p] \in ArrayIn => seg[p] \in heap /\ next[seg[p]] \in Nodes \cup {NULL}
      /\ HoldsOK(rank, p)
  <2>1. nxt = [nxt EXCEPT ![p] = nxt[p]] /\ nxt[p] \in Nodes \cup {NULL} /\ HoldsOK(rank, p)
    BY <1>0 DEF Aged, ArrayTypeOK
  <2>2. QED
    BY <1>0, <2>1, ArrayFacts DEF HoldsOK
<1>2. pc[p] # "deqScan" => ~Scanning(p)
  BY <1>0 DEF Aged, SoughtOK
<1>3. CASE F!DeqHead(p)
  BY <1>0, <1>3, ArrayProtects DEF F!DeqHead, ArrayInv
<1>4. ASSUME pc[p] \in ArrayDeq \ {"deqSwing"}, NEW l \in ArrayDeq \ {"deqSwing"}, pc' = [pc EXCEPT ![p] = l],
             UNCHANGED <<hp, retired, heap, scan, next, head, tail, seg, nxt>>
      PROVE  ArrayInv'
  <2>1. l \notin {"enqHelp", "enqSwing", "deqSwing"} /\ pc[p] # "deqScan"
    BY <1>4 DEF ArrayDeq
  <2>2. QED
    BY <1>0, <1>1, <1>2, <1>4, <2>1, ArrayGoesOn DEF ArrayInv
<1>5. CASE F!DeqDeqIdx(p)
  <2>1. pc[p] = "deqDeqIdx" /\ pc' = [pc EXCEPT ![p] = "deqEnqIdx"]
        /\ UNCHANGED <<hp, retired, heap, scan, next, head, tail, seg, nxt>>
    BY <1>5, ArrayCalls DEF F!DeqDeqIdx
  <2>2. {"deqDeqIdx", "deqEnqIdx"} \subseteq ArrayDeq \ {"deqSwing"}
    BY DEF ArrayDeq
  <2>3. QED
    BY <1>4, <2>1, <2>2
<1>6. CASE F!DeqEnqIdx(p)
  <2>1. PICK l \in {"deqLast", "deqIdx"} :
          /\ pc[p] = "deqEnqIdx" /\ pc' = [pc EXCEPT ![p] = l]
          /\ UNCHANGED <<hp, retired, heap, scan, next, head, tail, seg, nxt>>
    BY <1>6, ArrayCalls DEF F!DeqEnqIdx
  <2>2. {"deqEnqIdx", "deqLast", "deqIdx"} \subseteq ArrayDeq \ {"deqSwing"}
    BY DEF ArrayDeq
  <2>3. QED
    BY <1>4, <2>1, <2>2
<1>7. CASE F!DeqLast(p)
  <2>1. pc[p] = "deqLast" /\ UNCHANGED <<retired, heap, scan, next, head, tail, seg, nxt>>
    BY <1>7 DEF F!DeqLast
  <2>2. \/ pc' = [pc EXCEPT ![p] = "idle"] /\ F!Clear(p)
        \/ pc' = [pc EXCEPT ![p] = "deqIdx"] /\ UNCHANGED hp
    BY <1>7, ArrayCalls DEF F!DeqLast
  <2>3. {"deqLast", "deqIdx"} \subseteq ArrayDeq \ {"deqSwing"}
    BY DEF ArrayDeq
  <2>4. CASE pc' = [pc EXCEPT ![p] = "idle"] /\ F!Clear(p)
    BY <1>0, <1>1, <1>2, <2>1, <2>4, ArrayGoesOn DEF ArrayInv
  <2>5. QED
    BY <1>4, <2>1, <2>2, <2>3, <2>4
<1>8. CASE F!DeqIdx(p)
  <2>1. PICK l \in {"deqNext", "deqItem"} :
          /\ pc[p] = "deqIdx" /\ pc' = [pc EXCEPT ![p] = l]
          /\ UNCHANGED <<hp, retired, heap, scan, next, head, tail, seg, nxt>>
    BY <1>8, ArrayCalls DEF F!DeqIdx
  <2>2. {"deqIdx", "deqNext", "deqItem"} \subseteq ArrayDeq \ {"deqSwing"}
    BY DEF ArrayDeq
  <2>3. QED
    BY <1>4, <2>1, <2>2
<1>9. CASE F!DeqNext(p)
  <2>1. /\ pc[p] = "deqNext" /\ nxt' = [nxt EXCEPT ![p] = next[seg[p]]]
        /\ UNCHANGED <<retired, heap, scan, next, head, tail, seg>>
    BY <1>9 DEF F!DeqNext
  <2>2. pc[p] \in ArrayDeq /\ "deqSwing" \in ArrayDeq /\ pc[p] \in ArrayIn
    BY <2>1 DEF ArrayDeq, ArrayIn
  <2>3. nxt'[p] = next[seg[p]]
    BY <1>0, <2>1 DEF Aged, ArrayTypeOK
  <2>4. CASE next[seg[p]] = NULL
    <3>1. pc' = [pc EXCEPT ![p] = "idle"] /\ F!Clear(p)
      BY <1>9, <2>4, ArrayCalls DEF F!DeqNext
    <3>2. QED
      BY <1>0, <1>1, <1>2, <2>1, <2>2, <3>1, ArrayGoesOn DEF ArrayInv
  <2>5. CASE next[seg[p]] # NULL
    <3>1. pc' = [pc EXCEPT ![p] = "deqSwing"] /\ UNCHANGED hp
      BY <1>9, <2>5, ArrayCalls DEF F!DeqNext
    <3>2. seg[p] = head => nxt'[p] \in heap /\ rank[head] < rank[nxt'[p]] /\ next[head] # NULL
      <4>1. rank[head] <= rank[head]
        BY <1>0, <1>1, ArrayFacts
      <4>2. QED
        BY <1>0, <1>1, <2>3, <2>5, <4>1 DEF Aged, AgesOK
    <3>3. QED
      BY <1>0, <1>1, <1>2, <2>1, <2>2, <3>1, <3>2, ArrayGoesOn DEF ArrayInv
  <2>6. QED
    BY <2>4, <2>5
<1>10. CASE F!DeqSwing(p)
  <2>1. pc[p] = "deqSwing" /\ UNCHANGED <<hp, next, tail, nxt>>
    BY <1>10 DEF F!DeqSwing
  <2>2. CASE head = seg[p]
    <3>1. /\ head' = nxt[p] /\ RetireCall(p, seg[p]) /\ pc' = [pc EXCEPT ![p] = "deqScan"] /\ UNCHANGED seg
      BY <1>10, <2>2, ArrayCalls, ArrayPool DEF F!DeqSwing
    <3>2. QED
      BY <1>0, <2>1, <2>2, <3>1, ArrayRetires DEF ArrayInv
  <2>3. CASE head # seg[p]
    <3>1. /\ pc' = [pc EXCEPT ![p] = "deqHead"] /\ seg' = [seg EXCEPT ![p] = NULL]
          /\ UNCHANGED <<head, retired, heap, scan>>
      BY <1>10, <2>3, ArrayCalls DEF F!DeqSwing, F!Round
    <3>2. QED
      BY <1>0, <1>1, <1>2, <2>1, <3>1, ArrayGoesOn DEF ArrayInv
  <2>4. QED
    BY <2>2, <2>3
<1>11. CASE F!DeqScan(p)
  <2>1. UNCHANGED <<next, head, tail, nxt>>
    BY <1>11 DEF F!DeqScan
  <2>2. CASE Scanning(p)
    <3>1. (ScanLoad(p) \/ ScanDelete(p)) /\ UNCHANGED <<pc, seg>>
      BY <1>11, <2>2, ArrayPool DEF F!DeqScan, F!calls
    <3>2. QED
      BY <1>0, <2>1, <3>1, ArrayScanLoads, ArrayScanDeletes DEF ArrayInv
  <2>3. CASE ~Scanning(p)
    <3>1. /\ pc' = [pc EXCEPT ![p] = "deqHead"] /\ seg' = [seg EXCEPT ![p] = NULL]
          /\ UNCHANGED <<hp, retired, heap, scan>>
      BY <1>11, <2>3, ArrayCalls, ArrayPool DEF F!DeqScan, F!Round
    <3>2. QED
      BY <1>0, <1>1, <2>1, <2>3, <3>1, ArrayGoesOn DEF ArrayInv
  <2>4. QED
    BY <2>2, <2>3
<1>12. CASE F!DeqItem(p)
  <2>1. pc[p] = "deqItem" /\ UNCHANGED <<retired, heap, scan, next, head, tail, nxt>>
    BY <1>12 DEF F!DeqItem
  <2>2. \/ pc' = [pc EXCEPT ![p] = "idle"] /\ F!Clear(p) /\ UNCHANGED seg
        \/ pc' = [pc EXCEPT ![p] = "deqHead"] /\ seg' = [seg EXCEPT ![p] = NULL] /\ UNCHANGED hp
    BY <1>12, ArrayCalls DEF F!DeqItem, F!Round
  <2>3. QED
    BY <1>0, <1>1, <1>2, <2>1, <2>2, ArrayGoesOn DEF ArrayInv
<1>13. QED
  BY <1>3, <1>5, <1>6, <1>7, <1>8, <1>9, <1>10, <1>11, <1>12 DEF F!DeqStep

LEMMA NextArrayInv == ArrayInv /\ [F!Next]_(F!vars) => ArrayInv'
<1>1. ASSUME ArrayInv, NEW p \in Procs, F!Dequeue(p) \/ \E v \in Items : F!Enqueue(p, v) PROVE ArrayInv'
  <2>1. PICK rank \in [Nodes -> Nat] : Aged(rank)
    BY <1>1 DEF ArrayInv
  <2>2. PICK l \in {"enqTail", "deqHead"} :
          /\ pc[p] = "idle" /\ pc' = [pc EXCEPT ![p] = l] /\ seg' = [seg EXCEPT ![p] = NULL]
          /\ UNCHANGED <<hp, retired, heap, scan, next, head, tail, nxt>>
    BY <1>1 DEF F!Enqueue, F!Dequeue, F!CallEnqueue, F!CallDequeue, F!Goto, F!pool, F!segments
  <2>3. tail \in heap /\ nxt = [nxt EXCEPT ![p] = nxt[p]] /\ nxt[p] \in Nodes \cup {NULL} /\ ~Scanning(p)
    BY <2>1, <2>2 DEF Aged, ArrayTypeOK, SoughtOK
  <2>4. QED
    BY <2>1, <2>2, <2>3, ArrayGoesOn DEF ArrayInv
<1>2. ASSUME ArrayInv, UNCHANGED F!vars PROVE ArrayInv'
  <2>1. PICK rank \in [Nodes -> Nat] : Aged(rank)
    BY <1>2 DEF ArrayInv
  <2>2. UNCHANGED <<hp, retired, heap, scan, next, head, tail, seg, nxt, pc>>
    BY <1>2 DEF F!vars, F!pool, F!segments, F!locals, F!calls
  <2>3. ArrayTypeOK' /\ AgesOK(rank)'
    BY <2>1, <2>2 DEF Aged, ArrayTypeOK, AgesOK
  <2>4. \A p \in Procs : HoldsOK(rank, p)' /\ BuriedOK(rank, p)' /\ SoughtOK(p)'
    BY <2>1, <2>2 DEF Aged, HoldsOK, BuriedOK, SoughtOK, Scanning
  <2>5. QED
    BY <2>3, <2>4 DEF Aged, ArrayInv
<1>3. QED
  BY <1>1, <1>2, ArrayEnqueues, ArrayDequeues DEF F!Next

LEMMA InitArrayInv == F!Init => ArrayInv
<1>1. SUFFICES ASSUME F!Init PROVE ArrayInv
  OBVIOUS
<1>2. PICK s \in Nodes : heap = {s} /\ head = s /\ tail = s
  BY <1>1 DEF F!Init
<1>3. /\ hp = [p \in Procs |-> [k \in 0 .. 1 - 1 |-> NULL]] /\ retired = [p \in Procs |-> <<>>]
      /\ scan = [p \in Procs |-> Idle] /\ pc = [p \in Procs |-> "idle"] /\ next = [n \in Nodes |-> NULL]
      /\ seg = [p \in Procs |-> NULL] /\ nxt = [p \in Procs |-> NULL]
  BY <1>1 DEF F!Init, F!PoolInit, F!CallsInit, F!Idle, Idle
<1>4. PICK rank \in [Nodes -> Nat] : rank = [n \in Nodes |-> 0]
  OBVIOUS
<1>5. ArrayTypeOK
  <2>1. 0 .. 1 - 1 = {0}
    OBVIOUS
  <2>2. hp = [p \in Procs |-> [k \in {0} |-> NULL]]
    BY <1>3, <2>1
  <2>3. Idle \in [node : Nat, at : Nat]
    BY DEF Idle
  <2>4. <<>> \in Seq(Nodes)
    OBVIOUS
  <2>5. QED
    BY <1>2, <1>3, <2>2, <2>3, <2>4 DEF ArrayTypeOK, ArrayPcs
<1>6. AgesOK(rank)
  BY <1>2, <1>3, <1>4 DEF AgesOK
<1>7. ASSUME NEW p \in Procs PROVE HoldsOK(rank, p) /\ BuriedOK(rank, p) /\ SoughtOK(p)
  <2>1. pc[p] = "idle" /\ ~Scanning(p) /\ \A q \in Procs : 1 .. Len(retired[q]) = {}
    <3>1. Len(<<>>) = 0 /\ 1 .. 0 = {}
      OBVIOUS
    <3>2. \A q \in Procs : 1 .. Len(retired[q]) = {}
      BY <1>3, <3>1
    <3>3. QED
      BY <1>3, <3>2 DEF Scanning
  <2>2. HoldsOK(rank, p)
    BY <2>1 DEF HoldsOK, ArrayIn, ArrayEnq, ArrayDeq
  <2>3. QED
    BY <2>1, <2>2 DEF BuriedOK, SoughtOK
<1>8. QED
  BY <1>4, <1>5, <1>6, <1>7 DEF Aged, ArrayInv

LEMMA SegmentsSafe == ArrayInv => F!NoUseAfterFree
<1>1. ASSUME ArrayInv, NEW p \in Procs PROVE F!Accessed(p) \subseteq heap
  <2>1. PICK rank \in [Nodes -> Nat] : Aged(rank)
    BY <1>1 DEF ArrayInv
  <2>2. pc[p] \in ArrayIn => seg[p] \in heap
    BY <2>1 DEF Aged, HoldsOK
  <2>3. QED
    BY <2>2 DEF F!Accessed, ArrayIn, ArrayEnq, ArrayDeq
<1>2. QED
  BY <1>1 DEF F!NoUseAfterFree

-----------------------------------------------------------------------------
(***************************************************************************)
(* The nodes of MSQueue, as long as no CAS of next has replaced a link.    *)
(* Their numbers are those of a list that ends where next is null; what is *)
(* before head has one owner, which retires it; and no thread relies on a  *)
(* hazard pointer that a scan has passed without finding its node there.   *)
(***************************************************************************)
NodeEnqPcs ==
  {"enqNew", "enqTail", "enqHp", "enqCheck", "enqNext", "enqCas", "enqHelp", "enqSwing", "enqClear"}
NodeDeqPcs ==
  {"deqHead", "deqHeadHp", "deqTail", "deqNext", "deqNextHp", "deqCas", "deqItem", "deqClear",
   "deqRetire", "deqScan", "deqEmpty"}

\* The nodes that are not linked yet, and those that are or were.
FreshPcs == {"enqTail", "enqHp", "enqCheck", "enqNext", "enqCas", "enqHelp"}
Fresh == {new[p] : p \in {q \in Procs : pc[q] \in FreshPcs}}
Listed == heap \ Fresh

\* A thread that has found its node where it read it, published; one that has
\* taken its node off the list.
SafePcs ==
  {"enqNext", "enqCas", "enqHelp", "enqSwing", "deqTail", "deqNext", "deqNextHp", "deqCas", "deqItem"}
HeldPcs == {"deqItem", "deqClear", "deqRetire"}

NodeTypeOK ==
  /\ pc \in [Procs -> {"idle"} \cup NodeEnqPcs \cup NodeDeqPcs]
  /\ hp \in [Procs -> [0 .. HPs - 1 -> Nodes \cup {NULL}]]
  /\ retired \in [Procs -> Seq(Nodes)]
  /\ scan \in [Procs -> [node : Nat, at : Nat]]
  /\ heap \subseteq Nodes
  /\ next \in [Nodes -> Nodes \cup {NULL}]
  /\ {node, lnext, new, seen} \subseteq [Procs -> Nodes \cup {NULL}]

\* The numbers of the nodes in the order in which they were linked.  From head on,
\* next is the node with the next number; the last node only has none.
RankOK(rank) ==
  /\ {head, tail} \subseteq Listed /\ rank[head] <= rank[tail]
  /\ \A m, n \in Listed : rank[m] = rank[n] => m = n
  /\ \A n \in Listed : next[n] = NULL => \A m \in Listed : rank[m] <= rank[n]
  /\ \A n \in Listed : rank[head] <= rank[n] /\ next[n] # NULL =>
       next[n] \in Listed /\ rank[next[n]] = rank[n] + 1

FreshOK ==
  \A p \in Procs : pc[p] \in FreshPcs =>
    /\ new[p] \in heap /\ next[new[p]] = NULL
    /\ \A q \in Procs \ {p} : pc[q] \in FreshPcs => new[q] # new[p]

\* What thread p has read, and what it publishes of that.
SeenOK(rank, p) ==
  /\ pc[p] \in SafePcs => hp[p][0] = node[p] /\ node[p] \in Listed
  /\ pc[p] = "enqCheck" => hp[p][0] = node[p]
  /\ pc[p] = "deqHead" /\ seen[p] # NULL => hp[p][0] = seen[p]
  /\ pc[p] = "deqNext" /\ seen[p] # NULL => hp[p][1] = seen[p]
  /\ pc[p] = "enqHelp" => lnext[p] = next[node[p]] /\ lnext[p] # NULL
  /\ pc[p] = "enqSwing" => new[p] = next[node[p]] /\ new[p] # NULL
  /\ pc[p] = "deqTail" => rank[node[p]] <= rank[head]
  /\ pc[p] \in {"deqNext", "deqNextHp", "deqCas"} => rank[node[p]] < rank[tail]
  /\ pc[p] = "deqCas" => lnext[p] = next[node[p]]
  /\ pc[p] \in {"deqCas", "deqItem"} => hp[p][1] = lnext[p]
  /\ pc[p] = "deqItem" => lnext[p] \in Listed

\* A node off the list has one owner, which is to retire it or has it in its list.
OwnedOK(rank, p) ==
  /\ pc[p] \in HeldPcs =>
       /\ node[p] \in Listed /\ rank[node[p]] < rank[head]
       /\ \A q \in Procs \ {p} : pc[q] \in HeldPcs => node[q] # node[p]
       /\ \A q \in Procs : \A i \in 1 .. Len(retired[q]) : retired[q][i] # node[p]
  /\ \A i \in 1 .. Len(retired[p]) :
       /\ retired[p][i] \in Listed /\ rank[retired[p][i]] < rank[head]
       /\ \A j \in 1 .. Len(retired[p]) : retired[p][j] = retired[p][i] => i = j
       /\ \A q \in Procs \ {p} : \A j \in 1 .. Len(retired[q]) : retired[q][j] # retired[p][i]

\* Thread q relies on its hazard pointer k for node b.
Relies(q, k, b) ==
  /\ q \in Procs
  /\ \/ k = 0 /\ pc[q] \in SafePcs /\ node[q] = b
     \/ k = 1 /\ pc[q] = "deqItem" /\ lnext[q] = b

\* No thread relies on a hazard pointer that the scan has passed.
PassedOK(p) ==
  M!Scanning(p) =>
    /\ pc[p] = "deqScan"
    /\ scan[p].node \in 1 .. Len(retired[p]) /\ scan[p].at \in 0 .. M!Loads
    /\ \A n \in 0 .. scan[p].at - 1 :
         ~Relies(n \div HPs, HPs - 1 - (n % HPs), retired[p][scan[p].node])

Ranked(rank) ==
  /\ NodeTypeOK /\ RankOK(rank) /\ FreshOK
  /\ \A p \in Procs : SeenOK(rank, p) /\ OwnedOK(rank, p) /\ PassedOK(p)

-----------------------------------------------------------------------------
LEMMA Numbers ==
  /\ HPs \in Nat /\ 2 <= HPs /\ NULL \notin Nodes
  /\ {0, 1} \subseteq 0 .. HPs - 1 /\ 0 # 1
<1>1. HPs \in Nat /\ 2 <= HPs /\ NULL \notin Nodes
  BY ListAssumption DEF M!ThresholdAssumption, M!HazardsAssumption, M!NullAssumption
<1>2. QED
  BY <1>1

LEMMA LoadsType ==
  /\ Cardinality(Procs) \in Nat /\ Procs = 0 .. Cardinality(Procs) - 1
  /\ M!Loads = Cardinality(Procs) * HPs /\ M!Loads \in Nat
<1>1. Cardinality(Procs) \in Nat /\ Procs = 0 .. Cardinality(Procs) - 1
  BY PoolAssumption, FS_CardinalityType DEF ThreadsAssumption
<1>2. M!Loads = Cardinality(Procs) * HPs
  BY DEF M!Loads, M!Cardinality, Cardinality
<1>3. QED
  BY <1>1, <1>2, Numbers

\* Every hazard pointer has its place in the scan.
LEMMA SlotNumbers ==
  ASSUME NEW q \in Procs, NEW k \in 0 .. HPs - 1
  PROVE  \E n \in 0 .. M!Loads - 1 : n \div HPs = q /\ HPs - 1 - (n % HPs) = k
<1> DEFINE n == q * HPs + (HPs - 1 - k)
<1>1. Cardinality(Procs) \in Nat /\ q \in Nat /\ q + 1 <= Cardinality(Procs)
  BY LoadsType
<1>2. PICK c \in Nat : c = Cardinality(Procs) /\ q + 1 <= c
  BY <1>1
<1>3. HPs \in Nat \ {0} /\ k \in Nat /\ HPs - 1 - k \in 0 .. HPs - 1
  BY Numbers
<1>4. (q + 1) * HPs <= c * HPs
  BY <1>1, <1>2, <1>3
<1>5. (q + 1) * HPs = q * HPs + HPs /\ q * HPs \in Nat /\ c * HPs \in Nat
  BY <1>1, <1>2, <1>3
<1>6. n \in 0 .. M!Loads - 1
  <2>1. M!Loads = c * HPs
    BY <1>2, LoadsType
  <2>2. QED
    BY <1>1, <1>2, <1>3, <1>4, <1>5, <2>1
<1>7. \A s, a \in Nat : s \in 0 .. HPs - 1 => (a * HPs + s) \div HPs = a /\ (a * HPs + s) % HPs = s
  BY <1>3
<1>8. n \div HPs = q /\ n % HPs = HPs - 1 - k
  BY <1>1, <1>3, <1>7
<1>9. QED
  BY <1>3, <1>6, <1>8

\* Every thread other than p is where it was.
OthersRest(p) ==
  \A q \in Procs \ {p} :
    /\ pc'[q] = pc[q] /\ hp'[q] = hp[q]
    /\ node'[q] = node[q] /\ lnext'[q] = lnext[q] /\ new'[q] = new[q] /\ seen'[q] = seen[q]

\* Where the nodes of a state are, and what a list has in common with head and tail.
LEMMA ListNodes ==
  ASSUME NEW rank, rank \in [Nodes -> Nat], Ranked(rank)
  PROVE  /\ Listed \subseteq Nodes /\ NULL \notin Listed /\ \A n \in Listed : rank[n] \in Nat
         /\ {head, tail} \subseteq Listed /\ rank[head] <= rank[tail]
         /\ \A p \in Procs : Len(retired[p]) \in Nat
<1>1. Listed \subseteq Nodes /\ {head, tail} \subseteq Listed /\ rank[head] <= rank[tail]
  BY DEF Ranked, NodeTypeOK, RankOK, Listed
<1>2. \A p \in Procs : Len(retired[p]) \in Nat
  <2>1. ASSUME NEW p \in Procs PROVE Len(retired[p]) \in Nat
    <3>1. retired[p] \in Seq(Nodes)
      BY DEF Ranked, NodeTypeOK
    <3>2. QED
      BY <3>1
  <2>2. QED
    BY <2>1
<1>3. QED
  BY <1>1, <1>2, Numbers

\* A node that has no next one is the last.
LEMMA HasNext ==
  ASSUME NEW rank, rank \in [Nodes -> Nat], Ranked(rank), NEW n \in Listed, NEW m \in Listed, rank[n] < rank[m]
  PROVE  next[n] # NULL
<1>1. rank[n] \in Nat /\ rank[m] \in Nat
  BY ListNodes
<1>2. QED
  BY <1>1 DEF Ranked, RankOK

\* The node that a scan is looking for is off the list.
LEMMA SoughtNode ==
  ASSUME NEW rank, rank \in [Nodes -> Nat], Ranked(rank), NEW p \in Procs, M!Scanning(p)
  PROVE  /\ pc[p] = "deqScan" /\ scan[p].node \in 1 .. Len(retired[p])
         /\ retired[p][scan[p].node] \in Listed \ {head, tail}
         /\ rank[retired[p][scan[p].node]] < rank[head]
<1>1. pc[p] = "deqScan" /\ scan[p].node \in 1 .. Len(retired[p])
  BY DEF Ranked, PassedOK
<1>2. PICK b : b = retired[p][scan[p].node] /\ b \in Listed /\ rank[b] < rank[head]
  BY <1>1 DEF Ranked, OwnedOK
<1>3. rank[b] \in Nat /\ rank[head] \in Nat /\ rank[tail] \in Nat /\ rank[head] <= rank[tail]
  BY <1>2, ListNodes
<1>4. b # head /\ b # tail
  BY <1>2, <1>3
<1>5. QED
  BY <1>1, <1>2, <1>4

\* A step that changes nothing of the list but tail, and nothing else but the thread's own.
LEMMA LocalStep ==
  ASSUME NEW rank, rank \in [Nodes -> Nat], Ranked(rank), NEW p \in Procs, OthersRest(p), NodeTypeOK',
         UNCHANGED <<heap, retired, scan, head, next>>, tail' \in Listed, rank[tail] <= rank[tail'],
         pc'[p] \in FreshPcs <=> pc[p] \in FreshPcs, pc'[p] \in FreshPcs => new'[p] = new[p],
         ~M!Scanning(p), pc'[p] \in HeldPcs => pc[p] \in HeldPcs /\ node'[p] = node[p],
         \A k, b : Relies(p, k, b)' => Relies(p, k, b) \/ b \in {head, tail},
         SeenOK(rank, p)'
  PROVE  Ranked(rank)'
<1>1. Fresh' = Fresh /\ Listed' = Listed
  BY DEF Fresh, Listed, OthersRest
<1>2. {rank[head], rank[tail], rank[tail']} \subseteq Nat /\ rank[head] <= rank[tail]
  BY ListNodes
<1>3. RankOK(rank)'
  BY <1>1, <1>2 DEF Ranked, RankOK
<1>4. FreshOK'
  BY DEF Ranked, FreshOK, OthersRest
<1>5. ASSUME NEW q \in Procs \ {p} PROVE SeenOK(rank, q)'
  <2>1. SeenOK(rank, q)
    BY DEF Ranked
  <2>2. pc[q] \in {"deqNext", "deqNextHp", "deqCas"} => rank[node[q]] \in Nat
    BY <2>1, ListNodes DEF SeenOK, SafePcs
  <2>3. pc'[q] = pc[q] /\ hp'[q] = hp[q] /\ node'[q] = node[q] /\ lnext'[q] = lnext[q] /\ new'[q] = new[q]
        /\ seen'[q] = seen[q]
    BY DEF OthersRest
  <2>4. QED
    BY <1>1, <1>2, <2>1, <2>2, <2>3 DEF SeenOK
<1>6. ASSUME NEW q \in Procs PROVE OwnedOK(rank, q)'
  <2>1. \A t \in Procs : pc'[t] \in HeldPcs => pc[t] \in HeldPcs /\ node'[t] = node[t]
    BY DEF OthersRest
  <2>2. OwnedOK(rank, q)
    BY DEF Ranked
  <2>3. QED
    BY <1>1, <2>1, <2>2 DEF OwnedOK
<1>7. ASSUME NEW q \in Procs PROVE PassedOK(q)'
  <2>1. SUFFICES ASSUME (M!Scanning(q))' PROVE PassedOK(q)'
    BY DEF PassedOK
  <2>2. M!Scanning(q) /\ q # p
    BY <2>1 DEF M!Scanning
  <2>3. PICK b : b = retired[q][scan[q].node] /\ b \notin {head, tail}
    BY <2>2, SoughtNode
  <2>4. \A t, k : Relies(t, k, b)' => Relies(t, k, b)
    BY <2>3 DEF Relies, OthersRest
  <2>5. PassedOK(q) /\ pc'[q] = pc[q]
    BY <2>2 DEF Ranked, OthersRest
  <2>6. QED
    BY <2>2, <2>3, <2>4, <2>5 DEF PassedOK
<1>8. QED
  BY <1>3, <1>4, <1>5, <1>6, <1>7 DEF Ranked

\* EnqNew: the node is of no list, and only this thread has it.
LEMMA NewNode ==
  ASSUME NEW rank, rank \in [Nodes -> Nat], Ranked(rank), NEW p \in Procs, M!EnqNew(p)
  PROVE  Ranked(rank)'
<1>1. PICK f \in Nodes \ heap :
        heap' = heap \cup {f} /\ next' = [next EXCEPT ![f] = NULL] /\ new' = [new EXCEPT ![p] = f]
  BY DEF M!EnqNew
<1>2. pc[p] = "enqNew" /\ pc' = [pc EXCEPT ![p] = "enqTail"]
      /\ UNCHANGED <<hp, retired, scan, head, tail, node, lnext, seen>>
  BY DEF M!EnqNew, M!Goto
<1>3. /\ pc'[p] = "enqTail" /\ new'[p] = f /\ next'[f] = NULL
      /\ \A q \in Procs \ {p} : pc'[q] = pc[q] /\ new'[q] = new[q]
      /\ \A m \in Nodes \ {f} : next'[m] = next[m]
  BY <1>1, <1>2 DEF Ranked, NodeTypeOK
<1>4. NodeTypeOK'
  BY <1>1, <1>2 DEF Ranked, NodeTypeOK, NodeEnqPcs
<1>5. Listed' = Listed /\ \A m \in Listed : m \in Nodes \ {f}
  <2>1. Fresh' = Fresh \cup {f}
    BY <1>2, <1>3 DEF Fresh, FreshPcs
  <2>2. \A m \in Listed : m \in Nodes \ {f}
    BY ListNodes DEF Listed
  <2>3. QED
    BY <1>1, <2>1, <2>2 DEF Listed
<1>6. RankOK(rank)'
  BY <1>2, <1>3, <1>5 DEF Ranked, RankOK
<1>7. FreshOK'
  <2>1. ASSUME NEW q \in Procs \ {p}, pc[q] \in FreshPcs PROVE new[q] \in Nodes \ {f} /\ new[q] \in heap
    BY <2>1, <1>1 DEF Ranked, FreshOK, NodeTypeOK
  <2>2. QED
    BY <1>1, <1>2, <1>3, <2>1 DEF Ranked, FreshOK
<1>8. ASSUME NEW q \in Procs PROVE SeenOK(rank, q)' /\ OwnedOK(rank, q)' /\ PassedOK(q)'
  <2>1. SeenOK(rank, q) /\ OwnedOK(rank, q) /\ PassedOK(q)
    BY DEF Ranked
  <2>2. SeenOK(rank, q)'
    <3>1. CASE q = p
      BY <1>3, <3>1 DEF SeenOK, SafePcs
    <3>2. CASE q # p
      <4>1. pc[q] \in SafePcs => next'[node[q]] = next[node[q]]
        BY <1>3, <1>5, <2>1 DEF SeenOK
      <4>2. QED
        BY <1>2, <1>3, <1>5, <2>1, <3>2, <4>1 DEF SeenOK, SafePcs
    <3>3. QED
      BY <3>1, <3>2
  <2>3. OwnedOK(rank, q)'
    <3>1. \A t \in Procs : pc'[t] \in HeldPcs => pc[t] \in HeldPcs
      BY <1>3 DEF HeldPcs
    <3>2. QED
      BY <1>2, <1>5, <2>1, <3>1 DEF OwnedOK
  <2>4. PassedOK(q)'
    <3>1. \A t, k, b : Relies(t, k, b)' => Relies(t, k, b)
      BY <1>2, <1>3 DEF Relies, SafePcs
    <3>2. (M!Scanning(q))' => M!Scanning(q) /\ pc[q] = "deqScan" /\ pc'[q] = pc[q]
      BY <1>2, <1>3, <2>1 DEF M!Scanning, PassedOK
    <3>3. QED
      BY <1>2, <2>1, <3>1, <3>2 DEF PassedOK
  <2>5. QED
    BY <2>2, <2>3, <2>4
<1>9. QED
  BY <1>4, <1>6, <1>7, <1>8 DEF Ranked

\* The nodes of the list keep their numbers.
Agrees(number, rank) == \A n \in Listed : number[n] = rank[n]

\* EnqCas: the node becomes the last of the list.
LEMMA Linking ==
  ASSUME NEW rank, rank \in [Nodes -> Nat], Ranked(rank), NEW p \in Procs, M!EnqCas(p), next[node[p]] = NULL,
         expect[p] = NULL
  PROVE  \E number \in [Nodes -> Nat] : Ranked(number)' /\ Agrees(number, rank)
<1>1. /\ pc[p] = "enqCas" /\ next' = [next EXCEPT ![node[p]] = new[p]] /\ pc' = [pc EXCEPT ![p] = "enqSwing"]
      /\ UNCHANGED <<heap, hp, retired, scan, head, tail, node, lnext, seen, new>>
  BY DEF M!EnqCas, M!Goto, M!pool
<1>2. node[p] \in Listed /\ node[p] \in Nodes /\ rank[node[p]] \in Nat /\ hp[p][0] = node[p]
  <2>1. node[p] \in Listed /\ hp[p][0] = node[p]
    BY <1>1 DEF Ranked, SeenOK, SafePcs
  <2>2. QED
    BY <2>1, ListNodes
<1>3. pc[p] \in FreshPcs /\ new[p] \in heap /\ new[p] \in Nodes /\ new[p] \in Fresh /\ new[p] \notin Listed
      /\ next[new[p]] = NULL /\ new[p] # NULL
  <2>1. pc[p] \in FreshPcs
    BY <1>1 DEF FreshPcs
  <2>2. new[p] \in heap /\ next[new[p]] = NULL /\ new[p] \in Fresh
    BY <2>1 DEF Ranked, FreshOK, Fresh
  <2>3. QED
    BY <2>1, <2>2, Numbers DEF Ranked, NodeTypeOK, Listed
<1>4. PICK number \in [Nodes -> Nat] :
        number[new[p]] = rank[node[p]] + 1 /\ \A m \in Nodes \ {new[p]} : number[m] = rank[m]
  <2>1. PICK number : number = [rank EXCEPT ![new[p]] = rank[node[p]] + 1]
    OBVIOUS
  <2>2. QED
    BY <1>2, <1>3, <2>1
<1>5. /\ pc'[p] = "enqSwing" /\ next'[node[p]] = new[p]
      /\ \A q \in Procs \ {p} : pc'[q] = pc[q]
      /\ \A m \in Nodes \ {node[p]} : next'[m] = next[m]
  BY <1>1, <1>2, <1>3 DEF Ranked, NodeTypeOK
<1>6. NodeTypeOK'
  BY <1>1, <1>2, <1>3 DEF Ranked, NodeTypeOK, NodeEnqPcs
<1>7. Fresh' = Fresh \ {new[p]}
  <2>1. \A q \in Procs \ {p} : pc[q] \in FreshPcs => new[q] # new[p]
    BY <1>3 DEF Ranked, FreshOK
  <2>2. \A q \in Procs : pc'[q] \in FreshPcs <=> pc[q] \in FreshPcs /\ q # p
    BY <1>5 DEF FreshPcs
  <2>3. QED
    BY <1>1, <2>1, <2>2 DEF Fresh
<1>8. Listed' = Listed \cup {new[p]}
  BY <1>1, <1>3, <1>7 DEF Listed
<1>9. \A m \in Listed : m # new[p] /\ number[m] = rank[m] /\ rank[m] \in Nat /\ rank[m] <= rank[node[p]]
  <2>1. \A m \in Listed : rank[m] <= rank[node[p]]
    BY <1>2 DEF Ranked, RankOK
  <2>2. QED
    BY <1>3, <1>4, <2>1, ListNodes
<1>10. RankOK(number)'
  <2>1. ({head, tail} \subseteq Listed /\ number[head] <= number[tail])'
    BY <1>1, <1>8, <1>9, ListNodes
  <2>2. \A m, n \in Listed' : number[m] = number[n] => m = n
    BY <1>2, <1>4, <1>8, <1>9 DEF Ranked, RankOK
  <2>3. ASSUME NEW n \in Listed', next'[n] = NULL PROVE \A m \in Listed' : number[m] <= number[n]
    <3>1. n = new[p]
      <4>1. CASE n \in Listed
        <5>1. n # node[p] /\ next[n] = NULL
          BY <1>3, <1>5, <2>3, <4>1, ListNodes
        <5>2. rank[node[p]] <= rank[n] /\ rank[n] <= rank[node[p]]
          BY <1>2, <1>9, <4>1, <5>1 DEF Ranked, RankOK
        <5>3. rank[n] = rank[node[p]]
          BY <1>2, <1>9, <4>1, <5>2
        <5>4. QED
          BY <1>2, <4>1, <5>1, <5>3 DEF Ranked, RankOK
      <4>2. QED
        BY <1>8, <4>1
    <3>2. QED
      BY <1>2, <1>4, <1>8, <1>9, <3>1
  <2>4. ASSUME NEW n \in Listed', number[head'] <= number[n], next'[n] # NULL
        PROVE  next'[n] \in Listed' /\ number[next'[n]] = number[n] + 1
    <3>1. CASE n = new[p]
      <4>1. new[p] # node[p]
        BY <1>2, <1>9
      <4>2. next'[n] = NULL
        BY <1>3, <1>5, <3>1, <4>1
      <4>3. QED
        BY <2>4, <4>2
    <3>2. CASE n = node[p]
      BY <1>2, <1>4, <1>5, <1>8, <1>9, <3>2
    <3>3. CASE n \in Listed \ {node[p]}
      <4>1. next'[n] = next[n] /\ number[n] = rank[n] /\ number[head'] = rank[head]
        BY <1>1, <1>5, <1>9, <3>3, ListNodes
      <4>2. next[n] \in Listed /\ rank[next[n]] = rank[n] + 1
        BY <2>4, <3>3, <4>1 DEF Ranked, RankOK
      <4>3. QED
        BY <1>8, <1>9, <4>1, <4>2
    <3>4. QED
      BY <1>8, <3>1, <3>2, <3>3
  <2>5. QED
    BY <2>1, <2>2, <2>3, <2>4 DEF RankOK
<1>11. FreshOK'
  <2>1. ASSUME NEW q \in Procs \ {p}, pc[q] \in FreshPcs PROVE new[q] \in Nodes \ {node[p]}
    <3>1. new[q] \in Fresh /\ new[q] \in heap /\ new[q] \in Nodes
      BY <2>1 DEF Ranked, FreshOK, Fresh, NodeTypeOK
    <3>2. QED
      BY <1>2, <3>1 DEF Listed
  <2>2. QED
    BY <1>1, <1>5, <2>1 DEF Ranked, FreshOK, FreshPcs
<1>12. ASSUME NEW q \in Procs PROVE SeenOK(number, q)' /\ OwnedOK(number, q)' /\ PassedOK(q)'
  <2>1. SeenOK(rank, q) /\ OwnedOK(rank, q) /\ PassedOK(q)
    BY DEF Ranked
  <2>2. SeenOK(number, q)'
    <3>1. CASE q = p
      BY <1>1, <1>2, <1>3, <1>5, <1>8, <3>1 DEF SeenOK, SafePcs
    <3>2. CASE q # p
      <4>1. pc[q] \in SafePcs => node[q] \in Listed /\ number[node[q]] = rank[node[q]]
        BY <1>9, <2>1 DEF SeenOK
      <4>2. number[head] = rank[head] /\ number[tail] = rank[tail]
        BY <1>9, ListNodes
      <4>3. pc[q] \in {"enqHelp", "enqSwing", "deqCas"} => next[node[q]] # NULL
        <5>1. CASE pc[q] = "deqCas"
          <6>1. node[q] \in Listed /\ rank[node[q]] < rank[tail] /\ tail \in Listed
            BY <2>1, <5>1, ListNodes DEF SeenOK, SafePcs
          <6>2. QED
            BY <6>1, HasNext
        <5>2. QED
          BY <2>1, <5>1 DEF SeenOK
      <4>4. pc[q] \in {"enqHelp", "enqSwing", "deqCas"} => next'[node[q]] = next[node[q]]
        <5>1. pc[q] \in {"enqHelp", "enqSwing", "deqCas"} => node[q] \in Nodes
          BY <4>1, ListNodes DEF SafePcs
        <5>2. QED
          BY <1>5, <4>3, <5>1
      <4>5. QED
        BY <1>1, <1>5, <1>8, <2>1, <3>2, <4>1, <4>2, <4>4 DEF SeenOK, SafePcs
    <3>3. QED
      BY <3>1, <3>2
  <2>3. OwnedOK(number, q)'
    <3>1. \A t \in Procs : pc'[t] \in HeldPcs <=> pc[t] \in HeldPcs
      BY <1>1, <1>5 DEF HeldPcs
    <3>2. number[head] = rank[head]
      BY <1>9, ListNodes
    <3>3. pc[q] \in HeldPcs => node[q] \in Listed' /\ number[node[q]] < number[head]
      BY <1>8, <1>9, <2>1, <3>2 DEF OwnedOK
    <3>4. \A i \in 1 .. Len(retired[q]) : retired[q][i] \in Listed' /\ number[retired[q][i]] < number[head]
      BY <1>8, <1>9, <2>1, <3>2 DEF OwnedOK
    <3>5. UNCHANGED <<node, retired, head>>
      BY <1>1
    <3>6. QED
      BY <2>1, <3>1, <3>3, <3>4, <3>5 DEF OwnedOK
  <2>4. PassedOK(q)'
    <3>1. \A t, k, b : Relies(t, k, b)' => Relies(t, k, b)
      BY <1>1, <1>5 DEF Relies, SafePcs
    <3>2. (M!Scanning(q))' => M!Scanning(q) /\ pc[q] = "deqScan" /\ pc'[q] = pc[q]
      BY <1>1, <1>5, <2>1 DEF M!Scanning, PassedOK
    <3>3. QED
      BY <1>1, <2>1, <3>1, <3>2 DEF PassedOK
  <2>5. QED
    BY <2>2, <2>3, <2>4
<1>13. Ranked(number)'
  BY <1>6, <1>10, <1>11, <1>12 DEF Ranked
<1>14. Agrees(number, rank)
  BY <1>9 DEF Agrees
<1>15. QED
  BY <1>4, <1>13, <1>14

\* DeqCas: head leaves its node, which the thread then has to retire.
LEMMA HeadMoves ==
  ASSUME NEW rank, rank \in [Nodes -> Nat], Ranked(rank), NEW p \in Procs, M!DeqCas(p), head = node[p]
  PROVE  Ranked(rank)'
<1>1. /\ pc[p] = "deqCas" /\ pc' = [pc EXCEPT ![p] = "deqItem"] /\ head' = lnext[p]
      /\ seen' = [seen EXCEPT ![p] = NULL]
      /\ UNCHANGED <<heap, hp, retired, scan, tail, next, node, lnext, new>>
  BY DEF M!DeqCas, M!Goto, M!pool, M!ProtectFirst
<1>2. pc'[p] = "deqItem" /\ \A q \in Procs \ {p} : pc'[q] = pc[q] /\ seen'[q] = seen[q]
  BY <1>1 DEF Ranked, NodeTypeOK
<1>3. NodeTypeOK'
  BY <1>1 DEF Ranked, NodeTypeOK, NodeDeqPcs
<1>4. Fresh' = Fresh /\ Listed' = Listed
  <2>1. \A q \in Procs : pc'[q] \in FreshPcs <=> pc[q] \in FreshPcs
    BY <1>1, <1>2 DEF FreshPcs
  <2>2. QED
    BY <1>1, <2>1 DEF Fresh, Listed
<1>5. SeenOK(rank, p)
  BY DEF Ranked
<1>6. /\ head' \in Listed /\ rank[head'] = rank[head] + 1 /\ rank[head'] <= rank[tail]
      /\ {rank[head], rank[head'], rank[tail]} \subseteq Nat
  <2>1. rank[head] < rank[tail] /\ {head, tail} \subseteq Listed /\ {rank[head], rank[tail]} \subseteq Nat
    BY <1>1, <1>5, ListNodes DEF SeenOK
  <2>2. head' = next[head] /\ next[head] # NULL
    BY <1>1, <1>5, <2>1, HasNext DEF SeenOK
  <2>3. next[head] \in Listed /\ rank[next[head]] = rank[head] + 1
    BY <2>1, <2>2 DEF Ranked, RankOK
  <2>4. QED
    BY <2>1, <2>2, <2>3
<1>7. RankOK(rank)'
  <2>1. \A n \in Listed : rank[head'] <= rank[n] => rank[head] <= rank[n]
    BY <1>6, ListNodes
  <2>2. QED
    BY <1>1, <1>4, <1>6, <2>1, ListNodes DEF Ranked, RankOK
<1>8. FreshOK'
  BY <1>1, <1>2 DEF Ranked, FreshOK, FreshPcs
<1>9. SeenOK(rank, p)'
  BY <1>1, <1>2, <1>4, <1>5, <1>6 DEF SeenOK, SafePcs
<1>10. ASSUME NEW q \in Procs \ {p} PROVE SeenOK(rank, q)'
  <2>1. SeenOK(rank, q) /\ pc'[q] = pc[q] /\ seen'[q] = seen[q]
    BY <1>2 DEF Ranked
  <2>2. pc[q] \in SafePcs => rank[node[q]] \in Nat
    BY <2>1, ListNodes DEF SeenOK
  <2>3. pc[q] = "deqTail" => rank[node[q]] <= rank[head']
    BY <1>6, <2>1, <2>2 DEF SeenOK, SafePcs
  <2>4. QED
    BY <1>1, <1>4, <2>1, <2>3 DEF SeenOK
<1>11. ASSUME NEW q \in Procs PROVE OwnedOK(rank, q)'
  <2>1. OwnedOK(rank, q)
    BY DEF Ranked
  <2>2. \A i \in 1 .. Len(retired[q]) : rank[retired[q][i]] < rank[head'] /\ retired[q][i] # node[p]
    <3>1. \A i \in 1 .. Len(retired[q]) : retired[q][i] \in Listed /\ rank[retired[q][i]] < rank[head]
      BY <2>1 DEF OwnedOK
    <3>2. \A i \in 1 .. Len(retired[q]) : rank[retired[q][i]] \in Nat
      BY <3>1, ListNodes
    <3>3. QED
      BY <1>6, <3>1, <3>2
  <2>3. \A t \in Procs \ {p} : pc[t] \in HeldPcs =>
          rank[node[t]] < rank[head] /\ rank[node[t]] < rank[head'] /\ node[t] # node[p]
    <3>1. ASSUME NEW t \in Procs \ {p}, pc[t] \in HeldPcs
          PROVE rank[node[t]] < rank[head] /\ rank[node[t]] \in Nat
      BY <3>1, ListNodes DEF Ranked, OwnedOK
    <3>2. QED
      BY <1>6, <3>1
  <2>4. rank[node[p]] < rank[head'] /\ node[p] \in Listed
    BY <1>5, <1>6, <1>1 DEF SeenOK, SafePcs
  <2>5. \A t \in Procs : pc'[t] \in HeldPcs <=> t = p \/ pc[t] \in HeldPcs
    BY <1>2 DEF HeldPcs
  <2>6. \A t \in Procs : \A i \in 1 .. Len(retired[t]) : retired[t][i] # node[p]
    <3>1. ASSUME NEW t \in Procs, NEW i \in 1 .. Len(retired[t]) PROVE retired[t][i] # node[p]
      <4>1. rank[retired[t][i]] < rank[head] /\ rank[retired[t][i]] \in Nat
        BY ListNodes DEF Ranked, OwnedOK
      <4>2. QED
        BY <1>6, <4>1
    <3>2. QED
      BY <3>1
  <2>7. pc'[q] \in HeldPcs =>
          /\ node[q] \in Listed /\ rank[node[q]] < rank[head']
          /\ \A t \in Procs \ {q} : pc'[t] \in HeldPcs => node[t] # node[q]
          /\ \A t \in Procs : \A i \in 1 .. Len(retired[t]) : retired[t][i] # node[q]
    <3>1. CASE q = p
      BY <2>3, <2>4, <2>5, <2>6, <3>1
    <3>2. CASE q # p
      BY <2>1, <2>3, <2>5, <3>2 DEF OwnedOK
    <3>3. QED
      BY <3>1, <3>2
  <2>8. UNCHANGED <<node, retired>>
    BY <1>1
  <2>9. QED
    BY <1>4, <2>1, <2>2, <2>7, <2>8 DEF OwnedOK
<1>12. ASSUME NEW q \in Procs PROVE PassedOK(q)'
  <2>1. SUFFICES ASSUME (M!Scanning(q))' PROVE PassedOK(q)'
    BY DEF PassedOK
  <2>2. M!Scanning(q) /\ PassedOK(q)
    BY <1>1, <2>1 DEF M!Scanning, Ranked
  <2>3. PICK b : b = retired[q][scan[q].node] /\ b \in Listed /\ rank[b] < rank[head]
    BY <2>2, SoughtNode
  <2>4. b # head'
    BY <1>6, <2>3, ListNodes
  <2>5. \A t, k : Relies(t, k, b)' => Relies(t, k, b)
    BY <1>1, <1>2, <2>4 DEF Relies, SafePcs
  <2>6. pc'[q] = pc[q] /\ pc[q] = "deqScan"
    BY <1>1, <1>2, <2>2 DEF PassedOK
  <2>7. QED
    BY <1>1, <2>2, <2>3, <2>5, <2>6 DEF PassedOK
<1>13. QED
  BY <1>3, <1>7, <1>8, <1>9, <1>10, <1>11, <1>12 DEF Ranked

\* DeqRetire: the node goes to the list of the thread.
LEMMA NodeRetired ==
  ASSUME NEW rank, rank \in [Nodes -> Nat], Ranked(rank), NEW p \in Procs, M!DeqRetire(p)
  PROVE  Ranked(rank)'
<1>1. /\ pc[p] = "deqRetire" /\ pc' = [pc EXCEPT ![p] = "deqScan"] /\ M!RetireCall(p, node[p])
      /\ UNCHANGED <<heap, hp, head, tail, next, node, lnext, new, seen>>
  BY DEF M!DeqRetire, M!RetireCall, M!Goto, M!list, M!locals
<1>2. pc'[p] = "deqScan" /\ \A q \in Procs \ {p} : pc'[q] = pc[q]
  BY <1>1 DEF Ranked, NodeTypeOK
<1>3. /\ node[p] \in Listed /\ node[p] \in Nodes /\ rank[node[p]] < rank[head]
      /\ \A q \in Procs \ {p} : pc[q] \in HeldPcs => node[q] # node[p]
      /\ \A q \in Procs : \A i \in 1 .. Len(retired[q]) : retired[q][i] # node[p]
  <2>1. OwnedOK(rank, p) /\ pc[p] \in HeldPcs
    BY <1>1 DEF Ranked, HeldPcs
  <2>2. node[p] \in Listed
    BY <2>1 DEF OwnedOK
  <2>3. QED
    BY <2>1, <2>2, ListNodes DEF OwnedOK
<1>4. PICK s \in Seq(Nodes) :
        /\ s = Append(retired[p], node[p]) /\ Len(s) = Len(retired[p]) + 1
        /\ s[Len(retired[p]) + 1] = node[p]
        /\ \A i \in 1 .. Len(retired[p]) : s[i] = retired[p][i]
  <2>1. retired[p] \in Seq(Nodes)
    BY DEF Ranked, NodeTypeOK
  <2>2. node[p] \in Nodes
    BY <1>3
  <2>3. PICK s : s = Append(retired[p], node[p])
    OBVIOUS
  <2>4. s \in Seq(Nodes) /\ Len(s) = Len(retired[p]) + 1 /\ s[Len(retired[p]) + 1] = node[p]
        /\ \A i \in 1 .. Len(retired[p]) : s[i] = retired[p][i]
    BY <2>1, <2>2, <2>3, AppendProperties
  <2>5. QED
    BY <2>3, <2>4
<1>5. PICK o \in {M!Idle, [node |-> 1, at |-> 0]} :
        retired' = [retired EXCEPT ![p] = s] /\ scan' = [scan EXCEPT ![p] = o]
  BY <1>1, <1>4 DEF M!RetireCall
<1>6. /\ retired'[p] = s /\ scan'[p] = o
      /\ \A q \in Procs \ {p} : retired'[q] = retired[q] /\ scan'[q] = scan[q]
  BY <1>5 DEF Ranked, NodeTypeOK
<1>7. NodeTypeOK'
  <2>1. o \in [node : Nat, at : Nat]
    BY DEF M!Idle
  <2>2. QED
    BY <1>1, <1>5, <2>1 DEF Ranked, NodeTypeOK, NodeDeqPcs
<1>8. Fresh' = Fresh /\ Listed' = Listed
  <2>1. \A q \in Procs : pc'[q] \in FreshPcs <=> pc[q] \in FreshPcs
    BY <1>1, <1>2 DEF FreshPcs
  <2>2. QED
    BY <1>1, <2>1 DEF Fresh, Listed
<1>9. RankOK(rank)' /\ FreshOK'
  <2>1. RankOK(rank)'
    BY <1>1, <1>8 DEF Ranked, RankOK
  <2>2. FreshOK'
    BY <1>1, <1>2 DEF Ranked, FreshOK, FreshPcs
  <2>3. QED
    BY <2>1, <2>2
<1>10. ASSUME NEW q \in Procs PROVE SeenOK(rank, q)'
  <2>1. SeenOK(rank, q)
    BY DEF Ranked
  <2>2. QED
    BY <1>1, <1>2, <1>8, <2>1 DEF SeenOK, SafePcs
<1>11. \A i \in 1 .. Len(s) : i = Len(s) \/ i \in 1 .. Len(retired[p])
  <2>1. Len(retired[p]) \in Nat /\ Len(s) = Len(retired[p]) + 1
    BY <1>4, ListNodes
  <2>2. QED
    BY <2>1
<1>12. ASSUME NEW q \in Procs PROVE OwnedOK(rank, q)'
  <2>1. OwnedOK(rank, q) /\ OwnedOK(rank, p)
    BY DEF Ranked
  <2>2. \A t \in Procs : pc'[t] \in HeldPcs <=> t # p /\ pc[t] \in HeldPcs
    BY <1>2 DEF HeldPcs
  <2>3. \A t \in Procs : \A i \in 1 .. Len(retired'[t]) :
          \/ retired'[t][i] = node[p] /\ t = p /\ i = Len(s)
          \/ i \in 1 .. Len(retired[t]) /\ retired'[t][i] = retired[t][i]
    <3>1. ASSUME NEW t \in Procs, NEW i \in 1 .. Len(retired'[t])
          PROVE  \/ retired'[t][i] = node[p] /\ t = p /\ i = Len(s)
                 \/ i \in 1 .. Len(retired[t]) /\ retired'[t][i] = retired[t][i]
      <4>1. CASE t = p
        <5>1. i \in 1 .. Len(s) /\ retired'[t][i] = s[i]
          BY <1>6, <4>1
        <5>2. i = Len(s) \/ i \in 1 .. Len(retired[p])
          BY <1>11, <5>1
        <5>3. QED
          BY <1>4, <4>1, <5>1, <5>2
      <4>2. CASE t # p
        BY <1>6, <4>2
      <4>3. QED
        BY <4>1, <4>2
    <3>2. QED
      BY <3>1
  <2>4. (pc[q] \in HeldPcs =>
          /\ node[q] \in Listed /\ rank[node[q]] < rank[head]
          /\ \A t \in Procs \ {q} : pc[t] \in HeldPcs => node[t] # node[q]
          /\ \A t \in Procs : \A i \in 1 .. Len(retired[t]) : retired[t][i] # node[q])'
    BY <1>1, <1>3, <1>8, <2>1, <2>2, <2>3 DEF OwnedOK
  <2>5. (\A i \in 1 .. Len(retired[q]) : retired[q][i] \in Listed /\ rank[retired[q][i]] < rank[head])'
    BY <1>1, <1>3, <1>8, <2>1, <2>3 DEF OwnedOK
  <2>6. (\A i \in 1 .. Len(retired[q]) :
           /\ \A j \in 1 .. Len(retired[q]) : retired[q][j] = retired[q][i] => i = j
           /\ \A t \in Procs \ {q} : \A j \in 1 .. Len(retired[t]) : retired[t][j] # retired[q][i])'
    <3>1. ASSUME NEW i \in 1 .. Len(retired'[q]), NEW t \in Procs, NEW j \in 1 .. Len(retired'[t]),
                 retired'[t][j] = retired'[q][i]
          PROVE  t = q /\ i = j
      <4>1. \/ retired'[q][i] = node[p] /\ q = p /\ i = Len(s)
            \/ i \in 1 .. Len(retired[q]) /\ retired'[q][i] = retired[q][i] /\ retired[q][i] # node[p]
        BY <1>3, <2>3
      <4>2. \/ retired'[t][j] = node[p] /\ t = p /\ j = Len(s)
            \/ j \in 1 .. Len(retired[t]) /\ retired'[t][j] = retired[t][j] /\ retired[t][j] # node[p]
        BY <1>3, <2>3
      <4>3. CASE retired'[q][i] = node[p]
        BY <3>1, <4>1, <4>2, <4>3
      <4>4. CASE retired'[q][i] # node[p]
        BY <2>1, <3>1, <4>1, <4>2, <4>4 DEF OwnedOK
      <4>5. QED
        BY <4>3, <4>4
    <3>2. \A i \in 1 .. Len(retired'[q]) : \A j \in 1 .. Len(retired'[q]) :
            retired'[q][j] = retired'[q][i] => i = j
      <4>1. ASSUME NEW i \in 1 .. Len(retired'[q]), NEW j \in 1 .. Len(retired'[q]), retired'[q][j] = retired'[q][i]
            PROVE  i = j
        BY <3>1, <4>1
      <4>2. QED
        BY <4>1
    <3>3. \A i \in 1 .. Len(retired'[q]) : \A t \in Procs \ {q} : \A j \in 1 .. Len(retired'[t]) :
            retired'[t][j] # retired'[q][i]
      <4>1. ASSUME NEW i \in 1 .. Len(retired'[q]), NEW t \in Procs \ {q}, NEW j \in 1 .. Len(retired'[t])
            PROVE  retired'[t][j] # retired'[q][i]
        BY <3>1
      <4>2. QED
        BY <4>1
    <3>4. QED
      BY <3>2, <3>3
  <2>7. QED
    BY <2>4, <2>5, <2>6 DEF OwnedOK
<1>13. ASSUME NEW q \in Procs PROVE PassedOK(q)'
  <2>1. \A t, k, b : Relies(t, k, b)' <=> Relies(t, k, b)
    BY <1>1, <1>2 DEF Relies, SafePcs
  <2>2. CASE q = p
    <3>1. (M!Scanning(p))' => scan'[p].node = 1 /\ scan'[p].at = 0
      BY <1>6 DEF M!Scanning
    <3>2. 1 \in 1 .. Len(s) /\ 0 \in 0 .. M!Loads /\ 0 .. 0 - 1 = {}
      <4>1. Len(retired[p]) \in Nat /\ Len(s) = Len(retired[p]) + 1
        BY <1>4, ListNodes
      <4>2. M!Loads \in Nat
        BY LoadsType
      <4>3. QED
        BY <4>1, <4>2
    <3>3. QED
      BY <1>2, <1>6, <2>2, <3>1, <3>2 DEF PassedOK
  <2>3. CASE q # p
    <3>1. PassedOK(q) /\ pc'[q] = pc[q] /\ retired'[q] = retired[q] /\ scan'[q] = scan[q]
      BY <1>2, <1>6, <2>3 DEF Ranked
    <3>2. QED
      BY <2>1, <3>1 DEF PassedOK, M!Scanning
  <2>4. QED
    BY <2>2, <2>3
<1>14. QED
  BY <1>7, <1>9, <1>10, <1>12, <1>13 DEF Ranked

-----------------------------------------------------------------------------
\* What a thread relies on is published.
LEMMA Published ==
  ASSUME NEW rank, Ranked(rank), NEW q, NEW k, NEW b, Relies(q, k, b)
  PROVE  hp[q][k] = b
BY DEF Relies, Ranked, SeenOK, SafePcs

\* ScanLoad: the scan has passed one more hazard pointer, or goes on to the next node.
LEMMA HazardLoaded ==
  ASSUME NEW rank, rank \in [Nodes -> Nat], Ranked(rank), NEW p \in Procs, M!ScanLoad(p),
         UNCHANGED <<M!list, M!locals, M!calls>>
  PROVE  Ranked(rank)'
<1>1. UNCHANGED <<hp, retired, heap, head, tail, next, node, lnext, new, seen, pc>>
  BY DEF M!ScanLoad, M!list, M!locals, M!calls
<1>2. PICK i \in Nat, a \in Nat : scan[p] = [node |-> i, at |-> a]
  BY DEF Ranked, NodeTypeOK
<1>3. /\ M!Scanning(p) /\ pc[p] = "deqScan" /\ i \in 1 .. Len(retired[p]) /\ a < M!Loads /\ Len(retired[p]) \in Nat
      /\ \A n \in 0 .. a - 1 : ~Relies(n \div HPs, HPs - 1 - (n % HPs), retired[p][i])
  <2>1. PassedOK(p) /\ M!Scanning(p) /\ a < M!Loads
    BY <1>2 DEF M!ScanLoad, Ranked
  <2>2. Len(retired[p]) \in Nat
    BY ListNodes
  <2>3. QED
    BY <1>2, <2>1, <2>2 DEF PassedOK
<1>4. PICK o \in {M!Idle, [node |-> i + 1, at |-> 0], [node |-> i, at |-> a + 1]} :
        /\ scan' = [scan EXCEPT ![p] = o]
        /\ o = [node |-> i + 1, at |-> 0] => i + 1 \in 1 .. Len(retired[p])
        /\ o = [node |-> i, at |-> a + 1] => M!HazardAt(a) # retired[p][i]
  <2>1. CASE M!HazardAt(a) = retired[p][i]
    <3>1. scan' = [scan EXCEPT ![p] = IF i + 1 > Len(retired[p]) THEN M!Idle ELSE [node |-> i + 1, at |-> 0]]
      BY <1>2, <2>1 DEF M!ScanLoad, M!NextNode
    <3>2. [node |-> i + 1, at |-> 0] # [node |-> i, at |-> a + 1] /\ M!Idle # [node |-> i + 1, at |-> 0]
          /\ M!Idle # [node |-> i, at |-> a + 1]
      BY <1>3 DEF M!Idle
    <3>3. ~(i + 1 > Len(retired[p])) => i + 1 \in 1 .. Len(retired[p])
      BY <1>3
    <3>4. QED
      BY <3>1, <3>2, <3>3
  <2>2. CASE M!HazardAt(a) # retired[p][i]
    <3>1. scan' = [scan EXCEPT ![p] = [scan[p] EXCEPT !.at = a + 1]]
      BY <1>2, <2>2 DEF M!ScanLoad
    <3>2. [scan[p] EXCEPT !.at = a + 1] = [node |-> i, at |-> a + 1]
      BY <1>2
    <3>3. [node |-> i, at |-> a + 1] # [node |-> i + 1, at |-> 0]
      BY <1>3
    <3>4. QED
      BY <2>2, <3>1, <3>2, <3>3
  <2>3. QED
    BY <2>1, <2>2
<1>5. scan'[p] = o /\ \A q \in Procs \ {p} : scan'[q] = scan[q]
  BY <1>4 DEF Ranked, NodeTypeOK
<1>6. NodeTypeOK'
  <2>1. o \in [node : Nat, at : Nat]
    BY DEF M!Idle
  <2>2. QED
    BY <1>1, <1>4, <2>1 DEF Ranked, NodeTypeOK
<1>7. Fresh' = Fresh /\ Listed' = Listed
  BY <1>1 DEF Fresh, Listed
<1>8. RankOK(rank)' /\ FreshOK'
  BY <1>1, <1>7 DEF Ranked, RankOK, FreshOK
<1>9. ASSUME NEW q \in Procs PROVE SeenOK(rank, q)' /\ OwnedOK(rank, q)'
  <2>1. SeenOK(rank, q) /\ OwnedOK(rank, q)
    BY DEF Ranked
  <2>2. SeenOK(rank, q)'
    BY <1>1, <1>7, <2>1 DEF SeenOK
  <2>3. OwnedOK(rank, q)'
    BY <1>1, <1>7, <2>1 DEF OwnedOK
  <2>4. QED
    BY <2>2, <2>3
<1>10. \A t, k, b : Relies(t, k, b)' <=> Relies(t, k, b)
  BY <1>1 DEF Relies
<1>11. ASSUME NEW q \in Procs \ {p} PROVE PassedOK(q)'
  <2>1. PassedOK(q) /\ scan'[q] = scan[q]
    BY <1>5 DEF Ranked
  <2>2. QED
    BY <1>1, <1>10, <2>1 DEF PassedOK, M!Scanning
<1>12. PassedOK(p)'
  <2>1. CASE o = M!Idle
    BY <1>5, <2>1 DEF PassedOK, M!Scanning
  <2>2. CASE o = [node |-> i + 1, at |-> 0]
    <3>1. scan'[p].node = i + 1 /\ scan'[p].at = 0 /\ i + 1 \in 1 .. Len(retired'[p])
      BY <1>1, <1>4, <1>5, <2>2
    <3>2. 0 .. 0 - 1 = {} /\ 0 \in 0 .. M!Loads
      BY LoadsType
    <3>3. QED
      BY <1>1, <1>3, <3>1, <3>2 DEF PassedOK
  <2>3. CASE o = [node |-> i, at |-> a + 1]
    <3>1. scan'[p].node = i /\ scan'[p].at = a + 1 /\ M!HazardAt(a) # retired[p][i]
      BY <1>4, <1>5, <2>3
    <3>2. ~Relies(a \div HPs, HPs - 1 - (a % HPs), retired[p][i])
      BY <3>1, Published DEF M!HazardAt
    <3>3. \A n \in 0 .. a + 1 - 1 : n = a \/ n \in 0 .. a - 1
      OBVIOUS
    <3>4. a + 1 \in 0 .. M!Loads
      BY <1>3, LoadsType
    <3>5. \A n \in 0 .. a + 1 - 1 : ~Relies(n \div HPs, HPs - 1 - (n % HPs), retired[p][i])
      BY <1>3, <3>2, <3>3
    <3>6. QED
      BY <1>1, <1>3, <1>10, <3>1, <3>4, <3>5 DEF PassedOK
  <2>4. QED
    BY <2>1, <2>2, <2>3
<1>13. QED
  BY <1>6, <1>8, <1>9, <1>11, <1>12 DEF Ranked

\* The pool of MSQueue erases with the operator of the other pools.
LEMMA ErasedByScan == \A s, i : M!RemoveAt(s, i) = RemoveAt(s, i)
BY DEF M!RemoveAt, RemoveAt

\* ScanDelete: no thread relies on the node, whose hazard pointers the scan has all passed.
LEMMA NodeDeleted ==
  ASSUME NEW rank, rank \in [Nodes -> Nat], Ranked(rank), NEW p \in Procs, M!ScanDelete(p),
         UNCHANGED <<M!list, M!locals, M!calls>>
  PROVE  Ranked(rank)'
<1>1. UNCHANGED <<hp, head, tail, next, node, lnext, new, seen, pc>>
  BY DEF M!ScanDelete, M!list, M!locals, M!calls
<1>2. PICK i \in Nat, a \in Nat : scan[p] = [node |-> i, at |-> a]
  BY DEF Ranked, NodeTypeOK
<1>3. /\ M!Scanning(p) /\ pc[p] = "deqScan" /\ i \in 1 .. Len(retired[p]) /\ a = M!Loads /\ Len(retired[p]) \in Nat
      /\ \A n \in 0 .. a - 1 : ~Relies(n \div HPs, HPs - 1 - (n % HPs), retired[p][i])
  <2>1. PassedOK(p) /\ M!Scanning(p) /\ a = M!Loads
    BY <1>2 DEF M!ScanDelete, Ranked
  <2>2. Len(retired[p]) \in Nat
    BY ListNodes
  <2>3. QED
    BY <1>2, <2>1, <2>2 DEF PassedOK
<1>4. PICK b : b = retired[p][i] /\ b \in Listed \ {head, tail} /\ b \in Nodes /\ rank[b] < rank[head]
  BY <1>2, SoughtNode, ListNodes, <1>3
<1>5. \A q \in Procs : \A k \in {0, 1} : ~Relies(q, k, b)
  <2>1. ASSUME NEW q \in Procs, NEW k \in {0, 1} PROVE ~Relies(q, k, b)
    <3>1. k \in 0 .. HPs - 1
      BY Numbers
    <3>2. PICK n \in 0 .. M!Loads - 1 : n \div HPs = q /\ HPs - 1 - (n % HPs) = k
      BY <3>1, SlotNumbers
    <3>3. QED
      BY <1>3, <1>4, <3>2
  <2>2. QED
    BY <2>1
<1>6. PICK s \in Seq(Nodes) :
        /\ s = RemoveAt(retired[p], i) /\ Len(s) = Len(retired[p]) - 1
        /\ \A n \in 1 .. Len(retired[p]) - 1 : s[n] = retired[p][IF n < i THEN n ELSE n + 1]
  <2>1. retired[p] \in Seq(Nodes)
    BY DEF Ranked, NodeTypeOK
  <2>2. QED
    BY <1>3, <2>1, ErasedAt
<1>7. PICK o \in {M!Idle, [node |-> i, at |-> 0]} :
        /\ retired' = [retired EXCEPT ![p] = s] /\ heap' = heap \ {b} /\ scan' = [scan EXCEPT ![p] = o]
        /\ o = [node |-> i, at |-> 0] => i \in 1 .. Len(s)
  <2>1. retired' = [retired EXCEPT ![p] = s] /\ heap' = heap \ {b} /\ retired'[p] = s
    <3>1. retired' = [retired EXCEPT ![p] = M!RemoveAt(retired[p], i)] /\ heap' = heap \ {b}
      BY <1>2, <1>4 DEF M!ScanDelete
    <3>2. M!RemoveAt(retired[p], i) = s
      BY <1>6, ErasedByScan
    <3>3. QED
      BY <3>1, <3>2 DEF Ranked, NodeTypeOK
  <2>2. scan' = [scan EXCEPT ![p] = IF i > Len(s) THEN M!Idle ELSE [node |-> i, at |-> 0]]
    <3>1. M!NextNode(p, retired'[p], scan[p].node) /\ scan[p].node = i
      BY <1>2 DEF M!ScanDelete
    <3>2. M!NextNode(p, s, i)
      BY <2>1, <3>1
    <3>3. QED
      BY <3>2 DEF M!NextNode
  <2>3. ~(i > Len(s)) => i \in 1 .. Len(s)
    BY <1>3, <1>6
  <2>4. M!Idle # [node |-> i, at |-> 0]
    BY <1>3 DEF M!Idle
  <2>5. QED
    BY <2>1, <2>2, <2>3, <2>4
<1>8. /\ retired'[p] = s /\ scan'[p] = o
      /\ \A q \in Procs \ {p} : retired'[q] = retired[q] /\ scan'[q] = scan[q]
  BY <1>7 DEF Ranked, NodeTypeOK
<1>9. NodeTypeOK'
  <2>1. o \in [node : Nat, at : Nat]
    BY DEF M!Idle
  <2>2. QED
    BY <1>1, <1>7, <2>1 DEF Ranked, NodeTypeOK
<1>10. Fresh' = Fresh /\ Listed' = Listed \ {b} /\ b \notin Fresh
  BY <1>1, <1>4, <1>7 DEF Fresh, Listed
<1>11. RankOK(rank)'
  <2>1. {rank[b], rank[head]} \subseteq Nat
    BY <1>4, ListNodes
  <2>2. ASSUME NEW n \in Listed \ {b}, rank[head] <= rank[n], next[n] # NULL
        PROVE  next[n] \in Listed \ {b} /\ rank[next[n]] = rank[n] + 1
    <3>1. next[n] \in Listed /\ rank[next[n]] = rank[n] + 1 /\ rank[n] \in Nat
      BY <2>2, ListNodes DEF Ranked, RankOK
    <3>2. QED
      BY <1>4, <2>1, <2>2, <3>1
  <2>3. QED
    BY <1>1, <1>4, <1>10, <2>2 DEF Ranked, RankOK
<1>12. FreshOK'
  <2>1. \A q \in Procs : pc[q] \in FreshPcs => new[q] # b
    BY <1>10 DEF Fresh
  <2>2. QED
    BY <1>1, <1>7, <2>1 DEF Ranked, FreshOK
<1>13. ASSUME NEW q \in Procs PROVE SeenOK(rank, q)'
  <2>1. SeenOK(rank, q)
    BY DEF Ranked
  <2>2. pc[q] \in SafePcs => node[q] # b
    BY <1>5 DEF Relies
  <2>3. pc[q] = "deqItem" => lnext[q] # b
    BY <1>5 DEF Relies
  <2>4. QED
    BY <1>1, <1>10, <2>1, <2>2, <2>3 DEF SeenOK
<1>14. \A q \in Procs : \A j \in 1 .. Len(retired[q]) : retired[q][j] = b => q = p /\ j = i
  <2>1. OwnedOK(rank, p)
    BY DEF Ranked
  <2>2. QED
    BY <1>3, <1>4, <2>1 DEF OwnedOK
<1>15. \A q \in Procs : \A j \in 1 .. Len(retired'[q]) :
         \E m \in 1 .. Len(retired[q]) :
           /\ retired'[q][j] = retired[q][m] /\ retired[q][m] # b
           /\ m = IF q = p /\ j >= i THEN j + 1 ELSE j
  <2>1. ASSUME NEW q \in Procs, NEW j \in 1 .. Len(retired'[q])
        PROVE  \E m \in 1 .. Len(retired[q]) :
                 /\ retired'[q][j] = retired[q][m] /\ retired[q][m] # b
                 /\ m = IF q = p /\ j >= i THEN j + 1 ELSE j
    <3>1. CASE q = p
      <4>1. j \in 1 .. Len(retired[p]) - 1
        BY <1>6, <1>8, <3>1
      <4>2. PICK m : m = IF j >= i THEN j + 1 ELSE j
        OBVIOUS
      <4>3. m \in 1 .. Len(retired[p]) /\ m # i /\ m = IF j < i THEN j ELSE j + 1
        BY <1>3, <4>1, <4>2
      <4>4. retired'[q][j] = retired[q][m]
        BY <1>6, <1>8, <3>1, <4>1, <4>3
      <4>5. retired[q][m] # b
        BY <1>14, <3>1, <4>3
      <4>6. QED
        BY <3>1, <4>2, <4>3, <4>4, <4>5
    <3>2. CASE q # p
      BY <1>8, <1>14, <3>2
    <3>3. QED
      BY <3>1, <3>2
  <2>2. QED
    BY <2>1
<1>16. ASSUME NEW q \in Procs PROVE OwnedOK(rank, q)'
  <2>1. OwnedOK(rank, q)
    BY DEF Ranked
  <2>2. pc[q] \in HeldPcs =>
          /\ node[q] \in Listed \ {b} /\ rank[node[q]] < rank[head]
          /\ \A t \in Procs \ {q} : pc[t] \in HeldPcs => node[t] # node[q]
          /\ \A t \in Procs : \A j \in 1 .. Len(retired'[t]) : retired'[t][j] # node[q]
    <3>1. pc[q] \in HeldPcs => node[q] # b
      BY <1>3, <1>4, <2>1 DEF OwnedOK
    <3>2. pc[q] \in HeldPcs =>
            \A t \in Procs : \A j \in 1 .. Len(retired[t]) : retired[t][j] # node[q]
      BY <2>1 DEF OwnedOK
    <3>3. ASSUME pc[q] \in HeldPcs, NEW t \in Procs, NEW j \in 1 .. Len(retired'[t])
          PROVE  retired'[t][j] # node[q]
      BY <1>15, <3>2, <3>3
    <3>4. QED
      BY <2>1, <3>1, <3>3 DEF OwnedOK
  <2>3. ASSUME NEW j \in 1 .. Len(retired'[q])
        PROVE  retired'[q][j] \in Listed \ {b} /\ rank[retired'[q][j]] < rank[head]
    <3>1. PICK m \in 1 .. Len(retired[q]) : retired'[q][j] = retired[q][m] /\ retired[q][m] # b
      BY <1>15
    <3>2. QED
      BY <2>1, <3>1 DEF OwnedOK
  <2>4. ASSUME NEW j \in 1 .. Len(retired'[q]), NEW t \in Procs, NEW n \in 1 .. Len(retired'[t]),
               retired'[t][n] = retired'[q][j]
        PROVE  t = q /\ j = n
    <3>1. PICK m \in 1 .. Len(retired[q]) :
            retired'[q][j] = retired[q][m] /\ m = IF q = p /\ j >= i THEN j + 1 ELSE j
      BY <1>15
    <3>2. PICK l \in 1 .. Len(retired[t]) :
            retired'[t][n] = retired[t][l] /\ l = IF t = p /\ n >= i THEN n + 1 ELSE n
      BY <1>15
    <3>3. t = q /\ l = m
      BY <2>1, <2>4, <3>1, <3>2 DEF OwnedOK
    <3>4. Len(retired'[q]) \in Nat /\ i \in Nat
      <4>1. retired'[q] \in Seq(Nodes)
        BY <1>9 DEF NodeTypeOK
      <4>2. QED
        BY <1>3, <4>1
    <3>5. QED
      BY <3>1, <3>2, <3>3, <3>4
  <2>5. \A j \in 1 .. Len(retired'[q]) : \A n \in 1 .. Len(retired'[q]) : retired'[q][n] = retired'[q][j] => j = n
    <3>1. ASSUME NEW j \in 1 .. Len(retired'[q]), NEW n \in 1 .. Len(retired'[q]), retired'[q][n] = retired'[q][j]
          PROVE  j = n
      BY <2>4, <3>1
    <3>2. QED
      BY <3>1
  <2>6. \A j \in 1 .. Len(retired'[q]) : \A t \in Procs \ {q} : \A n \in 1 .. Len(retired'[t]) :
          retired'[t][n] # retired'[q][j]
    <3>1. ASSUME NEW j \in 1 .. Len(retired'[q]), NEW t \in Procs \ {q}, NEW n \in 1 .. Len(retired'[t])
          PROVE  retired'[t][n] # retired'[q][j]
      BY <2>4
    <3>2. QED
      BY <3>1
  <2>7. QED
    BY <1>1, <1>10, <2>2, <2>3, <2>5, <2>6 DEF OwnedOK
<1>17. \A t, k, c : Relies(t, k, c)' <=> Relies(t, k, c)
  BY <1>1 DEF Relies
<1>18. ASSUME NEW q \in Procs \ {p} PROVE PassedOK(q)'
  <2>1. PassedOK(q) /\ scan'[q] = scan[q] /\ retired'[q] = retired[q]
    BY <1>8 DEF Ranked
  <2>2. QED
    BY <1>1, <1>17, <2>1 DEF PassedOK, M!Scanning
<1>19. PassedOK(p)'
  <2>1. CASE o = M!Idle
    BY <1>8, <2>1 DEF PassedOK, M!Scanning
  <2>2. CASE o = [node |-> i, at |-> 0]
    <3>1. scan'[p].node = i /\ scan'[p].at = 0 /\ i \in 1 .. Len(retired'[p])
      BY <1>7, <1>8, <2>2
    <3>2. 0 .. 0 - 1 = {} /\ 0 \in 0 .. M!Loads
      BY LoadsType
    <3>3. QED
      BY <1>1, <1>3, <3>1, <3>2 DEF PassedOK
  <2>3. QED
    BY <2>1, <2>2
<1>20. QED
  BY <1>9, <1>11, <1>12, <1>13, <1>16, <1>18, <1>19 DEF Ranked

\* Only retire scans.
LEMMA NotScanning ==
  ASSUME NEW rank, Ranked(rank), NEW p \in Procs, pc[p] # "deqScan"
  PROVE  ~M!Scanning(p)
BY DEF Ranked, PassedOK

\* A step of thread p that leaves the list, and changes pc and the thread's own only.
OwnStep(p, label) ==
  /\ pc' = [pc EXCEPT ![p] = label]
  /\ UNCHANGED <<heap, retired, scan, head, next>>

\* tail moves to the next node.
LEMMA NextInList ==
  ASSUME NEW rank, rank \in [Nodes -> Nat], Ranked(rank), next[tail] # NULL
  PROVE  next[tail] \in Listed /\ rank[tail] <= rank[next[tail]]
<1>1. tail \in Listed /\ rank[tail] \in Nat /\ rank[head] <= rank[tail]
  BY ListNodes
<1>2. next[tail] \in Listed /\ rank[next[tail]] = rank[tail] + 1
  BY <1>1 DEF Ranked, RankOK
<1>3. QED
  BY <1>1, <1>2

\* The last steps of a call, which clear the hazard pointers and answer.
LEMMA ClearAndAnswer ==
  ASSUME NEW rank, rank \in [Nodes -> Nat], Ranked(rank), NEW p \in Procs, pc[p] \in {"enqClear", "deqEmpty"},
         OwnStep(p, "idle"), M!Clear(p), UNCHANGED <<tail, new, node, lnext, seen>>
  PROVE  Ranked(rank)'
<1>1. tail \in Listed /\ rank[tail] \in Nat
  BY ListNodes
<1>2. pc'[p] = "idle" /\ OthersRest(p) /\ NodeTypeOK'
  BY DEF Ranked, NodeTypeOK, OthersRest, OwnStep, M!Clear
<1>3. SeenOK(rank, p)'
  BY <1>2 DEF SeenOK, SafePcs
<1>4. ~M!Scanning(p) /\ \A k, b : ~Relies(p, k, b)'
  BY <1>2, NotScanning DEF Relies, SafePcs
<1>5. /\ pc'[p] \notin FreshPcs /\ pc[p] \notin FreshPcs /\ pc'[p] \notin HeldPcs
      /\ tail' = tail /\ UNCHANGED <<heap, retired, scan, head, next>>
  BY <1>2 DEF FreshPcs, HeldPcs, OwnStep
<1>6. QED
  BY <1>1, <1>2, <1>3, <1>4, <1>5, LocalStep

\* The steps of enqueue that do not put a node in the list.
LEMMA EnqueueRanked ==
  ASSUME NEW rank, rank \in [Nodes -> Nat], Ranked(rank), NEW p \in Procs, M!EnqStep(p),
         ~(M!EnqCas(p) /\ next[node[p]] = expect[p])
  PROVE  Ranked(rank)'
<1> USE DEF NodeEnqPcs, NodeDeqPcs
<1>1. CASE M!EnqNew(p)
  BY <1>1, NewNode
<1>2. CASE M!EnqTail(p)
  <2>1. pc[p] = "enqTail" /\ OwnStep(p, "enqHp") /\ node' = [node EXCEPT ![p] = tail]
        /\ UNCHANGED <<hp, tail, new, lnext, seen>>
    BY <1>2 DEF M!EnqTail, M!Goto, OwnStep, M!pool, M!list
  <2>2. tail \in Listed /\ tail \in Nodes /\ rank[tail] \in Nat
    BY ListNodes
  <2>3. pc'[p] = "enqHp" /\ OthersRest(p) /\ NodeTypeOK'
    BY <2>1, <2>2 DEF Ranked, NodeTypeOK, OthersRest, OwnStep
  <2>4. SeenOK(rank, p)'
    BY <2>3 DEF SeenOK, SafePcs
  <2>5. ~M!Scanning(p) /\ \A k, b : ~Relies(p, k, b)'
    BY <2>1, <2>3, NotScanning DEF Relies, SafePcs
  <2>6. /\ pc'[p] \in FreshPcs /\ pc[p] \in FreshPcs /\ pc'[p] \notin HeldPcs
        /\ new' = new /\ tail' = tail /\ UNCHANGED <<heap, retired, scan, head, next>>
    BY <2>1, <2>3 DEF FreshPcs, HeldPcs, OwnStep
  <2>7. QED
    BY <2>2, <2>3, <2>4, <2>5, <2>6, LocalStep
<1>3. CASE M!EnqHp(p)
  <2>1. pc[p] = "enqHp" /\ OwnStep(p, "enqCheck") /\ hp' = [hp EXCEPT ![p] = [hp[p] EXCEPT ![0] = node[p]]]
        /\ UNCHANGED <<tail, new, node, lnext, seen>>
    BY <1>3 DEF M!EnqHp, M!Goto, OwnStep, M!Publish, M!list, M!locals
  <2>2. tail \in Listed /\ rank[tail] \in Nat
    BY ListNodes
  <2>3. pc'[p] = "enqCheck" /\ OthersRest(p) /\ NodeTypeOK' /\ hp'[p][0] = node[p]
    BY <2>1, Numbers DEF Ranked, NodeTypeOK, OthersRest, OwnStep
  <2>4. SeenOK(rank, p)'
    BY <2>1, <2>3 DEF SeenOK, SafePcs
  <2>5. ~M!Scanning(p) /\ \A k, b : ~Relies(p, k, b)'
    BY <2>1, <2>3, NotScanning DEF Relies, SafePcs
  <2>6. /\ pc'[p] \in FreshPcs /\ pc[p] \in FreshPcs /\ pc'[p] \notin HeldPcs
        /\ new' = new /\ tail' = tail /\ UNCHANGED <<heap, retired, scan, head, next>>
    BY <2>1, <2>3 DEF FreshPcs, HeldPcs, OwnStep
  <2>7. QED
    BY <2>2, <2>3, <2>4, <2>5, <2>6, LocalStep
<1>4. CASE M!EnqCheck(p)
  <2>1. PICK label \in {"enqNext", "enqTail"} :
          /\ pc[p] = "enqCheck" /\ OwnStep(p, label) /\ (label = "enqNext" => node[p] = tail)
          /\ UNCHANGED <<hp, tail, new, node, lnext, seen>>
    BY <1>4 DEF M!EnqCheck, M!Goto, OwnStep, M!pool, M!list, M!locals
  <2>2. tail \in Listed /\ rank[tail] \in Nat
    BY ListNodes
  <2>3. pc'[p] = label /\ OthersRest(p) /\ NodeTypeOK'
    BY <2>1 DEF Ranked, NodeTypeOK, OthersRest, OwnStep
  <2>4. hp[p][0] = node[p]
    BY <2>1 DEF Ranked, SeenOK
  <2>5. Fresh' = Fresh /\ Listed' = Listed
    BY <2>1, <2>3 DEF Fresh, Listed, OthersRest, OwnStep, FreshPcs
  <2>6. SeenOK(rank, p)'
    BY <2>1, <2>2, <2>3, <2>4, <2>5 DEF SeenOK, SafePcs
  <2>7. ~M!Scanning(p) /\ \A k, b : Relies(p, k, b)' => b \in {head, tail}
    BY <2>1, <2>3, NotScanning DEF Relies, SafePcs
  <2>8. /\ pc'[p] \in FreshPcs /\ pc[p] \in FreshPcs /\ pc'[p] \notin HeldPcs
        /\ new' = new /\ tail' = tail /\ UNCHANGED <<heap, retired, scan, head, next>>
    BY <2>1, <2>3 DEF FreshPcs, HeldPcs, OwnStep
  <2>9. QED
    BY <2>2, <2>3, <2>6, <2>7, <2>8, LocalStep
<1>5. CASE M!EnqNext(p)
  <2>1. PICK label \in {"enqCas", "enqHelp"} :
          /\ pc[p] = "enqNext" /\ OwnStep(p, label) /\ (label = "enqHelp" => next[node[p]] # NULL)
          /\ lnext' = [lnext EXCEPT ![p] = next[node[p]]]
          /\ UNCHANGED <<hp, tail, new, node, seen>>
    BY <1>5 DEF M!EnqNext, M!Goto, OwnStep, M!pool, M!list
  <2>2. tail \in Listed /\ rank[tail] \in Nat /\ node[p] \in Listed /\ node[p] \in Nodes /\ hp[p][0] = node[p]
    <3>1. node[p] \in Listed /\ hp[p][0] = node[p]
      BY <2>1 DEF Ranked, SeenOK, SafePcs
    <3>2. QED
      BY <3>1, ListNodes
  <2>3. pc'[p] = label /\ OthersRest(p) /\ NodeTypeOK' /\ lnext'[p] = next[node[p]]
    BY <2>1, <2>2 DEF Ranked, NodeTypeOK, OthersRest, OwnStep
  <2>4. Fresh' = Fresh /\ Listed' = Listed /\ next' = next
    BY <2>1, <2>3 DEF Fresh, Listed, OthersRest, OwnStep, FreshPcs
  <2>5. SeenOK(rank, p)'
    BY <2>1, <2>2, <2>3, <2>4 DEF SeenOK, SafePcs
  <2>6. ~M!Scanning(p) /\ \A k, b : Relies(p, k, b)' => Relies(p, k, b)
    BY <2>1, <2>3, NotScanning DEF Relies, SafePcs
  <2>7. /\ pc'[p] \in FreshPcs /\ pc[p] \in FreshPcs /\ pc'[p] \notin HeldPcs
        /\ new' = new /\ tail' = tail /\ UNCHANGED <<heap, retired, scan, head, next>>
    BY <2>1, <2>3 DEF FreshPcs, HeldPcs, OwnStep
  <2>8. QED
    BY <2>2, <2>3, <2>5, <2>6, <2>7, LocalStep
<1>6. CASE M!EnqCas(p)
  <2>1. next[node[p]] # expect[p]
    BY <1>6
  <2>2. Ranked(rank)'
    <3>1. pc[p] = "enqCas" /\ OwnStep(p, "enqTail") /\ UNCHANGED <<hp, tail, new, node, lnext, seen>>
      BY <1>6, <2>1 DEF M!EnqCas, M!Goto, OwnStep, M!pool
    <3>2. tail \in Listed /\ rank[tail] \in Nat
      BY ListNodes
    <3>3. pc'[p] = "enqTail" /\ OthersRest(p) /\ NodeTypeOK'
      BY <3>1 DEF Ranked, NodeTypeOK, OthersRest, OwnStep
    <3>4. SeenOK(rank, p)'
      BY <3>3 DEF SeenOK, SafePcs
    <3>5. ~M!Scanning(p) /\ \A k, b : ~Relies(p, k, b)'
      BY <3>1, <3>3, NotScanning DEF Relies, SafePcs
    <3>6. /\ pc'[p] \in FreshPcs /\ pc[p] \in FreshPcs /\ pc'[p] \notin HeldPcs
          /\ new' = new /\ tail' = tail /\ UNCHANGED <<heap, retired, scan, head, next>>
      BY <3>1, <3>3 DEF FreshPcs, HeldPcs, OwnStep
    <3>7. QED
      BY <3>2, <3>3, <3>4, <3>5, <3>6, LocalStep
  <2>3. QED
    BY <2>2
<1>7. CASE M!EnqHelp(p)
  <2>1. /\ pc[p] = "enqHelp" /\ OwnStep(p, "enqTail") /\ tail' = IF tail = node[p] THEN lnext[p] ELSE tail
        /\ UNCHANGED <<hp, new, node, lnext, seen>>
    BY <1>7 DEF M!EnqHelp, M!Goto, OwnStep, M!pool, M!locals
  <2>2. tail' \in Listed /\ rank[tail] <= rank[tail'] /\ tail' \in Nodes
    <3>1. tail = node[p] => next[tail] # NULL /\ lnext[p] = next[tail]
      BY <2>1 DEF Ranked, SeenOK
    <3>2. QED
      BY <2>1, <3>1, ListNodes, NextInList
  <2>3. pc'[p] = "enqTail" /\ OthersRest(p) /\ NodeTypeOK'
    BY <2>1, <2>2 DEF Ranked, NodeTypeOK, OthersRest, OwnStep
  <2>4. SeenOK(rank, p)'
    BY <2>3 DEF SeenOK, SafePcs
  <2>5. ~M!Scanning(p) /\ \A k, b : ~Relies(p, k, b)'
    BY <2>1, <2>3, NotScanning DEF Relies, SafePcs
  <2>6. /\ pc'[p] \in FreshPcs /\ pc[p] \in FreshPcs /\ pc'[p] \notin HeldPcs
        /\ new' = new /\ UNCHANGED <<heap, retired, scan, head, next>>
    BY <2>1, <2>3 DEF FreshPcs, HeldPcs, OwnStep
  <2>7. QED
    BY <2>2, <2>3, <2>4, <2>5, <2>6, LocalStep
<1>8. CASE M!EnqSwing(p)
  <2>1. /\ pc[p] = "enqSwing" /\ OwnStep(p, "enqClear") /\ tail' = IF tail = node[p] THEN new[p] ELSE tail
        /\ UNCHANGED <<hp, new, node, lnext, seen>>
    BY <1>8 DEF M!EnqSwing, M!Goto, OwnStep, M!pool, M!locals
  <2>2. tail' \in Listed /\ rank[tail] <= rank[tail'] /\ tail' \in Nodes
    <3>1. tail = node[p] => next[tail] # NULL /\ new[p] = next[tail]
      BY <2>1 DEF Ranked, SeenOK
    <3>2. QED
      BY <2>1, <3>1, ListNodes, NextInList
  <2>3. pc'[p] = "enqClear" /\ OthersRest(p) /\ NodeTypeOK'
    BY <2>1, <2>2 DEF Ranked, NodeTypeOK, OthersRest, OwnStep
  <2>4. SeenOK(rank, p)'
    BY <2>3 DEF SeenOK, SafePcs
  <2>5. ~M!Scanning(p) /\ \A k, b : ~Relies(p, k, b)'
    BY <2>1, <2>3, NotScanning DEF Relies, SafePcs
  <2>6. /\ pc'[p] \notin FreshPcs /\ pc[p] \notin FreshPcs /\ pc'[p] \notin HeldPcs
        /\ new' = new /\ UNCHANGED <<heap, retired, scan, head, next>>
    BY <2>1, <2>3 DEF FreshPcs, HeldPcs, OwnStep
  <2>7. QED
    BY <2>2, <2>3, <2>4, <2>5, <2>6, LocalStep
<1>9. CASE M!EnqClear(p)
  <2>1. pc[p] = "enqClear" /\ OwnStep(p, "idle") /\ M!Clear(p) /\ UNCHANGED <<tail, new, node, lnext, seen>>
    BY <1>9 DEF M!EnqClear, M!Answer, OwnStep, M!list, M!locals
  <2>2. QED
    BY <2>1, ClearAndAnswer
<1>10. QED
  BY <1>1, <1>2, <1>3, <1>4, <1>5, <1>6, <1>7, <1>8, <1>9 DEF M!EnqStep

\* The steps of dequeue.
LEMMA DequeueRanked ==
  ASSUME NEW rank, rank \in [Nodes -> Nat], Ranked(rank), NEW p \in Procs, M!DeqStep(p)
  PROVE  Ranked(rank)'
<1> USE DEF NodeEnqPcs, NodeDeqPcs
<1>1. tail \in Listed /\ head \in Listed /\ {head, tail} \subseteq Nodes /\ rank[head] <= rank[tail]
      /\ rank[head] \in Nat /\ rank[tail] \in Nat
  BY ListNodes
<1>2. CASE M!DeqHead(p)
  <2>1. CASE M!ProtectLoad(p, "deqHead", head, "deqHeadHp", "deqTail") /\ node' = [node EXCEPT ![p] = head]
             /\ UNCHANGED lnext
    <3>1. PICK label \in {"deqTail", "deqHeadHp"} :
            /\ pc[p] = "deqHead" /\ OwnStep(p, label) /\ (label = "deqTail" => seen[p] = head)
            /\ node' = [node EXCEPT ![p] = head]
            /\ seen' \in {seen, [seen EXCEPT ![p] = head]}
            /\ UNCHANGED <<hp, tail, new, lnext>>
      BY <2>1 DEF M!ProtectLoad, M!Goto, OwnStep, M!pool, M!list
    <3>2. pc'[p] = label /\ OthersRest(p) /\ NodeTypeOK' /\ node'[p] = head
      <4>1. seen' \in [Procs -> Nodes \cup {NULL}] /\ \A q \in Procs \ {p} : seen'[q] = seen[q]
        BY <1>1, <3>1 DEF Ranked, NodeTypeOK
      <4>2. node' \in [Procs -> Nodes \cup {NULL}] /\ node'[p] = head /\ \A q \in Procs \ {p} : node'[q] = node[q]
        BY <1>1, <3>1 DEF Ranked, NodeTypeOK
      <4>3. pc'[p] = label /\ OthersRest(p)
        BY <3>1, <4>1, <4>2 DEF Ranked, NodeTypeOK, OthersRest, OwnStep
      <4>4. NodeTypeOK'
        BY <3>1, <4>1, <4>2 DEF Ranked, NodeTypeOK, OwnStep
      <4>5. QED
        BY <4>2, <4>3, <4>4
    <3>3. label = "deqTail" => hp[p][0] = head
      BY <1>1, <3>1, Numbers DEF Ranked, SeenOK
    <3>4. Fresh' = Fresh /\ Listed' = Listed
      BY <3>1, <3>2 DEF Fresh, Listed, OthersRest, OwnStep, FreshPcs
    <3>5. SeenOK(rank, p)'
      BY <1>1, <3>1, <3>2, <3>3, <3>4 DEF SeenOK, SafePcs, OwnStep
    <3>6. ~M!Scanning(p) /\ \A k, b : Relies(p, k, b)' => b \in {head, tail}
      BY <3>1, <3>2, NotScanning DEF Relies, SafePcs
    <3>7. /\ pc'[p] \notin FreshPcs /\ pc[p] \notin FreshPcs /\ pc'[p] \notin HeldPcs
          /\ new' = new /\ tail' = tail /\ UNCHANGED <<heap, retired, scan, head, next>>
      BY <3>1, <3>2 DEF FreshPcs, HeldPcs, OwnStep
    <3>8. QED
      BY <1>1, <3>2, <3>5, <3>6, <3>7, LocalStep
  <2>2. CASE M!ProtectStore(p, "deqHeadHp", 0, "deqHead")
    <3>1. /\ pc[p] = "deqHeadHp" /\ OwnStep(p, "deqHead") /\ hp' = [hp EXCEPT ![p] = [hp[p] EXCEPT ![0] = seen[p]]]
          /\ UNCHANGED <<tail, new, node, lnext, seen>>
      BY <2>2 DEF M!ProtectStore, M!Goto, OwnStep, M!Publish, M!list, M!locals
    <3>2. pc'[p] = "deqHead" /\ OthersRest(p) /\ NodeTypeOK' /\ hp'[p][0] = seen[p]
      BY <3>1, Numbers DEF Ranked, NodeTypeOK, OthersRest, OwnStep
    <3>3. SeenOK(rank, p)'
      BY <3>1, <3>2 DEF SeenOK, SafePcs
    <3>4. ~M!Scanning(p) /\ \A k, b : ~Relies(p, k, b)'
      BY <3>1, <3>2, NotScanning DEF Relies, SafePcs
    <3>5. /\ pc'[p] \notin FreshPcs /\ pc[p] \notin FreshPcs /\ pc'[p] \notin HeldPcs
          /\ new' = new /\ tail' = tail /\ UNCHANGED <<heap, retired, scan, head, next>>
      BY <3>1, <3>2 DEF FreshPcs, HeldPcs, OwnStep
    <3>6. QED
      BY <1>1, <3>2, <3>3, <3>4, <3>5, LocalStep
  <2>3. QED
    BY <1>2, <2>1, <2>2 DEF M!DeqHead
<1>3. CASE M!DeqTail(p)
  <2>1. PICK label \in {"deqEmpty", "deqNext"} :
          /\ pc[p] = "deqTail" /\ OwnStep(p, label) /\ (label = "deqNext" => node[p] # tail)
          /\ seen' = [seen EXCEPT ![p] = NULL]
          /\ UNCHANGED <<hp, tail, new, node, lnext>>
    BY <1>3 DEF M!DeqTail, M!Goto, OwnStep, M!pool, M!list, M!ProtectFirst
  <2>2. /\ hp[p][0] = node[p] /\ node[p] \in Listed /\ rank[node[p]] <= rank[head]
    BY <2>1 DEF Ranked, SeenOK, SafePcs
  <2>3. pc'[p] = label /\ OthersRest(p) /\ NodeTypeOK' /\ seen'[p] = NULL
    BY <2>1 DEF Ranked, NodeTypeOK, OthersRest, OwnStep
  <2>4. label = "deqNext" => rank[node[p]] < rank[tail]
    <3>1. node[p] # tail => rank[node[p]] # rank[tail]
      BY <1>1, <2>2 DEF Ranked, RankOK
    <3>2. rank[node[p]] \in Nat
      BY <2>2, ListNodes
    <3>3. QED
      BY <1>1, <2>1, <2>2, <3>1, <3>2
  <2>5. Fresh' = Fresh /\ Listed' = Listed
    BY <2>1, <2>3 DEF Fresh, Listed, OthersRest, OwnStep, FreshPcs
  <2>6. SeenOK(rank, p)'
    BY <2>1, <2>2, <2>3, <2>4, <2>5 DEF SeenOK, SafePcs, OwnStep
  <2>7. ~M!Scanning(p) /\ \A k, b : Relies(p, k, b)' => Relies(p, k, b)
    BY <2>1, <2>3, NotScanning DEF Relies, SafePcs
  <2>8. /\ pc'[p] \notin FreshPcs /\ pc[p] \notin FreshPcs /\ pc'[p] \notin HeldPcs
        /\ new' = new /\ tail' = tail /\ UNCHANGED <<heap, retired, scan, head, next>>
    BY <2>1, <2>3 DEF FreshPcs, HeldPcs, OwnStep
  <2>9. QED
    BY <1>1, <2>3, <2>6, <2>7, <2>8, LocalStep
<1>4. CASE M!DeqNext(p)
  <2>1. CASE M!ProtectLoad(p, "deqNext", next[node[p]], "deqNextHp", "deqCas")
             /\ lnext' = [lnext EXCEPT ![p] = next[node[p]]] /\ UNCHANGED node
    <3>1. PICK label \in {"deqCas", "deqNextHp"} :
            /\ pc[p] = "deqNext" /\ OwnStep(p, label) /\ (label = "deqCas" => seen[p] = next[node[p]])
            /\ lnext' = [lnext EXCEPT ![p] = next[node[p]]]
            /\ seen' \in {seen, [seen EXCEPT ![p] = next[node[p]]]}
            /\ UNCHANGED <<hp, tail, new, node>>
      BY <2>1 DEF M!ProtectLoad, M!Goto, OwnStep, M!pool, M!list
    <3>2. /\ hp[p][0] = node[p] /\ node[p] \in Listed /\ rank[node[p]] < rank[tail] /\ node[p] \in Nodes
          /\ next[node[p]] # NULL
      <4>1. hp[p][0] = node[p] /\ node[p] \in Listed /\ rank[node[p]] < rank[tail]
        BY <3>1 DEF Ranked, SeenOK, SafePcs
      <4>2. QED
        BY <1>1, <4>1, ListNodes, HasNext
    <3>3. pc'[p] = label /\ OthersRest(p) /\ NodeTypeOK' /\ lnext'[p] = next[node[p]]
      <4>1. seen' \in [Procs -> Nodes \cup {NULL}] /\ \A q \in Procs \ {p} : seen'[q] = seen[q]
        BY <3>1, <3>2 DEF Ranked, NodeTypeOK
      <4>2. /\ lnext' \in [Procs -> Nodes \cup {NULL}] /\ lnext'[p] = next[node[p]]
            /\ \A q \in Procs \ {p} : lnext'[q] = lnext[q]
        BY <3>1, <3>2 DEF Ranked, NodeTypeOK
      <4>3. pc'[p] = label /\ OthersRest(p)
        BY <3>1, <4>1, <4>2 DEF Ranked, NodeTypeOK, OthersRest, OwnStep
      <4>4. NodeTypeOK'
        BY <3>1, <4>1, <4>2 DEF Ranked, NodeTypeOK, OwnStep
      <4>5. QED
        BY <4>2, <4>3, <4>4
    <3>4. label = "deqCas" => hp[p][1] = next[node[p]]
      BY <3>1, <3>2 DEF Ranked, SeenOK
    <3>5. Fresh' = Fresh /\ Listed' = Listed
      BY <3>1, <3>3 DEF Fresh, Listed, OthersRest, OwnStep, FreshPcs
    <3>6. SeenOK(rank, p)'
      BY <3>1, <3>2, <3>3, <3>4, <3>5 DEF SeenOK, SafePcs, OwnStep
    <3>7. ~M!Scanning(p) /\ \A k, b : Relies(p, k, b)' => Relies(p, k, b)
      BY <3>1, <3>3, NotScanning DEF Relies, SafePcs
    <3>8. /\ pc'[p] \notin FreshPcs /\ pc[p] \notin FreshPcs /\ pc'[p] \notin HeldPcs
          /\ new' = new /\ tail' = tail /\ UNCHANGED <<heap, retired, scan, head, next>>
      BY <3>1, <3>3 DEF FreshPcs, HeldPcs, OwnStep
    <3>9. QED
      BY <1>1, <3>3, <3>6, <3>7, <3>8, LocalStep
  <2>2. CASE M!ProtectStore(p, "deqNextHp", 1, "deqNext")
    <3>1. /\ pc[p] = "deqNextHp" /\ OwnStep(p, "deqNext") /\ hp' = [hp EXCEPT ![p] = [hp[p] EXCEPT ![1] = seen[p]]]
          /\ UNCHANGED <<tail, new, node, lnext, seen>>
      BY <2>2 DEF M!ProtectStore, M!Goto, OwnStep, M!Publish, M!list, M!locals
    <3>2. pc'[p] = "deqNext" /\ OthersRest(p) /\ NodeTypeOK' /\ hp'[p][1] = seen[p] /\ hp'[p][0] = hp[p][0]
      BY <3>1, Numbers DEF Ranked, NodeTypeOK, OthersRest, OwnStep
    <3>3. /\ hp[p][0] = node[p] /\ node[p] \in Listed /\ rank[node[p]] < rank[tail]
      BY <3>1 DEF Ranked, SeenOK, SafePcs
    <3>4. Fresh' = Fresh /\ Listed' = Listed
      BY <3>1, <3>2 DEF Fresh, Listed, OthersRest, OwnStep, FreshPcs
    <3>5. SeenOK(rank, p)'
      BY <3>1, <3>2, <3>3, <3>4 DEF SeenOK, SafePcs
    <3>6. ~M!Scanning(p) /\ \A k, b : Relies(p, k, b)' => Relies(p, k, b)
      BY <3>1, <3>2, NotScanning DEF Relies, SafePcs
    <3>7. /\ pc'[p] \notin FreshPcs /\ pc[p] \notin FreshPcs /\ pc'[p] \notin HeldPcs
          /\ new' = new /\ tail' = tail /\ UNCHANGED <<heap, retired, scan, head, next>>
      BY <3>1, <3>2 DEF FreshPcs, HeldPcs, OwnStep
    <3>8. QED
      BY <1>1, <3>2, <3>5, <3>6, <3>7, LocalStep
  <2>3. QED
    BY <1>4, <2>1, <2>2 DEF M!DeqNext
<1>5. CASE M!DeqCas(p)
  <2>1. CASE head = node[p]
    BY <1>5, <2>1, HeadMoves
  <2>2. CASE head # node[p]
    <3>1. /\ pc[p] = "deqCas" /\ OwnStep(p, "deqHead") /\ seen' = [seen EXCEPT ![p] = NULL]
          /\ UNCHANGED <<hp, tail, new, node, lnext>>
      BY <1>5, <2>2 DEF M!DeqCas, M!Goto, OwnStep, M!pool, M!ProtectFirst
    <3>2. pc'[p] = "deqHead" /\ OthersRest(p) /\ NodeTypeOK' /\ seen'[p] = NULL
      BY <3>1 DEF Ranked, NodeTypeOK, OthersRest, OwnStep
    <3>3. SeenOK(rank, p)'
      BY <3>2 DEF SeenOK, SafePcs
    <3>4. ~M!Scanning(p) /\ \A k, b : ~Relies(p, k, b)'
      BY <3>1, <3>2, NotScanning DEF Relies, SafePcs
    <3>5. /\ pc'[p] \notin FreshPcs /\ pc[p] \notin FreshPcs /\ pc'[p] \notin HeldPcs
          /\ new' = new /\ tail' = tail /\ UNCHANGED <<heap, retired, scan, head, next>>
      BY <3>1, <3>2 DEF FreshPcs, HeldPcs, OwnStep
    <3>6. QED
      BY <1>1, <3>2, <3>3, <3>4, <3>5, LocalStep
  <2>3. QED
    BY <2>1, <2>2
<1>6. CASE M!DeqItem(p) \/ M!DeqClear(p)
  <2>1. PICK label \in {"deqClear", "deqRetire"} :
          /\ pc[p] \in {"deqItem", "deqClear"} /\ OwnStep(p, label)
          /\ hp' = hp \/ M!Clear(p)
          /\ UNCHANGED <<tail, new, node, lnext, seen>>
    <3>1. CASE M!DeqItem(p)
      BY <3>1 DEF M!DeqItem, M!Goto, OwnStep, M!pool, M!list
    <3>2. CASE M!DeqClear(p)
      BY <3>2 DEF M!DeqClear, M!Goto, OwnStep, M!list, M!locals
    <3>3. QED
      BY <1>6, <3>1, <3>2
  <2>2. pc'[p] = label /\ OthersRest(p) /\ NodeTypeOK'
    <3>1. hp' \in [Procs -> [0 .. HPs - 1 -> Nodes \cup {NULL}]] /\ \A q \in Procs \ {p} : hp'[q] = hp[q]
      <4>1. CASE hp' = hp
        BY <4>1 DEF Ranked, NodeTypeOK
      <4>2. CASE M!Clear(p)
        BY <4>2 DEF Ranked, NodeTypeOK, M!Clear
      <4>3. QED
        BY <2>1, <4>1, <4>2
    <3>2. QED
      BY <2>1, <3>1 DEF Ranked, NodeTypeOK, OthersRest, OwnStep
  <2>3. SeenOK(rank, p)'
    BY <2>2 DEF SeenOK, SafePcs
  <2>4. ~M!Scanning(p) /\ \A k, b : ~Relies(p, k, b)'
    BY <2>1, <2>2, NotScanning DEF Relies, SafePcs
  <2>5. /\ pc'[p] \notin FreshPcs /\ pc[p] \notin FreshPcs /\ pc[p] \in HeldPcs /\ node' = node
        /\ new' = new /\ tail' = tail /\ UNCHANGED <<heap, retired, scan, head, next>>
    BY <2>1, <2>2 DEF FreshPcs, HeldPcs, OwnStep
  <2>6. QED
    BY <1>1, <2>2, <2>3, <2>4, <2>5, LocalStep
<1>7. CASE M!DeqRetire(p)
  BY <1>7, NodeRetired
<1>8. CASE M!DeqScan(p)
  BY <1>8, HazardLoaded, NodeDeleted DEF M!DeqScan
<1>9. CASE M!DeqReturn(p)
  <2>1. /\ pc[p] = "deqScan" /\ ~M!Scanning(p) /\ OwnStep(p, "idle") /\ UNCHANGED <<hp, tail, new, node, lnext, seen>>
    BY <1>9 DEF M!DeqReturn, M!Answer, OwnStep, M!pool, M!list, M!locals
  <2>2. pc'[p] = "idle" /\ OthersRest(p) /\ NodeTypeOK'
    BY <2>1 DEF Ranked, NodeTypeOK, OthersRest, OwnStep
  <2>3. SeenOK(rank, p)'
    BY <2>2 DEF SeenOK, SafePcs
  <2>4. \A k, b : ~Relies(p, k, b)'
    BY <2>1, <2>2 DEF Relies, SafePcs
  <2>5. /\ pc'[p] \notin FreshPcs /\ pc[p] \notin FreshPcs /\ pc'[p] \notin HeldPcs
        /\ new' = new /\ tail' = tail /\ UNCHANGED <<heap, retired, scan, head, next>>
    BY <2>1, <2>2 DEF FreshPcs, HeldPcs, OwnStep
  <2>6. QED
    BY <1>1, <2>1, <2>2, <2>3, <2>4, <2>5, LocalStep
<1>10. CASE M!DeqEmpty(p)
  <2>1. pc[p] = "deqEmpty" /\ OwnStep(p, "idle") /\ M!Clear(p) /\ UNCHANGED <<tail, new, node, lnext, seen>>
    BY <1>10 DEF M!DeqEmpty, M!Answer, OwnStep, M!list, M!locals
  <2>2. QED
    BY <2>1, ClearAndAnswer
<1>11. QED
  BY <1>2, <1>3, <1>4, <1>5, <1>6, <1>7, <1>8, <1>9, <1>10 DEF M!DeqStep

\* The calls.
LEMMA CallRanked ==
  ASSUME NEW rank, rank \in [Nodes -> Nat], Ranked(rank), NEW p \in Procs,
         M!Dequeue(p) \/ \E v \in Items : M!Enqueue(p, v)
  PROVE  Ranked(rank)'
<1>1. PICK label \in {"enqNew", "deqHead"} :
        /\ pc[p] = "idle" /\ OwnStep(p, label)
        /\ label = "deqHead" => seen' = [seen EXCEPT ![p] = NULL]
        /\ label = "enqNew" => seen' = seen
        /\ UNCHANGED <<hp, tail, new, node, lnext>>
  <2>1. CASE M!Dequeue(p)
    BY <2>1 DEF M!Dequeue, M!CallDequeue, M!Goto, OwnStep, M!pool, M!list, M!ProtectFirst
  <2>2. CASE \E v \in Items : M!Enqueue(p, v)
    BY <2>2 DEF M!Enqueue, M!CallEnqueue, OwnStep, M!pool, M!list
  <2>3. QED
    BY <2>1, <2>2
<1>2. tail \in Listed /\ rank[tail] \in Nat
  BY ListNodes
<1>3. pc'[p] = label /\ OthersRest(p) /\ NodeTypeOK' /\ (label = "deqHead" => seen'[p] = NULL)
  <2>1. NodeTypeOK /\ seen \in [Procs -> Nodes \cup {NULL}]
    BY DEF Ranked, NodeTypeOK
  <2>2. seen' \in [Procs -> Nodes \cup {NULL}] /\ \A q \in Procs \ {p} : seen'[q] = seen[q]
    BY <1>1, <2>1
  <2>3. label = "deqHead" => seen'[p] = NULL
    BY <1>1, <2>1
  <2>4. label \in {"idle"} \cup NodeEnqPcs \cup NodeDeqPcs
    BY <1>1 DEF NodeEnqPcs, NodeDeqPcs
  <2>5. pc' = [pc EXCEPT ![p] = label] /\ UNCHANGED <<heap, retired, scan, head, next>>
    BY <1>1 DEF OwnStep
  <2>6. /\ pc' \in [Procs -> {"idle"} \cup NodeEnqPcs \cup NodeDeqPcs]
        /\ pc'[p] = label /\ \A q \in Procs \ {p} : pc'[q] = pc[q]
    BY <2>1, <2>4, <2>5 DEF NodeTypeOK
  <2>7. NodeTypeOK'
    BY <1>1, <2>1, <2>2, <2>5, <2>6 DEF NodeTypeOK
  <2>8. OthersRest(p)
    BY <1>1, <2>2, <2>6 DEF OthersRest
  <2>9. QED
    BY <2>3, <2>6, <2>7, <2>8
<1>4. SeenOK(rank, p)'
  BY <1>3 DEF SeenOK, SafePcs
<1>5. ~M!Scanning(p) /\ \A k, b : ~Relies(p, k, b)'
  BY <1>1, <1>3, NotScanning DEF Relies, SafePcs
<1>6. /\ pc'[p] \notin FreshPcs /\ pc[p] \notin FreshPcs /\ pc'[p] \notin HeldPcs
      /\ new' = new /\ tail' = tail /\ UNCHANGED <<heap, retired, scan, head, next>>
  BY <1>1, <1>3 DEF FreshPcs, HeldPcs, OwnStep
<1>7. QED
  BY <1>2, <1>3, <1>4, <1>5, <1>6, LocalStep

-----------------------------------------------------------------------------
(***************************************************************************)
(* The answers of MSQueue.  The queue is what lies after head, up to tail: *)
(* an enqueue takes effect when tail reaches its node, whoever moves it, a *)
(* dequeue when head leaves its node or the dequeue finds tail at it.      *)
(***************************************************************************)
LP == INSTANCE Linearization_proofs

\* The explanations of MSQueue are those that module Linearization_proofs is about.
LEMMA SameExplanations ==
  /\ M!Pending = Pending
  /\ \A C, pending, p, a : LP!Respond(C, pending, p, a) = M!L!Respond(C, pending, p, a)
<1>1. \A c, p, o : LP!TakeEffect(c, p, o) = M!L!TakeEffect(c, p, o)
  BY DEF LP!TakeEffect, M!L!TakeEffect, LP!Answer, M!L!Answer
<1>2. ASSUME NEW C, NEW pending PROVE LP!Explanations(C, pending) = M!L!Explanations(C, pending)
  BY DEF LP!TakeEffect, M!L!TakeEffect, LP!Answer, M!L!Answer, LP!OneMore, M!L!OneMore,
     LP!Explanations, M!L!Explanations, LP!Cardinality, M!L!Cardinality
<1>3. ASSUME NEW C, NEW pending, NEW p, NEW a
      PROVE  LP!Respond(C, pending, p, a) = M!L!Respond(C, pending, p, a)
  BY <1>2 DEF LP!Respond, M!L!Respond
<1>4. M!Pending = Pending
  BY DEF M!Pending, Pending
<1>. QED
  BY <1>3, <1>4

-----------------------------------------------------------------------------
\* Thread p has linked a node that tail has not reached.
Unswung(p) == pc[p] = "enqSwing" /\ node[p] = tail

\* What thread p is going to answer, once its call has taken effect: an enqueue does when
\* tail reaches its node, a dequeue when head leaves its node, or finds tail there.
MsAnswer(p) ==
  IF pc[p] = "enqClear" \/ (pc[p] = "enqSwing" /\ node[p] # tail) THEN OK
  ELSE IF pc[p] = "deqItem" THEN item[lnext[p]]
  ELSE IF pc[p] \in {"deqClear", "deqRetire", "deqScan"} THEN x[p]
  ELSE IF pc[p] = "deqEmpty" THEN EMPTY
  ELSE NONE

MsConfig(q) == [q |-> q, ans |-> [p \in Procs |-> MsAnswer(p)]]

\* q are the items of the nodes after head, up to tail.
Lists(rank, q) ==
  /\ q \in Seq(Items) /\ rank[tail] = rank[head] + Len(q)
  /\ \A n \in Listed : \A i \in 1 .. Len(q) : rank[n] = rank[head] + i => item[n] = q[i]

ValuesOK ==
  /\ item \in [Nodes -> Items \cup {NONE}]
  /\ {x, arg} \subseteq [Procs -> Items \cup {NONE}]
  /\ lin \subseteq LP!Configurations(Items)

TailPcs == {"enqNext", "enqCas", "enqHelp", "enqSwing"}

\* What an enqueue carries, and the node behind which it looks for its place.
CarriedOK(rank, p) ==
  /\ pc[p] \in NodeEnqPcs => arg[p] \in Items
  /\ pc[p] \notin NodeEnqPcs => arg[p] = NONE
  /\ pc[p] \in FreshPcs \/ Unswung(p) => item[new[p]] = arg[p]
  /\ pc[p] \in TailPcs => rank[node[p]] <= rank[tail]

\* tail is at the last node or at the one before it, and then one thread has linked it.
TailOK(rank) ==
  /\ \A n \in Listed : rank[n] <= rank[tail] + 1
  /\ next[tail] # NULL => \E u \in Procs : Unswung(u)
  /\ \A u, v \in Procs : Unswung(u) /\ Unswung(v) => u = v

MsLin(rank) ==
  /\ ValuesOK /\ TailOK(rank) /\ \A p \in Procs : CarriedOK(rank, p)
  /\ \E q : Lists(rank, q) /\ MsConfig(q) \in LP!Explanations(lin, Pending)

\* The thread's own: what the other threads have read, and carry.
OthersKeep(p) ==
  /\ OthersRest(p)
  /\ \A q \in Procs \ {p} : x'[q] = x[q] /\ arg'[q] = arg[q]

\* The pending calls are calls on the items, by finitely many threads.
LEMMA PendingCalls == ValuesOK => LP!Calls(Items, Pending)
<1>. SUFFICES ASSUME ValuesOK PROVE LP!Calls(Items, Pending)
  OBVIOUS
<1>1. IsFiniteSet(Procs)
  BY PoolAssumption DEF ThreadsAssumption
<1>2. DOMAIN Pending \subseteq Procs
  BY DEF Pending
<1>3. IsFiniteSet(DOMAIN Pending) /\ (IsFiniteSet(DOMAIN Pending) <=> LP!IsFiniteSet(DOMAIN Pending))
  BY <1>1, <1>2, FS_Subset DEF IsFiniteSet, LP!IsFiniteSet
<1>4. \A p \in DOMAIN Pending : Pending[p] \in Items \cup {DEQUEUE}
  BY DEF Pending, ValuesOK
<1>. QED
  BY <1>2, <1>3, <1>4, AnswersAssumption DEF LP!Calls

\* What the state says of the calls is a configuration.
LEMMA MsConfigType ==
  ASSUME NEW rank, rank \in [Nodes -> Nat], Ranked(rank), ValuesOK, NEW q \in Seq(Items)
  PROVE  MsConfig(q) \in LP!Configurations(Items)
<1>1. ASSUME NEW p \in Procs PROVE MsAnswer(p) \in Items \cup {OK, EMPTY, NONE}
  <2>1. pc[p] = "deqItem" => lnext[p] \in Nodes
    BY ListNodes DEF Ranked, SeenOK
  <2>. QED
    BY <2>1 DEF MsAnswer, ValuesOK
<1>. QED
  BY <1>1 DEF MsConfig, LP!Configurations

\* tail is one node short of the end of the list, at most.
LEMMA LastNode ==
  ASSUME NEW rank, rank \in [Nodes -> Nat], Ranked(rank), TailOK(rank), next[tail] # NULL
  PROVE  /\ next[tail] \in Listed /\ rank[next[tail]] = rank[tail] + 1
         /\ next[next[tail]] = NULL
         /\ {rank[head], rank[tail]} \subseteq Nat
<1>1. {head, tail} \subseteq Listed /\ {rank[head], rank[tail]} \subseteq Nat /\ rank[head] <= rank[tail]
  BY ListNodes
<1>2. next[tail] \in Listed /\ rank[next[tail]] = rank[tail] + 1
  BY <1>1 DEF Ranked, RankOK
<1>3. ASSUME next[next[tail]] # NULL PROVE FALSE
  <2>1. next[next[tail]] \in Listed /\ rank[next[next[tail]]] = rank[tail] + 1 + 1
    BY <1>1, <1>2, <1>3 DEF Ranked, RankOK
  <2>2. rank[next[next[tail]]] <= rank[tail] + 1
    BY <2>1 DEF TailOK
  <2>. QED
    BY <1>1, <2>1, <2>2
<1>. QED
  BY <1>1, <1>2, <1>3

\* A step of thread p that leaves the list, and what its call has to answer.
LEMMA QuietStep ==
  ASSUME NEW rank, rank \in [Nodes -> Nat], Ranked(rank), MsLin(rank), NEW p \in Procs, OthersKeep(p),
         UNCHANGED <<head, tail, next, item, new, arg, lin>>, heap' \subseteq heap,
         x' \in [Procs -> Items \cup {NONE}],
         pc[p] # "idle", pc'[p] # "idle",
         pc'[p] \in NodeEnqPcs <=> pc[p] \in NodeEnqPcs,
         pc'[p] \in FreshPcs <=> pc[p] \in FreshPcs,
         ~Unswung(p), ~Unswung(p)', MsAnswer(p)' = MsAnswer(p),
         pc'[p] \in TailPcs => rank[node'[p]] <= rank[tail]
  PROVE  MsLin(rank)'
<1>1. Fresh' = Fresh /\ Listed' \subseteq Listed
  BY DEF Fresh, Listed, OthersKeep, OthersRest
<1>2. ValuesOK'
  BY DEF MsLin, ValuesOK
<1>3. \A q \in Procs : Unswung(q)' <=> Unswung(q)
  BY DEF Unswung, OthersKeep, OthersRest
<1>4. TailOK(rank)'
  BY <1>1, <1>3 DEF MsLin, TailOK
<1>5. ASSUME NEW q \in Procs PROVE CarriedOK(rank, q)'
  <2>1. CarriedOK(rank, q)
    BY DEF MsLin
  <2>2. CASE q = p
    BY <1>3, <2>1, <2>2 DEF CarriedOK
  <2>3. CASE q # p
    BY <1>3, <2>1, <2>3 DEF CarriedOK, OthersKeep, OthersRest
  <2>. QED
    BY <2>2, <2>3
<1>6. Pending' = Pending
  <2>1. \A q \in Procs : (pc'[q] # "idle" <=> pc[q] # "idle") /\ arg'[q] = arg[q]
    BY DEF OthersKeep, OthersRest
  <2>. QED
    BY <2>1 DEF Pending
<1>7. PICK q : Lists(rank, q) /\ MsConfig(q) \in LP!Explanations(lin, Pending)
  BY DEF MsLin
<1>8. Lists(rank, q)'
  BY <1>1, <1>7 DEF Lists
<1>9. MsConfig(q)' = MsConfig(q)
  <2>1. \A t \in Procs : MsAnswer(t)' = MsAnswer(t)
    <3>1. ASSUME NEW t \in Procs \ {p} PROVE MsAnswer(t)' = MsAnswer(t)
      BY DEF MsAnswer, OthersKeep, OthersRest
    <3>. QED
      BY <3>1
  <2>. QED
    BY <2>1 DEF MsConfig
<1>10. MsConfig(q)' \in LP!Explanations(lin, Pending)'
  BY <1>6, <1>7, <1>9
<1>. QED
  BY <1>2, <1>4, <1>5, <1>8, <1>10 DEF MsLin

\* EnqNew: the item is in a node of no list.
LEMMA NewNodeLin ==
  ASSUME NEW rank, rank \in [Nodes -> Nat], Ranked(rank), MsLin(rank), NEW p \in Procs, M!EnqNew(p)
  PROVE  MsLin(rank)'
<1>1. PICK f \in Nodes \ heap :
        /\ heap' = heap \cup {f} /\ new' = [new EXCEPT ![p] = f]
        /\ item' = [item EXCEPT ![f] = arg[p]] /\ next' = [next EXCEPT ![f] = NULL]
  BY DEF M!EnqNew
<1>2. pc[p] = "enqNew" /\ pc' = [pc EXCEPT ![p] = "enqTail"]
      /\ UNCHANGED <<head, tail, node, lnext, x, arg, lin>>
  BY DEF M!EnqNew, M!Goto
<1>3. /\ pc'[p] = "enqTail" /\ new'[p] = f /\ item'[f] = arg[p]
      /\ \A q \in Procs \ {p} : pc'[q] = pc[q] /\ new'[q] = new[q]
      /\ \A m \in Nodes \ {f} : next'[m] = next[m] /\ item'[m] = item[m]
  BY <1>1, <1>2 DEF Ranked, NodeTypeOK, MsLin, ValuesOK
<1>4. Listed' = Listed /\ \A m \in Listed : m \in Nodes \ {f}
  <2>1. Fresh' = Fresh \cup {f}
    BY <1>2, <1>3 DEF Fresh, FreshPcs
  <2>2. \A m \in Listed : m \in Nodes \ {f}
    BY ListNodes DEF Listed
  <2>. QED
    BY <1>1, <2>1, <2>2 DEF Listed
<1>5. tail \in Listed /\ next'[tail] = next[tail]
  BY <1>3, <1>4, ListNodes
<1>6. ValuesOK'
  <2>1. arg[p] \in Items \cup {NONE}
    BY DEF MsLin, ValuesOK
  <2>2. item' \in [Nodes -> Items \cup {NONE}]
    BY <1>1, <2>1 DEF MsLin, ValuesOK
  <2>. QED
    BY <1>2, <2>2 DEF MsLin, ValuesOK
<1>7. \A q \in Procs : (Unswung(q)' <=> Unswung(q)) /\ (Unswung(q) => q # p)
  BY <1>2, <1>3 DEF Unswung
<1>8. TailOK(rank)'
  BY <1>2, <1>4, <1>5, <1>7 DEF MsLin, TailOK
<1>9. ASSUME NEW q \in Procs PROVE CarriedOK(rank, q)'
  <2>1. CarriedOK(rank, q)
    BY DEF MsLin
  <2>2. CASE q = p
    BY <1>2, <1>3, <1>7, <2>1, <2>2 DEF CarriedOK, NodeEnqPcs, TailPcs
  <2>3. CASE q # p
    <3>1. pc[q] \in FreshPcs => new[q] \in heap /\ new[q] \in Nodes
      BY DEF Ranked, FreshOK, NodeTypeOK
    <3>2. Unswung(q) => new[q] \in Listed
      <4>1. pc[q] = "enqSwing" => new[q] = next[node[q]] /\ new[q] # NULL
        BY DEF Ranked, SeenOK
      <4>. QED
        BY <4>1, LastNode DEF Unswung, MsLin
    <3>3. pc[q] \in FreshPcs \/ Unswung(q) => item'[new[q]] = item[new[q]]
      BY <1>1, <1>3, <1>4, <3>1, <3>2
    <3>. QED
      BY <1>2, <1>3, <1>7, <2>1, <2>3, <3>3 DEF CarriedOK
  <2>. QED
    BY <2>2, <2>3
<1>10. Pending' = Pending
  <2>1. \A q \in Procs : pc'[q] # "idle" <=> pc[q] # "idle"
    BY <1>2, <1>3
  <2>. QED
    BY <1>2, <2>1 DEF Pending
<1>11. PICK q : Lists(rank, q) /\ MsConfig(q) \in LP!Explanations(lin, Pending)
  BY DEF MsLin
<1>12. Lists(rank, q)'
  BY <1>2, <1>3, <1>4, <1>11 DEF Lists
<1>13. MsConfig(q)' = MsConfig(q)
  <2>1. ASSUME NEW t \in Procs PROVE MsAnswer(t)' = MsAnswer(t)
    <3>1. pc[t] = "deqItem" => lnext[t] \in Listed
      BY DEF Ranked, SeenOK
    <3>2. pc[t] = "deqItem" => item'[lnext[t]] = item[lnext[t]]
      BY <1>3, <1>4, <3>1
    <3>. QED
      BY <1>2, <1>3, <3>2 DEF MsAnswer
  <2>. QED
    BY <2>1 DEF MsConfig
<1>14. MsConfig(q)' \in LP!Explanations(lin, Pending)'
  BY <1>2, <1>10, <1>11, <1>13
<1>. QED
  BY <1>6, <1>8, <1>9, <1>12, <1>14 DEF MsLin

\* EnqCas: the node is behind the one at tail, where it is not an item of the queue yet.
LEMMA LinkLin ==
  ASSUME NEW rank, rank \in [Nodes -> Nat], Ranked(rank), MsLin(rank), NEW p \in Procs, M!EnqCas(p),
         next[node[p]] = NULL, expect[p] = NULL,
         NEW number, number \in [Nodes -> Nat], Ranked(number)', Agrees(number, rank)
  PROVE  MsLin(number)'
<1>1. /\ pc[p] = "enqCas" /\ next' = [next EXCEPT ![node[p]] = new[p]] /\ pc' = [pc EXCEPT ![p] = "enqSwing"]
      /\ UNCHANGED <<heap, head, tail, item, x, arg, lin, node, lnext, new>>
  BY DEF M!EnqCas, M!Goto, M!pool
<1>2. /\ node[p] \in Listed /\ {head, tail} \subseteq Listed /\ rank[head] <= rank[tail]
      /\ {rank[node[p]], rank[head], rank[tail]} \subseteq Nat /\ Listed \subseteq Nodes
  <2>1. node[p] \in Listed
    BY <1>1 DEF Ranked, SeenOK, SafePcs
  <2>. QED
    BY <2>1, ListNodes
<1>3. node[p] = tail
  <2>1. rank[tail] <= rank[node[p]]
    BY <1>2 DEF Ranked, RankOK
  <2>2. rank[node[p]] <= rank[tail]
    BY <1>1 DEF MsLin, CarriedOK, TailPcs
  <2>3. rank[tail] = rank[node[p]]
    BY <1>2, <2>1, <2>2
  <2>. QED
    BY <1>2, <2>3 DEF Ranked, RankOK
<1>4. pc[p] \in FreshPcs /\ new[p] \in heap /\ new[p] \in Fresh /\ new[p] \notin Listed /\ new[p] \in Nodes
  <2>1. pc[p] \in FreshPcs
    BY <1>1 DEF FreshPcs
  <2>2. new[p] \in heap /\ new[p] \in Fresh
    BY <2>1 DEF Ranked, FreshOK, Fresh
  <2>. QED
    BY <2>1, <2>2 DEF Ranked, NodeTypeOK, Listed
<1>5. /\ pc'[p] = "enqSwing" /\ next'[tail] = new[p]
      /\ \A q \in Procs \ {p} : pc'[q] = pc[q]
  BY <1>1, <1>2, <1>3 DEF Ranked, NodeTypeOK
<1>6. Listed' = Listed \cup {new[p]}
  <2>1. \A q \in Procs \ {p} : pc[q] \in FreshPcs => new[q] # new[p]
    BY <1>4 DEF Ranked, FreshOK
  <2>2. \A q \in Procs : pc'[q] \in FreshPcs <=> pc[q] \in FreshPcs /\ q # p
    BY <1>5 DEF FreshPcs
  <2>3. Fresh' = Fresh \ {new[p]}
    BY <1>1, <2>1, <2>2 DEF Fresh
  <2>. QED
    BY <1>1, <1>4, <2>3 DEF Listed
<1>7. /\ \A n \in Listed : number[n] = rank[n] /\ rank[n] \in Nat
      /\ number[new[p]] = rank[tail] + 1
  <2>1. \A n \in Listed : number[n] = rank[n] /\ rank[n] \in Nat
    BY ListNodes DEF Agrees
  <2>2. new[p] # NULL /\ tail \in Listed' /\ number[head'] <= number[tail]
    BY <1>1, <1>2, <1>4, <1>6, <2>1, Numbers
  <2>3. number[next'[tail]] = number[tail] + 1
    BY <1>5, <2>2 DEF Ranked, RankOK
  <2>. QED
    BY <1>2, <1>5, <2>1, <2>3
<1>8. ValuesOK'
  BY <1>1 DEF MsLin, ValuesOK
<1>9. \A q \in Procs : (Unswung(q)' <=> q = p) /\ ~Unswung(q)
  <2>1. \A q \in Procs : ~Unswung(q)
    <3>1. ASSUME NEW q \in Procs, Unswung(q) PROVE FALSE
      <4>1. next[tail] # NULL
        BY <3>1 DEF Ranked, SeenOK, Unswung
      <4>. QED
        BY <1>3, <4>1
    <3>. QED
      BY <3>1
  <2>. QED
    BY <1>1, <1>3, <1>5, <2>1 DEF Unswung
<1>10. TailOK(number)'
  <2>1. \A n \in Listed : rank[n] <= rank[tail] + 1
    BY DEF MsLin, TailOK
  <2>2. \A n \in Listed' : number[n] <= number[tail'] + 1
    BY <1>1, <1>2, <1>6, <1>7, <2>1
  <2>. QED
    BY <1>9, <2>2 DEF TailOK
<1>11. ASSUME NEW q \in Procs PROVE CarriedOK(number, q)'
  <2>1. CarriedOK(rank, q)
    BY DEF MsLin
  <2>2. CASE q = p
    <3>1. arg[p] \in Items /\ item[new[p]] = arg[p]
      BY <1>1, <1>4, <2>1, <2>2 DEF CarriedOK, NodeEnqPcs
    <3>2. number[node[p]] <= number[tail]
      BY <1>2, <1>3, <1>7
    <3>. QED
      BY <1>1, <1>5, <2>2, <3>1, <3>2 DEF CarriedOK, NodeEnqPcs
  <2>3. CASE q # p
    <3>1. pc[q] \in TailPcs => node[q] \in Listed
      BY DEF Ranked, SeenOK, SafePcs, TailPcs
    <3>2. pc[q] \in TailPcs => number[node[q]] <= number[tail]
      BY <1>2, <1>7, <2>1, <3>1 DEF CarriedOK
    <3>. QED
      BY <1>1, <1>5, <1>9, <2>1, <2>3, <3>2 DEF CarriedOK
  <2>. QED
    BY <2>2, <2>3
<1>12. Pending' = Pending
  <2>1. \A q \in Procs : pc'[q] # "idle" <=> pc[q] # "idle"
    BY <1>1, <1>5
  <2>. QED
    BY <1>1, <2>1 DEF Pending
<1>13. PICK q : Lists(rank, q) /\ MsConfig(q) \in LP!Explanations(lin, Pending)
  BY DEF MsLin
<1>14. Lists(number, q)'
  <2>1. q \in Seq(Items) /\ Len(q) \in Nat /\ rank[tail] = rank[head] + Len(q)
    BY <1>13 DEF Lists
  <2>2. number[tail] = number[head] + Len(q)
    BY <1>2, <1>7, <2>1
  <2>3. ASSUME NEW n \in Listed', NEW i \in 1 .. Len(q), number[n] = number[head] + i PROVE item[n] = q[i]
    <3>1. n # new[p]
      BY <1>2, <1>7, <2>1, <2>3
    <3>2. n \in Listed /\ rank[n] = rank[head] + i
      BY <1>2, <1>6, <1>7, <2>3, <3>1
    <3>. QED
      BY <1>13, <3>2 DEF Lists
  <2>. QED
    BY <1>1, <2>1, <2>2, <2>3 DEF Lists
<1>15. MsConfig(q)' = MsConfig(q)
  <2>1. ASSUME NEW t \in Procs PROVE MsAnswer(t)' = MsAnswer(t)
    BY <1>1, <1>3, <1>5 DEF MsAnswer
  <2>. QED
    BY <2>1 DEF MsConfig
<1>16. MsConfig(q)' \in LP!Explanations(lin, Pending)'
  BY <1>1, <1>12, <1>13, <1>15
<1>. QED
  BY <1>8, <1>10, <1>11, <1>14, <1>16 DEF MsLin

\* tail reaches a node, whose enqueue takes effect.
LEMMA MoveLin ==
  ASSUME NEW rank, rank \in [Nodes -> Nat], Ranked(rank), MsLin(rank), NEW p \in Procs, OthersKeep(p),
         next[tail] # NULL, tail' = next[tail],
         UNCHANGED <<head, next, item, x, arg, lin, node, lnext, new, heap>>,
         \/ pc[p] = "enqHelp" /\ pc'[p] = "enqTail"
         \/ Unswung(p) /\ pc'[p] = "enqClear"
  PROVE  MsLin(rank)'
<1>1. /\ tail' \in Listed /\ rank[tail'] = rank[tail] + 1 /\ next[tail'] = NULL
      /\ {rank[head], rank[tail]} \subseteq Nat /\ tail' # tail
  BY LastNode DEF MsLin
<1>2. PICK u \in Procs : Unswung(u)
  BY DEF MsLin, TailOK
<1>3. /\ \A t \in Procs : Unswung(t) => t = u
      /\ p = u \/ pc[p] = "enqHelp"
  BY <1>2 DEF MsLin, TailOK
<1>4. /\ pc[u] = "enqSwing" /\ node[u] = tail /\ new[u] = tail'
      /\ arg[u] \in Items /\ item[tail'] = arg[u]
  <2>1. pc[u] = "enqSwing" /\ node[u] = tail /\ new[u] = tail'
    BY <1>2 DEF Ranked, SeenOK, Unswung
  <2>. QED
    BY <1>2, <2>1 DEF MsLin, CarriedOK, NodeEnqPcs
<1>5. \A t \in Procs : ~Unswung(t)'
  <2>1. ASSUME NEW t \in Procs, Unswung(t)' PROVE FALSE
    <3>1. pc[t] = "enqSwing" /\ node[t] = tail'
      BY <2>1 DEF Unswung, OthersKeep, OthersRest
    <3>2. next[node[t]] # NULL
      BY <3>1 DEF Ranked, SeenOK
    <3>. QED
      BY <1>1, <3>1, <3>2
  <2>. QED
    BY <2>1
<1>6. Listed' = Listed
  <2>1. \A t \in Procs : pc'[t] \in FreshPcs <=> pc[t] \in FreshPcs
    BY DEF OthersKeep, OthersRest, Unswung, FreshPcs
  <2>. QED
    BY <2>1 DEF Fresh, Listed
<1>7. ValuesOK'
  BY DEF MsLin, ValuesOK
<1>8. TailOK(rank)'
  <2>1. \A n \in Listed : rank[n] \in Nat /\ rank[n] <= rank[tail] + 1
    BY ListNodes DEF MsLin, TailOK
  <2>2. \A n \in Listed' : rank[n] <= rank[tail'] + 1
    BY <1>1, <1>6, <2>1
  <2>. QED
    BY <1>1, <1>5, <2>2 DEF TailOK
<1>9. ASSUME NEW t \in Procs PROVE CarriedOK(rank, t)'
  <2>1. CarriedOK(rank, t)
    BY DEF MsLin
  <2>2. pc[t] \in TailPcs => rank[node[t]] <= rank[tail']
    <3>1. pc[t] \in TailPcs => node[t] \in Listed
      BY DEF Ranked, SeenOK, SafePcs, TailPcs
    <3>2. pc[t] \in TailPcs => rank[node[t]] \in Nat
      BY <3>1, ListNodes
    <3>. QED
      BY <1>1, <2>1, <3>2 DEF CarriedOK
  <2>3. CASE t = p
    BY <1>5, <2>1, <2>3 DEF CarriedOK, Unswung, NodeEnqPcs, FreshPcs, TailPcs
  <2>4. CASE t # p
    BY <1>5, <2>1, <2>2, <2>4 DEF CarriedOK, OthersKeep, OthersRest
  <2>. QED
    BY <2>3, <2>4
<1>10. Pending' = Pending
  <2>1. \A t \in Procs : pc'[t] # "idle" <=> pc[t] # "idle"
    BY DEF OthersKeep, OthersRest, Unswung
  <2>. QED
    BY <2>1 DEF Pending
<1>11. PICK q : Lists(rank, q) /\ MsConfig(q) \in LP!Explanations(lin, Pending)
  BY DEF MsLin
<1>12. PICK longer : longer = Append(q, arg[u])
  OBVIOUS
<1>13. q \in Seq(Items) /\ Len(q) \in Nat /\ rank[tail] = rank[head] + Len(q)
  BY <1>11 DEF Lists
<1>14. Lists(rank, longer)'
  <2>1. /\ longer \in Seq(Items) /\ Len(longer) = Len(q) + 1 /\ longer[Len(q) + 1] = arg[u]
        /\ \A i \in 1 .. Len(q) : longer[i] = q[i]
    BY <1>4, <1>13, <1>12
  <2>2. rank[tail'] = rank[head] + Len(longer)
    <3>1. PICK k \in Nat : k = Len(q) /\ rank[tail] = rank[head] + k
      BY <1>13
    <3>2. Len(longer) = k + 1
      BY <2>1, <3>1
    <3>3. rank[tail'] = rank[head] + (k + 1)
      BY <1>1, <3>1
    <3>. QED
      BY <3>2, <3>3
  <2>3. ASSUME NEW n \in Listed, NEW i \in 1 .. Len(longer), rank[n] = rank[head] + i
        PROVE  item[n] = longer[i]
    <3>1. CASE i \in 1 .. Len(q)
      BY <1>11, <2>1, <2>3, <3>1 DEF Lists
    <3>2. CASE i = Len(q) + 1
      <4>1. rank[n] = rank[tail']
        BY <2>1, <2>2, <2>3, <3>2
      <4>2. n = tail'
        BY <1>1, <4>1 DEF Ranked, RankOK
      <4>. QED
        BY <1>4, <2>1, <3>2, <4>2
    <3>. QED
      BY <1>13, <2>1, <3>1, <3>2
  <2>. QED
    BY <1>6, <2>1, <2>2, <2>3 DEF Lists
<1>15. u \in DOMAIN Pending /\ Pending[u] = arg[u] /\ arg[u] # DEQUEUE
  BY <1>4, AnswersAssumption DEF Pending
<1>16. MsConfig(q).ans[u] = NONE
  BY <1>4 DEF MsConfig, MsAnswer
<1>17. LP!TakeEffect(MsConfig(q), u, Pending[u]) = MsConfig(longer)'
  <2>1. LP!TakeEffect(MsConfig(q), u, Pending[u]) = [q |-> longer, ans |-> [MsConfig(q).ans EXCEPT ![u] = OK]]
    BY <1>15, <1>12 DEF LP!TakeEffect, LP!Answer, MsConfig
  <2>2. ASSUME NEW t \in Procs PROVE MsAnswer(t)' = IF t = u THEN OK ELSE MsAnswer(t)
    <3>1. CASE t = u
      <4>1. pc'[u] = "enqClear" \/ pc'[u] = "enqSwing"
        BY <1>3, <1>4 DEF OthersKeep, OthersRest
      <4>2. node'[u] # tail'
        BY <1>1, <1>4
      <4>. QED
        BY <3>1, <4>1, <4>2 DEF MsAnswer
    <3>2. CASE t # u /\ t = p
      BY <1>3, <3>2 DEF MsAnswer, Unswung
    <3>3. CASE t # u /\ t # p
      <4>1. ~Unswung(t) /\ ~Unswung(t)'
        BY <1>3, <1>5, <3>3
      <4>. QED
        BY <3>3, <4>1 DEF MsAnswer, Unswung, OthersKeep, OthersRest
    <3>. QED
      BY <3>1, <3>2, <3>3
  <2>3. [MsConfig(q).ans EXCEPT ![u] = OK] = [t \in Procs |-> MsAnswer(t)']
    BY <2>2 DEF MsConfig
  <2>. QED
    BY <2>1, <2>3 DEF MsConfig
<1>18. MsConfig(longer)' \in LP!Explanations(lin, Pending)'
  <2>1. LP!Calls(Items, Pending) /\ lin \subseteq LP!Configurations(Items)
    BY PendingCalls DEF MsLin, ValuesOK
  <2>2. LP!TakeEffect(MsConfig(q), u, Pending[u]) \in LP!Explanations(lin, Pending)
    BY <1>11, <1>15, <1>16, <2>1, LP!ExplanationsClosed
  <2>. QED
    BY <1>10, <1>17, <2>2
<1>. QED
  BY <1>7, <1>8, <1>9, <1>14, <1>18 DEF MsLin

\* A dequeue takes effect that leaves the list as it is, or takes the first node off it.
LEMMA DequeueTakesEffect ==
  ASSUME NEW rank, rank \in [Nodes -> Nat], Ranked(rank), MsLin(rank), NEW p \in Procs, OthersKeep(p),
         UNCHANGED <<tail, next, item, x, arg, lin, node, lnext, new, heap>>,
         pc[p] \in {"deqTail", "deqCas"}, pc'[p] \in {"deqEmpty", "deqItem"},
         NEW q, Lists(rank, q), MsConfig(q) \in LP!Explanations(lin, Pending),
         NEW rest, Lists(rank, rest)',
         \/ q = <<>> /\ rest = q /\ MsAnswer(p)' = EMPTY
         \/ q # <<>> /\ rest = Tail(q) /\ MsAnswer(p)' = Head(q)
  PROVE  MsLin(rank)'
<1>1. Listed' = Listed
  <2>1. \A t \in Procs : pc'[t] \in FreshPcs <=> pc[t] \in FreshPcs
    BY DEF OthersKeep, OthersRest, FreshPcs
  <2>. QED
    BY <2>1 DEF Fresh, Listed
<1>2. ValuesOK'
  BY DEF MsLin, ValuesOK
<1>3. \A t \in Procs : Unswung(t)' <=> Unswung(t)
  BY DEF Unswung, OthersKeep, OthersRest
<1>4. TailOK(rank)'
  BY <1>1, <1>3 DEF MsLin, TailOK
<1>5. ASSUME NEW t \in Procs PROVE CarriedOK(rank, t)'
  <2>1. CarriedOK(rank, t)
    BY DEF MsLin
  <2>2. CASE t = p
    BY <1>3, <2>1, <2>2 DEF CarriedOK, Unswung, NodeEnqPcs, FreshPcs, TailPcs
  <2>3. CASE t # p
    BY <1>3, <2>1, <2>3 DEF CarriedOK, OthersKeep, OthersRest
  <2>. QED
    BY <2>2, <2>3
<1>6. Pending' = Pending
  <2>1. \A t \in Procs : pc'[t] # "idle" <=> pc[t] # "idle"
    BY DEF OthersKeep, OthersRest
  <2>. QED
    BY <2>1 DEF Pending
<1>7. p \in DOMAIN Pending /\ Pending[p] = DEQUEUE /\ MsConfig(q).ans[p] = NONE
  <2>1. arg[p] = NONE
    BY DEF MsLin, CarriedOK, NodeEnqPcs
  <2>. QED
    BY <2>1 DEF Pending, MsConfig, MsAnswer
<1>8. LP!TakeEffect(MsConfig(q), p, DEQUEUE) = MsConfig(rest)'
  <2>1. LP!TakeEffect(MsConfig(q), p, DEQUEUE) = [q |-> rest, ans |-> [MsConfig(q).ans EXCEPT ![p] = MsAnswer(p)']]
    BY DEF LP!TakeEffect, LP!Answer, MsConfig
  <2>2. ASSUME NEW t \in Procs \ {p} PROVE MsAnswer(t)' = MsAnswer(t)
    BY DEF MsAnswer, OthersKeep, OthersRest
  <2>3. [MsConfig(q).ans EXCEPT ![p] = MsAnswer(p)'] = [t \in Procs |-> MsAnswer(t)']
    BY <2>2 DEF MsConfig
  <2>. QED
    BY <2>1, <2>3 DEF MsConfig
<1>9. MsConfig(rest)' \in LP!Explanations(lin, Pending)'
  <2>1. LP!Calls(Items, Pending) /\ lin \subseteq LP!Configurations(Items)
    BY PendingCalls DEF MsLin, ValuesOK
  <2>2. LP!TakeEffect(MsConfig(q), p, Pending[p]) \in LP!Explanations(lin, Pending)
    BY <1>7, <2>1, LP!ExplanationsClosed
  <2>. QED
    BY <1>6, <1>7, <1>8, <2>2
<1>. QED
  BY <1>2, <1>4, <1>5, <1>9 DEF MsLin

\* DeqTail: head is at tail, and the dequeue has no item.
LEMMA EmptyLin ==
  ASSUME NEW rank, rank \in [Nodes -> Nat], Ranked(rank), MsLin(rank), NEW p \in Procs,
         M!DeqTail(p), node[p] = tail
  PROVE  MsLin(rank)'
<1>1. /\ pc[p] = "deqTail" /\ pc' = [pc EXCEPT ![p] = "deqEmpty"] /\ seen' = [seen EXCEPT ![p] = NULL]
      /\ UNCHANGED <<hp, heap, head, tail, next, item, x, arg, lin, node, lnext, new>>
  BY DEF M!DeqTail, M!Goto, M!ProtectFirst, M!pool, M!list
<1>2. pc'[p] = "deqEmpty" /\ OthersKeep(p)
  BY <1>1 DEF Ranked, NodeTypeOK, OthersKeep, OthersRest
<1>3. PICK q : Lists(rank, q) /\ MsConfig(q) \in LP!Explanations(lin, Pending)
  BY DEF MsLin
<1>4. q = <<>>
  <2>1. rank[tail] <= rank[head]
    BY <1>1 DEF Ranked, SeenOK
  <2>2. {rank[head], rank[tail]} \subseteq Nat
    BY ListNodes
  <2>3. q \in Seq(Items) /\ Len(q) \in Nat /\ rank[tail] = rank[head] + Len(q)
    BY <1>3 DEF Lists
  <2>4. Len(q) = 0
    BY <2>1, <2>2, <2>3
  <2>. QED
    BY <2>3, <2>4
<1>5. Lists(rank, q)'
  <2>1. \A t \in Procs : pc'[t] \in FreshPcs <=> pc[t] \in FreshPcs
    BY <1>1, <1>2 DEF OthersKeep, OthersRest, FreshPcs
  <2>2. Listed' = Listed
    BY <1>1, <2>1 DEF Fresh, Listed
  <2>. QED
    BY <1>1, <1>3, <2>2 DEF Lists
<1>6. MsAnswer(p)' = EMPTY
  BY <1>2 DEF MsAnswer
<1>. QED
  BY <1>1, <1>2, <1>3, <1>4, <1>5, <1>6, DequeueTakesEffect

\* DeqCas: head leaves its node, and the first item is that of the next one.
LEMMA TakeLin ==
  ASSUME NEW rank, rank \in [Nodes -> Nat], Ranked(rank), MsLin(rank), NEW p \in Procs,
         M!DeqCas(p), head = node[p]
  PROVE  MsLin(rank)'
<1>1. /\ pc[p] = "deqCas" /\ pc' = [pc EXCEPT ![p] = "deqItem"] /\ head' = lnext[p]
      /\ seen' = [seen EXCEPT ![p] = NULL]
      /\ UNCHANGED <<hp, heap, tail, next, item, x, arg, lin, node, lnext, new>>
  BY DEF M!DeqCas, M!Goto, M!ProtectFirst, M!pool
<1>2. pc'[p] = "deqItem" /\ OthersKeep(p)
  BY <1>1 DEF Ranked, NodeTypeOK, OthersKeep, OthersRest
<1>3. {head, tail} \subseteq Listed /\ {rank[head], rank[tail]} \subseteq Nat /\ rank[head] < rank[tail]
  <2>1. rank[node[p]] < rank[tail]
    BY <1>1 DEF Ranked, SeenOK
  <2>. QED
    BY <2>1, ListNodes
<1>4. head' \in Listed /\ rank[head'] = rank[head] + 1
  <2>1. next[head] # NULL
    BY <1>3, HasNext
  <2>2. head' = next[head]
    BY <1>1 DEF Ranked, SeenOK
  <2>. QED
    BY <1>3, <2>1, <2>2 DEF Ranked, RankOK
<1>5. PICK q : Lists(rank, q) /\ MsConfig(q) \in LP!Explanations(lin, Pending)
  BY DEF MsLin
<1>6. q \in Seq(Items) /\ Len(q) \in Nat /\ rank[tail] = rank[head] + Len(q) /\ 1 <= Len(q)
  BY <1>3, <1>5 DEF Lists
<1>7. q # <<>> /\ item[head'] = Head(q)
  <2>1. q # <<>> /\ Head(q) = q[1] /\ 1 \in 1 .. Len(q)
    BY <1>6
  <2>. QED
    BY <1>4, <1>5, <2>1 DEF Lists
<1>8. PICK rest : rest = Tail(q)
  OBVIOUS
<1>9. Lists(rank, rest)'
  <2>1. \A t \in Procs : pc'[t] \in FreshPcs <=> pc[t] \in FreshPcs
    BY <1>1, <1>2 DEF OthersKeep, OthersRest, FreshPcs
  <2>2. Listed' = Listed
    BY <1>1, <2>1 DEF Fresh, Listed
  <2>3. /\ rest \in Seq(Items) /\ Len(rest) = Len(q) - 1
        /\ \A i \in 1 .. Len(rest) : rest[i] = q[i + 1]
    BY <1>6, <1>7, <1>8
  <2>4. rank[tail] = rank[head'] + Len(rest)
    <3>1. PICK k \in Nat : k = Len(q) /\ rank[tail] = rank[head] + k
      BY <1>6
    <3>2. Len(rest) = k - 1
      BY <2>3, <3>1
    <3>3. rank[tail] = rank[head'] + (k - 1)
      BY <1>3, <1>4, <3>1
    <3>. QED
      BY <3>2, <3>3
  <2>5. ASSUME NEW n \in Listed, NEW i \in 1 .. Len(rest), rank[n] = rank[head'] + i
        PROVE  item[n] = rest[i]
    <3>1. i \in Nat /\ i + 1 \in 1 .. Len(q)
      BY <1>6, <2>3
    <3>2. rank[n] = rank[head] + (i + 1)
      BY <1>3, <1>4, <2>5, <3>1
    <3>3. item[n] = q[i + 1]
      BY <1>5, <3>1, <3>2 DEF Lists
    <3>. QED
      BY <2>3, <3>3
  <2>. QED
    BY <1>1, <2>2, <2>3, <2>4, <2>5 DEF Lists
<1>10. MsAnswer(p)' = Head(q)
  BY <1>1, <1>2, <1>7 DEF MsAnswer
<1>. QED
  BY <1>1, <1>2, <1>5, <1>7, <1>8, <1>9, <1>10, DequeueTakesEffect

\* The answer is that of the call.
LEMMA AnswerLin ==
  ASSUME NEW rank, rank \in [Nodes -> Nat], Ranked(rank), MsLin(rank), NEW p \in Procs,
         pc[p] \in {"enqClear", "deqEmpty", "deqScan"}, M!Answer(p, MsAnswer(p)),
         UNCHANGED <<heap, head, tail, next, item, x, node, lnext, new>>
  PROVE  MsLin(rank)'
<1>1. /\ pc' = [pc EXCEPT ![p] = "idle"] /\ arg' = [arg EXCEPT ![p] = NONE]
      /\ lin' = LP!Respond(lin, Pending, p, MsAnswer(p))
  BY SameExplanations DEF M!Answer
<1>2. /\ pc'[p] = "idle" /\ arg'[p] = NONE
      /\ \A t \in Procs \ {p} : pc'[t] = pc[t] /\ arg'[t] = arg[t]
  BY <1>1 DEF Ranked, NodeTypeOK, MsLin, ValuesOK
<1>3. Listed' = Listed
  <2>1. \A t \in Procs : pc'[t] \in FreshPcs <=> pc[t] \in FreshPcs
    BY <1>2 DEF FreshPcs
  <2>. QED
    BY <2>1 DEF Fresh, Listed
<1>4. LP!Calls(Items, Pending) /\ lin \subseteq LP!Configurations(Items)
  BY PendingCalls DEF MsLin, ValuesOK
<1>5. ValuesOK'
  <2>1. lin' \subseteq LP!Configurations(Items)
    BY <1>1, <1>4, LP!RespondTyped
  <2>. QED
    BY <1>1, <2>1 DEF MsLin, ValuesOK
<1>6. \A t \in Procs : Unswung(t)' <=> Unswung(t)
  BY <1>2 DEF Unswung
<1>7. TailOK(rank)'
  BY <1>3, <1>6 DEF MsLin, TailOK
<1>8. ASSUME NEW t \in Procs PROVE CarriedOK(rank, t)'
  <2>1. CarriedOK(rank, t)
    BY DEF MsLin
  <2>2. CASE t = p
    BY <1>2, <2>2 DEF CarriedOK, Unswung, NodeEnqPcs, FreshPcs, TailPcs
  <2>3. CASE t # p
    BY <1>2, <1>6, <2>1, <2>3 DEF CarriedOK
  <2>. QED
    BY <2>2, <2>3
<1>9. PICK q : Lists(rank, q) /\ MsConfig(q) \in LP!Explanations(lin, Pending)
  BY DEF MsLin
<1>10. Lists(rank, q)'
  BY <1>3, <1>9 DEF Lists
<1>11. PICK c : c = MsConfig(q)'
  OBVIOUS
<1>12. /\ c \in LP!Configurations(Items) /\ c.ans[p] = NONE
       /\ LP!Answer(c, p, MsAnswer(p), c.q) = MsConfig(q)
  <2>1. MsConfig(q) \in LP!Configurations(Items)
    BY <1>4, <1>9, LP!ExplanationsTyped
  <2>2. ASSUME NEW t \in Procs PROVE MsAnswer(t)' = IF t = p THEN NONE ELSE MsAnswer(t)
    BY <1>2 DEF MsAnswer
  <2>3. c = [q |-> q, ans |-> [t \in Procs |-> IF t = p THEN NONE ELSE MsAnswer(t)]]
    BY <1>11, <2>2 DEF MsConfig
  <2>. QED
    BY <2>1, <2>3 DEF LP!Answer, LP!Configurations, MsConfig
<1>13. LP!IsFiniteSet(DOMAIN Pending')
  <2>1. LP!Calls(Items, Pending)'
    BY <1>5, PendingCalls, PTL
  <2>. QED
    BY <2>1 DEF LP!Calls
<1>14. c \in LP!Explanations(LP!Respond(lin, Pending, p, MsAnswer(p)), Pending')
  BY <1>9, <1>12, <1>13, LP!RespondKeeps
<1>15. MsConfig(q)' \in LP!Explanations(lin, Pending)'
  BY <1>1, <1>11, <1>14
<1>. QED
  BY <1>5, <1>7, <1>8, <1>10, <1>15 DEF MsLin

\* The calls: what explained the answers still does.
LEMMA CallLin ==
  ASSUME NEW rank, rank \in [Nodes -> Nat], Ranked(rank), MsLin(rank), NEW p \in Procs,
         M!Dequeue(p) \/ \E v \in Items : M!Enqueue(p, v)
  PROVE  MsLin(rank)'
<1>1. PICK label \in {"enqNew", "deqHead"} :
        /\ pc[p] = "idle" /\ pc' = [pc EXCEPT ![p] = label]
        /\ label = "enqNew" => \E v \in Items : arg' = [arg EXCEPT ![p] = v]
        /\ label = "deqHead" => arg' = arg
        /\ UNCHANGED <<heap, head, tail, next, item, x, lin, node, lnext, new>>
  <2>1. CASE M!Dequeue(p)
    BY <2>1 DEF M!Dequeue, M!CallDequeue, M!Goto, M!pool, M!list
  <2>2. CASE \E v \in Items : M!Enqueue(p, v)
    BY <2>2 DEF M!Enqueue, M!CallEnqueue, M!pool, M!list
  <2>. QED
    BY <2>1, <2>2
<1>2. /\ pc'[p] = label /\ (label = "enqNew" => arg'[p] \in Items) /\ (label = "deqHead" => arg'[p] = NONE)
      /\ \A t \in Procs \ {p} : pc'[t] = pc[t] /\ arg'[t] = arg[t]
      /\ arg' \in [Procs -> Items \cup {NONE}]
  <2>1. arg \in [Procs -> Items \cup {NONE}] /\ arg[p] = NONE
    BY <1>1 DEF MsLin, ValuesOK, CarriedOK, NodeEnqPcs
  <2>. QED
    BY <1>1, <2>1 DEF Ranked, NodeTypeOK
<1>3. Listed' = Listed
  <2>1. \A t \in Procs : pc'[t] \in FreshPcs <=> pc[t] \in FreshPcs
    BY <1>1, <1>2 DEF FreshPcs
  <2>. QED
    BY <1>1, <2>1 DEF Fresh, Listed
<1>4. ValuesOK'
  BY <1>1, <1>2 DEF MsLin, ValuesOK
<1>5. \A t \in Procs : Unswung(t)' <=> Unswung(t)
  BY <1>1, <1>2 DEF Unswung
<1>6. TailOK(rank)'
  BY <1>1, <1>3, <1>5 DEF MsLin, TailOK
<1>7. ASSUME NEW t \in Procs PROVE CarriedOK(rank, t)'
  <2>1. CarriedOK(rank, t)
    BY DEF MsLin
  <2>2. CASE t = p
    BY <1>2, <2>2 DEF CarriedOK, Unswung, NodeEnqPcs, FreshPcs, TailPcs
  <2>3. CASE t # p
    BY <1>1, <1>2, <1>5, <2>1, <2>3 DEF CarriedOK
  <2>. QED
    BY <2>2, <2>3
<1>8. PICK q : Lists(rank, q) /\ MsConfig(q) \in LP!Explanations(lin, Pending)
  BY DEF MsLin
<1>9. Lists(rank, q)'
  BY <1>1, <1>3, <1>8 DEF Lists
<1>10. MsConfig(q)' = MsConfig(q)
  <2>1. ASSUME NEW t \in Procs PROVE MsAnswer(t)' = MsAnswer(t)
    BY <1>1, <1>2 DEF MsAnswer
  <2>. QED
    BY <2>1 DEF MsConfig
<1>11. LP!Explanations(lin, Pending) \subseteq LP!Explanations(lin, Pending')
  <2>1. DOMAIN Pending \subseteq DOMAIN Pending' /\ \A t \in DOMAIN Pending : Pending'[t] = Pending[t]
    BY <1>1, <1>2 DEF Pending
  <2>2. LP!IsFiniteSet(DOMAIN Pending')
    <3>1. LP!Calls(Items, Pending)'
      BY <1>4, PendingCalls, PTL
    <3>. QED
      BY <3>1 DEF LP!Calls
  <2>. QED
    BY <2>1, <2>2, LP!ExplanationsGrow
<1>12. MsConfig(q)' \in LP!Explanations(lin, Pending)'
  BY <1>1, <1>8, <1>10, <1>11
<1>. QED
  BY <1>4, <1>6, <1>7, <1>9, <1>12 DEF MsLin

\* The steps of enqueue.
LEMMA EnqueueLin ==
  ASSUME NEW rank, rank \in [Nodes -> Nat], Ranked(rank), MsLin(rank), NEW p \in Procs, M!EnqStep(p),
         ~(M!EnqCas(p) /\ next[node[p]] = expect[p])
  PROVE  MsLin(rank)'
<1>. USE DEF NodeEnqPcs, FreshPcs, TailPcs
<1>0. tail \in Listed /\ rank[tail] \in Nat /\ CarriedOK(rank, p) /\ SeenOK(rank, p)
      /\ x \in [Procs -> Items \cup {NONE}]
  BY ListNodes DEF Ranked, MsLin, ValuesOK
<1>1. CASE M!EnqNew(p)
  BY <1>1, NewNodeLin
<1>2. CASE M!EnqTail(p)
  <2>1. /\ pc[p] = "enqTail" /\ pc' = [pc EXCEPT ![p] = "enqHp"] /\ node' = [node EXCEPT ![p] = tail]
        /\ UNCHANGED <<hp, heap, head, tail, next, item, x, arg, lin, lnext, new, seen>>
    BY <1>2 DEF M!EnqTail, M!Goto, M!pool, M!list
  <2>2. pc'[p] = "enqHp" /\ OthersKeep(p)
    BY <2>1 DEF Ranked, NodeTypeOK, OthersKeep, OthersRest
  <2>. QED
    BY <1>0, <2>1, <2>2, QuietStep DEF Unswung, MsAnswer
<1>3. CASE M!EnqHp(p)
  <2>1. /\ pc[p] = "enqHp" /\ pc' = [pc EXCEPT ![p] = "enqCheck"] /\ hp' = [hp EXCEPT ![p] = [hp[p] EXCEPT ![0] = node[p]]]
        /\ UNCHANGED <<heap, head, tail, next, item, x, arg, lin, node, lnext, new, seen>>
    BY <1>3 DEF M!EnqHp, M!Goto, M!Publish, M!list, M!locals
  <2>2. pc'[p] = "enqCheck" /\ OthersKeep(p)
    BY <2>1 DEF Ranked, NodeTypeOK, OthersKeep, OthersRest
  <2>. QED
    BY <1>0, <2>1, <2>2, QuietStep DEF Unswung, MsAnswer
<1>4. CASE M!EnqCheck(p)
  <2>1. PICK label \in {"enqNext", "enqTail"} :
          /\ pc[p] = "enqCheck" /\ pc' = [pc EXCEPT ![p] = label] /\ (label = "enqNext" => node[p] = tail)
          /\ UNCHANGED <<hp, heap, head, tail, next, item, x, arg, lin, node, lnext, new, seen>>
    BY <1>4 DEF M!EnqCheck, M!Goto, M!pool, M!list, M!locals
  <2>2. pc'[p] = label /\ OthersKeep(p)
    BY <2>1 DEF Ranked, NodeTypeOK, OthersKeep, OthersRest
  <2>. QED
    BY <1>0, <2>1, <2>2, QuietStep DEF Unswung, MsAnswer
<1>5. CASE M!EnqNext(p)
  <2>1. PICK label \in {"enqCas", "enqHelp"} :
          /\ pc[p] = "enqNext" /\ pc' = [pc EXCEPT ![p] = label] /\ lnext' = [lnext EXCEPT ![p] = next[node[p]]]
          /\ UNCHANGED <<hp, heap, head, tail, next, item, x, arg, lin, node, new, seen>>
    BY <1>5 DEF M!EnqNext, M!Goto, M!pool, M!list
  <2>2. pc'[p] = label /\ OthersKeep(p)
    BY <2>1 DEF Ranked, NodeTypeOK, OthersKeep, OthersRest
  <2>3. rank[node[p]] <= rank[tail]
    BY <1>0, <2>1 DEF CarriedOK
  <2>. QED
    BY <1>0, <2>1, <2>2, <2>3, QuietStep DEF Unswung, MsAnswer
<1>6. CASE M!EnqCas(p)
  <2>1. /\ pc[p] = "enqCas" /\ pc' = [pc EXCEPT ![p] = "enqTail"]
        /\ UNCHANGED <<hp, heap, head, tail, next, item, x, arg, lin, node, lnext, new, seen>>
    BY <1>6 DEF M!EnqCas, M!Goto, M!pool
  <2>2. pc'[p] = "enqTail" /\ OthersKeep(p)
    BY <2>1 DEF Ranked, NodeTypeOK, OthersKeep, OthersRest
  <2>. QED
    BY <1>0, <2>1, <2>2, QuietStep DEF Unswung, MsAnswer
<1>7. CASE M!EnqHelp(p)
  <2>1. /\ pc[p] = "enqHelp" /\ pc' = [pc EXCEPT ![p] = "enqTail"]
        /\ tail' = IF tail = node[p] THEN lnext[p] ELSE tail
        /\ UNCHANGED <<hp, heap, head, next, item, x, arg, lin, node, lnext, new, seen>>
    BY <1>7 DEF M!EnqHelp, M!Goto, M!pool, M!locals
  <2>2. pc'[p] = "enqTail" /\ OthersKeep(p)
    BY <2>1 DEF Ranked, NodeTypeOK, OthersKeep, OthersRest
  <2>3. CASE tail = node[p]
    <3>1. next[tail] # NULL /\ tail' = next[tail]
      BY <1>0, <2>1, <2>3 DEF SeenOK
    <3>. QED
      BY <2>1, <2>2, <3>1, MoveLin
  <2>4. CASE tail # node[p]
    BY <1>0, <2>1, <2>2, <2>4, QuietStep DEF Unswung, MsAnswer
  <2>. QED
    BY <2>3, <2>4
<1>8. CASE M!EnqSwing(p)
  <2>1. /\ pc[p] = "enqSwing" /\ pc' = [pc EXCEPT ![p] = "enqClear"]
        /\ tail' = IF tail = node[p] THEN new[p] ELSE tail
        /\ UNCHANGED <<hp, heap, head, next, item, x, arg, lin, node, lnext, new, seen>>
    BY <1>8 DEF M!EnqSwing, M!Goto, M!pool, M!locals
  <2>2. pc'[p] = "enqClear" /\ OthersKeep(p)
    BY <2>1 DEF Ranked, NodeTypeOK, OthersKeep, OthersRest
  <2>3. CASE tail = node[p]
    <3>1. next[tail] # NULL /\ tail' = next[tail] /\ Unswung(p)
      BY <1>0, <2>1, <2>3 DEF SeenOK, Unswung
    <3>. QED
      BY <2>1, <2>2, <3>1, MoveLin
  <2>4. CASE tail # node[p]
    BY <1>0, <2>1, <2>2, <2>4, QuietStep DEF Unswung, MsAnswer
  <2>. QED
    BY <2>3, <2>4
<1>9. CASE M!EnqClear(p)
  <2>1. /\ pc[p] = "enqClear" /\ M!Answer(p, OK)
        /\ UNCHANGED <<heap, head, tail, next, item, x, node, lnext, new>>
    BY <1>9 DEF M!EnqClear, M!list, M!locals
  <2>2. MsAnswer(p) = OK
    BY <2>1 DEF MsAnswer
  <2>. QED
    BY <2>1, <2>2, AnswerLin
<1>. QED
  BY <1>1, <1>2, <1>3, <1>4, <1>5, <1>6, <1>7, <1>8, <1>9 DEF M!EnqStep

\* The steps of dequeue.
LEMMA DequeueLin ==
  ASSUME NEW rank, rank \in [Nodes -> Nat], Ranked(rank), MsLin(rank), NEW p \in Procs, M!DeqStep(p)
  PROVE  MsLin(rank)'
<1>. USE DEF NodeEnqPcs, FreshPcs, TailPcs
<1>0. SeenOK(rank, p) /\ x \in [Procs -> Items \cup {NONE}]
  BY DEF Ranked, MsLin, ValuesOK
<1>1. CASE M!DeqHead(p) \/ M!DeqNext(p)
  <2>1. PICK label \in {"deqTail", "deqHeadHp", "deqHead", "deqCas", "deqNextHp", "deqNext"} :
          /\ pc[p] \in {"deqHead", "deqHeadHp", "deqNext", "deqNextHp"} /\ pc' = [pc EXCEPT ![p] = label]
          /\ \E m : node' \in {node, [node EXCEPT ![p] = m]}
          /\ \E m : lnext' \in {lnext, [lnext EXCEPT ![p] = m]}
          /\ \E m : seen' \in {seen, [seen EXCEPT ![p] = m]}
          /\ \E m : hp' \in {hp, [hp EXCEPT ![p] = m]}
          /\ UNCHANGED <<heap, head, tail, next, item, x, arg, lin, new>>
    <3>1. CASE M!DeqHead(p)
      BY <3>1 DEF M!DeqHead, M!ProtectLoad, M!ProtectStore, M!Publish, M!Goto, M!pool, M!list, M!locals
    <3>2. CASE M!DeqNext(p)
      BY <3>2 DEF M!DeqNext, M!ProtectLoad, M!ProtectStore, M!Publish, M!Goto, M!pool, M!list, M!locals
    <3>. QED
      BY <1>1, <3>1, <3>2
  <2>2. pc'[p] = label /\ OthersKeep(p)
    <3>1. \A q \in Procs \ {p} : node'[q] = node[q] /\ lnext'[q] = lnext[q] /\ seen'[q] = seen[q] /\ hp'[q] = hp[q]
      BY <2>1 DEF Ranked, NodeTypeOK
    <3>. QED
      BY <2>1, <3>1 DEF Ranked, NodeTypeOK, OthersKeep, OthersRest
  <2>. QED
    BY <1>0, <2>1, <2>2, QuietStep DEF Unswung, MsAnswer
<1>2. CASE M!DeqTail(p)
  <2>1. CASE node[p] = tail
    BY <1>2, <2>1, EmptyLin
  <2>2. CASE node[p] # tail
    <3>1. /\ pc[p] = "deqTail" /\ pc' = [pc EXCEPT ![p] = "deqNext"] /\ seen' = [seen EXCEPT ![p] = NULL]
          /\ UNCHANGED <<hp, heap, head, tail, next, item, x, arg, lin, node, lnext, new>>
      BY <1>2, <2>2 DEF M!DeqTail, M!Goto, M!ProtectFirst, M!pool, M!list
    <3>2. pc'[p] = "deqNext" /\ OthersKeep(p)
      BY <3>1 DEF Ranked, NodeTypeOK, OthersKeep, OthersRest
    <3>. QED
      BY <1>0, <3>1, <3>2, QuietStep DEF Unswung, MsAnswer
  <2>. QED
    BY <2>1, <2>2
<1>3. CASE M!DeqCas(p)
  <2>1. CASE head = node[p]
    BY <1>3, <2>1, TakeLin
  <2>2. CASE head # node[p]
    <3>1. /\ pc[p] = "deqCas" /\ pc' = [pc EXCEPT ![p] = "deqHead"] /\ seen' = [seen EXCEPT ![p] = NULL]
          /\ UNCHANGED <<hp, heap, head, tail, next, item, x, arg, lin, node, lnext, new>>
      BY <1>3, <2>2 DEF M!DeqCas, M!Goto, M!ProtectFirst, M!pool
    <3>2. pc'[p] = "deqHead" /\ OthersKeep(p)
      BY <3>1 DEF Ranked, NodeTypeOK, OthersKeep, OthersRest
    <3>. QED
      BY <1>0, <3>1, <3>2, QuietStep DEF Unswung, MsAnswer
  <2>. QED
    BY <2>1, <2>2
<1>4. CASE M!DeqItem(p)
  <2>1. /\ pc[p] = "deqItem" /\ pc' = [pc EXCEPT ![p] = "deqClear"] /\ x' = [x EXCEPT ![p] = item[lnext[p]]]
        /\ UNCHANGED <<hp, heap, head, tail, next, item, arg, lin, node, lnext, new, seen>>
    BY <1>4 DEF M!DeqItem, M!Goto, M!pool, M!list
  <2>2. lnext[p] \in Nodes
    BY <1>0, <2>1, ListNodes DEF SeenOK
  <2>3. item[lnext[p]] \in Items \cup {NONE}
    BY <2>2 DEF MsLin, ValuesOK
  <2>4. x'[p] = item[lnext[p]] /\ x' \in [Procs -> Items \cup {NONE}]
    BY <1>0, <2>1, <2>3
  <2>5. pc'[p] = "deqClear" /\ OthersKeep(p)
    BY <1>0, <2>1 DEF Ranked, NodeTypeOK, OthersKeep, OthersRest
  <2>. QED
    BY <2>1, <2>4, <2>5, QuietStep DEF Unswung, MsAnswer
<1>5. CASE M!DeqClear(p)
  <2>1. /\ pc[p] = "deqClear" /\ pc' = [pc EXCEPT ![p] = "deqRetire"] /\ M!Clear(p)
        /\ UNCHANGED <<heap, head, tail, next, item, x, arg, lin, node, lnext, new, seen>>
    BY <1>5 DEF M!DeqClear, M!Goto, M!list, M!locals
  <2>2. pc'[p] = "deqRetire" /\ OthersKeep(p)
    BY <2>1 DEF Ranked, NodeTypeOK, OthersKeep, OthersRest, M!Clear
  <2>. QED
    BY <1>0, <2>1, <2>2, QuietStep DEF Unswung, MsAnswer
<1>6. CASE M!DeqRetire(p)
  <2>1. /\ pc[p] = "deqRetire" /\ pc' = [pc EXCEPT ![p] = "deqScan"]
        /\ UNCHANGED <<hp, heap, head, tail, next, item, x, arg, lin, node, lnext, new, seen>>
    BY <1>6 DEF M!DeqRetire, M!RetireCall, M!Goto, M!list, M!locals
  <2>2. pc'[p] = "deqScan" /\ OthersKeep(p)
    BY <2>1 DEF Ranked, NodeTypeOK, OthersKeep, OthersRest
  <2>. QED
    BY <1>0, <2>1, <2>2, QuietStep DEF Unswung, MsAnswer
<1>7. CASE M!DeqScan(p)
  <2>1. /\ pc[p] = "deqScan" /\ heap' \subseteq heap
        /\ UNCHANGED <<pc, hp, head, tail, next, item, x, arg, lin, node, lnext, new, seen>>
    BY <1>7 DEF M!DeqScan, M!ScanLoad, M!ScanDelete, M!list, M!locals, M!calls
  <2>2. OthersKeep(p)
    BY <2>1 DEF OthersKeep, OthersRest
  <2>. QED
    BY <1>0, <2>1, <2>2, QuietStep DEF Unswung, MsAnswer
<1>8. CASE M!DeqReturn(p)
  <2>1. /\ pc[p] = "deqScan" /\ M!Answer(p, x[p])
        /\ UNCHANGED <<heap, head, tail, next, item, x, node, lnext, new>>
    BY <1>8 DEF M!DeqReturn, M!pool, M!list, M!locals
  <2>2. MsAnswer(p) = x[p]
    BY <2>1 DEF MsAnswer
  <2>. QED
    BY <2>1, <2>2, AnswerLin
<1>9. CASE M!DeqEmpty(p)
  <2>1. /\ pc[p] = "deqEmpty" /\ M!Answer(p, EMPTY)
        /\ UNCHANGED <<heap, head, tail, next, item, x, node, lnext, new>>
    BY <1>9 DEF M!DeqEmpty, M!list, M!locals
  <2>2. MsAnswer(p) = EMPTY
    BY <2>1 DEF MsAnswer
  <2>. QED
    BY <2>1, <2>2, AnswerLin
<1>. QED
  BY <1>1, <1>2, <1>3, <1>4, <1>5, <1>6, <1>7, <1>8, <1>9 DEF M!DeqStep

\* As long as no CAS has replaced a link, the nodes are in a list, and the list explains
\* the answers.
MsInv == stale \/ \E rank \in [Nodes -> Nat] : Ranked(rank) /\ MsLin(rank)

LEMMA InitMsInv == M!Init => MsInv
<1> SUFFICES ASSUME M!Init PROVE MsInv
  OBVIOUS
<1>1. PICK zero : zero = [n \in Nodes |-> 0]
  OBVIOUS
<1>2. PICK sentinel \in Nodes : heap = {sentinel} /\ head = sentinel /\ tail = sentinel
  BY DEF M!Init
<1>3. /\ \A p \in Procs : pc[p] = "idle" /\ retired[p] = <<>> /\ ~M!Scanning(p)
      /\ \A n \in Nodes : next[n] = NULL /\ zero[n] = 0
  BY <1>1 DEF M!Init, M!PoolInit, M!CallsInit, M!Scanning
<1>4. Fresh = {} /\ Listed = {sentinel}
  BY <1>2, <1>3 DEF Fresh, Listed, FreshPcs
<1>5. NodeTypeOK
  <2>1. M!Idle \in [node : Nat, at : Nat] /\ <<>> \in Seq(Nodes)
    BY DEF M!Idle
  <2>2. QED
    BY <1>2, <2>1 DEF M!Init, M!PoolInit, M!CallsInit, NodeTypeOK
<1>6. RankOK(zero) /\ FreshOK
  BY <1>2, <1>3, <1>4 DEF RankOK, FreshOK, FreshPcs
<1>7. ASSUME NEW p \in Procs PROVE SeenOK(zero, p) /\ OwnedOK(zero, p) /\ PassedOK(p)
  <2>1. pc[p] = "idle" /\ Len(retired[p]) = 0 /\ 1 .. 0 = {} /\ ~M!Scanning(p)
    BY <1>3
  <2>2. QED
    BY <2>1 DEF SeenOK, OwnedOK, PassedOK, SafePcs, HeldPcs
<1>8. Ranked(zero) /\ zero \in [Nodes -> Nat]
  BY <1>1, <1>5, <1>6, <1>7 DEF Ranked
<1>9. ValuesOK /\ lin = LP!Start
  <2>1. lin = LP!Start
    BY DEF M!Init, M!CallsInit, M!L!Start, LP!Start
  <2>2. lin \subseteq LP!Configurations(Items)
    BY <2>1, LP!StartTyped
  <2>3. item \in [Nodes -> Items \cup {NONE}] /\ {x, arg} \subseteq [Procs -> Items \cup {NONE}]
    BY DEF M!Init, M!CallsInit
  <2>4. QED
    BY <2>1, <2>2, <2>3 DEF ValuesOK
<1>10. TailOK(zero) /\ \A p \in Procs : CarriedOK(zero, p)
  <2>1. \A p \in Procs : arg[p] = NONE
    BY DEF M!Init, M!CallsInit
  <2>2. QED
    BY <1>2, <1>3, <1>4, <2>1 DEF TailOK, CarriedOK, Unswung, NodeEnqPcs, FreshPcs, TailPcs
<1>11. Lists(zero, <<>>)
  <2>1. <<>> \in Seq(Items) /\ Len(<<>>) = 0 /\ 1 .. 0 = {}
    OBVIOUS
  <2>2. QED
    BY <1>2, <1>3, <2>1 DEF Lists
<1>12. MsConfig(<<>>) \in LP!Explanations(lin, Pending)
  <2>1. MsConfig(<<>>) \in lin
    BY <1>3, <1>9 DEF MsConfig, MsAnswer, LP!Start
  <2>2. LP!IsFiniteSet(DOMAIN Pending)
    BY <1>9, PendingCalls DEF LP!Calls
  <2>3. QED
    BY <2>1, <2>2, LP!ExplanationsStart
<1>13. QED
  BY <1>8, <1>9, <1>10, <1>11, <1>12 DEF MsInv, MsLin

LEMMA SameRanked ==
  ASSUME NEW rank, Ranked(rank), UNCHANGED M!vars
  PROVE  Ranked(rank)'
<1>1. UNCHANGED <<hp, retired, heap, scan, head, tail, next, new, node, lnext, seen, pc>>
  BY DEF M!vars, M!pool, M!list, M!locals, M!calls
<1>2. Fresh' = Fresh /\ Listed' = Listed /\ NodeTypeOK'
  BY <1>1 DEF Ranked, Fresh, Listed, NodeTypeOK
<1>3. RankOK(rank)' /\ FreshOK'
  BY <1>1, <1>2 DEF Ranked, RankOK, FreshOK
<1>4. ASSUME NEW p \in Procs PROVE SeenOK(rank, p)' /\ OwnedOK(rank, p)' /\ PassedOK(p)'
  <2>1. SeenOK(rank, p) /\ OwnedOK(rank, p) /\ PassedOK(p)
    BY DEF Ranked
  <2>2. SeenOK(rank, p)'
    BY <1>1, <1>2, <2>1 DEF SeenOK
  <2>3. OwnedOK(rank, p)'
    BY <1>1, <1>2, <2>1 DEF OwnedOK
  <2>4. PassedOK(p)'
    BY <1>1, <2>1 DEF PassedOK, M!Scanning, Relies
  <2>5. QED
    BY <2>2, <2>3, <2>4
<1>5. QED
  BY <1>2, <1>3, <1>4 DEF Ranked

\* A step of something else.
LEMMA SameLin ==
  ASSUME NEW rank, MsLin(rank), UNCHANGED M!vars
  PROVE  MsLin(rank)'
<1>1. UNCHANGED <<heap, head, tail, item, next, x, new, node, lnext, pc, arg, lin>>
  BY DEF M!vars, M!pool, M!list, M!locals, M!calls
<1>2. Listed' = Listed /\ Pending' = Pending /\ \A q : MsConfig(q)' = MsConfig(q)
  BY <1>1 DEF Fresh, Listed, Pending, MsConfig, MsAnswer
<1>3. ValuesOK'
  BY <1>1 DEF MsLin, ValuesOK
<1>4. TailOK(rank)'
  BY <1>1, <1>2 DEF MsLin, TailOK, Unswung
<1>5. \A p \in Procs : CarriedOK(rank, p)'
  BY <1>1 DEF MsLin, CarriedOK, Unswung
<1>6. PICK q : Lists(rank, q) /\ MsConfig(q) \in LP!Explanations(lin, Pending)
  BY DEF MsLin
<1>7. Lists(rank, q)' /\ MsConfig(q)' \in LP!Explanations(lin, Pending)'
  BY <1>1, <1>2, <1>6 DEF Lists
<1>. QED
  BY <1>3, <1>4, <1>5, <1>7 DEF MsLin
LEMMA NextMsInv == MsInv /\ [M!Next]_(M!vars) => MsInv'
<1> SUFFICES ASSUME MsInv, [M!Next]_(M!vars) PROVE MsInv'
  OBVIOUS
<1>1. CASE stale'
  BY <1>1 DEF MsInv
<1>2. CASE ~stale'
  <2>1. ~stale
    BY <1>2 DEF M!Next, M!vars, M!pool, M!list, M!EnqStep, M!EnqNew, M!EnqTail, M!EnqHp, M!EnqCheck, M!EnqNext, M!EnqCas, M!EnqHelp,
          M!EnqSwing, M!EnqClear, M!DeqStep, M!DeqHead, M!DeqTail, M!DeqNext, M!DeqCas, M!DeqItem, M!DeqClear, M!DeqRetire,
          M!DeqScan, M!DeqReturn, M!DeqEmpty, M!ProtectLoad, M!ProtectStore, M!Dequeue, M!Enqueue
  <2>2. PICK rank \in [Nodes -> Nat] : Ranked(rank) /\ MsLin(rank)
    BY <2>1 DEF MsInv
  <2>. SUFFICES \E number \in [Nodes -> Nat] : Ranked(number)' /\ MsLin(number)'
    BY DEF MsInv
  <2>3. CASE \E p \in Procs : M!EnqStep(p)
    <3>1. PICK p \in Procs : M!EnqStep(p)
      BY <2>3
    <3>2. CASE M!EnqCas(p) /\ next[node[p]] = expect[p]
      <4>1. expect[p] = NULL
        BY <1>2, <3>2 DEF M!EnqCas
      <4>2. PICK number \in [Nodes -> Nat] : Ranked(number)' /\ Agrees(number, rank)
        BY <2>2, <3>2, <4>1, Linking
      <4>3. MsLin(number)'
        BY <2>2, <3>2, <4>1, <4>2, LinkLin
      <4>4. QED
        BY <4>2, <4>3
    <3>3. CASE ~(M!EnqCas(p) /\ next[node[p]] = expect[p])
      BY <2>2, <3>1, <3>3, EnqueueRanked, EnqueueLin
    <3>4. QED
      BY <3>2, <3>3
  <2>4. CASE \E p \in Procs : M!DeqStep(p)
    BY <2>2, <2>4, DequeueRanked, DequeueLin
  <2>5. CASE \E p \in Procs : M!Dequeue(p) \/ \E v \in Items : M!Enqueue(p, v)
    BY <2>2, <2>5, CallRanked, CallLin
  <2>6. CASE UNCHANGED M!vars
    BY <2>2, <2>6, SameRanked, SameLin
  <2>7. QED
    BY <2>3, <2>4, <2>5, <2>6 DEF M!Next
<1>3. QED
  BY <1>1, <1>2

\* What explains the answers is an explanation.
LEMMA AnswersExplained == MsInv => LinearizableUntilStale
<1> SUFFICES ASSUME NEW rank, MsLin(rank) PROVE lin # {}
  BY DEF MsInv, LinearizableUntilStale, Linearizable
<1>1. LP!Calls(Items, Pending)
  BY PendingCalls DEF MsLin
<1>2. LP!Explanations(lin, Pending) # {}
  BY DEF MsLin
<1>3. LP!Explanations({}, Pending) = {}
  BY <1>1, LP!ExplanationsOfNone
<1>4. QED
  BY <1>2, <1>3

LEMMA NodesSafe == MsInv => stale \/ M!NoUseAfterFree
<1> SUFFICES ASSUME NEW rank, rank \in [Nodes -> Nat], Ranked(rank), NEW p \in Procs PROVE M!Accessed(p) \subseteq heap
  BY DEF MsInv, M!NoUseAfterFree
<1>1. SeenOK(rank, p) /\ Listed \subseteq heap
  BY DEF Ranked, Listed
<1>2. QED
  BY <1>1 DEF M!Accessed, SeenOK, SafePcs

-----------------------------------------------------------------------------
MCInv ==
  /\ impl \in {"ms", "faa", "lcrq"}
  /\ impl = "ms" => MsInv
  /\ impl = "faa" => ArrayInv
  /\ impl = "lcrq" => IInv /\ RingInv

\* All three queues begin in their invariants.
LEMMA InitMCInv == MCInit => MCInv
BY InitMsInv, InitArrayInv, InitIInv, InitRingInv DEF MCInit, MCInv

LEMMA NextMCInv == MCInv /\ [MCNext]_allVars => MCInv'
<1> SUFFICES ASSUME MCInv, [MCNext]_allVars PROVE MCInv'
  OBVIOUS
<1>1. UNCHANGED impl
  BY DEF MCNext, allVars
<1>2. CASE impl = "faa"
  <2>1. [F!Next]_(F!vars)
    BY <1>2 DEF MCNext, allVars, vars, faaOnly, F!vars, F!pool, F!segments, F!locals, F!calls, pool, crq, locals, calls
  <2>2. QED
    BY <1>1, <1>2, <2>1, NextArrayInv DEF MCInv
<1>3. CASE impl = "lcrq"
  <2>1. [Next]_vars
    BY <1>3 DEF MCNext, allVars
  <2>2. QED
    BY <1>1, <1>3, <2>1, NextIInv, NextRingInv DEF MCInv
<1>4. CASE impl = "ms"
  <2>1. [M!Next]_(M!vars)
    BY <1>4 DEF MCNext, allVars, vars, msOnly, M!vars, M!pool, M!list, M!locals, M!calls, pool, crq, locals, calls
  <2>2. QED
    BY <1>1, <1>4, <2>1, NextMsInv DEF MCInv
<1>5. QED
  BY <1>2, <1>3, <1>4 DEF MCInv

\* MemoryIsSafe (lines 55-105 of FAAArrayQueue.hpp, 139-241 of LCRQ.hpp, 47-83 of
\* MichaelScottQueue.hpp, and retire of MemoryManagementPool.hpp): whatever the number
\* of threads, the size of a segment and the length at which a list of retired nodes is
\* scanned, a thread's step touches only what is allocated; in MSQueue as long as no CAS
\* has replaced a link.
THEOREM MemoryStaysSafe == MCSpec => []MemoryIsSafe
<1>1. MCInit => MCInv
  BY InitMCInv
<1>2. MCInv => MemoryIsSafe
  BY NodesSafe, SegmentsSafe, RingsSafe DEF MCInv, MemoryIsSafe
<1>3. QED
  BY <1>1, <1>2, NextMCInv, PTL DEF MCSpec

\* LinearizableUntilStale of MSQueue (lines 47-83 of MichaelScottQueue.hpp): whatever the
\* number of threads, items and addresses, enqueue and dequeue answer as a FIFO queue
\* does, as long as no CAS has replaced a link, also when nodes are deleted and come back.
THEOREM MSQueueIsLinearizable == MCSpec => [](impl = "ms" => LinearizableUntilStale)
<1>1. MCInit => MCInv
  BY InitMCInv
<1>2. MCInv => (impl = "ms" => LinearizableUntilStale)
  BY AnswersExplained DEF MCInv
<1>3. QED
  BY <1>1, <1>2, NextMCInv, PTL DEF MCSpec
============================================================================
