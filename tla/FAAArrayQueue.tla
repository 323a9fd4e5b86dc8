--------------------------- MODULE FAAArrayQueue ---------------------------
(***************************************************************************)
(* Queue of queueTest/include/FAAArrayQueue.hpp: a list of segments whose  *)
(* cells are handed out by fetch-and-add, to enqueues and to dequeues.     *)
(*                                                                         *)
(* Segments are addresses.  One that loses the race to be linked is        *)
(* deleted by its thread at once, and its address is chosen only if its    *)
(* CAS succeeds; one that head has passed is retired, and comes back as a  *)
(* new segment after it was deleted.                                       *)
(*                                                                         *)
(* protect has its steps, with seg as its local n.  clear is one step with *)
(* the last access of the call: a hazard pointer that goes earlier can     *)
(* only let a segment be deleted earlier.                                  *)
(*                                                                         *)
(* nullValue of enqueue outlives the round: after a failed CAS it is the   *)
(* segment that was found, and the next CAS compares with that.            *)
(***************************************************************************)
EXTENDS Integers, QueueCalls

CONSTANTS
  BUFFER_SIZE,
  Nodes, Threshold,   \* of module HazardPointers
  NULL, TAKEN

BufferAssumption == BUFFER_SIZE \in Nat \ {0}
CellAssumption == NULL \notin Items /\ TAKEN \notin Items \cup {NULL}

VARIABLES
  hp, retired, heap, scan,       \* of module HazardPointers
  deqIdx, enqIdx, next, items,   \* of every segment; they keep their content when it is deleted
  head, tail,
  seg,      \* ltail, lhead; in protect, n
  idx,      \* idx, and the value of deqIdx that dequeue compares
  nxt,      \* lnext, newNode
  expect,   \* nullValue
  stale     \* history: a CAS of next has succeeded whose expected value was not null

INSTANCE HazardPointers WITH HPs <- 1

pool == <<hp, retired, heap, scan>>

segments == <<deqIdx, enqIdx, next, items, head, tail, stale>>
locals == <<seg, idx, nxt, expect>>
vars == <<pool, segments, locals, calls>>

NoCells == [i \in 0 .. BUFFER_SIZE - 1 |-> NULL]

Init ==
  /\ deqIdx = [s \in Nodes |-> 0]
  /\ enqIdx = [s \in Nodes |-> 0]
  /\ next = [s \in Nodes |-> NULL]
  /\ items = [s \in Nodes |-> NoCells]
  /\ PoolInit
  /\ \E sentinel \in Nodes : heap = {sentinel} /\ head = sentinel /\ tail = sentinel
  /\ seg = [p \in Procs |-> NULL]
  /\ idx = [p \in Procs |-> 0]
  /\ nxt = [p \in Procs |-> NULL]
  /\ expect = [p \in Procs |-> NULL]
  /\ stale = FALSE
  /\ CallsInit

\* A round begins with protect, and its n with nullptr.
Round(p, label) == Goto(p, label) /\ seg' = [seg EXCEPT ![p] = NULL]

\* protect(0, atom, tid): load and publish until a load finds what the last one did.
ProtectLoad(p, load, atom, store, to) ==
  /\ pc[p] = load
  /\ seg' = [seg EXCEPT ![p] = atom]
  /\ Goto(p, IF atom = seg[p] THEN to ELSE store)
  /\ UNCHANGED <<pool, segments, idx, nxt, expect>>

ProtectStore(p, store, load) ==
  /\ pc[p] = store
  /\ Publish(p, 0, seg[p])
  /\ Goto(p, load)
  /\ UNCHANGED <<retired, heap, scan, segments, locals>>
-----------------------------------------------------------------------------
Enqueue(p, v) ==
  /\ CallEnqueue(p, v, "enqTail")
  /\ seg' = [seg EXCEPT ![p] = NULL]
  /\ expect' = [expect EXCEPT ![p] = NULL]
  /\ UNCHANGED <<pool, segments, idx, nxt>>

\* ltail = protect(0, tail)
EnqTail(p) ==
  \/ ProtectLoad(p, "enqTail", tail, "enqHp", "enqIdx")
  \/ ProtectStore(p, "enqHp", "enqTail")

\* idx = ltail->enqIdx.fetch_add(1)
EnqIdx(p) ==
  /\ pc[p] = "enqIdx"
  /\ idx' = [idx EXCEPT ![p] = enqIdx[seg[p]]]
  /\ enqIdx' = [enqIdx EXCEPT ![seg[p]] = @ + 1]
  /\ Goto(p, IF enqIdx[seg[p]] > BUFFER_SIZE - 1 THEN "enqLast" ELSE "enqItem")
  /\ UNCHANGED <<pool, deqIdx, next, items, head, tail, stale, seg, nxt, expect>>

\* ltail != tail.load()
EnqLast(p) ==
  /\ pc[p] = "enqLast"
  /\ IF seg[p] # tail THEN Round(p, "enqTail") ELSE Goto(p, "enqNext") /\ UNCHANGED seg
  /\ UNCHANGED <<pool, segments, idx, nxt, expect>>

\* lnext = ltail->next.load()
EnqNext(p) ==
  /\ pc[p] = "enqNext"
  /\ nxt' = [nxt EXCEPT ![p] = next[seg[p]]]
  /\ Goto(p, IF next[seg[p]] = NULL THEN "enqLink" ELSE "enqHelp")
  /\ UNCHANGED <<pool, segments, seg, idx, expect>>

\* ltail->next.compare_exchange_strong(nullValue, newNode), with newNode = new Node(item)
EnqLink(p) ==
  /\ pc[p] = "enqLink"
  /\ IF next[seg[p]] = expect[p]
       THEN \E new \in Nodes \ heap :
            /\ heap' = heap \cup {new}
            /\ next' = [next EXCEPT ![seg[p]] = new, ![new] = NULL]
            /\ items' = [items EXCEPT ![new] = [NoCells EXCEPT ![0] = arg[p]]]
            /\ enqIdx' = [enqIdx EXCEPT ![new] = 1]
            /\ deqIdx' = [deqIdx EXCEPT ![new] = 0]
            /\ nxt' = [nxt EXCEPT ![p] = new]
            /\ stale' = (stale \/ expect[p] # NULL)
            /\ Goto(p, "enqSwing")
            /\ UNCHANGED <<seg, expect>>
       ELSE /\ expect' = [expect EXCEPT ![p] = next[seg[p]]]
            /\ Round(p, "enqTail")
            /\ UNCHANGED <<heap, deqIdx, enqIdx, next, items, stale, nxt>>
  /\ UNCHANGED <<hp, retired, scan, head, tail, idx>>

\* tail.compare_exchange_strong(ltail, lnext) or (ltail, newNode)
SwingTail(p) ==
  /\ tail' = IF tail = seg[p] THEN nxt[p] ELSE tail
  /\ UNCHANGED <<retired, heap, scan, deqIdx, enqIdx, next, items, head, stale, idx, nxt, expect>>
EnqHelp(p) == pc[p] = "enqHelp" /\ SwingTail(p) /\ Round(p, "enqTail") /\ UNCHANGED hp
EnqSwing(p) == pc[p] = "enqSwing" /\ SwingTail(p) /\ Answer(p, OK) /\ Clear(p) /\ UNCHANGED seg

\* Mutant of EnqItem: a store.
EnqItemStore(p) ==
  /\ pc[p] = "enqItem"
  /\ items' = [items EXCEPT ![seg[p]][idx[p]] = arg[p]]
  /\ Answer(p, OK) /\ Clear(p)
  /\ UNCHANGED <<retired, heap, scan, deqIdx, enqIdx, next, head, tail, stale, locals>>

\* ltail->items[idx].compare_exchange_strong(itemnull, item)
EnqItem(p) ==
  /\ pc[p] = "enqItem"
  /\ IF items[seg[p]][idx[p]] = NULL
       THEN /\ items' = [items EXCEPT ![seg[p]][idx[p]] = arg[p]]
            /\ Answer(p, OK) /\ Clear(p)
            /\ UNCHANGED seg
       ELSE Round(p, "enqTail") /\ UNCHANGED <<hp, items>>
  /\ UNCHANGED <<retired, heap, scan, deqIdx, enqIdx, next, head, tail, stale, idx, nxt, expect>>
-----------------------------------------------------------------------------
Dequeue(p) ==
  /\ CallDequeue(p, "deqHead")
  /\ seg' = [seg EXCEPT ![p] = NULL]
  /\ UNCHANGED <<pool, segments, idx, nxt, expect>>

\* lhead = protect(0, head)
DeqHead(p) ==
  \/ ProtectLoad(p, "deqHead", head, "deqHp", "deqDeqIdx")
  \/ ProtectStore(p, "deqHp", "deqHead")

\* lhead->deqIdx.load(), the left operand of >=.  C++ leaves the order of the two
\* operands open; this one is the order of the source, and of the compilers.
DeqDeqIdx(p) ==
  /\ pc[p] = "deqDeqIdx"
  /\ idx' = [idx EXCEPT ![p] = deqIdx[seg[p]]]
  /\ Goto(p, "deqEnqIdx")
  /\ UNCHANGED <<pool, segments, seg, nxt, expect>>

\* ... >= lhead->enqIdx.load()
DeqEnqIdx(p) ==
  /\ pc[p] = "deqEnqIdx"
  /\ Goto(p, IF idx[p] >= enqIdx[seg[p]] THEN "deqLast" ELSE "deqIdx")
  /\ UNCHANGED <<pool, segments, locals>>

\* lhead->next.load() == nullptr: empty
DeqLast(p) ==
  /\ pc[p] = "deqLast"
  /\ IF next[seg[p]] = NULL THEN Answer(p, EMPTY) /\ Clear(p) ELSE Goto(p, "deqIdx") /\ UNCHANGED hp
  /\ UNCHANGED <<retired, heap, scan, segments, locals>>

\* idx = lhead->deqIdx.fetch_add(1)
DeqIdx(p) ==
  /\ pc[p] = "deqIdx"
  /\ idx' = [idx EXCEPT ![p] = deqIdx[seg[p]]]
  /\ deqIdx' = [deqIdx EXCEPT ![seg[p]] = @ + 1]
  /\ Goto(p, IF deqIdx[seg[p]] > BUFFER_SIZE - 1 THEN "deqNext" ELSE "deqItem")
  /\ UNCHANGED <<pool, enqIdx, next, items, head, tail, stale, seg, nxt, expect>>

\* lnext = lhead->next.load(): empty if there is none
DeqNext(p) ==
  /\ pc[p] = "deqNext"
  /\ nxt' = [nxt EXCEPT ![p] = next[seg[p]]]
  /\ IF next[seg[p]] = NULL THEN Answer(p, EMPTY) /\ Clear(p) ELSE Goto(p, "deqSwing") /\ UNCHANGED hp
  /\ UNCHANGED <<retired, heap, scan, segments, seg, idx, expect>>

\* head.compare_exchange_strong(lhead, lnext), and retire(lhead)
DeqSwing(p) ==
  /\ pc[p] = "deqSwing"
  /\ IF head = seg[p]
       THEN /\ head' = nxt[p]
            /\ RetireCall(p, seg[p])
            /\ Goto(p, "deqScan")
            /\ UNCHANGED seg
       ELSE Round(p, "deqHead") /\ UNCHANGED <<head, retired, heap, scan>>
  /\ UNCHANGED <<hp, deqIdx, enqIdx, next, items, tail, stale, idx, nxt, expect>>

DeqScan(p) ==
  /\ pc[p] = "deqScan"
  /\ IF Scanning(p) THEN (ScanLoad(p) \/ ScanDelete(p)) /\ UNCHANGED <<calls, seg>>
     ELSE Round(p, "deqHead") /\ UNCHANGED pool
  /\ UNCHANGED <<segments, idx, nxt, expect>>

\* item = lhead->items[idx].exchange(taken): the next round if the enqueue of that
\* cell is late, which then has to take another one.
DeqItem(p) ==
  /\ pc[p] = "deqItem"
  /\ items' = [items EXCEPT ![seg[p]][idx[p]] = TAKEN]
  /\ LET item == items[seg[p]][idx[p]] IN
     IF item = NULL THEN Round(p, "deqHead") /\ UNCHANGED hp
     ELSE Answer(p, item) /\ Clear(p) /\ UNCHANGED seg
  /\ UNCHANGED <<retired, heap, scan, deqIdx, enqIdx, next, head, tail, stale, idx, nxt, expect>>
-----------------------------------------------------------------------------
EnqStep(p) ==
  \/ EnqTail(p) \/ EnqIdx(p) \/ EnqLast(p) \/ EnqNext(p)
  \/ EnqLink(p) \/ EnqHelp(p) \/ EnqSwing(p) \/ EnqItem(p)

DeqStep(p) ==
  \/ DeqHead(p) \/ DeqDeqIdx(p) \/ DeqEnqIdx(p) \/ DeqLast(p)
  \/ DeqIdx(p) \/ DeqNext(p) \/ DeqSwing(p) \/ DeqScan(p) \/ DeqItem(p)

Next == \E p \in Procs :
  \/ EnqStep(p) \/ DeqStep(p)
  \/ Dequeue(p) \/ \E v \in Items : Enqueue(p, v)

Spec == Init /\ [][Next]_vars
-----------------------------------------------------------------------------
\* The segment that the next step of thread p reads or writes.
Accessed(p) ==
  IF pc[p] \in {"enqIdx", "enqNext", "enqLink", "enqItem",
               "deqDeqIdx", "deqEnqIdx", "deqLast", "deqIdx", "deqNext", "deqItem"}
    THEN {seg[p]} ELSE {}

\* No thread reads or writes a segment that was deleted.
NoUseAfterFree == \A p \in Procs : Accessed(p) \subseteq heap
=============================================================================
