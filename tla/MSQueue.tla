------------------------------ MODULE MSQueue ------------------------------
(***************************************************************************)
(* Queue of queueTest/include/MichaelScottQueue.hpp: a linked list with a  *)
(* sentinel, head and tail moved by CAS, nodes reclaimed with the hazard   *)
(* pointers of module HazardPointers.  Every load, store and CAS of a      *)
(* shared location is a step.                                              *)
(*                                                                         *)
(* compare_exchange_strong stores what it found into its expected value    *)
(* when it fails: the local nullNode of enqueue then is a node, and the    *)
(* next CAS compares next with that node.  head.compare_exchange_strong    *)
(* changes the local node likewise, which protect overwrites at once.      *)
(***************************************************************************)
EXTENDS QueueCalls, Naturals

CONSTANTS HPs, Threshold, Nodes, NULL   \* of the pool

VARIABLES
  hp, retired, heap, scan,   \* of the pool
  head, tail,
  item, next,    \* of every node; they keep their content when it is deleted
  x,             \* the local item of dequeue
  new,           \* newNode of enqueue
  expect,        \* nullNode of enqueue
  node, lnext,   \* ltail or node, and lnext
  seen,          \* the local n of protect
  stale          \* history: a CAS of next has succeeded whose expected value was not null

INSTANCE HazardPointers

\* dequeue publishes with hazard pointers 0 and 1.
HazardsAssumption == 2 <= HPs

pool == <<hp, retired, heap, scan>>

list == <<head, tail, item, next, stale>>
locals == <<x, new, expect, node, lnext, seen>>
vars == <<pool, list, locals, calls>>

Init ==
  /\ PoolInit
  /\ \E sentinel \in Nodes :
       /\ heap = {sentinel}
       /\ head = sentinel
       /\ tail = sentinel
  /\ item = [n \in Nodes |-> NONE]
  /\ next = [n \in Nodes |-> NULL]
  /\ CallsInit
  /\ x = [p \in Procs |-> NONE]
  /\ new = [p \in Procs |-> NULL]
  /\ expect = [p \in Procs |-> NULL]
  /\ node = [p \in Procs |-> NULL]
  /\ lnext = [p \in Procs |-> NULL]
  /\ seen = [p \in Procs |-> NULL]
  /\ stale = FALSE
-----------------------------------------------------------------------------
Enqueue(p, v) ==
  /\ CallEnqueue(p, v, "enqNew")
  /\ expect' = [expect EXCEPT ![p] = NULL]
  /\ UNCHANGED <<pool, list, x, new, node, lnext, seen>>

\* newNode = new Node(item)
EnqNew(p) ==
  /\ pc[p] = "enqNew"
  /\ \E n \in Nodes \ heap :
       /\ heap' = heap \cup {n}
       /\ item' = [item EXCEPT ![n] = arg[p]]
       /\ next' = [next EXCEPT ![n] = NULL]
       /\ new' = [new EXCEPT ![p] = n]
  /\ Goto(p, "enqTail")
  /\ UNCHANGED <<hp, retired, scan, head, tail, stale, x, expect, node, lnext, seen>>

\* ltail = protectPointer(0, tail.load()): the load
EnqTail(p) ==
  /\ pc[p] = "enqTail"
  /\ node' = [node EXCEPT ![p] = tail]
  /\ Goto(p, "enqHp")
  /\ UNCHANGED <<pool, list, x, new, expect, lnext, seen>>

\* and the store
EnqHp(p) ==
  /\ pc[p] = "enqHp"
  /\ Publish(p, 0, node[p])
  /\ Goto(p, "enqCheck")
  /\ UNCHANGED <<retired, heap, scan, list, locals>>

\* ltail == tail.load()
EnqCheck(p) ==
  /\ pc[p] = "enqCheck"
  /\ Goto(p, IF node[p] = tail THEN "enqNext" ELSE "enqTail")
  /\ UNCHANGED <<pool, list, locals>>

\* lnext = ltail->next.load()
EnqNext(p) ==
  /\ pc[p] = "enqNext"
  /\ lnext' = [lnext EXCEPT ![p] = next[node[p]]]
  /\ Goto(p, IF next[node[p]] = NULL THEN "enqCas" ELSE "enqHelp")
  /\ UNCHANGED <<pool, list, x, new, expect, node, seen>>

\* ltail->next.compare_exchange_strong(nullNode, newNode)
EnqCas(p) ==
  /\ pc[p] = "enqCas"
  /\ IF next[node[p]] = expect[p]
       THEN /\ next' = [next EXCEPT ![node[p]] = new[p]]
            /\ stale' = (stale \/ expect[p] # NULL)
            /\ Goto(p, "enqSwing")
            /\ UNCHANGED expect
       ELSE /\ expect' = [expect EXCEPT ![p] = next[node[p]]]
            /\ Goto(p, "enqTail")
            /\ UNCHANGED <<next, stale>>
  /\ UNCHANGED <<pool, head, tail, item, x, new, node, lnext, seen>>

\* tail.compare_exchange_strong(ltail, lnext)
EnqHelp(p) ==
  /\ pc[p] = "enqHelp"
  /\ tail' = IF tail = node[p] THEN lnext[p] ELSE tail
  /\ Goto(p, "enqTail")
  /\ UNCHANGED <<pool, head, item, next, stale, locals>>

\* tail.compare_exchange_strong(ltail, newNode)
EnqSwing(p) ==
  /\ pc[p] = "enqSwing"
  /\ tail' = IF tail = node[p] THEN new[p] ELSE tail
  /\ Goto(p, "enqClear")
  /\ UNCHANGED <<pool, head, item, next, stale, locals>>

EnqClear(p) ==
  /\ pc[p] = "enqClear"
  /\ Clear(p)
  /\ Answer(p, OK)
  /\ UNCHANGED <<retired, heap, scan, list, locals>>
-----------------------------------------------------------------------------
\* protect(k, atom, tid): load and publish until a load finds what the last one did.
\* The first load compares with nullptr.
ProtectFirst(p) == seen' = [seen EXCEPT ![p] = NULL]

ProtectLoad(p, load, atom, store, to) ==
  /\ pc[p] = load
  /\ UNCHANGED <<pool, list, x, new, expect>>
  /\ IF atom = seen[p] THEN Goto(p, to) /\ UNCHANGED seen
     ELSE Goto(p, store) /\ seen' = [seen EXCEPT ![p] = atom]

ProtectStore(p, store, k, load) ==
  /\ pc[p] = store
  /\ Publish(p, k, seen[p])
  /\ Goto(p, load)
  /\ UNCHANGED <<retired, heap, scan, list, locals>>

Dequeue(p) ==
  /\ CallDequeue(p, "deqHead")
  /\ ProtectFirst(p)
  /\ UNCHANGED <<pool, list, x, new, expect, node, lnext>>

\* node = protect(0, head)
DeqHead(p) ==
  \/ /\ ProtectLoad(p, "deqHead", head, "deqHeadHp", "deqTail")
     /\ node' = [node EXCEPT ![p] = head]
     /\ UNCHANGED lnext
  \/ ProtectStore(p, "deqHeadHp", 0, "deqHead")

\* while (node != tail.load())
DeqTail(p) ==
  /\ pc[p] = "deqTail"
  /\ ProtectFirst(p)
  /\ Goto(p, IF node[p] = tail THEN "deqEmpty" ELSE "deqNext")
  /\ UNCHANGED <<pool, list, x, new, expect, node, lnext>>

\* lnext = protect(1, node->next)
DeqNext(p) ==
  \/ /\ ProtectLoad(p, "deqNext", next[node[p]], "deqNextHp", "deqCas")
     /\ lnext' = [lnext EXCEPT ![p] = next[node[p]]]
     /\ UNCHANGED node
  \/ ProtectStore(p, "deqNextHp", 1, "deqNext")

\* head.compare_exchange_strong(node, lnext)
DeqCas(p) ==
  /\ pc[p] = "deqCas"
  /\ ProtectFirst(p)
  /\ IF head = node[p]
       THEN head' = lnext[p] /\ Goto(p, "deqItem")
       ELSE Goto(p, "deqHead") /\ UNCHANGED head
  /\ UNCHANGED <<pool, tail, item, next, stale, x, new, expect, node, lnext>>

\* item = lnext->item
DeqItem(p) ==
  /\ pc[p] = "deqItem"
  /\ x' = [x EXCEPT ![p] = item[lnext[p]]]
  /\ Goto(p, "deqClear")
  /\ UNCHANGED <<pool, list, new, expect, node, lnext, seen>>

DeqClear(p) ==
  /\ pc[p] = "deqClear"
  /\ Clear(p)
  /\ Goto(p, "deqRetire")
  /\ UNCHANGED <<retired, heap, scan, list, locals>>

\* retire(node), with its scan, and return
DeqRetire(p) ==
  /\ pc[p] = "deqRetire"
  /\ RetireCall(p, node[p])
  /\ Goto(p, "deqScan")
  /\ UNCHANGED <<hp, list, locals>>

DeqScan(p) ==
  /\ pc[p] = "deqScan"
  /\ ScanLoad(p) \/ ScanDelete(p)
  /\ UNCHANGED <<list, locals, calls>>

DeqReturn(p) ==
  /\ pc[p] = "deqScan" /\ ~Scanning(p)
  /\ Answer(p, x[p])
  /\ UNCHANGED <<pool, list, locals>>

DeqEmpty(p) ==
  /\ pc[p] = "deqEmpty"
  /\ Clear(p)
  /\ Answer(p, EMPTY)
  /\ UNCHANGED <<retired, heap, scan, list, locals>>
-----------------------------------------------------------------------------
EnqStep(p) ==
  \/ EnqNew(p) \/ EnqTail(p) \/ EnqHp(p) \/ EnqCheck(p) \/ EnqNext(p)
  \/ EnqCas(p) \/ EnqHelp(p) \/ EnqSwing(p) \/ EnqClear(p)

DeqStep(p) ==
  \/ DeqHead(p) \/ DeqTail(p) \/ DeqNext(p) \/ DeqCas(p) \/ DeqItem(p)
  \/ DeqClear(p) \/ DeqRetire(p) \/ DeqScan(p) \/ DeqReturn(p) \/ DeqEmpty(p)

Next == \E p \in Procs :
  \/ EnqStep(p) \/ DeqStep(p)
  \/ Dequeue(p) \/ \E v \in Items : Enqueue(p, v)

Spec == Init /\ [][Next]_vars
-----------------------------------------------------------------------------
\* The nodes that the next step of thread p reads or writes.
Accessed(p) ==
  CASE pc[p] \in {"enqNext", "enqCas", "deqNext"} -> {node[p]}
    [] pc[p] = "deqItem" -> {lnext[p]}
    [] OTHER -> {}

\* No thread reads or writes a node that was deleted: whatever it has read, published
\* and found unchanged, no scan of another thread can have missed.
NoUseAfterFree == \A p \in Procs : Accessed(p) \subseteq heap
=============================================================================
