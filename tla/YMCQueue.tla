------------------------------ MODULE YMCQueue ------------------------------
(***************************************************************************)
(* Queue of queueTest/include/YMCQueue.hpp: an array of cells that         *)
(* enqueues and dequeues draw by fetch-and-add.  An enqueue that finds its *)
(* cells spoiled by dequeues publishes a request, which dequeues help to   *)
(* place; a dequeue that finds its cells taken publishes one too, which    *)
(* other dequeues help to serve.                                           *)
(*                                                                         *)
(* The cells are those of the first segment: findCell allocates nothing,   *)
(* and cleanUp, which runs when a segment was linked, has nothing to do.   *)
(* The fields that only reclamation reads (hzdNodeId, tailNodeId, ...) are *)
(* left out.  Every load, store and CAS of a shared location is a step,    *)
(* with these exceptions.  A loop that lifts an index to at least n + 1 is *)
(* one step, its successful CAS or its last load.  In helpEnq a load and   *)
(* the CAS that follows if it found nullptr are one step, and so are the   *)
(* two CASes of enqReq, which is written once, and the two loads of the    *)
(* peer's id, which never returns to the value of Ei.  The code asks for   *)
(* relaxed order in many places; the model has the order of the program.   *)
(***************************************************************************)
EXTENDS Integers, QueueCalls

CONSTANTS
  N,          \* max_threads
  PATIENCE,   \* 10 in the code
  Last,       \* bound of the model: the last cell that is drawn
  NULL,       \* nullptr
  TOP         \* top_ptr

Cell == 0 .. Last

ThreadsAssumption == N \in Nat \ {0} /\ Procs = 0 .. N - 1
PatienceAssumption == PATIENCE \in Nat \ {0}
ValuesAssumption == NULL \notin Items /\ TOP \notin Items \cup {NULL}

VARIABLES
  enqIdx, deqIdx,         \* mEnqIdx, mDeqIdx
  val, enqReq, deqReq,    \* of every cell; a request is named by its thread
  reqId, reqVal,          \* enqReq.id and .val of every thread
  deqId, deqAt,           \* deqReq.id and .idx of every thread
  Ei, enqPeer, deqPeer,   \* Ei, enqHelpHandle, deqHelpHandle of every thread
  tries,        \* patience
  i, id,        \* the locals of that name; i is nodeId in helpEnq
  res,          \* the result of dequeue, TOP as long as there is none
  found,        \* the result of helpEnq
  whom,         \* ph of helpDeq, NULL in deqFast
  idx, oldVal, newVal,    \* of helpDeq
  enq, enqId, enqVal,     \* of helpEnq
  claimed,      \* history: a helper has claimed the request of an enqueue
  served        \* history: the dequeues that each cell has given its value to

indices == <<enqIdx, deqIdx>>
cells == <<val, enqReq, deqReq>>
enqReqs == <<reqId, reqVal>>
deqReqs == <<deqId, deqAt>>
peers == <<Ei, enqPeer, deqPeer>>
dequeueLocals == <<res, whom, idx, oldVal, newVal>>
helpLocals == <<found, enq, enqId, enqVal>>
history == <<claimed, served>>
vars == <<indices, cells, enqReqs, deqReqs, peers, tries, i, id, dequeueLocals, helpLocals, history, calls>>

Peer(p) == (p + 1) % N   \* next

Init ==
  /\ CallsInit
  /\ enqIdx = 1 /\ deqIdx = 1
  /\ val = [c \in Cell |-> NULL]
  /\ enqReq = [c \in Cell |-> NULL]
  /\ deqReq = [c \in Cell |-> NULL]
  /\ reqId = [p \in Procs |-> 0]
  /\ reqVal = [p \in Procs |-> NULL]
  /\ deqId = [p \in Procs |-> 0]
  /\ deqAt = [p \in Procs |-> -1]
  /\ Ei = [p \in Procs |-> 0]
  /\ enqPeer = [p \in Procs |-> Peer(p)]
  /\ deqPeer = [p \in Procs |-> Peer(p)]
  /\ tries = [p \in Procs |-> 0]
  /\ i = [p \in Procs |-> 0]
  /\ id = [p \in Procs |-> 0]
  /\ res = [p \in Procs |-> NULL]
  /\ found = [p \in Procs |-> NULL]
  /\ whom = [p \in Procs |-> NULL]
  /\ idx = [p \in Procs |-> 0]
  /\ oldVal = [p \in Procs |-> 0]
  /\ newVal = [p \in Procs |-> 0]
  /\ enq = [p \in Procs |-> NULL]
  /\ enqId = [p \in Procs |-> 0]
  /\ enqVal = [p \in Procs |-> NULL]
  /\ claimed = FALSE
  /\ served = [c \in Cell |-> 0]

Larger(a, b) == IF a > b THEN a ELSE b
-----------------------------------------------------------------------------
\* enqueue(elem, thread_id)
Enqueue(p, v) ==
  /\ CallEnqueue(p, v, "enqFAA")
  /\ tries' = [tries EXCEPT ![p] = 0]
  /\ UNCHANGED <<indices, cells, enqReqs, deqReqs, peers, i, id, dequeueLocals, helpLocals, history>>

\* enqFast: i = mEnqIdx.fetch_add(1)
EnqFAA(p) ==
  /\ pc[p] = "enqFAA" /\ enqIdx <= Last
  /\ i' = [i EXCEPT ![p] = enqIdx]
  /\ enqIdx' = enqIdx + 1
  /\ Goto(p, "enqCell")
  /\ UNCHANGED <<deqIdx, cells, enqReqs, deqReqs, peers, tries, id, dequeueLocals, helpLocals, history>>

\* cell.val.compare_exchange_strong(nullptr, elem); the slow path when patience is over.
EnqCell(p) ==
  /\ pc[p] = "enqCell"
  /\ IF val[i[p]] = NULL
       THEN /\ val' = [val EXCEPT ![i[p]] = arg[p]]
            /\ Answer(p, OK)
            /\ UNCHANGED <<tries, id>>
       ELSE /\ id' = [id EXCEPT ![p] = i[p]]
            /\ tries' = [tries EXCEPT ![p] = @ + 1]
            /\ Goto(p, IF tries[p] + 1 < PATIENCE THEN "enqFAA" ELSE "slowVal")
            /\ UNCHANGED val
  /\ UNCHANGED <<indices, enqReq, deqReq, enqReqs, deqReqs, peers, i, dequeueLocals, helpLocals, history>>

\* enqSlow: the request is published.
SlowVal(p) ==
  /\ pc[p] = "slowVal"
  /\ reqVal' = [reqVal EXCEPT ![p] = arg[p]]
  /\ Goto(p, "slowId")
  /\ UNCHANGED <<indices, cells, reqId, deqReqs, peers, tries, i, id, dequeueLocals, helpLocals, history>>
SlowId(p) ==
  /\ pc[p] = "slowId"
  /\ reqId' = [reqId EXCEPT ![p] = id[p]]
  /\ Goto(p, "slowFAA")
  /\ UNCHANGED <<indices, cells, reqVal, deqReqs, peers, tries, i, id, dequeueLocals, helpLocals, history>>

SlowFAA(p) ==
  /\ pc[p] = "slowFAA" /\ enqIdx <= Last
  /\ i' = [i EXCEPT ![p] = enqIdx]
  /\ enqIdx' = enqIdx + 1
  /\ Goto(p, "slowReserve")
  /\ UNCHANGED <<deqIdx, cells, enqReqs, deqReqs, peers, tries, id, dequeueLocals, helpLocals, history>>

\* cell.enqReq.compare_exchange_strong(nullptr, &enq)
SlowReserve(p) ==
  /\ pc[p] = "slowReserve"
  /\ IF enqReq[i[p]] = NULL
       THEN enqReq' = [enqReq EXCEPT ![i[p]] = p] /\ Goto(p, "slowLook")
       ELSE Goto(p, "slowTest") /\ UNCHANGED enqReq
  /\ UNCHANGED <<indices, val, deqReq, enqReqs, deqReqs, peers, tries, i, id, dequeueLocals, helpLocals, history>>

\* cell.val.load() != top_ptr
SlowLook(p) ==
  /\ pc[p] = "slowLook"
  /\ Goto(p, IF val[i[p]] # TOP THEN "slowClaim" ELSE "slowTest")
  /\ UNCHANGED <<indices, cells, enqReqs, deqReqs, peers, tries, i, id, dequeueLocals, helpLocals, history>>

\* enq.id.compare_exchange_strong(id, -i)
SlowClaim(p) ==
  /\ pc[p] = "slowClaim"
  /\ reqId' = IF reqId[p] = id[p] THEN [reqId EXCEPT ![p] = 0 - i[p]] ELSE reqId
  /\ Goto(p, "slowRead")
  /\ UNCHANGED <<indices, cells, reqVal, deqReqs, peers, tries, i, id, dequeueLocals, helpLocals, history>>

\* while (enq.id.load() > 0)
SlowTest(p) ==
  /\ pc[p] = "slowTest"
  /\ Goto(p, IF reqId[p] > 0 THEN "slowFAA" ELSE "slowRead")
  /\ UNCHANGED <<indices, cells, enqReqs, deqReqs, peers, tries, i, id, dequeueLocals, helpLocals, history>>

\* id = -enq.id.load(), which nobody changes any more; mEnqIdx is lifted above it.
SlowRead(p) ==
  /\ pc[p] = "slowRead"
  /\ LET c == 0 - reqId[p] IN
     /\ id' = [id EXCEPT ![p] = c]
     /\ enqIdx' = IF c > i[p] THEN Larger(enqIdx, c + 1) ELSE enqIdx
  /\ Goto(p, "slowStore")
  /\ UNCHANGED <<deqIdx, cells, enqReqs, deqReqs, peers, tries, i, dequeueLocals, helpLocals, history>>

\* cell.val.store(elem)
SlowStore(p) ==
  /\ pc[p] = "slowStore"
  /\ val' = [val EXCEPT ![id[p]] = arg[p]]
  /\ Answer(p, OK)
  /\ UNCHANGED <<indices, enqReq, deqReq, enqReqs, deqReqs, peers, tries, i, id, dequeueLocals, helpLocals, history>>
-----------------------------------------------------------------------------
\* dequeue(thread_id)
Dequeue(p) ==
  /\ CallDequeue(p, "deqFAA")
  /\ tries' = [tries EXCEPT ![p] = 0]
  /\ res' = [res EXCEPT ![p] = TOP]
  /\ UNCHANGED <<indices, cells, enqReqs, deqReqs, peers, i, id, whom, idx, oldVal, newVal, helpLocals, history>>

\* deqFast: i = mDeqIdx.fetch_add(1), then helpEnq(cell, th, i)
DeqFAA(p) ==
  /\ pc[p] = "deqFAA" /\ deqIdx <= Last
  /\ i' = [i EXCEPT ![p] = deqIdx]
  /\ deqIdx' = deqIdx + 1
  /\ whom' = [whom EXCEPT ![p] = NULL]
  /\ Goto(p, "helpVal")
  /\ UNCHANGED <<enqIdx, cells, enqReqs, deqReqs, peers, tries, id, res, idx, oldVal, newVal, helpLocals, history>>

\* res == nullptr: the queue is empty, and nobody is helped.
DeqEmpty(p) ==
  /\ pc[p] = "deqCell" /\ found[p] = NULL
  /\ Answer(p, EMPTY)
  /\ UNCHANGED <<indices, cells, enqReqs, deqReqs, peers, tries, i, id, dequeueLocals, helpLocals, history>>

\* cell.deqReq.compare_exchange_strong(nullptr, top_ptr): the value is this dequeue's.
DeqCell(p) ==
  /\ pc[p] = "deqCell" /\ found[p] \in Items /\ deqReq[i[p]] = NULL
  /\ deqReq' = [deqReq EXCEPT ![i[p]] = TOP]
  /\ res' = [res EXCEPT ![p] = found[p]]
  /\ served' = [served EXCEPT ![i[p]] = @ + 1]
  /\ whom' = [whom EXCEPT ![p] = deqPeer[p]]
  /\ Goto(p, "reqIdx")
  /\ UNCHANGED <<indices, val, enqReq, enqReqs, deqReqs, peers, tries, i, id, idx, oldVal, newVal, helpLocals, claimed>>

\* The cell is of no use; the slow path when patience is over.
DeqAgain(p) ==
  /\ pc[p] = "deqCell" /\ found[p] # NULL
  /\ found[p] = TOP \/ deqReq[i[p]] # NULL
  /\ id' = [id EXCEPT ![p] = i[p]]
  /\ tries' = [tries EXCEPT ![p] = @ + 1]
  /\ Goto(p, IF tries[p] + 1 < PATIENCE THEN "deqFAA" ELSE "deqSlowId")
  /\ UNCHANGED <<indices, cells, enqReqs, deqReqs, peers, i, dequeueLocals, helpLocals, history>>

\* deqSlow: the request is published, and helpDeq(th, th) serves it.
DeqSlowId(p) ==
  /\ pc[p] = "deqSlowId"
  /\ deqId' = [deqId EXCEPT ![p] = id[p]]
  /\ Goto(p, "deqSlowIdx")
  /\ UNCHANGED <<indices, cells, enqReqs, deqAt, peers, tries, i, id, dequeueLocals, helpLocals, history>>
DeqSlowIdx(p) ==
  /\ pc[p] = "deqSlowIdx"
  /\ deqAt' = [deqAt EXCEPT ![p] = id[p]]
  /\ whom' = [whom EXCEPT ![p] = p]
  /\ Goto(p, "reqIdx")
  /\ UNCHANGED <<indices, cells, enqReqs, deqId, peers, tries, i, id, res, idx, oldVal, newVal, helpLocals, history>>

\* i = -deq.idx.load()
DeqSlowRead(p) ==
  /\ pc[p] = "deqSlowRead"
  /\ i' = [i EXCEPT ![p] = 0 - deqAt[p]]
  /\ Goto(p, "deqSlowVal")
  /\ UNCHANGED <<indices, cells, enqReqs, deqReqs, peers, tries, id, dequeueLocals, helpLocals, history>>

\* res = cell.val.load(), nullptr for top_ptr; a dequeue with an item helps its peer.
DeqSlowVal(p) ==
  /\ pc[p] = "deqSlowVal"
  /\ IF val[i[p]] \notin Items
       THEN Answer(p, EMPTY) /\ UNCHANGED <<res, served, whom>>
       ELSE /\ res' = [res EXCEPT ![p] = val[i[p]]]
            /\ served' = [served EXCEPT ![i[p]] = @ + 1]
            /\ whom' = [whom EXCEPT ![p] = deqPeer[p]]
            /\ Goto(p, "reqIdx")
  /\ UNCHANGED <<indices, cells, enqReqs, deqReqs, peers, tries, i, id, idx, oldVal, newVal, helpLocals, claimed>>

\* helpDeq is over: on with the slow path, or the end of dequeue.
HelpDeqEnd(p) ==
  /\ pc[p] = "reqEnd"
  /\ IF res[p] = TOP
       THEN Goto(p, "deqSlowRead") /\ UNCHANGED deqPeer
       ELSE Answer(p, res[p]) /\ deqPeer' = [deqPeer EXCEPT ![p] = Peer(@)]
  /\ UNCHANGED <<indices, cells, enqReqs, deqReqs, Ei, enqPeer, tries, i, id, dequeueLocals, helpLocals, history>>
-----------------------------------------------------------------------------
\* helpEnq(cell, threadHandle, nodeId): the cell is spoiled unless it has an item.
HelpReturn(p, v) ==
  /\ found' = [found EXCEPT ![p] = v]
  /\ Goto(p, IF whom[p] = NULL THEN "deqCell" ELSE "reqFound")

\* Mutant of HelpVal: a cell without an item is not spoiled.
HelpValOnly(p) ==
  /\ pc[p] = "helpVal"
  /\ IF val[i[p]] \in Items THEN HelpReturn(p, val[i[p]]) ELSE Goto(p, "helpReq") /\ UNCHANGED found
  /\ UNCHANGED <<indices, cells, enqReqs, deqReqs, peers, tries, i, id, dequeueLocals, enq, enqId, enqVal, history>>

\* cell.val.load(), and the CAS of top_ptr if it is nullptr
HelpVal(p) ==
  /\ pc[p] = "helpVal"
  /\ IF val[i[p]] \in Items
       THEN HelpReturn(p, val[i[p]]) /\ UNCHANGED val
       ELSE Goto(p, "helpReq") /\ val' = [val EXCEPT ![i[p]] = TOP] /\ UNCHANGED found
  /\ UNCHANGED <<indices, enqReq, deqReq, enqReqs, deqReqs, peers, tries, i, id, dequeueLocals, enq, enqId, enqVal, history>>

\* enq = cell.enqReq.load()
HelpReq(p) ==
  /\ pc[p] = "helpReq"
  /\ enq' = [enq EXCEPT ![p] = enqReq[i[p]]]
  /\ Goto(p, IF enqReq[i[p]] = NULL THEN "helpPeer" ELSE "helpWhose")
  /\ UNCHANGED <<indices, cells, enqReqs, deqReqs, peers, tries, i, id, dequeueLocals, found, enqId, enqVal, history>>

\* id = pe->id.load(); if the peer has another request than last time it is loaded again,
\* and the next peer is the next one's.
HelpPeer(p) ==
  /\ pc[p] = "helpPeer"
  /\ enq' = [enq EXCEPT ![p] = enqPeer[p]]
  /\ enqId' = [enqId EXCEPT ![p] = reqId[enqPeer[p]]]
  /\ IF Ei[p] \notin {0, reqId[enqPeer[p]]}
       THEN Ei' = [Ei EXCEPT ![p] = 0] /\ enqPeer' = [enqPeer EXCEPT ![p] = Peer(@)]
       ELSE UNCHANGED <<Ei, enqPeer>>
  /\ Goto(p, "helpReserve")
  /\ UNCHANGED <<indices, cells, enqReqs, deqReqs, deqPeer, tries, i, id, dequeueLocals, found, enqVal, history>>

\* The cell is reserved for the peer's request if it is pending and not newer than the
\* cell, and for none otherwise; the peer stays the one to help if it was too late.
HelpReserve(p) ==
  /\ pc[p] = "helpReserve"
  /\ LET c == i[p]
         pending == 0 < enqId[p] /\ enqId[p] <= c
         mine == IF enqReq[c] # NULL THEN enqReq[c] ELSE IF pending THEN enq[p] ELSE TOP
     IN /\ enqReq' = [enqReq EXCEPT ![c] = mine]
        /\ enq' = [enq EXCEPT ![p] = mine]
        /\ IF pending /\ mine # enq[p]
             THEN Ei' = [Ei EXCEPT ![p] = enqId[p]] /\ UNCHANGED enqPeer
             ELSE Ei' = [Ei EXCEPT ![p] = 0] /\ enqPeer' = [enqPeer EXCEPT ![p] = Peer(enq[p])]
  /\ Goto(p, "helpWhose")
  /\ UNCHANGED <<indices, val, deqReq, enqReqs, deqReqs, deqPeer, tries, i, id, dequeueLocals, found, enqId, enqVal, history>>

\* enq == top_ptr: the queue is empty if no enqueue has come as far.
HelpNobody(p) ==
  /\ pc[p] = "helpWhose" /\ enq[p] = TOP
  /\ HelpReturn(p, IF enqIdx <= i[p] THEN NULL ELSE TOP)
  /\ UNCHANGED <<indices, cells, enqReqs, deqReqs, peers, tries, i, id, dequeueLocals, enq, enqId, enqVal, history>>

\* enqId = enq->id.load(), enqVal = enq->val.load()
HelpId(p) ==
  /\ pc[p] = "helpWhose" /\ enq[p] # TOP
  /\ enqId' = [enqId EXCEPT ![p] = reqId[enq[p]]]
  /\ Goto(p, "helpReqVal")
  /\ UNCHANGED <<indices, cells, enqReqs, deqReqs, peers, tries, i, id, dequeueLocals, found, enq, enqVal, history>>
HelpReqVal(p) ==
  /\ pc[p] = "helpReqVal"
  /\ enqVal' = [enqVal EXCEPT ![p] = reqVal[enq[p]]]
  /\ Goto(p, IF enqId[p] > i[p] THEN "helpNewer" ELSE IF enqId[p] > 0 THEN "helpClaim" ELSE "helpMine")
  /\ UNCHANGED <<indices, cells, enqReqs, deqReqs, peers, tries, i, id, dequeueLocals, found, enq, enqId, history>>

\* The request is newer than the cell: cell.val, then mEnqIdx.
HelpNewer(p) ==
  /\ pc[p] = "helpNewer"
  /\ Goto(p, IF val[i[p]] = TOP THEN "helpNewerIdx" ELSE "helpEnd")
  /\ UNCHANGED <<indices, cells, enqReqs, deqReqs, peers, tries, i, id, dequeueLocals, helpLocals, history>>
HelpNewerIdx(p) ==
  /\ pc[p] = "helpNewerIdx"
  /\ IF enqIdx <= i[p] THEN HelpReturn(p, NULL) ELSE Goto(p, "helpEnd") /\ UNCHANGED found
  /\ UNCHANGED <<indices, cells, enqReqs, deqReqs, peers, tries, i, id, dequeueLocals, enq, enqId, enqVal, history>>

\* enq->id.compare_exchange_strong(enqId, -nodeId + 1)
HelpClaim(p) ==
  /\ pc[p] = "helpClaim"
  /\ IF reqId[enq[p]] = enqId[p]
       THEN /\ reqId' = [reqId EXCEPT ![enq[p]] = 1 - i[p]]
            /\ claimed' = TRUE
            /\ Goto(p, "helpLift")
            /\ UNCHANGED enqId
       ELSE /\ enqId' = [enqId EXCEPT ![p] = reqId[enq[p]]]
            /\ Goto(p, "helpMine")
            /\ UNCHANGED <<reqId, claimed>>
  /\ UNCHANGED <<indices, cells, reqVal, deqReqs, peers, tries, i, id, dequeueLocals, found, enq, enqVal, served>>

\* enqId == -nodeId && cell.val.load() == top_ptr
HelpMine(p) ==
  /\ pc[p] = "helpMine"
  /\ Goto(p, IF enqId[p] = 0 - i[p] /\ val[i[p]] = TOP THEN "helpLift" ELSE "helpEnd")
  /\ UNCHANGED <<indices, cells, enqReqs, deqReqs, peers, tries, i, id, dequeueLocals, helpLocals, history>>

\* mEnqIdx is lifted above nodeId, and the cell gets the value of the request.
HelpLift(p) ==
  /\ pc[p] = "helpLift"
  /\ enqIdx' = Larger(enqIdx, i[p] + 1)
  /\ Goto(p, "helpStore")
  /\ UNCHANGED <<deqIdx, cells, enqReqs, deqReqs, peers, tries, i, id, dequeueLocals, helpLocals, history>>
HelpStore(p) ==
  /\ pc[p] = "helpStore"
  /\ val' = [val EXCEPT ![i[p]] = enqVal[p]]
  /\ Goto(p, "helpEnd")
  /\ UNCHANGED <<indices, enqReq, deqReq, enqReqs, deqReqs, peers, tries, i, id, dequeueLocals, helpLocals, history>>

\* return cell.val.load()
HelpEnd(p) ==
  /\ pc[p] = "helpEnd"
  /\ HelpReturn(p, val[i[p]])
  /\ UNCHANGED <<indices, cells, enqReqs, deqReqs, peers, tries, i, id, dequeueLocals, enq, enqId, enqVal, history>>
-----------------------------------------------------------------------------
\* helpDeq(th, ph): idx = deq.idx.load(), id = deq.id.load(), and idx again.
ReqIdx(p) ==
  /\ pc[p] = "reqIdx"
  /\ idx' = [idx EXCEPT ![p] = deqAt[whom[p]]]
  /\ Goto(p, "reqId")
  /\ UNCHANGED <<indices, cells, enqReqs, deqReqs, peers, tries, i, id, res, whom, oldVal, newVal, helpLocals, history>>
ReqId(p) ==
  /\ pc[p] = "reqId"
  /\ id' = [id EXCEPT ![p] = deqId[whom[p]]]
  /\ Goto(p, IF idx[p] < deqId[whom[p]] THEN "reqEnd" ELSE "reqIdxAgain")
  /\ UNCHANGED <<indices, cells, enqReqs, deqReqs, peers, tries, i, dequeueLocals, helpLocals, history>>

\* The top of the inner loop: on as long as the request is unchanged and no cell found.
Search(p, x, old, new) ==
  Goto(p, IF x = old /\ new = 0 THEN "reqLift" ELSE IF new # 0 THEN "reqAnnounce" ELSE "reqDone")

ReqIdxAgain(p) ==
  /\ pc[p] = "reqIdxAgain"
  /\ idx' = [idx EXCEPT ![p] = deqAt[whom[p]]]
  /\ i' = [i EXCEPT ![p] = id[p] + 1]
  /\ oldVal' = [oldVal EXCEPT ![p] = id[p]]
  /\ newVal' = [newVal EXCEPT ![p] = 0]
  /\ Search(p, deqAt[whom[p]], id[p], 0)
  /\ UNCHANGED <<indices, cells, enqReqs, deqReqs, peers, tries, id, res, whom, helpLocals, history>>

\* mDeqIdx is lifted above i, and helpEnq looks at the cell.
ReqLift(p) ==
  /\ pc[p] = "reqLift" /\ i[p] <= Last
  /\ deqIdx' = Larger(deqIdx, i[p] + 1)
  /\ Goto(p, "helpVal")
  /\ UNCHANGED <<enqIdx, cells, enqReqs, deqReqs, peers, tries, i, id, dequeueLocals, helpLocals, history>>

\* The cell shows that the queue is empty, or has an item that no dequeue has.
ReqFound(p) ==
  /\ pc[p] = "reqFound"
  /\ found[p] = NULL \/ (found[p] \in Items /\ deqReq[i[p]] = NULL)
  /\ newVal' = [newVal EXCEPT ![p] = i[p]]
  /\ i' = [i EXCEPT ![p] = @ + 1]
  /\ Search(p, idx[p], oldVal[p], i[p])
  /\ UNCHANGED <<indices, cells, enqReqs, deqReqs, peers, tries, id, res, whom, idx, oldVal, helpLocals, history>>
ReqNotFound(p) ==
  /\ pc[p] = "reqFound"
  /\ found[p] = TOP \/ (found[p] \in Items /\ deqReq[i[p]] # NULL)
  /\ Goto(p, "reqNext")
  /\ UNCHANGED <<indices, cells, enqReqs, deqReqs, peers, tries, i, id, dequeueLocals, helpLocals, history>>

\* idx = deq.idx.load(), and the next cell.
ReqNext(p) ==
  /\ pc[p] = "reqNext"
  /\ idx' = [idx EXCEPT ![p] = deqAt[whom[p]]]
  /\ i' = [i EXCEPT ![p] = @ + 1]
  /\ Search(p, deqAt[whom[p]], oldVal[p], 0)
  /\ UNCHANGED <<indices, cells, enqReqs, deqReqs, peers, tries, id, res, whom, oldVal, newVal, helpLocals, history>>

\* deq.idx.compare_exchange_strong(idx, newVal)
ReqAnnounce(p) ==
  /\ pc[p] = "reqAnnounce"
  /\ LET now == IF deqAt[whom[p]] = idx[p] THEN newVal[p] ELSE deqAt[whom[p]] IN
     /\ deqAt' = [deqAt EXCEPT ![whom[p]] = now]
     /\ idx' = [idx EXCEPT ![p] = now]
     /\ newVal' = [newVal EXCEPT ![p] = IF now >= newVal[p] THEN 0 ELSE newVal[p]]
  /\ Goto(p, "reqDone")
  /\ UNCHANGED <<indices, cells, enqReqs, deqId, peers, tries, i, id, res, whom, oldVal, helpLocals, history>>

\* idx < 0 || deq.id.load() != id: the request was served.
ReqDone(p) ==
  /\ pc[p] = "reqDone"
  /\ Goto(p, IF idx[p] < 0 \/ deqId[whom[p]] # id[p] THEN "reqEnd" ELSE "reqVal")
  /\ UNCHANGED <<indices, cells, enqReqs, deqReqs, peers, tries, i, id, dequeueLocals, helpLocals, history>>

\* cell.val.load() == top_ptr
ReqVal(p) ==
  /\ pc[p] = "reqVal"
  /\ Goto(p, IF val[idx[p]] = TOP THEN "reqClose" ELSE "reqCell")
  /\ UNCHANGED <<indices, cells, enqReqs, deqReqs, peers, tries, i, id, dequeueLocals, helpLocals, history>>

\* Mutant of ReqCell: whoever has the cell.
ReqCellAnyway(p) ==
  /\ pc[p] = "reqCell"
  /\ deqReq' = [deqReq EXCEPT ![idx[p]] = IF @ = NULL THEN whom[p] ELSE @]
  /\ Goto(p, "reqClose")
  /\ UNCHANGED <<indices, val, enqReq, enqReqs, deqReqs, peers, tries, i, id, dequeueLocals, helpLocals, history>>

\* cell.deqReq.compare_exchange_strong(nullptr, &deq), or it was this request's before.
ReqCell(p) ==
  /\ pc[p] = "reqCell" /\ deqReq[idx[p]] \in {NULL, whom[p]}
  /\ deqReq' = [deqReq EXCEPT ![idx[p]] = whom[p]]
  /\ Goto(p, "reqClose")
  /\ UNCHANGED <<indices, val, enqReq, enqReqs, deqReqs, peers, tries, i, id, dequeueLocals, helpLocals, history>>

\* Another dequeue has the cell: the search goes on.
ReqLost(p) ==
  /\ pc[p] = "reqCell" /\ deqReq[idx[p]] \notin {NULL, whom[p]}
  /\ oldVal' = [oldVal EXCEPT ![p] = idx[p]]
  /\ i' = [i EXCEPT ![p] = Larger(@, idx[p] + 1)]
  /\ Search(p, idx[p], idx[p], newVal[p])
  /\ UNCHANGED <<indices, cells, enqReqs, deqReqs, peers, tries, id, res, whom, idx, newVal, helpLocals, history>>

\* deq.idx.compare_exchange_strong(idx, -idx)
ReqClose(p) ==
  /\ pc[p] = "reqClose"
  /\ deqAt' = IF deqAt[whom[p]] = idx[p] THEN [deqAt EXCEPT ![whom[p]] = 0 - idx[p]] ELSE deqAt
  /\ Goto(p, "reqEnd")
  /\ UNCHANGED <<indices, cells, enqReqs, deqId, peers, tries, i, id, dequeueLocals, helpLocals, history>>
-----------------------------------------------------------------------------
EnqStep(p) ==
  \/ EnqFAA(p) \/ EnqCell(p) \/ SlowVal(p) \/ SlowId(p) \/ SlowFAA(p) \/ SlowReserve(p)
  \/ SlowLook(p) \/ SlowClaim(p) \/ SlowTest(p) \/ SlowRead(p) \/ SlowStore(p)

DeqStep(p) ==
  \/ DeqFAA(p) \/ DeqEmpty(p) \/ DeqCell(p) \/ DeqAgain(p) \/ DeqSlowId(p) \/ DeqSlowIdx(p)
  \/ DeqSlowRead(p) \/ DeqSlowVal(p) \/ HelpDeqEnd(p)

HelpEnqStep(p) ==
  \/ HelpVal(p) \/ HelpReq(p) \/ HelpPeer(p) \/ HelpReserve(p) \/ HelpNobody(p)
  \/ HelpId(p) \/ HelpReqVal(p) \/ HelpNewer(p) \/ HelpNewerIdx(p)
  \/ HelpClaim(p) \/ HelpMine(p) \/ HelpLift(p) \/ HelpStore(p) \/ HelpEnd(p)

HelpDeqStep(p) ==
  \/ ReqIdx(p) \/ ReqId(p) \/ ReqIdxAgain(p) \/ ReqLift(p) \/ ReqFound(p) \/ ReqNotFound(p)
  \/ ReqNext(p) \/ ReqAnnounce(p) \/ ReqDone(p) \/ ReqVal(p) \/ ReqCell(p) \/ ReqLost(p) \/ ReqClose(p)

Next == \E p \in Procs :
  \/ EnqStep(p) \/ DeqStep(p) \/ HelpEnqStep(p) \/ HelpDeqStep(p)
  \/ Dequeue(p) \/ \E v \in Items : Enqueue(p, v)

Spec == Init /\ [][Next]_vars
-----------------------------------------------------------------------------
\* Until a helper claims the request of an enqueue the queue is linearizable, with both
\* slow paths and with the helping of dequeues.
LinearizableAlone == claimed \/ Linearizable

\* A cell gives its value to one dequeue, although it may be drawn by the fast path,
\* searched by the slow path and announced by helpers that are late.
CellsServeOnce == \A c \in Cell : served[c] <= 1
=============================================================================
