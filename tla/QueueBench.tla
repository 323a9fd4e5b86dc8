----------------------------- MODULE QueueBench -----------------------------
(***************************************************************************)
(* The benchmarks of the basket queues: threads that wait for each other   *)
(* at a barrier, make a fixed number of calls and are joined, over the     *)
(* queues of modules CASQueue and FAIQueue.  Four shapes of benchmark:     *)
(*                                                                         *)
(*  "pairs"   enqueue, dequeue, enqueue, ...: enq_deq_* of queue/, which   *)
(*            are copies of each other for the classes of queues           *)
(*  "phases"  all enqueues, then all dequeues: same_number_enq_deq_test    *)
(*            and queue_test_general of queueTest/, over its FAIQueue      *)
(*  "enqs"    enqueues only; main dequeues everything after the join:      *)
(*            only_enq_test                                                *)
(*  "deqs"    main enqueues everything first: only_deq_test                *)
(*                                                                         *)
(* The drivers size the queue by the number of enqueues.  Main calls the   *)
(* queue as thread 0, which does not run then.  The idle loops between the *)
(* calls and the measuring of the time are left out.  Every measurement    *)
(* has a new queue: the initial state.  The benchmarks over grouped LL/IC  *)
(* objects make the same calls and are not instantiated here.              *)
(***************************************************************************)
EXTENDS Integers, Sequences, FiniteSets

CONSTANTS
  N,      \* cores
  Ops,    \* totalOps, operationsByThread: the operations of each thread
  Watched,   \* the threads that OperationsReturn is checked for
  K, BOTTOM, TOP, OK, FULL, BASKET_CLOSED, OPEN, CLOSED, EMPTY, NONE, DEQUEUE

Procs == 0 .. N - 1
Capacity == N * Ops
Baskets == 0 .. Capacity - 1
Items == 1 .. Capacity

VARIABLES
  A, PUTS, TAKES, State, pc, bk, x, slot, pos, val, again, res,
  stored, removed, drained,
  HEAD, TAIL, lossy, qpc, arg, head, tail, hhead, used, lin,
  class,    \* the queue that is measured
  shape,    \* the benchmark, see above
  phase,    \* where main is: "before" the threads, in the "run", "after" it, at the "end"
  arrived,  \* the threads that have come to the barrier
  todo      \* todo[p]: the calls that are left

F == INSTANCE FAIQueue WITH Enqueuers <- Procs, Dequeuers <- Procs, MaxGroupedItems <- Capacity
C == INSTANCE CASQueue WITH Enqueuers <- Procs, Dequeuers <- Procs, MaxGroupedItems <- Capacity

faiOnly == <<PUTS, TAKES, slot>>
casOnly == <<pos, val, again>>
baskets == <<A, State, pc, bk, x, res, stored, removed, drained, faiOnly, casOnly>>
queue == <<baskets, HEAD, TAIL, lossy, qpc, arg, head, tail, hhead, used, lin>>
bench == <<class, shape, phase, arrived, todo>>
vars == <<queue, bench>>

Enqs(n) == [i \in 1 .. n |-> "enq"]
Deqs(n) == [i \in 1 .. n |-> "deq"]
Pairs(n) == [i \in 1 .. 2 * n |-> IF i % 2 = 1 THEN "enq" ELSE "deq"]

\* What every thread does between barrier and join.
Script ==
  CASE shape = "pairs" -> Pairs(Ops)
    [] shape = "phases" -> Enqs(Ops) \o Deqs(Ops)
    [] shape = "enqs" -> Enqs(Ops)
    [] shape = "deqs" -> Deqs(Ops)

\* Main's own calls, made with thread number 0.
ByMain(calls) == [p \in Procs |-> IF p = 0 THEN calls ELSE <<>>]

Init ==
  /\ class \in {"CASQueue", "FAIQueue"}
  /\ \/ class = "CASQueue" /\ C!Init
        /\ PUTS = [b \in Baskets |-> 0] /\ TAKES = PUTS /\ slot = [p \in Procs |-> 0]
     \/ class = "FAIQueue" /\ F!Init
        /\ pos = [p \in Procs |-> p] /\ val = [p \in Procs |-> BOTTOM]
        /\ again = [p \in Procs |-> FALSE]
  /\ ~lossy
  /\ shape \in IF class = "FAIQueue" THEN {"pairs", "phases", "enqs", "deqs"} ELSE {"pairs"}
  /\ phase = "before"
  /\ arrived = {}
  /\ todo = ByMain(IF shape = "deqs" THEN Enqs(N * Ops) ELSE <<>>)
-----------------------------------------------------------------------------
Quiet == \A p \in Procs : todo[p] = <<>> /\ qpc[p] = "idle"

\* Main has made the calls before the run: the threads are created.
Start ==
  /\ phase = "before" /\ Quiet
  /\ phase' = "run"
  /\ todo' = [p \in Procs |-> Script]
  /\ UNCHANGED <<queue, class, shape, arrived>>

\* sync_point.arrive_and_wait()
Arrive(p) ==
  /\ phase = "run"
  /\ p \notin arrived
  /\ arrived' = arrived \cup {p}
  /\ UNCHANGED <<queue, class, shape, phase, todo>>

\* The join of all threads.
Join ==
  /\ phase = "run" /\ arrived = Procs /\ Quiet
  /\ phase' = "after"
  /\ todo' = ByMain(IF shape = "enqs" THEN Deqs(N * Ops) ELSE <<>>)
  /\ UNCHANGED <<queue, class, shape, arrived>>

\* Main returns the time.
Finish ==
  /\ phase = "after" /\ Quiet
  /\ phase' = "end"
  /\ UNCHANGED <<queue, class, shape, arrived, todo>>

\* Thread p, or main in its place, may make calls.
MayCall(p) == phase \in {"before", "after"} \/ arrived = Procs

Fresh == Cardinality(used) + 1

\* The next call of thread p; enqueue and dequeue begin alike in both queues.
Call(p) ==
  /\ MayCall(p) /\ todo[p] # <<>>
  /\ todo' = [todo EXCEPT ![p] = Tail(@)]
  /\ IF Head(todo[p]) = "enq" THEN F!Enqueue(p, Fresh) ELSE F!Dequeue(p)
  /\ UNCHANGED <<baskets, class, shape, phase, arrived>>

Step(p) ==
  /\ \/ class = "CASQueue" /\ C!Step(p) /\ UNCHANGED faiOnly
     \/ class = "FAIQueue" /\ F!Step(p) /\ UNCHANGED casOnly
  /\ UNCHANGED bench

\* The program is over, or its behaviour undefined.
Stopped ==
  /\ phase = "end" \/ \E p \in Procs : qpc[p] = "overrun"
  /\ UNCHANGED vars

Main == Start \/ Join \/ Finish
Thread(p) == Arrive(p) \/ Call(p) \/ Step(p)
Next == Main \/ Stopped \/ \E p \in Procs : Thread(p)

Spec == Init /\ [][Next]_vars
-----------------------------------------------------------------------------
\* As many dequeues as enqueues empty the queue, in every shape: no dequeue of a
\* benchmark answers EMPTY, so what is measured is operations that find an item,
\* and no benchmark leaves an item behind.
EveryItemComesOut == phase = "end" => \A v \in Items : removed[v] = 1

\* The drivers' sizing is enough for CASQueue, and for FAIQueue when enqueues and
\* dequeues do not run together (when they do: MCFAIQueueCapacity.cfg).
InBounds ==
  class = "CASQueue" \/ shape \in {"enqs", "deqs"} => \A p \in Procs : qpc[p] # "overrun"

\* A thread that keeps running returns from every enqueue and dequeue, wherever the
\* others stop: a round is lost only to a call that gains from it, and a benchmark
\* has finitely many calls.  With all threads running, the join is reached.
OperationsReturn ==
  \A p \in Watched : WF_vars(Step(p)) => (qpc[p] # "idle" ~> qpc[p] \in {"idle", "overrun"})
=============================================================================
