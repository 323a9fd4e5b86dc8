# Formal models of data-structures-battery

The repository implements concurrent FIFO queues out of two smaller kinds of
objects: *LL/IC objects* (a counter that is read and then incremented if nobody
else has incremented it) and *baskets* (bags of bounded size that are filled, then
emptied, then closed). It measures them against published queues. This
directory holds TLA+ models of the objects, of the queues made of them, of the
queues they are compared with and of the benchmarks; TLC configurations that check
small instances; and TLAPS proofs for all sizes.

Paths below are relative to the repository.

## 1. The system

| Component | Where | State | Operations | Modelled |
|---|---|---|---|---|
| LL/IC, one register per thread | `basket/src/llic.cpp` 42-327 | array `M` of integers, written by their owners | `LL()`, `IC(max_p, process)` | `LLICRW` |
| LL/IC, one CAS register | `llic.cpp` 14-32 | integer `R` | `LL()`, `IC(expected)` | `LLICCAS` |
| LL/IC, sqrt(n) registers | `llic.cpp` 368-432, 592-710 | array `M`, written by all with CAS | `LL(ind_max_p)`, `IC(max_p, ind_max_p, thread_i)` | `LLICSQRT` |
| LL/IC, one register per group | `llic.cpp` 439-586 | array `M`, one register per group of threads | the same, `IC` writes `ind_max_p` | `LLICGroup` |
| Combined LL and IC | `llic.cpp` 718-784 | `M` or `R` | `LLIC()`, `get()` | `LLICBench` |
| Basket, fetch-and-increment | `basket/src/kbasket.cpp` 7-77 | slots `A`, counters `PUTS` and `TAKES`, `STATE` | `put(x)`, `take()` | `KBasketFAI` |
| Basket, slot per thread | `kbasket.cpp` 79-194 | slots `A`, `STATE` | `put(x, process)`, `take(process)`, `compete(pos)` | `NBasketCAS` |
| Basket queues | `basket/include/basket_queue.hpp` 18-150 | array of baskets, LL/IC objects `HEAD`, `TAIL` | `enqueue`, `dequeue` | `BasketQueue`, `FAIQueue`, `CASQueue` |
| Grouped basket queues | `basket_queue.hpp` 152-285 | the same | the same, with register indices passed by reference | the same with `lossy`, and `LLICGroup` |
| Array queues of nodes | `queueTest/include/LLICQueue.hpp` 268-427 | array of nodes of baskets | `enqueue`, `dequeue` | `ArrayQueue` |
| Segmented queue | `LLICQueue.hpp` 429-536 | list of segments of baskets | `enqueue`, `dequeue` | `SegmentQueue` |
| Hazard pointers | `queueTest/include/MemoryManagementPool.hpp` | pointers per thread, retired lists | `protect`, `protectPointer`, `clear`, `retire` | `HazardPointers` |
| Michael-Scott queue | `queueTest/include/MichaelScottQueue.hpp` | list, `head`, `tail` | `enqueue`, `dequeue` | `MSQueue` |
| Fetch-and-add array queue | `queueTest/include/FAAArrayQueue.hpp` | list of segments of cells | the same | `FAAArrayQueue` |
| Linked ring queue | `queueTest/include/LCRQ.hpp` | list of rings | the same | `LCRQ` |
| Scalable baskets queue | `queueTest/include/SBQQueue.hpp` | list of baskets, protectors | the same | `SBQ` |
| Wait-free queue | `queueTest/include/YMCQueue.hpp` | cells, indices, requests of the threads | the same, with `helpEnq`, `helpDeq` | `YMCQueue` (first segment) |
| Second Michael-Scott queue | `queueTest/include/HPQueue.hpp` | - | - | no |
| Benchmarks of queues | `queue/include/ExperimentsQueue.hpp`, `queue/src/basket_queue_test.cpp`, `queueTest/include/Experiments.hpp`, `ThreadingQueue.hpp` | barrier, threads | scripts of calls | `QueueBench` |
| Benchmarks of LL/IC | `queue/include/Experiments.hpp`, `queue/src/llictest.cpp`, `latency.cpp` | the same | increments of a counter | `LLICBench` |
| Choice of a mean | the three `Experiments*.hpp` | window of times | `mean...FromCoV` | `MeanFromCoV` |
| Output, sequential queue, tests, notebooks | `basket/src/queue.cpp`, `utils.cpp`, `tests/`, `analysis/` | - | - | no |

How they interact. There are no messages, files or callbacks; all interaction is
calls on shared memory. A queue calls `put` and `take` of the basket with the index that
`HEAD.LL()` or `TAIL.LL()` returned, and `IC` with the same index afterwards. The
threads are created by the drivers and tests; each has a fixed id, which is its
register in `M`, its slot in an `NBasketCAS` and its row of hazard pointers. A thread is in one call at a time.
Nothing is persistent, so there is no recovery: the only failure is a thread that
is descheduled anywhere, for any time, and the models allow that (no fairness in
the safety runs, fairness of one thread in the liveness property of the queues).

What is hard here: every line of a method may be separated from the next by steps of
other threads. `LL` over several registers is no snapshot; `IC` acts
on values that are old; a `put` works on the basket of an old `TAIL` and may meet a
`take` in the same slot; baskets are declared closed while calls are still inside;
`EMPTY` is concluded from reads at four moments; array bounds depend on the
interleaving; nodes are freed, and used again, while other threads hold pointers to them; the expected value of a failed CAS
changes under a loop that goes on. `PROJECT.json` lists these hazards by line with the properties for them.

What makes each component correct:

* an LL/IC object: `LL` returns a value the counter had during the call, `IC(v)`
  returns only when the counter is above `v`, and the counter moves by one (`LLIC`);
* a basket: what was put successfully is taken at most once and can be taken until
  then; what was not put successfully never appears; after CLOSED nothing is left
  for anyone who has not started yet; calls return;
* a queue: linearizable with respect to a sequential FIFO queue; nothing left
  behind `HEAD`; indices within the array; calls return as long as others do not
  make progress instead;
* reclamation: no node is used after it was deleted;
* a benchmark: it measures operations that do something, and the number it reports is one that was measured.

## 2. Modules

### LL/IC objects and baskets

**`LLIC`** is the abstract object: `R`, `LLCall`/`LLReturn` (any value between the `R`
of the call and the `R` of the return), `ICCall` and `IC`, which increments `R`
exactly when it is still the caller's value. With `lossy`, `IC` may return without
effect (`ICLost`). Four modules refine it, and `MCLLIC` holds all four in one state space:

* **`LLICRW`**. One action per load (`LLRead`, `ICRead`, the last ones being `LLReturn`,
  `ICAgree`, `ICSkip`) and `ICStore`. The variable `recheck` is chosen in `Init` and says whether the object is of
  a class whose `IC` collects again (LLICRW, 16, 32, 128, NP) or not (LLICRWWC,
  WCNP). The classes of each kind differ in memory layout only. `R` is the largest register.
* **`LLICCAS`**. `LLReturn` is the load of `LL`; `ICCompare`/`ICSkip` the load of `IC` and `ICCas` its CAS.
* **`LLICSQRT`** extends **`LLICIndexed`** (the registers and `LL`). `Pos` is the register
  tried first; `ICLoad`, `ICCas`/`ICCasFails`, `ICCheck`/`ICSkip`, `ICFallback` follow lines 418-427.
* **`LLICGroup`** extends `LLICIndexed` too; `g16`, chosen in `GInit`, selects the guard of
  LLICRWSQRTG16 (`max_p <= x`) or that of its siblings (`x <= max_p`). `shared` says that the object is `HEAD` of a grouped queue:
  its `ind_max_p` may then be the index of a register of `TAIL` (`ICCallShared`; `basket_queue.hpp` 205, 273).

In each, a thread's `link` is the value of its last `LL`, and `IC` is called with it,
as every caller in the repository does. `lo` is a history variable: the object's
value when `LL` was called.

**`KBasketFAI`** and **`NBasketCAS`** model an array of baskets, as a queue owns one.
`pc` is the thread's place in `put` or `take`; each action is one atomic access with
the branches that depend on it, named `Put...` and `Take...`. Where the code loads two variables one
after the other (lines 42-43, 63-64), there are two actions; `PutState` returns FULL
without the second load when it sees CLOSED, because that load has no effect then.
`stored`, `removed` and `drained` are history: items whose put succeeded, how often each was taken, and
baskets for which a `take` has answered BASKET_CLOSED. In `NBasketCAS`, `pos` is the
slot of the sweep (modulo N in `Slot`), and `again` tells the second call of `compete` from the first.
All accesses of the code are sequentially consistent (the default of `std::atomic`, or explicit), so
interleaving of atomic steps is the right semantics.

### Queues of baskets

**`BasketQueue`** has `enqueue` and `dequeue` on the state `HEAD`, `TAIL`, and the locals of
the same names as in the code. It is instantiated by **`FAIQueue`** (with
`KBasketFAI`), **`CASQueue`** (with `NBasketCAS`) and `ArrayQueue`, which run the basket's actions for
the put or take the queue has called: `BasketCall` makes the call in the step that
decides on it, and `EnqIC`, `DeqItem` or `DeqIC` continue when the basket's `pc` is
"idle" again, with `res`. `LL` and `IC` are single steps: `LLICRW` and
`LLICCAS`, the objects these queues are used with, implement `LLIC`, whose operations
are linearizable (LL at a moment when `R` had the value, IC at its last step), so an atomic object has the same histories.
An index equal to `Capacity` is outside of `A`; what the call does then is
undefined in C++, and the thread's behaviour ends in "overrun".

CASGQueue and FAIGQueue are the same code over grouped objects: with `lossy`, chosen in `QueueInit`, an `IC` may leave
its register alone (`ICValues`), which is what `LLICGroup` refines.

**`ArrayQueue`** (FAIQueueArray, FAIQueueArray2) maps an index to a node and a basket in it (`Node`, `Pos`, `BasketAt`).
`NodeLoad` and `Alloc` are the first part of `enqueue`, where a node is made with the item in it and CASed into the array; `before` is
history and says which enqueues were over when another began.

**`SegmentQueue`** (Queue) has a `HEAD` and a `TAIL` per segment and `HeadPtr`, `TailPtr` for the list. `EnqFull` is the
look at the segment's size; `EnqLink` appends a segment that holds the item; `DeqClosed` to `DeqSwing` move `Head`.

### Queues to compare with

**`QueueCalls`** is what their models have in common: the program counter, the item of an enqueue, the calls and the answers, which it hands to `Linearization`.
**`HazardPointers`** has a step per load of `retire`'s scan and a set `heap` of allocated nodes.
**`MSQueue`**, **`FAAArrayQueue`** and **`LCRQ`** use it. In the first two `Nodes` are addresses: `new` picks any that is free, a deleted one among them, and `protect` is a step for each of its loads and
stores (`ProtectLoad`, `ProtectStore`; its `n` is null at the start of each round). `expect` is the expected value of the CAS on `next`, which a failed CAS overwrites and the loop keeps
(`MichaelScottQueue.hpp` 50-56, `FAAArrayQueue.hpp` 57-66), and `stale` is history: such a CAS has succeeded although its expected value was a node and not null, so that it has replaced a link.
In `FAAArrayQueue` the segment is made in the step of the CAS (`EnqLink`); one made for a CAS that fails is deleted at once and seen by nobody.
In `LCRQ` the CAS of `next` has a null of its own in every round (`LCRQ.hpp` 155), so that no address is compared with an old one; rings are numbered when they are
linked, a number is not used again, and the store that publishes a pointer is one step with the load that confirms it.
**`SBQ`** has its own reclamation (`Free...`); its nodes are their indices. `at`, `floor` and `due` are history: the node of an item,
and what was in the queue when a call began.

**`YMCQueue`** is the wait-free queue on the cells of its first segment. `Enq...` is the fast path of `enqueue`, `Slow...` `enqSlow`, `Deq...` `dequeue` with
`deqFast` and `deqSlow`, `Help...` `helpEnq` and `Req...` `helpDeq`; `HelpReturn` goes back to `deqFast` or to `helpDeq`, as `whom` tells. A request is named by
its thread: `reqId`, `reqVal` are the fields of its `enqReq`, `deqId`, `deqAt` those of its `deqReq`. `claimed` and `served` are history: whether a helper has
claimed the request of an enqueue (line 404), and how often a cell has given its value to a dequeue.

**`Linearization`** is the sequential FIFO specification with a monitor: the set of all configurations (queue
contents, pending calls that have taken effect) that explain the answers so far.
The variable `lin` of the queues is that set; `Linearizable` says that it is never empty.
`Start`, `Respond` and `Withdraw` are the interface. This is a specification and models no code.

### Benchmarks

**`QueueBench`** gives each thread a script of calls (`Script`) between barrier and join, with main's calls before or after, in the four shapes that the
drivers have. **`LLICBench`** is the counter benchmark with the four kinds of object, two of which exist only there
(`CAST...`, `NCT...`). **`MeanFromCoV`** turns measurements into one number; times are small integers and coefficients of variation exact fractions, compared by their squares.

The `MC...` modules choose instances; where several modules share a run, a variable `impl` or `part` says which one a behaviour belongs to. `..._proofs` modules hold the proofs.

## 3. Runs

| Run | Instance | Shows |
|---|---|---|
| `llic` | 3 threads, values below 2: 3 registers of their own with both kinds of IC; one CAS register; 2 registers; groups {0,1} and {2} with both guards and foreign indices; 408k states | `ImplementObject` (with liveness), `OnlyGroupMatesLose`, `RegistersOnlyGrow` |
| `fai_queue` | enqueuers 1, 2, dequeuers 2, 3; 3 items, 2 baskets of 2 slots; exact, and grouped with 2 items; 839k states | `NoLossNoDuplicate`, `ClosedLeavesNothing`, `Linearizable`, `NothingLeftBehind`, `UsesBaskets` |
| `cas_queue` | enqueuers 0, 1, dequeuers 1, 2; 3 items, 3 baskets of 3 slots; exact, and grouped with 2 items; 883k states | `NoLossNoDuplicate`, `ClosedIsEmpty`, `ExactIsLinearizable`, `TailIsPaidFor`, `NothingLeftBehind`, `UsesBaskets` |
| `fai_queue_capacity` | 2 enqueuers, 1 dequeuer, 2 items, 2 baskets of 1 slot | `InBounds` is violated |
| `drivers` | 2 threads and main, 2 operations each, both queues, four shapes; 3 threads, 2 rounds, four kinds of counter; windows of 3 out of 8 measurements of 4 values; 739k states | `EveryItemComesOut`, `InBounds`, `OperationsReturn`; `CountIsRight`; `EarlyMeanIsSteady`, `LeastVariation` |
| `node_queues` | 2 threads, 3 items; 3 segments of one basket; nodes of 3 baskets; 655k states | `NoLossNoDuplicate`, `TakenInOrder`, `NothingBehindHead`; `Linearizable`, `BasketsAreConcurrent` |
| `array_queue_wrap` | the same with nodes of 2 baskets and 4 indices per node | `BasketsAreConcurrent` is violated |
| `linked_queues` | 2 threads, 3 items; 3 nodes or segments of 1 cell, 3 rings of 2 cells; lists deleted at length 1; 1.5M states | `LinearizableUntilStale`, `MemoryIsSafe`, `NothingPassedOver` |
| `ms_queue_stale` | MSQueue with 2 threads, 4 items, 4 nodes; thread 0 makes the first call, an enqueue, and no other | `Linearizable` is violated |
| `faa_queue_stale` | FAAArrayQueue in the same way, 5 items, 4 segments of 1 cell | `Linearizable` is violated |
| `helped_queues` | 2 threads; SBQ with 3 items and 4 nodes; YMCQueue with 2 items and 5 cells; 683k states | `NothingPassedOver`, `NodesInOrder`, `TakenInOrder`, `DeletesUnprotected`; `LinearizableAlone`, `CellsServeOnce` |
| `ymc_helped` | YMCQueue with 3 threads, 1 item, 3 cells | `Linearizable` is violated |

Bounds, and why they suffice for the cases that matter:

* `MaxValue` bounds the value with which `IC` is called. Two is enough for a store
  that is two increments late to meet a newer register (the case `RegistersOnlyGrow` is about),
  and for a sqrt or group CAS to lose to an older value.
* Three threads let two interfere with a third in the same slot or register; that
  also covers the two tries of `compete`, one spoiled by the owner and one by another take. In `fai_queue` and `cas_queue` one thread both enqueues and dequeues.
* The queues get three items, so that order within and
  between baskets is told apart, and two or three baskets, so that `HEAD` moves on while puts are inside; with two slots
  the counters pass `size_k`. Grouped queues get two items (`MaxGroupedItems`): enough for an `IC` to be lost behind one item and another enqueue to follow.
* `Items` bounds the number of enqueues: `enqueue` is called at most once with each
  (two calls with equal values are two items). Dequeues are unbounded.
* `node_queues`: segments of one basket, so that every second enqueue may link a segment; in the array queues nodes are as large as the indices that occur,
  because smaller ones wrap (`array_queue_wrap`).
* `linked_queues`: `Threshold` is 1 and not 512, so that every `retire` scans and deletes what no hazard pointer names. A longer list
  only delays deletions, and any scan of a longer list makes for each node the loads that the model makes. Three nodes let one be used, one be
  retired and one be new, under the address of the first; a lost CAS then finds another node than it has seen, and a link is never replaced here.
* `ms_queue_stale`, `faa_queue_stale`: for a link to be replaced, a node has to come back as the node linked behind a later one, while an enqueue goes on whose CAS was lost to it. This takes four nodes, and four
  items in `MSQueue`, five in `FAAArrayQueue`. One slow enqueue and another thread that calls what it likes suffice; threads do not tell items apart, so these are numbers, enqueued in their order (`MCLateEnqueue`).
  These runs end at the replaced link; what holds after it is `MemoryIsSafe` of `FAAArrayQueue`, by the theorem of section 5 and, with it and `LinearizableUntilStale` in place of `Linearizable`, in all 851k states of the instance of `faa_queue_stale`.
* `linked_queues`:
  `Tickets`, `Tries` and `Spins` bound how long a ring's threads go on before it is closed (10 and 200000 in the code). A new node beyond the bound of addresses or segments
  is not made, and a thread that wants it waits: hence `CHECK_DEADLOCK FALSE` in the runs of these queues, and for nodes and cells in `helped_queues` and `ymc_helped`. All others check for deadlock.
* `helped_queues`, the scalable baskets queue: three items can be appended to three nodes after the first, or share a basket after a lost append, in every combination; a node can be deleted while two later ones are in use.
* `helped_queues`, the wait-free queue: `PATIENCE` is 1 and not 10: a call goes to its slow path after one lost cell; more tries of the fast path only draw more cells first. Two threads and five cells are enough for every
  action, among them a dequeue that finishes the enqueue of the other thread, a helper that is late with the request of a dequeue, and an owner whose request was claimed for a later cell than its
  own. The last cell is drawn only as long as the second item is not used (`Within`). What needs three threads, two helpers of one request, is in `ymc_helped`; the branch on `Ei`,
  a helper that comes too late for its peer twice, is not reached.
* `drivers`: two operations of two threads give a queue of four baskets. Main's four calls are made alone, so their number costs little.
* `drivers`, the measurements: windows of three measurements and eight measurements let the window slide five times; the four times make steady and unsteady windows.

Items are model values and interchangeable, hence the symmetry sets (but for the numbered items of the late enqueue), and so are the addresses of nodes in `MSQueue` and `FAAArrayQueue`. The `VIEW` of the queue runs leaves out locals that are dead (written
before they are read again) and the histories that no property of the run reads; what is left determines all further steps and the
properties, also for `OperationsReturn`, whose run has no symmetry. `UsesBaskets` is an action property about the step as a whole; TLC checks it for each step it generates,
and the theorem of section 5 shows it for all.

**Fairness.** `MCSpec` of the LL/IC run assumes that a thread inside a call keeps
running, which is the operating system's promise, and never that a thread calls. The
liveness property of the queues is an implication: *if this thread keeps
running* (weak fairness of its own steps), its call returns; the others may stop
anywhere. It holds because a benchmark has finitely many calls: a round is lost
only when another call gains from it, so the queue is lock-free and not wait-free.
The thread that is watched is thread 1: threads differ in their id only, and 0 is also main.
For `FAIQueue` against a dequeuer that never stops there is no such result: takes can spoil every slot that an
enqueuer reserves.

### What the violations show

**Capacity of FAIQueue** (`fai_queue_capacity`). A test's comment
(`tests/testqueue/testqueue.cpp:43`) and the drivers (`queue/include/ExperimentsQueue.hpp:117`: as many baskets
as operations) take the capacity of a queue with baskets of size 1 for a number of
elements. Thread 1 reserves the only slot of basket 0 and is delayed; thread 2 finds it FULL, moves `TAIL`
and stores its item in basket 1; a dequeuer now enters basket 0 and
spoils the reserved slot; thread 1 finds its slot TOP and the basket full, and the next `tail` is 2. With enqueues and dequeues apart this cannot
happen (`drivers`), nor in a `CASQueue` (`TailIsPaidFor`).

**Indices of FAIQueueArray** (`array_queue_wrap`). The node comes from `tail / ARRAY_SIZE`, the basket in it from `tail % NODE_SIZE`
(`LLICQueue.hpp` 310-311), and the two sizes differ: 2^16 indices share a node of 2^10 baskets. After the first 1024 baskets the queue
starts over in the same node, at baskets that have items or are closed.

**A stale expected value** (`ms_queue_stale`). When the CAS of line 56 fails, `nullNode` becomes the node that won. If that node is
freed, allocated again by another enqueue and appended to the very node that the slow thread reads next, between its test of `lnext` and its CAS, then the
CAS finds what it expects and replaces the link: the item appended there is lost. From then on the nodes are no list. In the same
instance a dequeue finds `head` different from `tail` with no next node, moves `head` to the null pointer and reads the item through it (TLC, with `NoUseAfterFree` in place of `Linearizable`), so
what `linked_queues` shows of this queue, and what section 5 proves, holds as long as `stale` is false.

**The same in the array queue** (`faa_queue_stale`). `nullValue` (`FAAArrayQueue.hpp` 57) is set once per enqueue, and the CAS of line 66 overwrites it when it fails. The slow enqueue reads that the tail segment has no next one, and another thread links
segment `n` there; the slow CAS fails and leaves `n` in `nullValue`. While the enqueue is in its next rounds, `n` is retired, deleted and allocated again. The enqueue reads that the last segment has no next one, `n` is linked
there with a new item, and the CAS finds `n`, as it expects, and replaces it: that item is lost. `LinearizableUntilStale` is what holds of the code as it is. Memory stays safe even then (`MemoryIsSafe`, theorem `MemoryStaysSafe` of section 5): what
the thread links instead is its own new segment, and it publishes every segment it touches; the address it only compares with is not touched.

**A claim for the wrong cell** (`ymc_helped`). `helpEnq` claims an enqueue's request for its cell with `-nodeId + 1` (`YMCQueue.hpp` 404), while the owner and line 405
read a claim `-c` as "cell c". The helper stores the item in cell `nodeId`, the owner, or another helper that has just come to cell `nodeId - 1`, in that one: the item of one enqueue comes out
twice. With `-nodeId` in line 404, `Linearizable` holds in this instance and in that of `helped_queues`. `LinearizableAlone` is what holds of the code as it is: up to the first such claim.

### What the properties do not say

* Over grouped objects `CASGQueue` is not FIFO: when an `IC` is lost, `TAIL` stays at a basket, whose slots then get the items of later enqueues (`ExactIsLinearizable` excludes it),
  and a dequeue may answer EMPTY though a finished enqueue has stored its item (`AnswerEmpty` withdraws the call). What holds is that no item is lost: each is in a basket from `HEAD` on, or taken.
* The null pointer of `SegmentQueue` says little: an item that a new segment begins with is not counted until another enqueue
  comes (`LLICQueue.hpp` 487). `TakenInOrder` is therefore about the items that do come out, `NothingBehindHead` about those that do not.
* `SBQ` is no queue within a basket: items that lost an append share a basket with older ones, and `extract` takes them by thread number. `NodesInOrder`
  and `TakenInOrder` say what order is kept. `DeletesUnprotected` is about threads at work when the scan of the protectors began. `protect` (`SBQQueue.hpp` 84-86) reads a pointer, publishes it and
  reads the pointer again; `tail` may lag behind `head`, so with three threads a node can be deleted between the two reads of `tail` and the second read does not notice it. Such a thread goes on with a deleted node.
  In the model a deleted node keeps its content, its index among it, so what follows from it is that of the old content. With two threads this does not happen (TLC, in the instance of `helped_queues`).
* `CountIsRight` gives a range for most objects, because a round of LL/IC may count for several threads; the exact number is promised only by fetch-and-add and by LLICCAST, whose successes are its count.
* An `LLICGroup` object counts nothing for certain, and a benchmark over it measures calls and not increments.

## 4. Properties worth knowing

`NoLossNoDuplicate` in `KBasketFAI` needs the notion of a *spent* slot: the exchange
of a late `put` (line 50) leaves its item visible over a TOP, and then puts it again elsewhere. Whether an item is "in" the basket depends on whether the slot's taker has passed, not on
the slot's content. `ClosedLeavesNothing` is the reason why a queue may move `HEAD`
past a basket with calls still inside. `ClosedIsEmpty` for `NBasketCAS` is stronger: every slot
is TOP. `TailIsPaidFor` says that a failed `put` never makes `TAIL` move in a `CASQueue`.
`CellsServeOnce` is about the three ways a cell of `YMCQueue` is taken: drawn by a fast dequeue, announced by the owner of a request, or announced by a helper that may be late. `EarlyMeanIsSteady` bounds every measurement of a window although the deviation leaves the last one out: the differences to the
mean add up to zero, so the last one is bounded by the others.

## 5. Proofs

All for arbitrary constants, under the assumptions named in the modules: at least one
thread, slot and basket; sentinels different from items (`SentinelAssumption`,
`AnswersAssumption`: true of the integers -1 to -4 as long as only natural numbers
are enqueued); `Baskets = 0 .. Capacity - 1`.

* `LLIC_proofs`, about all LL/IC objects of `MCLLIC`: `TypeCorrect`, `RegistersNeverShrink`, `OnlyMatesLose`, `Implementation`
  (`MCSafeSpec`, which is the specification of the run without its fairness, implements `LLIC`). For `LLICRW` the invariant `RWInv` says, for a thread in `LL`, that every value the object had at
  the call is either already in `mx` or in a register still ahead (registers only grow), and that the thread's
  own register is not above its `link`. The latter is why an `IC` without the second collect lowers
  nothing, and why the object never moves by two. `RWHasMax` is kept as part of the invariant, so that no induction over N is needed.
  For the objects with shared registers `IInv` has `Collecting` in the same way; `Linked`: the value a thread got from `LL` has been
  reached by some register and, if the index it was handed is one of this object, by that register; `SqrtInv`: the value that the first CAS expects is
  not above `link` (a CAS that fails may have lost to an older value, but the fallback tries the register that held `link`, so after it that register is above `link`, by this thread or another); `GroupInv`: what a thread has read from its group's register is still there as long as
  it is alone in its group (`Alone`). The theorems hold for every number of registers of `LLICSQRT` (`SizeAssumption`: at least one; the code has the root of the number of threads), and `LLICGroup` has `N \div GroupSize + 1` of them as in its constructor (`GroupAssumption`).
* `KBasketFAI_proofs`: `TypeCorrect`, `ItemsConserved`, `ClosedIsSafe`. The invariant: each slot number is handed out
  once to puts and once to takes, slots not yet handed to a put are BOTTOM or TOP, the item of a pending put is in
  no unspent slot, and a basket in `drained` has handed out all slots to takes.
* `FAIQueue_proofs`: `QueueUsesBaskets` (every behaviour of the queue is one of the baskets: the retry loop puts an item
  again only when it is nowhere), from which `QueueConservesItems` follows by the theorem about baskets; `QueueTypeCorrect`; and
  `QueueLeavesNothingBehind`, with an invariant that relates `HEAD` to `drained` and each put in progress to `TAIL`.

* `CASQueue_proofs`, on the baskets: `TypeCorrect`, `ItemsConserved`, `ClosedBasketIsEmpty`. The invariant: slots before a sweep's `pos` are TOP, TOP
  never changes, and in the second try of `compete` the slot is not BOTTOM any more. On the queue: `QueueUsesBaskets`, `QueueConservesItems`, `QueueTypeCorrect`, `QueueLeavesNothingBehind` as for `FAIQueue`, with the
  invariant `QInv`. `Covered` is what differs: if no IC is lost, an item at `TAIL` or after it belongs to an enqueue that is about to move `TAIL`; over grouped objects
  there is no such bound from above, and what is left is that the item is in a basket from `HEAD` on.
  `QueuePaysForTail` needs more (`PInv`): no take has been in a basket at `TAIL` or after it (`Ahead`), so a put that fails there has found its own slot taken, by an item; the items in
  different baskets are different, so `TAIL` counts at most those that are stored (`Paid`). `EnoughBaskets` follows: with as many baskets as items no thread leaves the array, which is
  why the drivers' sizing is right for this queue and not for `FAIQueue`.
* `Linearization_proofs`, about the set of configurations that `Linearization` computes: it never loses an explanation when calls go on (`ExplanationsGrow`), a configuration from which a pending call takes effect is
  still one (`ExplanationsClosed`), and `Explanations`, defined as the result of as many rounds as there are pending calls, is all there is to reach (`EffectiveCount`: no call takes effect twice, so that many rounds are
  enough; `RoundsAgree` and `NatSetInduction`: the rounds form a function on the natural numbers, by induction over a set of numbers, which the provers can instantiate where they cannot instantiate an operator).
* `QueueIsLinearizable`, in `CASQueue_proofs`: if no IC is lost, `lin` is never empty. No single order of the calls will do, because what a later dequeue
  finds decides between the items of one basket, and in which order their enqueues must have taken effect. The invariant (`LinInv`) says instead that `lin` contains a configuration for *every* queue that `Fits`: the items of the baskets from `HEAD`
  to before `TAIL`, basket by basket, those of each basket in any order. The calls of items in later baskets have not taken effect (`Config`, `AnswerIn`). When `TAIL` moves, all enqueues whose items are in the basket it leaves take effect at once, in
  each order (`Batch`); when a slot is emptied, the dequeue takes effect (`TakeItemLin`), and of the queues that fitted before, those that begin with its item are what fits afterwards; when a take has reported the basket at `HEAD` closed, it is empty, so that moving `HEAD` changes nothing that fits; and a dequeue that reads
  `HEAD = TAIL` has seen a moment at which only the empty queue fits (`SomethingFits`, `HInv`): `HEAD` was read first, and `TAIL`, which never moves back, has not moved since the first look, so `TAIL <= HEAD` at the last read.
* `QueueIsLinearizable`, in `FAIQueue_proofs`, has the same shape and a different order: items take effect in the order of their *slots*, not only of their baskets, because takes draw the slots of a basket in order. What `Fits` is again a queue,
  here with the places of its items (`Lists`), and a function `m` from the takes that have drawn a slot to the items they are to get (`Gives`): a dequeue may take effect as soon as it has drawn its slot, for the item of a put in progress even before the item is there, and `m` names such an item
  or none, since the take may also spoil the slot. An enqueue takes effect at the latest when it returns, and then so do all before it in slot order (`Needed`, `Batch`: the items of pending enqueues may be in the queue as well, one after the other). The steps that matter are the draw of a slot (`TakeFAILin`), the exchange
  that finds the item or spoils the slot (`TakeItemLin`, `TakeQuietLin`) and the return of an enqueue (`EnqICLin`). Over grouped objects the answer EMPTY is withdrawn (`Linearizable` says nothing of it), and FIFO order does not depend on `TAIL` any more: this is the difference from `CASQueue`,
  where a lost IC breaks the order, as slots there are used in any order.
* `SegmentQueue_proofs`: `SegmentsConserveItems`, `SegmentsLeaveNothingBehind`, `SegmentTypeCorrect`. Not every behaviour of this queue is one of the baskets, because a new segment begins with an item
  that no `put` of the model has stored (`EnqLink`); the invariant `IInv` of the baskets holds all the same (`BornInBasket`), as that basket is as it would be after a put that nobody has seen. For this the
  invariant `SInv` has `ListTo`: the segments are linked in order up to some segment, all pointers are to these, and the baskets of the others are unused; `Calling` and `Enqueuing` say which basket and which item a thread inside `put` or
  `take` has, so that none is in the new basket and none has the new item; `Passed` relates every `HEAD` to the baskets that a take has reported closed, and `Bounded` keeps tickets inside their segment.
* `SBQ_proofs`: `ItemsAreNotPassedOver`, `EnqueuesKeepOrder`, `DequeuesKeepOrder`, `DeletionIsSafe`. The parts of `IInv`:
  `ListOK` (the list is without gaps: a node after `tail` is linked from the one before it), `DrawOK` (`head` and every dequeue have only left nodes all of whose cells are drawn or whose basket is empty for good;
  and a cell is drawn once), `ItemOK` (an item is in one place, and a dequeue is due only what was there when it began), `DueOK` (a dequeue that leaves without an item leaves nothing it was due),
  `OrderOK` (items whose enqueue has returned are not after `tail`, so a node read from `tail` later is not before theirs), `ProtectOK` (a thread at work has published a node not after the
  one it is at: it goes on along the list, and the protector stays behind) and `FreeOK` (what is deleted is an initial part of the list, one thread at a time has the list of retired nodes, and the least index it has found so far
  is not above the protector of any shielded thread whose protector the scan has passed). Each of the first six is needed by another: order needs that `head` only passes drawn nodes, which
  needs that an `empty` basket stays so, which needs that cells are drawn once.
* `LinkedQueues_proofs`: `ItemsAreNotPassedOver`, `RingsInUseAreAllocated`, `MemoryStaysSafe`, which is about all of `MCLinkedQueues`, and `MSQueueIsLinearizable`. Four invariants:
  * `IInv`, of `LCRQ`: threads are in linked rings, from the others nothing was dequeued (`ListOK`), and what a thread has read of a cell still bounds the cell's index (`ReadOK`). A dequeue that has given its ticket up (`GivenUp`) leaves
    the cell past this ticket or unsafe (`LeftOK`); and an enqueue whose CAS would succeed has a ticket that was not given up, nor was a later one of the same cell (`CASOK`). The second is the point of the test in line 168: `head` counts
    a dequeue before that dequeue reads or marks the cell, so an enqueue that has found the cell unsafe and then `head` not past its ticket has read the cell too early for its CAS to succeed once the ticket is given up.
  * `RInv`, of the rings of `LCRQ`, with the labels of the threads as parameters: segments are linked one after the other and `tail` is at the last or the one before (`OrderOK`), threads are not past `head` or `tail`
    (`WhereOK`), and a thread in a segment publishes it, and it is allocated (`ProtectOK`). Segments are retired in their order, by a thread whose own hazard pointer is still on the one it retires, so that its scan keeps this one; the others of
    its list are before `head` and `tail` for good, nobody publishes them any more, and what the scan has not met in a hazard pointer it would not meet there later (`RetireOK`).
  * `ArrayInv`, of `FAAArrayQueue`, holds after a replaced link too, when the segments are no list any more. There are numbers for the addresses (`rank`, quantified in the invariant, since a number is chosen anew when an address comes back)
    such that `head` and `tail` only go to segments with larger numbers. `AgesOK`: from `head` on and from `tail` on, `next` leads to a larger number, and nothing is linked behind a segment after `tail`, so that a new one can have the largest. `HoldsOK`: a thread in a segment
    publishes it, and it is allocated and not after `tail` (in `enqueue`) or `head` (in `dequeue`); what the thread is about to move `tail` or `head` to is allocated. `BuriedOK`: retired segments are before `head`, each in one list once; only the last of a list
    may still be `tail`, and its thread publishes it while it scans. `SoughtOK`: a scan that looks for another segment has not passed a thread that is in it.
  * `MsInv`, of `MSQueue`: `stale`, or there are numbers `rank` for its nodes with which they are a list (`Ranked`). The numbers are as in `ArrayInv` a function that grows with the list. `FreshOK`: a node that is not linked has one thread. `OwnedOK`: a node before `head` has one owner, which is about to retire it or has it in its list, once. `SeenOK`: what a thread has read twice it has
    published in between; and a thread in `dequeue` is before `tail`, so its node has a next one, which is published as well before `head` moves to it. `PassedOK`: nobody relies on a hazard pointer (`Relies`) that a scan for the
    node has passed. A thread begins to rely on a node only while it is `head` or `tail`, or on the one after its own when it moves `head` there itself, and a scan looks for nodes before `head`.
    `MsLin`, beside it, is about the answers: the queue is what lies after `head` up to `tail` (`Lists`), and the configuration with these items is among the explanations. Linking a node does not put its item into the queue yet, because a dequeue
    that finds `head = tail` answers EMPTY even if there is a next node; the enqueue takes effect when `tail` reaches its node, and that may be a step of another thread, which the owner's own CAS of `tail` then finds done (`Unswung`, `MoveLin`). `TailOK` is why `tail` never
    skips an enqueue: at most one node is behind it, and one thread has linked that node and not seen `tail` move. An EMPTY takes effect at the load of `tail`: the node that was `head` before is still not after it, and `tail` is not before `head`, so head and tail are the same.

Only model-checked:

* Linearizability of the other queues (`Linearizable` of `ArrayQueue`, `LinearizableUntilStale` of FAAArrayQueue and LCRQ, `LinearizableAlone`).
* Liveness (`ImplementObject`, `OperationsReturn`), which needs ENABLED and fairness; TLAPS does not support them here.
* `BasketsAreConcurrent` and `TakenInOrder` of the queues of nodes, `CellsServeOnce` of the wait-free queue, and the benchmarks (whose
  `InBounds` is for CASQueue an instance of `EnoughBaskets`).
* What the drivers compute about measurements: sums over sequences of any length need induction over data.

## 6. Plan

Done: the LL/IC objects, the baskets, the queues, hazard pointers, the benchmarks, and the proofs above. What would come next:

1. `CellsServeOnce` of `YMCQueue`, and `TakenInOrder` of the segmented queue, as theorems.
2. The bound of `CountIsRight` for LL/IC, as a theorem.
3. Further segments of `YMCQueue` and their reclamation.

## 7. Not modelled

* The second and later segments of `YMCQueue.hpp`: `findCell` beyond 1024 cells, and `cleanUp`, `check`, `update` and the fields only they read. They begin to matter when every
  thread has drawn 1024 cells and segments are two per thread apart. The order of memory accesses in this file is often asked to be relaxed; the model has the order of the program, so it shows
  what goes wrong in that order and no effect of weaker ones.
* `HPQueue.hpp`, a second Michael-Scott queue that no file includes, and `FAIQueueHP` (`LLICQueue.hpp` 179-264), which stores no node but the first and is used by nothing.
* Choosing the experiments, output, the sequential queue, the notebooks: no state that an interleaving could change.

Also left out: memory layout and padding (the only difference between classes of a kind),
`int` overflow of `HEAD`, `TAIL`, `PUTS` and `TAKES` (bounded by the array and the number of threads and calls, far below 2^31), construction and destruction
(both single-threaded), values that equal a sentinel (no caller enqueues negative numbers), and in the benchmarks the clocks, idle loops and thread affinity.

## 8. Running

`tlc -config X.cfg M` for each run in `PROJECT.json`; `tlapm M.tla` for the eight `_proofs` modules (twenty minutes for `LinkedQueues_proofs`, minutes for the others).
