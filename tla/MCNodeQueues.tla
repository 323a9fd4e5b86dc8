---------------------------- MODULE MCNodeQueues ----------------------------
(***************************************************************************)
(* The queues of LLICQueue.hpp over nodes of baskets: Queue (impl =        *)
(* "segments"), FAIQueueArray and FAIQueueArray2 (impl = "array").  In a   *)
(* behaviour of the latter the list of Queue stays as it was made.         *)
(***************************************************************************)
EXTENDS SegmentQueue, FiniteSets, TLC

CONSTANTS ARRAY_SIZE, ARRAY_NODE_SIZE, Tickets    \* of the array queues

VARIABLES
  impl,
  AHEAD, ATAIL, lossy, nodes, before    \* of the array queues

R == INSTANCE ArrayQueue WITH NODE_SIZE <- ARRAY_NODE_SIZE, HEAD <- AHEAD, TAIL <- ATAIL

ASSUME R!SizeAssumption

arrayOnly == <<AHEAD, ATAIL, lossy, nodes, before>>

MCInit ==
  /\ Init
  /\ impl \in {"segments", "array"}
  /\ IF impl = "array" THEN R!Init
     ELSE AHEAD = 0 /\ ATAIL = 0 /\ lossy = FALSE /\ nodes = {} /\ before = {}

MCNext ==
  \/ impl = "segments" /\ Next /\ UNCHANGED <<impl, arrayOnly>>
  \/ impl = "array" /\ R!Next /\ UNCHANGED <<impl, segments, seg, nxt>>

MCSpec == MCInit /\ [][MCNext]_<<vars, impl, arrayOnly>>

Symmetry == Permutations(Items)

\* States are told apart by what can still be read: a local that is out of scope,
\* or that is assigned before it is read again, is left out.
Live(l, S, pcs) == [p \in {t \in Procs : pcs[t] \in S} |-> l[p]]
View ==
  <<impl, A, PUTS, TAKES, State, stored, removed, HEAD, TAIL, qpc, pc, used, lin,
    next, HeadPtr, TailPtr, AHEAD, ATAIL, nodes, before,
    Live(bk, {"node", "alloc"} \cup PutPcs \cup TakePcs, pc),
    Live(x, {"node", "alloc"} \cup PutPcs, pc),
    Live(slot, {"putSwap", "takeState", "takeSwap"}, pc),
    [p \in {t \in Procs : pc[t] = "idle" /\ qpc[t] \in {"enqPut", "deqTake"}} |-> res[p]],
    Live(arg, EnqPcs \cup R!EnqPcs, qpc),
    Live(head, {"deqTail", "deqLLTail", "deqLoop", "deqTake", "deqHHead", "deqTTail"}, qpc),
    Live(tail, {"enqFull", "enqPut", "enqLink", "deqLoop", "deqTake", "deqHHead", "deqTTail"}, qpc),
    Live(hhead, {"deqTTail"}, qpc),
    IF impl = "array" THEN <<>>
    ELSE <<Live(seg, EnqPcs \cup {"deqClosed", "deqNext", "deqSwing", "deqLLHead", "deqLLTail",
                     "deqLoop", "deqTake", "deqHHead", "deqTTail"}, qpc),
           Live(nxt, {"enqHelp", "enqSwing", "deqSwing"}, qpc)>>>>

\* The properties of the array queues, under their names.
Linearizable == impl = "array" => R!Linearizable
BasketsAreConcurrent == impl = "array" => R!BasketsAreConcurrent
=============================================================================
