------------------------------ MODULE MCBench -------------------------------
(***************************************************************************)
(* The experiments: the benchmarks of the queues (part = "queue"), those   *)
(* of the LL/IC objects (part = "count"), and the choice of one mean from  *)
(* repeated measurements (part = "mean"), which share no state.            *)
(***************************************************************************)
EXTENDS QueueBench

CONSTANTS Counters, Rounds,                                       \* of LLICBench
          ITERATIONS, WindowSize, ThresholdNum, ThresholdDen, Times     \* of MeanFromCoV

VARIABLES
  part,
  R, lo, link, M, i, max, rounds, wins, result,   \* of LLICBench
  turn, data, best, mean, times                   \* of MeanFromCoV

B == INSTANCE LLICBench WITH N <- Counters, Ops <- Rounds
E == INSTANCE MeanFromCoV WITH i <- turn, K <- WindowSize

shared == <<class, arrived, pc, lossy>>
queueOnly == <<A, PUTS, TAKES, State, bk, x, slot, pos, val, again, res, stored, removed, drained,
               HEAD, TAIL, qpc, arg, head, tail, hhead, used, lin, shape, phase, todo>>
countOnly == <<R, lo, link, M, i, max, rounds, wins, result>>
meanOnly == <<turn, data, best, mean, times>>

NoQueue ==
  /\ A = 0 /\ PUTS = 0 /\ TAKES = 0 /\ State = 0 /\ bk = 0 /\ x = 0 /\ slot = 0 /\ pos = 0 /\ val = 0
  /\ again = 0 /\ res = 0 /\ stored = {} /\ removed = 0 /\ drained = {} /\ HEAD = 0 /\ TAIL = 0
  /\ qpc = [p \in Procs |-> "idle"] /\ arg = 0 /\ head = 0 /\ tail = 0 /\ hhead = 0 /\ used = {}
  /\ lin = {} /\ shape = "none" /\ phase = "none" /\ todo = 0
NoCount ==
  /\ R = 0 /\ lo = 0 /\ link = 0 /\ M = 0 /\ i = 0 /\ max = 0 /\ rounds = 0 /\ wins = 0 /\ result = -1

MCInit ==
  /\ E!Init
  /\ \/ part = "queue" /\ Init /\ NoCount
     \/ part = "count" /\ B!Init /\ NoQueue
     \/ part = "mean" /\ NoQueue /\ NoCount /\ class = "none" /\ arrived = {} /\ pc = 0 /\ lossy = FALSE

MCNext ==
  \/ part = "queue" /\ Next /\ UNCHANGED <<part, countOnly, meanOnly>>
  \/ part = "count" /\ B!Next /\ UNCHANGED <<part, queueOnly, meanOnly>>
  \/ part = "mean" /\ E!Next /\ UNCHANGED <<part, queueOnly, countOnly, shared>>

MCSpec == MCInit /\ [][MCNext]_<<part, vars, countOnly, meanOnly>>

\* States are told apart by what can still be read: a local that is out of scope,
\* or that is assigned before it is read again, is left out, and so are the
\* histories that the benchmarks' properties do not mention.
Live(l, S, pcs) == [p \in {t \in Procs : pcs[t] \in S} |-> l[p]]
QueueView ==
  <<class, shape, phase, arrived, todo, A, PUTS, TAKES, State, removed, HEAD, TAIL, lossy,
    qpc, pc, Cardinality(used),
    Live(bk, F!PutPcs \cup F!TakePcs \cup C!PutPcs \cup C!TakePcs, pc),
    Live(x, F!PutPcs \cup C!PutPcs, pc),
    Live(slot, {"putSwap", "takeState", "takeSwap"}, pc),
    Live(pos, C!TakePcs, pc), Live(val, {"takeCas"}, pc),
    Live(again, {"takeLoad", "takeCas"}, pc),
    [p \in {t \in Procs : pc[t] = "idle" /\ qpc[t] \in {"enqPut", "deqTake"}} |-> res[p]],
    Live(arg, F!EnqPcs, qpc), Live(head, F!DeqPcs \ {"deqHead"}, qpc),
    Live(tail, {"enqPut", "deqTake", "deqHHead", "deqTTail"}, qpc),
    Live(hhead, {"deqTTail"}, qpc)>>
View ==
  CASE part = "queue" -> <<part, QueueView>>
    [] part = "count" ->
         <<part, shared, R, lo, M, rounds, wins, result,
           [p \in {t \in B!Procs : class = "LLIC" \/ pc[t] # "idle"} |-> link[p]],
           [p \in {t \in B!Procs : pc[t] \in {"first", "second"}} |-> <<i[p], max[p]>>]>>
    [] part = "mean" -> <<part, meanOnly>>

\* The properties of the modules, under their names.
CountIsRight == B!CountIsRight
EarlyMeanIsSteady == E!EarlyMeanIsSteady
LeastVariation == E!LeastVariation
=============================================================================
