----------------------------- MODULE MCFAIQueue -----------------------------
EXTENDS FAIQueue, TLC
\* Items are interchangeable.
Symmetry == Permutations(Items)

\* States are told apart by what can still be read: a local that is out of scope,
\* or that is assigned before it is read again, is left out.
Live(l, S, pcs) == [p \in {t \in Procs : pcs[t] \in S} |-> l[p]]
View ==
  <<A, PUTS, TAKES, State, stored, removed, drained, HEAD, TAIL, lossy, qpc, pc, used, lin,
    Live(bk, PutPcs \cup TakePcs, pc), Live(x, PutPcs, pc),
    Live(slot, {"putSwap", "takeState", "takeSwap"}, pc),
    [p \in {t \in Procs : pc[t] = "idle" /\ qpc[t] \in {"enqPut", "deqTake"}} |-> res[p]],
    Live(arg, EnqPcs, qpc), Live(head, DeqPcs \ {"deqHead"}, qpc),
    Live(tail, {"enqPut", "deqTake", "deqHHead", "deqTTail"}, qpc),
    Live(hhead, {"deqTTail"}, qpc)>>
=============================================================================
