--------------------------- MODULE MCLinkedQueues ---------------------------
(***************************************************************************)
(* The linked queues that the basket queues are compared with, and whose   *)
(* nodes are reclaimed with hazard pointers: MSQueue (impl = "ms"),        *)
(* FAAArrayQueue (impl = "faa") and LCRQ (impl = "lcrq").                  *)
(***************************************************************************)
EXTENDS LCRQ, TLC

CONSTANTS
  TAKEN, Nodes, HPs, BUFFER_SIZE,
  Impls   \* the queues of the run

VARIABLES
  impl,
  expect, stale,                            \* of MSQueue and FAAArrayQueue
  item, x, new, node, lnext, seen,          \* of MSQueue
  deqIdx, enqIdx, items, idx                \* of FAAArrayQueue

M == INSTANCE MSQueue
F == INSTANCE FAAArrayQueue

ASSUME ListAssumption ==
  M!ThreadsAssumption /\ M!ThresholdAssumption /\ M!NullAssumption /\ M!HazardsAssumption
ASSUME ArrayAssumption == F!BufferAssumption /\ F!CellAssumption

msOnly == <<item, x, new, node, lnext, seen>>
segmented == <<seg, nxt>>
faaOnly == <<deqIdx, enqIdx, items, idx>>
lcrqOnly == <<ring, crqHead, crqTail, tkt, cell, tt, r, h>>
allVars == <<impl, expect, stale, vars, msOnly, faaOnly>>

NoMS == item = 0 /\ x = 0 /\ new = 0 /\ node = 0 /\ lnext = 0 /\ seen = 0
NoFAA == deqIdx = 0 /\ enqIdx = 0 /\ items = 0 /\ idx = 0

MCInit ==
  /\ impl \in Impls
  /\ \/ impl = "ms" /\ M!Init /\ seg = 0 /\ nxt = 0 /\ NoFAA /\ RingsInit
     \/ impl = "faa" /\ F!Init /\ NoMS /\ RingsInit
     \/ impl = "lcrq" /\ Init /\ expect = 0 /\ stale = FALSE /\ NoMS /\ NoFAA

MCNext ==
  \/ impl = "ms" /\ M!Next /\ UNCHANGED <<impl, segmented, faaOnly, lcrqOnly>>
  \/ impl = "faa" /\ F!Next /\ UNCHANGED <<impl, msOnly, lcrqOnly>>
  \/ impl = "lcrq" /\ Next /\ UNCHANGED <<impl, expect, stale, msOnly, faaOnly>>

MCSpec == MCInit /\ [][MCNext]_allVars

Symmetry == Permutations(Items) \cup Permutations(Nodes)

\* States are told apart by what can still be read.
Live(l, S) == [p \in {t \in Procs : pc[t] \in S} |-> l[p]]
MSEnq == {"enqTail", "enqHp", "enqCheck", "enqNext", "enqCas", "enqHelp", "enqSwing"}
MSView ==
  <<[n \in heap |-> <<item[n], next[n]>>],
    Live(x, {"deqClear", "deqRetire", "deqScan"}),
    Live(new, MSEnq),
    Live(expect, MSEnq \cup {"enqNew"}),
    Live(node, (MSEnq \ {"enqTail"}) \cup
               {"deqTail", "deqNext", "deqNextHp", "deqCas", "deqItem", "deqClear", "deqRetire"}),
    Live(lnext, {"enqHelp", "deqCas", "deqItem"}),
    Live(seen, {"deqHead", "deqHeadHp", "deqNext", "deqNextHp"})>>
EnqStart == {"enqTail", "enqNext", "enqTkt", "enqLink", "enqHelp", "enqSwing"}
EnqCell == {"enqIdx", "enqVal", "enqHead", "enqCAS", "enqFull", "enqClose"}
CellPcs == {"deqIdx", "deqVal", "deqTail", "deqTake", "deqMark", "deqSkip"}
EndPcs == {"deqClose", "deqEnd", "fixTail", "fixHead", "fixCheck", "fixCAS", "deqNext", "deqLast"}
FAAEnq == {"enqTail", "enqHp", "enqIdx", "enqLast", "enqNext", "enqLink", "enqHelp", "enqSwing", "enqItem"}
FAADeq ==
  {"deqHead", "deqHp", "deqDeqIdx", "deqEnqIdx", "deqLast", "deqIdx", "deqNext", "deqSwing", "deqItem"}
FAAView ==
  <<[n \in heap |-> <<deqIdx[n], enqIdx[n], items[n], next[n]>>],
    Live(expect, FAAEnq),
    Live(seg, FAAEnq \cup FAADeq),
    Live(idx, {"enqItem", "deqItem", "deqEnqIdx"}),
    Live(nxt, {"enqHelp", "enqSwing", "deqSwing"})>>
LCRQView ==
  <<ring, crqHead, crqTail, next,
    Live(seg, (EnqStart \ {"enqTail"}) \cup EnqCell \cup CellPcs \cup EndPcs \cup {"deqTkt", "deqSwing"}),
    Live(tkt, EnqCell \cup CellPcs \cup EndPcs),
    Live(nxt, {"enqHelp", "enqSwing", "deqLast", "deqSwing"}),
    Live(cell, {"enqVal", "enqHead", "enqCAS", "deqVal", "deqTail", "deqTake", "deqMark", "deqSkip"}),
    Live(tt, CellPcs \cup {"fixHead", "fixCheck", "fixCAS"}),
    Live(r, EnqStart \cup EnqCell \cup CellPcs),
    Live(h, {"fixCheck", "fixCAS"})>>
View ==
  <<impl, stale, pc, arg, used, lin, hp, retired, heap, scan, head, tail,
    CASE impl = "ms" -> MSView [] impl = "faa" -> FAAView [] impl = "lcrq" -> LCRQView>>

-----------------------------------------------------------------------------
\* Answers are those of a FIFO queue; in MSQueue and FAAArrayQueue as long as no CAS has
\* replaced a link.
LinearizableUntilStale == stale \/ Linearizable

\* No thread reads or writes a node, segment or ring that was deleted: what it has
\* published and found unchanged, no scan of another thread can have missed.  In
\* MSQueue as long as no CAS has replaced a link; in FAAArrayQueue also then.
MemoryIsSafe ==
  CASE impl = "ms" -> stale \/ M!NoUseAfterFree
    [] impl = "faa" -> F!NoUseAfterFree
    [] impl = "lcrq" -> NoUseAfterFree
=============================================================================
