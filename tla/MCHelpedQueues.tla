--------------------------- MODULE MCHelpedQueues ---------------------------
(***************************************************************************)
(* The queues to compare with in which threads work on each other's        *)
(* behalf and which do not use hazard pointers: SBQ (impl = "sbq"), where  *)
(* an enqueue may end in the basket of another one, and YMCQueue           *)
(* (impl = "ymc"), where dequeues finish the calls of others.  In a        *)
(* behaviour of YMCQueue the list of SBQ stays as it was made.             *)
(***************************************************************************)
EXTENDS SBQ, TLC

CONSTANTS
  Impls,                              \* which of the two
  Elems, LastCell, PATIENCE, TOP, OK, EMPTY, DEQUEUE   \* of YMCQueue

VARIABLES
  impl,
  lin, enqIdx, deqIdx, val, enqReq, deqReq, reqId, reqVal, deqId, deqAt,   \* of YMCQueue
  Ei, enqPeer, deqPeer, tries, id, res, found, whom, oldVal, newVal, enq, enqId, enqVal,
  claimed, served

Y == INSTANCE YMCQueue WITH N <- ENQUEUERS, Items <- Elems, Last <- LastCell

ASSUME Y!ThreadsAssumption /\ Y!PatienceAssumption /\ Y!ValuesAssumption

sbqOnly == <<next, counter, empty, cells, heap, head, tail, retired, protectors,
             node, old, x, ret, min, at, floor, due, shielded>>
ymcOnly == <<lin, enqIdx, deqIdx, val, enqReq, deqReq, reqId, reqVal, deqId, deqAt,
             Ei, enqPeer, deqPeer, tries, id, res, found, whom, oldVal, newVal, enq, enqId, enqVal,
             claimed, served>>
allVars == <<vars, impl, ymcOnly>>

NoYMC ==
  /\ lin = 0 /\ enqIdx = 0 /\ deqIdx = 0 /\ val = 0 /\ enqReq = 0 /\ deqReq = 0 /\ reqId = 0 /\ reqVal = 0
  /\ deqId = 0 /\ deqAt = 0 /\ Ei = 0 /\ enqPeer = 0 /\ deqPeer = 0 /\ tries = 0 /\ id = 0 /\ res = 0
  /\ found = 0 /\ whom = 0 /\ oldVal = 0 /\ newVal = 0 /\ enq = 0 /\ enqId = 0 /\ enqVal = 0
  /\ claimed = FALSE /\ served = 0

MCInit ==
  /\ Init
  /\ impl \in Impls
  /\ IF impl = "ymc" THEN Y!Init ELSE NoYMC

\* Bound of YMCQueue: the last cell is drawn only while no second item is used.
Within == Cardinality(used') > 1 => enqIdx' <= LastCell /\ deqIdx' <= LastCell

MCNext ==
  \/ impl = "sbq" /\ Next /\ UNCHANGED <<impl, ymcOnly>>
  \/ impl = "ymc" /\ Y!Next /\ Within /\ UNCHANGED <<impl, sbqOnly>>

MCSpec == MCInit /\ [][MCNext]_allVars

Symmetry == Permutations(Items) \cup Permutations(Elems)

\* States are told apart by what can still be read.  A counter of SBQ that is past its
\* last cell may go on growing: how far makes no difference.
Live(l, L) == [p \in {t \in Procs : pc[t] \in L} |-> l[p]]
Capped(n) == IF counter[n] > ENQUEUERS THEN ENQUEUERS ELSE counter[n]
SBQView ==
  <<head, tail, retired, protectors, heap,
    [n \in heap |-> <<next[n], empty[n], cells[n], Capped(n)>>],
    shielded,
    Live(node, {"enqNext", "enqLink", "enqSwing", "enqInsert", "enqWalk", "deqEmpty", "deqNext",
                "deqTest", "deqDraw", "deqFlag", "deqCell", "deqLast", "advLoad", "advCAS"}),
    Live(old, {"publish", "check", "advCAS"}),
    [p \in {t \in Procs : pc[t] \in {"advLoad", "advCAS"}} |-> x[p] = NONE],
    Live(idx, {"deqFlag", "deqCell"}),
    Live(ret, {"freeScan", "freeLoop", "freeStore"}),
    Live(min, {"freeScan", "freeLoop"}),
    Live(i, {"freeScan"}),
    [v \in {w \in used : at[w] = -1} |-> floor[v]],
    [p \in {t \in Procs : Enqueuing(t)} |-> at[arg[p]]],
    {n \in Placed : \A m \in Placed : m <= n},
    [p \in Procs |-> due[p] \cap UNION {Undrawn(n) : n \in Node}]>>

HelpPcs == {"helpVal", "helpReq", "helpPeer", "helpReserve", "helpWhose", "helpReqVal", "helpNewer",
            "helpNewerIdx", "helpClaim", "helpMine", "helpLift", "helpStore", "helpEnd", "reqFound", "deqCell"}
ReqPcs == {"reqLift", "reqNext", "reqAnnounce", "reqDone", "reqVal", "reqCell", "reqClose"}
ReqStart == {"reqIdx", "reqId", "reqIdxAgain"}
SlowPcs == {"slowFAA", "slowReserve", "slowLook", "slowTest", "slowClaim"}
YMCView ==
  <<lin, enqIdx, deqIdx, val, enqReq, deqReq, reqId, reqVal, deqId, deqAt, Ei, enqPeer, deqPeer,
    claimed, served,
    Live(tries, {"enqFAA", "enqCell", "deqFAA"}),
    [p \in {t \in Procs : pc[t] \in HelpPcs /\ whom[t] = NULL} |-> tries[p]],
    Live(i, HelpPcs \cup (ReqPcs \ {"reqClose"}) \cup
            {"enqCell", "slowReserve", "slowLook", "slowClaim", "slowTest", "slowRead", "deqSlowVal"}),
    Live(id, SlowPcs \cup {"slowVal", "slowId", "slowStore", "deqSlowId", "deqSlowIdx", "reqIdxAgain"}),
    Live(whom, HelpPcs \cup ReqPcs \cup ReqStart),
    Live(res, ReqPcs \cup ReqStart \cup {"reqEnd"}),
    [p \in {t \in Procs : pc[t] \in ReqPcs \cup HelpPcs /\ whom[t] # NULL} |->
       <<id[p], res[p], oldVal[p], newVal[p], idx[p]>>],
    Live(idx, {"reqId"}),
    Live(found, {"deqCell", "reqFound"}),
    Live(enq, {"helpReserve", "helpWhose", "helpReqVal", "helpClaim"}),
    Live(enqId, {"helpReserve", "helpReqVal", "helpClaim", "helpMine"}),
    Live(enqVal, {"helpClaim", "helpMine", "helpLift", "helpStore"})>>

View == <<impl, pc, arg, used, IF impl = "sbq" THEN SBQView ELSE YMCView>>

\* The properties of YMCQueue, under their names.
LinearizableAlone == impl = "ymc" => Y!LinearizableAlone
CellsServeOnce == impl = "ymc" => Y!CellsServeOnce
Linearizable == impl = "ymc" => Y!Linearizable
=============================================================================
