--------------------------- MODULE HazardPointers ---------------------------
(***************************************************************************)
(* MemoryManagementPool of queueTest/include/MemoryManagementPool.hpp:     *)
(* hazard pointers of every thread, its list of retired nodes, and retire, *)
(* which once the list is long enough looks for each of its nodes through  *)
(* the hazard pointers of all threads, one load after the other, and       *)
(* deletes the node if it met it nowhere.                                  *)
(*                                                                         *)
(* Nodes are addresses: a deleted node may come back from the next new.    *)
(***************************************************************************)
EXTENDS Naturals, FiniteSets, Sequences, SequencesExt

CONSTANTS
  Procs,       \* the threads 0, 1, ...; hp is read in that order
  HPs,         \* the hazard pointers 0 .. HPs - 1 of a thread that the user sets
  Threshold,   \* threshold, 512 in the code
  Nodes,       \* addresses
  NULL

ThreadsAssumption == IsFiniteSet(Procs) /\ Procs = 0 .. Cardinality(Procs) - 1
ThresholdAssumption == {HPs, Threshold} \subseteq Nat \ {0}
NullAssumption == NULL \notin Nodes

Loads == Cardinality(Procs) * HPs

VARIABLES
  hp,       \* hp[p][k]
  retired,  \* retiredList of each thread
  heap,     \* the nodes that are allocated
  scan      \* retire's loops: node is the index irl, at counts the loads made

poolVars == <<hp, retired, heap, scan>>

Idle == [node |-> 0, at |-> 0]

PoolInit ==
  /\ hp = [p \in Procs |-> [k \in 0 .. HPs - 1 |-> NULL]]
  /\ retired = [p \in Procs |-> <<>>]
  /\ scan = [p \in Procs |-> Idle]

Publish(p, k, node) == hp' = [hp EXCEPT ![p][k] = node]

\* clear(thread_id)
Clear(p) == hp' = [hp EXCEPT ![p] = [k \in 0 .. HPs - 1 |-> NULL]]

\* Mutant of RetireCall: the list is deleted without a look.
RetireAtOnce(p, node) ==
  /\ heap' = heap \ {node}
  /\ UNCHANGED <<retired, scan>>

\* retire(ptr, thread_id): push_back, and the scan if the list is long enough.
RetireCall(p, node) ==
  /\ retired' = [retired EXCEPT ![p] = Append(@, node)]
  /\ scan' = [scan EXCEPT ![p] =
                IF Len(retired[p]) + 1 < Threshold THEN Idle ELSE [node |-> 1, at |-> 0]]
  /\ UNCHANGED heap

Scanning(p) == scan[p] # Idle

\* The hazard pointer that the next load reads: thread by thread, the last one first.
HazardAt(n) == hp[n \div HPs][HPs - 1 - (n % HPs)]

\* The next node of the list, or the end of the loop.
NextNode(p, list, n) == scan' = [scan EXCEPT ![p] = IF n > Len(list) THEN Idle ELSE [node |-> n, at |-> 0]]

\* hp[tid][hp_idx].load() == obj
ScanLoad(p) ==
  /\ Scanning(p) /\ scan[p].at < Loads
  /\ IF HazardAt(scan[p].at) = retired[p][scan[p].node]
       THEN NextNode(p, retired[p], scan[p].node + 1)
       ELSE scan' = [scan EXCEPT ![p].at = @ + 1]
  /\ UNCHANGED <<hp, retired, heap>>

\* No thread publishes it: erase it from the list, and delete.
ScanDelete(p) ==
  /\ Scanning(p) /\ scan[p].at = Loads
  /\ retired' = [retired EXCEPT ![p] = RemoveAt(@, scan[p].node)]
  /\ heap' = heap \ {retired[p][scan[p].node]}
  /\ NextNode(p, retired'[p], scan[p].node)
  /\ UNCHANGED hp
=============================================================================
