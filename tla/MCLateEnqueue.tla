--------------------------- MODULE MCLateEnqueue ---------------------------
(***************************************************************************)
(* MSQueue and FAAArrayQueue with one slow enqueue: thread 0 makes the     *)
(* first call, an enqueue, and no other; meanwhile the other threads       *)
(* enqueue and dequeue for so long that nodes are retired, deleted and     *)
(* allocated again under their old addresses.                              *)
(***************************************************************************)
EXTENDS MCLinkedQueues

\* Items are numbers, and enqueued in their order; threads do not tell them apart otherwise.
InOrder == \A v \in used' \ used : \A w \in Items \ used : v <= w

Late == pc[0] = "idle" /\ pc'[0] # "idle" => used = {} /\ used' # {}

LateSpec == MCInit /\ [][MCNext /\ InOrder /\ Late]_allVars

SameNodes == Permutations(Nodes)
=============================================================================
