------------------------------ MODULE LLICGroup ------------------------------
(***************************************************************************)
(* The LL/IC object with one register per group of threads                 *)
(* (basket/src/llic.cpp: LLICRWSQRTG, G16 and G32, which differ in the     *)
(* alignment of M and, for G16, in the guard of IC).  IC CASes the group's *)
(* register once and returns whether or not the CAS succeeded.             *)
(***************************************************************************)
EXTENDS LLICIndexed

CONSTANTS
  GroupSize   \* group_size

ASSUME GroupAssumption == GroupSize \in Nat \ {0} /\ Size = (N \div GroupSize) + 1

VARIABLES
  g16,  \* the object's class, chosen with it: TRUE for LLICRWSQRTG16
  shared,  \* the object's use, chosen with it: TRUE for HEAD of a grouped queue, where
           \* TAIL.LL gets the same ind_max_p between HEAD.LL and HEAD.IC
  y     \* local of IC: what it loaded from the group's register

class == <<g16, shared>>
gvars == <<vars, class, y>>

Pos(p) == p \div GroupSize

GInit == Init /\ g16 \in BOOLEAN /\ shared \in BOOLEAN /\ y = [p \in Procs |-> 0]

\* IC(max_p, ind_max_p, thread_id) is called, in dequeue after TAIL.LL(head_idx_max):
\* the index of a register of another object is then in the place of the one LL found.
GICCall(p) ==
  /\ ICCall(p)
  /\ ~shared
  /\ UNCHANGED <<class, y>>
ICCallShared(p) ==
  /\ shared
  /\ pc[p] = "idle"
  /\ link[p] # None
  /\ link[p] < MaxValue
  /\ pc' = [pc EXCEPT ![p] = "load"]
  /\ \E r \in Regs : ind' = [ind EXCEPT ![p] = r]
  /\ UNCHANGED <<class, M, i, mx, link, x, lo, y>>

\* x = M[ind_max_p].load()
ICLoadMax(p) ==
  /\ pc[p] = "load"
  /\ x' = [x EXCEPT ![p] = M[ind[p]]]
  /\ pc' = [pc EXCEPT ![p] = "loadGroup"]
  /\ UNCHANGED <<class, M, i, mx, ind, link, lo, y>>

\* Mutant of StillCurrent: < for <=.
StillBehind(p, group) ==
  /\ IF g16 THEN link[p] <= x[p] ELSE x[p] <= link[p]
  /\ group < link[p]

\* The guard of IC.  G16 has max_p <= x where the others have x <= max_p.
StillCurrent(p, group) ==
  /\ IF g16 THEN link[p] <= x[p] ELSE x[p] <= link[p]
  /\ group <= link[p]

\* y = M[pos].load(), and the guard holds.
ICLoadGroup(p) ==
  /\ pc[p] = "loadGroup"
  /\ StillCurrent(p, M[Pos(p)])
  /\ y' = [y EXCEPT ![p] = M[Pos(p)]]
  /\ pc' = [pc EXCEPT ![p] = "cas"]
  /\ UNCHANGED <<class, M, i, mx, ind, link, x, lo>>

\* It does not: IC returns.
ICSkip(p) ==
  /\ pc[p] = "loadGroup"
  /\ ~StillCurrent(p, M[Pos(p)])
  /\ ICReturn(p)
  /\ UNCHANGED <<class, M, i, mx, ind, lo, y>>

\* M[pos].compare_exchange_strong(y, max_p + 1) succeeds; ind_max_p = pos.
ICCas(p) ==
  /\ pc[p] = "cas"
  /\ M[Pos(p)] = y[p]
  /\ M' = [M EXCEPT ![Pos(p)] = link[p] + 1]
  /\ ind' = [ind EXCEPT ![p] = Pos(p)]
  /\ y' = [y EXCEPT ![p] = 0]
  /\ ICReturn(p)
  /\ UNCHANGED <<class, i, mx, lo>>

\* It fails, and IC returns all the same.
ICCasFails(p) ==
  /\ pc[p] = "cas"
  /\ M[Pos(p)] # y[p]
  /\ y' = [y EXCEPT ![p] = 0]
  /\ ICReturn(p)
  /\ UNCHANGED <<class, M, i, mx, ind, lo>>

LLStep(p) == (LLCall(p) \/ LLRead(p) \/ LLReturn(p)) /\ UNCHANGED <<class, y>>

ICStep(p) == ICLoadMax(p) \/ ICLoadGroup(p) \/ ICSkip(p) \/ ICCas(p) \/ ICCasFails(p)

Next == \E p \in Procs : LLStep(p) \/ GICCall(p) \/ ICCallShared(p) \/ ICStep(p)

Spec == GInit /\ [][Next]_gvars
-----------------------------------------------------------------------------
\* The threads whose ICs may be lost.  A group-mate that runs IC with an older value
\* makes the CAS fail and leaves the object where it was: what is left is the lossy
\* object of module LLIC.  An ind_max_p that belongs to another object does no more
\* harm than that: with the guard of G16 the register it names may be below v, with
\* the other one it is not above.
MayLose(p) == (g16 /\ shared) \/ \E q \in Procs \ {p} : Pos(q) = Pos(p)
=============================================================================
