----------------------------- MODULE LLICIndexed -----------------------------
(***************************************************************************)
(* What the LL/IC objects with fewer registers than threads have in common *)
(* (basket/src/llic.cpp: LLICRWSQRT, LLICRWSQRTFS, LLICRWNewSolRandom and  *)
(* LLICRWSQRTG, G16, G32): the registers and LL(ind_max_p), which returns  *)
(* the largest register and leaves its index in the caller's ind_max_p.    *)
(* LLICSQRT and LLICGroup add the two kinds of IC.                         *)
(***************************************************************************)
EXTENDS Integers

CONSTANTS
  N,         \* the number of threads; thread ids are 0 .. N - 1
  Size,      \* the number of registers
  MaxValue   \* bound of the model: IC is called with values below it

ASSUME NAssumption == N \in Nat \ {0}
ASSUME SizeAssumption == Size \in Nat \ {0}
ASSUME MaxValueAssumption == MaxValue \in Nat

Procs == 0 .. N - 1
Regs == 0 .. Size - 1
None == -1

VARIABLES
  M,      \* the registers, all 0 after construction
  pc,     \* "idle", "LL" (collecting), or a step of IC
  i,      \* the next register LL reads
  mx,     \* max_p: the largest value LL has read, -1 before the first
  ind,    \* ind_max_p: the register it was read from
  link,   \* the value returned by the thread's last LL, None once IC used it
  x,      \* local of IC: what it loaded first
  lo      \* history: the object's value when the thread's last LL was called

vars == <<M, pc, i, mx, ind, link, x, lo>>

\* The value of the object: the largest register.
Top == CHOOSE v \in {M[r] : r \in Regs} : \A r \in Regs : M[r] <= v

Init ==
  /\ M = [r \in Regs |-> 0]
  /\ pc = [p \in Procs |-> "idle"]
  /\ i = [p \in Procs |-> 0]
  /\ mx = [p \in Procs |-> -1]
  /\ ind = [p \in Procs |-> 0]
  /\ link = [p \in Procs |-> None]
  /\ x = [p \in Procs |-> 0]
  /\ lo = [p \in Procs |-> 0]

\* LL is called.  Whatever index ind_max_p has, LL overwrites it.
LLCall(p) ==
  /\ pc[p] = "idle"
  /\ pc' = [pc EXCEPT ![p] = "LL"]
  /\ ind' = [ind EXCEPT ![p] = 0]
  /\ link' = [link EXCEPT ![p] = None]
  /\ lo' = [lo EXCEPT ![p] = Top]
  /\ UNCHANGED <<M, i, mx, x>>

\* x = M[i].load() is larger than all before; the first largest keeps its index.
Larger(p) == M[i[p]] > mx[p]

\* One register of the loop, which goes on.
LLRead(p) ==
  /\ pc[p] = "LL"
  /\ i[p] < Size - 1
  /\ mx' = [mx EXCEPT ![p] = IF Larger(p) THEN M[i[p]] ELSE mx[p]]
  /\ ind' = [ind EXCEPT ![p] = IF Larger(p) THEN i[p] ELSE ind[p]]
  /\ i' = [i EXCEPT ![p] = i[p] + 1]
  /\ UNCHANGED <<M, pc, link, x, lo>>

\* The last register, and LL returns; its locals go out of scope.
LLReturn(p) ==
  /\ pc[p] = "LL"
  /\ i[p] = Size - 1
  /\ ind' = [ind EXCEPT ![p] = IF Larger(p) THEN i[p] ELSE ind[p]]
  /\ link' = [link EXCEPT ![p] = IF Larger(p) THEN M[i[p]] ELSE mx[p]]
  /\ pc' = [pc EXCEPT ![p] = "idle"]
  /\ i' = [i EXCEPT ![p] = 0]
  /\ mx' = [mx EXCEPT ![p] = -1]
  /\ UNCHANGED <<M, x, lo>>

ICCall(p) ==
  /\ pc[p] = "idle"
  /\ link[p] # None
  /\ link[p] < MaxValue
  /\ pc' = [pc EXCEPT ![p] = "load"]
  /\ UNCHANGED <<M, i, mx, ind, link, x, lo>>

\* IC returns; its locals go out of scope.
ICReturn(p) ==
  /\ x' = [x EXCEPT ![p] = 0]
  /\ pc' = [pc EXCEPT ![p] = "idle"]
  /\ link' = [link EXCEPT ![p] = None]

\* What each thread is doing with the LL/IC object of module LLIC.
AbsPc == [p \in Procs |-> IF pc[p] \in {"idle", "LL"} THEN pc[p] ELSE "IC"]
=============================================================================
