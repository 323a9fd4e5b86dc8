------------------------------- MODULE MCLLIC -------------------------------
(***************************************************************************)
(* The LL/IC objects in one state space: impl says which of the modules    *)
(* LLICRW, LLICCAS, LLICSQRT and LLICGroup a behaviour belongs to, and the *)
(* others' variables stay put.                                             *)
(***************************************************************************)
EXTENDS LLICGroup

VARIABLES
  impl,     \* "rw", "cas", "sqrt" or "group"
  recheck,  \* the class of LLICRW's object
  R         \* the register of LLICCAS

RW == INSTANCE LLICRW
CAS == INSTANCE LLICCAS
SQRT == INSTANCE LLICSQRT

allVars == <<gvars, impl, recheck, R>>

\* One register per thread.
RWInit ==
  /\ impl = "rw"
  /\ RW!Init
  /\ ind = [p \in Procs |-> 0]
  /\ x = [p \in Procs |-> 0]
  /\ y = [p \in Procs |-> 0]
  /\ g16 = FALSE /\ shared = FALSE

\* Registers that threads share.
SharedInit ==
  /\ impl \in {"cas", "sqrt", "group"}
  /\ GInit
  /\ recheck = FALSE
  /\ impl # "group" => ~g16 /\ ~shared

MCInit == (RWInit \/ SharedInit) /\ R = 0

RWStep == impl = "rw" /\ RW!Next /\ UNCHANGED <<ind, x, y, class, R, impl>>
CASStep == impl = "cas" /\ CAS!Next /\ UNCHANGED <<M, i, mx, ind, x, y, class, recheck, impl>>
SQRTStep == impl = "sqrt" /\ SQRT!Next /\ UNCHANGED <<y, class, R, recheck, impl>>
GroupStep == impl = "group" /\ Next /\ UNCHANGED <<R, recheck, impl>>

\* The steps of thread p inside LL and IC.
Running(p) ==
  \/ /\ impl = "rw"
     /\ \/ RW!LLRead(p) \/ RW!LLReturn(p)
        \/ RW!ICRead(p) \/ RW!ICAgree(p) \/ RW!ICSkip(p) \/ RW!ICStore(p)
     /\ UNCHANGED <<ind, x, y, class, R, impl>>
  \/ /\ impl = "cas"
     /\ CAS!LLReturn(p) \/ CAS!ICCompare(p) \/ CAS!ICSkip(p) \/ CAS!ICCas(p)
     /\ UNCHANGED <<M, i, mx, ind, x, y, class, recheck, impl>>
  \/ /\ impl = "sqrt"
     /\ LLRead(p) \/ LLReturn(p) \/ SQRT!ICStep(p)
     /\ UNCHANGED <<y, class, R, recheck, impl>>
  \/ /\ impl = "group"
     /\ ((LLRead(p) \/ LLReturn(p)) /\ UNCHANGED <<class, y>>) \/ ICStep(p)
     /\ UNCHANGED <<R, recheck, impl>>

MCNext == RWStep \/ CASStep \/ SQRTStep \/ GroupStep

MCSafeSpec == MCInit /\ [][MCNext]_allVars

\* A thread that has called LL or IC keeps running.
MCSpec == MCSafeSpec /\ \A p \in Procs : WF_allVars(Running(p))
-----------------------------------------------------------------------------
\* Types of the objects with one register per thread.
RWTypeOK ==
  /\ recheck \in BOOLEAN
  /\ M \in [Procs -> Nat]
  /\ pc \in [Procs -> {"idle", "LL", "IC", "store"}]
  /\ i \in [Procs -> Procs]
  /\ mx \in [Procs -> Nat]
  /\ link \in [Procs -> Nat \cup {None}]
  /\ lo \in [Procs -> Nat]

\* Types of the objects with one register or shared ones.
SharedTypeOK ==
  /\ impl \in {"cas", "sqrt", "group"}
  /\ R \in Nat
  /\ M \in [Regs -> Nat]
  /\ pc \in [Procs -> {"idle", "LL", "IC", "load", "loadGroup", "cas", "check", "fallback"}]
  /\ i \in [Procs -> Regs]
  /\ mx \in [Procs -> Nat \cup {-1}]
  /\ ind \in [Procs -> Regs]
  /\ link \in [Procs -> Nat \cup {None}]
  /\ x \in [Procs -> Nat]
  /\ y \in [Procs -> Nat]
  /\ lo \in [Procs -> Nat]

\* Type invariant: no collect runs over the registers, and every index that LL and IC
\* compute is the index of a register.
TypeOK == IF impl = "rw" THEN RWTypeOK ELSE SharedTypeOK

\* The value of the object.
Value == IF impl = "cas" THEN R ELSE IF impl = "rw" THEN RW!Top ELSE Top

Object == INSTANCE LLIC WITH
  R <- Value,
  pc <- AbsPc,
  lossy <- (impl = "group")

\* LLICRW, LLICCAS and LLICSQRT implement the LL/IC object, LLICGroup the lossy one.
\* LL returns a value the object had while LL ran, although it never sees all
\* registers at once; the object moves by one, and only in an IC called with the value
\* it has; an IC does not return before the object is above its value, if need be with
\* the help of the fallback, and only in a group it may leave the object where it was;
\* and every call of a thread that keeps running returns.
ImplementObject == Object!FairSpec

\* The same without the promise that calls return, which is what is proved.
ImplementObjectSafely == Object!Spec

\* IC(v) returns with the object above v.  LLICGroup loses an IC only to a thread of
\* the same group: nobody else writes the register of a thread that is alone in its
\* group, also where the guard of G16 lets a late IC through.
OnlyGroupMatesLose ==
  [][\A p \in Procs :
       /\ impl = "group" => ~MayLose(p)
       /\ pc[p] \notin {"idle", "LL"} /\ pc'[p] = "idle"
       => Value' > link[p]]_allVars

\* No step lowers a register: M[p] of LLICRW is written with a value p collected
\* before, possibly long before, plus one, and the CASes of the others expect a value
\* that was read before.
RegistersOnlyGrow == [][\A r \in DOMAIN M : M'[r] >= M[r]]_allVars
=============================================================================
