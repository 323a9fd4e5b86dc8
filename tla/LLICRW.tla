------------------------------- MODULE LLICRW -------------------------------
(***************************************************************************)
(* The LL/IC objects built from one register per thread                    *)
(* (basket/src/llic.cpp): LLICRW, LLICRW16, LLICRW32, LLICRW128 and        *)
(* LLICRWNP, which differ only in the alignment of M, and LLICRWWC and     *)
(* LLICRWWCNP, whose IC does not collect M again (recheck = FALSE).        *)
(* The object's value is the largest register.  LL and IC read the         *)
(* registers one at a time, every read and the store being an atomic step; *)
(* only thread p writes M[p].                                              *)
(***************************************************************************)
EXTENDS Integers

CONSTANTS
  N,         \* num_processes, the number of registers and of threads
  MaxValue   \* bound of the model: IC is called with values below it

Procs == 0 .. N - 1
None == -1

VARIABLES
  recheck,   \* the object's class, chosen with it: TRUE if IC collects M and
             \* stores only if the maximum is still max_p
  M,      \* the registers
  pc,     \* "idle", "LL" (collecting), "IC" (collecting again), "store"
  i,      \* the next register a collect reads
  mx,     \* the maximum the collect has seen: max_p in LL, maximum in IC
  link,   \* the value returned by the thread's last LL, None once IC used it
  lo      \* history: the object's value when the thread's last LL was called

vars == <<recheck, M, pc, i, mx, link, lo>>

\* The value of the object: the largest register.
Top == CHOOSE v \in {M[q] : q \in Procs} : \A q \in Procs : M[q] <= v

Larger(a, b) == IF a >= b THEN a ELSE b

Init ==
  /\ recheck \in BOOLEAN
  /\ M = [p \in Procs |-> 0]
  /\ pc = [p \in Procs |-> "idle"]
  /\ i = [p \in Procs |-> 0]
  /\ mx = [p \in Procs |-> 0]
  /\ link = [p \in Procs |-> None]
  /\ lo = [p \in Procs |-> 0]

\* LL() is called: max_p = 0 and the collect starts at register 0.
LLCall(p) ==
  /\ pc[p] = "idle"
  /\ pc' = [pc EXCEPT ![p] = "LL"]
  /\ i' = [i EXCEPT ![p] = 0]
  /\ mx' = [mx EXCEPT ![p] = 0]
  /\ link' = [link EXCEPT ![p] = None]
  /\ lo' = [lo EXCEPT ![p] = Top]
  /\ UNCHANGED <<recheck, M>>

\* Mutant of Collect: the loop runs one register too far.
CollectTooFar(p) ==
  /\ i[p] < N
  /\ mx' = [mx EXCEPT ![p] = Larger(M[i[p]], mx[p])]
  /\ i' = [i EXCEPT ![p] = i[p] + 1]
  /\ UNCHANGED <<recheck, M, pc, link, lo>>

\* One M[i].load() of a collect that goes on.
Collect(p) ==
  /\ i[p] < N - 1
  /\ mx' = [mx EXCEPT ![p] = Larger(M[i[p]], mx[p])]
  /\ i' = [i EXCEPT ![p] = i[p] + 1]
  /\ UNCHANGED <<recheck, M, pc, link, lo>>

LLRead(p) == pc[p] = "LL" /\ Collect(p)

\* Mutant of LLReturn: the loop ends one register too early.
LLReturnEarly(p) ==
  /\ pc[p] = "LL"
  /\ i[p] = N - 1
  /\ link' = [link EXCEPT ![p] = mx[p]]
  /\ pc' = [pc EXCEPT ![p] = "idle"]
  /\ UNCHANGED <<recheck, M, i, mx, lo>>

\* LL reads the last register and returns the maximum.
LLReturn(p) ==
  /\ pc[p] = "LL"
  /\ i[p] = N - 1
  /\ mx' = [mx EXCEPT ![p] = Larger(M[i[p]], mx[p])]
  /\ link' = [link EXCEPT ![p] = mx'[p]]
  /\ pc' = [pc EXCEPT ![p] = "idle"]
  /\ UNCHANGED <<recheck, M, i, lo>>

\* IC(max_p, process) is called with the value of the thread's last LL.
ICCall(p) ==
  /\ pc[p] = "idle"
  /\ link[p] # None
  /\ link[p] < MaxValue
  /\ pc' = [pc EXCEPT ![p] = IF recheck THEN "IC" ELSE "store"]
  /\ i' = [i EXCEPT ![p] = 0]
  /\ mx' = [mx EXCEPT ![p] = 0]
  /\ UNCHANGED <<recheck, M, link, lo>>

ICRead(p) == pc[p] = "IC" /\ Collect(p)

\* The second collect ends with max_p still the maximum: the store follows.
ICAgree(p) ==
  /\ pc[p] = "IC"
  /\ i[p] = N - 1
  /\ mx' = [mx EXCEPT ![p] = Larger(M[i[p]], mx[p])]
  /\ mx'[p] = link[p]
  /\ pc' = [pc EXCEPT ![p] = "store"]
  /\ UNCHANGED <<recheck, M, i, link, lo>>

\* It ends with another maximum: IC returns and writes nothing.
ICSkip(p) ==
  /\ pc[p] = "IC"
  /\ i[p] = N - 1
  /\ mx' = [mx EXCEPT ![p] = Larger(M[i[p]], mx[p])]
  /\ mx'[p] # link[p]
  /\ pc' = [pc EXCEPT ![p] = "idle"]
  /\ link' = [link EXCEPT ![p] = None]
  /\ UNCHANGED <<recheck, M, i, lo>>

\* Mutant of ICStore: threads share registers, as in the other variants, but
\* the store stays a store.
ICStoreShared(p) ==
  /\ pc[p] = "store"
  /\ M' = [M EXCEPT ![p \div 2] = link[p] + 1]
  /\ pc' = [pc EXCEPT ![p] = "idle"]
  /\ link' = [link EXCEPT ![p] = None]
  /\ UNCHANGED <<recheck, i, mx, lo>>

\* M[process].store(max_p + 1), and IC returns.
ICStore(p) ==
  /\ pc[p] = "store"
  /\ M' = [M EXCEPT ![p] = link[p] + 1]
  /\ pc' = [pc EXCEPT ![p] = "idle"]
  /\ link' = [link EXCEPT ![p] = None]
  /\ UNCHANGED <<recheck, i, mx, lo>>

Next ==
  \E p \in Procs :
    \/ LLCall(p) \/ LLRead(p) \/ LLReturn(p)
    \/ ICCall(p) \/ ICRead(p) \/ ICAgree(p) \/ ICSkip(p) \/ ICStore(p)

Spec == Init /\ [][Next]_vars
=============================================================================
