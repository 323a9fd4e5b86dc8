------------------------------- MODULE LLICCAS -------------------------------
(***************************************************************************)
(* The LL/IC object made of one integer and compare_exchange_strong        *)
(* (basket/src/llic.cpp, LLICCAS).  LL is one load; IC(expected) is a load *)
(* that compares and then a CAS, with anything in between.                 *)
(***************************************************************************)
EXTENDS Integers

CONSTANTS
  Procs,     \* the threads
  MaxValue   \* bound of the model: IC is called with values below it

None == -1

VARIABLES
  R,     \* the register
  pc,    \* "idle", "LL", "IC" (about to compare), "cas"
  link,  \* the value of the thread's last LL, None once IC has used it
  lo     \* history: R when the thread's last LL was called

vars == <<R, pc, link, lo>>

Init ==
  /\ R = 0
  /\ pc = [p \in Procs |-> "idle"]
  /\ link = [p \in Procs |-> None]
  /\ lo = [p \in Procs |-> 0]

LLCall(p) ==
  /\ pc[p] = "idle"
  /\ pc' = [pc EXCEPT ![p] = "LL"]
  /\ link' = [link EXCEPT ![p] = None]
  /\ lo' = [lo EXCEPT ![p] = R]
  /\ UNCHANGED R

\* return R.load()
LLReturn(p) ==
  /\ pc[p] = "LL"
  /\ link' = [link EXCEPT ![p] = R]
  /\ pc' = [pc EXCEPT ![p] = "idle"]
  /\ UNCHANGED <<R, lo>>

ICCall(p) ==
  /\ pc[p] = "idle"
  /\ link[p] # None
  /\ link[p] < MaxValue
  /\ pc' = [pc EXCEPT ![p] = "IC"]
  /\ UNCHANGED <<R, link, lo>>

\* R.load() == expected: the CAS follows.
ICCompare(p) ==
  /\ pc[p] = "IC"
  /\ R = link[p]
  /\ pc' = [pc EXCEPT ![p] = "cas"]
  /\ UNCHANGED <<R, link, lo>>

\* R.load() # expected: IC returns.
ICSkip(p) ==
  /\ pc[p] = "IC"
  /\ R # link[p]
  /\ pc' = [pc EXCEPT ![p] = "idle"]
  /\ link' = [link EXCEPT ![p] = None]
  /\ UNCHANGED <<R, lo>>

\* The CAS, which may fail; IC returns in both cases.
ICCas(p) ==
  /\ pc[p] = "cas"
  /\ R' = IF R = link[p] THEN link[p] + 1 ELSE R
  /\ pc' = [pc EXCEPT ![p] = "idle"]
  /\ link' = [link EXCEPT ![p] = None]
  /\ UNCHANGED lo

Next ==
  \E p \in Procs :
    \/ LLCall(p) \/ LLReturn(p)
    \/ ICCall(p) \/ ICCompare(p) \/ ICSkip(p) \/ ICCas(p)

Spec == Init /\ [][Next]_vars
=============================================================================
