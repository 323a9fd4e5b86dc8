------------------------------ MODULE LLICSQRT ------------------------------
(***************************************************************************)
(* The LL/IC object over (int) sqrt(n) registers that several threads CAS  *)
(* (basket/src/llic.cpp: LLICRWSQRT, LLICRWSQRTFS, LLICRWNewSolRandom).    *)
(* IC writes max_p + 1 to a register other than the one LL found; when that*)
(* CAS fails it falls back to the register LL found.                       *)
(***************************************************************************)
EXTENDS LLICIndexed

\* The register IC tries first: another one than ind_max_p, spread by thread.
\* It is computed from values that do not change while IC runs.
Pos(p) ==
  LET first == (ind[p] + link[p] + p) % Size
  IN  IF Size < 2 THEN 0
      ELSE IF first = ind[p] THEN (first + 1) % Size ELSE first

\* x = M[pos].load(), and the branch on x < max_p + 1, after which x is only read by
\* the first CAS.
ICLoad(p) ==
  /\ pc[p] = "load"
  /\ x' = [x EXCEPT ![p] = IF M[Pos(p)] < link[p] + 1 THEN M[Pos(p)] ELSE 0]
  /\ pc' = [pc EXCEPT ![p] = IF M[Pos(p)] < link[p] + 1 THEN "cas" ELSE "check"]
  /\ UNCHANGED <<M, i, mx, ind, link, lo>>

\* M[pos].compare_exchange_strong(x, max_p + 1) succeeds and IC returns.
ICCas(p) ==
  /\ pc[p] = "cas"
  /\ M[Pos(p)] = x[p]
  /\ M' = [M EXCEPT ![Pos(p)] = link[p] + 1]
  /\ ICReturn(p)
  /\ UNCHANGED <<i, mx, ind, lo>>

\* It fails: another thread has written the register.
ICCasFails(p) ==
  /\ pc[p] = "cas"
  /\ M[Pos(p)] # x[p]
  /\ pc' = [pc EXCEPT ![p] = "check"]
  /\ x' = [x EXCEPT ![p] = 0]
  /\ UNCHANGED <<M, i, mx, ind, link, lo>>

\* M[ind_max_p] == max_p
ICCheck(p) ==
  /\ pc[p] = "check"
  /\ M[ind[p]] = link[p]
  /\ pc' = [pc EXCEPT ![p] = "fallback"]
  /\ UNCHANGED <<M, i, mx, ind, link, x, lo>>

\* M[ind_max_p] has moved on: IC returns.
ICSkip(p) ==
  /\ pc[p] = "check"
  /\ M[ind[p]] # link[p]
  /\ ICReturn(p)
  /\ UNCHANGED <<M, i, mx, ind, lo>>

\* M[ind_max_p].compare_exchange_strong(max_p, max_p + 1), which may fail.
ICFallback(p) ==
  /\ pc[p] = "fallback"
  /\ M' = [M EXCEPT ![ind[p]] = IF @ = link[p] THEN link[p] + 1 ELSE @]
  /\ ICReturn(p)
  /\ UNCHANGED <<i, mx, ind, lo>>

ICStep(p) ==
  ICLoad(p) \/ ICCas(p) \/ ICCasFails(p) \/ ICCheck(p) \/ ICSkip(p) \/ ICFallback(p)

Next == \E p \in Procs : LLCall(p) \/ LLRead(p) \/ LLReturn(p) \/ ICCall(p) \/ ICStep(p)

Spec == Init /\ [][Next]_vars
=============================================================================
