-------------------------------- MODULE LLIC --------------------------------
(***************************************************************************)
(* What an LL/IC object promises (basket/include/llic.hpp, docs/design.org *)
(* lines 117-119).  The object is one integer R.  LL() returns R; IC(v),   *)
(* called with the value of the caller's last LL(), makes sure that R has  *)
(* left v: it increments R exactly when R is still v.                      *)
(*                                                                         *)
(* LL is an interval: an implementation that collects an array cannot read *)
(* R at one point, but what it returns is a value R had between the call   *)
(* and the return.  IC takes effect as its last step.                      *)
(*                                                                         *)
(* A lossy object is weaker: its IC(v) may also return with R still v.     *)
(* LLICCAS, LLICRW and LLICSQRT implement the object that loses nothing,   *)
(* LLICGroup the lossy one.                                                *)
(***************************************************************************)
EXTENDS Integers

CONSTANTS
  Procs,     \* the threads that use the object
  MaxValue   \* bound of the model: IC is called with values below it

None == -1   \* "this thread holds no LL value"

VARIABLES
  R,     \* the value of the object
  pc,    \* what each thread is doing: "idle", "LL" or "IC"
  lo,    \* R at the time the thread's last LL was called
  link,  \* the value the thread's last LL returned, None once IC has used it
  lossy  \* the object's class, chosen with it: TRUE if an IC can be lost

vars == <<R, pc, lo, link, lossy>>

Init ==
  /\ R = 0
  /\ pc = [p \in Procs |-> "idle"]
  /\ lo = [p \in Procs |-> 0]
  /\ link = [p \in Procs |-> None]
  /\ lossy \in BOOLEAN

LLCall(p) ==
  /\ pc[p] = "idle"
  /\ pc' = [pc EXCEPT ![p] = "LL"]
  /\ lo' = [lo EXCEPT ![p] = R]
  /\ link' = [link EXCEPT ![p] = None]
  /\ UNCHANGED <<R, lossy>>

LLReturn(p) ==
  /\ pc[p] = "LL"
  /\ \E v \in lo[p] .. R : link' = [link EXCEPT ![p] = v]
  /\ pc' = [pc EXCEPT ![p] = "idle"]
  /\ UNCHANGED <<R, lo, lossy>>

ICCall(p) ==
  /\ pc[p] = "idle"
  /\ link[p] # None
  /\ link[p] < MaxValue
  /\ pc' = [pc EXCEPT ![p] = "IC"]
  /\ UNCHANGED <<R, lo, link, lossy>>

IC(p) ==
  /\ pc[p] = "IC"
  /\ R' = IF R = link[p] THEN R + 1 ELSE R
  /\ pc' = [pc EXCEPT ![p] = "idle"]
  /\ link' = [link EXCEPT ![p] = None]
  /\ UNCHANGED <<lo, lossy>>

\* IC of a lossy object returns without effect.
ICLost(p) ==
  /\ lossy
  /\ pc[p] = "IC"
  /\ pc' = [pc EXCEPT ![p] = "idle"]
  /\ link' = [link EXCEPT ![p] = None]
  /\ UNCHANGED <<R, lo, lossy>>

Next == \E p \in Procs : LLCall(p) \/ LLReturn(p) \/ ICCall(p) \/ IC(p) \/ ICLost(p)

Spec == Init /\ [][Next]_vars

\* A thread inside an operation keeps running, and its operation returns.
Fairness == \A p \in Procs : WF_vars(LLReturn(p)) /\ WF_vars(IC(p) \/ ICLost(p))

FairSpec == Spec /\ Fairness
=============================================================================
