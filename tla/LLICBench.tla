----------------------------- MODULE LLICBench ------------------------------
(***************************************************************************)
(* The counter benchmarks (exp_* of queue/include/Experiments.hpp, same_*  *)
(* of queue/src/llictest.cpp, copies of each other for the classes of      *)
(* objects, and latency.cpp with one round): every thread increments one   *)
(* shared counter Ops times, and main reads it when all are joined.        *)
(*                                                                         *)
(*  "LLIC"  max = LL(); IC(max) on an LL/IC object, which is module LLIC   *)
(*          (lossy if it is grouped)                                       *)
(*  "FAI"   fetch_add, the reference                                       *)
(*  "CAST"  LLIC() of LLICCAST, a load and a CAS                           *)
(*  "NCT"   LLIC() of LLICRWNCT, two collects of an array and a store      *)
(*                                                                         *)
(* The last two join LL and IC in one call that says if it succeeded.      *)
(***************************************************************************)
EXTENDS Integers, FiniteSets

CONSTANTS
  N,     \* cores
  Ops    \* operations, operationsByThread

Procs == 0 .. N - 1
MaxValue == N * Ops

VARIABLES
  class,     \* the kind of counter, see above
  R, pc, lo, link, lossy,   \* of module LLIC; R and link also serve FAI and CAST
  M,         \* the registers of NCT
  i, max,    \* the collect of NCT: the loop variable and the maximum so far
  arrived,   \* the threads at the barrier
  rounds,    \* how many rounds each thread has made
  wins,      \* how often LLIC() has returned true
  result     \* what main reads at the end, -1 before

L == INSTANCE LLIC

llic == <<R, pc, lo, link, lossy>>
collect == <<M, i, max>>
bench == <<class, arrived, rounds, wins, result>>
vars == <<llic, collect, bench>>

Init ==
  /\ class \in {"LLIC", "FAI", "CAST", "NCT"}
  /\ L!Init /\ (lossy => class = "LLIC")
  /\ M = [p \in Procs |-> 0]
  /\ i = [p \in Procs |-> 0]
  /\ max = [p \in Procs |-> 0]
  /\ arrived = {}
  /\ rounds = [p \in Procs |-> 0]
  /\ wins = 0
  /\ result = -1

Goto(p, label) == pc' = [pc EXCEPT ![p] = label]

\* Thread p is behind the barrier and between two calls.
Ready(p) == arrived = Procs /\ pc[p] = "idle" /\ rounds[p] < Ops

Round(p) == rounds' = [rounds EXCEPT ![p] = @ + 1]

\* sync_point.arrive_and_wait()
Arrive(p) ==
  /\ p \notin arrived
  /\ arrived' = arrived \cup {p}
  /\ UNCHANGED <<llic, collect, class, rounds, wins, result>>
-----------------------------------------------------------------------------
\* fai.fetch_add(1)
FetchAdd(p) ==
  /\ class = "FAI" /\ Ready(p)
  /\ R' = R + 1
  /\ Round(p)
  /\ UNCHANGED <<pc, lo, link, lossy, collect, class, arrived, wins, result>>

\* max = LL(); IC(max)
LLStep(p) ==
  /\ class = "LLIC"
  /\ \/ Ready(p) /\ link[p] = L!None /\ L!LLCall(p)
     \/ L!LLReturn(p)
     \/ L!ICCall(p)
  /\ UNCHANGED <<collect, bench>>
ICStep(p) ==
  /\ class = "LLIC"
  /\ L!IC(p) \/ L!ICLost(p)
  /\ Round(p)
  /\ UNCHANGED <<collect, class, arrived, wins, result>>

\* expected = R.load()
CASTLoad(p) ==
  /\ class = "CAST" /\ Ready(p)
  /\ link' = [link EXCEPT ![p] = R]
  /\ Goto(p, "cas")
  /\ UNCHANGED <<R, lo, lossy, collect, bench>>

\* Mutant of CASTCas: a store for the CAS.
CASTStore(p) ==
  /\ pc[p] = "cas"
  /\ R' = link[p] + 1
  /\ wins' = wins + 1
  /\ Goto(p, "idle") /\ Round(p)
  /\ UNCHANGED <<lo, link, lossy, collect, class, arrived, result>>

\* return R.compare_exchange_strong(expected, expected + 1)
CASTCas(p) ==
  /\ pc[p] = "cas"
  /\ IF R = link[p] THEN R' = R + 1 /\ wins' = wins + 1 ELSE UNCHANGED <<R, wins>>
  /\ Goto(p, "idle") /\ Round(p)
  /\ UNCHANGED <<lo, link, lossy, collect, class, arrived, result>>

Larger(a, b) == IF a > b THEN a ELSE b

\* The call of LLIC(process) of LLICRWNCT.
NCTCall(p) ==
  /\ class = "NCT" /\ Ready(p)
  /\ i' = [i EXCEPT ![p] = 0]
  /\ max' = [max EXCEPT ![p] = 0]
  /\ Goto(p, "first")
  /\ UNCHANGED <<R, lo, link, lossy, M, bench>>

\* One load of a collect; after the first one max_p is kept in link, and after the
\* second one LLIC goes on to the store or returns false.
NCTLoad(p) ==
  /\ pc[p] \in {"first", "second"} /\ i[p] < N
  /\ max' = [max EXCEPT ![p] = Larger(@, M[i[p]])]
  /\ i' = [i EXCEPT ![p] = @ + 1]
  /\ UNCHANGED <<llic, M, bench>>
NCTAgain(p) ==
  /\ pc[p] = "first" /\ i[p] = N
  /\ link' = [link EXCEPT ![p] = max[p]]
  /\ i' = [i EXCEPT ![p] = 0]
  /\ max' = [max EXCEPT ![p] = 0]
  /\ Goto(p, "second")
  /\ UNCHANGED <<R, lo, lossy, M, bench>>

\* maximum == max_p: the store follows.
NCTAgree(p) ==
  /\ pc[p] = "second" /\ i[p] = N /\ max[p] = link[p]
  /\ Goto(p, "store")
  /\ UNCHANGED <<R, lo, link, lossy, collect, bench>>
NCTFail(p) ==
  /\ pc[p] = "second" /\ i[p] = N /\ max[p] # link[p]
  /\ Goto(p, "idle") /\ Round(p)
  /\ UNCHANGED <<R, lo, link, lossy, collect, class, arrived, wins, result>>

\* M[process].store(max_p + 1); return true
NCTStore(p) ==
  /\ pc[p] = "store"
  /\ M' = [M EXCEPT ![p] = link[p] + 1]
  /\ wins' = wins + 1
  /\ Goto(p, "idle") /\ Round(p)
  /\ UNCHANGED <<R, lo, link, lossy, i, max, class, arrived, result>>
-----------------------------------------------------------------------------
\* get(), or LL() when no thread runs.
Value ==
  IF class = "NCT" THEN CHOOSE v \in {M[p] : p \in Procs} : \A p \in Procs : M[p] <= v ELSE R

\* All threads are joined; main reads the counter.
Join ==
  /\ result = -1
  /\ \A p \in Procs : rounds[p] = Ops
  /\ result' = Value
  /\ UNCHANGED <<llic, collect, class, arrived, rounds, wins>>

Over == result # -1 /\ UNCHANGED vars

Step(p) ==
  \/ Arrive(p) \/ FetchAdd(p) \/ LLStep(p) \/ ICStep(p) \/ CASTLoad(p) \/ CASTCas(p)
  \/ NCTCall(p) \/ NCTLoad(p) \/ NCTAgain(p) \/ NCTAgree(p) \/ NCTFail(p) \/ NCTStore(p)

Next == Join \/ Over \/ \E p \in Procs : Step(p)

Spec == Init /\ [][Next]_vars
-----------------------------------------------------------------------------
\* What the counter shows at the end.  fetch_add counts all operations.  A round of
\* LL/IC, like a call of LLIC() that fails, leaves the counter above where it found
\* it, though perhaps by the increment of another thread: the counter is between the
\* rounds of one thread and the rounds of all.  LLICCAST says true once per value;
\* LLICRWNCT says true to all threads whose collects agree, at least once per value.
\* A grouped object may lose increments, and counts nothing for certain.
CountIsRight ==
  result # -1 =>
    /\ result <= N * Ops
    /\ class = "FAI" => result = N * Ops
    /\ ~lossy => Ops <= result
    /\ class = "CAST" => result = wins
    /\ class = "NCT" => result <= wins
=============================================================================
