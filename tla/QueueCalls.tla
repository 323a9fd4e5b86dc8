----------------------------- MODULE QueueCalls -----------------------------
(***************************************************************************)
(* The calls of enqueue and dequeue that the queues of queueTest/include   *)
(* serve: where each thread is, the item its enqueue carries, and the      *)
(* history from which module Linearization judges the answers.             *)
(***************************************************************************)
CONSTANTS
  Procs,      \* the threads
  Items,      \* what is enqueued: two enqueues of one value are two items
  OK, EMPTY,  \* the answers of an enqueue, and of a dequeue without an item
  NONE, DEQUEUE

ASSUME AnswersAssumption == NONE \notin Items \cup {OK, EMPTY} /\ DEQUEUE \notin Items

VARIABLES
  pc,         \* "idle" outside enqueue and dequeue
  arg,        \* the item of the thread's enqueue, NONE in a dequeue
  used,       \* history: the items enqueue was called with
  lin         \* history: the configurations of module Linearization

calls == <<pc, arg, used, lin>>

L == INSTANCE Linearization

CallsInit ==
  /\ pc = [p \in Procs |-> "idle"]
  /\ arg = [p \in Procs |-> NONE]
  /\ used = {}
  /\ lin = L!Start

Goto(p, label) == pc' = [pc EXCEPT ![p] = label] /\ UNCHANGED <<arg, used, lin>>

\* The calls; label is where the thread begins.
CallEnqueue(p, v, label) ==
  /\ pc[p] = "idle"
  /\ v \notin used
  /\ used' = used \cup {v}
  /\ arg' = [arg EXCEPT ![p] = v]
  /\ pc' = [pc EXCEPT ![p] = label]
  /\ UNCHANGED lin

CallDequeue(p, label) == pc[p] = "idle" /\ Goto(p, label)

Pending ==
  [p \in {t \in Procs : pc[t] # "idle"} |-> IF arg[p] = NONE THEN DEQUEUE ELSE arg[p]]

Answer(p, r) ==
  /\ pc' = [pc EXCEPT ![p] = "idle"]
  /\ arg' = [arg EXCEPT ![p] = NONE]
  /\ lin' = L!Respond(lin, Pending, p, r)
  /\ UNCHANGED used

\* The answers given so far are those of a FIFO queue whose calls take effect one at
\* a time between invocation and response.
Linearizable == lin # {}
=============================================================================
