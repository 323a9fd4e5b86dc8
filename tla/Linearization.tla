--------------------------- MODULE Linearization ---------------------------
(***************************************************************************)
(* What a concurrent FIFO queue promises: the calls take effect one at a   *)
(* time, each between its invocation and its response, on the sequence of  *)
(* the items in the queue.                                                 *)
(*                                                                         *)
(* A configuration is one way the calls may have taken effect so far: the  *)
(* sequence q, and the answer ans[p] of every pending call that has taken  *)
(* effect (NONE for the others).  A queue is linearizable as long as some  *)
(* configuration explains every response it has given; its module keeps    *)
(* the set of all of them and calls Respond at every response.  This is    *)
(* the sequential specification, not code of the repository.               *)
(***************************************************************************)
EXTENDS Naturals, Sequences, FiniteSets

CONSTANTS
  Procs,        \* the threads
  OK, EMPTY,    \* the answers of an enqueue, and of a dequeue without an item
  NONE,         \* no answer yet
  DEQUEUE       \* a pending dequeue; a pending enqueue is its item

Start == {[q |-> <<>>, ans |-> [p \in Procs |-> NONE]]}

Answer(c, p, r, items) == [q |-> items, ans |-> [c.ans EXCEPT ![p] = r]]

\* The call o of thread p takes effect in configuration c.
TakeEffect(c, p, o) ==
  IF o # DEQUEUE THEN Answer(c, p, OK, Append(c.q, o))
  ELSE IF c.q = <<>> THEN Answer(c, p, EMPTY, c.q)
  ELSE Answer(c, p, Head(c.q), Tail(c.q))

\* One more of the pending calls takes effect, or none.
OneMore(C, pending) ==
  C \cup UNION {{TakeEffect(c, p, pending[p]) :
                   p \in {t \in DOMAIN pending : c.ans[t] = NONE}} : c \in C}

\* Any of the pending calls take effect, in any order.
Explanations(C, pending) ==
  LET after[n \in Nat] == IF n = 0 THEN C ELSE OneMore(after[n - 1], pending)
  IN  after[Cardinality(DOMAIN pending)]

\* The configurations left if the dequeue of thread p has had no effect.
Withdraw(C, p) ==
  {[c EXCEPT !.ans[p] = NONE] : c \in {d \in C : d.ans[p] \in {NONE, EMPTY}}}

\* The configurations left once the call of thread p has responded with r.
Respond(C, pending, p, r) ==
  {[c EXCEPT !.ans[p] = NONE] : c \in {d \in Explanations(C, pending) : d.ans[p] = r}}
=============================================================================
