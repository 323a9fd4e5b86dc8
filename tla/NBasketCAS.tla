----------------------------- MODULE NBasketCAS -----------------------------
(***************************************************************************)
(* The baskets of basket/src/kbasket.cpp with one slot per thread (class   *)
(* NBasketCAS), one action per atomic access.  Thread p puts only into     *)
(* slot p; a take sweeps all slots, starting at its own, and competes for  *)
(* each with CAS, at most twice.  A queue owns an array of baskets, so     *)
(* every shared variable is indexed by basket.                             *)
(***************************************************************************)
EXTENDS Integers

CONSTANTS
  N,         \* size_n: the slots of a basket and the threads of the queue
  Baskets,   \* the baskets, the indices of the queue's array A
  Items,     \* what is put: every item stands for one value of one enqueue
  BOTTOM, TOP,                \* the content of a slot without an item
  OK, FULL, BASKET_CLOSED,    \* results
  OPEN, CLOSED                \* values of STATE

ASSUME NAssumption == N \in Nat \ {0}
ASSUME BasketsAssumption == Baskets # {}
ASSUME SentinelAssumption ==
  /\ BOTTOM \notin Items /\ TOP \notin Items /\ BOTTOM # TOP
  /\ {OK, FULL, BASKET_CLOSED} \cap Items = {}
  /\ OK # FULL /\ OK # BASKET_CLOSED /\ FULL # BASKET_CLOSED
  /\ OPEN # CLOSED

Procs == 0 .. N - 1
Slots == 0 .. N - 1

VARIABLES
  A,         \* A[b][s]: the slots
  State,     \* STATE of basket b, OPEN or CLOSED (STATE is a keyword of TLA+)
  pc,        \* where each thread is, "idle" outside put and take
  bk,        \* the basket the thread's call is about
  x,         \* the item the thread's put carries
  pos,       \* the local pos of take
  val,       \* the local x of compete: what it loaded
  again,     \* TRUE in the second call of compete for the same pos
  res,       \* the result of the thread's last call
  stored,    \* history: the items whose put returned OK
  removed,   \* history: how often each item was returned by a take
  drained    \* history: the baskets for which a take returned BASKET_CLOSED

shared == <<A, State>>
local == <<pc, bk, x, pos, val, again, res>>
history == <<stored, removed, drained>>
basketVars == <<shared, local, history>>

PutPcs == {"putState", "putLoad", "putCas"}
TakePcs == {"takeState", "takeClose", "takeLoad", "takeCas"}

\* initializeDefault(number_processes) for every basket.
BasketInit ==
  /\ A = [b \in Baskets |-> [s \in Slots |-> BOTTOM]]
  /\ State = [b \in Baskets |-> OPEN]
  /\ pc = [p \in Procs |-> "idle"]
  /\ bk = [p \in Procs |-> CHOOSE b \in Baskets : TRUE]
  /\ x = [p \in Procs |-> BOTTOM]
  /\ pos = [p \in Procs |-> p]
  /\ val = [p \in Procs |-> BOTTOM]
  /\ again = [p \in Procs |-> FALSE]
  /\ res = [p \in Procs |-> FULL]
  /\ stored = {}
  /\ removed = [v \in Items |-> 0]
  /\ drained = {}

Goto(p, label) == pc' = [pc EXCEPT ![p] = label]

Return(p, r) ==
  /\ pc' = [pc EXCEPT ![p] = "idle"]
  /\ res' = [res EXCEPT ![p] = r]
-----------------------------------------------------------------------------
\* put(x, process): the call.
PutCall(p, b, v) ==
  /\ pc[p] = "idle"
  /\ bk' = [bk EXCEPT ![p] = b]
  /\ x' = [x EXCEPT ![p] = v]
  /\ Goto(p, "putState")
  /\ UNCHANGED <<shared, pos, val, again, res, history>>

\* STATE.load() == CLOSED
PutState(p) ==
  /\ pc[p] = "putState"
  /\ IF State[bk[p]] = CLOSED
       THEN Return(p, FULL)
       ELSE Goto(p, "putLoad") /\ UNCHANGED res
  /\ UNCHANGED <<shared, bk, x, pos, val, again, history>>

\* A[process].load() == BOTTOM
PutLoad(p) ==
  /\ pc[p] = "putLoad"
  /\ IF A[bk[p]][p] # BOTTOM
       THEN Return(p, FULL)
       ELSE Goto(p, "putCas") /\ UNCHANGED res
  /\ UNCHANGED <<shared, bk, x, pos, val, again, history>>

\* A[process].compare_exchange_strong(BOTTOM, x) succeeds.
PutStore(p) ==
  /\ pc[p] = "putCas"
  /\ A[bk[p]][p] = BOTTOM
  /\ A' = [A EXCEPT ![bk[p]][p] = x[p]]
  /\ stored' = stored \cup {x[p]}
  /\ Return(p, OK)
  /\ UNCHANGED <<State, bk, x, pos, val, again, removed, drained>>

\* It fails: a take has claimed the slot.
PutTooLate(p) ==
  /\ pc[p] = "putCas"
  /\ A[bk[p]][p] # BOTTOM
  /\ Return(p, FULL)
  /\ UNCHANGED <<shared, bk, x, pos, val, again, history>>
-----------------------------------------------------------------------------
\* take(process): the call.
TakeCall(p, b) ==
  /\ pc[p] = "idle"
  /\ bk' = [bk EXCEPT ![p] = b]
  /\ pos' = [pos EXCEPT ![p] = p]
  /\ Goto(p, "takeState")
  /\ UNCHANGED <<shared, x, val, again, res, history>>

\* Mutant of TakeState: off by one.
TakeStateTooLate(p) ==
  /\ pc[p] = "takeState"
  /\ IF State[bk[p]] = CLOSED
       THEN Return(p, BASKET_CLOSED) /\ drained' = drained \cup {bk[p]}
       ELSE /\ Goto(p, IF pos[p] > p + N THEN "takeClose" ELSE "takeLoad")
            /\ UNCHANGED <<res, drained>>
  /\ again' = [again EXCEPT ![p] = FALSE]
  /\ UNCHANGED <<shared, bk, x, pos, val, stored, removed>>

\* STATE.load() == CLOSED ends the take; a whole turn leads to the closing.
TakeState(p) ==
  /\ pc[p] = "takeState"
  /\ IF State[bk[p]] = CLOSED
       THEN Return(p, BASKET_CLOSED) /\ drained' = drained \cup {bk[p]}
       ELSE /\ Goto(p, IF pos[p] = p + N THEN "takeClose" ELSE "takeLoad")
            /\ UNCHANGED <<res, drained>>
  /\ again' = [again EXCEPT ![p] = FALSE]
  /\ UNCHANGED <<shared, bk, x, pos, val, stored, removed>>

\* Mutant of TakeClose: the store is missing.
TakeLeaveOpen(p) ==
  /\ pc[p] = "takeClose"
  /\ Goto(p, "takeState")
  /\ UNCHANGED <<shared, bk, x, pos, val, again, res, history>>

\* STATE.store(CLOSED); continue
TakeClose(p) ==
  /\ pc[p] = "takeClose"
  /\ State' = [State EXCEPT ![bk[p]] = CLOSED]
  /\ Goto(p, "takeState")
  /\ UNCHANGED <<A, bk, x, pos, val, again, res, history>>

\* pos % size_n; pos is at most process + size_n - 1 when a slot is looked at.
SlotAt(c) == IF c < N THEN c ELSE c - N
Slot(p) == SlotAt(pos[p])

\* compete gives the slot up: it was TOP, or this was the second try; pos++.
NextSlot(p) ==
  /\ pos' = [pos EXCEPT ![p] = @ + 1]
  /\ Goto(p, "takeState")
  /\ UNCHANGED again

\* compete returned BOTTOM: once more for the same slot, but only once.
Retry(p) ==
  IF again[p]
    THEN NextSlot(p)
    ELSE /\ again' = [again EXCEPT ![p] = TRUE]
         /\ Goto(p, "takeLoad")
         /\ UNCHANGED pos

\* compete: x = A[pos].load(), TOP is returned at once.
TakeLoad(p) ==
  /\ pc[p] = "takeLoad"
  /\ val' = [val EXCEPT ![p] = A[bk[p]][Slot(p)]]
  /\ IF val'[p] = TOP
       THEN NextSlot(p)
       ELSE Goto(p, "takeCas") /\ UNCHANGED <<pos, again>>
  /\ UNCHANGED <<shared, bk, x, res, history>>

\* Mutant of TakeItem: a plain store for the CAS.
TakeItemUnchecked(p) ==
  /\ pc[p] = "takeCas"
  /\ val[p] # BOTTOM
  /\ A' = [A EXCEPT ![bk[p]][Slot(p)] = TOP]
  /\ removed' = [removed EXCEPT ![val[p]] = @ + 1]
  /\ Return(p, val[p])
  /\ UNCHANGED <<State, bk, x, pos, val, again, stored, drained>>

\* compete: the CAS to TOP succeeds on an item, and take returns it.
TakeItem(p) ==
  /\ pc[p] = "takeCas"
  /\ A[bk[p]][Slot(p)] = val[p]
  /\ val[p] # BOTTOM
  /\ A' = [A EXCEPT ![bk[p]][Slot(p)] = TOP]
  /\ removed' = [removed EXCEPT ![val[p]] = @ + 1]
  /\ Return(p, val[p])
  /\ UNCHANGED <<State, bk, x, pos, val, again, stored, drained>>

\* compete: the CAS to TOP succeeds on an empty slot, which no put can use now.
TakeEmpty(p) ==
  /\ pc[p] = "takeCas"
  /\ A[bk[p]][Slot(p)] = val[p]
  /\ val[p] = BOTTOM
  /\ A' = [A EXCEPT ![bk[p]][Slot(p)] = TOP]
  /\ Retry(p)
  /\ UNCHANGED <<State, bk, x, val, res, history>>

\* compete: the CAS fails.
TakeLost(p) ==
  /\ pc[p] = "takeCas"
  /\ A[bk[p]][Slot(p)] # val[p]
  /\ Retry(p)
  /\ UNCHANGED <<shared, bk, x, val, res, history>>
-----------------------------------------------------------------------------
PutStep(p) == PutState(p) \/ PutLoad(p) \/ PutStore(p) \/ PutTooLate(p)

TakeStep(p) ==
  \/ TakeState(p) \/ TakeClose(p) \/ TakeLoad(p)
  \/ TakeItem(p) \/ TakeEmpty(p) \/ TakeLost(p)

\* A call may be made with any item that is neither in a basket yet nor being
\* put: two enqueues of equal values are two items.
Fresh(v) == v \notin stored /\ \A q \in Procs : pc[q] \in PutPcs => x[q] # v

Call(p) ==
  \E b \in Baskets : TakeCall(p, b) \/ \E v \in Items : Fresh(v) /\ PutCall(p, b, v)

BasketNext == \E p \in Procs : Call(p) \/ PutStep(p) \/ TakeStep(p)

BasketSpec == BasketInit /\ [][BasketNext]_basketVars
-----------------------------------------------------------------------------
\* Type invariant.
TypeOK ==
  /\ A \in [Baskets -> [Slots -> Items \cup {BOTTOM, TOP}]]
  /\ State \in [Baskets -> {OPEN, CLOSED}]
  /\ pc \in [Procs -> PutPcs \cup TakePcs \cup {"idle"}]
  /\ bk \in [Procs -> Baskets]
  /\ x \in [Procs -> Items \cup {BOTTOM}]
  /\ pos \in [Procs -> Nat]
  /\ \A p \in Procs : p <= pos[p] /\ pos[p] <= p + N
  /\ val \in [Procs -> Items \cup {BOTTOM, TOP}]
  /\ again \in [Procs -> BOOLEAN]
  /\ res \in [Procs -> Items \cup {OK, FULL, BASKET_CLOSED}]
  /\ stored \subseteq Items
  /\ removed \in [Items -> Nat]
  /\ drained \subseteq Baskets

\* The places where an item is.
Places(v) == {t \in Baskets \X Slots : A[t[1]][t[2]] = v}

\* An item whose put returned OK is in exactly one slot until exactly one take
\* returns it, although any number of takes compete for the slot and the owner
\* may be writing it; an item whose put has not succeeded is nowhere.
NoLossNoDuplicate ==
  \A v \in Items :
    /\ removed[v] <= 1
    /\ IF v \in stored /\ removed[v] = 0
         THEN \E t \in Baskets \X Slots : Places(v) = {t}
         ELSE Places(v) = {}

\* A basket is closed, and reported closed, only when every slot is TOP: two
\* tries are enough for a sweep to leave no item behind and to shut the slot for
\* its owner, whatever the owner and the other takes do in between.
ClosedIsEmpty ==
  \A b \in Baskets : State[b] = CLOSED \/ b \in drained
    => \A s \in Slots : A[b][s] = TOP
=============================================================================
