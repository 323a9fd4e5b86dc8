----------------------------- MODULE KBasketFAI -----------------------------
(***************************************************************************)
(* The baskets of basket/src/kbasket.cpp that hand out their slots with    *)
(* fetch-and-increment (class KBasketFAI), one action per atomic access.   *)
(* A queue owns an array of baskets, so every shared variable is indexed   *)
(* by basket; a thread is in one call at a time.                           *)
(*                                                                         *)
(* A put that finds its slot already TOP overwrites it with its item all   *)
(* the same (the exchange of line 50) and tries the next slot, so a slot's *)
(* content alone does not say whether an item is in the basket: a slot     *)
(* whose taker has passed is spent, whatever it holds.                     *)
(***************************************************************************)
EXTENDS Integers

CONSTANTS
  Procs,     \* the threads
  Baskets,   \* the baskets, the indices of the queue's array A
  Items,     \* what is put: every item stands for one value of one enqueue
  K,         \* size_k
  BOTTOM, TOP,                \* the content of a slot without an item
  OK, FULL, BASKET_CLOSED,    \* results
  OPEN, CLOSED                \* values of STATE

ASSUME KAssumption == K \in Nat \ {0}
ASSUME BasketsAssumption == Baskets # {}
ASSUME SentinelAssumption ==
  /\ BOTTOM \notin Items /\ TOP \notin Items /\ BOTTOM # TOP
  /\ {OK, FULL, BASKET_CLOSED} \cap Items = {}
  /\ OK # FULL /\ OK # BASKET_CLOSED /\ FULL # BASKET_CLOSED
  /\ OPEN # CLOSED

Slots == 0 .. K - 1

VARIABLES
  A,         \* A[b][s]: the slots
  PUTS,      \* PUTS[b]: slots handed out to puts
  TAKES,     \* TAKES[b]: slots handed out to takes
  State,     \* STATE of basket b, OPEN or CLOSED (STATE is a keyword of TLA+)
  pc,        \* where each thread is, "idle" outside put and take
  bk,        \* the basket the thread's call is about
  x,         \* the item the thread's put carries
  slot,      \* the locals puts and takes
  res,       \* the result of the thread's last call
  stored,    \* history: the items whose put has found BOTTOM
  removed,   \* history: how often each item was returned by a take
  drained    \* history: the baskets for which a take returned BASKET_CLOSED

shared == <<A, PUTS, TAKES, State>>
local == <<pc, bk, x, slot, res>>
history == <<stored, removed, drained>>
basketVars == <<shared, local, history>>

PutPcs == {"putState", "putCount", "putFAI", "putSwap"}
TakePcs == {"takeCount", "takeState", "takeFAI", "takeClose", "takeSwap"}

\* initializeDefault(k) for every basket.
BasketInit ==
  /\ A = [b \in Baskets |-> [s \in Slots |-> BOTTOM]]
  /\ PUTS = [b \in Baskets |-> 0]
  /\ TAKES = [b \in Baskets |-> 0]
  /\ State = [b \in Baskets |-> OPEN]
  /\ pc = [p \in Procs |-> "idle"]
  /\ bk = [p \in Procs |-> CHOOSE b \in Baskets : TRUE]
  /\ x = [p \in Procs |-> BOTTOM]
  /\ slot = [p \in Procs |-> 0]
  /\ res = [p \in Procs |-> FULL]
  /\ stored = {}
  /\ removed = [v \in Items |-> 0]
  /\ drained = {}

Goto(p, label) == pc' = [pc EXCEPT ![p] = label]

Return(p, r) ==
  /\ pc' = [pc EXCEPT ![p] = "idle"]
  /\ res' = [res EXCEPT ![p] = r]
-----------------------------------------------------------------------------
\* put(x): the call.
PutCall(p, b, v) ==
  /\ pc[p] = "idle"
  /\ bk' = [bk EXCEPT ![p] = b]
  /\ x' = [x EXCEPT ![p] = v]
  /\ Goto(p, "putState")
  /\ UNCHANGED <<shared, slot, res, history>>

\* state = STATE.load()
PutState(p) ==
  /\ pc[p] = "putState"
  /\ IF State[bk[p]] = CLOSED
       THEN Return(p, FULL)
       ELSE Goto(p, "putCount") /\ UNCHANGED res
  /\ UNCHANGED <<shared, bk, x, slot, history>>

\* puts = PUTS.load(), and FULL if puts >= size_k
PutCount(p) ==
  /\ pc[p] = "putCount"
  /\ IF PUTS[bk[p]] >= K
       THEN Return(p, FULL)
       ELSE Goto(p, "putFAI") /\ UNCHANGED res
  /\ UNCHANGED <<shared, bk, x, slot, history>>

\* puts = PUTS.fetch_add(1), and FULL if puts >= size_k
PutFAI(p) ==
  /\ pc[p] = "putFAI"
  /\ PUTS' = [PUTS EXCEPT ![bk[p]] = @ + 1]
  /\ IF PUTS[bk[p]] >= K
       THEN Return(p, FULL) /\ UNCHANGED slot
       ELSE /\ slot' = [slot EXCEPT ![p] = PUTS[bk[p]]]
            /\ Goto(p, "putSwap")
            /\ UNCHANGED res
  /\ UNCHANGED <<A, TAKES, State, bk, x, history>>

\* A[puts].exchange(x) == BOTTOM: the item is in.
PutStore(p) ==
  /\ pc[p] = "putSwap"
  /\ A[bk[p]][slot[p]] = BOTTOM
  /\ A' = [A EXCEPT ![bk[p]][slot[p]] = x[p]]
  /\ stored' = stored \cup {x[p]}
  /\ Return(p, OK)
  /\ UNCHANGED <<PUTS, TAKES, State, bk, x, slot, removed, drained>>

\* Mutant of PutTooLate: the result of the exchange is ignored.
PutTooLateUnseen(p) ==
  /\ pc[p] = "putSwap"
  /\ A[bk[p]][slot[p]] # BOTTOM
  /\ A' = [A EXCEPT ![bk[p]][slot[p]] = x[p]]
  /\ stored' = stored \cup {x[p]}
  /\ Return(p, OK)
  /\ UNCHANGED <<PUTS, TAKES, State, bk, x, slot, removed, drained>>

\* The taker of the slot was there first; the exchange has overwritten its TOP.
PutTooLate(p) ==
  /\ pc[p] = "putSwap"
  /\ A[bk[p]][slot[p]] # BOTTOM
  /\ A' = [A EXCEPT ![bk[p]][slot[p]] = x[p]]
  /\ Goto(p, "putState")
  /\ UNCHANGED <<PUTS, TAKES, State, bk, x, slot, res, history>>
-----------------------------------------------------------------------------
\* take(): the call.
TakeCall(p, b) ==
  /\ pc[p] = "idle"
  /\ bk' = [bk EXCEPT ![p] = b]
  /\ Goto(p, "takeCount")
  /\ UNCHANGED <<shared, x, slot, res, history>>

\* takes = TAKES.load()
TakeCount(p) ==
  /\ pc[p] = "takeCount"
  /\ slot' = [slot EXCEPT ![p] = TAKES[bk[p]]]
  /\ Goto(p, "takeState")
  /\ UNCHANGED <<shared, bk, x, res, history>>

\* Mutant of TakeState: off by one.
TakeStateTooSoon(p) ==
  /\ pc[p] = "takeState"
  /\ IF State[bk[p]] = CLOSED \/ slot[p] >= K - 1
       THEN Return(p, BASKET_CLOSED) /\ drained' = drained \cup {bk[p]}
       ELSE Goto(p, "takeFAI") /\ UNCHANGED <<res, drained>>
  /\ UNCHANGED <<shared, bk, x, slot, stored, removed>>

\* STATE.load() == CLOSED or takes >= size_k
TakeState(p) ==
  /\ pc[p] = "takeState"
  /\ IF State[bk[p]] = CLOSED \/ slot[p] >= K
       THEN Return(p, BASKET_CLOSED) /\ drained' = drained \cup {bk[p]}
       ELSE Goto(p, "takeFAI") /\ UNCHANGED <<res, drained>>
  /\ UNCHANGED <<shared, bk, x, slot, stored, removed>>

\* takes = TAKES++
TakeFAI(p) ==
  /\ pc[p] = "takeFAI"
  /\ slot' = [slot EXCEPT ![p] = TAKES[bk[p]]]
  /\ TAKES' = [TAKES EXCEPT ![bk[p]] = @ + 1]
  /\ Goto(p, IF TAKES[bk[p]] >= K THEN "takeClose" ELSE "takeSwap")
  /\ UNCHANGED <<A, PUTS, State, bk, x, res, history>>

\* STATE.store(CLOSED)
TakeClose(p) ==
  /\ pc[p] = "takeClose"
  /\ State' = [State EXCEPT ![bk[p]] = CLOSED]
  /\ Return(p, BASKET_CLOSED)
  /\ drained' = drained \cup {bk[p]}
  /\ UNCHANGED <<A, PUTS, TAKES, bk, x, slot, stored, removed>>

\* x = A[takes].exchange(TOP) finds an item.
TakeItem(p) ==
  /\ pc[p] = "takeSwap"
  /\ A[bk[p]][slot[p]] # BOTTOM
  /\ A' = [A EXCEPT ![bk[p]][slot[p]] = TOP]
  /\ removed' = [removed EXCEPT ![A[bk[p]][slot[p]]] = @ + 1]
  /\ Return(p, A[bk[p]][slot[p]])
  /\ UNCHANGED <<PUTS, TAKES, State, bk, x, slot, stored, drained>>

\* Mutant of TakeTooEarly: no second try.
TakeNothing(p) ==
  /\ pc[p] = "takeSwap"
  /\ A[bk[p]][slot[p]] = BOTTOM
  /\ A' = [A EXCEPT ![bk[p]][slot[p]] = TOP]
  /\ Return(p, BOTTOM)
  /\ UNCHANGED <<PUTS, TAKES, State, bk, x, slot, history>>

\* It finds BOTTOM: the slot is lost to its put, and take tries the next one.
TakeTooEarly(p) ==
  /\ pc[p] = "takeSwap"
  /\ A[bk[p]][slot[p]] = BOTTOM
  /\ A' = [A EXCEPT ![bk[p]][slot[p]] = TOP]
  /\ Goto(p, "takeCount")
  /\ UNCHANGED <<PUTS, TAKES, State, bk, x, slot, res, history>>
-----------------------------------------------------------------------------
PutStep(p) == PutState(p) \/ PutCount(p) \/ PutFAI(p) \/ PutStore(p) \/ PutTooLate(p)

TakeStep(p) ==
  \/ TakeCount(p) \/ TakeState(p) \/ TakeFAI(p)
  \/ TakeClose(p) \/ TakeItem(p) \/ TakeTooEarly(p)

\* A call may be made with any item that is neither in a basket yet nor being
\* put: two enqueues of equal values are two items.
Fresh(v) == v \notin stored /\ \A q \in Procs : pc[q] \in PutPcs => x[q] # v

Call(p) ==
  \E b \in Baskets : TakeCall(p, b) \/ \E v \in Items : Fresh(v) /\ PutCall(p, b, v)

BasketNext == \E p \in Procs : Call(p) \/ PutStep(p) \/ TakeStep(p)

BasketSpec == BasketInit /\ [][BasketNext]_basketVars
-----------------------------------------------------------------------------
\* Type invariant.
TypeOK ==
  /\ A \in [Baskets -> [Slots -> Items \cup {BOTTOM, TOP}]]
  /\ PUTS \in [Baskets -> Nat]
  /\ TAKES \in [Baskets -> Nat]
  /\ State \in [Baskets -> {OPEN, CLOSED}]
  /\ pc \in [Procs -> PutPcs \cup TakePcs \cup {"idle"}]
  /\ bk \in [Procs -> Baskets]
  /\ x \in [Procs -> Items \cup {BOTTOM}]
  /\ slot \in [Procs -> Nat]
  /\ res \in [Procs -> Items \cup {OK, FULL, BASKET_CLOSED}]
  /\ stored \subseteq Items
  /\ removed \in [Items -> Nat]
  /\ drained \subseteq Baskets

\* Thread p is about to exchange slot s of basket b in its put, in its take.
HoldsPut(p, b, s) == pc[p] = "putSwap" /\ bk[p] = b /\ slot[p] = s
HoldsTake(p, b, s) == pc[p] = "takeSwap" /\ bk[p] = b /\ slot[p] = s

\* The slot was handed out to a take that has made its exchange.
Spent(b, s) == s < TAKES[b] /\ ~\E p \in Procs : HoldsTake(p, b, s)

\* The places where an item can still be taken from.
Places(v) == {t \in Baskets \X Slots : A[t[1]][t[2]] = v /\ ~Spent(t[1], t[2])}

\* An item whose put returned OK is in exactly one unspent slot until exactly
\* one take returns it; an item whose put has not (yet) found an empty slot, or
\* returned FULL, is nowhere a take could find it, also after the exchange of a
\* late put wrote it over a TOP.
NoLossNoDuplicate ==
  \A v \in Items :
    /\ removed[v] <= 1
    /\ IF v \in stored /\ removed[v] = 0
         THEN \E t \in Baskets \X Slots : Places(v) = {t}
         ELSE Places(v) = {}

\* Once a take has reported a basket closed, the queue moves its head past it:
\* whatever item is still in the basket, or gets in later, belongs to a take
\* that is already in progress.
ClosedLeavesNothing ==
  \A b \in drained, v \in stored, s \in Slots :
    <<b, s>> \in Places(v)
      => \E p \in Procs : HoldsTake(p, b, s)
=============================================================================
