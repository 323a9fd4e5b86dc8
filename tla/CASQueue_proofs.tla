--------------------------- MODULE CASQueue_proofs ---------------------------
(***************************************************************************)
(* The compare-and-swap baskets (NBasketCAS) neither lose nor duplicate an *)
(* item, and are closed only when empty for good.  CASQueue uses them as   *)
(* that assumes, so it holds of the queue; HEAD and TAIL leave no item     *)
(* behind; and TAIL passes a basket only for an item that was put in it,   *)
(* so that as many baskets as items are enough.  Over exact LL/IC objects  *)
(* the queue is linearizable.  All of it for every number of threads,      *)
(* items and baskets.                                                      *)
(***************************************************************************)
EXTENDS CASQueue, Sequences, FiniteSetTheorems, TLAPS

-----------------------------------------------------------------------------
(***************************************************************************)
(* The baskets: Spec is that of NBasketCAS.                                *)
(***************************************************************************)
\* What a slot can hold: an item only while nobody has taken it.
Content ==
  \A b \in Baskets, s \in Slots :
    A[b][s] \in Items => A[b][s] \in stored /\ removed[A[b][s]] = 0

\* The items being put are not in a basket, and no two threads put the same one.
Putting ==
  \A p \in Procs : pc[p] \in PutPcs =>
    /\ x[p] \in Items \ stored
    /\ \A q \in Procs : pc[q] \in PutPcs /\ x[p] = x[q] => p = q

\* An item that is in has a place and only one.
Placed ==
  /\ \A v \in Items :
       /\ removed[v] <= 1
       /\ v \notin stored => removed[v] = 0
       /\ v \in stored /\ removed[v] = 0 => \E b \in Baskets, s \in Slots : A[b][s] = v
  /\ \A b, c \in Baskets, s, t \in Slots :
       A[b][s] \in Items /\ A[b][s] = A[c][t] => b = c /\ s = t

\* What thread p has achieved in its sweep of basket bk[p]: the slots it has
\* passed are TOP; the slot of a second try is not BOTTOM any more; and an item
\* loaded for the CAS is still there or the slot is TOP.
Sweep(p) ==
  /\ pc[p] \in TakePcs =>
       \A c \in p .. pos[p] - 1 : A[bk[p]][SlotAt(c)] = TOP
  /\ pc[p] \in {"takeLoad", "takeCas"} => pos[p] < p + N
  /\ pc[p] = "takeClose" => pos[p] = p + N
  /\ pc[p] \in {"takeLoad", "takeCas"} /\ again[p] => A[bk[p]][Slot(p)] # BOTTOM
  /\ pc[p] = "takeCas" =>
       /\ val[p] # TOP
       /\ val[p] # BOTTOM => A[bk[p]][Slot(p)] \in {val[p], TOP}
       /\ again[p] => val[p] # BOTTOM

Closing ==
  /\ \A b \in Baskets : State[b] = CLOSED => \A s \in Slots : A[b][s] = TOP
  /\ \A b \in drained : State[b] = CLOSED

\* The inductive invariant.
IInv ==
  /\ TypeOK /\ Content /\ Putting /\ Placed /\ Closing
  /\ \A p \in Procs : Sweep(p)
-----------------------------------------------------------------------------
\* A take at position c, no further than one turn, looks at a slot, and one turn
\* looks at all of them.
LEMMA Positions ==
  ASSUME NEW p \in Procs
  PROVE  /\ \A c \in p .. p + N - 1 : SlotAt(c) \in Slots
         /\ \A s \in Slots : \E c \in p .. p + N - 1 : SlotAt(c) = s
<1>0. N \in Nat /\ N > 0 /\ p \in Int /\ 0 <= p /\ p < N
  BY NAssumption DEF Procs
<1>1. ASSUME NEW c \in p .. p + N - 1 PROVE SlotAt(c) \in Slots
  BY <1>0 DEF SlotAt, Slots
<1>2. ASSUME NEW s \in Slots PROVE \E c \in p .. p + N - 1 : SlotAt(c) = s
  <2>0. s \in Int /\ 0 <= s /\ s < N
    BY <1>0 DEF Slots
  <2>1. CASE s >= p
    <3>1. s \in p .. p + N - 1 /\ SlotAt(s) = s
      BY <1>0, <2>0, <2>1 DEF SlotAt
    <3>. QED
      BY <3>1
  <2>2. CASE s < p
    <3>1. s + N \in p .. p + N - 1 /\ SlotAt(s + N) = s
      BY <1>0, <2>0, <2>2 DEF SlotAt
    <3>. QED
      BY <3>1
  <2>. QED
    BY <1>0, <2>0, <2>1, <2>2
<1>. QED
  BY <1>1, <1>2

LEMMA PositionRange ==
  ASSUME TypeOK, NEW p \in Procs
  PROVE  /\ bk[p] \in Baskets /\ pos[p] \in Nat /\ pos[p] <= p + N /\ p <= pos[p]
         /\ N \in Nat /\ p \in Int /\ 0 <= p
<1>1. bk[p] \in Baskets /\ pos[p] \in Nat /\ pos[p] <= p + N /\ p <= pos[p]
  BY DEF TypeOK
<1>2. N \in Nat /\ p \in Int /\ 0 <= p
  BY NAssumption DEF Procs
<1>. QED
  BY <1>1, <1>2

LEMMA InitIInv == BasketInit => IInv
<1>. SUFFICES ASSUME BasketInit PROVE IInv
  OBVIOUS
<1>. USE SentinelAssumption DEF BasketInit
<1>1. TypeOK
  BY BasketsAssumption, NAssumption DEF TypeOK, Procs
<1>2. Content /\ Putting /\ Placed /\ Closing
  BY DEF Content, Putting, Placed, Closing, PutPcs
<1>3. \A p \in Procs : Sweep(p)
  BY DEF Sweep, TakePcs
<1>. QED
  BY <1>1, <1>2, <1>3 DEF IInv

\* Nothing a slot goes through undoes a sweep: BOTTOM gives way to an item or
\* TOP, an item to TOP, and TOP stays.
SlotsAdvance ==
  \A b \in Baskets, s \in Slots :
    /\ A[b][s] # BOTTOM => A'[b][s] \in {A[b][s], TOP}

LEMMA OthersSweep ==
  ASSUME NEW q \in Procs, TypeOK, Sweep(q), SlotsAdvance,
         pc'[q] = pc[q], bk'[q] = bk[q], pos'[q] = pos[q],
         val'[q] = val[q], again'[q] = again[q]
  PROVE  Sweep(q)'
<1>. USE SentinelAssumption
<1>0. /\ bk[q] \in Baskets /\ pos[q] \in Nat /\ pos[q] <= q + N /\ q <= pos[q]
      /\ N \in Nat /\ q \in Int /\ 0 <= q
  BY PositionRange
<1>1. \A c \in q .. pos[q] - 1 : SlotAt(c) \in Slots
  BY <1>0, Positions
<1>2. pos[q] < q + N => Slot(q) \in Slots
  BY <1>0, Positions DEF Slot
<1>3. Slot(q)' = Slot(q)
  BY DEF Slot, SlotAt
<1>4. pc[q] \in TakePcs => \A c \in q .. pos[q] - 1 : A'[bk[q]][SlotAt(c)] = TOP
  BY <1>0, <1>1 DEF Sweep, SlotsAdvance
<1>5. pc[q] \in {"takeLoad", "takeCas"} /\ again[q] => A'[bk[q]][Slot(q)] # BOTTOM
  BY <1>0, <1>2 DEF Sweep, SlotsAdvance
<1>6. pc[q] = "takeCas" /\ val[q] # BOTTOM => A'[bk[q]][Slot(q)] \in {val[q], TOP}
  BY <1>0, <1>2 DEF Sweep, SlotsAdvance
<1>. QED
  BY <1>3, <1>4, <1>5, <1>6 DEF Sweep

-----------------------------------------------------------------------------
\* The steps of put that do not write, and both calls.
QuietStep(p) ==
  \/ \E b \in Baskets, v \in Items : Fresh(v) /\ PutCall(p, b, v)
  \/ \E b \in Baskets : TakeCall(p, b)
  \/ PutState(p) \/ PutLoad(p) \/ PutTooLate(p)

LEMMA QuietIInv == ASSUME IInv, NEW p \in Procs, QuietStep(p) PROVE IInv'
<1>. USE SentinelAssumption
<1>0. /\ TypeOK /\ Content /\ Putting /\ Placed /\ Closing
      /\ N \in Nat /\ p \in Int /\ 0 <= p /\ \A q \in Procs : Sweep(q)
  BY PositionRange DEF IInv
<1>1. TypeOK'
  <2>. USE <1>0 DEF TypeOK, PutPcs, TakePcs, Goto, Return, shared, history
  <2>1. CASE PutState(p) \/ PutLoad(p)
    BY <2>1 DEF PutState, PutLoad
  <2>2. CASE PutTooLate(p)
    BY <2>2 DEF PutTooLate
  <2>3. ASSUME NEW b \in Baskets, NEW v \in Items, PutCall(p, b, v) PROVE TypeOK'
    BY <2>3 DEF PutCall
  <2>4. ASSUME NEW b \in Baskets, TakeCall(p, b) PROVE TypeOK'
    <3>1. pos' \in [Procs -> Nat] /\ \A q \in Procs : q <= pos'[q] /\ pos'[q] <= q + N
      BY <2>4 DEF TakeCall
    <3>. QED
      BY <2>4, <3>1 DEF TakeCall
  <2>. QED
    BY <2>1, <2>2, <2>3, <2>4 DEF QuietStep
<1>2. /\ UNCHANGED <<shared, history>>
      /\ \A q \in Procs \ {p} : /\ pc'[q] = pc[q] /\ bk'[q] = bk[q] /\ x'[q] = x[q]
                               /\ pos'[q] = pos[q] /\ val'[q] = val[q] /\ again'[q] = again[q]
      /\ pc'[p] \in PutPcs \cup {"idle", "takeState"}
      /\ pc'[p] = "takeState" => pos'[p] = p
  BY <1>0 DEF QuietStep, TypeOK, Goto, Return, PutPcs,
     PutCall, PutState, PutLoad, PutTooLate, TakeCall
<1>3. Content' /\ Placed' /\ Closing'
  BY <1>0, <1>2 DEF Content, Placed, Closing, shared, history
<1>4. Putting'
  <2>1. pc'[p] \in PutPcs => \/ pc[p] \in PutPcs /\ x'[p] = x[p]
                             \/ x'[p] \in Items /\ Fresh(x'[p])
    BY <1>0 DEF QuietStep, TypeOK, Goto, Return, PutPcs,
       PutCall, PutState, PutLoad, PutTooLate, TakeCall
  <2>. QED
    BY <1>0, <1>2, <2>1 DEF Putting, Fresh, history
<1>5. ASSUME NEW q \in Procs PROVE Sweep(q)'
  <2>1. CASE q = p
    BY <2>1, <1>0, <1>2 DEF Sweep, PutPcs, TakePcs
  <2>2. CASE q # p
    BY <2>2, <1>0, <1>2, OthersSweep DEF shared, SlotsAdvance
  <2>. QED
    BY <2>1, <2>2
<1>. QED
  BY <1>1, <1>3, <1>4, <1>5 DEF IInv

LEMMA PutStoreIInv == ASSUME IInv, NEW p \in Procs, PutStore(p) PROVE IInv'
<1>. USE SentinelAssumption
<1>. DEFINE B == bk[p]
<1>0. /\ TypeOK /\ Content /\ Putting /\ Placed /\ Closing
      /\ B \in Baskets /\ p \in Slots /\ pc[p] = "putCas" /\ A[B][p] = BOTTOM
      /\ x[p] \in Items \ stored /\ \A q \in Procs : Sweep(q)
  BY DEF IInv, TypeOK, PutStore, Putting, PutPcs, Slots, Procs
<1>1. /\ UNCHANGED <<State, bk, x, pos, val, again, removed, drained>>
      /\ stored' = stored \cup {x[p]}
      /\ pc'[p] = "idle" /\ \A q \in Procs \ {p} : pc'[q] = pc[q]
      /\ A'[B][p] = x[p]
      /\ \A b \in Baskets, s \in Slots : b # B \/ s # p => A'[b][s] = A[b][s]
  BY <1>0 DEF PutStore, TypeOK, Return
<1>2. TypeOK'
  <2>1. A' \in [Baskets -> [Slots -> Items \cup {BOTTOM, TOP}]]
    BY <1>0 DEF PutStore, TypeOK
  <2>. QED
    BY <1>0, <1>1, <2>1 DEF PutStore, TypeOK, Return
<1>3. Content'
  BY <1>0, <1>1 DEF Content, Placed
<1>4. Placed'
  <2>1. ASSUME NEW v \in Items
        PROVE  /\ removed'[v] <= 1
               /\ v \notin stored' => removed'[v] = 0
               /\ v \in stored' /\ removed'[v] = 0 => \E b \in Baskets, s \in Slots : A'[b][s] = v
    <3>1. CASE v = x[p]
      BY <3>1, <1>0, <1>1 DEF Placed
    <3>2. CASE v # x[p]
      BY <3>2, <1>0, <1>1 DEF Placed
    <3>. QED
      BY <3>1, <3>2
  <2>2. \A b \in Baskets, s \in Slots : A[b][s] # x[p]
    BY <1>0 DEF Content
  <2>3. \A b, c \in Baskets, s, t \in Slots :
          A'[b][s] \in Items /\ A'[b][s] = A'[c][t] => b = c /\ s = t
    BY <2>2, <1>0, <1>1 DEF Placed
  <2>. QED
    BY <2>1, <2>3 DEF Placed
<1>5. Putting'
  BY <1>0, <1>1 DEF Putting, PutPcs
<1>6. Closing'
  BY <1>0, <1>1 DEF Closing
<1>7. ASSUME NEW q \in Procs PROVE Sweep(q)'
  <2>1. CASE q = p
    BY <2>1, <1>1 DEF Sweep, TakePcs
  <2>2. CASE q # p
    <3>1. SlotsAdvance
      BY <1>0, <1>1 DEF SlotsAdvance
    <3>. QED
      BY <3>1, <2>2, <1>0, <1>1, OthersSweep
  <2>. QED
    BY <2>1, <2>2
<1>. QED
  BY <1>2, <1>3, <1>4, <1>5, <1>6, <1>7 DEF IInv
-----------------------------------------------------------------------------
\* Steps of a take that write no slot: it is enough to look at the sweep of the
\* thread itself.
LEMMA SweepStep ==
  ASSUME IInv, NEW p \in Procs, UNCHANGED <<A, bk, x, stored, removed>>,
         pc[p] \in TakePcs, pc'[p] \in TakePcs \cup {"idle"},
         \A q \in Procs \ {p} : /\ pc'[q] = pc[q] /\ pos'[q] = pos[q]
                                /\ val'[q] = val[q] /\ again'[q] = again[q],
         TypeOK', Closing', Sweep(p)'
  PROVE  IInv'
<1>1. Content' /\ Placed'
  BY DEF IInv, Content, Placed
<1>2. Putting'
  BY DEF IInv, Putting, PutPcs, TakePcs
<1>3. ASSUME NEW q \in Procs PROVE Sweep(q)'
  <2>1. CASE q = p
    BY <2>1
  <2>2. CASE q # p
    BY <2>2, OthersSweep DEF IInv, SlotsAdvance
  <2>. QED
    BY <2>1, <2>2
<1>. QED
  BY <1>1, <1>2, <1>3 DEF IInv

LEMMA TakeStateIInv == ASSUME IInv, NEW p \in Procs, TakeState(p) PROVE IInv'
<1>. USE SentinelAssumption
<1>0. TypeOK /\ Closing /\ Sweep(p) /\ pc[p] = "takeState"
  BY DEF IInv, TakeState
<1>1. bk[p] \in Baskets /\ pos[p] \in Nat /\ pos[p] <= p + N /\ N \in Nat /\ p \in Int
  BY <1>0, PositionRange
<1>2. /\ UNCHANGED <<A, State, bk, x, pos, val, stored, removed>>
      /\ again'[p] = FALSE
      /\ pc'[p] \in {"idle", "takeClose", "takeLoad"}
      /\ pc'[p] = "takeClose" => pos[p] = p + N
      /\ pc'[p] = "takeLoad" => pos[p] # p + N
      /\ \A q \in Procs \ {p} : pc'[q] = pc[q] /\ again'[q] = again[q]
  BY <1>0 DEF TakeState, TypeOK, Goto, Return, shared
<1>3. TypeOK'
  <2>1. pc' \in [Procs -> PutPcs \cup TakePcs \cup {"idle"}]
    BY <1>0 DEF TakeState, TypeOK, Goto, Return, TakePcs
  <2>2. res' \in [Procs -> Items \cup {OK, FULL, BASKET_CLOSED}] /\ drained' \subseteq Baskets
    BY <1>0, <1>1 DEF TakeState, TypeOK, Return
  <2>3. again' \in [Procs -> BOOLEAN]
    BY <1>0 DEF TakeState, TypeOK
  <2>. QED
    BY <2>1, <2>2, <2>3, <1>0, <1>2 DEF TypeOK
<1>4. Closing'
  BY <1>0, <1>2 DEF Closing, TakeState
<1>5. Sweep(p)'
  BY <1>0, <1>1, <1>2 DEF Sweep, TakePcs
<1>. QED
  BY <1>0, <1>2, <1>3, <1>4, <1>5, SweepStep DEF TakePcs

\* The store of CLOSED: the sweep has passed every slot.
LEMMA TakeCloseIInv == ASSUME IInv, NEW p \in Procs, TakeClose(p) PROVE IInv'
<1>. USE SentinelAssumption
<1>0. TypeOK /\ Closing /\ Sweep(p) /\ pc[p] = "takeClose"
  BY DEF IInv, TakeClose
<1>1. /\ bk[p] \in Baskets /\ pos[p] = p + N /\ N \in Nat /\ p \in Int
      /\ \A c \in p .. p + N - 1 : A[bk[p]][SlotAt(c)] = TOP
  BY <1>0, PositionRange DEF Sweep, TakePcs
<1>2. \A s \in Slots : A[bk[p]][s] = TOP
  BY <1>1, Positions
<1>3. /\ UNCHANGED <<A, bk, x, pos, val, again, res, history>>
      /\ State'[bk[p]] = CLOSED /\ \A b \in Baskets \ {bk[p]} : State'[b] = State[b]
      /\ pc'[p] = "takeState" /\ \A q \in Procs \ {p} : pc'[q] = pc[q]
  BY <1>0, <1>1 DEF TakeClose, TypeOK, Goto
<1>4. TypeOK'
  <2>1. /\ State' \in [Baskets -> {OPEN, CLOSED}]
        /\ pc' \in [Procs -> PutPcs \cup TakePcs \cup {"idle"}]
    BY <1>0 DEF TakeClose, TypeOK, Goto, TakePcs
  <2>. QED
    BY <2>1, <1>0, <1>3 DEF TypeOK, history
<1>5. Closing'
  BY <1>0, <1>2, <1>3 DEF Closing, history, TypeOK
<1>6. Sweep(p)'
  BY <1>0, <1>3 DEF Sweep, TakePcs
<1>. QED
  BY <1>0, <1>3, <1>4, <1>5, <1>6, SweepStep DEF TakePcs, history

\* compete gives a slot up that is TOP: the sweep has passed one slot more.
LEMMA PassSlot ==
  ASSUME TypeOK, NEW p \in Procs, Sweep(p), pc[p] \in {"takeLoad", "takeCas"},
         bk' = bk, \A c \in p .. pos[p] - 1 : A'[bk[p]][SlotAt(c)] = TOP,
         A'[bk[p]][Slot(p)] = TOP,
         NextSlot(p)
  PROVE  /\ Sweep(p)'
         /\ pos' \in [Procs -> Nat]
         /\ \A q \in Procs : q <= pos'[q] /\ pos'[q] <= q + N
         /\ pc' \in [Procs -> PutPcs \cup TakePcs \cup {"idle"}]
         /\ pc'[p] = "takeState"
         /\ \A q \in Procs \ {p} : pc'[q] = pc[q] /\ pos'[q] = pos[q]
<1>1. /\ bk[p] \in Baskets /\ pos[p] \in Nat /\ pos[p] < p + N /\ p <= pos[p]
      /\ N \in Nat /\ p \in Int /\ 0 <= p
  BY PositionRange DEF Sweep
<1>2. /\ pos'[p] = pos[p] + 1 /\ pc'[p] = "takeState"
      /\ \A q \in Procs \ {p} : pc'[q] = pc[q] /\ pos'[q] = pos[q]
  BY DEF NextSlot, Goto, TypeOK
<1>3. pos' \in [Procs -> Nat] /\ pc' \in [Procs -> PutPcs \cup TakePcs \cup {"idle"}]
  BY <1>1 DEF NextSlot, Goto, TypeOK, TakePcs
<1>4. \A q \in Procs : q <= pos'[q] /\ pos'[q] <= q + N
  BY <1>1, <1>2 DEF TypeOK
<1>5. \A c \in p .. pos'[p] - 1 : A'[bk'[p]][SlotAt(c)] = TOP
  <2>. SUFFICES ASSUME NEW c \in p .. pos[p] PROVE A'[bk[p]][SlotAt(c)] = TOP
    BY <1>1, <1>2
  <2>1. c \in p .. pos[p] - 1 \/ c = pos[p]
    BY <1>1
  <2>. QED
    BY <2>1 DEF Slot
<1>6. Sweep(p)'
  BY <1>2, <1>5 DEF Sweep
<1>. QED
  BY <1>2, <1>3, <1>4, <1>6

LEMMA TakeLoadIInv == ASSUME IInv, NEW p \in Procs, TakeLoad(p) PROVE IInv'
<1>. USE SentinelAssumption
<1>0. TypeOK /\ Closing /\ Sweep(p) /\ pc[p] = "takeLoad"
  BY DEF IInv, TakeLoad
<1>1. bk[p] \in Baskets /\ pos[p] \in Nat /\ pos[p] < p + N /\ p <= pos[p] /\ Slot(p) \in Slots
  BY <1>0, PositionRange, Positions DEF Sweep, Slot
<1>. DEFINE v == A[bk[p]][Slot(p)]
<1>2. /\ UNCHANGED <<A, State, bk, x, res, history>>
      /\ val'[p] = v /\ v \in Items \cup {BOTTOM, TOP}
      /\ val' \in [Procs -> Items \cup {BOTTOM, TOP}]
      /\ \A q \in Procs \ {p} : val'[q] = val[q]
  BY <1>0, <1>1 DEF TakeLoad, TypeOK, shared
<1>3. Closing'
  BY <1>0, <1>2 DEF Closing, history
<1>4. CASE v = TOP
  <2>1. NextSlot(p)
    BY <1>2, <1>4 DEF TakeLoad
  <2>2. /\ Sweep(p)' /\ pos' \in [Procs -> Nat]
        /\ \A q \in Procs : q <= pos'[q] /\ pos'[q] <= q + N
        /\ pc' \in [Procs -> PutPcs \cup TakePcs \cup {"idle"}]
        /\ pc'[p] = "takeState"
        /\ \A q \in Procs \ {p} : pc'[q] = pc[q] /\ pos'[q] = pos[q]
    BY <2>1, <1>0, <1>2, <1>4, PassSlot DEF Sweep, TakePcs
  <2>3. again' = again
    BY <2>1 DEF NextSlot
  <2>4. TypeOK'
    BY <2>2, <2>3, <1>0, <1>2 DEF TypeOK, history
  <2>. QED
    BY <2>2, <2>3, <2>4, <1>0, <1>2, <1>3, SweepStep DEF TakePcs, history
<1>5. CASE v # TOP
  <2>1. /\ pc' = [pc EXCEPT ![p] = "takeCas"] /\ pos' = pos /\ again' = again
    BY <1>2, <1>5 DEF TakeLoad, Goto
  <2>2. TypeOK'
    BY <2>1, <1>0, <1>2 DEF TypeOK, TakePcs, history
  <2>3. /\ pc'[p] = "takeCas" /\ \A q \in Procs \ {p} : pc'[q] = pc[q]
    BY <2>1, <1>0 DEF TypeOK
  <2>4. Slot(p)' = Slot(p)
    BY <2>1 DEF Slot, SlotAt
  <2>5. Sweep(p)'
    BY <2>1, <2>3, <2>4, <1>0, <1>1, <1>2, <1>5 DEF Sweep, TakePcs
  <2>. QED
    BY <2>1, <2>2, <2>3, <2>5, <1>0, <1>2, <1>3, SweepStep DEF TakePcs, history
<1>. QED
  BY <1>4, <1>5

\* What the two CASes of compete that return no item leave behind: the slot is
\* not BOTTOM, and TOP after the second try.
LEMMA TakeRetryIInv ==
  ASSUME IInv, NEW p \in Procs, pc[p] = "takeCas", Retry(p),
         UNCHANGED <<State, bk, x, val, res, history>>,
         A' \in [Baskets -> [Slots -> Items \cup {BOTTOM, TOP}]],
         \A b \in Baskets, s \in Slots : A[b][s] # BOTTOM => A'[b][s] = A[b][s],
         \A b \in Baskets, s \in Slots : A[b][s] = BOTTOM => A'[b][s] \in {BOTTOM, TOP},
         A'[bk[p]][Slot(p)] # BOTTOM,
         again[p] => A'[bk[p]][Slot(p)] = TOP
  PROVE  IInv'
<1>. USE SentinelAssumption
<1>0. TypeOK /\ Content /\ Placed /\ Putting /\ Closing /\ Sweep(p)
  BY DEF IInv
<1>1. /\ bk[p] \in Baskets /\ pos[p] \in Nat /\ pos[p] < p + N /\ p <= pos[p]
      /\ p \in Int /\ N \in Nat
      /\ \A c \in p .. pos[p] - 1 : SlotAt(c) \in Slots
  BY <1>0, PositionRange, Positions DEF Sweep
<1>2. \A c \in p .. pos[p] - 1 : A'[bk[p]][SlotAt(c)] = TOP
  BY <1>0, <1>1 DEF Sweep, TakePcs
<1>3. Content' /\ Placed'
  <2>1. \A b \in Baskets, s \in Slots :
          A'[b][s] \in Items \/ A[b][s] \in Items => A'[b][s] = A[b][s]
    BY <1>0 DEF TypeOK
  <2>. QED
    BY <2>1, <1>0 DEF Content, Placed, history
<1>4. Closing'
  BY <1>0 DEF Closing, history, TypeOK
<1>5. /\ pc' \in [Procs -> PutPcs \cup TakePcs \cup {"idle"}] /\ pc'[p] \in TakePcs
      /\ pos' \in [Procs -> Nat] /\ again' \in [Procs -> BOOLEAN]
      /\ \A q \in Procs : q <= pos'[q] /\ pos'[q] <= q + N
      /\ \A q \in Procs \ {p} : pc'[q] = pc[q] /\ pos'[q] = pos[q] /\ again'[q] = again[q]
      /\ Sweep(p)'
  <2>1. CASE again[p]
    <3>1. NextSlot(p)
      BY <2>1 DEF Retry
    <3>2. again' = again
      BY <3>1 DEF NextSlot
    <3>. QED
      BY <2>1, <3>1, <3>2, <1>0, <1>2, PassSlot DEF TypeOK, TakePcs
  <2>2. CASE ~again[p]
    <3>1. /\ pc' = [pc EXCEPT ![p] = "takeLoad"] /\ pos' = pos
          /\ again' = [again EXCEPT ![p] = TRUE]
      BY <2>2 DEF Retry, Goto
    <3>2. Slot(p)' = Slot(p)
      BY <3>1 DEF Slot, SlotAt
    <3>3. pc'[p] = "takeLoad"
      BY <3>1, <1>0 DEF TypeOK
    <3>4. Sweep(p)'
      BY <3>1, <3>2, <3>3, <1>1, <1>2 DEF Sweep
    <3>. QED
      BY <3>1, <3>4, <1>0 DEF TypeOK, TakePcs
  <2>. QED
    BY <2>1, <2>2
<1>6. TypeOK'
  BY <1>0, <1>5 DEF TypeOK, history
<1>7. Putting'
  BY <1>0, <1>5 DEF Putting, history, PutPcs, TakePcs
<1>8. ASSUME NEW q \in Procs PROVE Sweep(q)'
  <2>1. CASE q = p
    BY <2>1, <1>5
  <2>2. CASE q # p
    <3>1. SlotsAdvance
      BY DEF SlotsAdvance
    <3>. QED
      BY <3>1, <2>2, <1>5, OthersSweep DEF IInv
  <2>. QED
    BY <2>1, <2>2
<1>. QED
  BY <1>3, <1>4, <1>6, <1>7, <1>8 DEF IInv

LEMMA TakeEmptyIInv == ASSUME IInv, NEW p \in Procs, TakeEmpty(p) PROVE IInv'
<1>. USE SentinelAssumption
<1>0. TypeOK /\ Sweep(p) /\ pc[p] = "takeCas" /\ A[bk[p]][Slot(p)] = BOTTOM
  BY DEF IInv, TakeEmpty
<1>1. bk[p] \in Baskets /\ Slot(p) \in Slots
  BY <1>0, PositionRange, Positions DEF Sweep, Slot
<1>2. /\ A' = [A EXCEPT ![bk[p]][Slot(p)] = TOP] /\ Retry(p)
      /\ UNCHANGED <<State, bk, x, val, res, history>>
  BY DEF TakeEmpty
<1>3. /\ A' \in [Baskets -> [Slots -> Items \cup {BOTTOM, TOP}]]
      /\ \A b \in Baskets, s \in Slots : A[b][s] # BOTTOM => A'[b][s] = A[b][s]
      /\ \A b \in Baskets, s \in Slots : A[b][s] = BOTTOM => A'[b][s] \in {BOTTOM, TOP}
      /\ A'[bk[p]][Slot(p)] = TOP
  BY <1>0, <1>1, <1>2 DEF TypeOK
<1>. QED
  BY <1>0, <1>2, <1>3, TakeRetryIInv

LEMMA TakeLostIInv == ASSUME IInv, NEW p \in Procs, TakeLost(p) PROVE IInv'
<1>. USE SentinelAssumption
<1>0. TypeOK /\ Sweep(p) /\ pc[p] = "takeCas" /\ A[bk[p]][Slot(p)] # val[p]
  BY DEF IInv, TakeLost
<1>1. bk[p] \in Baskets /\ Slot(p) \in Slots
  BY <1>0, PositionRange, Positions DEF Sweep, Slot
<1>2. A' = A /\ Retry(p) /\ UNCHANGED <<State, bk, x, val, res, history>>
  BY DEF TakeLost, shared
\* An item that is gone has left TOP; an empty slot that has changed is not empty.
<1>3. A[bk[p]][Slot(p)] # BOTTOM /\ (again[p] => A[bk[p]][Slot(p)] = TOP)
  BY <1>0 DEF Sweep
<1>4. \A b \in Baskets, s \in Slots : A'[b][s] = A[b][s]
  BY <1>2
<1>5. A' \in [Baskets -> [Slots -> Items \cup {BOTTOM, TOP}]]
  BY <1>0, <1>2 DEF TypeOK
<1>. QED
  BY <1>0, <1>1, <1>2, <1>3, <1>4, <1>5, TakeRetryIInv

\* The CAS that takes an item: it was the item's only place.
LEMMA TakeItemIInv == ASSUME IInv, NEW p \in Procs, TakeItem(p) PROVE IInv'
<1>. USE SentinelAssumption
<1>. DEFINE B == bk[p]  S == Slot(p)  v == val[p]
<1>0. /\ TypeOK /\ Content /\ Placed /\ Putting /\ Closing /\ Sweep(p)
      /\ pc[p] = "takeCas" /\ A[B][S] = v /\ v \in Items
  BY DEF IInv, TakeItem, TypeOK, Sweep
<1>1. B \in Baskets /\ S \in Slots
  BY <1>0, PositionRange, Positions DEF Sweep, Slot
<1>2. v \in stored /\ removed[v] = 0
  BY <1>0, <1>1 DEF Content
<1>3. /\ UNCHANGED <<State, bk, x, pos, val, again, stored, drained>>
      /\ removed'[v] = 1 /\ \A w \in Items \ {v} : removed'[w] = removed[w]
      /\ pc'[p] = "idle" /\ \A q \in Procs \ {p} : pc'[q] = pc[q]
  BY <1>0, <1>2 DEF TakeItem, TypeOK, Return
<1>4. /\ A' \in [Baskets -> [Slots -> Items \cup {BOTTOM, TOP}]]
      /\ A'[B][S] = TOP
      /\ \A b \in Baskets, s \in Slots : b # B \/ s # S => A'[b][s] = A[b][s]
  BY <1>0, <1>1 DEF TakeItem, TypeOK
<1>5. TypeOK'
  <2>1. /\ removed' \in [Items -> Nat]
        /\ pc' \in [Procs -> PutPcs \cup TakePcs \cup {"idle"}]
        /\ res' \in [Procs -> Items \cup {OK, FULL, BASKET_CLOSED}]
    BY <1>0 DEF TakeItem, TypeOK, Return
  <2>. QED
    BY <2>1, <1>0, <1>3, <1>4 DEF TypeOK
<1>6. \A b \in Baskets, s \in Slots : A'[b][s] \in Items => A'[b][s] = A[b][s] /\ A'[b][s] # v
  BY <1>0, <1>1, <1>4 DEF Placed
<1>7. Content'
  BY <1>0, <1>3, <1>6 DEF Content
<1>8. Placed'
  <2>1. ASSUME NEW w \in Items
        PROVE  /\ removed'[w] <= 1
               /\ w \notin stored' => removed'[w] = 0
               /\ w \in stored' /\ removed'[w] = 0 => \E b \in Baskets, s \in Slots : A'[b][s] = w
    <3>1. CASE w = v
      BY <3>1, <1>2, <1>3
    <3>2. CASE w # v
      BY <3>2, <1>0, <1>3, <1>4 DEF Placed
    <3>. QED
      BY <3>1, <3>2
  <2>2. \A b, c \in Baskets, s, t \in Slots :
          A'[b][s] \in Items /\ A'[b][s] = A'[c][t] => b = c /\ s = t
    BY <1>0, <1>6 DEF Placed
  <2>. QED
    BY <2>1, <2>2 DEF Placed
<1>9. Putting'
  BY <1>0, <1>3 DEF Putting, PutPcs
<1>10. Closing'
  BY <1>0, <1>3, <1>4 DEF Closing
<1>11. ASSUME NEW q \in Procs PROVE Sweep(q)'
  <2>1. CASE q = p
    BY <2>1, <1>3 DEF Sweep, TakePcs
  <2>2. CASE q # p
    <3>1. SlotsAdvance
      BY <1>4 DEF SlotsAdvance
    <3>. QED
      BY <3>1, <2>2, <1>3, OthersSweep DEF IInv
  <2>. QED
    BY <2>1, <2>2
<1>. QED
  BY <1>5, <1>7, <1>8, <1>9, <1>10, <1>11 DEF IInv
-----------------------------------------------------------------------------
LEMMA NextIInv == IInv /\ [BasketNext]_basketVars => IInv'
<1>. SUFFICES ASSUME IInv, [BasketNext]_basketVars PROVE IInv'
  OBVIOUS
<1>1. ASSUME NEW p \in Procs, QuietStep(p) PROVE IInv'
  BY <1>1, QuietIInv
<1>2. ASSUME NEW p \in Procs, PutStore(p) PROVE IInv'
  BY <1>2, PutStoreIInv
<1>3. ASSUME NEW p \in Procs, TakeState(p) PROVE IInv'
  BY <1>3, TakeStateIInv
<1>4. ASSUME NEW p \in Procs, TakeClose(p) PROVE IInv'
  BY <1>4, TakeCloseIInv
<1>5. ASSUME NEW p \in Procs, TakeLoad(p) PROVE IInv'
  BY <1>5, TakeLoadIInv
<1>6. ASSUME NEW p \in Procs, TakeItem(p) PROVE IInv'
  BY <1>6, TakeItemIInv
<1>7. ASSUME NEW p \in Procs, TakeEmpty(p) PROVE IInv'
  BY <1>7, TakeEmptyIInv
<1>8. ASSUME NEW p \in Procs, TakeLost(p) PROVE IInv'
  BY <1>8, TakeLostIInv
<1>9. CASE UNCHANGED basketVars
  <2>. USE <1>9 DEF basketVars, shared, local, history
  <2>1. TypeOK' /\ Content' /\ Putting' /\ Placed' /\ Closing'
    BY DEF IInv, TypeOK, Content, Putting, Placed, Closing
  <2>2. \A p \in Procs : Sweep(p)'
    BY DEF IInv, Sweep, Slot, SlotAt
  <2>. QED
    BY <2>1, <2>2 DEF IInv
<1>. QED
  BY <1>1, <1>2, <1>3, <1>4, <1>5, <1>6, <1>7, <1>8, <1>9
  DEF BasketNext, Call, PutStep, TakeStep, QuietStep

LEMMA Invariance == BasketSpec => []IInv
BY InitIInv, NextIInv, PTL DEF BasketSpec

\* Type correctness of the baskets (kbasket.cpp 79-194).
THEOREM TypeCorrect == BasketSpec => []TypeOK
<1>1. IInv => TypeOK
  BY DEF IInv
<1>. QED
  BY <1>1, Invariance, PTL

\* For every number of threads, baskets and items: an item whose put returned OK
\* is in one slot until one take returns it, and an item whose put did not
\* succeed is in none (kbasket.cpp 101-123 and 171-194).
THEOREM ItemsConserved == BasketSpec => []NoLossNoDuplicate
<1>1. IInv => NoLossNoDuplicate
  <2>. SUFFICES ASSUME IInv, NEW v \in Items
                PROVE  /\ removed[v] <= 1
                       /\ IF v \in stored /\ removed[v] = 0
                            THEN \E t \in Baskets \X Slots : Places(v) = {t}
                            ELSE Places(v) = {}
    BY DEF NoLossNoDuplicate
  <2>0. Content /\ Placed /\ removed[v] <= 1
    BY DEF IInv, Placed
  <2>1. CASE v \in stored /\ removed[v] = 0
    <3>1. PICK b \in Baskets, s \in Slots : A[b][s] = v
      BY <2>0, <2>1 DEF Placed
    <3>2. Places(v) = {<<b, s>>}
      BY <2>0, <3>1 DEF Places, Placed
    <3>3. <<b, s>> \in Baskets \X Slots
      OBVIOUS
    <3>. QED
      BY <2>0, <2>1, <3>2, <3>3
  <2>2. CASE ~(v \in stored /\ removed[v] = 0)
    BY <2>0, <2>2 DEF Places, Content
  <2>. QED
    BY <2>1, <2>2
<1>. QED
  BY <1>1, Invariance, PTL

\* Two tries per slot are enough: when a basket is marked closed, or a take has
\* reported it closed, every slot is TOP, so nothing is left in it and no put
\* can succeed in it any more (kbasket.cpp 175-191).
THEOREM ClosedBasketIsEmpty == BasketSpec => []ClosedIsEmpty
<1>1. IInv => ClosedIsEmpty
  BY DEF IInv, Closing, ClosedIsEmpty
<1>. QED
  BY <1>1, Invariance, PTL
-----------------------------------------------------------------------------
(***************************************************************************)
(* The queue.                                                              *)
(***************************************************************************)
\* A thread inside put or take is there for its enqueue or its dequeue.
Calling ==
  \A p \in Procs :
    /\ pc[p] \in PutPcs => qpc[p] = "enqPut" /\ x[p] = arg[p] /\ bk[p] = tail[p]
    /\ pc[p] \in TakePcs => qpc[p] = "deqTake" /\ bk[p] = head[p]

\* Pending enqueues have different items, stored only when the put is over.
Enqueuing ==
  /\ stored \subseteq used
  /\ \A p \in Procs : qpc[p] \in EnqPcs =>
       /\ arg[p] \in used
       /\ arg[p] \in stored => qpc[p] = "enqPut" /\ pc[p] = "idle" /\ res[p] = OK
       /\ \A q \in Procs : qpc[q] \in EnqPcs /\ arg[p] = arg[q] => p = q

\* The indices in use are those of baskets, and TAIL does not go back.
Bounded ==
  \A p \in Procs :
    /\ qpc[p] = "enqPut" => tail[p] < Capacity /\ tail[p] <= TAIL
    /\ qpc[p] = "deqTake" => head[p] < Capacity

\* HEAD has only passed baskets that a take has reported closed.
Passed ==
  /\ \A b \in Baskets : b < HEAD => b \in drained
  /\ \A p \in Procs :
       qpc[p] = "deqTake" /\ pc[p] = "idle" /\ res[p] = BASKET_CLOSED => head[p] \in drained

\* If no IC is lost, TAIL has passed every basket with an item, or an enqueue is
\* about to move it.
Covered ==
  ~lossy => \A b \in Baskets, s \in Slots :
    A[b][s] \in Items =>
      \/ b < TAIL
      \/ \E p \in Procs : qpc[p] = "enqPut" /\ arg[p] = A[b][s] /\ tail[p] = b

QInv == QueueTypeOK /\ Calling /\ Enqueuing /\ Bounded /\ Passed /\ Covered

\* No take has been in the basket at TAIL or after it, and no put after it.
Ahead ==
  /\ \A b \in Baskets, s \in Slots :
       /\ b >= TAIL => State[b] = OPEN /\ A[b][s] # TOP
       /\ b > TAIL => A[b][s] = BOTTOM
  /\ \A p \in Procs : qpc[p] = "deqTake" => head[p] < TAIL

\* The basket at TAIL has an item.
Begun == \E b \in Baskets, s \in Slots : b = TAIL /\ A[b][s] \in Items

\* There is an item for each basket that TAIL has passed and for the one at TAIL
\* if it has one, which is so when a put in it is over.
Paid ==
  /\ IsFiniteSet(stored)
  /\ TAIL <= Cardinality(stored)
  /\ Begun => TAIL + 1 <= Cardinality(stored)
  /\ \A p \in Procs : qpc[p] = "enqPut" /\ pc[p] = "idle" /\ tail[p] = TAIL => Begun

\* A thread overruns the array only when TAIL is at its end.
InArray == \A p \in Procs : qpc[p] = "overrun" => Capacity <= TAIL

PInv == Ahead /\ Paid /\ InArray
-----------------------------------------------------------------------------
\* What a step inside put does, as far as the queue can see it.
LEMMA PutEffect ==
  ASSUME IInv, NEW p \in Procs, PutStep(p)
  PROVE  /\ pc[p] \in PutPcs /\ pc'[p] \in PutPcs \cup {"idle"}
         /\ UNCHANGED <<State, bk, x, drained>>
         /\ \A q \in Procs \ {p} : pc'[q] = pc[q] /\ res'[q] = res[q]
         /\ \/ /\ UNCHANGED <<A, stored>>
               /\ pc'[p] = "idle" => State[bk[p]] = CLOSED \/ A[bk[p]][p] # BOTTOM
            \/ /\ stored' = stored \cup {x[p]} /\ pc'[p] = "idle" /\ res'[p] = OK
               /\ A'[bk[p]][p] = x[p] /\ x[p] \in Items \ stored
         /\ \A b \in Baskets, s \in Slots :
              A'[b][s] = A[b][s] \/ (b = bk[p] /\ A'[b][s] = x[p])
<1>1. TypeOK /\ Putting
  BY DEF IInv
<1>. USE <1>1 DEF PutPcs, Goto, Return, history, shared
<1>2. CASE PutState(p)
  BY <1>2 DEF PutState, TypeOK
<1>3. CASE PutLoad(p)
  BY <1>3 DEF PutLoad, TypeOK
<1>4. CASE PutTooLate(p)
  BY <1>4 DEF PutTooLate, TypeOK
<1>5. CASE PutStore(p)
  <2>0. /\ A' = [A EXCEPT ![bk[p]][p] = x[p]] /\ bk[p] \in Baskets /\ p \in Slots
        /\ x[p] \in Items \ stored
    BY <1>5 DEF PutStore, TypeOK, Procs, Slots, Putting
  <2>1. /\ A'[bk[p]][p] = x[p]
        /\ \A b \in Baskets, s \in Slots :
             A'[b][s] = A[b][s] \/ (b = bk[p] /\ A'[b][s] = x[p])
    BY <2>0 DEF TypeOK
  <2>. QED
    BY <1>5, <2>0, <2>1 DEF PutStore, TypeOK
<1>. QED
  BY <1>2, <1>3, <1>4, <1>5 DEF PutStep

\* What a step inside take does, as far as the queue can see it.
LEMMA TakeEffect ==
  ASSUME IInv, NEW p \in Procs, TakeStep(p)
  PROVE  /\ pc[p] \in TakePcs /\ pc'[p] \in TakePcs \cup {"idle"}
         /\ UNCHANGED <<bk, x, stored>>
         /\ \A q \in Procs \ {p} : pc'[q] = pc[q] /\ res'[q] = res[q]
         /\ drained \subseteq drained'
         /\ pc'[p] = "idle" /\ res'[p] = BASKET_CLOSED => bk[p] \in drained'
         /\ \A b \in Baskets : b # bk[p] => State'[b] = State[b]
         /\ \A b \in Baskets, s \in Slots :
              A'[b][s] = A[b][s] \/ (b = bk[p] /\ A'[b][s] = TOP)
<1>1. TypeOK /\ Sweep(p) /\ bk[p] \in Baskets
  BY DEF IInv, TypeOK
<1>. USE <1>1 DEF TakePcs, Goto, Return, history, shared
<1>0. ASSUME pc[p] = "takeCas", A' = [A EXCEPT ![bk[p]][Slot(p)] = TOP]
      PROVE  \A b \in Baskets, s \in Slots :
               A'[b][s] = A[b][s] \/ (b = bk[p] /\ A'[b][s] = TOP)
  BY <1>0 DEF TypeOK
<1>2. CASE TakeState(p)
  BY <1>2 DEF TakeState, TypeOK
<1>3. CASE TakeClose(p)
  BY <1>3 DEF TakeClose, TypeOK
<1>4. CASE TakeLoad(p)
  BY <1>4 DEF TakeLoad, NextSlot, TypeOK
<1>5. CASE TakeItem(p)
  <2>1. val[p] \in Items
    BY <1>5 DEF TakeItem, TypeOK, Sweep
  <2>2. res'[p] # BASKET_CLOSED
    BY <1>5, <2>1, SentinelAssumption DEF TakeItem, TypeOK
  <2>. QED
    BY <1>0, <1>5, <2>2 DEF TakeItem, TypeOK
<1>6. CASE TakeEmpty(p)
  BY <1>0, <1>6 DEF TakeEmpty, Retry, NextSlot, TypeOK
<1>7. CASE TakeLost(p)
  BY <1>7 DEF TakeLost, Retry, NextSlot, TypeOK
<1>. QED
  BY <1>2, <1>3, <1>4, <1>5, <1>6, <1>7 DEF TakeStep
-----------------------------------------------------------------------------
LEMMA InitQInv == Init => QInv
<1>. SUFFICES ASSUME Init PROVE QInv
  OBVIOUS
<1>. USE CapacityAssumption, SentinelAssumption DEF Init, BasketInit, QueueInit
<1>1. QueueTypeOK
  BY DEF QueueTypeOK
<1>2. Calling /\ Enqueuing /\ Bounded /\ Passed
  BY DEF Calling, Enqueuing, Bounded, Passed, PutPcs, TakePcs, EnqPcs
<1>3. Covered
  BY DEF Covered
<1>. QED
  BY <1>1, <1>2, <1>3 DEF QInv

\* Every step of the queue is a step of the baskets, or leaves them alone.
LEMMA StepIsBasketStep == QInv /\ [Next]_vars => [BasketNext]_basketVars
<1>. SUFFICES ASSUME QInv, [Next]_vars PROVE [BasketNext]_basketVars
  OBVIOUS
<1>0. QueueTypeOK /\ Calling /\ Enqueuing /\ Bounded
  BY DEF QInv
<1>1. CASE UNCHANGED vars
  BY <1>1 DEF vars, basketVars
<1>2. ASSUME NEW p \in Procs, PutStep(p) \/ TakeStep(p) PROVE BasketNext
  BY <1>2 DEF BasketNext
<1>3. ASSUME NEW p \in Procs, QueueStep(p), BasketCall(p), qpc'[p] = "enqPut"
      PROVE  BasketNext
  <2>1. EnqLL(p) /\ TAIL < Capacity
    BY <1>0, <1>3 DEF QueueStep, EnqStep, DeqStep, EnqLL, EnqIC, DeqHead, DeqTail, DeqItem,
      DeqIC, DeqHHead, DeqTTail, Loop, GoOn, Answer, AnswerEmpty, QueueTypeOK
  <2>2. tail'[p] = TAIL /\ TAIL \in Baskets
    BY <1>0, <2>1, CapacityAssumption DEF EnqLL, QueueTypeOK
  <2>3. arg[p] \in Items \ stored /\ qpc[p] \in EnqPcs
    BY <1>0, <2>1 DEF EnqLL, Enqueuing, QueueTypeOK, EnqPcs
  <2>4. pc[p] = "idle" /\ Fresh(arg[p])
    <3>1. ASSUME NEW q \in Procs, pc[q] \in PutPcs PROVE x[q] # arg[p]
      BY <1>0, <2>1, <2>3, <3>1 DEF Calling, Enqueuing, EnqPcs, EnqLL
    <3>. QED
      BY <1>3, <2>1, <2>3, <3>1 DEF Fresh, BasketCall, PutCall
  <2>. QED
    BY <1>3, <2>2, <2>3, <2>4 DEF BasketCall, BasketNext, Call
<1>4. ASSUME NEW p \in Procs, QueueStep(p), BasketCall(p), qpc'[p] = "deqTake"
      PROVE  BasketNext
  <2>1. head'[p] \in Nat /\ head'[p] < Capacity
    BY <1>0, <1>4, CapacityAssumption DEF QueueStep, EnqStep, DeqStep, EnqLL, EnqIC, DeqHead,
      DeqTail, DeqItem, DeqIC, DeqHHead, DeqTTail, Loop, GoOn, Answer, AnswerEmpty, QueueTypeOK
  <2>. QED
    BY <1>4, <2>1, CapacityAssumption DEF BasketCall, BasketNext, Call
<1>. QED
  BY <1>1, <1>2, <1>3, <1>4 DEF Next, Step, BasketCall
-----------------------------------------------------------------------------
\* The steps inside put and take.
LEMMA BasketStepQInv ==
  ASSUME IInv, QInv, NEW p \in Procs, PutStep(p) \/ TakeStep(p), UNCHANGED queueVars
  PROVE  QInv'
<1>. USE SentinelAssumption DEF queueVars
<1>0. /\ QueueTypeOK /\ Calling /\ Enqueuing /\ Bounded /\ Passed /\ Covered
      /\ UNCHANGED <<HEAD, TAIL, lossy, qpc, arg, head, tail, hhead, used>>
  BY DEF QInv
<1>1. QueueTypeOK' /\ Bounded'
  BY <1>0 DEF QueueTypeOK, Bounded
<1>2. CASE PutStep(p)
  <2>1. Calling' /\ Enqueuing' /\ Passed'
    BY <1>0, <1>2, PutEffect DEF Calling, Enqueuing, Passed, PutPcs, TakePcs, EnqPcs
  <2>2. Covered'
    BY <1>0, <1>2, PutEffect DEF Calling, Covered
  <2>. QED
    BY <1>1, <2>1, <2>2 DEF QInv
<1>3. CASE TakeStep(p)
  <2>1. Calling' /\ Enqueuing' /\ Passed'
    BY <1>0, <1>3, TakeEffect DEF Calling, Enqueuing, Passed, PutPcs, TakePcs, EnqPcs
  <2>2. Covered'
    BY <1>0, <1>3, TakeEffect DEF Covered
  <2>. QED
    BY <1>1, <2>1, <2>2 DEF QInv
<1>. QED
  BY <1>2, <1>3

\* The calls of enqueue and dequeue.
LEMMA CallQInv ==
  ASSUME QInv, NEW p \in Procs, QueueCall(p), UNCHANGED basketVars
  PROVE  QInv'
<1>. USE DEF basketVars, shared, local, history, queueShared, queueHistory, GoOn
<1>0. QueueTypeOK /\ Calling /\ Enqueuing /\ Bounded /\ Passed /\ Covered
  BY DEF QInv
<1>1. UNCHANGED <<A, State, pc, bk, x, res, stored, drained>>
  OBVIOUS
<1>2. CASE \E v \in Items : Enqueue(p, v)
  <2>. USE <1>0, <1>1, <1>2 DEF Enqueue, QueueTypeOK, EnqPcs, DeqPcs
  <2>1. QueueTypeOK'
    OBVIOUS
  <2>2. Calling' /\ Bounded' /\ Passed'
    BY DEF Calling, Bounded, Passed
  <2>3. Enqueuing'
    BY DEF Enqueuing
  <2>4. Covered'
    BY DEF Covered
  <2>. QED
    BY <2>1, <2>2, <2>3, <2>4 DEF QInv
<1>3. CASE Dequeue(p)
  <2>. USE <1>0, <1>1, <1>3 DEF Dequeue, QueueTypeOK, EnqPcs, DeqPcs
  <2>1. QueueTypeOK'
    OBVIOUS
  <2>2. Calling' /\ Bounded' /\ Passed'
    BY DEF Calling, Bounded, Passed
  <2>3. Enqueuing' /\ Covered'
    BY DEF Enqueuing, Covered
  <2>. QED
    BY <2>1, <2>2, <2>3 DEF QInv
<1>. QED
  BY <1>2, <1>3 DEF QueueCall

\* enqueue: reading TAIL and calling put.
LEMMA EnqLLQInv ==
  ASSUME IInv, QInv, NEW p \in Procs, EnqLL(p), BasketCall(p) PROVE QInv'
<1>. USE DEF EnqLL, GoOn, queueShared, queueHistory
<1>0. TypeOK /\ QueueTypeOK /\ Calling /\ Enqueuing /\ Bounded /\ Passed /\ Covered
  BY DEF QInv, IInv
<1>1. /\ UNCHANGED <<A, res, stored, drained, HEAD, TAIL, lossy, arg, head, hhead, used>>
      /\ \A q \in Procs \ {p} : pc'[q] = pc[q] /\ x'[q] = x[q] /\ bk'[q] = bk[q]
      /\ qpc'[p] = "enqPut" => /\ pc'[p] = "putState" /\ x'[p] = arg[p]
                               /\ bk'[p] = TAIL /\ TAIL < Capacity
      /\ qpc'[p] # "enqPut" => qpc'[p] = "overrun" /\ pc' = pc
      /\ pc[p] = "idle" /\ arg[p] \notin stored
  <2>1. /\ qpc'[p] = IF TAIL < Capacity THEN "enqPut" ELSE "overrun"
        /\ pc[p] \notin PutPcs \cup TakePcs /\ arg[p] \notin stored
    BY <1>0 DEF QueueTypeOK, Calling, Enqueuing, EnqPcs
  <2>2. CASE TAIL < Capacity
    <3>1. PutCall(p, tail'[p], arg[p]) /\ tail'[p] = TAIL
      BY <2>1, <2>2, <1>0 DEF BasketCall, QueueTypeOK
    <3>. QED
      BY <2>1, <2>2, <3>1, <1>0 DEF PutCall, Goto, shared, history, TypeOK
  <2>3. CASE ~(TAIL < Capacity)
    <3>1. UNCHANGED basketVars
      BY <2>1, <2>3, <1>0 DEF BasketCall
    <3>. QED
      BY <2>1, <2>3, <3>1, <1>0 DEF basketVars, shared, local, history, TypeOK
  <2>. QED
    BY <2>2, <2>3
<1>2. QueueTypeOK'
  BY <1>0 DEF QueueTypeOK, EnqPcs
<1>3. Calling'
  BY <1>0, <1>1 DEF Calling, QueueTypeOK, PutPcs, TakePcs
<1>4. Enqueuing'
  BY <1>0, <1>1 DEF Enqueuing, QueueTypeOK, EnqPcs
<1>5. Bounded'
  BY <1>0, <1>1 DEF Bounded, QueueTypeOK
<1>7. Passed'
  BY <1>0, <1>1 DEF Passed, QueueTypeOK
<1>6. Covered'
  BY <1>0, <1>1 DEF Covered, QueueTypeOK
<1>. QED
  BY <1>2, <1>3, <1>4, <1>5, <1>6, <1>7 DEF QInv

\* enqueue: moving TAIL.
LEMMA EnqICQInv ==
  ASSUME QInv, NEW p \in Procs, EnqIC(p), UNCHANGED basketVars PROVE QInv'
<1>. USE DEF EnqIC, IC, ICValues, GoOn, Answer
<1>0. /\ QueueTypeOK /\ Calling /\ Enqueuing /\ Bounded /\ Passed /\ Covered
      /\ UNCHANGED <<A, pc, bk, x, res, stored, drained, HEAD, lossy, arg, head, tail, hhead, used>>
  BY DEF QInv, basketVars, shared, local, history
<1>2. QueueTypeOK' /\ TAIL <= TAIL' /\ (lossy \/ tail[p] < TAIL')
  <2>1. TAIL \in 0 .. Capacity /\ tail[p] \in 0 .. Capacity /\ tail[p] < Capacity
    BY <1>0 DEF QueueTypeOK, Bounded
  <2>2. TAIL' \in 0 .. Capacity /\ TAIL <= TAIL' /\ (lossy \/ tail[p] < TAIL')
    BY <2>1, <1>0, CapacityAssumption DEF Bounded
  <2>. QED
    BY <2>2, <1>0 DEF QueueTypeOK, EnqPcs
<1>1. /\ qpc' \in [Procs -> EnqPcs \cup DeqPcs \cup {"idle"}]
      /\ qpc'[p] \in {"idle", "enqLL"} /\ \A q \in Procs \ {p} : qpc'[q] = qpc[q]
      /\ qpc[p] = "enqPut" /\ pc[p] = "idle"
      /\ qpc'[p] = "enqLL" => res[p] # OK
  BY <1>0 DEF QueueTypeOK, EnqPcs
<1>3. Calling'
  BY <1>0, <1>1 DEF Calling, PutPcs, TakePcs
<1>4. Enqueuing'
  BY <1>0, <1>1 DEF Enqueuing, EnqPcs
<1>5. Bounded' /\ Passed'
  BY <1>0, <1>1, CapacityAssumption DEF Bounded, Passed, QueueTypeOK
<1>6. Covered'
  <2>. SUFFICES ASSUME ~lossy, NEW b \in Baskets, NEW s \in Slots,
                       A[b][s] \in Items
                PROVE  \/ b < TAIL'
                       \/ \E q \in Procs : qpc'[q] = "enqPut" /\ arg[q] = A[b][s] /\ tail[q] = b
    BY <1>0 DEF Covered
  <2>1. CASE b < TAIL
    BY <2>1, <1>0, <1>2, CapacityAssumption DEF QueueTypeOK
  <2>2. CASE \E q \in Procs : qpc[q] = "enqPut" /\ arg[q] = A[b][s] /\ tail[q] = b
    BY <2>2, <1>1, <1>2
  <2>. QED
    BY <2>1, <2>2, <1>0 DEF Covered
<1>. QED
  BY <1>2, <1>3, <1>4, <1>5, <1>6 DEF QInv

\* The steps of dequeue.
LEMMA DeqStepQInv ==
  ASSUME IInv, QInv, NEW p \in Procs, DeqStep(p), BasketCall(p) PROVE QInv'
<1>. USE DEF GoOn, Answer, AnswerEmpty, Loop, queueShared, queueHistory
<1>0. TypeOK /\ QueueTypeOK /\ Calling /\ Enqueuing /\ Bounded /\ Passed /\ Covered
  BY DEF QInv, IInv
<1>1. /\ UNCHANGED <<TAIL, lossy, arg, used>>
      /\ qpc[p] \in DeqPcs /\ pc[p] = "idle"
      /\ qpc' \in [Procs -> EnqPcs \cup DeqPcs \cup {"idle"}]
      /\ qpc'[p] \in DeqPcs \cup {"idle"} /\ \A q \in Procs \ {p} : qpc'[q] = qpc[q]
      /\ head' \in [Procs -> 0 .. Capacity] /\ \A q \in Procs \ {p} : head'[q] = head[q]
      /\ tail' \in [Procs -> 0 .. Capacity] /\ \A q \in Procs \ {p} : tail'[q] = tail[q]
      /\ hhead' \in [Procs -> 0 .. Capacity]
      /\ qpc'[p] = "deqTake" => head'[p] < Capacity
  <2>. USE <1>0, CapacityAssumption DEF QueueTypeOK, DeqPcs, Calling, TypeOK
  <2>1. CASE DeqHead(p)
    BY <2>1 DEF DeqHead
  <2>0. /\ HEAD \in 0 .. Capacity /\ TAIL \in 0 .. Capacity
        /\ head[p] \in 0 .. Capacity /\ hhead[p] \in 0 .. Capacity
    OBVIOUS
  <2>2. CASE DeqTail(p)
    <3>1. qpc'[p] = "deqTake" => head'[p] < Capacity
      BY <2>0, <2>2 DEF DeqTail
    <3>. QED
      BY <2>0, <2>2, <3>1 DEF DeqTail
  <2>3. CASE DeqItem(p)
    BY <2>3 DEF DeqItem
  <2>4. CASE DeqIC(p)
    BY <2>4 DEF DeqIC
  <2>5. CASE DeqHHead(p)
    BY <2>5 DEF DeqHHead
  <2>6. CASE DeqTTail(p)
    <3>1. qpc'[p] = "deqTake" => head'[p] < Capacity
      BY <2>0, <2>6 DEF DeqTTail
    <3>2. CASE hhead[p] = head[p] /\ TAIL = tail[p]
      BY <2>6, <3>1, <3>2 DEF DeqTTail
    <3>3. CASE ~(hhead[p] = head[p] /\ TAIL = tail[p])
      <4>1. /\ head' = [head EXCEPT ![p] = hhead[p]] /\ tail' = [tail EXCEPT ![p] = TAIL]
            /\ qpc' = [qpc EXCEPT ![p] = IF hhead[p] < TAIL THEN "deqTake" ELSE "deqHHead"]
            /\ UNCHANGED <<TAIL, arg, used, hhead>>
        BY <2>6, <3>3 DEF DeqTTail
      <4>. QED
        BY <2>0, <2>6, <3>1, <4>1 DEF DeqTTail
    <3>. QED
      BY <3>2, <3>3
  <2>. QED
    BY <2>1, <2>2, <2>3, <2>4, <2>5, <2>6 DEF DeqStep
<1>2. /\ UNCHANGED <<A, x, res, stored, drained>>
      /\ \A q \in Procs \ {p} : pc'[q] = pc[q] /\ bk'[q] = bk[q]
      /\ IF qpc'[p] = "deqTake" THEN pc'[p] = "takeState" /\ bk'[p] = head'[p]
                                ELSE pc'[p] = "idle" /\ bk' = bk
  <2>1. qpc'[p] # "enqPut"
    BY <1>1 DEF DeqPcs
  <2>2. CASE qpc'[p] = "deqTake"
    BY <2>1, <2>2, <1>0 DEF BasketCall, TakeCall, Goto, shared, history, TypeOK
  <2>3. CASE qpc'[p] # "deqTake"
    BY <2>1, <2>3, <1>1 DEF BasketCall, basketVars, shared, local, history
  <2>. QED
    BY <2>2, <2>3
<1>3. HEAD' = HEAD \/ (HEAD' = HEAD + 1 /\ HEAD \in drained /\ HEAD < Capacity)
  BY <1>0 DEF DeqStep, DeqHead, DeqTail, DeqItem, DeqIC, DeqHHead, DeqTTail, IC, ICValues, Bounded, Passed
<1>4. QueueTypeOK'
  <2>1. HEAD' \in 0 .. Capacity
    BY <1>0, <1>3, CapacityAssumption DEF QueueTypeOK
  <2>. QED
    BY <2>1, <1>0, <1>1 DEF QueueTypeOK
<1>5. Calling'
  BY <1>0, <1>1, <1>2 DEF Calling, PutPcs, TakePcs
<1>6. Enqueuing'
  BY <1>0, <1>1, <1>2 DEF Enqueuing, EnqPcs, DeqPcs
<1>7. Bounded'
  BY <1>0, <1>1 DEF Bounded, DeqPcs
<1>8. Passed'
  <2>1. \A b \in Baskets : b < HEAD' => b \in drained
    BY <1>0, <1>3, CapacityAssumption DEF Passed, QueueTypeOK
  <2>. QED
    BY <2>1, <1>0, <1>1, <1>2 DEF Passed
<1>9. Covered'
  BY <1>0, <1>1, <1>2 DEF Covered, DeqPcs
<1>. QED
  BY <1>4, <1>5, <1>6, <1>7, <1>8, <1>9 DEF QInv

LEMMA NextQInv == IInv /\ QInv /\ [Next]_vars => QInv'
<1>. SUFFICES ASSUME IInv, QInv, [Next]_vars PROVE QInv'
  OBVIOUS
<1>1. CASE UNCHANGED vars
  BY <1>1 DEF vars, queueVars, basketVars, shared, local, history, QInv, QueueTypeOK, Calling,
    Enqueuing, Bounded, Passed, Covered
<1>2. ASSUME NEW p \in Procs, QueueCall(p), UNCHANGED basketVars PROVE QInv'
  BY <1>2, CallQInv
<1>3. ASSUME NEW p \in Procs, PutStep(p) \/ TakeStep(p), UNCHANGED queueVars PROVE QInv'
  BY <1>3, BasketStepQInv
<1>4. ASSUME NEW p \in Procs, EnqLL(p), BasketCall(p) PROVE QInv'
  BY <1>4, EnqLLQInv
<1>5. ASSUME NEW p \in Procs, EnqIC(p), BasketCall(p) PROVE QInv'
  <2>1. qpc'[p] \in {"idle", "enqLL"}
    BY <1>5 DEF EnqIC, Answer, GoOn, QInv, QueueTypeOK
  <2>2. UNCHANGED basketVars
    BY <1>5, <2>1 DEF BasketCall
  <2>. QED
    BY <1>5, <2>2, EnqICQInv
<1>6. ASSUME NEW p \in Procs, DeqStep(p), BasketCall(p) PROVE QInv'
  BY <1>6, DeqStepQInv
<1>. QED
  BY <1>1, <1>2, <1>3, <1>4, <1>5, <1>6 DEF Next, Step, QueueStep, EnqStep

LEMMA QueueInvariance == Spec => BasketSpec /\ [](IInv /\ QInv)
<1>1. Init => BasketInit /\ IInv /\ QInv
  BY InitIInv, InitQInv DEF Init
<1>2. IInv /\ QInv /\ [Next]_vars => [BasketNext]_basketVars /\ (IInv /\ QInv)'
  BY StepIsBasketStep, NextIInv, NextQInv
<1>. QED
  BY <1>1, <1>2, PTL DEF Spec, BasketSpec

\* The queue makes only calls that the baskets are made for: enqueue never puts
\* an item that is in a basket or being put (basket_queue.hpp 44-79).
THEOREM QueueUsesBaskets == Spec => UsesBaskets
BY QueueInvariance DEF UsesBaskets

\* Every index that enqueue and dequeue pass to the array of baskets is in it;
\* HEAD and TAIL stay in range (basket_queue.hpp 44-79).
THEOREM QueueTypeCorrect == Spec => []QueueTypeOK
<1>1. QInv => QueueTypeOK
  BY DEF QInv
<1>. QED
  BY <1>1, QueueInvariance, PTL

\* In the queue, no item is lost or duplicated in the baskets.
THEOREM QueueConservesItems == Spec => []NoLossNoDuplicate
BY QueueInvariance, ItemsConserved

\* An item whose enqueue has returned is where dequeue looks for it: HEAD has passed
\* no basket with an item, and TAIL has passed it before the enqueue returns
\* (basket_queue.hpp 44-79).
THEOREM QueueLeavesNothingBehind == Spec => []NothingLeftBehind
<1>1. IInv /\ QInv => NothingLeftBehind
  <2>. SUFFICES ASSUME IInv, QInv,
                       NEW v \in stored, NEW b \in Baskets, NEW s \in Slots,
                       <<b, s>> \in Places(v),
                       \A p \in Procs : qpc[p] \in EnqPcs => arg[p] # v
                PROVE  HEAD <= b /\ (lossy \/ b < TAIL)
    BY DEF NothingLeftBehind
  <2>1. v \in Items /\ A[b][s] = v
    BY DEF IInv, TypeOK, Places
  <2>2. lossy \/ b < TAIL
    BY <2>1 DEF QInv, Covered, EnqPcs
  <2>3. ~(b < HEAD)
    BY <2>1, SentinelAssumption DEF QInv, Passed, IInv, Closing
  <2>. QED
    BY <2>2, <2>3, CapacityAssumption DEF QInv, QueueTypeOK
<1>. QED
  BY <1>1, QueueInvariance, PTL
-----------------------------------------------------------------------------
LEMMA InitPInv == Init => PInv
<1>. SUFFICES ASSUME Init PROVE PInv
  OBVIOUS
<1>. USE CapacityAssumption, SentinelAssumption DEF Init, BasketInit, QueueInit
<1>1. Ahead /\ InArray /\ ~Begun
  BY DEF Ahead, InArray, Begun
<1>2. Paid
  BY <1>1, FS_EmptySet DEF Paid
<1>. QED
  BY <1>1, <1>2 DEF PInv

\* Steps that leave the baskets and TAIL alone.
LEMMA QuietPInv ==
  ASSUME PInv, UNCHANGED <<A, State, stored, TAIL>>,
         \A q \in Procs :
           /\ qpc'[q] = "deqTake" => head'[q] < TAIL
           /\ qpc'[q] = "enqPut" /\ pc'[q] = "idle" /\ tail'[q] = TAIL => Begun
           /\ qpc'[q] = "overrun" => Capacity <= TAIL
  PROVE  PInv'
<1>1. Ahead' /\ InArray'
  BY DEF PInv, Ahead, InArray
<1>2. Begun' = Begun
  BY DEF Begun
<1>3. Paid'
  BY <1>2 DEF PInv, Paid
<1>. QED
  BY <1>1, <1>3 DEF PInv

\* A put that is over leaves an item in its basket, its own or the one it met, unless
\* TAIL has passed that basket.
LEMMA PutPInv ==
  ASSUME IInv, QInv, PInv, NEW p \in Procs, PutStep(p), UNCHANGED queueVars PROVE PInv'
<1>. USE SentinelAssumption
<1>0. /\ TypeOK /\ QueueTypeOK /\ Ahead /\ Paid /\ InArray
      /\ UNCHANGED <<HEAD, TAIL, qpc, arg, head, tail>>
      /\ bk[p] \in Baskets /\ p \in Slots
      /\ bk[p] = tail[p] /\ tail[p] <= TAIL
  <2>1. qpc[p] = "enqPut" /\ bk[p] = tail[p]
    BY PutEffect DEF QInv, Calling
  <2>. QED
    BY <2>1 DEF IInv, QInv, PInv, queueVars, TypeOK, Bounded, Procs, Slots
<1>1. TAIL \in Int /\ bk[p] \in Int /\ \A b \in Baskets : b \in Int
  BY <1>0, CapacityAssumption DEF QueueTypeOK
<1>2. CASE UNCHANGED <<A, stored>>
  <2>1. State[bk[p]] = CLOSED \/ A[bk[p]][p] # BOTTOM => tail[p] # TAIL \/ Begun
    BY <1>0, <1>1 DEF Ahead, Begun, TypeOK
  <2>2. pc'[p] = "idle" => tail[p] # TAIL \/ Begun
    BY <2>1, <1>2, PutEffect, <1>0 DEF TypeOK
  <2>3. \A q \in Procs : qpc[q] = "enqPut" /\ pc'[q] = "idle" /\ tail[q] = TAIL => Begun
    BY <2>2, <1>0, PutEffect DEF Paid
  <2>. QED
    BY <2>3, <1>0, <1>2, PutEffect, QuietPInv DEF Ahead, InArray
<1>3. CASE stored' = stored \cup {x[p]} /\ A'[bk[p]][p] = x[p] /\ x[p] \in Items \ stored
  <2>1. Ahead'
    <3>1. \A b \in Baskets, s \in Slots :
            A'[b][s] = A[b][s] \/ (b = bk[p] /\ A'[b][s] = x[p])
      BY PutEffect
    <3>. QED
      BY <3>1, <1>0, <1>1, <1>3, PutEffect DEF Ahead
  <2>2. /\ IsFiniteSet(stored') /\ Cardinality(stored) \in Nat
        /\ Cardinality(stored') = Cardinality(stored) + 1
    BY <1>0, <1>3, FS_AddElement, FS_CardinalityType DEF Paid
  <2>3. \A b \in Baskets, s \in Slots : A[b][s] \in Items => A'[b][s] \in Items
    BY <1>3, PutEffect
  <2>4. Begun => Begun'
    BY <2>3, <1>0 DEF Begun
  <2>5. tail[p] = TAIL => Begun'
    BY <1>0, <1>3 DEF Begun
  <2>6. \A q \in Procs : qpc[q] = "enqPut" /\ pc'[q] = "idle" /\ tail[q] = TAIL => Begun'
    BY <2>4, <2>5, <1>0, PutEffect DEF Paid
  <2>7. Paid'
    BY <2>2, <2>6, <1>0, <1>1 DEF Paid
  <2>. QED
    BY <2>1, <2>7, <1>0 DEF PInv, InArray
<1>. QED
  BY <1>2, <1>3, PutEffect

\* A take is in a basket that TAIL has passed.
LEMMA TakePInv ==
  ASSUME IInv, QInv, PInv, NEW p \in Procs, TakeStep(p), UNCHANGED queueVars PROVE PInv'
<1>0. /\ TypeOK /\ QueueTypeOK /\ Ahead /\ Paid /\ InArray
      /\ UNCHANGED <<HEAD, TAIL, qpc, arg, head, tail>>
      /\ bk[p] \in Baskets /\ bk[p] < TAIL /\ qpc[p] = "deqTake"
  <2>1. qpc[p] = "deqTake" /\ bk[p] = head[p]
    BY TakeEffect DEF QInv, Calling
  <2>. QED
    BY <2>1 DEF IInv, QInv, PInv, queueVars, TypeOK, Ahead
<1>1. TAIL \in Int /\ bk[p] \in Int /\ \A b \in Baskets : b \in Int
  BY <1>0, CapacityAssumption DEF QueueTypeOK
<1>2. \A b \in Baskets : b >= TAIL =>
        State'[b] = State[b] /\ \A s \in Slots : A'[b][s] = A[b][s]
  BY <1>0, <1>1, TakeEffect
<1>3. Ahead' /\ InArray'
  BY <1>0, <1>1, <1>2 DEF Ahead, InArray
<1>4. Begun' = Begun
  BY <1>0, <1>1, <1>2 DEF Begun
<1>5. \A q \in Procs : qpc[q] = "enqPut" /\ pc'[q] = "idle" => pc[q] = "idle"
  BY <1>0, TakeEffect
<1>6. Paid'
  BY <1>0, <1>4, <1>5, TakeEffect DEF Paid
<1>. QED
  BY <1>3, <1>6 DEF PInv

\* TAIL moves on from a basket with an item, to one without.
LEMMA EnqICPInv ==
  ASSUME QInv, PInv, NEW p \in Procs, EnqIC(p), UNCHANGED basketVars PROVE PInv'
<1>. USE SentinelAssumption
<1>0. /\ QueueTypeOK /\ Ahead /\ Paid /\ InArray /\ qpc[p] = "enqPut" /\ pc[p] = "idle"
      /\ UNCHANGED <<A, State, pc, stored, HEAD, arg, head, tail>>
      /\ qpc'[p] \in {"idle", "enqLL"} /\ \A q \in Procs \ {p} : qpc'[q] = qpc[q]
      /\ TAIL' \in ICValues(TAIL, tail[p]) /\ tail[p] < Capacity
  BY DEF QInv, PInv, EnqIC, GoOn, Answer, QueueTypeOK, Bounded, basketVars, shared, local, history
<1>1. CASE TAIL' = TAIL
  BY <1>0, <1>1, QuietPInv DEF Ahead, Paid, InArray
<1>2. CASE TAIL' # TAIL
  <2>1. TAIL' = TAIL + 1 /\ tail[p] = TAIL /\ TAIL \in Nat /\ Capacity \in Nat
    BY <1>0, <1>2, CapacityAssumption DEF ICValues, IC, QueueTypeOK
  <2>2. Begun
    BY <1>0, <2>1 DEF Paid
  <2>3. \A b \in Baskets : b \in Int
    BY CapacityAssumption
  <2>4. Ahead' /\ InArray'
    <3>1. \A q \in Procs : qpc'[q] \in {"deqTake", "overrun"} => qpc'[q] = qpc[q]
      BY <1>0, CapacityAssumption DEF QueueTypeOK
    <3>2. \A q \in Procs : qpc'[q] = "deqTake" => head[q] < TAIL'
      BY <1>0, <2>1, <3>1, CapacityAssumption DEF Ahead, QueueTypeOK
    <3>3. \A b \in Baskets, s \in Slots :
            /\ b >= TAIL' => State[b] = OPEN /\ A[b][s] # TOP
            /\ b > TAIL' => A[b][s] = BOTTOM
      BY <1>0, <2>1, <2>3 DEF Ahead
    <3>4. InArray'
      BY <1>0, <2>1, <3>1 DEF InArray
    <3>. QED
      BY <1>0, <3>2, <3>3, <3>4 DEF Ahead
  <2>5. ~Begun'
    BY <1>0, <2>1, <2>3 DEF Ahead, Begun
  <2>6. \A q \in Procs : qpc'[q] = "enqPut" => tail[q] <= TAIL /\ tail[q] \in Nat
    BY <1>0, CapacityAssumption DEF QInv, Bounded, QueueTypeOK
  <2>7. Paid'
    BY <1>0, <2>1, <2>2, <2>5, <2>6 DEF Paid
  <2>. QED
    BY <2>4, <2>7 DEF PInv
<1>. QED
  BY <1>1, <1>2

LEMMA NextPInv == IInv /\ QInv /\ PInv /\ [Next]_vars => PInv'
<1>. SUFFICES ASSUME IInv, QInv, PInv, [Next]_vars PROVE PInv'
  OBVIOUS
<1>. USE DEF GoOn, basketVars, shared, local, history, queueShared
<1>0. QueueTypeOK /\ Ahead /\ Paid /\ InArray /\ Calling /\ TypeOK
  BY DEF QInv, PInv, IInv
<1>1. CASE UNCHANGED vars
  BY <1>0, <1>1, QuietPInv DEF vars, queueVars, Ahead, Paid, InArray
<1>2. ASSUME NEW p \in Procs, QueueCall(p), UNCHANGED basketVars PROVE PInv'
  <2>1. /\ UNCHANGED <<A, State, pc, stored, TAIL, head, tail>>
        /\ qpc'[p] \in {"enqLL", "deqHead"} /\ \A q \in Procs \ {p} : qpc'[q] = qpc[q]
    BY <1>0, <1>2 DEF QueueCall, Enqueue, Dequeue, QueueTypeOK
  <2>. QED
    BY <1>0, <2>1, QuietPInv DEF Ahead, Paid, InArray
<1>3. ASSUME NEW p \in Procs, PutStep(p) \/ TakeStep(p), UNCHANGED queueVars PROVE PInv'
  BY <1>3, PutPInv, TakePInv
<1>4. ASSUME NEW p \in Procs, EnqLL(p), BasketCall(p) PROVE PInv'
  <2>1. /\ UNCHANGED <<TAIL, head>>
        /\ \A q \in Procs \ {p} : qpc'[q] = qpc[q] /\ tail'[q] = tail[q]
        /\ qpc'[p] = IF TAIL < Capacity THEN "enqPut" ELSE "overrun"
    BY <1>0, <1>4 DEF EnqLL, QueueTypeOK
  <2>2. /\ UNCHANGED <<A, State, stored>>
        /\ \A q \in Procs \ {p} : pc'[q] = pc[q]
        /\ qpc'[p] = "enqPut" => pc'[p] = "putState"
    BY <1>0, <1>4, <2>1 DEF BasketCall, PutCall, Goto, TypeOK
  <2>3. qpc'[p] = "overrun" => Capacity <= TAIL
    BY <1>0, <2>1, CapacityAssumption DEF QueueTypeOK
  <2>. QED
    BY <1>0, <2>1, <2>2, <2>3, QuietPInv DEF Ahead, Paid, InArray
<1>5. ASSUME NEW p \in Procs, EnqIC(p), BasketCall(p) PROVE PInv'
  <2>1. qpc'[p] \in {"idle", "enqLL"}
    BY <1>0, <1>5 DEF EnqIC, Answer, QueueTypeOK
  <2>2. UNCHANGED basketVars
    BY <1>5, <2>1 DEF BasketCall
  <2>. QED
    BY <1>5, <2>2, EnqICPInv
<1>6. ASSUME NEW p \in Procs, DeqStep(p), BasketCall(p) PROVE PInv'
  <2>1. /\ UNCHANGED TAIL
        /\ qpc'[p] \in DeqPcs \cup {"idle"} /\ \A q \in Procs \ {p} : qpc'[q] = qpc[q]
        /\ \A q \in Procs \ {p} : head'[q] = head[q] /\ tail'[q] = tail[q]
        /\ qpc'[p] = "deqTake" => head'[p] < TAIL
    BY <1>0, <1>6 DEF DeqStep, DeqHead, DeqTail, DeqItem, DeqIC, DeqHHead, DeqTTail, Loop,
      Answer, AnswerEmpty, QueueTypeOK, DeqPcs
  <2>2. /\ UNCHANGED <<A, State, stored>>
        /\ \A q \in Procs \ {p} : pc'[q] = pc[q]
    BY <1>0, <2>1, <1>6 DEF BasketCall, TakeCall, Goto, TypeOK, DeqPcs
  <2>. QED
    BY <1>0, <2>1, <2>2, QuietPInv DEF Ahead, Paid, InArray, DeqPcs
<1>. QED
  BY <1>1, <1>2, <1>3, <1>4, <1>5, <1>6 DEF Next, Step, QueueStep, EnqStep

LEMMA PaidInvariance == Spec => [](QInv /\ PInv)
<1>1. Init => BasketInit /\ IInv /\ QInv /\ PInv
  BY InitIInv, InitQInv, InitPInv DEF Init
<1>2. IInv /\ QInv /\ PInv /\ [Next]_vars => (IInv /\ QInv /\ PInv)'
  BY StepIsBasketStep, NextIInv, NextQInv, NextPInv
<1>. QED
  BY <1>1, <1>2, PTL DEF Spec

\* TAIL passes a basket only for an item that was stored in it, also over a grouped
\* object: a put fails only in a basket that a take has entered, which TAIL has passed
\* already, or that has an item of the same thread (basket_queue.hpp 44-55, kbasket.cpp
\* 101-123).
THEOREM QueuePaysForTail == Spec => []TailIsPaidFor
<1>1. PInv => TailIsPaidFor
  BY DEF PInv, Paid, TailIsPaidFor
<1>. QED
  BY <1>1, PaidInvariance, PTL

\* As many baskets as items are enough, for any interleaving: no call of put is for an
\* index behind the array (basket_queue.hpp 48-49; the sizing of tests and drivers).
THEOREM EnoughBaskets ==
  ASSUME IsFiniteSet(Items), Cardinality(Items) <= Capacity
  PROVE  Spec => []InBounds
<1>1. QInv /\ PInv => InBounds
  <2>. SUFFICES ASSUME QInv, PInv, NEW p \in Procs, qpc[p] = "overrun" PROVE FALSE
    BY DEF InBounds
  <2>1. /\ stored \subseteq Items /\ arg[p] \in Items /\ arg[p] \notin stored
    BY DEF QInv, Enqueuing, QueueTypeOK, EnqPcs
  <2>2. stored \subseteq Items \ {arg[p]}
    BY <2>1
  <2>3. /\ IsFiniteSet(Items \ {arg[p]})
        /\ Cardinality(Items \ {arg[p]}) = Cardinality(Items) - 1
    BY <2>1, FS_RemoveElement
  <2>4. Cardinality(stored) <= Cardinality(Items) - 1
    BY <2>2, <2>3, FS_Subset
  <2>5. Capacity <= TAIL /\ TAIL <= Cardinality(stored) /\ TAIL \in Nat /\ Capacity \in Nat
    BY CapacityAssumption DEF PInv, Paid, InArray, QInv, QueueTypeOK
  <2>6. Cardinality(stored) \in Nat /\ Cardinality(Items) \in Nat
    BY FS_CardinalityType DEF PInv, Paid
  <2>. QED
    BY <2>4, <2>5, <2>6
<1>. QED
  BY <1>1, PaidInvariance, PTL
-----------------------------------------------------------------------------
(***************************************************************************)
(* Linearizability.                                                        *)
(***************************************************************************)
LP == INSTANCE Linearization_proofs

LEMMA SameExplanations ==
  /\ \A c, p, o : LP!TakeEffect(c, p, o) = L!TakeEffect(c, p, o)
  /\ \A C, pending : LP!Explanations(C, pending) = L!Explanations(C, pending)
  /\ \A C, pending, p, r : LP!Respond(C, pending, p, r) = L!Respond(C, pending, p, r)
<1>1. \A c, p, o : LP!TakeEffect(c, p, o) = L!TakeEffect(c, p, o)
  BY DEF LP!TakeEffect, L!TakeEffect, LP!Answer, L!Answer
<1>2. ASSUME NEW C, NEW pending PROVE LP!Explanations(C, pending) = L!Explanations(C, pending)
  BY DEF LP!TakeEffect, L!TakeEffect, LP!Answer, L!Answer, LP!OneMore, L!OneMore,
     LP!Explanations, L!Explanations, LP!Cardinality, L!Cardinality
<1>3. ASSUME NEW C, NEW pending, NEW p, NEW r
      PROVE  LP!Respond(C, pending, p, r) = L!Respond(C, pending, p, r)
  BY <1>2 DEF LP!Respond, L!Respond
<1>. QED
  BY <1>1, <1>2, <1>3

\* The pending calls are calls, and more of them leave the explanations there are.
LEMMA PendingCalls == QInv => LP!Calls(Items, Pending)
<1>. SUFFICES ASSUME QInv PROVE LP!Calls(Items, Pending)
  OBVIOUS
<1>1. \A p \in Procs : qpc[p] \in EnqPcs => arg[p] \in Items
  BY DEF QInv, Enqueuing, QueueTypeOK
<1>2. /\ DOMAIN Pending \subseteq Procs
      /\ \A p \in DOMAIN Pending : Pending[p] \in Items \cup {DEQUEUE}
  BY <1>1 DEF Pending
<1>3. IsFiniteSet(DOMAIN Pending)
  <2>1. IsFiniteSet(0 .. N - 1)
    BY NAssumption, FS_Interval
  <2>. QED
    BY <1>2, <2>1, FS_Subset DEF Procs
<1>4. LP!IsFiniteSet(DOMAIN Pending)
  BY <1>3 DEF IsFiniteSet, LP!IsFiniteSet
<1>. QED
  BY <1>2, <1>4, AnswersAssumption DEF LP!Calls

\* v is in basket b, or on its way into a slot that is free for it.
InBasket(v, b) ==
  \/ \E s \in Slots : A[b][s] = v
  \/ \E p \in Procs : pc[p] \in PutPcs /\ x[p] = v /\ bk[p] = b /\ A[b][p] = BOTTOM

In(v, q) == \E i \in DOMAIN q : q[i] = v

\* q is what the queue can be taken for, of the baskets before t: the items that
\* are in the baskets before TAIL, and any that may come, in the order of the
\* baskets and in any order inside of one.
Fits(q, t) ==
  /\ \A i, j \in DOMAIN q : q[i] = q[j] => i = j
  /\ \E home \in [DOMAIN q -> Baskets] :
       /\ \A i \in DOMAIN q : home[i] < t /\ InBasket(q[i], home[i])
       /\ \A i, j \in DOMAIN q : i < j => home[i] <= home[j]
  /\ \A b \in Baskets, s \in Slots : b < TAIL /\ A[b][s] \in Items => In(A[b][s], q)

\* The calls that have taken effect then: the enqueues of the items in q and of
\* those taken, and the dequeues that have an item.
AnswerIn(p, q) ==
  IF qpc[p] = "enqPut" /\ (In(arg[p], q) \/ (arg[p] \in stored /\ tail[p] < TAIL)) THEN OK
  ELSE IF qpc[p] = "deqTake" /\ pc[p] = "idle" /\ res[p] \in Items THEN res[p]
  ELSE NONE

Config(q) == [q |-> q, ans |-> [p \in Procs |-> AnswerIn(p, q)]]

Explained(q) == Config(q) \in L!Explanations(lin, Pending)

\* Every such q explains the answers so far.
LinInv ==
  /\ lin \subseteq LP!Configurations(Items)
  /\ ~lossy => \A q \in Seq(Items) : Fits(q, TAIL) => Explained(q)

\* The item of an enqueue whose put has succeeded is in the basket of that put.
Own ==
  \A p \in Procs : qpc[p] = "enqPut" /\ pc[p] = "idle" /\ res[p] = OK =>
    /\ arg[p] \in stored
    /\ A[tail[p]][p] \in {arg[p], TOP}
    /\ \A b \in Baskets, s \in Slots : A[b][s] = arg[p] => b = tail[p]

\* What a dequeue has read of HEAD; it is back at the second look because of a
\* basket after HEAD's, or because HEAD has moved.
Looks ==
  \A p \in Procs :
    /\ head[p] <= HEAD /\ hhead[p] <= HEAD
    /\ qpc[p] = "deqHHead" => tail[p] <= head[p] \/ lossy \/ head[p] < HEAD
    /\ qpc[p] = "deqTTail" /\ hhead[p] = head[p] => lossy \/ tail[p] <= head[p]

\* What a take that is over has returned to its dequeue.
Got ==
  \A p \in Procs : qpc[p] = "deqTake" /\ pc[p] = "idle" => res[p] \in Items \cup {BASKET_CLOSED}

\* The inductive invariant, with those of the queue.
HInv == Own /\ Looks /\ Got /\ LinInv

\* An item is in one basket.
LEMMA InOneBasket ==
  ASSUME IInv, NEW v \in Items, NEW b \in Baskets, NEW c \in Baskets,
         InBasket(v, b), InBasket(v, c)
  PROVE  b = c
<1>1. Content /\ Putting /\ Placed
  BY DEF IInv
<1>2. ASSUME NEW s \in Slots, NEW d \in Baskets, A[d][s] = v
      PROVE \A p \in Procs : pc[p] \in PutPcs => x[p] # v
  BY <1>1, <1>2 DEF Content, Putting
<1>3. CASE \E s \in Slots : A[b][s] = v
  BY <1>1, <1>2, <1>3 DEF InBasket, Placed
<1>4. CASE ~\E s \in Slots : A[b][s] = v
  BY <1>1, <1>2, <1>4 DEF InBasket, Putting
<1>. QED
  BY <1>3, <1>4

\* Also the items of the basket at TAIL may take effect, one after the other: their
\* enqueues are all pending.
LEMMA Batch ==
  ASSUME IInv, QInv, Ahead, Own, LinInv, ~lossy, NEW q \in Seq(Items), Fits(q, TAIL + 1)
  PROVE  Explained(q)
<1>. DEFINE S == {n \in Nat : \A r \in Seq(Items) :
                     Len(r) = n /\ Fits(r, TAIL + 1) => Explained(r)}
<1>0. TypeOK /\ QueueTypeOK /\ TAIL \in Nat /\ \A b \in Baskets : b \in Nat
  BY CapacityAssumption DEF IInv, QInv, QueueTypeOK
<1>1. 0 \in S
  <2>. SUFFICES ASSUME NEW r \in Seq(Items), Len(r) = 0, Fits(r, TAIL + 1)
                PROVE  Explained(r)
    OBVIOUS
  <2>1. DOMAIN r = {}
    OBVIOUS
  <2>2. Fits(r, TAIL)
    BY <2>1 DEF Fits
  <2>. QED
    BY <2>2 DEF LinInv
<1>2. ASSUME NEW n \in Nat, n \in S PROVE n + 1 \in S
  <2>. SUFFICES ASSUME NEW r \in Seq(Items), Len(r) = n + 1, Fits(r, TAIL + 1)
                PROVE  Explained(r)
    OBVIOUS
  <2>. DEFINE v == r[n + 1]
              f == SubSeq(r, 1, n)
  <2>1. /\ DOMAIN r = 1 .. n + 1 /\ v \in Items
        /\ f \in Seq(Items) /\ Len(f) = n /\ DOMAIN f = 1 .. n
        /\ \A i \in 1 .. n : f[i] = r[i]
        /\ r = Append(f, v)
    OBVIOUS
  <2>2. PICK home \in [DOMAIN r -> Baskets] :
          /\ \A i \in DOMAIN r : home[i] < TAIL + 1 /\ InBasket(r[i], home[i])
          /\ \A i, j \in DOMAIN r : i < j => home[i] <= home[j]
    BY DEF Fits
  <2>3. home[n + 1] \in Nat /\ n + 1 \in DOMAIN r /\ In(v, r)
    <3>1. n + 1 \in DOMAIN r
      BY <2>1
    <3>2. In(v, r)
      BY <3>1 DEF In
    <3>. QED
      BY <1>0, <2>2, <3>1, <3>2
  <2>6. \A w : w # v => (In(w, f) <=> In(w, r))
    <3>. SUFFICES ASSUME NEW w, w # v PROVE In(w, f) <=> In(w, r)
      OBVIOUS
    <3>1. ASSUME NEW i \in DOMAIN f, f[i] = w PROVE In(w, r)
      <4>1. i \in DOMAIN r /\ r[i] = w
        BY <2>1, <3>1
      <4>. QED
        BY <4>1 DEF In
    <3>2. ASSUME NEW i \in DOMAIN r, r[i] = w PROVE In(w, f)
      <4>1. i \in DOMAIN f /\ f[i] = w
        BY <2>1, <3>2
      <4>. QED
        BY <4>1 DEF In
    <3>. QED
      BY <3>1, <3>2 DEF In
  <2>4. CASE home[n + 1] < TAIL
    <3>1. ASSUME NEW i \in DOMAIN r PROVE home[i] < TAIL
      <4>1. i \in 1 .. n + 1 /\ home[i] \in Nat
        BY <1>0, <2>1, <2>2
      <4>2. home[i] <= home[n + 1]
        <5>1. CASE i = n + 1
          BY <5>1, <4>1
        <5>2. CASE i # n + 1
          BY <5>2, <4>1, <2>2, <2>3
        <5>. QED
          BY <5>1, <5>2
      <4>. QED
        BY <1>0, <2>3, <2>4, <4>1, <4>2
    <3>2. Fits(r, TAIL)
      BY <2>2, <3>1 DEF Fits
    <3>. QED
      BY <3>2 DEF LinInv
  <2>5. CASE home[n + 1] = TAIL
    <3>1. InBasket(v, TAIL) /\ TAIL \in Baskets
      BY <2>2, <2>3, <2>5
    <3>2. PICK p \in Procs : qpc[p] = "enqPut" /\ arg[p] = v /\ tail[p] = TAIL
      <4>1. CASE \E s \in Slots : A[TAIL][s] = v
        BY <1>0, <2>1, <3>1, <4>1 DEF QInv, Covered
      <4>2. CASE \E p \in Procs : pc[p] \in PutPcs /\ x[p] = v /\ bk[p] = TAIL
        BY <4>2 DEF QInv, Calling
      <4>. QED
        BY <3>1, <4>1, <4>2 DEF InBasket
    <3>3. ~In(v, f)
      BY <2>1 DEF In, Fits
    <3>4. Fits(f, TAIL + 1)
      <4>1. \A i, j \in DOMAIN f : f[i] = f[j] => i = j
        BY <2>1 DEF Fits
      <4>2. \E h \in [DOMAIN f -> Baskets] :
              /\ \A i \in DOMAIN f : h[i] < TAIL + 1 /\ InBasket(f[i], h[i])
              /\ \A i, j \in DOMAIN f : i < j => h[i] <= h[j]
        <5>1. WITNESS [i \in DOMAIN f |-> home[i]] \in [DOMAIN f -> Baskets]
        <5>. QED
          BY <2>1, <2>2
      <4>3. ASSUME NEW b \in Baskets, NEW s \in Slots, b < TAIL, A[b][s] \in Items
            PROVE  In(A[b][s], f)
        <5>1. A[b][s] # v
          <6>1. A[b][s] = v => InBasket(v, b)
            BY DEF InBasket
          <6>. QED
            BY <6>1, <3>1, <2>1, <4>3, <1>0, InOneBasket
        <5>2. In(A[b][s], r)
          BY <4>3 DEF Fits
        <5>. QED
          BY <5>1, <5>2, <2>6
      <4>. QED
        BY <4>1, <4>2, <4>3 DEF Fits
    <3>5. Explained(f)
      BY <1>2, <2>1, <3>4
    <3>6. p \in DOMAIN Pending /\ Pending[p] = v /\ v # DEQUEUE
      BY <3>2, <2>1, AnswersAssumption DEF Pending, EnqPcs
    <3>7. Config(f).ans[p] = NONE
      BY <1>0, <3>2, <3>3 DEF Config, AnswerIn
    <3>8. LP!TakeEffect(Config(f), p, v) = Config(r)
      <4>1. \A t \in Procs \ {p} : qpc[t] = "enqPut" => arg[t] # v
        BY <3>2 DEF QInv, Enqueuing, EnqPcs
      <4>2. \A t \in Procs \ {p} : AnswerIn(t, f) = AnswerIn(t, r)
        BY <4>1, <2>6 DEF AnswerIn
      <4>3. AnswerIn(p, r) = OK
        BY <2>3, <3>2 DEF AnswerIn
      <4>4. LP!TakeEffect(Config(f), p, v) =
              [q |-> Append(f, v), ans |-> [Config(f).ans EXCEPT ![p] = OK]]
        BY <3>6 DEF LP!TakeEffect, LP!Answer, Config
      <4>5. [Config(f).ans EXCEPT ![p] = OK] = Config(r).ans
        BY <4>2, <4>3 DEF Config
      <4>. QED
        BY <4>4, <4>5, <2>1 DEF Config
    <3>9. LP!TakeEffect(Config(f), p, Pending[p]) \in LP!Explanations(lin, Pending)
      <4>1. Config(f) \in LP!Explanations(lin, Pending)
        BY <3>5, SameExplanations DEF Explained
      <4>. QED
        BY <4>1, <3>6, <3>7, PendingCalls, LP!ExplanationsClosed DEF LinInv
    <3>. QED
      BY <3>6, <3>8, <3>9, SameExplanations DEF Explained
  <2>. QED
    BY <2>2, <2>3, <2>4, <2>5, <1>0
<1>3. Nat \subseteq S
  <2>. HIDE DEF S
  <2>. QED
    BY <1>1, <1>2, LP!NatSetInduction
<1>. QED
  BY <1>3

-----------------------------------------------------------------------------
LEMMA InitLinInv == Init => HInv
<1>. SUFFICES ASSUME Init PROVE HInv
  OBVIOUS
<1>. USE SentinelAssumption DEF Init, BasketInit, QueueInit
<1>1. Own /\ Looks /\ Got
  BY DEF Own, Looks, Got
<1>2. lin \subseteq LP!Configurations(Items)
  BY LP!StartTyped DEF L!Start, LP!Start
<1>3. ASSUME NEW q \in Seq(Items), Fits(q, TAIL) PROVE Explained(q)
  <2>1. q = <<>>
    <3>1. ASSUME NEW i \in DOMAIN q PROVE FALSE
      <4>1. PICK b \in Baskets : b < 0
        BY <1>3 DEF Fits
      <4>. QED
        BY <4>1, CapacityAssumption
    <3>2. ~(1 \in DOMAIN q) /\ DOMAIN q = 1 .. Len(q) /\ Len(q) \in Nat
      BY <3>1
    <3>. QED
      BY <3>2
  <2>2. Config(q) \in lin
    <3>1. \A p \in Procs : AnswerIn(p, q) = NONE
      BY DEF AnswerIn
    <3>. QED
      BY <2>1, <3>1 DEF Config, L!Start
  <2>3. DOMAIN Pending = {} 
    BY DEF Pending
  <2>4. LP!IsFiniteSet(DOMAIN Pending)
    <3>1. IsFiniteSet(DOMAIN Pending)
      BY <2>3, FS_EmptySet
    <3>. QED
      BY <3>1 DEF IsFiniteSet, LP!IsFiniteSet
  <2>5. Config(q) \in LP!Explanations(lin, Pending)
    BY <2>2, <2>4, LP!ExplanationsStart
  <2>. QED
    BY <2>5, SameExplanations DEF Explained
<1>. QED
  BY <1>1, <1>2, <1>3 DEF LinInv, HInv

\* Pending calls stay pending.
CallsStay ==
  \A p \in Procs : qpc[p] # "idle" =>
    /\ qpc'[p] # "idle" /\ (qpc[p] \in EnqPcs <=> qpc'[p] \in EnqPcs)
    /\ qpc[p] \in EnqPcs => arg'[p] = arg[p]

\* A step that fits fewer sequences than before.
LEMMA StayExplained ==
  ASSUME QInv', LinInv, CallsStay, lin' = lin, lossy' = lossy,
         ~lossy => \A q \in Seq(Items) :
                     Fits(q, TAIL)' => Fits(q, TAIL) /\ Config(q)' = Config(q)
  PROVE  LinInv'
<1>. SUFFICES ASSUME ~lossy, NEW q \in Seq(Items), Fits(q, TAIL)' PROVE Explained(q)'
  BY DEF LinInv
<1>1. Config(q) \in LP!Explanations(lin, Pending) /\ Config(q)' = Config(q)
  BY SameExplanations DEF LinInv, Explained
<1>2. /\ DOMAIN Pending \subseteq DOMAIN Pending'
      /\ \A p \in DOMAIN Pending : Pending'[p] = Pending[p]
  BY DEF CallsStay, Pending
<1>3. LP!IsFiniteSet(DOMAIN Pending')
  <2>1. LP!Calls(Items, Pending)'
    BY PendingCalls, PTL
  <2>. QED
    BY <2>1 DEF LP!Calls
<1>4. Config(q) \in LP!Explanations(lin, Pending')
  BY <1>1, <1>2, <1>3, LP!ExplanationsGrow
<1>. QED
  BY <1>1, <1>4, SameExplanations DEF Explained

\* A step inside put: the item it stores was on its way.
LEMMA PutLin ==
  ASSUME IInv, QInv, QInv', LinInv, Own, NEW p \in Procs, PutStep(p), UNCHANGED queueVars
  PROVE  LinInv' /\ Own'
<1>. USE SentinelAssumption
<1>. DEFINE B == bk[p]
<1>0. /\ TypeOK /\ Content /\ Putting /\ B \in Baskets /\ p \in Slots
      /\ UNCHANGED <<TAIL, lossy, qpc, arg, tail, lin>>
      /\ qpc[p] = "enqPut" /\ x[p] = arg[p] /\ B = tail[p] /\ x[p] \in Items \ stored
      /\ pc[p] \in PutPcs
  BY PutEffect DEF IInv, QInv, Calling, queueVars, TypeOK, Procs, Slots, Putting
<1>1. /\ \A r \in Procs \ {p} : pc'[r] = pc[r] /\ res'[r] = res[r]
      /\ UNCHANGED <<bk, x>>
      /\ pc'[p] \in PutPcs \cup {"idle"}
  BY PutEffect
<1>2. \/ /\ UNCHANGED <<A, stored>>
         /\ pc'[p] = "idle" => res'[p] # OK
      \/ /\ A[B][p] = BOTTOM /\ A'[B][p] = x[p]
         /\ \A b \in Baskets, s \in Slots : b # B \/ s # p => A'[b][s] = A[b][s]
         /\ stored' = stored \cup {x[p]}
  <2>1. CASE PutStore(p)
    BY <1>0, <2>1 DEF PutStore, TypeOK
  <2>2. CASE PutState(p) \/ PutLoad(p) \/ PutTooLate(p)
    BY <1>0, <2>2 DEF PutState, PutLoad, PutTooLate, Goto, Return, shared, history, TypeOK, PutPcs
  <2>. QED
    BY <2>1, <2>2 DEF PutStep
<1>3. ASSUME NEW q \in Seq(Items), Fits(q, TAIL)'
      PROVE  Fits(q, TAIL) /\ Config(q)' = Config(q)
  <2>1. \A v \in Items, b \in Baskets : InBasket(v, b)' => InBasket(v, b)
    BY <1>0, <1>1, <1>2 DEF InBasket, Procs, Slots
  <2>2. Fits(q, TAIL)
    <3>1. \A i \in DOMAIN q : q[i] \in Items
      OBVIOUS
    <3>2. \A b \in Baskets, s \in Slots : A[b][s] \in Items => A'[b][s] = A[b][s]
      BY <1>0, <1>2
    <3>. QED
      BY <1>0, <1>3, <2>1, <3>1, <3>2 DEF Fits, In
  <2>3. ASSUME NEW r \in Procs PROVE AnswerIn(r, q)' = AnswerIn(r, q)
    <3>1. CASE r # p
      <4>1. qpc[r] = "enqPut" => arg[r] # x[p]
        BY <1>0, <3>1 DEF QInv, Enqueuing, EnqPcs
      <4>. QED
        BY <1>0, <1>1, <1>2, <3>1, <4>1 DEF AnswerIn, In
    <3>2. CASE r = p
      <4>1. In(arg[p], q)' = In(arg[p], q)
        BY <1>0 DEF In
      <4>2. arg[p] \in stored' /\ tail[p] < TAIL => In(arg[p], q)
        BY <1>0, <1>2, <1>3 DEF Fits, In
      <4>. QED
        BY <1>0, <3>2, <4>1, <4>2 DEF AnswerIn
    <3>. QED
      BY <3>1, <3>2
  <2>. QED
    BY <2>2, <2>3 DEF Config
<1>4. LinInv'
  BY <1>0, <1>3, StayExplained DEF CallsStay
<1>5. Own'
  <2>. SUFFICES ASSUME NEW r \in Procs, qpc[r] = "enqPut", pc'[r] = "idle", res'[r] = OK
                PROVE  /\ arg[r] \in stored'
                       /\ A'[tail[r]][r] \in {arg[r], TOP}
                       /\ \A b \in Baskets, s \in Slots : A'[b][s] = arg[r] => b = tail[r]
    BY <1>0 DEF Own
  <2>1. CASE r # p
    <3>1. arg[r] # x[p] /\ pc[r] = "idle" /\ res[r] = OK /\ tail[r] \in Baskets /\ r \in Slots
      BY <1>0, <1>1, <2>1, CapacityAssumption
      DEF QInv, Enqueuing, EnqPcs, Bounded, QueueTypeOK, Procs, Slots
    <3>. QED
      BY <1>0, <1>2, <2>1, <3>1 DEF Own
  <2>2. CASE r = p
    <3>1. \A b \in Baskets, s \in Slots : A[b][s] # x[p]
      BY <1>0 DEF Content
    <3>. QED
      BY <1>0, <1>2, <2>2, <3>1
  <2>. QED
    BY <2>1, <2>2
<1>. QED
  BY <1>4, <1>5

\* A step inside take that gets no item.
LEMMA TakeNothingLin ==
  ASSUME IInv, QInv, QInv', LinInv, Own, NEW p \in Procs, TakeStep(p), ~TakeItem(p),
         UNCHANGED queueVars
  PROVE  LinInv'
<1>. USE SentinelAssumption
<1>0. /\ TypeOK /\ pc[p] \in TakePcs /\ bk[p] \in Baskets
      /\ UNCHANGED <<TAIL, lossy, qpc, arg, tail, lin>> /\ qpc[p] = "deqTake"
  BY TakeEffect DEF IInv, QInv, Calling, queueVars, TypeOK
<1>1. /\ \A r \in Procs \ {p} : pc'[r] = pc[r] /\ res'[r] = res[r]
      /\ UNCHANGED <<bk, x, stored>>
      /\ pc'[p] \in TakePcs \cup {"idle"}
  BY TakeEffect
<1>2. /\ \A b \in Baskets, s \in Slots :
           A'[b][s] = A[b][s] \/ (A[b][s] = BOTTOM /\ A'[b][s] = TOP)
      /\ pc'[p] = "idle" => res'[p] = BASKET_CLOSED
  <2>1. CASE TakeEmpty(p)
    <3>1. A' = [A EXCEPT ![bk[p]][Slot(p)] = TOP] /\ A[bk[p]][Slot(p)] = BOTTOM
      BY <2>1 DEF TakeEmpty
    <3>2. pc'[p] # "idle"
      BY <2>1, <1>0 DEF TakeEmpty, Retry, NextSlot, Goto, TypeOK
    <3>3. \A b \in Baskets, s \in Slots :
            A'[b][s] = A[b][s] \/ (A[b][s] = BOTTOM /\ A'[b][s] = TOP)
      BY <3>1, <1>0 DEF TypeOK
    <3>. QED
      BY <3>2, <3>3
  <2>2. CASE TakeState(p) \/ TakeClose(p) \/ TakeLoad(p) \/ TakeLost(p)
    BY <1>0, <2>2 DEF TakeState, TakeClose, TakeLoad, TakeLost, Retry, NextSlot, Goto, Return,
       shared, TypeOK
  <2>. QED
    BY <2>1, <2>2 DEF TakeStep
<1>3. ASSUME NEW q \in Seq(Items), Fits(q, TAIL)'
      PROVE  Fits(q, TAIL) /\ Config(q)' = Config(q)
  <2>1. \A v \in Items, b \in Baskets : InBasket(v, b)' => InBasket(v, b)
    <3>1. \A r \in Procs : pc'[r] \in PutPcs => pc[r] \in PutPcs /\ r \in Slots
      BY <1>0, <1>1 DEF PutPcs, TakePcs, Procs, Slots
    <3>. QED
      BY <1>0, <1>1, <1>2, <3>1 DEF InBasket
  <2>2. Fits(q, TAIL)
    <3>1. \A i \in DOMAIN q : q[i] \in Items
      OBVIOUS
    <3>2. \A b \in Baskets, s \in Slots : A[b][s] \in Items => A'[b][s] = A[b][s]
      BY <1>0, <1>2
    <3>. QED
      BY <1>0, <1>3, <2>1, <3>1, <3>2 DEF Fits, In
  <2>3. ASSUME NEW r \in Procs PROVE AnswerIn(r, q)' = AnswerIn(r, q)
    BY <1>0, <1>1, <1>2 DEF AnswerIn, In, TakePcs
  <2>. QED
    BY <2>2, <2>3 DEF Config
<1>. QED
  BY <1>0, <1>3, StayExplained DEF CallsStay

\* The CAS that takes an item: no basket before has one, so it is the head of a
\* queue that fits, and the dequeue takes effect.
LEMMA TakeItemLin ==
  ASSUME IInv, QInv, QInv', Ahead, LinInv, Own, Looks,
         NEW p \in Procs, TakeItem(p), UNCHANGED queueVars
  PROVE  LinInv'
<1>. USE SentinelAssumption
<1>. DEFINE B == bk[p]
            v == val[p]
<1>0. /\ TypeOK /\ Content /\ Putting /\ Placed /\ Closing
      /\ pc[p] = "takeCas" /\ v \in Items /\ B \in Baskets
      /\ A[B][Slot(p)] = v /\ Slot(p) \in Slots
      /\ UNCHANGED <<HEAD, TAIL, lossy, qpc, arg, tail, lin>>
      /\ qpc[p] = "deqTake" /\ B = head[p] /\ B < TAIL /\ B <= HEAD
  <2>1. /\ TypeOK /\ Content /\ Putting /\ Placed /\ Closing /\ Sweep(p) /\ pc[p] = "takeCas"
        /\ UNCHANGED queueVars
    BY DEF IInv, TakeItem
  <2>2. v \in Items
    BY <2>1 DEF TakeItem, TypeOK, Sweep
  <2>3. Slot(p) \in Slots
    <3>1. pos[p] \in p .. p + N - 1
      BY <2>1, PositionRange DEF Sweep
    <3>. QED
      BY <3>1, Positions DEF Slot
  <2>4. qpc[p] = "deqTake" /\ B = head[p] /\ head[p] < TAIL /\ head[p] <= HEAD
    BY <2>1 DEF QInv, Calling, TakePcs, Ahead, Looks
  <2>. QED
    BY <2>1, <2>2, <2>3, <2>4 DEF queueVars, TakeItem, TypeOK
<1>1. /\ \A r \in Procs \ {p} : pc'[r] = pc[r] /\ res'[r] = res[r]
      /\ UNCHANGED <<bk, x, stored>>
      /\ pc'[p] = "idle" /\ res'[p] = v
  BY <1>0 DEF TakeItem, Return, TypeOK
<1>2. /\ \A b \in Baskets, s \in Slots : b # B \/ s # Slot(p) => A'[b][s] = A[b][s]
      /\ A'[B][Slot(p)] = TOP
  BY <1>0 DEF TakeItem, TypeOK
<1>. SUFFICES ASSUME ~lossy, NEW q \in Seq(Items), Fits(q, TAIL)' PROVE Explained(q)'
  BY <1>0 DEF LinInv
<1>. DEFINE c == <<v>> \o q
<1>3. PICK home \in [DOMAIN q -> Baskets] :
        /\ \A i \in DOMAIN q : home[i] < TAIL /\ InBasket(q[i], home[i])'
        /\ \A i, j \in DOMAIN q : i < j => home[i] <= home[j]
  BY <1>0 DEF Fits
<1>4. \A i \in DOMAIN q : q[i] \in Items
  OBVIOUS
<1>5. \A w \in Items, b \in Baskets : InBasket(w, b)' => InBasket(w, b) /\ w # v
  <2>. SUFFICES ASSUME NEW w \in Items, NEW b \in Baskets, InBasket(w, b)'
                PROVE  InBasket(w, b) /\ w # v
    OBVIOUS
  <2>1. CASE \E s \in Slots : A'[b][s] = w
    <3>1. PICK s \in Slots : A'[b][s] = w
      BY <2>1
    <3>2. A[b][s] = w /\ (b # B \/ s # Slot(p))
      BY <1>0, <1>2, <3>1
    <3>. QED
      BY <3>2, <1>0 DEF InBasket, Placed
  <2>2. CASE ~\E s \in Slots : A'[b][s] = w
    <3>1. PICK r \in Procs : pc'[r] \in PutPcs /\ x[r] = w /\ bk[r] = b /\ A'[b][r] = BOTTOM
      BY <2>2, <1>1 DEF InBasket
    <3>2. pc[r] \in PutPcs /\ A[b][r] = BOTTOM
      BY <1>0, <1>1, <1>2, <3>1 DEF PutPcs, Procs, Slots
    <3>3. w \notin stored /\ v \in stored
      BY <3>1, <3>2, <1>0 DEF Putting, Content
    <3>. QED
      BY <3>1, <3>2, <3>3 DEF InBasket
  <2>. QED
    BY <2>1, <2>2
<1>6. \A b \in Baskets, w \in Items : InBasket(w, b) => B <= b
  <2>. SUFFICES ASSUME NEW b \in Baskets, NEW w \in Items, InBasket(w, b), b < B PROVE FALSE
    BY <1>0, CapacityAssumption
  <2>1. b < HEAD
    BY <1>0, CapacityAssumption DEF QInv, QueueTypeOK
  <2>2. \A s \in Slots : A[b][s] = TOP
    BY <1>0, <2>1 DEF QInv, Passed, Closing
  <2>. QED
    BY <2>2 DEF InBasket, Procs, Slots
<1>7. Fits(c, TAIL)
  <2>. HIDE DEF v
  <2>1. /\ DOMAIN c = 1 .. Len(q) + 1 /\ DOMAIN q = 1 .. Len(q) /\ Len(q) \in Nat
        /\ c[1] = v /\ \A i \in 1 .. Len(q) : c[i + 1] = q[i]
    BY <1>0, LP!Cons
  <2>. HIDE DEF c
  <2>2. \A i \in DOMAIN c : i # 1 => i - 1 \in DOMAIN q /\ c[i] = q[i - 1]
    <3>. SUFFICES ASSUME NEW i \in DOMAIN c, i # 1 PROVE i - 1 \in DOMAIN q /\ c[i] = q[i - 1]
      OBVIOUS
    <3>1. i - 1 \in 1 .. Len(q) /\ (i - 1) + 1 = i
      BY <2>1
    <3>. QED
      BY <2>1, <3>1
  <2>3. \A i \in DOMAIN q : q[i] # v /\ InBasket(q[i], home[i]) /\ B <= home[i]
    BY <1>3, <1>4, <1>5, <1>6
  <2>4. ASSUME NEW i \in DOMAIN c, NEW j \in DOMAIN c, c[i] = c[j] PROVE i = j
    <3>1. \A k, l \in DOMAIN q : q[k] = q[l] => k = l
      BY DEF Fits
    <3>2. CASE i = 1 \/ j = 1
      BY <2>1, <2>2, <2>3, <2>4, <3>2
    <3>3. CASE i # 1 /\ j # 1
      <4>1. i - 1 = j - 1
        BY <2>2, <2>4, <3>1, <3>3
      <4>. QED
        BY <4>1, <2>1
    <3>. QED
      BY <3>2, <3>3
  <2>. DEFINE h == [i \in DOMAIN c |-> IF i = 1 THEN B ELSE home[i - 1]]
  <2>5. h \in [DOMAIN c -> Baskets]
    BY <1>0, <1>3, <2>2
  <2>6. \A i \in DOMAIN c : h[i] < TAIL /\ InBasket(c[i], h[i])
    <3>1. InBasket(v, B)
      BY <1>0 DEF InBasket
    <3>. QED
      BY <1>0, <1>3, <2>1, <2>2, <2>3, <3>1
  <2>7. ASSUME NEW i \in DOMAIN c, NEW j \in DOMAIN c, i < j PROVE h[i] <= h[j]
    <3>1. j # 1 /\ j - 1 \in DOMAIN q
      BY <2>1, <2>2, <2>7
    <3>2. CASE i = 1
      BY <2>3, <3>1, <3>2
    <3>3. CASE i # 1
      <4>1. i - 1 \in DOMAIN q /\ i - 1 < j - 1
        BY <2>1, <2>2, <2>7, <3>3
      <4>. QED
        BY <1>3, <3>1, <3>3, <4>1
    <3>. QED
      BY <3>2, <3>3
  <2>8. ASSUME NEW b \in Baskets, NEW s \in Slots, b < TAIL, A[b][s] \in Items
        PROVE  In(A[b][s], c)
    <3>1. CASE b = B /\ s = Slot(p)
      BY <1>0, <2>1, <3>1 DEF In
    <3>2. CASE b # B \/ s # Slot(p)
      <4>1. In(A[b][s], q)
        BY <1>0, <1>2, <2>8, <3>2 DEF Fits, In
      <4>2. PICK i \in 1 .. Len(q) : q[i] = A[b][s]
        BY <2>1, <4>1 DEF In
      <4>3. i + 1 \in DOMAIN c /\ c[i + 1] = q[i]
        BY <2>1
      <4>. QED
        BY <4>2, <4>3 DEF In
    <3>. QED
      BY <3>1, <3>2
  <2>. HIDE DEF h
  <2>. QED
    BY <2>4, <2>5, <2>6, <2>7, <2>8 DEF Fits
<1>8. Config(c) \in LP!Explanations(lin, Pending)
  BY <1>0, <1>7, LP!Cons, SameExplanations DEF LinInv, Explained
<1>9. p \in DOMAIN Pending /\ Pending[p] = DEQUEUE /\ Config(c).ans[p] = NONE
  BY <1>0 DEF Pending, EnqPcs, Config, AnswerIn
<1>10. LP!TakeEffect(Config(c), p, DEQUEUE) = Config(q)'
  <2>. HIDE DEF v
  <2>1. c # <<>> /\ Head(c) = v /\ Tail(c) = q
    BY <1>0, LP!Cons
  <2>2. \A w : In(w, c) <=> In(w, q) \/ w = v
    <3>. SUFFICES ASSUME NEW w PROVE In(w, c) <=> In(w, q) \/ w = v
      OBVIOUS
    <3>0. /\ DOMAIN c = 1 .. Len(q) + 1 /\ DOMAIN q = 1 .. Len(q) /\ Len(q) \in Nat
          /\ c[1] = v /\ \A i \in 1 .. Len(q) : c[i + 1] = q[i]
      BY <1>0, LP!Cons
    <3>. HIDE DEF c
    <3>1. ASSUME NEW i \in DOMAIN c, c[i] = w, w # v PROVE In(w, q)
      <4>1. i # 1 /\ i - 1 \in 1 .. Len(q) /\ (i - 1) + 1 = i
        BY <3>0, <3>1
      <4>2. q[i - 1] = w
        BY <3>0, <3>1, <4>1
      <4>. QED
        BY <3>0, <4>1, <4>2 DEF In
    <3>2. ASSUME NEW i \in DOMAIN q, q[i] = w PROVE In(w, c)
      <4>1. i + 1 \in DOMAIN c /\ c[i + 1] = w
        BY <3>0, <3>2
      <4>. QED
        BY <4>1 DEF In
    <3>3. In(v, c)
      BY <3>0 DEF In
    <3>. QED
      BY <3>1, <3>2, <3>3 DEF In
  <2>. HIDE DEF c
  <2>3. ASSUME NEW r \in Procs \ {p} PROVE AnswerIn(r, c) = AnswerIn(r, q)'
    <3>1. qpc[r] = "enqPut" /\ arg[r] = v => arg[r] \in stored /\ tail[r] < TAIL
      <4>. SUFFICES ASSUME qpc[r] = "enqPut", arg[r] = v PROVE arg[r] \in stored /\ tail[r] < TAIL
        OBVIOUS
      <4>1. v \in stored
        BY <1>0 DEF Content
      <4>2. pc[r] = "idle" /\ res[r] = OK
        BY <4>1 DEF QInv, Enqueuing, EnqPcs
      <4>3. B = tail[r]
        BY <1>0, <4>2 DEF Own
      <4>. QED
        BY <1>0, <4>1, <4>3
    <3>2. In(arg[r], q)' = In(arg[r], q)
      BY <1>0 DEF In
    <3>. QED
      BY <1>0, <1>1, <2>2, <3>1, <3>2 DEF AnswerIn
  <2>4. AnswerIn(p, q)' = v
    BY <1>0, <1>1 DEF AnswerIn
  <2>5. LP!TakeEffect(Config(c), p, DEQUEUE) =
          [q |-> q, ans |-> [Config(c).ans EXCEPT ![p] = v]]
    BY <2>1 DEF LP!TakeEffect, LP!Answer, Config
  <2>6. [Config(c).ans EXCEPT ![p] = v] = [r \in Procs |-> AnswerIn(r, q)']
    BY <2>3, <2>4 DEF Config
  <2>. QED
    BY <2>5, <2>6 DEF Config
<1>11. Config(q)' \in LP!Explanations(lin, Pending)
  BY <1>8, <1>9, <1>10, PendingCalls, LP!ExplanationsClosed DEF LinInv
<1>12. Pending' = Pending
  BY <1>0 DEF Pending
<1>. QED
  BY <1>0, <1>11, <1>12, SameExplanations DEF Explained

-----------------------------------------------------------------------------
\* A response: what fits after it explained the answer before.
LEMMA Responded ==
  ASSUME QInv, IInv', QInv', LinInv, NEW p \in Procs, NEW r, qpc'[p] = "idle", lossy' = lossy,
         lin' = L!Respond(lin, Pending, p, r),
         ~lossy => \A q \in Seq(Items) : Fits(q, TAIL)' =>
                     LP!Answer(Config(q)', p, r, q) \in L!Explanations(lin, Pending)
  PROVE  LinInv'
<1>1. lin' \subseteq LP!Configurations(Items)
  BY PendingCalls, SameExplanations, LP!RespondTyped DEF LinInv
<1>2. ASSUME ~lossy, NEW q \in Seq(Items), Fits(q, TAIL)' PROVE Explained(q)'
  <2>1. Config(q)' \in LP!Configurations(Items)
    <3>1. \A t \in Procs : AnswerIn(t, q)' \in Items \cup {OK, EMPTY, NONE}
      BY DEF AnswerIn
    <3>. QED
      BY <3>1 DEF Config, LP!Configurations
  <2>2. (Config(q)').ans[p] = NONE /\ (Config(q)').q = q
    BY DEF Config, AnswerIn
  <2>3. LP!IsFiniteSet(DOMAIN Pending')
    <3>1. LP!Calls(Items, Pending)'
      BY PendingCalls, PTL
    <3>. QED
      BY <3>1 DEF LP!Calls
  <2>4. LP!Answer(Config(q)', p, r, (Config(q)').q) \in LP!Explanations(lin, Pending)
    BY <1>2, <2>2, SameExplanations
  <2>5. Config(q)' \in LP!Explanations(LP!Respond(lin, Pending, p, r), Pending')
    BY <2>1, <2>2, <2>3, <2>4, LP!RespondKeeps
  <2>. QED
    BY <2>5, SameExplanations DEF Explained
<1>. QED
  BY <1>1, <1>2 DEF LinInv

\* Steps that leave the baskets and TAIL alone, of a thread that is in no put.
LEMMA QuietLin ==
  ASSUME IInv, QInv, QInv', LinInv, Own, NEW p \in Procs,
         UNCHANGED <<A, stored, res, TAIL, lossy, lin>>, CallsStay,
         pc[p] = "idle", qpc[p] # "enqPut", qpc'[p] # "enqPut",
         qpc[p] = "deqTake" => res[p] \notin Items,
         qpc'[p] = "deqTake" => pc'[p] # "idle", pc'[p] \notin PutPcs,
         \A r \in Procs \ {p} : /\ pc'[r] = pc[r] /\ x'[r] = x[r] /\ bk'[r] = bk[r]
                                /\ qpc'[r] = qpc[r] /\ arg'[r] = arg[r] /\ tail'[r] = tail[r]
  PROVE  LinInv' /\ Own'
<1>1. ASSUME NEW q \in Seq(Items), Fits(q, TAIL)'
      PROVE  Fits(q, TAIL) /\ Config(q)' = Config(q)
  <2>1. \A v \in Items, b \in Baskets : InBasket(v, b)' => InBasket(v, b)
    BY DEF InBasket
  <2>2. Fits(q, TAIL)
    <3>1. \A i \in DOMAIN q : q[i] \in Items
      OBVIOUS
    <3>. QED
      BY <1>1, <2>1, <3>1 DEF Fits, In
  <2>3. ASSUME NEW r \in Procs PROVE AnswerIn(r, q)' = AnswerIn(r, q)
    BY DEF AnswerIn, In
  <2>. QED
    BY <2>2, <2>3 DEF Config
<1>2. LinInv'
  BY <1>1, StayExplained
<1>3. Own'
  BY DEF Own
<1>. QED
  BY <1>2, <1>3

LEMMA CallLin ==
  ASSUME IInv, QInv, QInv', LinInv, Own, Looks,
         NEW p \in Procs, QueueCall(p), UNCHANGED basketVars
  PROVE  LinInv' /\ Own' /\ Looks'
<1>. USE DEF basketVars, shared, local, history, queueShared, queueHistory, GoOn
<1>0. QueueTypeOK /\ Calling /\ TypeOK
  BY DEF QInv, IInv
<1>1. /\ UNCHANGED <<A, stored, res, pc, x, bk, HEAD, TAIL, lossy, lin, head, tail, hhead>>
      /\ qpc[p] = "idle" /\ qpc'[p] \in {"enqLL", "deqHead"}
      /\ \A r \in Procs \ {p} : qpc'[r] = qpc[r] /\ arg'[r] = arg[r]
  BY <1>0 DEF QueueCall, Enqueue, Dequeue, QueueTypeOK
<1>2. pc[p] = "idle"
  BY <1>0, <1>1 DEF Calling, TypeOK
<1>3. LinInv' /\ Own'
  BY <1>1, <1>2, QuietLin DEF CallsStay, PutPcs
<1>4. Looks'
  BY <1>1 DEF Looks
<1>. QED
  BY <1>3, <1>4

\* enqueue calls put: its item is for the basket at TAIL, which does not count yet.
LEMMA EnqLLLin ==
  ASSUME IInv, QInv, QInv', LinInv, Own, Looks, NEW p \in Procs, EnqLL(p), BasketCall(p)
  PROVE  LinInv' /\ Own' /\ Looks'
<1>. USE DEF GoOn, queueShared, queueHistory
<1>0. /\ QueueTypeOK /\ Calling /\ Enqueuing /\ TypeOK /\ Content /\ Putting
      /\ qpc[p] = "enqLL" /\ UNCHANGED <<HEAD, TAIL, lossy, arg, head, hhead, lin>>
      /\ tail'[p] = TAIL /\ \A r \in Procs \ {p} : tail'[r] = tail[r] /\ qpc'[r] = qpc[r]
      /\ qpc'[p] \in {"enqPut", "overrun"} /\ TAIL \in Nat
  BY DEF QInv, IInv, EnqLL, QueueTypeOK
<1>1. /\ UNCHANGED <<A, stored, res>>
      /\ \A r \in Procs \ {p} : pc'[r] = pc[r] /\ x'[r] = x[r] /\ bk'[r] = bk[r]
      /\ IF qpc'[p] = "enqPut" THEN pc'[p] = "putState" /\ bk'[p] = TAIL ELSE pc'[p] = "idle"
      /\ pc[p] = "idle"
  <2>1. pc[p] = "idle"
    BY <1>0 DEF Calling, TypeOK
  <2>2. CASE qpc'[p] = "enqPut"
    BY <1>0, <2>1, <2>2 DEF BasketCall, PutCall, Goto, shared, history, TypeOK
  <2>3. CASE qpc'[p] = "overrun"
    BY <1>0, <2>1, <2>3 DEF BasketCall, basketVars, shared, local, history
  <2>. QED
    BY <1>0, <2>1, <2>2, <2>3
<1>2. ASSUME NEW q \in Seq(Items), Fits(q, TAIL)'
      PROVE  Fits(q, TAIL) /\ Config(q)' = Config(q)
  <2>1. \A v \in Items, b \in Baskets : b < TAIL /\ InBasket(v, b)' => InBasket(v, b)
    BY <1>0, <1>1, CapacityAssumption DEF InBasket, PutPcs
  <2>2. \A i \in DOMAIN q : q[i] \in Items
    OBVIOUS
  <2>3. Fits(q, TAIL)
    BY <1>0, <1>1, <1>2, <2>1, <2>2 DEF Fits, In
  <2>4. ~In(arg[p], q)
    <3>. SUFFICES ASSUME NEW b \in Baskets, InBasket(arg[p], b), arg[p] \in Items PROVE FALSE
      BY <2>2, <2>3 DEF Fits, In
    <3>1. \A r \in Procs : qpc[r] = "enqPut" => arg[r] # arg[p]
      BY <1>0 DEF Enqueuing, EnqPcs
    <3>2. arg[p] \notin stored
      BY <1>0 DEF Enqueuing, EnqPcs
    <3>. QED
      BY <1>0, <3>1, <3>2 DEF InBasket, Content, Calling
  <2>5. ASSUME NEW r \in Procs PROVE AnswerIn(r, q)' = AnswerIn(r, q)
    <3>1. In(arg[r], q)' = In(arg[r], q)
      BY <1>0 DEF In
    <3>2. CASE r = p
      BY <1>0, <1>1, <2>4, <3>1, <3>2 DEF AnswerIn
    <3>3. CASE r # p
      BY <1>0, <1>1, <3>1, <3>3 DEF AnswerIn
    <3>. QED
      BY <3>2, <3>3
  <2>. QED
    BY <2>3, <2>5 DEF Config
<1>3. LinInv'
  BY <1>0, <1>2, StayExplained DEF CallsStay, EnqPcs
<1>4. Own'
  BY <1>0, <1>1 DEF Own
<1>5. Looks'
  BY <1>0 DEF Looks
<1>. QED
  BY <1>3, <1>4, <1>5

\* enqueue moves TAIL: the items of the basket at TAIL take effect, its own among them
\* if it returns.
LEMMA EnqICLin ==
  ASSUME IInv, QInv, Ahead, IInv', QInv', LinInv, Own, Looks,
         NEW p \in Procs, EnqIC(p), UNCHANGED basketVars
  PROVE  LinInv' /\ Own' /\ Looks'
<1>. USE SentinelAssumption DEF GoOn
<1>0. /\ QueueTypeOK /\ TypeOK /\ qpc[p] = "enqPut" /\ pc[p] = "idle"
      /\ UNCHANGED <<A, State, pc, bk, x, res, stored, HEAD, lossy, arg, head, tail, hhead>>
      /\ qpc'[p] \in {"idle", "enqLL"} /\ \A r \in Procs \ {p} : qpc'[r] = qpc[r]
      /\ ~lossy => TAIL' = IC(TAIL, tail[p])
      /\ tail[p] \in Baskets /\ tail[p] \in Nat /\ tail[p] <= TAIL /\ TAIL \in Nat
  BY CapacityAssumption DEF QInv, IInv, EnqIC, Answer, QueueTypeOK, Bounded, basketVars, shared, local,
    history, ICValues
<1>1. ~lossy => (TAIL' = TAIL \/ TAIL' = TAIL + 1) /\ tail[p] < TAIL'
  BY <1>0 DEF IC
<1>. DEFINE Others(q) == \A r \in Procs \ {p} : AnswerIn(r, q)' = AnswerIn(r, q)
<1>2. ASSUME ~lossy, NEW q \in Seq(Items), Fits(q, TAIL)'
      PROVE  Explained(q) /\ Others(q) /\ (res[p] = OK => AnswerIn(p, q) = OK)
  <2>. DEFINE Stored(r) == qpc[r] = "enqPut" /\ arg[r] \in stored /\ tail[r] < TAIL'
  <2>1. ASSUME NEW r \in Procs, Stored(r) PROVE AnswerIn(r, q) = OK
    <3>1. CASE tail[r] < TAIL
      BY <2>1, <3>1 DEF AnswerIn
    <3>2. CASE ~(tail[r] < TAIL)
      <4>1. pc[r] = "idle" /\ res[r] = OK /\ tail[r] \in Baskets /\ r \in Slots
        BY <2>1, CapacityAssumption DEF QInv, Enqueuing, EnqPcs, Bounded, QueueTypeOK, Procs, Slots
      <4>2. A[tail[r]][r] = arg[r]
        BY <2>1, <3>2, <4>1, <1>0, CapacityAssumption DEF Own, Ahead, QueueTypeOK
      <4>3. arg[r] \in Items
        BY <2>1, <1>0 DEF TypeOK
      <4>4. In(arg[r], q)
        BY <1>0, <1>2, <2>1, <4>1, <4>2, <4>3 DEF Fits, In
      <4>. QED
        BY <2>1, <4>4 DEF AnswerIn
    <3>. QED
      BY <3>1, <3>2
  <2>2. Others(q)
    <3>. SUFFICES ASSUME NEW r \in Procs \ {p} PROVE AnswerIn(r, q)' = AnswerIn(r, q)
      OBVIOUS
    <3>0. tail[r] < TAIL => tail[r] < TAIL'
      BY <1>0, <1>1, <1>2 DEF QueueTypeOK
    <3>1. CASE Stored(r)
      <4>1. AnswerIn(r, q)' = OK
        BY <1>0, <3>1 DEF AnswerIn
      <4>. QED
        BY <2>1, <3>1, <4>1
    <3>2. CASE ~Stored(r)
      <4>1. In(arg[r], q)' = In(arg[r], q)
        BY <1>0 DEF In
      <4>. QED
        BY <1>0, <3>0, <3>2, <4>1 DEF AnswerIn
    <3>. QED
      BY <3>1, <3>2
  <2>3. ASSUME res[p] = OK PROVE AnswerIn(p, q) = OK
    <3>1. Stored(p)
      BY <1>0, <1>1, <1>2, <2>3 DEF Own
    <3>. QED
      BY <2>1, <3>1
  <2>4. Fits(q, TAIL + 1)
    <3>1. \A v \in Items, b \in Baskets : InBasket(v, b)' => InBasket(v, b)
      BY <1>0 DEF InBasket
    <3>2. \A i \in DOMAIN q : q[i] \in Items
      OBVIOUS
    <3>3. \A b \in Baskets : /\ b < TAIL' => b < TAIL + 1
                             /\ b < TAIL => b < TAIL'
      BY <1>0, <1>1, <1>2, CapacityAssumption
    <3>. QED
      BY <1>0, <1>2, <3>1, <3>2, <3>3 DEF Fits, In
  <2>. QED
    BY <1>2, <2>2, <2>3, <2>4, Batch
<1>3. LinInv'
  <2>1. CASE res[p] = OK
    <3>1. lin' = L!Respond(lin, Pending, p, OK) /\ qpc'[p] = "idle"
      BY <1>0, <2>1 DEF EnqIC, Answer, QueueTypeOK
    <3>2. ASSUME ~lossy, NEW q \in Seq(Items), Fits(q, TAIL)'
          PROVE  LP!Answer(Config(q)', p, OK, q) \in L!Explanations(lin, Pending)
      <4>1. [(Config(q)').ans EXCEPT ![p] = OK] = Config(q).ans
        BY <1>2, <2>1, <3>2 DEF Config
      <4>2. LP!Answer(Config(q)', p, OK, q) = Config(q)
        BY <4>1 DEF LP!Answer, Config
      <4>. QED
        BY <1>2, <3>2, <4>2 DEF Explained
    <3>. QED
      BY <1>0, <3>1, <3>2, Responded
  <2>2. CASE res[p] # OK
    <3>1. lin' = lin /\ qpc'[p] = "enqLL"
      BY <1>0, <2>2 DEF EnqIC, QueueTypeOK
    <3>2. ASSUME ~lossy, NEW q \in Seq(Items), Fits(q, TAIL)' PROVE Explained(q)'
      <4>1. arg[p] \notin stored /\ ~In(arg[p], q)
        <5>1. arg[p] \notin stored
          BY <1>0, <2>2 DEF QInv, Enqueuing, EnqPcs
        <5>2. \A i \in DOMAIN q : \E b \in Baskets : InBasket(q[i], b)'
          BY <3>2 DEF Fits
        <5>3. \A v, b : v = arg[p] /\ b \in Baskets => ~InBasket(v, b)'
          <6>1. \A r \in Procs : pc[r] \in PutPcs => x[r] # arg[p]
            BY <1>0 DEF QInv, Calling, Enqueuing, EnqPcs, PutPcs
          <6>2. arg[p] \in Items
            BY <1>0 DEF QInv, Enqueuing, EnqPcs, QueueTypeOK
          <6>3. \A b \in Baskets, s \in Slots : A[b][s] # arg[p]
            BY <5>1, <6>2 DEF IInv, Content
          <6>. QED
            BY <1>0, <6>1, <6>3 DEF InBasket
        <5>. QED
          BY <5>1, <5>2, <5>3 DEF In
      <4>2. AnswerIn(p, q)' = AnswerIn(p, q)
        BY <1>0, <3>1, <4>1 DEF AnswerIn
      <4>3. Config(q)' = Config(q)
        BY <1>2, <3>2, <4>2 DEF Config
      <4>4. Pending' = Pending
        BY <1>0, <3>1 DEF Pending, EnqPcs
      <4>5. Config(q) \in LP!Explanations(lin, Pending)
        BY <1>2, <3>2, SameExplanations DEF Explained
      <4>. QED
        BY <3>1, <4>3, <4>4, <4>5, SameExplanations DEF Explained
    <3>. QED
      BY <1>0, <3>1, <3>2 DEF LinInv
  <2>. QED
    BY <2>1, <2>2
<1>4. Own'
  BY <1>0 DEF Own
<1>5. Looks'
  BY <1>0 DEF Looks
<1>. QED
  BY <1>3, <1>4, <1>5

\* dequeue: the answer of a take is the one that took effect; EMPTY is answered only
\* when HEAD has met TAIL, so that nothing fits but the empty queue.
LEMMA DeqLin ==
  ASSUME IInv, QInv, IInv', QInv', LinInv, Own, Looks, Got,
         NEW p \in Procs, DeqStep(p), BasketCall(p)
  PROVE  LinInv' /\ Own' /\ Looks'
<1>. USE SentinelAssumption DEF GoOn, queueShared, queueHistory
<1>0. QueueTypeOK /\ Calling /\ TypeOK /\ HEAD \in Nat /\ TAIL \in Nat
  BY CapacityAssumption DEF QInv, IInv, QueueTypeOK
<1>1. /\ UNCHANGED <<TAIL, lossy, arg>>
      /\ qpc[p] \in DeqPcs /\ pc[p] = "idle" /\ qpc'[p] \in DeqPcs \cup {"idle"}
      /\ \A r \in Procs \ {p} : qpc'[r] = qpc[r] /\ head'[r] = head[r] /\ tail'[r] = tail[r]
      /\ \A r \in Procs \ {p} : hhead'[r] = hhead[r]
  BY <1>0 DEF DeqStep, DeqHead, DeqTail, DeqItem, DeqIC, DeqHHead, DeqTTail, Loop, Answer,
     AnswerEmpty, QueueTypeOK, DeqPcs, Calling, TypeOK
<1>2. /\ UNCHANGED <<A, State, stored, drained, res, x>>
      /\ \A r \in Procs \ {p} : pc'[r] = pc[r] /\ bk'[r] = bk[r]
      /\ IF qpc'[p] = "deqTake" THEN pc'[p] = "takeState" ELSE pc'[p] = "idle"
  <2>1. qpc'[p] # "enqPut"
    BY <1>1 DEF DeqPcs
  <2>2. CASE qpc'[p] = "deqTake"
    BY <2>1, <2>2, <1>0 DEF BasketCall, TakeCall, Goto, shared, history, TypeOK
  <2>3. CASE qpc'[p] # "deqTake"
    BY <2>1, <2>3, <1>1 DEF BasketCall, basketVars, shared, local, history
  <2>. QED
    BY <2>2, <2>3
<1>3. Looks'
  <2>1. HEAD <= HEAD'
    BY <1>0 DEF DeqStep, DeqHead, DeqTail, DeqItem, DeqIC, DeqHHead, DeqTTail, IC, ICValues
  <2>2. ASSUME NEW r \in Procs \ {p}
        PROVE  /\ head'[r] <= HEAD' /\ hhead'[r] <= HEAD'
               /\ qpc'[r] = "deqHHead" => tail'[r] <= head'[r] \/ lossy' \/ head'[r] < HEAD'
               /\ qpc'[r] = "deqTTail" /\ hhead'[r] = head'[r] => lossy' \/ tail'[r] <= head'[r]
    <3>1. head[r] \in Nat /\ hhead[r] \in Nat /\ HEAD' \in Nat
      BY <1>0, CapacityAssumption DEF QueueTypeOK, QInv
    <3>. QED
      BY <1>0, <1>1, <2>1, <3>1 DEF Looks
  <2>3. /\ head'[p] <= HEAD' /\ hhead'[p] <= HEAD'
        /\ qpc'[p] = "deqHHead" => tail'[p] <= head'[p] \/ lossy' \/ head'[p] < HEAD'
        /\ qpc'[p] = "deqTTail" /\ hhead'[p] = head'[p] => lossy' \/ tail'[p] <= head'[p]
    <3>0. /\ head[p] \in Nat /\ hhead[p] \in Nat /\ tail[p] \in Nat
          /\ head[p] <= HEAD /\ hhead[p] <= HEAD
          /\ qpc[p] = "deqHHead" => tail[p] <= head[p] \/ lossy \/ head[p] < HEAD
          /\ qpc[p] = "deqTTail" /\ hhead[p] = head[p] => lossy \/ tail[p] <= head[p]
      BY <1>0, CapacityAssumption DEF QueueTypeOK, Looks
    <3>. USE <1>0, <3>0, <1>1, <2>1 DEF QueueTypeOK
    <3>1. CASE DeqHead(p)
      BY <3>1 DEF DeqHead
    <3>2. CASE DeqTail(p)
      BY <3>2 DEF DeqTail, Loop
    <3>3. CASE DeqItem(p)
      BY <3>3 DEF DeqItem, Answer
    <3>4. CASE DeqIC(p)
      BY <3>4 DEF DeqIC, IC, ICValues
    <3>5. CASE DeqHHead(p)
      BY <3>5 DEF DeqHHead
    <3>6. CASE DeqTTail(p)
      <4>1. CASE hhead[p] = head[p] /\ TAIL = tail[p]
        BY <3>6, <4>1 DEF DeqTTail, AnswerEmpty
      <4>2. CASE ~(hhead[p] = head[p] /\ TAIL = tail[p])
        BY <3>6, <4>2 DEF DeqTTail, Loop
      <4>. QED
        BY <4>1, <4>2
    <3>. QED
      BY <3>1, <3>2, <3>3, <3>4, <3>5, <3>6 DEF DeqStep
  <2>. QED
    BY <2>2, <2>3 DEF Looks
<1>4. Own'
  BY <1>1, <1>2 DEF Own, DeqPcs
<1>. DEFINE Same == \A q \in Seq(Items) : Fits(q, TAIL)' =>
                      /\ Fits(q, TAIL)
                      /\ \A r \in Procs \ {p} : AnswerIn(r, q)' = AnswerIn(r, q)
<1>5. Same
  <2>. SUFFICES ASSUME NEW q \in Seq(Items), Fits(q, TAIL)'
                PROVE  /\ Fits(q, TAIL)
                       /\ \A r \in Procs \ {p} : AnswerIn(r, q)' = AnswerIn(r, q)
    OBVIOUS
  <2>1. \A v \in Items, b \in Baskets : InBasket(v, b)' => InBasket(v, b)
    BY <1>2 DEF InBasket, PutPcs
  <2>2. \A i \in DOMAIN q : q[i] \in Items
    OBVIOUS
  <2>3. Fits(q, TAIL)
    BY <1>1, <1>2, <2>1, <2>2 DEF Fits, In
  <2>4. ASSUME NEW r \in Procs \ {p} PROVE AnswerIn(r, q)' = AnswerIn(r, q)
    BY <1>1, <1>2 DEF AnswerIn, In
  <2>. QED
    BY <2>3, <2>4
<1>6. CASE lin' = lin /\ qpc'[p] # "idle" /\ (qpc[p] = "deqTake" => res[p] \notin Items)
  BY <1>1, <1>2, <1>3, <1>6, QuietLin DEF CallsStay, DeqPcs, EnqPcs, PutPcs
<1>7. CASE DeqItem(p)
  <2>1. /\ qpc[p] = "deqTake" /\ pc[p] = "idle" /\ res[p] # BASKET_CLOSED
        /\ lin' = L!Respond(lin, Pending, p, res[p]) /\ qpc'[p] = "idle"
    BY <1>0, <1>7 DEF DeqItem, Answer, QueueTypeOK
  <2>2. res[p] \in Items
    BY <2>1 DEF Got
  <2>3. ASSUME ~lossy, NEW q \in Seq(Items), Fits(q, TAIL)'
        PROVE  LP!Answer(Config(q)', p, res[p], q) \in L!Explanations(lin, Pending)
    <3>1. AnswerIn(p, q) = res[p]
      BY <2>1, <2>2 DEF AnswerIn
    <3>2. [(Config(q)').ans EXCEPT ![p] = res[p]] = Config(q).ans
      BY <1>5, <2>3, <3>1 DEF Config
    <3>3. LP!Answer(Config(q)', p, res[p], q) = Config(q)
      BY <3>2 DEF LP!Answer, Config
    <3>. QED
      BY <1>1, <1>5, <2>3, <3>3 DEF LinInv, Explained
  <2>4. LinInv'
    BY <1>1, <2>1, <2>3, Responded
  <2>. QED
    BY <1>3, <1>4, <2>4
<1>8. CASE DeqTTail(p) /\ hhead[p] = head[p] /\ TAIL = tail[p]
  <2>1. CASE lossy
    <3>1. lin' = L!Withdraw(lin, p)
      BY <1>8, <2>1 DEF DeqTTail, AnswerEmpty
    <3>2. lin' \subseteq LP!Configurations(Items)
      BY <3>1 DEF LinInv, L!Withdraw, LP!Configurations
    <3>. QED
      BY <1>1, <1>3, <1>4, <2>1, <3>2 DEF LinInv
  <2>2. CASE ~lossy
    <3>1. lin' = L!Respond(lin, Pending, p, EMPTY) /\ qpc'[p] = "idle" /\ qpc[p] = "deqTTail"
      BY <1>0, <1>8, <2>2 DEF DeqTTail, AnswerEmpty, QueueTypeOK
    <3>2. TAIL <= HEAD
      BY <1>0, <1>8, <2>2, <3>1 DEF Looks, QueueTypeOK
    <3>3. ASSUME NEW q \in Seq(Items), Fits(q, TAIL)'
          PROVE  LP!Answer(Config(q)', p, EMPTY, q) \in L!Explanations(lin, Pending)
      <4>1. Fits(q, TAIL) /\ Config(q) \in LP!Explanations(lin, Pending)
        BY <1>5, <2>2, <3>3, SameExplanations DEF LinInv, Explained
      <4>2. q = <<>>
        <5>1. ASSUME NEW b \in Baskets, NEW v \in Items, b < TAIL PROVE ~InBasket(v, b)
          <6>1. \A s \in Slots : A[b][s] = TOP
            BY <1>0, <3>2, <5>1, CapacityAssumption DEF QInv, Passed, IInv, Closing
          <6>. QED
            BY <6>1 DEF InBasket, Procs, Slots
        <5>2. \A i \in DOMAIN q : q[i] \in Items
          OBVIOUS
        <5>3. DOMAIN q = {}
          BY <4>1, <5>1, <5>2 DEF Fits
        <5>4. ~(1 \in DOMAIN q) /\ DOMAIN q = 1 .. Len(q) /\ Len(q) \in Nat
          BY <5>3
        <5>. QED
          BY <5>4
      <4>3. p \in DOMAIN Pending /\ Pending[p] = DEQUEUE /\ Config(q).ans[p] = NONE
        BY <3>1 DEF Pending, EnqPcs, Config, AnswerIn
      <4>4. LP!TakeEffect(Config(q), p, DEQUEUE) = LP!Answer(Config(q), p, EMPTY, q)
        BY <4>2 DEF LP!TakeEffect, Config
      <4>5. [(Config(q)').ans EXCEPT ![p] = EMPTY] = [Config(q).ans EXCEPT ![p] = EMPTY]
        BY <1>5, <3>3 DEF Config
      <4>6. LP!Answer(Config(q)', p, EMPTY, q) = LP!Answer(Config(q), p, EMPTY, q)
        BY <4>5 DEF LP!Answer
      <4>7. LP!TakeEffect(Config(q), p, DEQUEUE) \in LP!Explanations(lin, Pending)
        BY <4>1, <4>3, PendingCalls, LP!ExplanationsClosed DEF LinInv
      <4>. QED
        BY <4>4, <4>6, <4>7, SameExplanations
    <3>4. LinInv'
      BY <1>1, <3>1, <3>3, Responded
    <3>. QED
      BY <1>3, <1>4, <3>4
  <2>. QED
    BY <2>1, <2>2
<1>9. \/ lin' = lin /\ qpc'[p] # "idle" /\ (qpc[p] = "deqTake" => res[p] \notin Items)
      \/ DeqItem(p)
      \/ DeqTTail(p) /\ hhead[p] = head[p] /\ TAIL = tail[p]
  BY <1>0 DEF DeqStep, DeqHead, DeqTail, DeqIC, DeqHHead, DeqTTail, Loop, QueueTypeOK
<1>. QED
  BY <1>6, <1>7, <1>8, <1>9, <1>3

\* What a take returns.
LEMMA NextGot ==
  ASSUME IInv, QInv, Got, NEW p \in Procs,
         \/ (PutStep(p) \/ TakeStep(p)) /\ UNCHANGED queueVars
         \/ QueueCall(p) /\ UNCHANGED basketVars
         \/ QueueStep(p) /\ BasketCall(p)
  PROVE  Got'
<1>0. TypeOK /\ QueueTypeOK /\ Calling /\ \A r \in Procs : Sweep(r)
  BY DEF IInv, QInv
<1>1. CASE PutStep(p) /\ UNCHANGED queueVars
  BY <1>0, <1>1, PutEffect DEF Calling, Got, queueVars, PutPcs
<1>2. CASE TakeStep(p) /\ UNCHANGED queueVars
  <2>1. pc'[p] = "idle" => res'[p] \in Items \cup {BASKET_CLOSED}
    <3>1. CASE TakeItem(p)
      BY <1>0, <3>1 DEF TakeItem, Return, TypeOK, Sweep
    <3>2. CASE ~TakeItem(p)
      BY <1>0, <1>2, <3>2 DEF TakeStep, TakeState, TakeClose, TakeLoad, TakeEmpty, TakeLost, Retry,
         NextSlot, Goto, Return, TypeOK
    <3>. QED
      BY <3>1, <3>2
  <2>. QED
    BY <1>0, <1>2, <2>1, TakeEffect DEF Got, queueVars
<1>3. CASE QueueCall(p) /\ UNCHANGED basketVars
  <2>1. UNCHANGED <<pc, res>>
    BY <1>3 DEF basketVars, local
  <2>2. qpc'[p] # "deqTake" /\ \A r \in Procs \ {p} : qpc'[r] = qpc[r]
    BY <1>0, <1>3 DEF QueueCall, Enqueue, Dequeue, GoOn, QueueTypeOK
  <2>. QED
    BY <2>1, <2>2 DEF Got
<1>4. CASE QueueStep(p) /\ BasketCall(p)
  <2>1. /\ \A r \in Procs \ {p} : qpc'[r] = qpc[r] /\ pc'[r] = pc[r] /\ res'[r] = res[r]
        /\ qpc'[p] = "deqTake" => pc'[p] # "idle"
    <3>1. \A r \in Procs \ {p} : qpc'[r] = qpc[r]
      BY <1>0, <1>4 DEF QueueStep, EnqStep, DeqStep, EnqLL, EnqIC, DeqHead, DeqTail, DeqItem,
        DeqIC, DeqHHead, DeqTTail, Loop, GoOn, Answer, AnswerEmpty, QueueTypeOK
    <3>2. \A r \in Procs \ {p} : pc'[r] = pc[r] /\ res'[r] = res[r]
      BY <1>0, <1>4 DEF BasketCall, PutCall, TakeCall, Goto, basketVars, local, TypeOK
    <3>3. qpc'[p] = "deqTake" => pc'[p] # "idle"
      BY <1>0, <1>4 DEF BasketCall, TakeCall, Goto, TypeOK
    <3>. QED
      BY <3>1, <3>2, <3>3
  <2>. QED
    BY <2>1 DEF Got
<1>. QED
  BY <1>1, <1>2, <1>3, <1>4

LEMMA NextHInv ==
  IInv /\ QInv /\ PInv /\ HInv /\ IInv' /\ QInv' /\ [Next]_vars => HInv'
<1>. SUFFICES ASSUME IInv, QInv, PInv, HInv, IInv', QInv', [Next]_vars PROVE HInv'
  OBVIOUS
<1>0. Ahead /\ Own /\ Looks /\ Got /\ LinInv
  BY DEF PInv, HInv
<1>1. CASE UNCHANGED vars
  <2>1. Own' /\ Looks' /\ Got'
    BY <1>0, <1>1 DEF vars, basketVars, queueVars, shared, local, history, Own, Looks, Got
  <2>2. UNCHANGED <<A, stored, res, TAIL, lossy, lin, pc, x, bk, qpc, arg, tail>>
    BY <1>1 DEF vars, basketVars, queueVars, shared, local, history
  <2>3. ASSUME NEW q \in Seq(Items), Fits(q, TAIL)'
        PROVE  Fits(q, TAIL) /\ Config(q)' = Config(q)
    BY <2>2, <2>3 DEF Fits, InBasket, In, Config, AnswerIn
  <2>4. LinInv'
    BY <1>0, <2>2, <2>3, StayExplained DEF CallsStay
  <2>. QED
    BY <2>1, <2>4 DEF HInv
<1>2. ASSUME NEW p \in Procs, QueueCall(p), UNCHANGED basketVars PROVE HInv'
  BY <1>0, <1>2, CallLin, NextGot DEF HInv
<1>3. ASSUME NEW p \in Procs, PutStep(p), UNCHANGED queueVars PROVE HInv'
  <2>1. Looks'
    BY <1>0, <1>3 DEF Looks, queueVars
  <2>. QED
    BY <1>0, <1>3, <2>1, PutLin, NextGot DEF HInv
<1>4. ASSUME NEW p \in Procs, TakeStep(p), UNCHANGED queueVars PROVE HInv'
  <2>1. Looks'
    BY <1>0, <1>4 DEF Looks, queueVars
  <2>2. Own'
    <3>0. UNCHANGED <<qpc, arg, tail, stored>> /\ qpc[p] = "deqTake"
      BY <1>4, TakeEffect DEF queueVars, QInv, Calling
    <3>. SUFFICES ASSUME NEW r \in Procs, qpc[r] = "enqPut", pc'[r] = "idle", res'[r] = OK
                  PROVE  /\ arg[r] \in stored
                         /\ A'[tail[r]][r] \in {arg[r], TOP}
                         /\ \A b \in Baskets, s \in Slots : A'[b][s] = arg[r] => b = tail[r]
      BY <3>0 DEF Own
    <3>1. /\ r # p /\ pc[r] = "idle" /\ res[r] = OK /\ arg[r] \in Items
          /\ tail[r] \in Baskets /\ r \in Slots
      <4>1. r # p /\ pc[r] = "idle" /\ res[r] = OK
        BY <1>4, <3>0, TakeEffect
      <4>2. arg[r] \in Items
        BY <1>0, <4>1 DEF Own, IInv, TypeOK
      <4>3. tail[r] \in Baskets /\ r \in Slots
        BY CapacityAssumption DEF QInv, Bounded, QueueTypeOK, Procs, Slots
      <4>. QED
        BY <4>1, <4>2, <4>3
    <3>2. /\ arg[r] \in stored /\ A[tail[r]][r] \in {arg[r], TOP}
          /\ \A b \in Baskets, s \in Slots : A[b][s] = arg[r] => b = tail[r]
      BY <1>0, <3>1 DEF Own
    <3>3. \A b \in Baskets, s \in Slots : A'[b][s] = A[b][s] \/ A'[b][s] = TOP
      BY <1>4, TakeEffect
    <3>. QED
      BY <3>1, <3>2, <3>3, SentinelAssumption
  <2>. QED
    BY <1>0, <1>4, <2>1, <2>2, TakeItemLin, TakeNothingLin, NextGot DEF HInv
<1>5. ASSUME NEW p \in Procs, EnqLL(p), BasketCall(p) PROVE HInv'
  BY <1>0, <1>5, EnqLLLin, NextGot DEF HInv, QueueStep, EnqStep
<1>6. ASSUME NEW p \in Procs, EnqIC(p), BasketCall(p) PROVE HInv'
  <2>1. qpc'[p] \in {"idle", "enqLL"}
    BY <1>6 DEF EnqIC, Answer, GoOn, QInv, QueueTypeOK
  <2>2. UNCHANGED basketVars
    BY <1>6, <2>1 DEF BasketCall
  <2>. QED
    BY <1>0, <1>6, <2>2, EnqICLin, NextGot DEF HInv, QueueStep, EnqStep
<1>7. ASSUME NEW p \in Procs, DeqStep(p), BasketCall(p) PROVE HInv'
  BY <1>0, <1>7, DeqLin, NextGot DEF HInv, QueueStep
<1>. QED
  BY <1>1, <1>2, <1>3, <1>4, <1>5, <1>6, <1>7 DEF Next, Step, QueueStep, EnqStep
-----------------------------------------------------------------------------
\* In every state something fits: the items in the baskets before TAIL, basket by
\* basket.
LEMMA SomethingFits ==
  ASSUME IInv, QInv, IsFiniteSet(stored)
  PROVE  \E q \in Seq(Items) : Fits(q, TAIL)
<1>0. TypeOK /\ QueueTypeOK /\ Placed /\ TAIL \in Nat /\ TAIL <= Capacity
      /\ \A b \in Baskets : b \in Nat
  BY CapacityAssumption DEF IInv, QInv, QueueTypeOK
<1>. DEFINE At(b) == {A[b][s] : s \in Slots} \cap Items
            Lists(q, h, t) ==
              /\ \A i, j \in DOMAIN q : q[i] = q[j] => i = j
              /\ h \in [DOMAIN q -> Baskets]
              /\ \A i \in DOMAIN q : h[i] < t /\ q[i] \in At(h[i])
              /\ \A i, j \in DOMAIN q : i < j => h[i] <= h[j]
              /\ \A b \in Baskets : b < t => \A v \in At(b) : In(v, q)
            S == {t \in Nat : t <= Capacity => \E q \in Seq(Items) : \E h : Lists(q, h, t)}
<1>1. 0 \in S
  <2>1. <<>> \in Seq(Items) /\ DOMAIN <<>> = {}
    OBVIOUS
  <2>2. Lists(<<>>, <<>>, 0)
    BY <1>0, <2>1
  <2>. HIDE DEF Lists
  <2>. QED
    BY <2>1, <2>2
<1>2. ASSUME NEW t \in Nat, t \in S PROVE t + 1 \in S
  <2>. SUFFICES ASSUME t + 1 <= Capacity PROVE \E q \in Seq(Items) : \E h : Lists(q, h, t + 1)
    OBVIOUS
  <2>0. t \in Baskets /\ Capacity \in Nat
    BY CapacityAssumption
  <2>1. PICK q \in Seq(Items) : \E h : Lists(q, h, t)
    BY <1>2, <2>0
  <2>2. PICK h : Lists(q, h, t)
    BY <2>1
  <2>3. IsFiniteSet(At(t))
    <3>1. At(t) \subseteq stored
      BY <2>0 DEF IInv, Content
    <3>. QED
      BY <3>1, FS_Subset
  <2>19. PICK n \in Nat : \E e : e \in Bijection(1 .. n, At(t))
    BY <2>3, FS_NatBijection DEF ExistsBijection
  <2>4. PICK e : e \in Bijection(1 .. n, At(t))
    BY <2>19
  <2>5. /\ e \in [1 .. n -> At(t)] /\ \A i, j \in 1 .. n : e[i] = e[j] => i = j
        /\ \A v \in At(t) : \E i \in 1 .. n : e[i] = v
    BY <2>4 DEF Bijection, Injection, Surjection, IsInjective
  <2>. DEFINE m == Len(q)
              r == [i \in 1 .. m + n |-> IF i <= m THEN q[i] ELSE e[i - m]]
              g == [i \in 1 .. m + n |-> IF i <= m THEN h[i] ELSE t]
  <2>. HIDE DEF At
  <2>6. m \in Nat /\ DOMAIN q = 1 .. m /\ \A i \in 1 .. m : q[i] \in Items
    OBVIOUS
  <2>7. \A i \in 1 .. m + n : i > m => i - m \in 1 .. n
    BY <2>6
  <2>8. \A b \in Baskets : At(b) \subseteq Items
    BY DEF At
  <2>9. r \in Seq(Items) /\ DOMAIN r = 1 .. m + n
    <3>1. \A i \in 1 .. m + n : r[i] \in Items
      BY <2>0, <2>5, <2>6, <2>7, <2>8
    <3>. QED
      BY <2>6, <3>1
  <2>. HIDE DEF r
  <2>10. /\ \A i \in 1 .. m : r[i] = q[i]
         /\ \A i \in 1 .. m + n : i > m => r[i] = e[i - m] /\ r[i] \in At(t)
         /\ \A i \in 1 .. n : m + i \in 1 .. m + n /\ r[m + i] = e[i]
    <3>1. \A i \in 1 .. n : m + i \in 1 .. m + n /\ ~(m + i <= m) /\ (m + i) - m = i
      BY <2>6
    <3>. QED
      BY <2>5, <2>6, <2>7, <3>1 DEF r
  <2>11. /\ \A i \in 1 .. m : h[i] \in Baskets /\ h[i] < t /\ q[i] \in At(h[i])
         /\ \A i, j \in 1 .. m : i < j => h[i] <= h[j]
         /\ \A i, j \in 1 .. m : q[i] = q[j] => i = j
         /\ \A b \in Baskets : b < t => \A v \in At(b) : In(v, q)
    BY <2>2, <2>6
  <2>12. \A v : \A b, c \in Baskets : v \in At(b) /\ v \in At(c) => b = c
    BY <1>0 DEF At, Placed
  <2>13. ASSUME NEW i \in DOMAIN r, NEW j \in DOMAIN r, r[i] = r[j] PROVE i = j
    <3>0. i \in 1 .. m + n /\ j \in 1 .. m + n
      BY <2>9
    <3>1. CASE i <= m /\ j <= m
      BY <2>6, <2>10, <2>11, <2>13, <3>0, <3>1
    <3>2. CASE i > m /\ j > m
      <4>1. e[i - m] = e[j - m] /\ i - m \in 1 .. n /\ j - m \in 1 .. n
        BY <2>7, <2>10, <2>13, <3>0, <3>2
      <4>2. i - m = j - m
        BY <2>5, <4>1
      <4>. QED
        BY <2>6, <3>0, <4>2
    <3>3. ASSUME NEW k \in 1 .. m, NEW l \in 1 .. m + n, l > m PROVE r[k] # r[l]
      <4>1. r[k] \in At(h[k]) /\ r[l] \in At(t) /\ h[k] \in Baskets /\ h[k] # t
        BY <1>0, <2>0, <2>10, <2>11, <3>3
      <4>. QED
        BY <2>0, <2>12, <4>1
    <3>4. /\ i <= m => i \in 1 .. m
          /\ j <= m => j \in 1 .. m
          /\ i <= m \/ i > m
          /\ j <= m \/ j > m
      BY <2>6, <3>0
    <3>. QED
      BY <2>13, <3>0, <3>1, <3>2, <3>3, <3>4
  <2>14. /\ g \in [DOMAIN r -> Baskets]
         /\ \A i \in 1 .. m : g[i] = h[i]
         /\ \A i \in 1 .. m + n : i > m => g[i] = t
    <3>1. \A i \in 1 .. m + n : i <= m => i \in 1 .. m
      BY <2>6
    <3>. QED
      BY <2>0, <2>6, <2>9, <2>11, <3>1
  <2>. HIDE DEF g
  <2>15. ASSUME NEW i \in DOMAIN r PROVE g[i] < t + 1 /\ r[i] \in At(g[i])
    <3>1. CASE i <= m
      BY <1>0, <2>6, <2>9, <2>10, <2>11, <2>14, <3>1
    <3>2. CASE i > m
      BY <2>6, <2>9, <2>10, <2>14, <3>2
    <3>. QED
      BY <2>6, <2>9, <3>1, <3>2
  <2>16. ASSUME NEW i \in DOMAIN r, NEW j \in DOMAIN r, i < j PROVE g[i] <= g[j]
    <3>1. CASE j <= m
      BY <2>6, <2>9, <2>11, <2>14, <2>16, <3>1
    <3>2. CASE j > m
      <4>1. g[j] = t /\ g[i] \in Nat /\ g[i] < t + 1
        BY <1>0, <2>9, <2>14, <2>15, <3>2
      <4>. QED
        BY <4>1
    <3>. QED
      BY <2>6, <2>9, <3>1, <3>2
  <2>17. ASSUME NEW b \in Baskets, b < t + 1, NEW v \in At(b) PROVE In(v, r)
    <3>1. CASE b < t
      <4>1. PICK i \in 1 .. m : q[i] = v
        BY <2>6, <2>11, <2>17, <3>1 DEF In
      <4>2. i \in DOMAIN r /\ r[i] = v
        BY <2>6, <2>9, <2>10, <4>1
      <4>. QED
        BY <4>2 DEF In
    <3>2. CASE b = t
      <4>1. PICK i \in 1 .. n : e[i] = v
        BY <2>5, <2>17, <3>2
      <4>2. m + i \in DOMAIN r /\ r[m + i] = v
        BY <2>9, <2>10, <4>1
      <4>. QED
        BY <4>2 DEF In
    <3>. QED
      BY <1>0, <2>17, <3>1, <3>2
  <2>18. Lists(r, g, t + 1)
    BY <2>13, <2>14, <2>15, <2>16, <2>17
  <2>. HIDE DEF Lists, m
  <2>. QED
    BY <2>9, <2>18
<1>3. Nat \subseteq S
  <2>. HIDE DEF S
  <2>. QED
    BY <1>1, <1>2, LP!NatSetInduction
<1>4. PICK q \in Seq(Items) : \E h : Lists(q, h, TAIL)
  BY <1>0, <1>3
<1>5. PICK h : Lists(q, h, TAIL)
  BY <1>4
<1>6. Fits(q, TAIL)
  <2>1. \A i \in DOMAIN q : h[i] < TAIL /\ InBasket(q[i], h[i])
    BY <1>5 DEF InBasket
  <2>2. \A b \in Baskets, s \in Slots : b < TAIL /\ A[b][s] \in Items => In(A[b][s], q)
    BY <1>5
  <2>. QED
    BY <1>5, <2>1, <2>2 DEF Fits
<1>. QED
  BY <1>6

\* Nothing is ever taken out of order, or found empty that was not: whatever is in the
\* baskets, in their order, explains every answer of the queue, if no IC is lost
\* (basket_queue.hpp 44-79, kbasket.cpp 101-191).
THEOREM QueueIsLinearizable == Spec => []ExactIsLinearizable
<1>1. Init => BasketInit /\ IInv /\ QInv /\ PInv /\ HInv
  BY InitIInv, InitQInv, InitPInv, InitLinInv DEF Init
<1>2. IInv /\ QInv /\ PInv /\ HInv /\ [Next]_vars => (IInv /\ QInv /\ PInv /\ HInv)'
  BY StepIsBasketStep, NextIInv, NextQInv, NextPInv, NextHInv
<1>3. IInv /\ QInv /\ PInv /\ HInv => ExactIsLinearizable
  <2>. SUFFICES ASSUME IInv, QInv, PInv, HInv, ~lossy PROVE lin # {}
    BY DEF ExactIsLinearizable, Linearizable
  <2>1. PICK q \in Seq(Items) : Fits(q, TAIL)
    BY SomethingFits DEF PInv, Paid
  <2>2. Config(q) \in LP!Explanations(lin, Pending)
    BY <2>1, SameExplanations DEF HInv, LinInv, Explained
  <2>. QED
    BY <2>2, PendingCalls, LP!ExplanationsOfNone
<1>. QED
  BY <1>1, <1>2, <1>3, PTL DEF Spec
=============================================================================
