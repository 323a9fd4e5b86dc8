-------------------------- MODULE KBasketFAI_proofs --------------------------
(***************************************************************************)
(* The fetch-and-increment baskets neither lose nor duplicate an item, for *)
(* every number of threads, baskets, items and slots.                      *)
(***************************************************************************)
EXTENDS KBasketFAI, TLAPS

\* The counters hand every slot to at most one put and at most one take.
Owners ==
  /\ \A p \in Procs :
       /\ pc[p] = "putSwap" => slot[p] \in Slots /\ slot[p] < PUTS[bk[p]]
       /\ pc[p] = "takeSwap" => slot[p] \in Slots /\ slot[p] < TAKES[bk[p]]
  /\ \A p, q \in Procs : bk[p] = bk[q] /\ slot[p] = slot[q] =>
       /\ pc[p] = "putSwap" /\ pc[q] = "putSwap" => p = q
       /\ pc[p] = "takeSwap" /\ pc[q] = "takeSwap" => p = q

\* What a slot can hold.  TOP is only left in spent slots, so an item that a
\* late put writes over TOP is out of reach of every take.
Content ==
  \A b \in Baskets, s \in Slots :
    /\ Spent(b, s) => A[b][s] # BOTTOM
    /\ ~Spent(b, s) => A[b][s] # TOP
    /\ ~Spent(b, s) /\ A[b][s] # BOTTOM => A[b][s] \in stored /\ removed[A[b][s]] = 0
    /\ s >= PUTS[b] => A[b][s] \in {BOTTOM, TOP}
    /\ \A p \in Procs : HoldsPut(p, b, s) => A[b][s] \in {BOTTOM, TOP}

\* The items being put are not in a basket, and no two threads put the same one.
Putting ==
  \A p \in Procs : pc[p] \in PutPcs =>
    /\ x[p] \in Items \ stored
    /\ \A q \in Procs : pc[q] \in PutPcs /\ x[p] = x[q] => p = q

\* An item that is in has a place and only one.
Placed ==
  /\ \A v \in Items :
       /\ removed[v] <= 1
       /\ v \notin stored => removed[v] = 0
       /\ v \in stored /\ removed[v] = 0
            => \E b \in Baskets, s \in Slots : A[b][s] = v /\ ~Spent(b, s)
  /\ \A b, c \in Baskets, s, t \in Slots :
       ~Spent(b, s) /\ ~Spent(c, t) /\ A[b][s] = A[c][t] /\ A[b][s] # BOTTOM
         => b = c /\ s = t

\* A basket is closed, and reported closed, only when all slots are handed out.
Closing ==
  /\ \A b \in Baskets : State[b] = CLOSED \/ b \in drained => TAKES[b] >= K
  /\ \A p \in Procs :
       /\ pc[p] = "takeState" => slot[p] <= TAKES[bk[p]]
       /\ pc[p] = "takeClose" => TAKES[bk[p]] >= K

\* The inductive invariant.
IInv == TypeOK /\ Owners /\ Content /\ Putting /\ Placed /\ Closing
-----------------------------------------------------------------------------
LEMMA InitIInv == BasketInit => IInv
<1>. SUFFICES ASSUME BasketInit PROVE IInv
  OBVIOUS
<1>. USE DEF BasketInit
<1>1. TypeOK
  BY BasketsAssumption DEF TypeOK
<1>2. Owners /\ Closing
  BY SentinelAssumption DEF Owners, Closing
<1>3. \A b \in Baskets, s \in Slots : A[b][s] = BOTTOM /\ ~Spent(b, s)
  BY DEF Spent, Slots
<1>4. Content
  BY <1>3, SentinelAssumption DEF Content, HoldsPut
<1>5. Putting /\ Placed
  BY <1>3 DEF Putting, Placed, PutPcs
<1>. QED
  BY <1>1, <1>2, <1>4, <1>5 DEF IInv

\* Steps that neither write a slot nor start or end the exchange of a take:
\* the slots stay what they are.
LEMMA SlotsStay ==
  ASSUME Content, Placed, UNCHANGED <<A, TAKES, stored, removed>>,
         \A b \in Baskets : PUTS'[b] \in Nat /\ PUTS[b] \in Nat /\ PUTS'[b] >= PUTS[b],
         \A p \in Procs, b \in Baskets, s \in Slots :
           HoldsTake(p, b, s)' <=> HoldsTake(p, b, s),
         \A p \in Procs, b \in Baskets, s \in Slots :
           HoldsPut(p, b, s)' => HoldsPut(p, b, s) \/ s >= PUTS[b]
  PROVE  Content' /\ Placed'
<1>1. \A b \in Baskets, s \in Slots : Spent(b, s)' <=> Spent(b, s)
  BY DEF Spent
<1>2. Content'
  BY <1>1 DEF Content, Slots
<1>3. Placed'
  BY <1>1 DEF Placed
<1>. QED
  BY <1>2, <1>3

\* The steps of the two procedures before their exchange.
QuietStep(p) ==
  \/ \E b \in Baskets, v \in Items : Fresh(v) /\ PutCall(p, b, v)
  \/ \E b \in Baskets : TakeCall(p, b)
  \/ PutState(p) \/ PutCount(p) \/ PutFAI(p)
  \/ TakeCount(p) \/ TakeState(p) \/ TakeClose(p)

LEMMA QuietIInv == ASSUME IInv, NEW p \in Procs, QuietStep(p) PROVE IInv'
<1>. USE SentinelAssumption, KAssumption
<1>0. TypeOK /\ Owners /\ Content /\ Putting /\ Placed /\ Closing
  BY DEF IInv
<1>1. TypeOK'
  <2>. USE <1>0 DEF TypeOK, PutPcs, TakePcs, Goto, Return, shared, history
  <2>1. CASE PutState(p) \/ PutCount(p)
    BY <2>1 DEF PutState, PutCount
  <2>0. bk[p] \in Baskets /\ PUTS[bk[p]] \in Nat /\ TAKES[bk[p]] \in Nat
    OBVIOUS
  <2>2. CASE PutFAI(p)
    <3>1. PUTS' \in [Baskets -> Nat]
      BY <2>0, <2>2 DEF PutFAI
    <3>2. slot' \in [Procs -> Nat] /\ res' \in [Procs -> Items \cup {OK, FULL, BASKET_CLOSED}]
      BY <2>0, <2>2 DEF PutFAI
    <3>3. pc' \in [Procs -> PutPcs \cup TakePcs \cup {"idle"}]
      BY <2>2 DEF PutFAI
    <3>. QED
      BY <2>2, <3>1, <3>2, <3>3 DEF PutFAI
  <2>3. CASE TakeCount(p)
    BY <2>0, <2>3 DEF TakeCount
  <2>6. CASE TakeState(p)
    BY <2>0, <2>6 DEF TakeState
  <2>7. CASE TakeClose(p)
    BY <2>0, <2>7 DEF TakeClose
  <2>4. ASSUME NEW b \in Baskets, NEW v \in Items, PutCall(p, b, v) PROVE TypeOK'
    BY <2>4 DEF PutCall
  <2>5. ASSUME NEW b \in Baskets, TakeCall(p, b) PROVE TypeOK'
    BY <2>5 DEF TakeCall
  <2>. QED
    BY <2>1, <2>2, <2>3, <2>4, <2>5, <2>6, <2>7 DEF QuietStep
<1>2. /\ UNCHANGED <<A, TAKES, stored, removed>>
      /\ \A b \in Baskets : PUTS'[b] \in Nat /\ PUTS[b] \in Nat /\ PUTS'[b] >= PUTS[b]
      /\ \A q \in Procs \ {p} : pc'[q] = pc[q] /\ bk'[q] = bk[q] /\ slot'[q] = slot[q] /\ x'[q] = x[q]
      /\ pc'[p] # "takeSwap" /\ pc[p] # "takeSwap" /\ pc[p] # "putSwap"
  BY <1>0 DEF QuietStep, TypeOK, Goto, Return, shared, history,
     PutCall, PutState, PutCount, PutFAI, TakeCall, TakeCount, TakeState, TakeClose
<1>3. /\ pc'[p] = "putSwap" => /\ bk'[p] = bk[p] /\ slot'[p] = PUTS[bk[p]]
                               /\ slot'[p] \in Slots /\ PUTS'[bk[p]] = PUTS[bk[p]] + 1
  BY <1>0 DEF QuietStep, TypeOK, Goto, Return, Slots, shared, history,
     PutCall, PutState, PutCount, PutFAI, TakeCall, TakeCount, TakeState, TakeClose
<1>4. Owners'
  <2>0. \A q \in Procs : bk[q] \in Baskets /\ slot[q] \in Nat
    BY <1>0 DEF TypeOK
  <2>1. ASSUME NEW q \in Procs
        PROVE  /\ pc'[q] = "putSwap" => slot'[q] \in Slots /\ slot'[q] < PUTS'[bk'[q]]
               /\ pc'[q] = "takeSwap" => slot'[q] \in Slots /\ slot'[q] < TAKES'[bk'[q]]
    <3>1. CASE q = p
      BY <3>1, <2>0, <1>2, <1>3
    <3>2. CASE q # p
      BY <3>2, <2>0, <1>0, <1>2 DEF Owners
    <3>. QED
      BY <3>1, <3>2
  <2>2. ASSUME NEW q \in Procs, NEW r \in Procs,
               bk'[q] = bk'[r], slot'[q] = slot'[r]
        PROVE  /\ pc'[q] = "putSwap" /\ pc'[r] = "putSwap" => q = r
               /\ pc'[q] = "takeSwap" /\ pc'[r] = "takeSwap" => q = r
    <3>1. \A o \in Procs \ {p} : pc'[o] = "putSwap" => slot'[o] < PUTS[bk'[o]]
      BY <1>0, <1>2 DEF Owners
    <3>2. CASE q = p /\ r # p
      BY <3>1, <3>2, <2>0, <2>2, <1>2, <1>3
    <3>3. CASE r = p /\ q # p
      BY <3>1, <3>3, <2>0, <2>2, <1>2, <1>3
    <3>4. CASE q # p /\ r # p
      BY <3>4, <2>2, <1>0, <1>2 DEF Owners
    <3>. QED
      BY <3>2, <3>3, <3>4
  <2>. QED
    BY <2>1, <2>2 DEF Owners
<1>5. Content' /\ Placed'
  <2>1. \A q \in Procs, b \in Baskets, s \in Slots :
          /\ HoldsTake(q, b, s)' <=> HoldsTake(q, b, s)
          /\ HoldsPut(q, b, s)' => HoldsPut(q, b, s) \/ s >= PUTS[b]
    BY <1>0, <1>2, <1>3 DEF HoldsTake, HoldsPut, TypeOK
  <2>. QED
    BY <1>0, <1>2, <2>1, SlotsStay
<1>6. Putting'
  <2>1. pc'[p] \in PutPcs => \/ pc[p] \in PutPcs /\ x'[p] = x[p]
                             \/ x'[p] \in Items /\ Fresh(x'[p])
    BY <1>0 DEF QuietStep, TypeOK, Goto, Return, shared, PutPcs, history,
       PutCall, PutState, PutCount, PutFAI, TakeCall, TakeCount, TakeState, TakeClose
  <2>. QED
    BY <1>0, <1>2, <2>1 DEF Putting, Fresh
<1>7. Closing'
  BY <1>0 DEF QuietStep, TypeOK, Closing, Goto, Return, shared, history,
     PutCall, PutState, PutCount, PutFAI, TakeCall, TakeCount, TakeState, TakeClose
<1>. QED
  BY <1>1, <1>4, <1>5, <1>6, <1>7 DEF IInv

\* TAKES++ moves a slot from the takes still to come to the thread's take: no
\* slot becomes spent.
LEMMA TakeFAIIInv == ASSUME IInv, NEW p \in Procs, TakeFAI(p) PROVE IInv'
<1>. USE SentinelAssumption, KAssumption
<1>0. /\ TypeOK /\ Owners /\ Content /\ Putting /\ Placed /\ Closing
      /\ bk[p] \in Baskets /\ TAKES[bk[p]] \in Nat /\ pc[p] = "takeFAI"
  BY DEF IInv, TypeOK, TakeFAI
<1>. DEFINE B == bk[p]
<1>1. /\ UNCHANGED <<A, PUTS, State, bk, x, res, stored, removed, drained>>
      /\ TAKES'[B] = TAKES[B] + 1 /\ \A b \in Baskets \ {B} : TAKES'[b] = TAKES[b]
      /\ slot'[p] = TAKES[B]
      /\ pc'[p] = IF TAKES[B] >= K THEN "takeClose" ELSE "takeSwap"
      /\ \A q \in Procs \ {p} : pc'[q] = pc[q] /\ slot'[q] = slot[q]
  BY <1>0 DEF TakeFAI, TypeOK, Goto, history
<1>2. TypeOK'
  <2>1. TAKES' \in [Baskets -> Nat] /\ slot' \in [Procs -> Nat]
    BY <1>0 DEF TakeFAI, TypeOK
  <2>2. pc' \in [Procs -> PutPcs \cup TakePcs \cup {"idle"}]
    BY <1>0 DEF TakeFAI, TypeOK, Goto, TakePcs
  <2>. QED
    BY <1>0, <1>1, <2>1, <2>2 DEF TypeOK
<1>3. Owners'
  <2>0. \A q \in Procs : bk[q] \in Baskets /\ slot[q] \in Nat /\ TAKES[bk[q]] \in Nat
    BY <1>0 DEF TypeOK
  <2>1. ASSUME NEW q \in Procs
        PROVE  /\ pc'[q] = "putSwap" => slot'[q] \in Slots /\ slot'[q] < PUTS'[bk'[q]]
               /\ pc'[q] = "takeSwap" => slot'[q] \in Slots /\ slot'[q] < TAKES'[bk'[q]]
    <3>1. CASE q = p
      BY <3>1, <2>0, <1>1 DEF Slots
    <3>2. CASE q # p
      BY <3>2, <2>0, <1>0, <1>1 DEF Owners
    <3>. QED
      BY <3>1, <3>2
  <2>2. ASSUME NEW q \in Procs, NEW r \in Procs,
               bk'[q] = bk'[r], slot'[q] = slot'[r]
        PROVE  /\ pc'[q] = "putSwap" /\ pc'[r] = "putSwap" => q = r
               /\ pc'[q] = "takeSwap" /\ pc'[r] = "takeSwap" => q = r
    <3>1. \A o \in Procs \ {p} : pc[o] = "takeSwap" => slot[o] < TAKES[bk[o]]
      BY <1>0 DEF Owners
    <3>2. pc'[p] # "putSwap"
      BY <1>1
    <3>. QED
      BY <2>0, <2>2, <3>1, <3>2, <1>0, <1>1 DEF Owners
  <2>. QED
    BY <2>1, <2>2 DEF Owners
<1>4. \A b \in Baskets, s \in Slots : Spent(b, s)' <=> Spent(b, s)
  <2>. SUFFICES ASSUME NEW b \in Baskets, NEW s \in Slots
                PROVE  Spent(b, s)' <=> Spent(b, s)
    OBVIOUS
  <2>0. s \in Int /\ s < K /\ TAKES[b] \in Nat
    BY <1>0 DEF Slots, TypeOK
  <2>1. \A q \in Procs \ {p} : HoldsTake(q, b, s)' <=> HoldsTake(q, b, s)
    BY <1>1 DEF HoldsTake
  <2>2. CASE b = B /\ s = TAKES[B]
    <3>1. HoldsTake(p, b, s)'
      BY <2>0, <2>2, <1>1 DEF HoldsTake
    <3>. QED
      BY <2>0, <2>2, <3>1 DEF Spent
  <2>3. CASE ~(b = B /\ s = TAKES[B])
    <3>1. ~HoldsTake(p, b, s)' /\ ~HoldsTake(p, b, s)
      BY <2>3, <1>0, <1>1 DEF HoldsTake
    <3>2. s < TAKES'[b] <=> s < TAKES[b]
      BY <2>0, <2>3, <1>1
    <3>. QED
      BY <2>1, <3>1, <3>2 DEF Spent
  <2>. QED
    BY <2>2, <2>3
<1>5. Content'
  <2>1. \A q \in Procs, b \in Baskets, s \in Slots : HoldsPut(q, b, s)' => HoldsPut(q, b, s)
    BY <1>1 DEF HoldsPut
  <2>. QED
    BY <1>0, <1>1, <1>4, <2>1 DEF Content
<1>6. Placed'
  BY <1>0, <1>1, <1>4 DEF Placed
<1>7. Putting'
  BY <1>0, <1>1 DEF Putting, PutPcs
<1>8. Closing'
  <2>1. \A b \in Baskets : TAKES[b] \in Nat /\ TAKES'[b] \in Nat /\ TAKES'[b] >= TAKES[b]
    BY <1>0, <1>1 DEF TypeOK
  <2>2. \A b \in Baskets : State'[b] = CLOSED \/ b \in drained' => TAKES'[b] >= K
    BY <2>1, <1>0, <1>1 DEF Closing
  <2>3. ASSUME NEW q \in Procs
        PROVE  /\ pc'[q] = "takeState" => slot'[q] <= TAKES'[bk'[q]]
               /\ pc'[q] = "takeClose" => TAKES'[bk'[q]] >= K
    <3>1. bk[q] \in Baskets /\ slot[q] \in Nat
      BY <1>0 DEF TypeOK
    <3>2. CASE q = p
      BY <3>1, <3>2, <2>1, <1>1
    <3>3. CASE q # p
      BY <3>1, <3>3, <2>1, <1>0, <1>1 DEF Closing
    <3>. QED
      BY <3>2, <3>3
  <2>. QED
    BY <2>2, <2>3 DEF Closing
<1>. QED
  BY <1>2, <1>3, <1>5, <1>6, <1>7, <1>8 DEF IInv

\* The exchange of a put that finds BOTTOM: the slot is not spent, and it is
\* the only place of the item from now on.
LEMMA PutStoreIInv == ASSUME IInv, NEW p \in Procs, PutStore(p) PROVE IInv'
<1>. USE SentinelAssumption, KAssumption
<1>. DEFINE B == bk[p]  S == slot[p]
<1>0. /\ TypeOK /\ Owners /\ Content /\ Putting /\ Placed /\ Closing
      /\ B \in Baskets /\ S \in Slots /\ S < PUTS[B] /\ S \in Nat /\ PUTS[B] \in Nat
      /\ pc[p] = "putSwap" /\ x[p] \in Items \ stored /\ A[B][S] = BOTTOM
  BY DEF IInv, TypeOK, PutStore, Owners, Putting, PutPcs
<1>1. /\ UNCHANGED <<PUTS, TAKES, State, bk, x, slot, removed, drained>>
      /\ stored' = stored \cup {x[p]}
      /\ pc'[p] = "idle" /\ \A q \in Procs \ {p} : pc'[q] = pc[q]
      /\ A'[B][S] = x[p]
      /\ \A b \in Baskets, s \in Slots : <<b, s>> # <<B, S>> => A'[b][s] = A[b][s]
  BY <1>0 DEF PutStore, TypeOK, Return
<1>2. TypeOK'
  <2>1. A' \in [Baskets -> [Slots -> Items \cup {BOTTOM, TOP}]]
    BY <1>0 DEF PutStore, TypeOK
  <2>. QED
    BY <1>0, <1>1, <2>1 DEF PutStore, TypeOK, Return
<1>3. Owners' /\ Closing'
  BY <1>0, <1>1 DEF Owners, Closing
<1>4. \A b \in Baskets, s \in Slots : Spent(b, s)' <=> Spent(b, s)
  BY <1>0, <1>1 DEF Spent, HoldsTake
<1>5. ~Spent(B, S)
  BY <1>0 DEF Content
<1>6. Content'
  <2>. SUFFICES ASSUME NEW b \in Baskets, NEW s \in Slots
                PROVE  /\ Spent(b, s)' => A'[b][s] # BOTTOM
                       /\ ~Spent(b, s)' => A'[b][s] # TOP
                       /\ ~Spent(b, s)' /\ A'[b][s] # BOTTOM
                            => A'[b][s] \in stored' /\ removed'[A'[b][s]] = 0
                       /\ s >= PUTS'[b] => A'[b][s] \in {BOTTOM, TOP}
                       /\ \A q \in Procs : HoldsPut(q, b, s)' => A'[b][s] \in {BOTTOM, TOP}
    BY DEF Content
  <2>1. CASE b = B /\ s = S
    <3>1. \A q \in Procs : ~HoldsPut(q, b, s)'
      BY <2>1, <1>0, <1>1 DEF HoldsPut, Owners
    <3>2. removed[x[p]] = 0
      BY <1>0 DEF Placed
    <3>3. ~(s >= PUTS'[b])
      BY <2>1, <1>0, <1>1
    <3>4. A'[b][s] = x[p]
      BY <2>1, <1>1
    <3>5. x[p] \in stored' /\ removed'[x[p]] = 0 /\ x[p] # BOTTOM /\ x[p] # TOP
      BY <3>2, <1>0, <1>1
    <3>. QED
      BY <3>1, <3>3, <3>4, <3>5
  <2>2. CASE ~(b = B /\ s = S)
    <3>1. A'[b][s] = A[b][s]
      BY <2>2, <1>1
    <3>2. \A q \in Procs : HoldsPut(q, b, s)' => HoldsPut(q, b, s)
      BY <1>1 DEF HoldsPut
    <3>. QED
      BY <3>1, <3>2, <1>0, <1>1, <1>4 DEF Content
  <2>. QED
    BY <2>1, <2>2
<1>7. Placed'
  <2>1. ASSUME NEW v \in Items
        PROVE  /\ removed'[v] <= 1
               /\ v \notin stored' => removed'[v] = 0
               /\ v \in stored' /\ removed'[v] = 0
                    => \E b \in Baskets, s \in Slots : A'[b][s] = v /\ ~Spent(b, s)'
    <3>1. CASE v = x[p]
      BY <3>1, <1>0, <1>1, <1>4, <1>5 DEF Placed
    <3>2. CASE v # x[p]
      <4>1. ASSUME v \in stored', removed'[v] = 0
            PROVE  \E b \in Baskets, s \in Slots : A'[b][s] = v /\ ~Spent(b, s)'
        <5>1. PICK b \in Baskets, s \in Slots : A[b][s] = v /\ ~Spent(b, s)
          BY <3>2, <4>1, <1>0, <1>1 DEF Placed
        <5>2. <<b, s>> # <<B, S>>
          BY <5>1, <1>0
        <5>. QED
          BY <5>1, <5>2, <1>1, <1>4
      <4>. QED
        BY <4>1, <1>0, <1>1 DEF Placed
    <3>. QED
      BY <3>1, <3>2
  <2>2. ASSUME NEW b \in Baskets, NEW c \in Baskets, NEW s \in Slots, NEW t \in Slots,
               ~Spent(b, s)', ~Spent(c, t)', A'[b][s] = A'[c][t], A'[b][s] # BOTTOM
        PROVE  b = c /\ s = t
    <3>1. \A d \in Baskets, r \in Slots : ~Spent(d, r)' /\ <<d, r>> # <<B, S>> => A'[d][r] # x[p]
      BY <1>0, <1>1, <1>4 DEF Content
    <3>2. CASE <<b, s>> = <<B, S>> \/ <<c, t>> = <<B, S>>
      BY <2>2, <3>1, <3>2, <1>1
    <3>3. CASE <<b, s>> # <<B, S>> /\ <<c, t>> # <<B, S>>
      BY <2>2, <3>3, <1>0, <1>1, <1>4 DEF Placed
    <3>. QED
      BY <3>2, <3>3
  <2>. QED
    BY <2>1, <2>2 DEF Placed
<1>8. Putting'
  BY <1>0, <1>1 DEF Putting, PutPcs
<1>. QED
  BY <1>2, <1>3, <1>6, <1>7, <1>8 DEF IInv

\* The exchange of a put that comes too late: the slot is spent, and the item
\* written over its TOP is out of reach.
LEMMA PutTooLateIInv == ASSUME IInv, NEW p \in Procs, PutTooLate(p) PROVE IInv'
<1>. USE SentinelAssumption, KAssumption
<1>. DEFINE B == bk[p]  S == slot[p]
<1>0. /\ TypeOK /\ Owners /\ Content /\ Putting /\ Placed /\ Closing
      /\ B \in Baskets /\ S \in Slots /\ S < PUTS[B] /\ S \in Nat /\ PUTS[B] \in Nat
      /\ pc[p] = "putSwap" /\ x[p] \in Items \ stored /\ A[B][S] # BOTTOM
  BY DEF IInv, TypeOK, PutTooLate, Owners, Putting, PutPcs
<1>1. /\ UNCHANGED <<PUTS, TAKES, State, bk, x, slot, res, stored, removed, drained>>
      /\ pc'[p] = "putState" /\ \A q \in Procs \ {p} : pc'[q] = pc[q]
      /\ A'[B][S] = x[p]
      /\ \A b \in Baskets, s \in Slots : <<b, s>> # <<B, S>> => A'[b][s] = A[b][s]
  BY <1>0 DEF PutTooLate, TypeOK, Goto, history
<1>2. TypeOK'
  <2>1. A' \in [Baskets -> [Slots -> Items \cup {BOTTOM, TOP}]]
    BY <1>0 DEF PutTooLate, TypeOK
  <2>2. pc' \in [Procs -> PutPcs \cup TakePcs \cup {"idle"}]
    BY <1>0 DEF PutTooLate, TypeOK, Goto, PutPcs
  <2>. QED
    BY <1>0, <1>1, <2>1, <2>2 DEF TypeOK
<1>3. Owners' /\ Closing'
  BY <1>0, <1>1 DEF Owners, Closing
<1>4. \A b \in Baskets, s \in Slots : Spent(b, s)' <=> Spent(b, s)
  BY <1>0, <1>1 DEF Spent, HoldsTake
<1>5. Spent(B, S)
  BY <1>0 DEF Content, HoldsPut
<1>6. Content'
  <2>. SUFFICES ASSUME NEW b \in Baskets, NEW s \in Slots
                PROVE  /\ Spent(b, s)' => A'[b][s] # BOTTOM
                       /\ ~Spent(b, s)' => A'[b][s] # TOP
                       /\ ~Spent(b, s)' /\ A'[b][s] # BOTTOM
                            => A'[b][s] \in stored' /\ removed'[A'[b][s]] = 0
                       /\ s >= PUTS'[b] => A'[b][s] \in {BOTTOM, TOP}
                       /\ \A q \in Procs : HoldsPut(q, b, s)' => A'[b][s] \in {BOTTOM, TOP}
    BY DEF Content
  <2>1. CASE b = B /\ s = S
    <3>1. \A q \in Procs : ~HoldsPut(q, b, s)'
      BY <2>1, <1>0, <1>1 DEF HoldsPut, Owners
    <3>2. A'[b][s] = x[p] /\ Spent(b, s)' /\ ~(s >= PUTS'[b])
      BY <2>1, <1>0, <1>1, <1>4, <1>5
    <3>. QED
      BY <3>1, <3>2, <1>0
  <2>2. CASE ~(b = B /\ s = S)
    <3>1. A'[b][s] = A[b][s]
      BY <2>2, <1>1
    <3>2. \A q \in Procs : HoldsPut(q, b, s)' => HoldsPut(q, b, s)
      BY <1>1 DEF HoldsPut
    <3>. QED
      BY <3>1, <3>2, <1>0, <1>1, <1>4 DEF Content
  <2>. QED
    BY <2>1, <2>2
<1>7. Placed'
  <2>1. \A b \in Baskets, s \in Slots : ~Spent(b, s)' => A'[b][s] = A[b][s]
    BY <1>1, <1>4, <1>5
  <2>. QED
    BY <2>1, <1>0, <1>1, <1>4 DEF Placed
<1>8. Putting'
  BY <1>0, <1>1 DEF Putting, PutPcs
<1>. QED
  BY <1>2, <1>3, <1>6, <1>7, <1>8 DEF IInv

\* The exchange of a take, whatever it finds: the slot holds TOP and is spent,
\* and all else about slots stays.
LEMMA TakeSwap ==
  ASSUME IInv, NEW p \in Procs, TakeItem(p) \/ TakeTooEarly(p)
  PROVE  /\ bk[p] \in Baskets /\ slot[p] \in Slots
         /\ ~Spent(bk[p], slot[p])
         /\ A'[bk[p]][slot[p]] = TOP
         /\ A' \in [Baskets -> [Slots -> Items \cup {BOTTOM, TOP}]]
         /\ \A b \in Baskets, s \in Slots :
              <<b, s>> # <<bk[p], slot[p]>> => A'[b][s] = A[b][s]
         /\ \A b \in Baskets, s \in Slots :
              Spent(b, s)' <=> Spent(b, s) \/ <<b, s>> = <<bk[p], slot[p]>>
         /\ \A q \in Procs, b \in Baskets, s \in Slots :
              HoldsPut(q, b, s)' => HoldsPut(q, b, s)
         /\ Owners' /\ Closing' /\ Putting'
<1>. USE SentinelAssumption, KAssumption
<1>. DEFINE B == bk[p]  S == slot[p]
<1>0. /\ TypeOK /\ Owners /\ Content /\ Putting /\ Closing
      /\ B \in Baskets /\ S \in Slots /\ S < TAKES[B] /\ pc[p] = "takeSwap"
  BY DEF IInv, TypeOK, TakeItem, TakeTooEarly, Owners
<1>1. /\ UNCHANGED <<PUTS, TAKES, State, bk, x, slot, stored, drained>>
      /\ pc'[p] \in {"idle", "takeCount"} /\ \A q \in Procs \ {p} : pc'[q] = pc[q]
      /\ A'[B][S] = TOP
      /\ \A b \in Baskets, s \in Slots : <<b, s>> # <<B, S>> => A'[b][s] = A[b][s]
  BY <1>0 DEF TakeItem, TakeTooEarly, TypeOK, Return, Goto, history
<1>11. A' \in [Baskets -> [Slots -> Items \cup {BOTTOM, TOP}]]
  <2>1. A' = [A EXCEPT ![B][S] = TOP]
    BY DEF TakeItem, TakeTooEarly
  <2>. QED
    BY <2>1, <1>0 DEF TypeOK
<1>2. HoldsTake(p, B, S)
  BY <1>0 DEF HoldsTake
<1>3. ~Spent(B, S)
  BY <1>2 DEF Spent
<1>4. Spent(B, S)'
  <2>1. \A q \in Procs : ~HoldsTake(q, B, S)'
    BY <1>0, <1>1 DEF HoldsTake, Owners
  <2>. QED
    BY <2>1, <1>0, <1>1 DEF Spent
<1>5. ASSUME NEW b \in Baskets, NEW s \in Slots, <<b, s>> # <<B, S>>
      PROVE  Spent(b, s)' <=> Spent(b, s)
  <2>1. \A q \in Procs : HoldsTake(q, b, s)' <=> HoldsTake(q, b, s)
    BY <1>0, <1>1, <1>5 DEF HoldsTake
  <2>. QED
    BY <2>1, <1>1 DEF Spent
<1>6. \A b \in Baskets, s \in Slots : Spent(b, s)' <=> Spent(b, s) \/ <<b, s>> = <<B, S>>
  <2>. SUFFICES ASSUME NEW b \in Baskets, NEW s \in Slots
                PROVE  Spent(b, s)' <=> Spent(b, s) \/ <<b, s>> = <<B, S>>
    OBVIOUS
  <2>1. CASE <<b, s>> = <<B, S>>
    <3>1. b = B /\ s = S
      BY <2>1
    <3>. QED
      BY <3>1, <1>1, <1>4
  <2>2. CASE <<b, s>> # <<B, S>>
    BY <2>2, <1>5
  <2>. QED
    BY <2>1, <2>2
<1>7. \A q \in Procs, b \in Baskets, s \in Slots : HoldsPut(q, b, s)' => HoldsPut(q, b, s)
  BY <1>1 DEF HoldsPut
<1>8. Owners' /\ Closing' /\ Putting'
  BY <1>0, <1>1 DEF Owners, Closing, Putting, PutPcs
<1>. QED
  BY <1>0, <1>1, <1>3, <1>6, <1>7, <1>8, <1>11

LEMMA TakeTooEarlyIInv == ASSUME IInv, NEW p \in Procs, TakeTooEarly(p) PROVE IInv'
<1>. USE SentinelAssumption, KAssumption
<1>. DEFINE B == bk[p]  S == slot[p]
<1>0. TypeOK /\ Content /\ Placed /\ A[B][S] = BOTTOM
  BY DEF IInv, TakeTooEarly
<1>1. UNCHANGED <<PUTS, TAKES, State, bk, x, slot, res, stored, removed, drained>>
  BY DEF TakeTooEarly, history
<1>2. TypeOK'
  <2>1. pc' \in [Procs -> PutPcs \cup TakePcs \cup {"idle"}]
    BY <1>0 DEF TakeTooEarly, TypeOK, Goto, TakePcs
  <2>. QED
    BY <2>1, <1>0, <1>1, TakeSwap DEF TypeOK
<1>3. Content'
  BY <1>0, <1>1, TakeSwap DEF Content
<1>4. Placed'
  <2>1. \A b \in Baskets, s \in Slots :
          /\ ~Spent(b, s)' => ~Spent(b, s) /\ A'[b][s] = A[b][s]
          /\ ~Spent(b, s) /\ A[b][s] # BOTTOM => ~Spent(b, s)' /\ A'[b][s] = A[b][s]
    BY <1>0, TakeSwap
  <2>. QED
    BY <2>1, <1>0, <1>1 DEF Placed
<1>. QED
  BY <1>2, <1>3, <1>4, TakeSwap DEF IInv

LEMMA TakeItemIInv == ASSUME IInv, NEW p \in Procs, TakeItem(p) PROVE IInv'
<1>. USE SentinelAssumption, KAssumption
<1>. DEFINE B == bk[p]  S == slot[p]  v == A[B][S]
<1>0. TypeOK /\ Content /\ Placed /\ v # BOTTOM
  BY DEF IInv, TakeItem
<1>1. B \in Baskets /\ S \in Slots /\ ~Spent(B, S)
  BY TakeSwap
<1>2. v \in stored /\ v \in Items /\ v # TOP /\ removed[v] = 0
  BY <1>0, <1>1 DEF Content, TypeOK
<1>3. /\ UNCHANGED <<PUTS, TAKES, State, bk, x, slot, stored, drained>>
      /\ removed'[v] = 1 /\ \A w \in Items \ {v} : removed'[w] = removed[w]
  BY <1>0, <1>2 DEF TakeItem, TypeOK
<1>4. TypeOK'
  <2>1. /\ removed' \in [Items -> Nat]
        /\ pc' \in [Procs -> PutPcs \cup TakePcs \cup {"idle"}]
        /\ res' \in [Procs -> Items \cup {OK, FULL, BASKET_CLOSED}]
    BY <1>0, <1>2 DEF TakeItem, TypeOK, Return
  <2>. QED
    BY <2>1, <1>0, <1>3, TakeSwap DEF TypeOK
\* v was only in the slot just spent.
<1>5. \A b \in Baskets, s \in Slots :
        ~Spent(b, s)' => ~Spent(b, s) /\ A'[b][s] = A[b][s] /\ A'[b][s] # v
  BY <1>0, <1>1, TakeSwap DEF Placed
<1>6. Content'
  <2>. SUFFICES ASSUME NEW b \in Baskets, NEW s \in Slots
                PROVE  /\ Spent(b, s)' => A'[b][s] # BOTTOM
                       /\ ~Spent(b, s)' => A'[b][s] # TOP
                       /\ ~Spent(b, s)' /\ A'[b][s] # BOTTOM
                            => A'[b][s] \in stored' /\ removed'[A'[b][s]] = 0
                       /\ s >= PUTS'[b] => A'[b][s] \in {BOTTOM, TOP}
                       /\ \A q \in Procs : HoldsPut(q, b, s)' => A'[b][s] \in {BOTTOM, TOP}
    BY DEF Content
  <2>1. CASE <<b, s>> = <<B, S>>
    BY <2>1, TakeSwap
  <2>2. CASE <<b, s>> # <<B, S>>
    <3>1. A'[b][s] = A[b][s] /\ (Spent(b, s)' <=> Spent(b, s))
      BY <2>2, TakeSwap
    <3>2. \A q \in Procs : HoldsPut(q, b, s)' => HoldsPut(q, b, s)
      BY TakeSwap
    <3>3. ~Spent(b, s) /\ A[b][s] # BOTTOM => A[b][s] \in Items \ {v}
      BY <3>1, <1>0, <1>5 DEF Content, TypeOK
    <3>. QED
      BY <3>1, <3>2, <3>3, <1>0, <1>3 DEF Content
  <2>. QED
    BY <2>1, <2>2
<1>7. Placed'
  <2>1. ASSUME NEW w \in Items
        PROVE  /\ removed'[w] <= 1
               /\ w \notin stored' => removed'[w] = 0
               /\ w \in stored' /\ removed'[w] = 0
                    => \E b \in Baskets, s \in Slots : A'[b][s] = w /\ ~Spent(b, s)'
    <3>1. CASE w = v
      BY <3>1, <1>2, <1>3
    <3>2. CASE w # v
      <4>1. ASSUME w \in stored', removed'[w] = 0
            PROVE  \E b \in Baskets, s \in Slots : A'[b][s] = w /\ ~Spent(b, s)'
        <5>1. PICK b \in Baskets, s \in Slots : A[b][s] = w /\ ~Spent(b, s)
          BY <3>2, <4>1, <1>0, <1>3 DEF Placed
        <5>2. <<b, s>> # <<B, S>>
          BY <5>1, <3>2
        <5>. QED
          BY <5>1, <5>2, TakeSwap
      <4>. QED
        BY <4>1, <3>2, <1>0, <1>3 DEF Placed
    <3>. QED
      BY <3>1, <3>2
  <2>2. \A b, c \in Baskets, s, t \in Slots :
          ~Spent(b, s)' /\ ~Spent(c, t)' /\ A'[b][s] = A'[c][t] /\ A'[b][s] # BOTTOM
            => b = c /\ s = t
    BY <1>0, <1>5 DEF Placed
  <2>. QED
    BY <2>1, <2>2 DEF Placed
<1>. QED
  BY <1>4, <1>6, <1>7, TakeSwap DEF IInv
-----------------------------------------------------------------------------
LEMMA NextIInv == IInv /\ [BasketNext]_basketVars => IInv'
<1>. SUFFICES ASSUME IInv, [BasketNext]_basketVars PROVE IInv'
  OBVIOUS
<1>1. ASSUME NEW p \in Procs, QuietStep(p) PROVE IInv'
  BY <1>1, QuietIInv
<1>2. ASSUME NEW p \in Procs, TakeFAI(p) PROVE IInv'
  BY <1>2, TakeFAIIInv
<1>3. ASSUME NEW p \in Procs, PutStore(p) PROVE IInv'
  BY <1>3, PutStoreIInv
<1>4. ASSUME NEW p \in Procs, PutTooLate(p) PROVE IInv'
  BY <1>4, PutTooLateIInv
<1>5. ASSUME NEW p \in Procs, TakeItem(p) PROVE IInv'
  BY <1>5, TakeItemIInv
<1>6. ASSUME NEW p \in Procs, TakeTooEarly(p) PROVE IInv'
  BY <1>6, TakeTooEarlyIInv
<1>7. CASE UNCHANGED basketVars
  <2>. USE <1>7 DEF basketVars, shared, local, history
  <2>1. \A b \in Baskets, s \in Slots :
          /\ Spent(b, s)' <=> Spent(b, s)
          /\ \A p \in Procs : HoldsPut(p, b, s)' <=> HoldsPut(p, b, s)
    BY DEF Spent, HoldsTake, HoldsPut
  <2>2. TypeOK' /\ Owners' /\ Putting' /\ Closing'
    BY DEF IInv, TypeOK, Owners, Putting, Closing
  <2>3. Content' /\ Placed'
    BY <2>1 DEF IInv, Content, Placed
  <2>. QED
    BY <2>2, <2>3 DEF IInv
<1>. QED
  BY <1>1, <1>2, <1>3, <1>4, <1>5, <1>6, <1>7
  DEF BasketNext, Call, PutStep, TakeStep, QuietStep

-----------------------------------------------------------------------------
\* What a step inside put does, as far as a queue can see it.
LEMMA PutEffect ==
  ASSUME IInv, NEW p \in Procs, PutStep(p)
  PROVE  /\ pc[p] \in PutPcs /\ pc'[p] \in PutPcs \cup {"idle"}
         /\ UNCHANGED <<bk, x, drained>>
         /\ \A q \in Procs \ {p} : pc'[q] = pc[q] /\ res'[q] = res[q]
         /\ \/ stored' = stored
            \/ stored' = stored \cup {x[p]} /\ pc'[p] = "idle" /\ res'[p] = OK
         /\ \A b \in Baskets, s \in Slots :
              A'[b][s] = A[b][s] \/ (b = bk[p] /\ A'[b][s] = x[p])
         /\ \A b \in Baskets \ {bk[p]} : UNCHANGED <<A[b], PUTS[b], TAKES[b]>>
<1>1. TypeOK /\ Owners
  BY DEF IInv
<1>. USE <1>1 DEF PutPcs, Goto, Return, history, shared
<1>2. CASE PutState(p)
  <2>1. UNCHANGED <<A, bk, x, stored, drained>>
    BY <1>2 DEF PutState
  <2>. QED
    BY <1>2, <2>1 DEF PutState, TypeOK
<1>3. CASE PutCount(p)
  <2>1. UNCHANGED <<A, bk, x, stored, drained>>
    BY <1>3 DEF PutCount
  <2>. QED
    BY <1>3, <2>1 DEF PutCount, TypeOK
<1>4. CASE PutFAI(p)
  <2>1. UNCHANGED <<A, bk, x, stored, drained>>
    BY <1>4 DEF PutFAI
  <2>. QED
    BY <1>4, <2>1 DEF PutFAI, TypeOK
<1>5. CASE PutStore(p)
  <2>0. A' = [A EXCEPT ![bk[p]][slot[p]] = x[p]] /\ bk[p] \in Baskets /\ slot[p] \in Slots
    BY <1>5 DEF PutStore, TypeOK, Owners
  <2>1. \A b \in Baskets, s \in Slots :
          A'[b][s] = A[b][s] \/ (b = bk[p] /\ A'[b][s] = x[p])
    BY <2>0 DEF TypeOK
  <2>. QED
    BY <1>5, <2>1 DEF PutStore, TypeOK
<1>6. CASE PutTooLate(p)
  <2>0. A' = [A EXCEPT ![bk[p]][slot[p]] = x[p]] /\ bk[p] \in Baskets /\ slot[p] \in Slots
    BY <1>6 DEF PutTooLate, TypeOK, Owners
  <2>1. \A b \in Baskets, s \in Slots :
          A'[b][s] = A[b][s] \/ (b = bk[p] /\ A'[b][s] = x[p])
    BY <2>0 DEF TypeOK
  <2>. QED
    BY <1>6, <2>1 DEF PutTooLate, TypeOK
<1>. QED
  BY <1>2, <1>3, <1>4, <1>5, <1>6 DEF PutStep

\* What a step inside take does, as far as a queue can see it.
LEMMA TakeEffect ==
  ASSUME IInv, NEW p \in Procs, TakeStep(p)
  PROVE  /\ pc[p] \in TakePcs /\ pc'[p] \in TakePcs \cup {"idle"}
         /\ UNCHANGED <<bk, x, stored>>
         /\ \A q \in Procs \ {p} : pc'[q] = pc[q] /\ res'[q] = res[q]
         /\ drained \subseteq drained'
         /\ pc'[p] = "idle" /\ res'[p] = BASKET_CLOSED => bk[p] \in drained'
         /\ \A b \in Baskets, s \in Slots : A'[b][s] = A[b][s] \/ A'[b][s] = TOP
         /\ \A b \in Baskets \ {bk[p]} : UNCHANGED <<A[b], PUTS[b], TAKES[b]>>
<1>1. TypeOK /\ Owners /\ Content
  BY DEF IInv
<1>. USE <1>1 DEF TakePcs, Goto, Return, history, shared
<1>2. CASE TakeCount(p)
  BY <1>2 DEF TakeCount, TypeOK
<1>3. CASE TakeState(p)
  BY <1>3 DEF TakeState, TypeOK
<1>4. CASE TakeFAI(p)
  BY <1>4 DEF TakeFAI, TypeOK
<1>5. CASE TakeClose(p)
  BY <1>5 DEF TakeClose, TypeOK
<1>6. CASE TakeItem(p)
  <2>1. \A b \in Baskets, s \in Slots : A'[b][s] = A[b][s] \/ A'[b][s] = TOP
    BY <1>6, TakeSwap
  <2>2. A[bk[p]][slot[p]] \in Items
    BY <1>6, TakeSwap DEF TakeItem, Content, TypeOK
  <2>3. res'[p] # BASKET_CLOSED
    BY <1>6, <2>2, SentinelAssumption DEF TakeItem, TypeOK
  <2>. QED
    BY <1>6, <2>1, <2>3 DEF TakeItem, TypeOK
<1>7. CASE TakeTooEarly(p)
  <2>1. \A b \in Baskets, s \in Slots : A'[b][s] = A[b][s] \/ A'[b][s] = TOP
    BY <1>7, TakeSwap
  <2>. QED
    BY <1>7, <2>1 DEF TakeTooEarly, TypeOK
<1>. QED
  BY <1>2, <1>3, <1>4, <1>5, <1>6, <1>7 DEF TakeStep
-----------------------------------------------------------------------------
LEMMA Invariance == BasketSpec => []IInv
BY InitIInv, NextIInv, PTL DEF BasketSpec

\* Type correctness of the baskets (kbasket.cpp 7-77).
THEOREM TypeCorrect == BasketSpec => []TypeOK
<1>1. IInv => TypeOK
  BY DEF IInv
<1>. QED
  BY <1>1, Invariance, PTL

LEMMA IInvConserves == IInv => NoLossNoDuplicate
<1>. SUFFICES ASSUME IInv, NEW v \in Items
              PROVE  /\ removed[v] <= 1
                     /\ IF v \in stored /\ removed[v] = 0
                          THEN \E t \in Baskets \X Slots : Places(v) = {t}
                          ELSE Places(v) = {}
  BY DEF NoLossNoDuplicate
<1>0. Content /\ Placed /\ v # BOTTOM
  BY SentinelAssumption DEF IInv
<1>1. CASE v \in stored /\ removed[v] = 0
  <2>1. PICK b \in Baskets, s \in Slots : A[b][s] = v /\ ~Spent(b, s)
    BY <1>0, <1>1 DEF Placed
  <2>2. Places(v) = {<<b, s>>}
    BY <1>0, <2>1 DEF Places, Placed
  <2>3. <<b, s>> \in Baskets \X Slots
    OBVIOUS
  <2>4. removed[v] <= 1
    BY <1>0 DEF Placed
  <2>. QED
    BY <1>1, <2>2, <2>3, <2>4
<1>2. CASE ~(v \in stored /\ removed[v] = 0)
  BY <1>0, <1>2 DEF Places, Content, Placed
<1>. QED
  BY <1>0, <1>1, <1>2 DEF Placed

\* For every number of threads, baskets, items and slots: an item whose put
\* returned OK is in one place until one take returns it, and an item whose put
\* did not succeed is in none, although the exchange of a late put leaves it in
\* the array (kbasket.cpp 37-77).
THEOREM ItemsConserved == BasketSpec => []NoLossNoDuplicate
BY IInvConserves, Invariance, PTL

LEMMA IInvLeavesNothing == IInv => ClosedLeavesNothing
<1>. SUFFICES ASSUME IInv, NEW b \in drained, NEW v \in stored, NEW s \in Slots,
                     <<b, s>> \in Places(v)
              PROVE  \E p \in Procs : HoldsTake(p, b, s)
  BY DEF ClosedLeavesNothing
<1>1. b \in Baskets /\ TAKES[b] \in Nat /\ TAKES[b] >= K
  BY DEF IInv, TypeOK, Closing
<1>2. s < TAKES[b]
  BY <1>1, KAssumption DEF Slots
<1>. QED
  BY <1>2 DEF Places, Spent

\* Once a take has reported a basket closed, every item that is or will be in
\* it belongs to a take in progress: moving the queue's head past the basket
\* loses nothing (kbasket.cpp 63-70).
THEOREM ClosedIsSafe == BasketSpec => []ClosedLeavesNothing
BY IInvLeavesNothing, Invariance, PTL
=============================================================================
