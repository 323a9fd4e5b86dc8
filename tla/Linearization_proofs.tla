------------------------ MODULE Linearization_proofs ------------------------
(***************************************************************************)
(* What Explanations contains: the configurations it starts from, closed   *)
(* under the effect of any pending call.  The queues' proofs use it to     *)
(* show that every configuration that fits the state of the queue is an    *)
(* explanation of the answers so far.                                      *)
(***************************************************************************)
EXTENDS Linearization, WellFoundedInduction, FiniteSetTheorems, TLAPS

\* Induction over the numbers, with the set of those that have the property.
LEMMA NatSetInduction ==
  ASSUME NEW S, 0 \in S, \A n \in Nat : n \in S => n + 1 \in S
  PROVE  Nat \subseteq S
<1>. DEFINE R == OpToRel(<, Nat)
            T == Nat \ S
<1>1. IsWellFoundedOn(R, Nat)
  BY NatLessThanWellFounded
<1>2. SUFFICES ASSUME T # {} PROVE FALSE
  OBVIOUS
<1>3. PICK m \in T : \A k \in T : ~(<<k, m>> \in R)
  <2>1. T \subseteq Nat
    OBVIOUS
  <2>. HIDE DEF R, T
  <2>. QED
    BY <1>1, <1>2, <2>1, WFMin
<1>4. \A k \in T : ~(k < m)
  BY <1>3 DEF OpToRel
<1>5. m \in Nat /\ m # 0
  BY <1>3
<1>6. m - 1 \in Nat /\ m - 1 \in S /\ (m - 1) + 1 = m
  BY <1>4, <1>5
<1>. QED
  BY <1>3, <1>5, <1>6

-----------------------------------------------------------------------------
\* f[n] is what n rounds make of C, for n up to k.
Rounds(f, k, C, pending) ==
  /\ f[0] = C
  /\ \A n \in 1 .. k : f[n] = OneMore(f[n - 1], pending)

LEMMA RoundsAgree ==
  ASSUME NEW C, NEW pending, NEW k \in Nat, NEW f, NEW g,
         Rounds(f, k, C, pending), Rounds(g, k, C, pending)
  PROVE  \A n \in 0 .. k : f[n] = g[n]
<1>. DEFINE S == {n \in Nat : n <= k => f[n] = g[n]}
<1>1. 0 \in S
  BY DEF Rounds
<1>2. ASSUME NEW n \in Nat, n \in S PROVE n + 1 \in S
  <2>. SUFFICES ASSUME n + 1 <= k PROVE f[n + 1] = g[n + 1]
    OBVIOUS
  <2>1. f[n] = g[n] /\ n + 1 \in 1 .. k /\ (n + 1) - 1 = n
    BY <1>2
  <2>. QED
    BY <2>1 DEF Rounds
<1>3. Nat \subseteq S
  <2>. HIDE DEF S
  <2>. QED
    BY <1>1, <1>2, NatSetInduction
<1>. QED
  BY <1>3

LEMMA RoundsExist ==
  ASSUME NEW C, NEW pending, NEW k \in Nat
  PROVE  \E f : Rounds(f, k, C, pending)
<1>. DEFINE S == {n \in Nat : \E f : Rounds(f, n, C, pending)}
<1>1. 0 \in S
  <2>1. Rounds([n \in {0} |-> C], 0, C, pending)
    BY DEF Rounds
  <2>. QED
    BY <2>1
<1>2. ASSUME NEW n \in Nat, n \in S PROVE n + 1 \in S
  <2>1. PICK f : Rounds(f, n, C, pending)
    BY <1>2
  <2>. DEFINE g == [m \in 0 .. n + 1 |->
                     IF m = n + 1 THEN OneMore(f[n], pending) ELSE f[m]]
  <2>2. g[0] = C
    BY <2>1 DEF Rounds
  <2>3. ASSUME NEW m \in 1 .. n + 1 PROVE g[m] = OneMore(g[m - 1], pending)
    <3>1. CASE m = n + 1
      BY <3>1
    <3>2. CASE m # n + 1
      <4>1. m \in 1 .. n /\ m - 1 \in 0 .. n + 1 /\ m - 1 # n + 1
        BY <3>2
      <4>2. g[m] = f[m] /\ g[m - 1] = f[m - 1]
        BY <3>2, <4>1
      <4>. QED
        BY <4>1, <4>2, <2>1 DEF Rounds
    <3>. QED
      BY <3>1, <3>2
  <2>4. Rounds(g, n + 1, C, pending)
    BY <2>2, <2>3 DEF Rounds
  <2>. QED
    BY <2>4
<1>3. Nat \subseteq S
  <2>. HIDE DEF S
  <2>. QED
    BY <1>1, <1>2, NatSetInduction
<1>. QED
  BY <1>3

\* The function that Explanations defines by recursion is there.
After(C, pending) ==
  CHOOSE f : f = [n \in Nat |-> IF n = 0 THEN C ELSE OneMore(f[n - 1], pending)]

LEMMA AfterRecursion ==
  ASSUME NEW C, NEW pending
  PROVE  /\ After(C, pending)[0] = C
         /\ \A n \in Nat : After(C, pending)[n + 1] = OneMore(After(C, pending)[n], pending)
         /\ Explanations(C, pending) = After(C, pending)[Cardinality(DOMAIN pending)]
<1>. DEFINE F(n) == CHOOSE f : Rounds(f, n, C, pending)
            G == [n \in Nat |-> F(n)[n]]
<1>1. ASSUME NEW n \in Nat PROVE Rounds(F(n), n, C, pending)
  BY RoundsExist
<1>2. G[0] = C
  BY <1>1 DEF Rounds
<1>3. ASSUME NEW n \in Nat, n # 0 PROVE G[n] = OneMore(G[n - 1], pending)
  <2>. HIDE DEF F
  <2>1. n - 1 \in Nat /\ n \in 1 .. n /\ n - 1 \in 0 .. n - 1
    BY <1>3
  <2>2. F(n)[n] = OneMore(F(n)[n - 1], pending)
    BY <1>1, <2>1 DEF Rounds
  <2>3. Rounds(F(n), n - 1, C, pending) /\ Rounds(F(n - 1), n - 1, C, pending)
    BY <1>1, <2>1 DEF Rounds
  <2>4. F(n)[n - 1] = F(n - 1)[n - 1]
    BY <2>1, <2>3, RoundsAgree
  <2>. QED
    BY <2>1, <2>2, <2>4
<1>4. G = [n \in Nat |-> IF n = 0 THEN C ELSE OneMore(G[n - 1], pending)]
  <2>1. \A n \in Nat : G[n] = IF n = 0 THEN C ELSE OneMore(G[n - 1], pending)
    <3>. HIDE DEF G
    <3>. QED
      BY <1>2, <1>3
  <2>2. G = [n \in Nat |-> G[n]]
    OBVIOUS
  <2>. HIDE DEF G
  <2>. QED
    BY <2>1, <2>2
<1>5. After(C, pending) =
        [n \in Nat |-> IF n = 0 THEN C ELSE OneMore(After(C, pending)[n - 1], pending)]
  <2>. HIDE DEF G
  <2>. QED
    BY <1>4 DEF After
<1>6. Explanations(C, pending) = After(C, pending)[Cardinality(DOMAIN pending)]
  BY DEF Explanations, After
<1>7. ASSUME NEW n \in Nat
      PROVE  After(C, pending)[n + 1] = OneMore(After(C, pending)[n], pending)
  <2>1. n + 1 \in Nat /\ n + 1 # 0 /\ (n + 1) - 1 = n
    OBVIOUS
  <2>. HIDE DEF After
  <2>. QED
    BY <1>5, <2>1
<1>8. After(C, pending)[0] = C
  <2>. HIDE DEF After
  <2>. QED
    BY <1>5
<1>. QED
  BY <1>6, <1>7, <1>8

-----------------------------------------------------------------------------
(***************************************************************************)
(* The configurations over a set of items, and the calls on them.          *)
(***************************************************************************)
Configurations(Items) ==
  [q : Seq(Items), ans : [Procs -> Items \cup {OK, EMPTY, NONE}]]

Calls(Items, pending) ==
  /\ NONE \notin Items \cup {OK, EMPTY}
  /\ IsFiniteSet(DOMAIN pending) /\ DOMAIN pending \subseteq Procs
  /\ \A p \in DOMAIN pending : pending[p] \in Items \cup {DEQUEUE}

\* A call that takes effect is answered, and it is the only one.
LEMMA TakeEffectAnswers ==
  ASSUME NEW Items, NEW pending, Calls(Items, pending), NEW c \in Configurations(Items),
         NEW p \in DOMAIN pending
  PROVE  /\ TakeEffect(c, p, pending[p]) \in Configurations(Items)
         /\ TakeEffect(c, p, pending[p]).ans[p] # NONE
         /\ \A t \in Procs \ {p} : TakeEffect(c, p, pending[p]).ans[t] = c.ans[t]
<1>0. /\ p \in Procs /\ c.q \in Seq(Items) /\ c.ans \in [Procs -> Items \cup {OK, EMPTY, NONE}]
      /\ NONE \notin Items \cup {OK, EMPTY} /\ pending[p] \in Items \cup {DEQUEUE}
  BY DEF Calls, Configurations
<1>1. ASSUME NEW r \in Items \cup {OK, EMPTY}, NEW items \in Seq(Items)
      PROVE  /\ Answer(c, p, r, items) \in Configurations(Items)
             /\ Answer(c, p, r, items).ans[p] # NONE
             /\ \A t \in Procs \ {p} : Answer(c, p, r, items).ans[t] = c.ans[t]
  BY <1>0 DEF Answer, Configurations
<1>2. CASE pending[p] # DEQUEUE
  <2>1. Append(c.q, pending[p]) \in Seq(Items)
    BY <1>0, <1>2
  <2>. QED
    BY <1>1, <1>2, <2>1 DEF TakeEffect
<1>3. CASE pending[p] = DEQUEUE /\ c.q = <<>>
  <2>1. TakeEffect(c, p, pending[p]) = Answer(c, p, EMPTY, c.q)
    BY <1>3 DEF TakeEffect
  <2>2. EMPTY \in Items \cup {OK, EMPTY} /\ c.q \in Seq(Items)
    BY <1>0
  <2>3. /\ Answer(c, p, EMPTY, c.q) \in Configurations(Items)
        /\ Answer(c, p, EMPTY, c.q).ans[p] # NONE
        /\ \A t \in Procs \ {p} : Answer(c, p, EMPTY, c.q).ans[t] = c.ans[t]
    BY <1>1, <2>2
  <2>. QED
    BY <2>1, <2>3
<1>4. CASE pending[p] = DEQUEUE /\ c.q # <<>>
  <2>1. Head(c.q) \in Items /\ Tail(c.q) \in Seq(Items)
    BY <1>0, <1>4
  <2>. QED
    BY <1>1, <1>4, <2>1 DEF TakeEffect
<1>. QED
  BY <1>2, <1>3, <1>4

LEMMA AfterKeepsType ==
  ASSUME NEW Items, NEW pending, Calls(Items, pending),
         NEW C, C \subseteq Configurations(Items)
  PROVE  \A n \in Nat : After(C, pending)[n] \subseteq Configurations(Items)
<1>. DEFINE S == {n \in Nat : After(C, pending)[n] \subseteq Configurations(Items)}
<1>1. 0 \in S
  BY AfterRecursion
<1>2. ASSUME NEW n \in Nat, n \in S PROVE n + 1 \in S
  <2>1. OneMore(After(C, pending)[n], pending) \subseteq Configurations(Items)
    BY <1>2, TakeEffectAnswers DEF OneMore
  <2>. QED
    BY <2>1, AfterRecursion
<1>3. Nat \subseteq S
  <2>. HIDE DEF S
  <2>. QED
    BY <1>1, <1>2, NatSetInduction
<1>. QED
  BY <1>3

LEMMA AfterMonotone ==
  ASSUME NEW C, NEW pending, NEW n \in Nat, NEW m \in Nat, n <= m
  PROVE  After(C, pending)[n] \subseteq After(C, pending)[m]
<1>. DEFINE S == {k \in Nat : n <= k => After(C, pending)[n] \subseteq After(C, pending)[k]}
<1>1. 0 \in S
  OBVIOUS
<1>2. ASSUME NEW k \in Nat, k \in S PROVE k + 1 \in S
  <2>1. After(C, pending)[k] \subseteq After(C, pending)[k + 1]
    BY AfterRecursion DEF OneMore
  <2>2. n <= k + 1 => n <= k \/ n = k + 1
    OBVIOUS
  <2>. QED
    BY <1>2, <2>1, <2>2
<1>3. Nat \subseteq S
  <2>. HIDE DEF S
  <2>. QED
    BY <1>1, <1>2, NatSetInduction
<1>. QED
  BY <1>3

\* The pending calls that have taken effect in c.
Effective(c, pending) == {t \in DOMAIN pending : c.ans[t] # NONE}

LEMMA EffectiveCount ==
  ASSUME NEW Items, NEW pending, Calls(Items, pending), NEW c
  PROVE  /\ Cardinality(Effective(c, pending)) \in Nat
         /\ Cardinality(DOMAIN pending) \in Nat
         /\ Cardinality(Effective(c, pending)) <= Cardinality(DOMAIN pending)
         /\ \A p \in DOMAIN pending : c.ans[p] = NONE =>
              Cardinality(Effective(c, pending)) < Cardinality(DOMAIN pending)
<1>1. /\ IsFiniteSet(DOMAIN pending) /\ Effective(c, pending) \subseteq DOMAIN pending
      /\ \A p \in DOMAIN pending : c.ans[p] = NONE => Effective(c, pending) # DOMAIN pending
  BY DEF Calls, Effective
<1>2. IsFiniteSet(Effective(c, pending))
  BY <1>1, FS_Subset
<1>3. /\ Cardinality(Effective(c, pending)) \in Nat /\ Cardinality(DOMAIN pending) \in Nat
      /\ Cardinality(Effective(c, pending)) <= Cardinality(DOMAIN pending)
      /\ Cardinality(Effective(c, pending)) = Cardinality(DOMAIN pending)
           => Effective(c, pending) = DOMAIN pending
  BY <1>1, <1>2, FS_Subset, FS_CardinalityType
<1>. QED
  BY <1>1, <1>3

\* A configuration needs no more rounds than calls that have taken effect in it.
LEMMA RoundsNeeded ==
  ASSUME NEW Items, NEW pending, Calls(Items, pending),
         NEW C, C \subseteq Configurations(Items), NEW m \in Nat,
         NEW c \in After(C, pending)[m]
  PROVE  c \in After(C, pending)[Cardinality(Effective(c, pending))]
<1>. DEFINE E(n) == After(C, pending)[n]
            card(d) == Cardinality(Effective(d, pending))
            S == {n \in Nat : \A d \in E(n) : d \in E(card(d))}
<1>1. 0 \in S
  <2>1. \A d \in E(0) : card(d) \in Nat /\ 0 <= card(d)
    BY EffectiveCount
  <2>. QED
    BY <2>1, AfterMonotone
<1>2. ASSUME NEW n \in Nat, n \in S PROVE n + 1 \in S
  <2>. SUFFICES ASSUME NEW d \in E(n + 1) PROVE d \in E(card(d))
    OBVIOUS
  <2>1. CASE d \in E(n)
    BY <1>2, <2>1
  <2>2. CASE d \notin E(n)
    <3>1. PICK b \in E(n), p \in DOMAIN pending :
            b.ans[p] = NONE /\ d = TakeEffect(b, p, pending[p])
      BY <2>2, AfterRecursion DEF OneMore
    <3>2. b \in Configurations(Items) /\ b \in E(card(b)) /\ card(b) \in Nat
      BY <1>2, AfterKeepsType, EffectiveCount
    <3>3. Effective(d, pending) = Effective(b, pending) \cup {p} /\ p \notin Effective(b, pending)
      <4>1. \A t \in DOMAIN pending : t \in Procs
        BY DEF Calls
      <4>. QED
        BY <3>1, <3>2, <4>1, TakeEffectAnswers DEF Effective
    <3>4. card(d) = card(b) + 1
      <4>1. IsFiniteSet(Effective(b, pending))
        BY FS_Subset DEF Calls, Effective
      <4>. QED
        BY <3>3, <4>1, FS_AddElement
    <3>5. d \in OneMore(E(card(b)), pending)
      BY <3>1, <3>2 DEF OneMore
    <3>6. d \in E(card(b) + 1)
      BY <3>2, <3>5, AfterRecursion
    <3>. QED
      BY <3>4, <3>6
  <2>. QED
    BY <2>1, <2>2
<1>3. Nat \subseteq S
  <2>. HIDE DEF S
  <2>. QED
    BY <1>1, <1>2, NatSetInduction
<1>. QED
  BY <1>3
-----------------------------------------------------------------------------
LEMMA ExplanationsTyped ==
  ASSUME NEW Items, NEW pending, Calls(Items, pending),
         NEW C, C \subseteq Configurations(Items)
  PROVE  Explanations(C, pending) \subseteq Configurations(Items)
BY AfterKeepsType, AfterRecursion, FS_CardinalityType DEF Calls

LEMMA ExplanationsStart ==
  ASSUME NEW C, NEW pending, IsFiniteSet(DOMAIN pending)
  PROVE  C \subseteq Explanations(C, pending)
<1>1. Cardinality(DOMAIN pending) \in Nat /\ 0 <= Cardinality(DOMAIN pending)
  BY FS_CardinalityType
<1>. QED
  BY <1>1, AfterRecursion, AfterMonotone

\* Any pending call that has not taken effect may.
LEMMA ExplanationsClosed ==
  ASSUME NEW Items, NEW pending, Calls(Items, pending),
         NEW C, C \subseteq Configurations(Items),
         NEW c \in Explanations(C, pending), NEW p \in DOMAIN pending, c.ans[p] = NONE
  PROVE  TakeEffect(c, p, pending[p]) \in Explanations(C, pending)
<1>. DEFINE n == Cardinality(Effective(c, pending))
            k == Cardinality(DOMAIN pending)
<1>1. n \in Nat /\ k \in Nat /\ n < k
  BY EffectiveCount
<1>2. c \in After(C, pending)[n]
  BY <1>1, AfterRecursion, RoundsNeeded
<1>3. TakeEffect(c, p, pending[p]) \in OneMore(After(C, pending)[n], pending)
  BY <1>2 DEF OneMore
<1>4. TakeEffect(c, p, pending[p]) \in After(C, pending)[n + 1]
  BY <1>1, <1>3, AfterRecursion
<1>5. After(C, pending)[n + 1] \subseteq After(C, pending)[k]
  <2>1. n + 1 \in Nat /\ n + 1 <= k
    BY <1>1
  <2>. HIDE DEF n, k
  <2>. QED
    BY <1>1, <2>1, AfterMonotone
<1>. QED
  BY <1>4, <1>5, AfterRecursion

\* More calls, more explanations.
LEMMA ExplanationsGrow ==
  ASSUME NEW C, NEW pending, NEW more, IsFiniteSet(DOMAIN more),
         DOMAIN pending \subseteq DOMAIN more,
         \A p \in DOMAIN pending : more[p] = pending[p]
  PROVE  Explanations(C, pending) \subseteq Explanations(C, more)
<1>. DEFINE S == {n \in Nat : After(C, pending)[n] \subseteq After(C, more)[n]}
<1>1. 0 \in S
  BY AfterRecursion
<1>2. ASSUME NEW n \in Nat, n \in S PROVE n + 1 \in S
  <2>1. OneMore(After(C, pending)[n], pending) \subseteq OneMore(After(C, more)[n], more)
    BY <1>2 DEF OneMore
  <2>. QED
    BY <2>1, AfterRecursion
<1>3. Nat \subseteq S
  <2>. HIDE DEF S
  <2>. QED
    BY <1>1, <1>2, NatSetInduction
<1>. DEFINE n == Cardinality(DOMAIN pending)
            k == Cardinality(DOMAIN more)
<1>4. n \in Nat /\ k \in Nat /\ n <= k
  BY FS_Subset, FS_CardinalityType
<1>5. After(C, pending)[n] \subseteq After(C, more)[n]
  BY <1>3, <1>4
<1>6. After(C, more)[n] \subseteq After(C, more)[k]
  <2>. HIDE DEF n, k
  <2>. QED
    BY <1>4, AfterMonotone
<1>. QED
  BY <1>5, <1>6, AfterRecursion

\* What explained the answer that was given still explains all answers.
LEMMA RespondKeeps ==
  ASSUME NEW Items, NEW pending, NEW C, NEW p \in Procs, NEW r,
         NEW c \in Configurations(Items), c.ans[p] = NONE,
         Answer(c, p, r, c.q) \in Explanations(C, pending),
         NEW next, IsFiniteSet(DOMAIN next)
  PROVE  c \in Explanations(Respond(C, pending, p, r), next)
<1>. DEFINE d == Answer(c, p, r, c.q)
<1>1. c.ans \in [Procs -> Items \cup {OK, EMPTY, NONE}] /\ c = [q |-> c.q, ans |-> c.ans]
  BY DEF Configurations
<1>2. d.ans[p] = r /\ [d EXCEPT !.ans[p] = NONE] = c
  <2>1. [[c.ans EXCEPT ![p] = r] EXCEPT ![p] = NONE] = c.ans
    BY <1>1
  <2>. QED
    BY <1>1, <2>1 DEF Answer
<1>3. c \in Respond(C, pending, p, r)
  <2>1. d \in Explanations(C, pending)
    OBVIOUS
  <2>. HIDE DEF d
  <2>. QED
    BY <1>2, <2>1 DEF Respond
<1>. QED
  BY <1>3, ExplanationsStart

LEMMA RespondTyped ==
  ASSUME NEW Items, NEW pending, Calls(Items, pending),
         NEW C, C \subseteq Configurations(Items), NEW p \in Procs, NEW r
  PROVE  Respond(C, pending, p, r) \subseteq Configurations(Items)
BY ExplanationsTyped DEF Respond, Configurations

\* Without a configuration to start from there is no explanation.
LEMMA ExplanationsOfNone ==
  ASSUME NEW Items, NEW pending, Calls(Items, pending)
  PROVE  Explanations({}, pending) = {}
<1>. DEFINE S == {n \in Nat : After({}, pending)[n] = {}}
<1>1. 0 \in S
  BY AfterRecursion
<1>2. ASSUME NEW n \in Nat, n \in S PROVE n + 1 \in S
  <2>1. OneMore({}, pending) = {}
    BY DEF OneMore
  <2>2. After({}, pending)[n] = {} /\ n + 1 \in Nat
    BY <1>2
  <2>3. After({}, pending)[n + 1] = OneMore(After({}, pending)[n], pending)
    BY AfterRecursion
  <2>. QED
    BY <2>1, <2>2, <2>3
<1>3. Nat \subseteq S
  <2>. HIDE DEF S
  <2>. QED
    BY <1>1, <1>2, NatSetInduction
<1>. QED
  BY <1>3, AfterRecursion, FS_CardinalityType DEF Calls

LEMMA StartTyped ==
  ASSUME NEW Items PROVE Start \subseteq Configurations(Items)
BY DEF Start, Configurations

\* A dequeue that has had no effect may be forgotten.
LEMMA WithdrawTyped ==
  ASSUME NEW Items, NEW C, C \subseteq Configurations(Items), NEW p \in Procs
  PROVE  Withdraw(C, p) \subseteq Configurations(Items)
BY DEF Withdraw, Configurations

LEMMA WithdrawKeeps ==
  ASSUME NEW Items, NEW pending, Calls(Items, pending),
         NEW C, C \subseteq Configurations(Items), NEW p \in Procs,
         NEW c \in Explanations(C, pending), c.ans[p] = NONE,
         NEW next, DOMAIN next = DOMAIN pending \ {p},
         \A t \in DOMAIN next : next[t] = pending[t]
  PROVE  c \in Explanations(Withdraw(C, p), next)
<1>. DEFINE W == Withdraw(C, p)
            S == {n \in Nat : \A d \in After(C, pending)[n] :
                                d.ans[p] = NONE => d \in After(W, next)[n]}
            k == Cardinality(DOMAIN pending)
            n == Cardinality(Effective(c, next))
<1>0. Calls(Items, next)
  BY FS_Subset DEF Calls
<1>1. 0 \in S
  <2>1. ASSUME NEW d \in C, d.ans[p] = NONE PROVE d \in W
    <3>1. d.ans \in [Procs -> Items \cup {OK, EMPTY, NONE}] /\ d = [q |-> d.q, ans |-> d.ans]
      BY DEF Configurations
    <3>2. [d EXCEPT !.ans[p] = NONE] = d
      BY <2>1, <3>1
    <3>. QED
      BY <2>1, <3>2 DEF Withdraw
  <2>. HIDE DEF W
  <2>. QED
    BY <2>1, AfterRecursion
<1>2. ASSUME NEW i \in Nat, i \in S PROVE i + 1 \in S
  <2>. SUFFICES ASSUME NEW d \in After(C, pending)[i + 1], d.ans[p] = NONE
                PROVE  d \in After(W, next)[i + 1]
    OBVIOUS
  <2>. HIDE DEF W
  <2>0. /\ After(C, pending)[i + 1] = OneMore(After(C, pending)[i], pending)
        /\ After(W, next)[i + 1] = OneMore(After(W, next)[i], next)
    BY AfterRecursion
  <2>1. CASE d \in After(C, pending)[i]
    BY <1>2, <2>0, <2>1 DEF OneMore
  <2>2. CASE d \notin After(C, pending)[i]
    <3>1. PICK b \in After(C, pending)[i], t \in DOMAIN pending :
            b.ans[t] = NONE /\ d = TakeEffect(b, t, pending[t])
      BY <2>0, <2>2 DEF OneMore
    <3>2. b \in Configurations(Items)
      BY AfterKeepsType
    <3>3. t # p /\ b.ans[p] = NONE
      BY <3>1, <3>2, TakeEffectAnswers
    <3>4. b \in After(W, next)[i] /\ t \in DOMAIN next /\ next[t] = pending[t]
      BY <1>2, <3>3
    <3>. QED
      BY <2>0, <3>1, <3>4 DEF OneMore
  <2>. QED
    BY <2>1, <2>2
<1>3. Nat \subseteq S
  <2>. HIDE DEF S
  <2>. QED
    BY <1>1, <1>2, NatSetInduction
<1>4. k \in Nat /\ c \in After(C, pending)[k]
  BY AfterRecursion, FS_CardinalityType DEF Calls
<1>5. c \in After(W, next)[k]
  BY <1>3, <1>4
<1>6. W \subseteq Configurations(Items)
  BY WithdrawTyped
<1>. HIDE DEF W, k
<1>7. n \in Nat /\ Cardinality(DOMAIN next) \in Nat /\ n <= Cardinality(DOMAIN next)
  BY <1>0, EffectiveCount
<1>8. c \in After(W, next)[n]
  BY <1>0, <1>4, <1>5, <1>6, RoundsNeeded
<1>. HIDE DEF n
<1>9. c \in After(W, next)[Cardinality(DOMAIN next)]
  BY <1>7, <1>8, AfterMonotone
<1>. QED
  BY <1>9, AfterRecursion DEF W
-----------------------------------------------------------------------------
\* A queue with one more item at its head.
LEMMA Cons ==
  ASSUME NEW Items, NEW v \in Items, NEW q \in Seq(Items)
  PROVE  /\ <<v>> \o q \in Seq(Items) /\ <<v>> \o q # <<>>
         /\ DOMAIN (<<v>> \o q) = 1 .. Len(q) + 1 /\ DOMAIN q = 1 .. Len(q) /\ Len(q) \in Nat
         /\ (<<v>> \o q)[1] = v /\ \A i \in 1 .. Len(q) : (<<v>> \o q)[i + 1] = q[i]
         /\ Head(<<v>> \o q) = v /\ Tail(<<v>> \o q) = q
<1>. DEFINE c == <<v>> \o q
<1>1. c \in Seq(Items) /\ Len(c) = Len(q) + 1 /\ Len(q) \in Nat
  OBVIOUS
<1>2. c[1] = v /\ \A i \in 1 .. Len(q) : c[i + 1] = q[i]
  OBVIOUS
<1>3. DOMAIN c = 1 .. Len(q) + 1 /\ DOMAIN q = 1 .. Len(q) /\ c # <<>>
  BY <1>1
<1>4. Head(c) = v
  BY <1>1, <1>2
<1>5. Tail(c) = q
  <2>1. Tail(c) \in Seq(Items) /\ Len(Tail(c)) = Len(q)
    BY <1>1
  <2>2. \A i \in 1 .. Len(q) : Tail(c)[i] = c[i + 1]
    BY <1>1
  <2>. HIDE DEF c
  <2>. QED
    BY <1>2, <2>1, <2>2
<1>. QED
  BY <1>1, <1>2, <1>3, <1>4, <1>5
=============================================================================
