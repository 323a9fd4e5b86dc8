----------------------------- MODULE LLIC_proofs -----------------------------
(***************************************************************************)
(* The LL/IC objects implement module LLIC: LLICRW, with the second collect*)
(* and without it, LLICCAS and LLICSQRT the object that loses nothing,     *)
(* LLICGroup the one that may lose an IC, but only to a thread of the same *)
(* group; for every number of threads, registers and groups.  First the    *)
(* object with one register per thread, then those with shared registers,  *)
(* then all of them.                                                       *)
(***************************************************************************)
EXTENDS MCLLIC, TLAPS

LEMMA SameRW == RW!Procs = Procs /\ RW!None = None
BY DEF RW!Procs, RW!None, Procs, None

\* The registers have a largest element: what makes Top well defined.  It is
\* part of the invariant because it follows step by step from Init, where all
\* registers are 0, and not from TypeOK without an induction over N.
RWHasMax == \E v \in {M[q] : q \in Procs} : \A q \in Procs : M[q] <= v

\* What a thread knows in the middle of LL.  Every register the collect has
\* passed contributed to mx; a register that was at least lo when LL was called
\* is either seen or still ahead, since registers only grow; and the thread's
\* own register is seen once the collect has passed it.
CollectingLL(p) ==
  /\ link[p] = None
  /\ \E q \in Procs : mx[p] <= M[q]
  /\ lo[p] <= mx[p] \/ \E q \in Procs : i[p] <= q /\ lo[p] <= M[q]
  /\ p < i[p] => M[p] <= mx[p]

\* What a thread knows while it holds the value of its last LL: the object has
\* reached that value, and the thread's own register is not above it.
HoldsLink(p) ==
  /\ \E q \in Procs : link[p] <= M[q]
  /\ M[p] <= link[p]

\* What a thread knows in the second collect, the one IC makes.
CollectingIC(p) ==
  /\ \E q \in Procs : mx[p] <= M[q]
  /\ link[p] <= mx[p] \/ \E q \in Procs : i[p] <= q /\ link[p] <= M[q]

RWThreadInv(p) ==
  /\ \E q \in Procs : lo[p] <= M[q]
  /\ pc[p] = "LL" => CollectingLL(p)
  /\ link[p] # None => HoldsLink(p)
  /\ pc[p] = "IC" => CollectingIC(p)
  /\ pc[p] \in {"IC", "store"} => link[p] # None

\* The inductive invariant.
RWInv ==
  /\ RWTypeOK
  /\ RWHasMax
  /\ \A p \in Procs : RWThreadInv(p)
-----------------------------------------------------------------------------
\* Top is the largest register.
LEMMA RWTopIsMax ==
  ASSUME RWTypeOK, RWHasMax
  PROVE  /\ RW!Top \in Nat
         /\ \A q \in Procs : M[q] <= RW!Top
         /\ \E q \in Procs : M[q] = RW!Top
<1>1. PICK v \in {M[q] : q \in Procs} : \A q \in Procs : M[q] <= v
  BY DEF RWHasMax
<1>2. /\ RW!Top \in {M[q] : q \in Procs}
      /\ \A q \in Procs : M[q] <= RW!Top
  BY SameRW, <1>1 DEF RW!Top
<1>. QED
  BY <1>2 DEF RWTypeOK

\* While the registers do not change, neither does Top.
LEMMA RWTopStable ==
  ASSUME UNCHANGED M
  PROVE  RW!Top' = RW!Top
BY SameRW DEF RW!Top
-----------------------------------------------------------------------------
LEMMA RWInitInv == RW!Init => RWInv
<1>. SUFFICES ASSUME RW!Init PROVE RWInv
  OBVIOUS
<1>1. 0 \in Procs
  BY NAssumption DEF Procs
<1>2. RWTypeOK
  BY SameRW, <1>1 DEF RW!Init, RWTypeOK, None
<1>3. RWHasMax
  BY SameRW, <1>1 DEF RW!Init, RWHasMax
<1>4. \A p \in Procs : RWThreadInv(p)
  BY SameRW, <1>1 DEF RW!Init, RWThreadInv
<1>. QED
  BY <1>2, <1>3, <1>4 DEF RWInv

\* What thread q knows survives a step of another thread: its own variables and
\* its own register stay, and no register shrinks.
LEMMA RWOtherThread ==
  ASSUME NEW q \in Procs, RWTypeOK, RWTypeOK', RWThreadInv(q),
         \A r \in Procs : M[r] <= M'[r], M'[q] = M[q],
         pc'[q] = pc[q], i'[q] = i[q], mx'[q] = mx[q],
         link'[q] = link[q], lo'[q] = lo[q]
  PROVE  RWThreadInv(q)'
<1>0. \A r \in Procs : M[r] \in Nat /\ M'[r] \in Nat
  BY DEF RWTypeOK
<1>1. mx[q] \in Nat /\ lo[q] \in Nat /\ link[q] \in Nat \cup {None} /\ None = -1
  BY DEF RWTypeOK, None
<1>2. \A a \in Int : (\E r \in Procs : a <= M[r]) => \E r \in Procs : a <= M'[r]
  BY <1>0
<1>3. \A a \in Int : (\E r \in Procs : i[q] <= r /\ a <= M[r])
                       => \E r \in Procs : i[q] <= r /\ a <= M'[r]
  BY <1>0
<1>. QED
  BY <1>1, <1>2, <1>3 DEF RWThreadInv, CollectingLL, HoldsLink, CollectingIC

\* One read of a collect: mx takes in the register, and a bound b that was seen
\* or ahead is still seen or ahead.
LEMMA ReadKeepsBound ==
  ASSUME NEW p \in Procs, RWTypeOK, \E q \in Procs : mx[p] <= M[q],
         NEW b \in Nat,
         b <= mx[p] \/ \E q \in Procs : i[p] <= q /\ b <= M[q]
  PROVE  /\ RW!Larger(M[i[p]], mx[p]) \in Nat
         /\ M[i[p]] <= RW!Larger(M[i[p]], mx[p])
         /\ mx[p] <= RW!Larger(M[i[p]], mx[p])
         /\ \E q \in Procs : RW!Larger(M[i[p]], mx[p]) <= M[q]
         /\ \/ b <= RW!Larger(M[i[p]], mx[p])
            \/ \E q \in Procs : i[p] + 1 <= q /\ b <= M[q]
<1>1. i[p] \in Procs /\ mx[p] \in Nat /\ \A q \in Procs : M[q] \in Nat
  BY DEF RWTypeOK
<1>. DEFINE new == RW!Larger(M[i[p]], mx[p])
<1>2. new \in {M[i[p]], mx[p]} /\ M[i[p]] <= new /\ mx[p] <= new /\ new \in Nat
  BY <1>1 DEF RW!Larger
<1>3. \E q \in Procs : new <= M[q]
  BY <1>1, <1>2
<1>4. b <= new \/ \E q \in Procs : i[p] + 1 <= q /\ b <= M[q]
  <2>1. CASE b <= mx[p]
    BY <2>1, <1>1, <1>2
  <2>2. CASE \E q \in Procs : i[p] <= q /\ b <= M[q]
    <3>1. PICK q \in Procs : i[p] <= q /\ b <= M[q]
      BY <2>2
    <3>2. q = i[p] \/ i[p] + 1 <= q
      BY <3>1, <1>1, NAssumption DEF Procs
    <3>. QED
      BY <3>1, <3>2, <1>1, <1>2
  <2>. QED
    BY <2>1, <2>2
<1>. QED
  BY <1>2, <1>3, <1>4

\* Steps that leave the registers alone: it is enough to look at the thread
\* that takes them.
LEMMA QuietStep ==
  ASSUME RWInv, RWTypeOK', UNCHANGED M, NEW p \in Procs, RWThreadInv(p)',
         \A q \in Procs \ {p} : /\ pc'[q] = pc[q] /\ i'[q] = i[q] /\ mx'[q] = mx[q]
                                /\ link'[q] = link[q] /\ lo'[q] = lo[q]
  PROVE  RWInv'
<1>1. RWHasMax'
  BY DEF RWInv, RWHasMax
<1>2. \A r \in Procs : M[r] <= M'[r]
  BY DEF RWInv, RWTypeOK
<1>3. ASSUME NEW q \in Procs \ {p} PROVE RWThreadInv(q)'
  BY <1>2, <1>3, RWOtherThread DEF RWInv
<1>. QED
  BY <1>1, <1>3 DEF RWInv

LEMMA RWLLCall == ASSUME RWInv, NEW p \in Procs, RW!LLCall(p) PROVE RWInv'
<1>0. RWTypeOK /\ RWHasMax /\ 0 \in Procs /\ None = -1
  BY NAssumption DEF RWInv, Procs, None
<1>1. /\ pc'[p] = "LL" /\ i'[p] = 0 /\ mx'[p] = 0
      /\ link'[p] = None /\ lo'[p] = RW!Top /\ M' = M
  BY SameRW, <1>0 DEF RW!LLCall, RWTypeOK
<1>2. RWTypeOK'
  BY SameRW, <1>0, RWTopIsMax DEF RW!LLCall, RWTypeOK
<1>3. RWThreadInv(p)'
  <2>1. \E q \in Procs : RW!Top = M[q]
    BY <1>0, RWTopIsMax
  <2>2. \A q \in Procs : M[q] \in Nat /\ 0 <= q
    BY <1>0 DEF RWTypeOK, Procs
  <2>. QED
    BY <1>0, <1>1, <2>1, <2>2 DEF RWThreadInv, CollectingLL, Procs
<1>. QED
  BY SameRW, <1>1, <1>2, <1>3, QuietStep DEF RW!LLCall, RWInv, RWTypeOK

\* What a collect that goes on does to the thread's variables.
LEMMA CollectStep ==
  ASSUME RWTypeOK, NEW p \in Procs, RW!Collect(p)
  PROVE  /\ pc' = pc /\ link' = link /\ lo' = lo /\ M' = M
         /\ i'[p] = i[p] + 1 /\ mx'[p] = RW!Larger(M[i[p]], mx[p])
         /\ i[p] \in Procs /\ i[p] + 1 \in Procs
<1>1. i[p] \in Procs /\ i[p] < N - 1 /\ N \in Nat
  BY NAssumption DEF RWTypeOK, RW!Collect
<1>2. i[p] + 1 \in Procs
  BY <1>1 DEF Procs
<1>. QED
  BY <1>1, <1>2 DEF RW!Collect, RWTypeOK

LEMMA RWLLRead == ASSUME RWInv, NEW p \in Procs, RW!LLRead(p) PROVE RWInv'
<1>0. RWTypeOK /\ RWThreadInv(p) /\ None = -1 /\ N \in Nat
  BY NAssumption DEF RWInv, None
<1>1. /\ pc[p] = "LL" /\ pc' = pc /\ link' = link /\ lo' = lo /\ M' = M
      /\ i'[p] = i[p] + 1 /\ mx'[p] = RW!Larger(M[i[p]], mx[p])
      /\ i[p] \in Procs /\ i[p] + 1 \in Procs
  BY <1>0, CollectStep DEF RW!LLRead
<1>2. /\ RW!Larger(M[i[p]], mx[p]) \in Nat
      /\ M[i[p]] <= RW!Larger(M[i[p]], mx[p])
      /\ mx[p] <= RW!Larger(M[i[p]], mx[p])
      /\ \E q \in Procs : RW!Larger(M[i[p]], mx[p]) <= M[q]
      /\ \/ lo[p] <= RW!Larger(M[i[p]], mx[p])
         \/ \E q \in Procs : i[p] + 1 <= q /\ lo[p] <= M[q]
  BY <1>0, <1>1, ReadKeepsBound DEF RWThreadInv, CollectingLL, RWTypeOK
<1>3. RWTypeOK'
  BY <1>0, <1>1, <1>2 DEF RW!LLRead, RW!Collect, RWTypeOK
<1>4. p < i[p] + 1 => M[p] <= RW!Larger(M[i[p]], mx[p])
  <2>1. M[p] \in Nat /\ mx[p] \in Nat /\ (p < i[p] => M[p] <= mx[p])
    BY <1>0, <1>1 DEF RWThreadInv, CollectingLL, RWTypeOK
  <2>2. p < i[p] + 1 => p < i[p] \/ p = i[p]
    BY <1>1 DEF Procs
  <2>. QED
    BY <1>2, <2>1, <2>2
<1>5. RWThreadInv(p)'
  BY <1>0, <1>1, <1>2, <1>4 DEF RWThreadInv, CollectingLL
<1>. QED
  BY <1>0, <1>1, <1>3, <1>5, QuietStep DEF RW!LLRead, RW!Collect, RWTypeOK

\* When a collect has read its last register, the bound is seen.
LEMMA LastRead ==
  ASSUME NEW p \in Procs, RWTypeOK, i[p] = N - 1, NEW b \in Nat,
         \/ b <= RW!Larger(M[i[p]], mx[p])
         \/ \E q \in Procs : i[p] + 1 <= q /\ b <= M[q]
  PROVE  b <= RW!Larger(M[i[p]], mx[p])
BY NAssumption DEF Procs

LEMMA RWLLReturn ==
  ASSUME RWInv, NEW p \in Procs, RW!LLReturn(p)
  PROVE  /\ RWInv'
         /\ link'[p] \in Nat
         /\ lo[p] <= link'[p]
         /\ link'[p] <= RW!Top
<1>0. RWTypeOK /\ RWHasMax /\ RWThreadInv(p) /\ None = -1 /\ N \in Nat
  BY NAssumption DEF RWInv, None
<1>. DEFINE new == RW!Larger(M[i[p]], mx[p])
<1>1. /\ pc[p] = "LL" /\ pc'[p] = "idle" /\ lo' = lo /\ M' = M /\ i' = i
      /\ i[p] = N - 1 /\ mx'[p] = new /\ link'[p] = new /\ i[p] \in Procs
  BY <1>0 DEF RW!LLReturn, RWTypeOK
<1>2. /\ new \in Nat /\ M[i[p]] <= new /\ mx[p] <= new
      /\ \E q \in Procs : new <= M[q]
      /\ lo[p] <= new \/ \E q \in Procs : i[p] + 1 <= q /\ lo[p] <= M[q]
  BY <1>0, <1>1, ReadKeepsBound DEF RWThreadInv, CollectingLL, RWTypeOK
<1>3. lo[p] <= new
  BY <1>0, <1>1, <1>2, LastRead DEF RWTypeOK
<1>4. M[p] <= new
  <2>1. p = i[p] \/ p < i[p]
    BY <1>0, <1>1 DEF Procs
  <2>2. M[p] \in Nat /\ mx[p] \in Nat /\ (p < i[p] => M[p] <= mx[p])
    BY <1>0, <1>1 DEF RWThreadInv, CollectingLL, RWTypeOK
  <2>. QED
    BY <1>2, <2>1, <2>2
<1>5. new <= RW!Top
  BY <1>0, <1>2, RWTopIsMax DEF RWTypeOK
<1>6. RWTypeOK'
  BY <1>0, <1>1, <1>2 DEF RW!LLReturn, RWTypeOK
<1>7. RWThreadInv(p)'
  BY <1>0, <1>1, <1>2, <1>4 DEF RWThreadInv, HoldsLink
<1>8. RWInv'
  BY <1>0, <1>1, <1>6, <1>7, QuietStep DEF RW!LLReturn, RWTypeOK
<1>. QED
  BY <1>1, <1>2, <1>3, <1>5, <1>8

LEMMA RWICCall == ASSUME RWInv, NEW p \in Procs, RW!ICCall(p) PROVE RWInv'
<1>0. RWTypeOK /\ RWThreadInv(p) /\ None = -1 /\ 0 \in Procs
  BY NAssumption DEF RWInv, None, Procs
<1>1. /\ pc'[p] \in {"IC", "store"} /\ i'[p] = 0 /\ mx'[p] = 0 /\ link' = link
      /\ lo' = lo /\ M' = M /\ link[p] # None
  BY SameRW, <1>0 DEF RW!ICCall, RWTypeOK
<1>2. RWTypeOK'
  BY SameRW, <1>0 DEF RW!ICCall, RWTypeOK
<1>3. \A q \in Procs : M[q] \in Nat /\ 0 <= q
  BY <1>0 DEF RWTypeOK, Procs
<1>4. RWThreadInv(p)'
  BY <1>0, <1>1, <1>3 DEF RWThreadInv, HoldsLink, CollectingIC
<1>. QED
  BY SameRW, <1>0, <1>1, <1>2, <1>4, QuietStep DEF RW!ICCall, RWTypeOK

LEMMA RWICRead == ASSUME RWInv, NEW p \in Procs, RW!ICRead(p) PROVE RWInv'
<1>0. RWTypeOK /\ RWThreadInv(p) /\ None = -1 /\ N \in Nat
  BY NAssumption DEF RWInv, None
<1>1. /\ pc[p] = "IC" /\ pc' = pc /\ link' = link /\ lo' = lo /\ M' = M
      /\ i'[p] = i[p] + 1 /\ mx'[p] = RW!Larger(M[i[p]], mx[p])
      /\ i[p] \in Procs /\ i[p] + 1 \in Procs /\ link[p] # None
  BY <1>0, CollectStep DEF RW!ICRead, RWThreadInv
<1>2. /\ RW!Larger(M[i[p]], mx[p]) \in Nat
      /\ \E q \in Procs : RW!Larger(M[i[p]], mx[p]) <= M[q]
      /\ \/ link[p] <= RW!Larger(M[i[p]], mx[p])
         \/ \E q \in Procs : i[p] + 1 <= q /\ link[p] <= M[q]
  BY <1>0, <1>1, ReadKeepsBound DEF RWThreadInv, CollectingIC, RWTypeOK
<1>3. RWTypeOK'
  BY <1>0, <1>1, <1>2 DEF RW!ICRead, RW!Collect, RWTypeOK
<1>5. RWThreadInv(p)'
  BY <1>0, <1>1, <1>2 DEF RWThreadInv, CollectingIC, HoldsLink
<1>. QED
  BY <1>0, <1>1, <1>3, <1>5, QuietStep DEF RW!ICRead, RW!Collect, RWTypeOK

\* What the last read of the second collect has found out.
LEMMA ICCollected ==
  ASSUME RWInv, NEW p \in Procs, pc[p] = "IC", i[p] = N - 1
  PROVE  /\ RW!Larger(M[i[p]], mx[p]) \in Nat
         /\ \E q \in Procs : RW!Larger(M[i[p]], mx[p]) <= M[q]
         /\ link[p] \in Nat
         /\ link[p] <= RW!Larger(M[i[p]], mx[p])
         /\ RW!Larger(M[i[p]], mx[p]) <= RW!Top
<1>0. RWTypeOK /\ RWHasMax /\ RWThreadInv(p) /\ link[p] \in Nat
  BY DEF RWInv, RWThreadInv, RWTypeOK
<1>1. /\ RW!Larger(M[i[p]], mx[p]) \in Nat
      /\ \E q \in Procs : RW!Larger(M[i[p]], mx[p]) <= M[q]
      /\ \/ link[p] <= RW!Larger(M[i[p]], mx[p])
         \/ \E q \in Procs : i[p] + 1 <= q /\ link[p] <= M[q]
  BY <1>0, ReadKeepsBound DEF RWThreadInv, CollectingIC
<1>2. link[p] <= RW!Larger(M[i[p]], mx[p])
  BY <1>0, <1>1, LastRead
<1>3. RW!Larger(M[i[p]], mx[p]) <= RW!Top
  BY <1>0, <1>1, RWTopIsMax DEF RWTypeOK
<1>. QED
  BY <1>0, <1>1, <1>2, <1>3

LEMMA RWICAgree == ASSUME RWInv, NEW p \in Procs, RW!ICAgree(p) PROVE RWInv'
<1>0. RWTypeOK /\ RWThreadInv(p) /\ None = -1
  BY DEF RWInv, None
<1>1. /\ pc[p] = "IC" /\ i[p] = N - 1 /\ pc'[p] = "store" /\ i' = i
      /\ link' = link /\ lo' = lo /\ M' = M /\ link[p] # None
  BY <1>0 DEF RW!ICAgree, RWTypeOK, RWThreadInv
<1>2. RWTypeOK'
  BY <1>0, <1>1, ICCollected DEF RW!ICAgree, RWTypeOK
<1>3. RWThreadInv(p)'
  BY <1>0, <1>1 DEF RWThreadInv, HoldsLink
<1>. QED
  BY <1>0, <1>1, <1>2, <1>3, QuietStep DEF RW!ICAgree, RWTypeOK

LEMMA RWICSkip ==
  ASSUME RWInv, NEW p \in Procs, RW!ICSkip(p)
  PROVE  RWInv' /\ link[p] < RW!Top
<1>0. RWTypeOK /\ RWHasMax /\ RWThreadInv(p) /\ None = -1
  BY DEF RWInv, None
<1>1. /\ pc[p] = "IC" /\ i[p] = N - 1 /\ pc'[p] = "idle" /\ i' = i
      /\ link'[p] = None /\ lo' = lo /\ M' = M
      /\ RW!Larger(M[i[p]], mx[p]) # link[p]
  BY SameRW, <1>0 DEF RW!ICSkip, RWTypeOK
<1>2. RWTypeOK'
  BY SameRW, <1>0, <1>1, ICCollected DEF RW!ICSkip, RWTypeOK
<1>3. RWThreadInv(p)'
  BY <1>0, <1>1 DEF RWThreadInv
<1>4. RWInv'
  BY SameRW, <1>0, <1>1, <1>2, <1>3, QuietStep DEF RW!ICSkip, RWTypeOK
<1>5. link[p] < RW!Top
  BY <1>0, <1>1, ICCollected, RWTopIsMax
<1>. QED
  BY <1>4, <1>5

\* The store: no register shrinks, and the largest moves by one exactly when
\* the thread's LL value is still the largest.
LEMMA RWICStore ==
  ASSUME RWInv, NEW p \in Procs, RW!ICStore(p)
  PROVE  /\ RWInv'
         /\ link[p] \in Nat /\ link[p] <= RW!Top
         /\ \A q \in Procs : M[q] <= M'[q]
         /\ RW!Top' = IF RW!Top = link[p] THEN RW!Top + 1 ELSE RW!Top
<1>0. RWTypeOK /\ RWHasMax /\ RWThreadInv(p) /\ None = -1
  BY DEF RWInv, None
<1>1. link[p] \in Nat /\ M[p] <= link[p] /\ \E q \in Procs : link[p] <= M[q]
  BY SameRW, <1>0 DEF RW!ICStore, RWThreadInv, HoldsLink, RWTypeOK
<1>2. /\ M'[p] = link[p] + 1 /\ \A q \in Procs \ {p} : M'[q] = M[q]
      /\ pc'[p] = "idle" /\ link'[p] = None /\ lo' = lo /\ i' = i /\ mx' = mx
  BY SameRW, <1>0 DEF RW!ICStore, RWTypeOK
<1>3. RWTypeOK'
  BY SameRW, <1>0, <1>1 DEF RW!ICStore, RWTypeOK
<1>4. \A q \in Procs : M[q] \in Nat /\ M'[q] \in Nat
  BY <1>0, <1>3 DEF RWTypeOK
<1>5. \A q \in Procs : M[q] <= M'[q]
  BY <1>1, <1>2, <1>4
<1>6. /\ RW!Top \in Nat /\ \A q \in Procs : M[q] <= RW!Top
      /\ \E q \in Procs : M[q] = RW!Top
  BY <1>0, RWTopIsMax
<1>7. link[p] <= RW!Top
  BY <1>1, <1>4, <1>6
<1>. DEFINE new == IF RW!Top = link[p] THEN RW!Top + 1 ELSE RW!Top
<1>8. new \in Nat /\ \A q \in Procs : M'[q] <= new
  BY <1>1, <1>2, <1>4, <1>6, <1>7
<1>9. \E q \in Procs : M'[q] = new
  <2>1. CASE RW!Top = link[p]
    BY <2>1, <1>2
  <2>2. CASE RW!Top # link[p]
    <3>1. PICK q \in Procs : M[q] = RW!Top
      BY <1>6
    <3>2. q # p
      BY <2>2, <3>1, <1>1, <1>4, <1>7
    <3>. QED
      BY <2>2, <3>1, <3>2, <1>2
  <2>. QED
    BY <2>1, <2>2
<1>10. RWHasMax'
  BY <1>8, <1>9 DEF RWHasMax
<1>11. ASSUME NEW q \in Procs PROVE RWThreadInv(q)'
  <2>1. CASE q = p
    <3>1. PICK r \in Procs : lo[p] <= M[r]
      BY <1>0 DEF RWThreadInv
    <3>2. lo[p] <= M'[r]
      BY <3>1, <1>0, <1>4, <1>5 DEF RWTypeOK
    <3>. QED
      BY <2>1, <3>2, <1>0, <1>2 DEF RWThreadInv
  <2>2. CASE q # p
    BY SameRW, <2>2, <1>0, <1>2, <1>3, <1>5, RWOtherThread DEF RW!ICStore, RWInv, RWTypeOK
  <2>. QED
    BY <2>1, <2>2
<1>12. RWInv'
  BY <1>3, <1>10, <1>11 DEF RWInv
<1>13. RW!Top' = new
  <2>. HIDE DEF new
  <2>1. /\ RW!Top' \in Nat /\ \A q \in Procs : M'[q] <= RW!Top'
        /\ \E q \in Procs : M'[q] = RW!Top'
    <3>1. PICK v \in {M'[q] : q \in Procs} : \A q \in Procs : M'[q] <= v
      BY <1>10 DEF RWHasMax
    <3>2. /\ RW!Top' \in {M'[q] : q \in Procs}
          /\ \A q \in Procs : M'[q] <= RW!Top'
      BY SameRW, <3>1 DEF RW!Top
    <3>. QED
      BY <3>2, <1>4
  <2>. QED
    BY <2>1, <1>4, <1>8, <1>9
<1>. QED
  BY <1>1, <1>5, <1>7, <1>12, <1>13
-----------------------------------------------------------------------------
\* The registers have a largest element, which makes Top well defined.
HasMax == \E v \in {M[r] : r \in Regs} : \A r \in Regs : M[r] <= v

\* LL over registers.  What was in the object at the call is seen or still ahead,
\* since registers only grow; and a register is at least what LL has read from it.
Collecting(p) ==
  /\ \E r \in Regs : lo[p] <= M[r]
  /\ pc[p] = "LL" =>
       /\ link[p] = None
       /\ mx[p] <= M[ind[p]]
       /\ lo[p] <= mx[p] \/ \E r \in Regs : i[p] <= r /\ lo[p] <= M[r]
  /\ pc[p] # "LL" => i[p] = 0 /\ mx[p] = -1

\* A thread has a value that a register has reached; it is the register named by ind,
\* unless IC was called with the index of another object.
Linked(p) ==
  /\ link[p] # None =>
       /\ \E r \in Regs : link[p] <= M[r]
       /\ (shared /\ pc[p] # "idle") \/ link[p] <= M[ind[p]]
  /\ pc[p] \notin {"idle", "LL"} => link[p] # None

SqrtInv(p) == pc[p] = "cas" => x[p] <= link[p]

Alone(p) == \A q \in Procs \ {p} : Pos(q) # Pos(p)

\* What a thread has read from its group's register is there as long as no thread of
\* its group writes.
GroupInv(p) ==
  /\ pc[p] = "loadGroup" =>
       /\ \E r \in Regs : x[p] <= M[r]
       /\ shared \/ link[p] <= x[p]
  /\ pc[p] = "cas" => y[p] <= link[p] /\ (Alone(p) => y[p] = M[Pos(p)])

CasInv(p) ==
  /\ lo[p] <= R
  /\ link[p] # None => link[p] <= R
  /\ pc[p] \in {"IC", "cas"} => link[p] # None
  /\ pc[p] = "LL" => link[p] = None

ThreadInv(p) ==
  /\ impl = "cas" => CasInv(p)
  /\ impl # "cas" => Collecting(p) /\ Linked(p)
  /\ impl = "sqrt" => SqrtInv(p) /\ ~shared
  /\ impl = "group" => GroupInv(p)

\* The inductive invariant.
IInv == SharedTypeOK /\ HasMax /\ \A p \in Procs : ThreadInv(p)
-----------------------------------------------------------------------------
\* The indices that the code computes are indices of registers.
LEMMA Indices ==
  /\ 0 \in Regs /\ Size - 1 \in Regs /\ Size \in Nat /\ N \in Nat /\ None = -1
  /\ \A r \in Regs : r \in Nat
  /\ \A p \in Procs : p \in Nat /\ Pos(p) \in Regs
  /\ \A p \in Procs : ind[p] \in Regs /\ link[p] \in Nat => SQRT!Pos(p) \in Regs
<1>1. /\ 0 \in Regs /\ Size - 1 \in Regs /\ Size \in Nat /\ N \in Nat /\ None = -1
      /\ \A r \in Regs : r \in Nat
      /\ \A p \in Procs : p \in Nat
  BY SizeAssumption, NAssumption DEF Regs, Procs, None
<1>2. ASSUME NEW p \in Procs PROVE Pos(p) \in Regs
  <2>. DEFINE a == p \div GroupSize  b == N \div GroupSize
  <2>1. GroupSize \in Nat \ {0} /\ p \in Nat /\ N \in Nat /\ p < N /\ Size = b + 1
    BY NAssumption, GroupAssumption DEF Procs
  <2>2. a \in Nat /\ b \in Nat /\ a <= b
    BY <2>1
  <2>. QED
    BY <2>1, <2>2 DEF Pos, Regs
<1>3. ASSUME NEW p \in Procs, ind[p] \in Regs, link[p] \in Nat PROVE SQRT!Pos(p) \in Regs
  <2>1. \A k \in Nat : k % Size \in Regs
    BY SizeAssumption DEF Regs
  <2>2. ind[p] + link[p] + p \in Nat
    BY <1>1, <1>3
  <2>. DEFINE first == (ind[p] + link[p] + p) % Size
  <2>3. first \in Regs /\ (first + 1) % Size \in Regs
    BY <2>1, <2>2, <1>1
  <2>. QED
    BY <2>3, <1>1 DEF SQRT!Pos
<1>. QED
  BY <1>1, <1>2, <1>3

\* Top is the largest register.
LEMMA TopIsMax ==
  ASSUME SharedTypeOK, HasMax
  PROVE  /\ Top \in Nat
         /\ \A r \in Regs : M[r] <= Top
         /\ \E r \in Regs : M[r] = Top
<1>1. PICK v \in {M[r] : r \in Regs} : \A r \in Regs : M[r] <= v
  BY DEF HasMax
<1>2. /\ Top \in {M[r] : r \in Regs}
      /\ \A r \in Regs : M[r] <= Top
  BY <1>1 DEF Top
<1>. QED
  BY <1>2 DEF SharedTypeOK

LEMMA TopStable ==
  ASSUME UNCHANGED M
  PROVE  Top' = Top /\ (HasMax => HasMax')
BY DEF Top, HasMax

\* A register is written with a value that it has not passed.
LEMMA Raise ==
  ASSUME SharedTypeOK, HasMax, NEW r \in Regs, NEW v \in Nat, M[r] <= v,
         M' = [M EXCEPT ![r] = v]
  PROVE  /\ HasMax' /\ M' \in [Regs -> Nat]
         /\ M'[r] = v /\ \A q \in Regs : M[q] <= M'[q] /\ (q # r => M'[q] = M[q])
         /\ Top' = IF Top < v THEN v ELSE Top
<1>1. /\ M' \in [Regs -> Nat]
      /\ M'[r] = v /\ \A q \in Regs : M[q] <= M'[q] /\ (q # r => M'[q] = M[q])
  BY DEF SharedTypeOK
<1>2. Top \in Nat /\ \A q \in Regs : M[q] <= Top
  BY TopIsMax
<1>3. PICK t \in Regs : M[t] = Top
  BY TopIsMax
<1>4. \E m \in Regs : \A q \in Regs : M'[q] <= M'[m]
  <2>1. CASE Top < v
    BY <1>1, <1>2, <2>1 DEF SharedTypeOK
  <2>2. CASE ~(Top < v)
    <3>1. M'[t] = Top
      BY <1>1, <1>2, <1>3, <2>2 DEF SharedTypeOK
    <3>2. \A q \in Regs : M'[q] <= M'[t]
      BY <1>1, <1>2, <2>2, <3>1 DEF SharedTypeOK
    <3>. QED
      BY <3>2
  <2>. QED
    BY <2>1, <2>2
<1>5. HasMax'
  BY <1>4 DEF HasMax
<1>6. Top' \in {M'[q] : q \in Regs} /\ \A q \in Regs : M'[q] <= Top'
  BY <1>4 DEF Top
<1>7. PICK m \in Regs : M'[m] = Top'
  BY <1>6
<1>8. Top' = IF Top < v THEN v ELSE Top
  <2>1. v <= Top' /\ Top <= Top'
    BY <1>1, <1>2, <1>3, <1>6, <1>7 DEF SharedTypeOK
  <2>2. Top' = v \/ Top' <= Top
    BY <1>1, <1>2, <1>7 DEF SharedTypeOK
  <2>3. Top' \in Nat
    BY <1>7 DEF SharedTypeOK
  <2>. QED
    BY <1>2, <2>1, <2>2, <2>3
<1>. QED
  BY <1>1, <1>5, <1>8

Grown == R <= R' /\ \A r \in Regs : M[r] <= M'[r]

Undisturbed(q) ==
  /\ pc'[q] = pc[q] /\ i'[q] = i[q] /\ mx'[q] = mx[q] /\ ind'[q] = ind[q]
  /\ link'[q] = link[q] /\ x'[q] = x[q] /\ y'[q] = y[q] /\ lo'[q] = lo[q]

\* What a thread knows stays true while the registers grow.
LEMMA OtherThread ==
  ASSUME SharedTypeOK, SharedTypeOK', NEW q \in Procs, ThreadInv(q), Grown, UNCHANGED <<impl, class>>,
         Undisturbed(q),
         impl = "group" /\ pc[q] = "cas" /\ Alone(q) => M'[Pos(q)] = M[Pos(q)]
  PROVE  ThreadInv(q)'
<1>. USE DEF Undisturbed
<1>0. /\ \A r \in Regs : M[r] \in Nat /\ M'[r] \in Nat /\ M[r] <= M'[r] /\ r \in Nat
      /\ ind[q] \in Regs /\ mx[q] \in Int /\ link[q] \in Int /\ lo[q] \in Nat
      /\ x[q] \in Nat /\ y[q] \in Nat /\ i[q] \in Regs /\ R \in Nat /\ R' \in Nat
      /\ R <= R' /\ shared' = shared /\ impl' = impl /\ None = -1
  BY Indices DEF SharedTypeOK, Grown, class
<1>1. CasInv(q) => CasInv(q)'
  BY <1>0 DEF CasInv
<1>2. Collecting(q) => Collecting(q)'
  <2>. SUFFICES ASSUME Collecting(q) PROVE Collecting(q)'
    OBVIOUS
  <2>1. \E r \in Regs : lo[q] <= M'[r]
    BY <1>0 DEF Collecting
  <2>2. mx[q] <= M[ind[q]] => mx[q] <= M'[ind[q]]
    BY <1>0
  <2>3. (\E r \in Regs : i[q] <= r /\ lo[q] <= M[r]) => \E r \in Regs : i[q] <= r /\ lo[q] <= M'[r]
    BY <1>0
  <2>. QED
    BY <1>0, <2>1, <2>2, <2>3 DEF Collecting
<1>3. Linked(q) => Linked(q)'
  <2>. SUFFICES ASSUME Linked(q) PROVE Linked(q)'
    OBVIOUS
  <2>1. link[q] <= M[ind[q]] => link[q] <= M'[ind[q]]
    BY <1>0
  <2>2. (\E r \in Regs : link[q] <= M[r]) => \E r \in Regs : link[q] <= M'[r]
    BY <1>0
  <2>. QED
    BY <1>0, <2>1, <2>2 DEF Linked
<1>4. SqrtInv(q) => SqrtInv(q)'
  BY DEF SqrtInv
<1>5. impl = "group" /\ GroupInv(q) => GroupInv(q)'
  <2>. SUFFICES ASSUME impl = "group", GroupInv(q) PROVE GroupInv(q)'
    OBVIOUS
  <2>1. (\E r \in Regs : x[q] <= M[r]) => \E r \in Regs : x[q] <= M'[r]
    BY <1>0
  <2>. QED
    BY <1>0, <2>1 DEF GroupInv, Alone, Pos
<1>. QED
  BY <1>0, <1>1, <1>2, <1>3, <1>4, <1>5 DEF ThreadInv

\* It is enough to look at the thread that moves.
LEMMA OneThread ==
  ASSUME IInv, NEW p \in Procs, SharedTypeOK', HasMax', Grown, UNCHANGED <<impl, class>>,
         \A q \in Procs \ {p} : Undisturbed(q),
         \A q \in Procs \ {p} :
           impl = "group" /\ pc[q] = "cas" /\ Alone(q) => M'[Pos(q)] = M[Pos(q)],
         ThreadInv(p)'
  PROVE  IInv'
<1>1. ASSUME NEW q \in Procs PROVE ThreadInv(q)'
  <2>1. CASE q = p
    BY <2>1
  <2>2. CASE q # p
    BY <2>2, OtherThread DEF IInv
  <2>. QED
    BY <2>1, <2>2
<1>. QED
  BY <1>1 DEF IInv
-----------------------------------------------------------------------------
LEMMA InitIInv == SharedInit /\ R = 0 => IInv
<1>. SUFFICES ASSUME SharedInit, R = 0 PROVE IInv
  OBVIOUS
<1>. USE Indices DEF SharedInit, GInit, Init
<1>1. SharedTypeOK
  BY DEF SharedTypeOK
<1>2. HasMax
  BY DEF HasMax
<1>3. ASSUME NEW p \in Procs PROVE ThreadInv(p)
  BY DEF ThreadInv, CasInv, Collecting, Linked, SqrtInv, GroupInv
<1>. QED
  BY <1>1, <1>2, <1>3 DEF IInv

\* LLICSQRT and LLICGroup have LL in common.
LEMMA SameLL ==
  ASSUME NEW p \in Procs
  PROVE  /\ SQRT!LLCall(p) <=> LLCall(p)
         /\ SQRT!LLRead(p) <=> LLRead(p)
         /\ SQRT!LLReturn(p) <=> LLReturn(p)
         /\ SQRT!ICCall(p) <=> ICCall(p)
         /\ SQRT!ICReturn(p) <=> ICReturn(p)
BY DEF LLCall, LLRead, LLReturn, ICCall, ICReturn, Larger, Top, Regs, None,
  SQRT!LLCall, SQRT!LLRead, SQRT!LLReturn, SQRT!ICCall, SQRT!ICReturn, SQRT!Larger, SQRT!Top,
  SQRT!Regs, SQRT!None

\* What holds of the thread that moves.
LEMMA Known ==
  ASSUME IInv, NEW p \in Procs
  PROVE  /\ SharedTypeOK /\ HasMax /\ ThreadInv(p) /\ None = -1
         /\ \A r \in Regs : r \in Nat /\ M[r] \in Nat /\ M[r] <= Top
         /\ Top \in Nat /\ 0 \in Regs /\ Size - 1 \in Regs /\ Size \in Nat
         /\ pc[p] \in {"idle", "LL", "IC", "load", "loadGroup", "cas", "check", "fallback"}
         /\ ind[p] \in Regs /\ i[p] \in Regs /\ mx[p] \in Nat \cup {-1}
         /\ link[p] \in Nat \cup {-1} /\ lo[p] \in Nat /\ x[p] \in Nat /\ y[p] \in Nat
         /\ R \in Nat /\ Pos(p) \in Regs /\ impl # "rw"
<1>1. SharedTypeOK /\ HasMax /\ ThreadInv(p) /\ None = -1
  BY Indices DEF IInv
<1>. QED
  BY <1>1, Indices, TopIsMax DEF SharedTypeOK

LEMMA LLCallIInv ==
  ASSUME IInv, impl # "cas", NEW p \in Procs, LLCall(p), UNCHANGED <<impl, class, y, R>>
  PROVE  IInv'
<1>0. /\ UNCHANGED <<M, R, i, mx, x, y, impl, class>>
      /\ pc' = [pc EXCEPT ![p] = "LL"] /\ ind' = [ind EXCEPT ![p] = 0]
      /\ link' = [link EXCEPT ![p] = None] /\ lo' = [lo EXCEPT ![p] = Top] /\ pc[p] = "idle"
  BY DEF LLCall
<1>1. SharedTypeOK'
  BY <1>0, Known DEF SharedTypeOK
<1>2. HasMax' /\ Grown
  BY <1>0, Known, TopStable DEF Grown, SharedTypeOK
<1>3. \A q \in Procs \ {p} : Undisturbed(q)
  BY <1>0, Known DEF Undisturbed, SharedTypeOK
<1>4. /\ pc'[p] = "LL" /\ ind'[p] = 0 /\ link'[p] = None /\ lo'[p] = Top
      /\ i'[p] = 0 /\ mx'[p] = -1
  BY <1>0, Known DEF SharedTypeOK, ThreadInv, Collecting
<1>5. \E r \in Regs : Top <= M'[r]
  BY <1>0, Known, TopIsMax
<1>6. Collecting(p)' /\ Linked(p)'
  BY <1>0, <1>4, <1>5, Known DEF Collecting, Linked
<1>7. ThreadInv(p)'
  BY <1>0, <1>4, <1>6, Known DEF ThreadInv, SqrtInv, GroupInv, class
<1>. QED
  BY <1>0, <1>1, <1>2, <1>3, <1>7, OneThread

\* What LL knows once it has looked at register i.
LEMMA Looked ==
  ASSUME IInv, impl # "cas", NEW p \in Procs, pc[p] = "LL",
         NEW m, m = (IF Larger(p) THEN M[i[p]] ELSE mx[p]),
         NEW j, j = (IF Larger(p) THEN i[p] ELSE ind[p])
  PROVE  /\ m \in Nat /\ j \in Regs /\ m <= M[j]
         /\ lo[p] <= m \/ \E r \in Regs : i[p] < r /\ lo[p] <= M[r]
<1>1. mx[p] <= M[ind[p]] /\ (lo[p] <= mx[p] \/ \E r \in Regs : i[p] <= r /\ lo[p] <= M[r])
  BY Known DEF ThreadInv, Collecting
<1>2. m \in Nat /\ M[i[p]] <= m /\ mx[p] <= m
  BY Known DEF Larger
<1>3. j \in Regs /\ m <= M[j]
  BY <1>1, Known DEF Larger
<1>4. ASSUME NEW r \in Regs, i[p] <= r, lo[p] <= M[r]
      PROVE  lo[p] <= m \/ i[p] < r
  <2>1. i[p] < r \/ i[p] = r
    BY <1>4, Known
  <2>. QED
    BY <1>2, <1>4, <2>1, Known
<1>5. lo[p] <= mx[p] => lo[p] <= m
  BY <1>2, Known
<1>. QED
  BY <1>1, <1>2, <1>3, <1>4, <1>5

LEMMA LLReadIInv ==
  ASSUME IInv, impl # "cas", NEW p \in Procs, LLRead(p), UNCHANGED <<impl, class, y, R>>
  PROVE  IInv'
<1>. DEFINE m == IF Larger(p) THEN M[i[p]] ELSE mx[p]
            j == IF Larger(p) THEN i[p] ELSE ind[p]
<1>0. /\ UNCHANGED <<M, R, pc, link, lo, x, y, impl, class>>
      /\ mx' = [mx EXCEPT ![p] = m] /\ ind' = [ind EXCEPT ![p] = j]
      /\ i' = [i EXCEPT ![p] = i[p] + 1] /\ pc[p] = "LL" /\ i[p] < Size - 1
  BY DEF LLRead
<1>8. /\ m \in Nat /\ j \in Regs /\ m <= M[j]
      /\ lo[p] <= m \/ \E r \in Regs : i[p] < r /\ lo[p] <= M[r]
  BY <1>0, Looked
<1>. HIDE DEF m, j
<1>1. SharedTypeOK'
  <2>1. i[p] + 1 \in Regs
    BY <1>0, Known DEF Regs
  <2>. QED
    BY <1>0, <1>8, <2>1, Known DEF SharedTypeOK
<1>2. HasMax' /\ Grown
  BY <1>0, Known, TopStable DEF Grown, SharedTypeOK
<1>3. \A q \in Procs \ {p} : Undisturbed(q)
  BY <1>0, Known DEF Undisturbed, SharedTypeOK
<1>4. /\ pc'[p] = "LL" /\ ind'[p] = j /\ link'[p] = link[p] /\ lo'[p] = lo[p]
      /\ i'[p] = i[p] + 1 /\ mx'[p] = m
  BY <1>0, Known DEF SharedTypeOK
<1>5. lo[p] <= m \/ \E r \in Regs : i[p] + 1 <= r /\ lo[p] <= M[r]
  BY <1>8, Known
<1>6. Collecting(p)' /\ Linked(p)'
  BY <1>0, <1>4, <1>5, <1>8, Known DEF ThreadInv, Collecting, Linked
<1>7. ThreadInv(p)'
  BY <1>0, <1>4, <1>6, Known DEF ThreadInv, SqrtInv, GroupInv, class
<1>. QED
  BY <1>0, <1>1, <1>2, <1>3, <1>7, OneThread

\* LL returns a value the object had in the meantime.
LEMMA LLReturnIInv ==
  ASSUME IInv, impl # "cas", NEW p \in Procs, LLReturn(p), UNCHANGED <<impl, class, y, R>>
  PROVE  IInv' /\ link'[p] \in lo[p] .. Top
<1>. DEFINE m == IF Larger(p) THEN M[i[p]] ELSE mx[p]
            j == IF Larger(p) THEN i[p] ELSE ind[p]
<1>0. /\ UNCHANGED <<M, R, lo, x, y, impl, class>>
      /\ link' = [link EXCEPT ![p] = m] /\ ind' = [ind EXCEPT ![p] = j]
      /\ i' = [i EXCEPT ![p] = 0] /\ mx' = [mx EXCEPT ![p] = -1]
      /\ pc' = [pc EXCEPT ![p] = "idle"] /\ pc[p] = "LL" /\ i[p] = Size - 1
  BY DEF LLReturn
<1>8. /\ m \in Nat /\ j \in Regs /\ m <= M[j]
      /\ lo[p] <= m \/ \E r \in Regs : i[p] < r /\ lo[p] <= M[r]
  BY <1>0, Looked
<1>. HIDE DEF m, j
<1>5. lo[p] <= m /\ m <= Top
  <2>1. \A r \in Regs : ~(i[p] < r)
    BY <1>0, Known DEF Regs
  <2>. QED
    BY <1>8, <2>1, Known
<1>1. SharedTypeOK'
  BY <1>0, <1>8, Known DEF SharedTypeOK
<1>2. HasMax' /\ Grown
  BY <1>0, Known, TopStable DEF Grown, SharedTypeOK
<1>3. \A q \in Procs \ {p} : Undisturbed(q)
  BY <1>0, Known DEF Undisturbed, SharedTypeOK
<1>4. /\ pc'[p] = "idle" /\ ind'[p] = j /\ link'[p] = m /\ lo'[p] = lo[p]
      /\ i'[p] = 0 /\ mx'[p] = -1
  BY <1>0, Known DEF SharedTypeOK
<1>6. Collecting(p)' /\ Linked(p)'
  BY <1>0, <1>4, <1>8, Known DEF ThreadInv, Collecting, Linked
<1>7. ThreadInv(p)'
  BY <1>0, <1>4, <1>6, Known DEF ThreadInv, SqrtInv, GroupInv, class
<1>9. IInv'
  BY <1>0, <1>1, <1>2, <1>3, <1>7, OneThread
<1>. QED
  BY <1>4, <1>5, <1>8, <1>9, Known

LEMMA ICCallIInv ==
  ASSUME IInv, impl # "cas", ~shared, NEW p \in Procs, ICCall(p), UNCHANGED <<impl, class, y, R>>
  PROVE  IInv'
<1>0. /\ UNCHANGED <<M, R, i, mx, ind, link, lo, x, y, impl, class>>
      /\ pc' = [pc EXCEPT ![p] = "load"] /\ pc[p] = "idle" /\ link[p] # None
  BY DEF ICCall
<1>1. SharedTypeOK'
  BY <1>0, Known DEF SharedTypeOK
<1>2. HasMax' /\ Grown
  BY <1>0, Known, TopStable DEF Grown, SharedTypeOK
<1>3. \A q \in Procs \ {p} : Undisturbed(q)
  BY <1>0, Known DEF Undisturbed, SharedTypeOK
<1>4. pc'[p] = "load"
  BY <1>0, Known DEF SharedTypeOK
<1>5. ThreadInv(p)'
  BY <1>0, <1>4, Known DEF ThreadInv, SqrtInv, GroupInv, Collecting, Linked, class
<1>. QED
  BY <1>0, <1>1, <1>2, <1>3, <1>5, OneThread
-----------------------------------------------------------------------------
\* A step of IC that goes on with a label of impl's own, or returns; it may have
\* raised registers.
LEMMA ICIIInv ==
  ASSUME IInv, impl # "cas", NEW p \in Procs, UNCHANGED <<R, i, mx, lo, impl, class>>,
         pc[p] \notin {"idle", "LL"},
         SharedTypeOK', HasMax', Grown, \A q \in Procs \ {p} : Undisturbed(q),
         \A q \in Procs \ {p} :
           impl = "group" /\ pc[q] = "cas" /\ Alone(q) => M'[Pos(q)] = M[Pos(q)],
         \/ link'[p] = None /\ pc'[p] = "idle"
         \/ /\ link'[p] = link[p] /\ ind'[p] = ind[p]
            /\ pc'[p] \in {"load", "loadGroup", "cas", "check", "fallback"}
            /\ impl = "sqrt" => SqrtInv(p)'
            /\ impl = "group" => GroupInv(p)'
  PROVE  IInv'
<1>0. \A r \in Regs : M[r] \in Nat /\ M'[r] \in Nat /\ M[r] <= M'[r]
  BY Known DEF SharedTypeOK, Grown
<1>1. Collecting(p)'
  BY <1>0, Known DEF ThreadInv, Collecting
<1>2. Linked(p)'
  <2>1. CASE link'[p] = None /\ pc'[p] = "idle"
    BY <2>1 DEF Linked
  <2>2. CASE link'[p] = link[p] /\ ind'[p] = ind[p] /\ pc'[p] # "idle"
    <3>1. (\E r \in Regs : link[p] <= M[r]) => \E r \in Regs : link[p] <= M'[r]
      BY <1>0, Known
    <3>2. link[p] <= M[ind[p]] => link[p] <= M'[ind[p]]
      BY <1>0, Known
    <3>. QED
      BY <2>2, <3>1, <3>2, Known DEF ThreadInv, Linked, class
  <2>. QED
    BY <2>1, <2>2
<1>3. impl = "sqrt" => SqrtInv(p)' /\ ~shared'
  BY Known DEF SqrtInv, ThreadInv, class
<1>4. impl = "group" => GroupInv(p)'
  BY DEF GroupInv
<1>5. ThreadInv(p)'
  BY <1>1, <1>2, <1>3, <1>4 DEF ThreadInv
<1>. QED
  BY <1>5, OneThread

\* The CAS of an IC that succeeds: the object moves on if it still had IC's value.
LEMMA Written ==
  ASSUME IInv, NEW p \in Procs, NEW r \in Regs, link[p] \in Nat, link[p] <= Top,
         M[r] <= link[p], M' = [M EXCEPT ![r] = link[p] + 1], R' = R
  PROVE  /\ HasMax' /\ M' \in [Regs -> Nat] /\ Grown
         /\ \A q \in Regs \ {r} : M'[q] = M[q]
         /\ Top' = IF Top = link[p] THEN Top + 1 ELSE Top
         /\ link[p] < Top'
<1>. DEFINE v == link[p] + 1
<1>1. v \in Nat /\ M[r] <= v
  BY Known
<1>2. M' = [M EXCEPT ![r] = v]
  OBVIOUS
<1>. HIDE DEF v
<1>3. /\ HasMax' /\ M' \in [Regs -> Nat]
      /\ \A q \in Regs : M[q] <= M'[q] /\ (q # r => M'[q] = M[q])
      /\ Top' = IF Top < v THEN v ELSE Top
  BY <1>1, <1>2, Known, Raise
<1>. QED
  BY <1>3, Known DEF v, Grown

\* The steps of LLICSQRT's IC that write no register.  IC returns without a CAS only
\* when the register that LL found has moved on.
LEMMA SqrtQuiet ==
  ASSUME IInv, impl = "sqrt", NEW p \in Procs, UNCHANGED <<impl, class, y, R>>,
         SQRT!ICLoad(p) \/ SQRT!ICCasFails(p) \/ SQRT!ICCheck(p) \/ SQRT!ICSkip(p)
  PROVE  /\ IInv' /\ UNCHANGED <<M, lo>> /\ pc[p] \notin {"idle", "LL"}
         /\ ~SQRT!ICSkip(p) => link' = link /\ pc'[p] \notin {"idle", "LL"}
         /\ SQRT!ICSkip(p) => link[p] < Top
<1>0. /\ UNCHANGED <<M, R, i, mx, ind, lo, y, impl, class>>
      /\ pc[p] \notin {"idle", "LL"}
  BY DEF SQRT!ICLoad, SQRT!ICCasFails, SQRT!ICCheck, SQRT!ICSkip
<1>1. HasMax' /\ Grown
  BY <1>0, Known, TopStable DEF Grown, SharedTypeOK
<1>2. link[p] \in Nat /\ SQRT!Pos(p) \in Regs /\ link[p] <= M[ind[p]]
  BY <1>0, Known, Indices DEF ThreadInv, Linked
<1>3. CASE SQRT!ICSkip(p)
  <2>1. /\ pc' = [pc EXCEPT ![p] = "idle"] /\ link' = [link EXCEPT ![p] = None]
        /\ x' = [x EXCEPT ![p] = 0] /\ M[ind[p]] # link[p]
    BY <1>3, Indices DEF SQRT!ICSkip, SQRT!ICReturn, SQRT!None
  <2>2. SharedTypeOK' /\ \A q \in Procs \ {p} : Undisturbed(q)
    BY <1>0, <2>1, Known DEF SharedTypeOK, Undisturbed
  <2>3. link'[p] = None /\ pc'[p] = "idle"
    BY <2>1, Known DEF SharedTypeOK
  <2>4. IInv'
    BY <1>0, <1>1, <2>2, <2>3, ICIIInv
  <2>5. pc[p] = "check" /\ link[p] < Top
    BY <1>2, <1>3, <2>1, Known DEF SQRT!ICSkip
  <2>. QED
    BY <1>0, <1>3, <2>4, <2>5
<1>4. CASE SQRT!ICLoad(p) \/ SQRT!ICCasFails(p) \/ SQRT!ICCheck(p)
  <2>1. /\ link' = link /\ ~SQRT!ICSkip(p)
        /\ \E l \in {"cas", "check", "fallback"}, v \in Nat :
             /\ pc' = [pc EXCEPT ![p] = l] /\ x' = [x EXCEPT ![p] = v]
             /\ l = "cas" => v <= link[p]
    <3>1. CASE SQRT!ICLoad(p)
      <4>. DEFINE l == IF M[SQRT!Pos(p)] < link[p] + 1 THEN "cas" ELSE "check"
                  v == IF M[SQRT!Pos(p)] < link[p] + 1 THEN M[SQRT!Pos(p)] ELSE 0
      <4>1. /\ link' = link /\ ~SQRT!ICSkip(p)
            /\ pc' = [pc EXCEPT ![p] = l] /\ x' = [x EXCEPT ![p] = v]
        BY <3>1 DEF SQRT!ICLoad, SQRT!ICSkip
      <4>2. l \in {"cas", "check", "fallback"} /\ v \in Nat /\ (l = "cas" => v <= link[p])
        BY <1>2, Known
      <4>. HIDE DEF l, v
      <4>. QED
        BY <4>1, <4>2
    <3>2. CASE SQRT!ICCasFails(p)
      BY <3>2 DEF SQRT!ICCasFails, SQRT!ICSkip
    <3>3. CASE SQRT!ICCheck(p)
      <4>1. x' = [x EXCEPT ![p] = x[p]] /\ x[p] \in Nat
        BY <3>3, Known DEF SQRT!ICCheck, SharedTypeOK
      <4>. QED
        BY <3>3, <4>1 DEF SQRT!ICCheck, SQRT!ICSkip
    <3>. QED
      BY <1>4, <3>1, <3>2, <3>3
  <2>2. PICK l \in {"cas", "check", "fallback"}, v \in Nat :
          /\ pc' = [pc EXCEPT ![p] = l] /\ x' = [x EXCEPT ![p] = v]
          /\ l = "cas" => v <= link[p]
    BY <2>1
  <2>3. SharedTypeOK' /\ \A q \in Procs \ {p} : Undisturbed(q)
    BY <1>0, <2>1, <2>2, Known DEF SharedTypeOK, Undisturbed
  <2>4. link'[p] = link[p] /\ ind'[p] = ind[p] /\ pc'[p] = l /\ x'[p] = v
    BY <1>0, <2>1, <2>2, Known DEF SharedTypeOK
  <2>5. SqrtInv(p)'
    BY <2>2, <2>4 DEF SqrtInv
  <2>6. IInv'
    BY <1>0, <1>1, <2>3, <2>4, <2>5, ICIIInv
  <2>. QED
    BY <1>0, <2>1, <2>4, <2>6
<1>. QED
  BY <1>3, <1>4

\* The CASes of LLICSQRT's IC.  With the first it writes a register that was not above
\* its value, with the second the one that LL found if it is still there.
LEMMA SqrtWrite ==
  ASSUME IInv, impl = "sqrt", NEW p \in Procs, UNCHANGED <<impl, class, y, R>>,
         SQRT!ICCas(p) \/ SQRT!ICFallback(p)
  PROVE  /\ IInv' /\ lo' = lo /\ pc[p] \notin {"idle", "LL"}
         /\ pc' = [pc EXCEPT ![p] = "idle"] /\ link' = [link EXCEPT ![p] = None]
         /\ Top' = IF Top = link[p] THEN Top + 1 ELSE Top
         /\ link[p] < Top'
<1>0. /\ UNCHANGED <<R, i, mx, ind, lo, y, impl, class>>
      /\ pc[p] \notin {"idle", "LL"}
      /\ pc' = [pc EXCEPT ![p] = "idle"] /\ link' = [link EXCEPT ![p] = None]
      /\ x' = [x EXCEPT ![p] = 0]
  BY Indices DEF SQRT!ICCas, SQRT!ICFallback, SQRT!ICReturn, SQRT!None
<1>1. link[p] \in Nat /\ SQRT!Pos(p) \in Regs /\ link[p] <= M[ind[p]] /\ link[p] <= Top
  BY <1>0, Known, Indices DEF ThreadInv, Linked
<1>2. /\ HasMax' /\ M' \in [Regs -> Nat] /\ Grown
      /\ Top' = IF Top = link[p] THEN Top + 1 ELSE Top
      /\ link[p] < Top'
  <2>1. CASE SQRT!ICCas(p)
    <3>1. /\ M[SQRT!Pos(p)] <= link[p]
          /\ M' = [M EXCEPT ![SQRT!Pos(p)] = link[p] + 1]
      BY <2>1, Known DEF SQRT!ICCas, ThreadInv, SqrtInv
    <3>. QED
      BY <3>1, <1>0, <1>1, Written
  <2>2. CASE SQRT!ICFallback(p)
    <3>1. CASE M[ind[p]] = link[p]
      <4>1. M' = [M EXCEPT ![ind[p]] = link[p] + 1]
        BY <2>2, <3>1, Known DEF SQRT!ICFallback, SharedTypeOK
      <4>2. M[ind[p]] <= link[p]
        BY <3>1, <1>1
      <4>. QED
        BY <4>1, <4>2, <1>0, <1>1, Known, Written
    <3>2. CASE M[ind[p]] # link[p]
      <4>1. M' = M
        BY <2>2, <3>2, Known DEF SQRT!ICFallback, SharedTypeOK
      <4>2. link[p] < Top
        BY <3>2, <1>1, Known
      <4>. QED
        BY <4>1, <4>2, <1>0, Known, TopStable DEF Grown, SharedTypeOK
    <3>. QED
      BY <3>1, <3>2
  <2>. QED
    BY <2>1, <2>2
<1>3. SharedTypeOK' /\ \A q \in Procs \ {p} : Undisturbed(q)
  BY <1>0, <1>2, Known DEF SharedTypeOK, Undisturbed
<1>4. link'[p] = None /\ pc'[p] = "idle"
  BY <1>0, Known DEF SharedTypeOK
<1>5. IInv'
  BY <1>0, <1>2, <1>3, <1>4, ICIIInv
<1>. QED
  BY <1>0, <1>2, <1>5
-----------------------------------------------------------------------------
\* IC of HEAD in a grouped queue starts with the index of a register of TAIL.
LEMMA ICCallSharedIInv ==
  ASSUME IInv, impl = "group", NEW p \in Procs, ICCallShared(p), UNCHANGED <<impl, R>>
  PROVE  IInv'
<1>0. /\ UNCHANGED <<M, R, i, mx, link, lo, x, y, impl, class>> /\ shared
      /\ pc' = [pc EXCEPT ![p] = "load"] /\ pc[p] = "idle" /\ link[p] # None
  BY DEF ICCallShared
<1>1. PICK r \in Regs : ind' = [ind EXCEPT ![p] = r]
  BY DEF ICCallShared
<1>2. SharedTypeOK'
  BY <1>0, <1>1, Known DEF SharedTypeOK
<1>3. HasMax' /\ Grown
  BY <1>0, Known, TopStable DEF Grown, SharedTypeOK
<1>4. \A q \in Procs \ {p} : Undisturbed(q)
  BY <1>0, <1>1, Known DEF Undisturbed, SharedTypeOK
<1>5. pc'[p] = "load"
  BY <1>0, Known DEF SharedTypeOK
<1>6. ThreadInv(p)'
  BY <1>0, <1>5, Known DEF ThreadInv, GroupInv, Collecting, Linked, class
<1>. QED
  BY <1>0, <1>2, <1>3, <1>4, <1>6, OneThread

\* The loads of LLICGroup's IC.
LEMMA GroupLoad ==
  ASSUME IInv, impl = "group", NEW p \in Procs, UNCHANGED <<impl, R>>,
         ICLoadMax(p) \/ ICLoadGroup(p)
  PROVE  /\ IInv' /\ UNCHANGED <<M, lo, link>>
         /\ pc[p] \notin {"idle", "LL"} /\ pc'[p] \notin {"idle", "LL"}
<1>0. /\ UNCHANGED <<M, R, i, mx, ind, link, lo, impl, class>>
      /\ pc[p] \notin {"idle", "LL"}
  BY DEF ICLoadMax, ICLoadGroup
<1>1. HasMax' /\ Grown
  BY <1>0, Known, TopStable DEF Grown, SharedTypeOK
<1>2. link[p] \in Nat /\ (shared \/ link[p] <= M[ind[p]])
  BY <1>0, Known DEF ThreadInv, Linked
<1>3. /\ SharedTypeOK' /\ \A q \in Procs \ {p} : Undisturbed(q)
      /\ pc'[p] \in {"loadGroup", "cas"}
      /\ GroupInv(p)'
  <2>1. CASE ICLoadMax(p)
    <3>1. /\ x' = [x EXCEPT ![p] = M[ind[p]]] /\ y' = y
          /\ pc' = [pc EXCEPT ![p] = "loadGroup"]
      BY <2>1 DEF ICLoadMax
    <3>2. /\ SharedTypeOK' /\ (\A q \in Procs \ {p} : Undisturbed(q))
          /\ pc'[p] = "loadGroup" /\ x'[p] = M[ind[p]]
      BY <1>0, <3>1, Known DEF SharedTypeOK, Undisturbed
    <3>. QED
      BY <1>0, <1>2, <3>2, Known DEF GroupInv, class
  <2>2. CASE ICLoadGroup(p)
    <3>1. /\ y' = [y EXCEPT ![p] = M[Pos(p)]] /\ x' = x
          /\ pc' = [pc EXCEPT ![p] = "cas"] /\ M[Pos(p)] <= link[p]
      BY <2>2 DEF ICLoadGroup, StillCurrent
    <3>2. /\ SharedTypeOK' /\ (\A q \in Procs \ {p} : Undisturbed(q))
          /\ pc'[p] = "cas" /\ y'[p] = M[Pos(p)]
      BY <1>0, <3>1, Known DEF SharedTypeOK, Undisturbed
    <3>. QED
      BY <1>0, <3>1, <3>2, Known DEF GroupInv, class
  <2>. QED
    BY <2>1, <2>2
<1>4. link'[p] = link[p] /\ ind'[p] = ind[p]
  BY <1>0
<1>5. IInv'
  BY <1>0, <1>1, <1>3, <1>4, ICIIInv
<1>. QED
  BY <1>0, <1>3, <1>5

\* IC of LLICGroup returns without having written.  Unless the guard of G16 sees
\* another object's index or a group-mate has written the register, the object is above
\* IC's value.
LEMMA GroupGivesUp ==
  ASSUME IInv, impl = "group", NEW p \in Procs, UNCHANGED <<impl, R>>,
         ICSkip(p) \/ ICCasFails(p)
  PROVE  /\ IInv' /\ UNCHANGED <<M, lo>> /\ pc[p] \notin {"idle", "LL"}
         /\ pc' = [pc EXCEPT ![p] = "idle"] /\ link' = [link EXCEPT ![p] = None]
         /\ ~MayLose(p) => link[p] < Top
<1>0. /\ UNCHANGED <<M, R, i, mx, ind, lo, impl, class>>
      /\ pc[p] \notin {"idle", "LL"}
      /\ pc' = [pc EXCEPT ![p] = "idle"] /\ link' = [link EXCEPT ![p] = None]
      /\ x' = [x EXCEPT ![p] = 0] /\ (y' = y \/ y' = [y EXCEPT ![p] = 0])
  BY DEF ICSkip, ICCasFails, ICReturn
<1>1. HasMax' /\ Grown
  BY <1>0, Known, TopStable DEF Grown, SharedTypeOK
<1>2. SharedTypeOK' /\ \A q \in Procs \ {p} : Undisturbed(q)
  BY <1>0, Known DEF SharedTypeOK, Undisturbed
<1>3. link'[p] = None /\ pc'[p] = "idle"
  BY <1>0, Known DEF SharedTypeOK
<1>4. IInv'
  BY <1>0, <1>1, <1>2, <1>3, ICIIInv
<1>5. link[p] \in Nat /\ GroupInv(p)
  BY <1>0, Known DEF ThreadInv, Linked
<1>6. ASSUME ~MayLose(p) PROVE link[p] < Top
  <2>1. Alone(p) /\ ~(g16 /\ shared)
    BY <1>6 DEF MayLose, Alone
  <2>2. CASE ICSkip(p)
    <3>1. pc[p] = "loadGroup" /\ ~StillCurrent(p, M[Pos(p)])
      BY <2>2 DEF ICSkip
    <3>2. x[p] <= Top /\ (shared \/ link[p] <= x[p])
      BY <1>5, <3>1, Known DEF GroupInv
    <3>3. CASE ~(M[Pos(p)] <= link[p])
      BY <1>5, <3>3, Known
    <3>4. CASE ~g16 /\ ~(x[p] <= link[p])
      BY <1>5, <3>2, <3>4, Known
    <3>5. ~(g16 /\ ~(link[p] <= x[p]))
      BY <2>1, <3>2
    <3>. QED
      BY <3>1, <3>3, <3>4, <3>5 DEF StillCurrent
  <2>3. CASE ICCasFails(p)
    BY <1>5, <2>1, <2>3 DEF ICCasFails, GroupInv
  <2>. QED
    BY <2>2, <2>3
<1>. QED
  BY <1>0, <1>4, <1>6

\* The CAS of LLICGroup's IC succeeds.
LEMMA GroupWrite ==
  ASSUME IInv, impl = "group", NEW p \in Procs, UNCHANGED <<impl, R>>, ICCas(p)
  PROVE  /\ IInv' /\ lo' = lo /\ pc[p] \notin {"idle", "LL"}
         /\ pc' = [pc EXCEPT ![p] = "idle"] /\ link' = [link EXCEPT ![p] = None]
         /\ Top' = IF Top = link[p] THEN Top + 1 ELSE Top
         /\ link[p] < Top'
<1>0. /\ UNCHANGED <<R, i, mx, lo, impl, class>>
      /\ pc[p] = "cas" /\ M[Pos(p)] = y[p] /\ M' = [M EXCEPT ![Pos(p)] = link[p] + 1]
      /\ pc' = [pc EXCEPT ![p] = "idle"] /\ link' = [link EXCEPT ![p] = None]
      /\ x' = [x EXCEPT ![p] = 0] /\ y' = [y EXCEPT ![p] = 0]
      /\ ind' = [ind EXCEPT ![p] = Pos(p)]
  BY DEF ICCas, ICReturn
<1>1. link[p] \in Nat /\ link[p] <= Top /\ y[p] <= link[p]
  BY <1>0, Known DEF ThreadInv, Linked, GroupInv
<1>2. /\ HasMax' /\ M' \in [Regs -> Nat] /\ Grown
      /\ \A r \in Regs \ {Pos(p)} : M'[r] = M[r]
      /\ Top' = IF Top = link[p] THEN Top + 1 ELSE Top
      /\ link[p] < Top'
  BY <1>0, <1>1, Known, Written
<1>3. SharedTypeOK' /\ \A q \in Procs \ {p} : Undisturbed(q)
  BY <1>0, <1>2, Known DEF SharedTypeOK, Undisturbed
<1>4. \A q \in Procs \ {p} : Alone(q) => M'[Pos(q)] = M[Pos(q)]
  BY <1>2, Indices DEF Alone
<1>5. link'[p] = None /\ pc'[p] = "idle"
  BY <1>0, Known DEF SharedTypeOK
<1>6. IInv'
  BY <1>0, <1>2, <1>3, <1>4, <1>5, ICIIInv
<1>. QED
  BY <1>0, <1>2, <1>6
-----------------------------------------------------------------------------
CasStep(p) ==
  CAS!LLCall(p) \/ CAS!LLReturn(p) \/ CAS!ICCall(p) \/ CAS!ICCompare(p) \/ CAS!ICSkip(p)
    \/ CAS!ICCas(p)

\* The steps of LLICCAS.
LEMMA CasIInv ==
  ASSUME IInv, impl = "cas", NEW p \in Procs, CasStep(p),
         UNCHANGED <<M, i, mx, ind, x, y, class, impl>>
  PROVE  /\ IInv'
         /\ CAS!LLReturn(p) => link'[p] \in lo[p] .. R
         /\ CAS!ICSkip(p) => link[p] < R
         /\ CAS!ICCas(p) => link[p] < R'
<1>0. CAS!None = None /\ CasInv(p) /\ None = -1
  BY Indices, Known DEF CAS!None, ThreadInv
<1>1. \A q \in Procs \ {p} : Undisturbed(q)
  BY Known DEF CasStep, Undisturbed, SharedTypeOK, CAS!LLCall, CAS!LLReturn, CAS!ICCall,
    CAS!ICCompare, CAS!ICSkip, CAS!ICCas
<1>2. /\ SharedTypeOK' /\ R <= R' /\ CasInv(p)'
      /\ CAS!LLReturn(p) => link'[p] \in lo[p] .. R
      /\ CAS!ICSkip(p) => link[p] < R
      /\ CAS!ICCas(p) => link[p] < R'
  <2>1. CASE CAS!LLCall(p)
    BY <2>1, <1>0, Known DEF CAS!LLCall, CAS!LLReturn, CAS!ICSkip, CAS!ICCas, SharedTypeOK, CasInv
  <2>2. CASE CAS!LLReturn(p)
    BY <2>2, <1>0, Known DEF CAS!LLReturn, CAS!ICSkip, CAS!ICCas, SharedTypeOK, CasInv
  <2>3. CASE CAS!ICCall(p)
    BY <2>3, <1>0, Known DEF CAS!ICCall, CAS!LLReturn, CAS!ICSkip, CAS!ICCas, SharedTypeOK, CasInv
  <2>4. CASE CAS!ICCompare(p)
    BY <2>4, <1>0, Known DEF CAS!ICCompare, CAS!LLReturn, CAS!ICSkip, CAS!ICCas, SharedTypeOK, CasInv
  <2>5. CASE CAS!ICSkip(p)
    BY <2>5, <1>0, Known DEF CAS!LLReturn, CAS!ICSkip, CAS!ICCas, SharedTypeOK, CasInv
  <2>6. CASE CAS!ICCas(p)
    BY <2>6, <1>0, Known DEF CAS!LLReturn, CAS!ICSkip, CAS!ICCas, SharedTypeOK, CasInv
  <2>. QED
    BY <2>1, <2>2, <2>3, <2>4, <2>5, <2>6 DEF CasStep
<1>3. HasMax' /\ Grown
  BY <1>2, Known, TopStable DEF Grown, SharedTypeOK
<1>4. ThreadInv(p)'
  BY <1>2 DEF ThreadInv
<1>5. IInv'
  BY <1>1, <1>2, <1>3, <1>4, OneThread
<1>. QED
  BY <1>2, <1>5
-----------------------------------------------------------------------------
\* What a step of thread p is to the LL/IC object of module LLIC.  An IC returns with the
\* object above its value, or it is lost.
Does(p) ==
  \/ Object!LLCall(p) \/ Object!LLReturn(p) \/ Object!ICCall(p)
  \/ Object!IC(p) /\ link[p] < Value'
  \/ Object!ICLost(p) /\ MayLose(p)
  \/ UNCHANGED Object!vars

LEMMA Abstracted ==
  ASSUME IInv, NEW p \in Procs, NEW l, pc' = [pc EXCEPT ![p] = l]
  PROVE  AbsPc' = [AbsPc EXCEPT ![p] = IF l \in {"idle", "LL"} THEN l ELSE "IC"]
BY Known DEF SharedTypeOK, AbsPc

LEMMA AbsKnown ==
  ASSUME IInv, NEW p \in Procs
  PROVE  /\ AbsPc[p] = IF pc[p] \in {"idle", "LL"} THEN pc[p] ELSE "IC"
         /\ pc[p] \notin {"idle", "LL"} => AbsPc[p] = "IC"
         /\ AbsPc = [q \in Procs |-> AbsPc[q]]
         /\ Object!None = None
BY DEF AbsPc, Object!None, None

\* A step inside an operation.
LEMMA StaysInside ==
  ASSUME IInv, NEW p \in Procs, UNCHANGED <<Value, lo, link, impl>>,
         pc[p] \notin {"idle", "LL"}, pc'[p] \notin {"idle", "LL"},
         \A q \in Procs \ {p} : pc'[q] = pc[q]
  PROVE  Does(p)
<1>1. AbsPc' = AbsPc
  BY DEF AbsPc
<1>. QED
  BY <1>1 DEF Does, Object!vars

\* IC returns with the object above its value; if it has moved it, then by one.
LEMMA Moves ==
  ASSUME IInv, NEW p \in Procs, pc[p] \notin {"idle", "LL"}, UNCHANGED <<lo, impl>>,
         pc' = [pc EXCEPT ![p] = "idle"], link' = [link EXCEPT ![p] = None],
         Value' = IF Value = link[p] THEN Value + 1 ELSE Value,
         link[p] < Value'
  PROVE  Does(p)
<1>1. AbsPc' = [AbsPc EXCEPT ![p] = "idle"] /\ AbsPc[p] = "IC" /\ Object!None = None
  BY Abstracted, AbsKnown
<1>2. Object!IC(p)
  BY <1>1 DEF Object!IC
<1>. QED
  BY <1>2 DEF Does

LEMMA LLDoes ==
  ASSUME IInv, impl # "cas", NEW p \in Procs, UNCHANGED <<impl, class, y, R>>,
         LLCall(p) \/ LLRead(p) \/ LLReturn(p)
  PROVE  IInv' /\ Does(p)
<1>0. Value = Top /\ (UNCHANGED M => Value' = Value) /\ impl' = impl
  BY Known, TopStable DEF Value
<1>1. CASE LLCall(p)
  <2>1. AbsPc' = [AbsPc EXCEPT ![p] = "LL"] /\ AbsPc[p] = "idle" /\ Object!None = None
    BY <1>1, Abstracted, AbsKnown DEF LLCall
  <2>2. Object!LLCall(p)
    BY <1>0, <1>1, <2>1 DEF LLCall, Object!LLCall
  <2>. QED
    BY <1>1, <2>2, LLCallIInv DEF Does
<1>2. CASE LLRead(p)
  BY <1>0, <1>2, LLReadIInv DEF LLRead, Does, Object!vars, AbsPc
<1>3. CASE LLReturn(p)
  <2>1. AbsPc' = [AbsPc EXCEPT ![p] = "idle"] /\ AbsPc[p] = "LL"
    BY <1>3, Abstracted, AbsKnown DEF LLReturn
  <2>2. IInv' /\ link'[p] \in lo[p] .. Value
    BY <1>0, <1>3, LLReturnIInv
  <2>3. link' = [link EXCEPT ![p] = link'[p]]
    BY <1>3, Known DEF LLReturn, SharedTypeOK
  <2>4. Object!LLReturn(p)
    BY <1>0, <1>3, <2>1, <2>2, <2>3 DEF LLReturn, Object!LLReturn
  <2>. QED
    BY <2>2, <2>4 DEF Does
<1>. QED
  BY <1>1, <1>2, <1>3

LEMMA ICCallDoes ==
  ASSUME IInv, impl # "cas", NEW p \in Procs, UNCHANGED <<M, impl, lo, link>>,
         pc[p] = "idle", link[p] # None, link[p] < MaxValue, pc' = [pc EXCEPT ![p] = "load"]
  PROVE  Does(p)
<1>1. AbsPc' = [AbsPc EXCEPT ![p] = "IC"] /\ AbsPc[p] = "idle" /\ Object!None = None
  BY Abstracted, AbsKnown
<1>2. Value' = Value
  BY Known, TopStable DEF Value
<1>3. Object!ICCall(p)
  BY <1>1, <1>2 DEF Object!ICCall
<1>. QED
  BY <1>3 DEF Does

LEMMA SQRTDoes ==
  ASSUME IInv, SQRTStep
  PROVE  IInv' /\ \E p \in Procs : Does(p)
<1>0. impl = "sqrt" /\ UNCHANGED <<impl, class, y, R>> /\ ~(impl = "cas") /\ Value = Top
  BY DEF SQRTStep, Value
<1>1. PICK p \in Procs :
        SQRT!LLCall(p) \/ SQRT!LLRead(p) \/ SQRT!LLReturn(p) \/ SQRT!ICCall(p)
          \/ SQRT!ICStep(p)
  BY DEF SQRTStep, SQRT!Next, SQRT!Procs, Procs
<1>2. CASE LLCall(p) \/ LLRead(p) \/ LLReturn(p)
  BY <1>0, <1>2, LLDoes
<1>3. CASE ICCall(p)
  <2>1. ~shared
    BY <1>0, Known DEF ThreadInv
  <2>. QED
    BY <1>0, <1>3, <2>1, ICCallIInv, ICCallDoes DEF ICCall
<1>4. CASE SQRT!ICLoad(p) \/ SQRT!ICCasFails(p) \/ SQRT!ICCheck(p)
  <2>1. IInv' /\ UNCHANGED <<M, lo, link>> /\ pc[p] \notin {"idle", "LL"}
    BY <1>0, <1>4, SqrtQuiet DEF SQRT!ICLoad, SQRT!ICCasFails, SQRT!ICCheck
  <2>2. pc'[p] \notin {"idle", "LL"} /\ \A q \in Procs \ {p} : pc'[q] = pc[q]
    BY <1>4, Known DEF SharedTypeOK, SQRT!ICLoad, SQRT!ICCasFails, SQRT!ICCheck
  <2>3. Value' = Value
    BY <1>0, <2>1, TopStable DEF Value
  <2>. QED
    BY <1>0, <2>1, <2>2, <2>3, StaysInside
<1>5. CASE SQRT!ICSkip(p)
  <2>1. /\ IInv' /\ UNCHANGED <<M, lo>> /\ pc[p] \notin {"idle", "LL"} /\ link[p] < Top
    BY <1>0, <1>5, SqrtQuiet
  <2>2. pc' = [pc EXCEPT ![p] = "idle"] /\ link' = [link EXCEPT ![p] = None]
    BY <1>5 DEF SQRT!ICSkip, SQRT!ICReturn, SQRT!None, None
  <2>3. Value' = Value /\ Value # link[p] /\ link[p] < Value'
    BY <1>0, <2>1, Known, TopStable DEF Value
  <2>. QED
    BY <1>0, <2>1, <2>2, <2>3, Moves
<1>6. CASE SQRT!ICCas(p) \/ SQRT!ICFallback(p)
  <2>1. /\ IInv' /\ lo' = lo /\ pc[p] \notin {"idle", "LL"}
        /\ pc' = [pc EXCEPT ![p] = "idle"] /\ link' = [link EXCEPT ![p] = None]
        /\ Top' = IF Top = link[p] THEN Top + 1 ELSE Top
        /\ link[p] < Top'
    BY <1>0, <1>6, SqrtWrite
  <2>2. Value' = Top'
    BY <1>0 DEF Value
  <2>. QED
    BY <1>0, <2>1, <2>2, Moves
<1>. QED
  BY <1>1, <1>2, <1>3, <1>4, <1>5, <1>6, SameLL DEF SQRT!ICStep

LEMMA GroupDoes ==
  ASSUME IInv, GroupStep
  PROVE  IInv' /\ \E p \in Procs : Does(p)
<1>0. impl = "group" /\ UNCHANGED <<impl, R>> /\ ~(impl = "cas") /\ Value = Top
  BY DEF GroupStep, Value
<1>1. PICK p \in Procs : LLStep(p) \/ GICCall(p) \/ ICCallShared(p) \/ ICStep(p)
  BY DEF GroupStep, Next
<1>2. CASE LLStep(p)
  BY <1>0, <1>2, LLDoes DEF LLStep
<1>3. CASE GICCall(p)
  BY <1>0, <1>3, ICCallIInv, ICCallDoes DEF GICCall, ICCall
<1>4. CASE ICCallShared(p)
  BY <1>0, <1>4, ICCallSharedIInv, ICCallDoes DEF ICCallShared
<1>5. CASE ICLoadMax(p) \/ ICLoadGroup(p)
  <2>1. IInv' /\ UNCHANGED <<M, lo, link>> /\ pc[p] \notin {"idle", "LL"}
    BY <1>0, <1>5, GroupLoad
  <2>2. pc'[p] \notin {"idle", "LL"} /\ \A q \in Procs \ {p} : pc'[q] = pc[q]
    BY <1>5, Known DEF SharedTypeOK, ICLoadMax, ICLoadGroup
  <2>3. Value' = Value
    BY <1>0, <2>1, TopStable DEF Value
  <2>. QED
    BY <1>0, <2>1, <2>2, <2>3, StaysInside
<1>6. CASE ICSkip(p) \/ ICCasFails(p)
  <2>1. /\ IInv' /\ UNCHANGED <<M, lo>> /\ pc[p] \notin {"idle", "LL"}
        /\ pc' = [pc EXCEPT ![p] = "idle"] /\ link' = [link EXCEPT ![p] = None]
        /\ ~MayLose(p) => link[p] < Top
    BY <1>0, <1>6, GroupGivesUp
  <2>2. Value' = Value
    BY <1>0, <2>1, TopStable DEF Value
  <2>3. CASE MayLose(p)
    <3>1. AbsPc' = [AbsPc EXCEPT ![p] = "idle"] /\ AbsPc[p] = "IC" /\ Object!None = None
      BY <2>1, Abstracted, AbsKnown
    <3>2. Object!ICLost(p)
      BY <1>0, <2>1, <2>2, <3>1 DEF Object!ICLost
    <3>. QED
      BY <2>1, <2>3, <3>2 DEF Does
  <2>4. CASE ~MayLose(p)
    <3>1. Value # link[p] /\ link[p] < Value'
      BY <1>0, <2>1, <2>2, <2>4, Known
    <3>. QED
      BY <1>0, <2>1, <2>2, <3>1, Moves
  <2>. QED
    BY <2>3, <2>4
<1>7. CASE ICCas(p)
  <2>1. /\ IInv' /\ lo' = lo /\ pc[p] \notin {"idle", "LL"}
        /\ pc' = [pc EXCEPT ![p] = "idle"] /\ link' = [link EXCEPT ![p] = None]
        /\ Top' = IF Top = link[p] THEN Top + 1 ELSE Top
        /\ link[p] < Top'
    BY <1>0, <1>7, GroupWrite
  <2>2. Value' = Top'
    BY <1>0 DEF Value
  <2>. QED
    BY <1>0, <2>1, <2>2, Moves
<1>. QED
  BY <1>1, <1>2, <1>3, <1>4, <1>5, <1>6, <1>7 DEF ICStep

LEMMA CASDoes ==
  ASSUME IInv, CASStep
  PROVE  IInv' /\ \E p \in Procs : Does(p)
<1>0. /\ impl = "cas" /\ UNCHANGED <<M, i, mx, ind, x, y, class, impl>>
      /\ Value = R /\ Value' = R'
  BY DEF CASStep, Value
<1>1. PICK p \in Procs : CasStep(p)
  BY DEF CASStep, CAS!Next, CasStep
<1>2. /\ IInv'
      /\ CAS!LLReturn(p) => link'[p] \in lo[p] .. R
      /\ CAS!ICSkip(p) => link[p] < R
      /\ CAS!ICCas(p) => link[p] < R'
  BY <1>0, <1>1, CasIInv
<1>3. Object!None = None /\ CAS!None = None /\ CasInv(p)
  BY <1>0, Known DEF Object!None, CAS!None, None, ThreadInv
<1>4. CASE CAS!LLCall(p)
  <2>1. AbsPc' = [AbsPc EXCEPT ![p] = "LL"] /\ AbsPc[p] = "idle"
    BY <1>4, Abstracted, AbsKnown DEF CAS!LLCall
  <2>2. Object!LLCall(p)
    BY <1>0, <1>3, <1>4, <2>1 DEF CAS!LLCall, Object!LLCall
  <2>. QED
    BY <1>2, <2>2 DEF Does
<1>5. CASE CAS!LLReturn(p)
  <2>1. AbsPc' = [AbsPc EXCEPT ![p] = "idle"] /\ AbsPc[p] = "LL"
    BY <1>5, Abstracted, AbsKnown DEF CAS!LLReturn
  <2>2. link' = [link EXCEPT ![p] = link'[p]]
    BY <1>5, Known DEF CAS!LLReturn, SharedTypeOK
  <2>3. Object!LLReturn(p)
    BY <1>0, <1>2, <1>5, <2>1, <2>2 DEF CAS!LLReturn, Object!LLReturn
  <2>. QED
    BY <1>2, <2>3 DEF Does
<1>6. CASE CAS!ICCall(p)
  <2>1. AbsPc' = [AbsPc EXCEPT ![p] = "IC"] /\ AbsPc[p] = "idle"
    BY <1>6, Abstracted, AbsKnown DEF CAS!ICCall
  <2>2. Object!ICCall(p)
    BY <1>0, <1>3, <1>6, <2>1 DEF CAS!ICCall, Object!ICCall
  <2>. QED
    BY <1>2, <2>2 DEF Does
<1>7. CASE CAS!ICCompare(p)
  <2>1. /\ pc'[p] \notin {"idle", "LL"} /\ \A q \in Procs \ {p} : pc'[q] = pc[q]
        /\ pc[p] \notin {"idle", "LL"} /\ UNCHANGED <<Value, lo, link, impl>>
    BY <1>0, <1>7, Known DEF CAS!ICCompare, SharedTypeOK
  <2>. QED
    BY <1>2, <2>1, StaysInside
<1>8. CASE CAS!ICSkip(p)
  <2>1. /\ Value' = Value /\ lo' = lo /\ pc[p] \notin {"idle", "LL"}
        /\ pc' = [pc EXCEPT ![p] = "idle"] /\ link' = [link EXCEPT ![p] = None]
        /\ Value # link[p] /\ link[p] < Value'
    BY <1>0, <1>2, <1>3, <1>8, Known DEF CAS!ICSkip
  <2>. QED
    BY <1>0, <1>2, <2>1, Moves
<1>9. CASE CAS!ICCas(p)
  <2>1. /\ Value' = (IF Value = link[p] THEN Value + 1 ELSE Value)
        /\ lo' = lo /\ pc[p] \notin {"idle", "LL"}
        /\ pc' = [pc EXCEPT ![p] = "idle"] /\ link' = [link EXCEPT ![p] = None]
        /\ link[p] < Value'
    BY <1>0, <1>2, <1>3, <1>9 DEF CAS!ICCas
  <2>. QED
    BY <1>0, <1>2, <2>1, Moves
<1>. QED
  BY <1>1, <1>4, <1>5, <1>6, <1>7, <1>8, <1>9 DEF CasStep

LEMMA SharedDoes ==
  ASSUME IInv, MCNext
  PROVE  IInv' /\ \E p \in Procs : Does(p)
<1>1. impl # "rw"
  BY DEF IInv, SharedTypeOK
<1>. QED
  BY <1>1, CASDoes, SQRTDoes, GroupDoes DEF MCNext, RWStep

LEMMA SharedStutter ==
  ASSUME IInv, UNCHANGED allVars
  PROVE  IInv' /\ UNCHANGED Object!vars
<1>0. /\ UNCHANGED <<M, pc, i, mx, ind, link, x, lo, class, y, impl, R>>
  BY DEF allVars, gvars, vars
<1>1. SharedTypeOK' /\ HasMax' /\ Grown /\ \A q \in Procs : Undisturbed(q)
  BY <1>0, TopStable DEF IInv, SharedTypeOK, Grown, Undisturbed
<1>2. \A q \in Procs : ThreadInv(q)'
  BY <1>0, <1>1, OtherThread DEF IInv
<1>3. impl # "rw"
  BY DEF IInv, SharedTypeOK
<1>4. UNCHANGED Object!vars
  BY <1>0, <1>3, TopStable DEF Object!vars, Value, AbsPc
<1>. QED
  BY <1>1, <1>2, <1>4 DEF IInv
-----------------------------------------------------------------------------
\* What a step of the object with one register per thread is to the LL/IC object.
LEMMA RWDoes ==
  ASSUME RWInv, RWStep
  PROVE  RWInv' /\ \E p \in Procs : Does(p)
<1>0. /\ impl = "rw" /\ impl' = "rw" /\ RW!Next
      /\ Value = RW!Top /\ Value' = RW!Top'
      /\ RWTypeOK /\ RWHasMax /\ RW!Top \in Nat
      /\ Object!None = -1 /\ None = -1 /\ RW!None = -1
  BY RWTopIsMax DEF RWStep, Value, RWInv, Object!None, None, RW!None
<1>. USE <1>0
<1>1. ASSUME NEW p \in Procs, RW!LLCall(p) PROVE RWInv' /\ Does(p)
  <2>1. Object!LLCall(p)
    BY <1>1, RWTopStable DEF RW!LLCall, RWTypeOK, Object!LLCall, AbsPc
  <2>. QED
    BY <1>1, <2>1, RWLLCall DEF Does
<1>2. ASSUME NEW p \in Procs, RW!LLRead(p) \/ RW!ICRead(p) PROVE RWInv' /\ Does(p)
  <2>1. UNCHANGED Object!vars
    BY <1>2, RWTopStable DEF RW!LLRead, RW!ICRead, RW!Collect, Object!vars, AbsPc
  <2>. QED
    BY <1>2, <2>1, RWLLRead, RWICRead DEF Does
<1>3. ASSUME NEW p \in Procs, RW!LLReturn(p) PROVE RWInv' /\ Does(p)
  <2>1. RWInv' /\ link'[p] \in lo[p] .. RW!Top
    BY <1>3, RWLLReturn DEF RWTypeOK
  <2>2. link' = [link EXCEPT ![p] = link'[p]]
    BY <1>3 DEF RW!LLReturn, RWTypeOK
  <2>3. Object!LLReturn(p)
    BY <1>3, <2>1, <2>2, RWTopStable DEF RW!LLReturn, RWTypeOK, Object!LLReturn, AbsPc
  <2>. QED
    BY <2>1, <2>3 DEF Does
<1>4. ASSUME NEW p \in Procs, RW!ICCall(p) PROVE RWInv' /\ Does(p)
  <2>1. Object!ICCall(p)
    BY <1>4, RWTopStable DEF RW!ICCall, RWTypeOK, Object!ICCall, AbsPc
  <2>. QED
    BY <1>4, <2>1, RWICCall DEF Does
<1>5. ASSUME NEW p \in Procs, RW!ICAgree(p) PROVE RWInv' /\ Does(p)
  <2>1. UNCHANGED Object!vars
    BY <1>5, RWTopStable DEF RW!ICAgree, RWTypeOK, Object!vars, AbsPc
  <2>. QED
    BY <1>5, <2>1, RWICAgree DEF Does
<1>6. ASSUME NEW p \in Procs, RW!ICSkip(p) PROVE RWInv' /\ Does(p)
  <2>1. RWInv' /\ link[p] < RW!Top /\ link[p] # RW!Top
    BY <1>6, RWICSkip DEF RWTypeOK
  <2>2. Object!IC(p)
    BY <1>6, <2>1, RWTopStable DEF RW!ICSkip, RWTypeOK, Object!IC, AbsPc
  <2>. QED
    BY <1>6, <2>1, <2>2, RWTopStable DEF RW!ICSkip, Does
<1>7. ASSUME NEW p \in Procs, RW!ICStore(p) PROVE RWInv' /\ Does(p)
  <2>1. /\ RWInv' /\ link[p] \in Nat /\ link[p] <= RW!Top
        /\ RW!Top' = IF RW!Top = link[p] THEN RW!Top + 1 ELSE RW!Top
    BY <1>7, RWICStore
  <2>2. Object!IC(p)
    BY <1>7, <2>1 DEF RW!ICStore, RWTypeOK, Object!IC, AbsPc
  <2>3. link[p] < Value'
    BY <2>1
  <2>. QED
    BY <2>1, <2>2, <2>3 DEF Does
<1>. QED
  BY <1>1, <1>2, <1>3, <1>4, <1>5, <1>6, <1>7, SameRW DEF RW!Next

LEMMA RWStutter ==
  ASSUME RWInv, impl = "rw", UNCHANGED allVars
  PROVE  RWInv' /\ UNCHANGED Object!vars
<1>0. UNCHANGED <<recheck, M, pc, i, mx, link, lo, impl>>
  BY DEF allVars, gvars, vars
<1>1. RWTypeOK' /\ RWHasMax'
  BY <1>0 DEF RWInv, RWTypeOK, RWHasMax
<1>2. \A p \in Procs : RWThreadInv(p)'
  BY <1>0 DEF RWInv, RWThreadInv, CollectingLL, HoldsLink, CollectingIC
<1>3. UNCHANGED Object!vars
  BY <1>0, RWTopStable DEF Object!vars, Value, AbsPc
<1>. QED
  BY <1>1, <1>2, <1>3 DEF RWInv
-----------------------------------------------------------------------------
\* All objects.
Inv == IF impl = "rw" THEN RWInv ELSE IInv

LEMMA InitInv == MCInit => Inv
BY RWInitInv, InitIInv DEF MCInit, RWInit, SharedInit, Inv

LEMMA StepDoes ==
  ASSUME Inv, MCNext
  PROVE  Inv' /\ \E p \in Procs : Does(p)
<1>1. CASE impl = "rw"
  <2>1. RWStep
    BY <1>1 DEF MCNext, CASStep, SQRTStep, GroupStep
  <2>. QED
    BY <1>1, <2>1, RWDoes DEF Inv, RWStep
<1>2. CASE impl # "rw"
  <2>1. impl' = impl
    BY <1>2 DEF MCNext, RWStep, CASStep, SQRTStep, GroupStep
  <2>. QED
    BY <1>2, <2>1, SharedDoes DEF Inv
<1>. QED
  BY <1>1, <1>2

LEMMA StutterInv ==
  ASSUME Inv, UNCHANGED allVars
  PROVE  Inv' /\ UNCHANGED Object!vars
BY RWStutter, SharedStutter DEF Inv, allVars

\* The invariant holds of every number of threads and registers, and of the groups that
\* llic.cpp makes of them.
THEOREM Invariance == MCSafeSpec => []Inv
<1>1. Inv /\ [MCNext]_allVars => Inv'
  BY StepDoes, StutterInv
<1>. QED
  BY <1>1, InitInv, PTL DEF MCSafeSpec

\* Type correctness of the LL/IC objects: collects stay within the registers, and so does
\* every index that LL and IC compute (llic.cpp 12-710).
THEOREM TypeCorrect == MCSafeSpec => []TypeOK
<1>1. Inv => TypeOK
  BY DEF Inv, TypeOK, RWInv, IInv
<1>. QED
  BY <1>1, Invariance, PTL
-----------------------------------------------------------------------------
\* No step of any thread lowers a register, even when the value it stores was collected
\* long before (llic.cpp 64-74 and 236-238 for LLICRW).
THEOREM RegistersNeverShrink == MCSafeSpec => RegistersOnlyGrow
<1>1. ASSUME Inv, [MCNext]_allVars
      PROVE  [\A r \in DOMAIN M : M'[r] >= M[r]]_allVars
  <2>1. CASE UNCHANGED M
    BY <1>1, <2>1 DEF Inv, RWInv, IInv, RWTypeOK, SharedTypeOK
  <2>2. CASE RWStep
    <3>1. ASSUME NEW p \in Procs, RW!ICStore(p) PROVE \A q \in Procs : M'[q] >= M[q]
      <4>1. RWInv /\ RWInv' /\ \A q \in Procs : M[q] <= M'[q]
        BY <1>1, <2>2, <3>1, RWICStore DEF Inv, RWStep
      <4>. QED
        BY <4>1 DEF RWInv, RWTypeOK
    <3>2. DOMAIN M = Procs
      BY <1>1, <2>2 DEF Inv, RWStep, RWInv, RWTypeOK
    <3>. QED
      BY <2>1, <2>2, <3>1, <3>2, SameRW DEF RWStep, RW!Next, RW!LLCall, RW!LLRead, RW!LLReturn,
        RW!ICCall, RW!ICRead, RW!ICAgree, RW!ICSkip, RW!Collect
  <2>3. ASSUME SQRTStep \/ GroupStep, ~UNCHANGED M
        PROVE  \A r \in DOMAIN M : M'[r] >= M[r]
    <3>1. IInv /\ impl \in {"sqrt", "group"}
      BY <1>1, <2>3 DEF Inv, SQRTStep, GroupStep
    <3>2. PICK p \in Procs :
            (SQRT!ICStep(p) /\ impl = "sqrt") \/ (ICStep(p) /\ impl = "group")
      <4>1. CASE SQRTStep
        <5>1. PICK p \in Procs :
                LLCall(p) \/ LLRead(p) \/ LLReturn(p) \/ ICCall(p) \/ SQRT!ICStep(p)
          BY <4>1, SameLL DEF SQRTStep, SQRT!Next, SQRT!Procs, Procs
        <5>. QED
          BY <2>3, <4>1, <5>1 DEF SQRTStep, LLCall, LLRead, LLReturn, ICCall
      <4>2. CASE GroupStep
        <5>1. PICK p \in Procs : LLStep(p) \/ GICCall(p) \/ ICCallShared(p) \/ ICStep(p)
          BY <4>2 DEF GroupStep, Next
        <5>. QED
          BY <2>3, <4>2, <5>1 DEF GroupStep, LLStep, GICCall, ICCallShared, LLCall, LLRead,
            LLReturn, ICCall
      <4>. QED
        BY <2>3, <4>1, <4>2
    <3>3. PICK r \in Regs : M' = [M EXCEPT ![r] = link[p] + 1] /\ M[r] <= link[p]
      <4>1. CASE SQRT!ICStep(p) /\ impl = "sqrt"
        BY <2>3, <3>1, <4>1, Known, Indices DEF SQRT!ICStep, SQRT!ICLoad, SQRT!ICCas,
          SQRT!ICCasFails, SQRT!ICCheck, SQRT!ICSkip, SQRT!ICFallback, ThreadInv, SqrtInv, SharedTypeOK
      <4>2. CASE ICStep(p) /\ impl = "group"
        BY <2>3, <3>1, <4>2, Known DEF ICStep, ICLoadMax, ICLoadGroup, ICSkip, ICCas, ICCasFails,
          ThreadInv, GroupInv
      <4>. QED
        BY <3>2, <4>1, <4>2
    <3>4. M \in [Regs -> Nat] /\ link[p] \in Nat \cup {-1}
      BY <3>1, Known DEF SharedTypeOK
    <3>. QED
      BY <3>3, <3>4
  <2>. QED
    BY <1>1, <2>1, <2>2, <2>3 DEF MCNext, CASStep, allVars, gvars, vars
<1>. QED
  BY <1>1, Invariance, PTL DEF MCSafeSpec, RegistersOnlyGrow

\* An IC is lost only by LLICGroup and only to a thread of its own group, or where G16 is
\* HEAD of a grouped queue: everywhere else IC(v) returns with the object above v.
THEOREM OnlyMatesLose == MCSafeSpec => OnlyGroupMatesLose
<1>1. ASSUME Inv, [MCNext]_allVars
      PROVE  [\A p \in Procs :
                /\ impl = "group" => ~MayLose(p)
                /\ pc[p] \notin {"idle", "LL"} /\ pc'[p] = "idle"
                => Value' > link[p]]_allVars
  <2>. SUFFICES ASSUME MCNext, NEW p \in Procs, impl = "group" => ~MayLose(p),
                       pc[p] \notin {"idle", "LL"}, pc'[p] = "idle"
                PROVE  Value' > link[p]
    BY <1>1
  <2>1. PICK q \in Procs : Does(q)
    BY <1>1, StepDoes
  <2>2. AbsPc[p] = "IC" /\ AbsPc'[p] = "idle" /\ AbsPc = [r \in Procs |-> AbsPc[r]]
    BY DEF AbsPc
  <2>3. ~Object!LLCall(q) /\ ~Object!LLReturn(q) /\ ~Object!ICCall(q) /\ ~UNCHANGED Object!vars
    BY <2>2 DEF Object!LLCall, Object!LLReturn, Object!ICCall, Object!vars
  <2>4. Object!IC(q) \/ Object!ICLost(q) => p = q
    BY <2>2 DEF Object!IC, Object!ICLost
  <2>5. ~(Object!ICLost(q) /\ MayLose(q))
    BY <2>4 DEF Object!ICLost
  <2>. QED
    BY <2>1, <2>3, <2>4, <2>5 DEF Does
<1>. QED
  BY <1>1, Invariance, PTL DEF MCSafeSpec, OnlyGroupMatesLose

\* LLICRW, with the second collect in IC (LLICRW, 16, 32, 128, NP) and without it
\* (LLICRWWC, LLICRWWCNP), LLICCAS, LLICSQRT and LLICGroup implement the LL/IC object for
\* every number of threads, registers and groups: LL returns a value the object had while
\* LL ran, IC(v) returns only when the object has left v or, in a group, when it is lost,
\* and the object moves by one, in an IC that was called with the value it has.
THEOREM Implementation == MCSafeSpec => ImplementObjectSafely
<1>1. MCInit => Object!Init
  <2>. SUFFICES ASSUME MCInit PROVE Object!Init
    OBVIOUS
  <2>1. CASE RWInit
    <3>1. RWTypeOK /\ RWHasMax
      BY <2>1, RWInitInv DEF RWInit, RWInv
    <3>2. \A q \in Procs : M[q] = 0
      BY <2>1, SameRW DEF RWInit, RW!Init
    <3>3. Value = 0
      BY <2>1, <3>1, <3>2, RWTopIsMax DEF RWInit, Value
    <3>. QED
      BY <2>1, <3>3, SameRW DEF RWInit, RW!Init, Object!Init, AbsPc, Object!None, None
  <2>2. CASE SharedInit
    <3>1. SharedTypeOK /\ HasMax
      BY <2>2, InitIInv DEF MCInit, IInv
    <3>2. Top = 0 /\ R = 0 /\ Value = 0
      BY <2>2, <3>1, TopIsMax DEF MCInit, SharedInit, GInit, Init, Value
    <3>. QED
      BY <2>2, <3>2 DEF SharedInit, GInit, Init, Object!Init, AbsPc, Object!None, None
  <2>. QED
    BY <2>1, <2>2 DEF MCInit
<1>2. ASSUME Inv, [MCNext]_allVars PROVE [Object!Next]_(Object!vars)
  BY <1>2, StepDoes, StutterInv DEF Does, Object!Next
<1>. QED
  BY <1>1, <1>2, Invariance, PTL DEF MCSafeSpec, ImplementObjectSafely, Object!Spec
=============================================================================
