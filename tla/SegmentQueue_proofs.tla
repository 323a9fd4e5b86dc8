------------------------- MODULE SegmentQueue_proofs -------------------------
(***************************************************************************)
(* The queue of linked segments loses no item in a basket and leaves none  *)
(* behind the HEAD of a segment, although a new segment begins with an     *)
(* item that no put has stored: for every number of threads, items,        *)
(* segments, baskets and slots.                                            *)
(***************************************************************************)
EXTENDS SegmentQueue, KBasketFAI_proofs

Ticket == 0 .. NODE_SIZE - 1
DeqPcs == {"deqHead", "deqClosed", "deqNext", "deqSwing", "deqLLHead", "deqLLTail", "deqLoop",
           "deqTake", "deqHHead", "deqTTail"}

SegmentTypeOK ==
  /\ HEAD \in [Segment -> 0 .. NODE_SIZE]
  /\ TAIL \in [Segment -> 0 .. NODE_SIZE]
  /\ next \in [Segment -> Segment \cup {NULL}]
  /\ HeadPtr \in Segment \cup {NULL}
  /\ TailPtr \in Segment
  /\ qpc \in [Procs -> EnqPcs \cup DeqPcs \cup {"idle"}]
  /\ arg \in [Procs -> Items \cup {NONE}]
  /\ seg \in [Procs -> Segment \cup {NULL}]
  /\ nxt \in [Procs -> Segment \cup {NULL}]
  /\ head \in [Procs -> 0 .. NODE_SIZE]
  /\ tail \in [Procs -> 0 .. NODE_SIZE]
  /\ hhead \in [Procs -> 0 .. NODE_SIZE]
  /\ used \subseteq Items

\* Where a thread has the pointers that it is about to follow.
Following ==
  \A p \in Procs :
    /\ qpc[p] \notin {"idle", "enqTail", "deqHead"} => seg[p] \in Segment
    /\ qpc[p] \in {"enqHelp", "enqSwing"} => nxt[p] \in Segment

\* A thread inside put or take is there for its enqueue or its dequeue.
Calling ==
  \A p \in Procs :
    /\ pc[p] \in PutPcs => qpc[p] = "enqPut" /\ x[p] = arg[p] /\ bk[p] = BasketOf(seg[p], tail[p])
    /\ pc[p] \in TakePcs => qpc[p] = "deqTake" /\ bk[p] = BasketOf(seg[p], head[p])

\* Pending enqueues have different items, stored only when the put is over or when
\* the segment with the item is linked.
Enqueuing ==
  /\ stored \subseteq used
  /\ \A p \in Procs : qpc[p] \in EnqPcs =>
       /\ arg[p] \in used
       /\ arg[p] \in stored =>
            qpc[p] = "enqSwing" \/ (qpc[p] = "enqPut" /\ pc[p] = "idle" /\ res[p] = OK)
       /\ \A q \in Procs : qpc[q] \in EnqPcs /\ arg[p] = arg[q] => p = q

\* The tickets in use are those of baskets, and TAIL does not go back.
Bounded ==
  \A p \in Procs :
    /\ qpc[p] \in {"enqFull", "enqPut"} => tail[p] <= TAIL[seg[p]]
    /\ qpc[p] = "enqPut" => tail[p] < NODE_SIZE
    /\ qpc[p] = "deqTake" => head[p] < NODE_SIZE

\* A HEAD has only passed baskets that a take has reported closed.
Passed ==
  /\ \A s \in Segment, t \in Ticket : t < HEAD[s] => BasketOf(s, t) \in drained
  /\ \A p \in Procs :
       qpc[p] = "deqTake" /\ pc[p] = "idle" /\ res[p] = BASKET_CLOSED =>
         BasketOf(seg[p], head[p]) \in drained

\* Nobody has been in basket b.
Unused(b) == PUTS[b] = 0 /\ TAKES[b] = 0

\* The segments up to n are linked in their order, all pointers are to them, and the
\* baskets of the others are unused.
ListTo(n) ==
  /\ \A s \in Segment : next[s] = IF s < n THEN s + 1 ELSE NULL
  /\ HeadPtr \in Segment => HeadPtr <= n
  /\ TailPtr <= n
  /\ \A p \in Procs :
       /\ seg[p] \in Segment => seg[p] <= n
       /\ nxt[p] \in Segment => nxt[p] <= n
  /\ \A s \in Segment, t \in Ticket : n < s => Unused(BasketOf(s, t))

\* The inductive invariant, together with that of the baskets.
SInv ==
  /\ SegmentTypeOK /\ Following /\ Calling /\ Enqueuing /\ Bounded /\ Passed
  /\ \E n \in Segment : ListTo(n)
-----------------------------------------------------------------------------
LEMMA Numbers ==
  /\ NODE_SIZE \in Nat \ {0} /\ Segments \in Nat \ {0} /\ NULL \notin Segment
  /\ 0 \in Segment /\ 0 \in Ticket /\ Segment \subseteq Nat /\ Ticket \subseteq Nat
  /\ \A t \in 0 .. NODE_SIZE : t < NODE_SIZE => t \in Ticket
BY SegmentAssumption DEF Segment, Ticket

LEMMA Multiples ==
  ASSUME NEW m \in Nat, NEW s \in Nat, NEW r \in Nat, s < r
  PROVE  s * m + m <= r * m
<1>1. PICK d \in Nat : r = s + 1 + d
  <2>1. r - s - 1 \in Nat
    OBVIOUS
  <2>. QED
    BY <2>1
<1>2. r * m = s * m + m + d * m /\ d * m \in Nat
  BY <1>1
<1>3. s * m \in Nat
  OBVIOUS
<1>. QED
  BY <1>2, <1>3

\* Each ticket of each segment has a basket of its own.
LEMMA OwnBaskets ==
  /\ \A s \in Segment, t \in Ticket : BasketOf(s, t) \in Baskets
  /\ \A s, r \in Segment, t, u \in Ticket :
       BasketOf(s, t) = BasketOf(r, u) => s = r /\ t = u
<1>. USE Numbers
<1>1. ASSUME NEW s \in Segment, NEW t \in Ticket PROVE BasketOf(s, t) \in Baskets
  <2>1. s \in Nat /\ t \in Nat /\ s < Segments /\ t < NODE_SIZE
    BY DEF Segment, Ticket
  <2>2. s * NODE_SIZE + NODE_SIZE <= Segments * NODE_SIZE
    BY <2>1, Multiples
  <2>3. s * NODE_SIZE \in Nat /\ Segments * NODE_SIZE \in Nat
    BY <2>1
  <2>. QED
    BY <2>1, <2>2, <2>3, SegmentAssumption DEF BasketOf
<1>2. ASSUME NEW s \in Segment, NEW r \in Segment, NEW t \in Ticket, NEW u \in Ticket, s < r
      PROVE  BasketOf(s, t) < BasketOf(r, u)
  <2>1. s \in Nat /\ r \in Nat /\ t \in Nat /\ u \in Nat /\ t < NODE_SIZE
    BY DEF Segment, Ticket
  <2>2. s * NODE_SIZE + NODE_SIZE <= r * NODE_SIZE
    BY <1>2, <2>1, Multiples
  <2>3. s * NODE_SIZE \in Nat /\ r * NODE_SIZE \in Nat
    BY <2>1
  <2>. QED
    BY <2>1, <2>2, <2>3 DEF BasketOf
<1>3. ASSUME NEW s \in Segment, NEW r \in Segment, NEW t \in Ticket, NEW u \in Ticket,
             BasketOf(s, t) = BasketOf(r, u)
      PROVE  s = r /\ t = u
  <2>1. s \in Nat /\ r \in Nat /\ t \in Nat /\ u \in Nat
    OBVIOUS
  <2>2. BasketOf(s, t) \in Nat /\ BasketOf(r, u) \in Nat
    BY <2>1 DEF BasketOf
  <2>3. ~(s < r) /\ ~(r < s)
    BY <1>2, <1>3, <2>2
  <2>4. s = r
    BY <2>1, <2>3
  <2>5. s * NODE_SIZE \in Nat
    BY <2>1
  <2>. QED
    BY <1>3, <2>1, <2>4, <2>5 DEF BasketOf
<1>. QED
  BY <1>1, <1>3

\* The segment that a new one is made in: the one after the last.
LEMMA NewSegment ==
  ASSUME SegmentTypeOK, NEW n \in Segment, ListTo(n)
  PROVE  /\ Linked = 0 .. n
         /\ Linked # Segment => n + 1 \in Segment /\ Unlinked = n + 1
<1>. USE Numbers
<1>0. n \in Nat /\ n < Segments
  BY DEF Segment
<1>1. Linked = 0 .. n
  <2>1. ASSUME NEW s \in Segment, s \in Linked PROVE s <= n
    <3>1. s \in Nat
      OBVIOUS
    <3>2. CASE \E t \in Segment : next[t] = s
      <4>1. PICK t \in Segment : next[t] = s
        BY <3>2
      <4>2. t < n /\ s = t + 1 /\ t \in Nat
        BY <4>1 DEF ListTo
      <4>. QED
        BY <1>0, <4>2
    <3>. QED
      BY <1>0, <2>1, <3>1, <3>2 DEF Linked
  <2>2. ASSUME NEW s \in 0 .. n PROVE s \in Linked
    <3>1. s \in Segment
      BY <1>0 DEF Segment
    <3>2. CASE s # 0
      <4>1. s - 1 \in Segment /\ s - 1 < n
        BY <1>0, <3>2 DEF Segment
      <4>2. next[s - 1] = s
        BY <1>0, <4>1 DEF ListTo
      <4>. QED
        BY <3>1, <4>1, <4>2 DEF Linked
    <3>. QED
      BY <3>1, <3>2 DEF Linked
  <2>. QED
    BY <1>0, <2>1, <2>2 DEF Linked, Segment
<1>2. ASSUME Linked # Segment PROVE n + 1 \in Segment /\ Unlinked = n + 1
  <2>1. n + 1 \in Segment
    BY <1>0, <1>1, <1>2 DEF Segment
  <2>2. \A s \in Segment : s \notin Linked /\ (\A t \in Segment : t < s => t \in Linked) <=> s = n + 1
    <3>. SUFFICES ASSUME NEW s \in Segment
                  PROVE  s \notin Linked /\ (\A t \in Segment : t < s => t \in Linked) <=> s = n + 1
      OBVIOUS
    <3>1. s \in Nat
      OBVIOUS
    <3>2. CASE s < n + 1
      BY <1>0, <1>1, <3>1, <3>2
    <3>3. CASE s = n + 1
      BY <1>0, <1>1, <3>3
    <3>4. CASE s > n + 1
      BY <1>0, <1>1, <2>1, <3>1, <3>4
    <3>. QED
      BY <1>0, <3>1, <3>2, <3>3, <3>4
  <2>. QED
    BY <2>1, <2>2 DEF Unlinked
<1>. QED
  BY <1>1, <1>2
-----------------------------------------------------------------------------
\* What a step of thread p outside put and take does, except the one that links a
\* segment.
Effect(p) ==
  /\ UNCHANGED <<A, PUTS, TAKES, stored, drained, res, next>>
  /\ \A q \in Procs \ {p} :
       /\ UNCHANGED <<pc[q], bk[q], x[q], qpc[q], arg[q]>>
       /\ UNCHANGED <<seg[q], nxt[q], head[q], tail[q]>>
  /\ used \subseteq used'
  /\ qpc'[p] \notin {"idle", "enqTail", "deqHead"} => seg'[p] \in Segment
  /\ qpc'[p] \in {"enqHelp", "enqSwing"} => nxt'[p] \in Segment
  /\ \/ pc'[p] = "idle" /\ qpc'[p] \notin {"enqPut", "deqTake"}
     \/ /\ pc'[p] = "putState" /\ qpc'[p] = "enqPut"
        /\ x'[p] = arg'[p] /\ bk'[p] = BasketOf(seg'[p], tail'[p]) /\ tail'[p] < NODE_SIZE
     \/ /\ pc'[p] = "takeCount" /\ qpc'[p] = "deqTake"
        /\ bk'[p] = BasketOf(seg'[p], head'[p]) /\ head'[p] < NODE_SIZE
  /\ qpc'[p] \in EnqPcs =>
       /\ arg'[p] \in used' \ stored
       /\ \A q \in Procs \ {p} : qpc[q] \in EnqPcs => arg[q] # arg'[p]
  /\ qpc'[p] \in {"enqFull", "enqPut"} => tail'[p] <= TAIL'[seg'[p]]
  /\ \A s \in Segment : TAIL[s] <= TAIL'[s]
  /\ \A s \in Segment, t \in Ticket : t < HEAD'[s] => t < HEAD[s] \/ BasketOf(s, t) \in drained
  /\ HeadPtr' = HeadPtr \/ HeadPtr' = nxt[p]
  /\ TailPtr' = TailPtr \/ TailPtr' = nxt[p]
  /\ seg'[p] \in {seg[p], HeadPtr, TailPtr}
  /\ nxt'[p] = nxt[p] \/ (seg[p] \in Segment /\ nxt'[p] = next[seg[p]])

LEMMA EffectSInv == ASSUME SInv, NEW p \in Procs, SegmentTypeOK', Effect(p) PROVE SInv'
<1>. USE Numbers
<1>0. SegmentTypeOK /\ Following /\ Calling /\ Enqueuing /\ Bounded /\ Passed
  BY DEF SInv
<1>1. Following'
  BY <1>0 DEF Effect, Following
<1>2. Calling'
  BY <1>0 DEF Effect, Calling, PutPcs, TakePcs, BasketOf
<1>3. Enqueuing'
  <2>1. stored' \subseteq used'
    BY <1>0 DEF Effect, Enqueuing
  <2>2. ASSUME NEW q \in Procs, qpc'[q] \in EnqPcs
        PROVE  /\ arg'[q] \in used'
               /\ arg'[q] \in stored' =>
                    qpc'[q] = "enqSwing" \/ (qpc'[q] = "enqPut" /\ pc'[q] = "idle" /\ res'[q] = OK)
    <3>1. CASE q = p
      BY <2>2, <3>1 DEF Effect
    <3>2. CASE q # p
      BY <2>2, <3>2, <1>0 DEF Effect, Enqueuing
    <3>. QED
      BY <3>1, <3>2
  <2>3. ASSUME NEW q \in Procs, NEW r \in Procs, qpc'[q] \in EnqPcs, qpc'[r] \in EnqPcs,
               arg'[q] = arg'[r]
        PROVE  q = r
    <3>1. CASE q # p /\ r # p
      BY <2>3, <3>1, <1>0 DEF Effect, Enqueuing
    <3>2. CASE q = p \/ r = p
      BY <2>3, <3>2 DEF Effect
    <3>. QED
      BY <3>1, <3>2
  <2>. QED
    BY <2>1, <2>2, <2>3 DEF Enqueuing
<1>4. Bounded'
  <2>1. ASSUME NEW q \in Procs \ {p}, qpc[q] \in {"enqFull", "enqPut"}
        PROVE  tail[q] <= TAIL'[seg[q]]
    <3>1. seg[q] \in Segment /\ tail[q] <= TAIL[seg[q]]
      BY <1>0, <2>1 DEF Following, Bounded
    <3>2. tail[q] \in 0 .. NODE_SIZE /\ TAIL[seg[q]] \in 0 .. NODE_SIZE
      BY <1>0, <3>1 DEF SegmentTypeOK
    <3>4. TAIL'[seg[q]] \in 0 .. NODE_SIZE
      BY <3>1 DEF SegmentTypeOK
    <3>3. TAIL[seg[q]] <= TAIL'[seg[q]]
      BY <3>1 DEF Effect
    <3>. QED
      BY <3>1, <3>2, <3>3, <3>4
  <2>. QED
    BY <2>1, <1>0 DEF Effect, Bounded
<1>5. Passed'
  BY <1>0 DEF Effect, Passed, BasketOf
<1>6. ASSUME NEW n \in Segment, ListTo(n) PROVE ListTo(n)'
  <2>1. /\ \A s \in Segment : next'[s] = IF s < n THEN s + 1 ELSE NULL
        /\ \A s \in Segment, t \in Ticket : n < s => Unused(BasketOf(s, t))'
    BY <1>6 DEF Effect, ListTo, Unused, BasketOf
  <2>2. nxt[p] \in Segment => nxt[p] <= n
    BY <1>6 DEF ListTo
  <2>3. seg[p] \in Segment => seg[p] <= n
    BY <1>6 DEF ListTo
  <2>4. TailPtr <= n /\ (HeadPtr \in Segment => HeadPtr <= n)
    BY <1>6 DEF ListTo
  <2>5. TailPtr' <= n /\ (HeadPtr' \in Segment => HeadPtr' <= n)
    BY <2>2, <2>4, <1>0 DEF Effect, SegmentTypeOK
  <2>6. seg'[p] \in Segment => seg'[p] <= n
    BY <2>3, <2>4, <1>0 DEF Effect, SegmentTypeOK
  <2>7. nxt'[p] \in Segment => nxt'[p] <= n
    <3>1. CASE nxt'[p] = nxt[p]
      BY <2>2, <3>1
    <3>2. CASE seg[p] \in Segment /\ nxt'[p] = next[seg[p]]
      <4>1. seg[p] \in Nat /\ n \in Nat /\ seg[p] <= n
        BY <2>3, <3>2
      <4>2. next[seg[p]] = IF seg[p] < n THEN seg[p] + 1 ELSE NULL
        BY <1>6, <3>2 DEF ListTo
      <4>. QED
        BY <4>1, <4>2, <3>2
    <3>. QED
      BY <3>1, <3>2 DEF Effect
  <2>8. ASSUME NEW q \in Procs
        PROVE  /\ seg'[q] \in Segment => seg'[q] <= n
               /\ nxt'[q] \in Segment => nxt'[q] <= n
    BY <2>6, <2>7, <1>6 DEF Effect, ListTo
  <2>. QED
    BY <2>1, <2>5, <2>8 DEF ListTo
<1>. QED
  BY <1>0, <1>1, <1>2, <1>3, <1>4, <1>5, <1>6 DEF SInv

\* A thread is inside put or take only in the two states that wait for it.
LEMMA Outside ==
  ASSUME TypeOK, Calling, NEW p \in Procs, qpc[p] \notin {"enqPut", "deqTake"}
  PROVE  pc[p] = "idle"
BY DEF TypeOK, Calling

LEMMA EnqEffect ==
  ASSUME IInv, SInv, NEW p \in Procs,
         \/ \E v \in Items : Enqueue(p, v)
         \/ EnqTail(p) \/ EnqNext(p) \/ EnqHelp(p) \/ EnqLL(p) \/ EnqFull(p) \/ EnqIC(p)
         \/ EnqLink(p) /\ next[seg[p]] # NULL
         \/ EnqSwing(p)
  PROVE  SegmentTypeOK' /\ Effect(p)
<1>. USE Numbers DEF GoOn, Answer, EnqPcs, DeqPcs, segments, locals, basketVars, shared, local, history
<1>0. TypeOK /\ SegmentTypeOK /\ Following /\ Calling /\ Enqueuing /\ Bounded /\ Passed
  BY DEF SInv, IInv
<1>9. \A s \in Segment : TAIL[s] \in 0 .. NODE_SIZE /\ TAIL[s] <= TAIL[s]
  <2>1. \A s \in Segment : TAIL[s] \in 0 .. NODE_SIZE
    BY <1>0 DEF SegmentTypeOK
  <2>. QED
    BY <2>1
<1>1. ASSUME NEW v \in Items, Enqueue(p, v) PROVE SegmentTypeOK' /\ Effect(p)
  <2>. USE <1>0, <1>1 DEF Enqueue
  <2>1. SegmentTypeOK'
    BY DEF SegmentTypeOK
  <2>2. pc[p] = "idle"
    BY Outside
  <2>3. Effect(p)
    BY <1>9, <2>2 DEF Effect, SegmentTypeOK, Enqueuing
  <2>. QED
    BY <2>1, <2>3
<1>2. CASE EnqTail(p)
  <2>. USE <1>0, <1>2 DEF EnqTail
  <2>1. SegmentTypeOK'
    BY DEF SegmentTypeOK
  <2>2. pc[p] = "idle"
    BY Outside
  <2>3. Effect(p)
    BY <1>9, <2>2 DEF Effect, SegmentTypeOK, Enqueuing
  <2>. QED
    BY <2>1, <2>3
<1>3. CASE EnqNext(p)
  <2>. USE <1>0, <1>3 DEF EnqNext
  <2>0. seg[p] \in Segment
    BY DEF Following
  <2>1. SegmentTypeOK'
    BY <2>0 DEF SegmentTypeOK
  <2>2. pc[p] = "idle"
    BY Outside
  <2>3. Effect(p)
    BY <1>9, <2>0, <2>2 DEF Effect, SegmentTypeOK, Enqueuing
  <2>. QED
    BY <2>1, <2>3
<1>4. CASE EnqHelp(p) \/ EnqSwing(p)
  <2>. USE <1>0, <1>4 DEF EnqHelp, EnqSwing, SwingTail
  <2>0. nxt[p] \in Segment
    BY DEF Following
  <2>1. SegmentTypeOK'
    BY <2>0 DEF SegmentTypeOK
  <2>2. pc[p] = "idle"
    BY Outside
  <2>4. qpc'[p] \in {"enqTail", "idle"} /\ (qpc'[p] = "enqTail" => qpc[p] = "enqHelp")
    BY DEF SegmentTypeOK
  <2>5. TAIL' = TAIL
    OBVIOUS
  <2>3. Effect(p)
    BY <1>9, <2>0, <2>2, <2>4, <2>5 DEF Effect, SegmentTypeOK, Enqueuing
  <2>. QED
    BY <2>1, <2>3
<1>5. CASE EnqLL(p)
  <2>. USE <1>0, <1>5 DEF EnqLL
  <2>0. seg[p] \in Segment
    BY DEF Following
  <2>1. SegmentTypeOK'
    BY <2>0 DEF SegmentTypeOK
  <2>2. pc[p] = "idle"
    BY Outside
  <2>3. Effect(p)
    BY <1>9, <2>0, <2>2 DEF Effect, SegmentTypeOK, Enqueuing
  <2>. QED
    BY <2>1, <2>3
<1>6. CASE EnqFull(p)
  <2>. USE <1>0, <1>6 DEF EnqFull
  <2>0. seg[p] \in Segment /\ tail[p] <= TAIL[seg[p]]
    BY DEF Following, Bounded
  <2>1. SegmentTypeOK'
    BY <2>0 DEF SegmentTypeOK
  <2>2. pc[p] = "idle"
    BY Outside
  <2>4. TAIL' = TAIL
    OBVIOUS
  <2>5. CASE TAIL[seg[p]] >= NODE_SIZE
    BY <1>9, <2>0, <2>2, <2>4, <2>5 DEF Effect, SegmentTypeOK, Enqueuing
  <2>6. CASE ~(TAIL[seg[p]] >= NODE_SIZE)
    <3>1. tail[p] < NODE_SIZE
      <4>1. tail[p] \in 0 .. NODE_SIZE /\ TAIL[seg[p]] \in 0 .. NODE_SIZE
        BY <1>9, <2>0 DEF SegmentTypeOK
      <4>. QED
        BY <2>0, <2>6, <4>1
    <3>2. /\ pc' = [pc EXCEPT ![p] = "putState"] /\ x' = [x EXCEPT ![p] = arg[p]]
          /\ bk' = [bk EXCEPT ![p] = BasketOf(seg[p], tail[p])]
          /\ UNCHANGED <<A, PUTS, TAKES, stored, drained, res>>
          /\ qpc' = [qpc EXCEPT ![p] = "enqPut"]
      BY <2>6 DEF PutCall, Goto
    <3>3. /\ pc'[p] = "putState" /\ x'[p] = arg'[p] /\ bk'[p] = BasketOf(seg'[p], tail'[p])
          /\ \A q \in Procs \ {p} : pc'[q] = pc[q] /\ x'[q] = x[q] /\ bk'[q] = bk[q]
      BY <3>2 DEF TypeOK, BasketOf
    <3>. QED
      BY <1>9, <2>0, <2>4, <3>1, <3>2, <3>3 DEF Effect, SegmentTypeOK, Enqueuing
  <2>3. Effect(p)
    BY <2>5, <2>6
  <2>. QED
    BY <2>1, <2>3
<1>7. CASE EnqIC(p)
  <2>. USE <1>0, <1>7 DEF EnqIC, IC
  <2>0. seg[p] \in Segment /\ tail[p] < NODE_SIZE
    BY DEF Following, Bounded
  <2>1. SegmentTypeOK'
    BY <2>0 DEF SegmentTypeOK
  <2>2. \A s \in Segment : TAIL[s] <= TAIL'[s]
    BY <2>0 DEF SegmentTypeOK
  <2>4. qpc'[p] \in {"enqTail", "idle"} /\ (qpc'[p] = "enqTail" => res[p] # OK)
    BY DEF SegmentTypeOK
  <2>5. UNCHANGED <<A, PUTS, TAKES, stored, drained, res, next, HEAD>>
    OBVIOUS
  <2>6. \A q \in Procs \ {p} : qpc'[q] = qpc[q]
    BY DEF SegmentTypeOK
  <2>3. Effect(p)
    BY <1>9, <2>0, <2>2, <2>4, <2>5, <2>6 DEF Effect, SegmentTypeOK, Enqueuing
  <2>. QED
    BY <2>1, <2>3
<1>8. CASE EnqLink(p) /\ next[seg[p]] # NULL
  <2>. USE <1>0, <1>8 DEF EnqLink
  <2>0. seg[p] \in Segment
    BY DEF Following
  <2>1. SegmentTypeOK'
    BY <2>0 DEF SegmentTypeOK
  <2>2. pc[p] = "idle"
    BY Outside
  <2>3. Effect(p)
    BY <1>9, <2>0, <2>2 DEF Effect, SegmentTypeOK, Enqueuing
  <2>. QED
    BY <2>1, <2>3
<1>. QED
  BY <1>1, <1>2, <1>3, <1>4, <1>5, <1>6, <1>7, <1>8

LEMMA ICRange ==
  \A link, index \in 0 .. NODE_SIZE : index < NODE_SIZE =>
    /\ IC(link, index) \in 0 .. NODE_SIZE
    /\ \A t \in Ticket : t < IC(link, index) => t < link \/ t = index
BY Numbers DEF IC, Ticket

LEMMA DeqEffect ==
  ASSUME IInv, SInv, NEW p \in Procs, Dequeue(p) \/ DeqStep(p)
  PROVE  SegmentTypeOK' /\ Effect(p)
<1>. USE Numbers DEF GoOn, Answer, AnswerEmpty, EnqPcs, DeqPcs, segments, locals, basketVars,
  shared, local, history
<1>0. TypeOK /\ SegmentTypeOK /\ Following /\ Calling /\ Bounded /\ Passed
  BY DEF SInv, IInv
<1>9. /\ \A s \in Segment : TAIL[s] \in 0 .. NODE_SIZE /\ TAIL[s] <= TAIL[s]
      /\ \A s \in Segment : HEAD[s] \in 0 .. NODE_SIZE
  <2>1. /\ \A s \in Segment : TAIL[s] \in 0 .. NODE_SIZE
        /\ \A s \in Segment : HEAD[s] \in 0 .. NODE_SIZE
    BY <1>0 DEF SegmentTypeOK
  <2>. QED
    BY <2>1
<1>1. CASE Dequeue(p)
  <2>. USE <1>0, <1>1 DEF Dequeue
  <2>1. SegmentTypeOK'
    BY DEF SegmentTypeOK
  <2>2. pc[p] = "idle"
    BY Outside
  <2>3. Effect(p)
    BY <1>9, <2>2 DEF Effect, SegmentTypeOK
  <2>. QED
    BY <2>1, <2>3
<1>2. CASE DeqHead(p)
  <2>. USE <1>0, <1>2 DEF DeqHead
  <2>1. SegmentTypeOK'
    BY DEF SegmentTypeOK
  <2>2. pc[p] = "idle"
    BY Outside
  <2>3. Effect(p)
    BY <1>9, <2>2 DEF Effect, SegmentTypeOK
  <2>. QED
    BY <2>1, <2>3
<1>3. CASE DeqClosed(p)
  <2>. USE <1>0, <1>3 DEF DeqClosed
  <2>0. seg[p] \in Segment
    BY DEF Following
  <2>1. SegmentTypeOK'
    BY <2>0 DEF SegmentTypeOK
  <2>2. pc[p] = "idle"
    BY Outside
  <2>3. Effect(p)
    BY <1>9, <2>0, <2>2 DEF Effect, SegmentTypeOK
  <2>. QED
    BY <2>1, <2>3
<1>4. CASE DeqNext(p)
  <2>. USE <1>0, <1>4 DEF DeqNext
  <2>0. seg[p] \in Segment
    BY DEF Following
  <2>1. SegmentTypeOK'
    BY <2>0 DEF SegmentTypeOK
  <2>2. pc[p] = "idle"
    BY Outside
  <2>3. Effect(p)
    BY <1>9, <2>0, <2>2 DEF Effect, SegmentTypeOK
  <2>. QED
    BY <2>1, <2>3
<1>5. CASE DeqSwing(p)
  <2>. USE <1>0, <1>5 DEF DeqSwing
  <2>0. seg[p] \in Segment
    BY DEF Following
  <2>1. SegmentTypeOK'
    BY <2>0 DEF SegmentTypeOK
  <2>2. pc[p] = "idle"
    BY Outside
  <2>3. Effect(p)
    BY <1>9, <2>0, <2>2 DEF Effect, SegmentTypeOK
  <2>. QED
    BY <2>1, <2>3
<1>6. CASE DeqLLHead(p)
  <2>. USE <1>0, <1>6 DEF DeqLLHead
  <2>0. seg[p] \in Segment
    BY DEF Following
  <2>1. SegmentTypeOK'
    BY <2>0 DEF SegmentTypeOK
  <2>2. pc[p] = "idle"
    BY Outside
  <2>3. Effect(p)
    BY <1>9, <2>0, <2>2 DEF Effect, SegmentTypeOK
  <2>. QED
    BY <2>1, <2>3
<1>7. CASE DeqLLTail(p)
  <2>. USE <1>0, <1>7 DEF DeqLLTail
  <2>0. seg[p] \in Segment
    BY DEF Following
  <2>1. SegmentTypeOK'
    BY <2>0 DEF SegmentTypeOK
  <2>2. pc[p] = "idle"
    BY Outside
  <2>3. Effect(p)
    BY <1>9, <2>0, <2>2 DEF Effect, SegmentTypeOK
  <2>. QED
    BY <2>1, <2>3
<1>8. CASE DeqLoop(p)
  <2>. USE <1>0, <1>8 DEF DeqLoop
  <2>0. seg[p] \in Segment
    BY DEF Following
  <2>1. SegmentTypeOK'
    BY <2>0 DEF SegmentTypeOK
  <2>2. pc[p] = "idle"
    BY Outside
  <2>3. CASE qpc'[p] # "deqTake"
    <3>1. UNCHANGED basketVars /\ qpc'[p] \in {"deqHead", "deqHHead"}
      BY <2>3 DEF SegmentTypeOK
    <3>. QED
      BY <1>9, <2>0, <2>2, <3>1 DEF Effect, SegmentTypeOK
  <2>4. CASE qpc'[p] = "deqTake"
    <3>1. head[p] < tail[p] /\ TakeCall(p, BasketOf(seg[p], head[p]))
      BY <2>4 DEF SegmentTypeOK
    <3>2. head[p] < NODE_SIZE
      <4>1. head[p] \in 0 .. NODE_SIZE /\ tail[p] \in 0 .. NODE_SIZE
        BY DEF SegmentTypeOK
      <4>. QED
        BY <3>1, <4>1
    <3>3. /\ pc' = [pc EXCEPT ![p] = "takeCount"] /\ x' = x
          /\ bk' = [bk EXCEPT ![p] = BasketOf(seg[p], head[p])]
          /\ UNCHANGED <<A, PUTS, TAKES, stored, drained, res>>
      BY <3>1 DEF TakeCall, Goto
    <3>4. /\ pc'[p] = "takeCount" /\ bk'[p] = BasketOf(seg'[p], head'[p])
          /\ \A q \in Procs \ {p} : pc'[q] = pc[q] /\ x'[q] = x[q] /\ bk'[q] = bk[q]
      BY <3>3 DEF TypeOK, BasketOf
    <3>. QED
      BY <1>9, <2>0, <2>4, <3>2, <3>3, <3>4 DEF Effect, SegmentTypeOK
  <2>. QED
    BY <2>1, <2>3, <2>4
<1>10. CASE DeqIC(p)
  <2>. USE <1>0, <1>10 DEF DeqIC
  <2>0. seg[p] \in Segment /\ head[p] < NODE_SIZE /\ head[p] \in 0 .. NODE_SIZE
    BY DEF Following, Bounded, SegmentTypeOK
  <2>1. /\ HEAD' \in [Segment -> 0 .. NODE_SIZE]
        /\ \A s \in Segment, t \in Ticket :
             t < HEAD'[s] => t < HEAD[s] \/ BasketOf(s, t) \in drained
    <3>1. CASE res[p] # BASKET_CLOSED
      BY <3>1 DEF SegmentTypeOK
    <3>2. CASE res[p] = BASKET_CLOSED
      <4>1. BasketOf(seg[p], head[p]) \in drained
        BY <3>2 DEF Passed
      <4>2. HEAD' = [HEAD EXCEPT ![seg[p]] = IC(HEAD[seg[p]], head[p])]
        BY <3>2
      <4>3. IC(HEAD[seg[p]], head[p]) \in 0 .. NODE_SIZE
        BY <1>9, <2>0, ICRange
      <4>4. HEAD' \in [Segment -> 0 .. NODE_SIZE]
        BY <4>2, <4>3 DEF SegmentTypeOK
      <4>5. ASSUME NEW s \in Segment, NEW t \in Ticket, t < HEAD'[s], ~(t < HEAD[s])
            PROVE  BasketOf(s, t) \in drained
        <5>1. s = seg[p] /\ HEAD'[s] = IC(HEAD[s], head[p])
          BY <2>0, <4>2, <4>5 DEF SegmentTypeOK
        <5>2. t = head[p]
          <6>1. HEAD[s] \in 0 .. NODE_SIZE /\ t < IC(HEAD[s], head[p])
            BY <1>9, <4>5, <5>1
          <6>2. t < HEAD[s] \/ t = head[p]
            BY <2>0, <6>1, ICRange
          <6>. QED
            BY <4>5, <6>2
        <5>. QED
          BY <4>1, <5>1, <5>2
      <4>. QED
        BY <4>4, <4>5
    <3>. QED
      BY <3>1, <3>2
  <2>2. SegmentTypeOK'
    BY <2>1 DEF SegmentTypeOK
  <2>3. qpc'[p] \in {"idle", "deqHHead"} /\ \A q \in Procs \ {p} : qpc'[q] = qpc[q]
    BY DEF SegmentTypeOK
  <2>4. Effect(p)
    BY <1>9, <2>0, <2>1, <2>3 DEF Effect
  <2>. QED
    BY <2>2, <2>4
<1>11. CASE DeqHHead(p)
  <2>. USE <1>0, <1>11 DEF DeqHHead
  <2>0. seg[p] \in Segment
    BY DEF Following
  <2>1. SegmentTypeOK'
    BY <2>0 DEF SegmentTypeOK
  <2>2. pc[p] = "idle"
    BY Outside
  <2>3. Effect(p)
    BY <1>9, <2>0, <2>2 DEF Effect, SegmentTypeOK
  <2>. QED
    BY <2>1, <2>3
<1>12. CASE DeqTTail(p)
  <2>. USE <1>0, <1>12 DEF DeqTTail
  <2>0. seg[p] \in Segment
    BY DEF Following
  <2>1. /\ qpc' = [qpc EXCEPT ![p] = qpc'[p]] /\ qpc'[p] \in {"idle", "deqLoop"}
        /\ head' \in [Procs -> 0 .. NODE_SIZE] /\ tail' \in [Procs -> 0 .. NODE_SIZE]
        /\ \A q \in Procs \ {p} : head'[q] = head[q] /\ tail'[q] = tail[q]
    <3>1. CASE head[p] = hhead[p] /\ tail[p] = TAIL[seg[p]] /\ head[p] = tail[p]
      BY <3>1 DEF SegmentTypeOK
    <3>2. CASE ~(head[p] = hhead[p] /\ tail[p] = TAIL[seg[p]] /\ head[p] = tail[p])
      <4>1. /\ head' = [head EXCEPT ![p] = hhead[p]] /\ tail' = [tail EXCEPT ![p] = TAIL[seg[p]]]
            /\ qpc' = [qpc EXCEPT ![p] = "deqLoop"]
        BY <3>2
      <4>. QED
        BY <1>9, <2>0, <4>1 DEF SegmentTypeOK
    <3>. QED
      BY <3>1, <3>2
  <2>2. SegmentTypeOK'
    BY <2>1 DEF SegmentTypeOK
  <2>3. pc[p] = "idle"
    BY Outside
  <2>4. Effect(p)
    BY <1>9, <2>0, <2>1, <2>3 DEF Effect, SegmentTypeOK
  <2>. QED
    BY <2>2, <2>4
<1>. QED
  BY <1>1, <1>2, <1>3, <1>4, <1>5, <1>6, <1>7, <1>8, <1>10, <1>11, <1>12 DEF DeqStep
-----------------------------------------------------------------------------
LEMMA InitSInv == Init => SInv
<1>. SUFFICES ASSUME Init PROVE SInv
  OBVIOUS
<1>. USE Numbers, SentinelAssumption DEF Init, BasketInit
<1>1. SegmentTypeOK
  BY DEF SegmentTypeOK
<1>2. Following /\ Calling /\ Enqueuing /\ Bounded /\ Passed
  BY DEF Following, Calling, Enqueuing, Bounded, Passed, PutPcs, TakePcs, EnqPcs
<1>3. ListTo(0)
  BY OwnBaskets DEF ListTo, Unused
<1>. QED
  BY <1>1, <1>2, <1>3 DEF SInv

\* The steps inside put and take.
LEMMA BasketStepSInv ==
  ASSUME IInv, SInv, NEW p \in Procs, PutStep(p) \/ TakeStep(p), UNCHANGED segmentVars
  PROVE  SInv'
<1>. USE Numbers, SentinelAssumption DEF segmentVars, segments, locals
<1>0. /\ SegmentTypeOK /\ Following /\ Calling /\ Enqueuing /\ Bounded /\ Passed
      /\ UNCHANGED <<HEAD, TAIL, next, HeadPtr, TailPtr, qpc, arg, seg, nxt, head, tail, hhead, used>>
  BY DEF SInv
<1>1. SegmentTypeOK' /\ Following' /\ Bounded'
  BY <1>0 DEF SegmentTypeOK, Following, Bounded
<1>2. /\ pc[p] \in PutPcs \cup TakePcs
      /\ \A b \in Baskets \ {bk[p]} : UNCHANGED <<PUTS[b], TAKES[b]>>
      /\ bk' = bk
  BY PutEffect, TakeEffect
<1>3. \E s \in Segment, t \in Ticket : bk[p] = BasketOf(s, t) /\ seg[p] = s
  <2>1. CASE pc[p] \in PutPcs
    <3>1. seg[p] \in Segment /\ tail[p] \in Ticket /\ bk[p] = BasketOf(seg[p], tail[p])
      BY <1>0, <2>1 DEF Following, Calling, Bounded, SegmentTypeOK
    <3>. QED
      BY <3>1
  <2>2. CASE pc[p] \in TakePcs
    <3>1. seg[p] \in Segment /\ head[p] \in Ticket /\ bk[p] = BasketOf(seg[p], head[p])
      BY <1>0, <2>2 DEF Following, Calling, Bounded, SegmentTypeOK
    <3>. QED
      BY <3>1
  <2>. QED
    BY <1>2, <2>1, <2>2
<1>4. ASSUME NEW n \in Segment, ListTo(n) PROVE ListTo(n)'
  <2>1. ASSUME NEW s \in Segment, NEW t \in Ticket, n < s PROVE Unused(BasketOf(s, t))'
    <3>1. PICK r \in Segment, u \in Ticket : bk[p] = BasketOf(r, u) /\ seg[p] = r
      BY <1>3
    <3>2. r <= n /\ r \in Nat /\ s \in Nat /\ n \in Nat
      BY <1>4, <3>1 DEF ListTo
    <3>3. BasketOf(s, t) \in Baskets /\ BasketOf(s, t) # bk[p]
      <4>1. r # s
        BY <2>1, <3>2
      <4>2. BasketOf(s, t) \in Baskets
        BY OwnBaskets
      <4>3. BasketOf(s, t) = BasketOf(r, u) => s = r
        BY OwnBaskets
      <4>. QED
        BY <3>1, <4>1, <4>2, <4>3
    <3>. DEFINE b == BasketOf(s, t)
    <3>4. PUTS'[b] = PUTS[b] /\ TAKES'[b] = TAKES[b]
      BY <1>2, <3>3
    <3>5. Unused(b)
      BY <1>4, <2>1 DEF ListTo
    <3>. QED
      BY <3>4, <3>5 DEF Unused, BasketOf
  <2>. QED
    BY <1>0, <1>4, <2>1 DEF ListTo
<1>5. CASE PutStep(p)
  <2>1. Calling'
    BY <1>0, <1>5, PutEffect DEF Calling, PutPcs, TakePcs, BasketOf
  <2>2. Enqueuing' /\ Passed'
    BY <1>0, <1>5, PutEffect DEF Calling, Enqueuing, Passed, PutPcs, TakePcs, EnqPcs, BasketOf
  <2>. QED
    BY <1>0, <1>1, <1>4, <2>1, <2>2 DEF SInv
<1>6. CASE TakeStep(p)
  <2>1. Calling'
    BY <1>0, <1>6, TakeEffect DEF Calling, PutPcs, TakePcs, BasketOf
  <2>2. Enqueuing' /\ Passed'
    BY <1>0, <1>6, TakeEffect DEF Calling, Enqueuing, Passed, PutPcs, TakePcs, EnqPcs, BasketOf
  <2>. QED
    BY <1>0, <1>1, <1>4, <2>1, <2>2 DEF SInv
<1>. QED
  BY <1>5, <1>6

\* An item that is in a new basket from the start, without a put: the basket is as it
\* would be after one.
LEMMA BornInBasket ==
  ASSUME IInv, NEW b \in Baskets, NEW v \in Items, Unused(b), Fresh(v),
         A' = [A EXCEPT ![b][0] = v], PUTS' = [PUTS EXCEPT ![b] = 1],
         stored' = stored \cup {v}, UNCHANGED <<TAKES, State, local, removed, drained>>
  PROVE  IInv'
<1>. USE SentinelAssumption, KAssumption
<1>0. /\ TypeOK /\ Owners /\ Content /\ Putting /\ Placed /\ Closing
      /\ v \notin stored /\ 0 \in Slots /\ Slots \subseteq Nat
      /\ PUTS[b] = 0 /\ TAKES[b] = 0
  BY DEF IInv, Unused, Fresh, Slots
<1>1. /\ UNCHANGED <<TAKES, State, pc, bk, x, slot, res, removed, drained>>
      /\ A'[b][0] = v
      /\ \A c \in Baskets, s \in Slots : <<c, s>> # <<b, 0>> => A'[c][s] = A[c][s]
      /\ \A c \in Baskets : PUTS[c] \in Nat /\ PUTS'[c] \in Nat /\ PUTS[c] <= PUTS'[c]
      /\ PUTS'[b] = 1 /\ \A c \in Baskets \ {b} : PUTS'[c] = PUTS[c]
  BY <1>0 DEF TypeOK, local
<1>2. TypeOK'
  <2>1. A' \in [Baskets -> [Slots -> Items \cup {BOTTOM, TOP}]]
    BY <1>0 DEF TypeOK
  <2>2. PUTS' \in [Baskets -> Nat] /\ stored' \subseteq Items
    BY <1>0 DEF TypeOK
  <2>. QED
    BY <1>0, <1>1, <2>1, <2>2 DEF TypeOK
<1>3. \A q \in Procs : bk[q] \in Baskets /\ slot[q] \in Nat
  BY <1>0 DEF TypeOK
<1>4. Owners'
  <2>1. ASSUME NEW q \in Procs, pc[q] = "putSwap" PROVE slot[q] \in Slots /\ slot[q] < PUTS'[bk[q]]
    <3>1. slot[q] \in Slots /\ slot[q] < PUTS[bk[q]]
      BY <1>0, <2>1 DEF Owners
    <3>2. PUTS[bk[q]] \in Nat /\ PUTS'[bk[q]] \in Nat /\ PUTS[bk[q]] <= PUTS'[bk[q]]
      BY <1>1, <1>3
    <3>. QED
      BY <1>3, <3>1, <3>2
  <2>. QED
    BY <2>1, <1>0, <1>1 DEF Owners
<1>5. /\ \A c \in Baskets, s \in Slots : Spent(c, s)' <=> Spent(c, s)
      /\ \A s \in Slots : ~Spent(b, s) /\ A[b][s] = BOTTOM
      /\ \A q \in Procs, s \in Slots : ~HoldsPut(q, b, s)
      /\ \A q \in Procs, c \in Baskets, s \in Slots : HoldsPut(q, c, s)' <=> HoldsPut(q, c, s)
  <2>1. \A q \in Procs, c \in Baskets, s \in Slots :
          /\ HoldsTake(q, c, s)' <=> HoldsTake(q, c, s)
          /\ HoldsPut(q, c, s)' <=> HoldsPut(q, c, s)
    BY <1>1 DEF HoldsTake, HoldsPut
  <2>2. \A s \in Slots : ~Spent(b, s)
    BY <1>0 DEF Spent
  <2>3. \A s \in Slots : A[b][s] = BOTTOM
    BY <2>2, <1>0 DEF Content
  <2>4. \A q \in Procs, s \in Slots : ~HoldsPut(q, b, s)
    BY <1>0, <1>3 DEF HoldsPut, Owners
  <2>. QED
    BY <2>1, <2>2, <2>3, <2>4, <1>1 DEF Spent
<1>6. removed[v] = 0
  BY <1>0 DEF Placed
<1>7. Content'
  <2>. SUFFICES ASSUME NEW c \in Baskets, NEW s \in Slots
                PROVE  /\ Spent(c, s)' => A'[c][s] # BOTTOM
                       /\ ~Spent(c, s)' => A'[c][s] # TOP
                       /\ ~Spent(c, s)' /\ A'[c][s] # BOTTOM
                            => A'[c][s] \in stored' /\ removed'[A'[c][s]] = 0
                       /\ s >= PUTS'[c] => A'[c][s] \in {BOTTOM, TOP}
                       /\ \A q \in Procs : HoldsPut(q, c, s)' => A'[c][s] \in {BOTTOM, TOP}
    BY DEF Content
  <2>1. CASE c = b /\ s = 0
    BY <2>1, <1>0, <1>1, <1>5, <1>6
  <2>2. CASE ~(c = b /\ s = 0)
    <3>1. A'[c][s] = A[c][s]
      BY <2>2, <1>1
    <3>2. s >= PUTS'[c] => s >= PUTS[c]
      BY <1>0, <1>1
    <3>. QED
      BY <3>1, <3>2, <1>0, <1>1, <1>5 DEF Content
  <2>. QED
    BY <2>1, <2>2
<1>8. Placed'
  <2>1. ASSUME NEW w \in Items
        PROVE  /\ removed'[w] <= 1
               /\ w \notin stored' => removed'[w] = 0
               /\ w \in stored' /\ removed'[w] = 0
                    => \E c \in Baskets, s \in Slots : A'[c][s] = w /\ ~Spent(c, s)'
    <3>1. CASE w = v
      BY <3>1, <1>0, <1>1, <1>5 DEF Placed
    <3>2. CASE w # v
      <4>1. ASSUME w \in stored', removed'[w] = 0
            PROVE  \E c \in Baskets, s \in Slots : A'[c][s] = w /\ ~Spent(c, s)'
        <5>1. PICK c \in Baskets, s \in Slots : A[c][s] = w /\ ~Spent(c, s)
          BY <3>2, <4>1, <1>0, <1>1 DEF Placed
        <5>2. <<c, s>> # <<b, 0>>
          BY <5>1, <1>0, <1>5
        <5>. QED
          BY <5>1, <5>2, <1>1, <1>5
      <4>. QED
        BY <4>1, <1>0, <1>1 DEF Placed
    <3>. QED
      BY <3>1, <3>2
  <2>2. \A c \in Baskets, s \in Slots : ~Spent(c, s) => A[c][s] # v
    BY <1>0 DEF Content
  <2>3. ASSUME NEW c \in Baskets, NEW d \in Baskets, NEW s \in Slots, NEW t \in Slots,
               ~Spent(c, s)', ~Spent(d, t)', A'[c][s] = A'[d][t], A'[c][s] # BOTTOM
        PROVE  c = d /\ s = t
    <3>1. CASE <<c, s>> = <<b, 0>> \/ <<d, t>> = <<b, 0>>
      BY <2>2, <2>3, <3>1, <1>1, <1>5
    <3>2. CASE <<c, s>> # <<b, 0>> /\ <<d, t>> # <<b, 0>>
      BY <2>3, <3>2, <1>0, <1>1, <1>5 DEF Placed
    <3>. QED
      BY <3>1, <3>2
  <2>. QED
    BY <2>1, <2>3 DEF Placed
<1>9. Putting' /\ Closing'
  BY <1>0, <1>1 DEF Putting, Closing, Fresh
<1>. QED
  BY <1>2, <1>4, <1>7, <1>8, <1>9 DEF IInv

\* The item of an enqueue that has not stored it is in no basket and in no put.
LEMMA ArgIsFresh ==
  ASSUME IInv, SInv, NEW p \in Procs, qpc[p] \in {"enqFull", "enqLink"}
  PROVE  arg[p] \in Items \ stored /\ Fresh(arg[p])
<1>1. SegmentTypeOK /\ Calling /\ Enqueuing
  BY DEF SInv
<1>2. arg[p] \in Items \ stored
  BY <1>1 DEF Enqueuing, EnqPcs, SegmentTypeOK
<1>3. \A q \in Procs : pc[q] \in PutPcs => x[q] # arg[p]
  BY <1>1 DEF Enqueuing, EnqPcs, Calling
<1>. QED
  BY <1>2, <1>3 DEF Fresh

\* enqueue: a new segment, with the item in its first basket.
LEMMA LinkInv ==
  ASSUME IInv, SInv, NEW p \in Procs, EnqLink(p), next[seg[p]] = NULL
  PROVE  IInv' /\ SInv'
<1>. USE Numbers
<1>0. /\ TypeOK /\ SegmentTypeOK /\ Following /\ Calling /\ Enqueuing /\ Bounded /\ Passed
      /\ qpc[p] = "enqLink" /\ seg[p] \in Segment /\ pc[p] = "idle"
  <2>1. qpc[p] = "enqLink"
    BY DEF EnqLink
  <2>. QED
    BY <2>1, Outside DEF SInv, IInv, Following
<1>1. PICK n \in Segment : ListTo(n)
  BY DEF SInv
<1>. DEFINE new == n + 1
<1>2. n \in Nat /\ new \in Segment /\ Unlinked = new /\ Linked # Segment
  BY <1>0, <1>1, NewSegment DEF EnqLink
<1>3. seg[p] = n
  <2>1. seg[p] \in Nat /\ seg[p] <= n /\ ~(seg[p] < n)
    <3>1. seg[p] \in Nat /\ seg[p] <= n
      BY <1>0, <1>1 DEF ListTo
    <3>2. ASSUME seg[p] < n PROVE FALSE
      <4>1. seg[p] + 1 \in Segment
        BY <1>2, <3>1, <3>2 DEF Segment
      <4>2. next[seg[p]] = seg[p] + 1
        BY <1>0, <1>1, <3>2 DEF ListTo
      <4>. QED
        BY <4>1, <4>2
    <3>. QED
      BY <3>1, <3>2
  <2>. QED
    BY <1>2, <2>1
<1>4. /\ next' = [next EXCEPT ![n] = new]
      /\ nxt' = [nxt EXCEPT ![p] = new]
      /\ TAIL' = [TAIL EXCEPT ![new] = IC(0, tail[p])]
      /\ A' = [A EXCEPT ![BasketOf(new, 0)][0] = arg[p]]
      /\ PUTS' = [PUTS EXCEPT ![BasketOf(new, 0)] = 1]
      /\ stored' = stored \cup {arg[p]}
      /\ qpc' = [qpc EXCEPT ![p] = "enqSwing"]
      /\ UNCHANGED <<TAKES, State, pc, bk, x, slot, res, removed, drained>>
      /\ UNCHANGED <<HEAD, HeadPtr, TailPtr, arg, seg, head, tail, hhead, used>>
  BY <1>2, <1>3 DEF EnqLink, GoOn, local
<1>5. BasketOf(new, 0) \in Baskets /\ Unused(BasketOf(new, 0))
  BY <1>1, <1>2, OwnBaskets DEF ListTo
<1>6. IInv'
  <2>1. UNCHANGED <<TAKES, State, local, removed, drained>>
    BY <1>4 DEF local
  <2>2. arg[p] \in Items /\ Fresh(arg[p])
    BY <1>0, ArgIsFresh
  <2>. QED
    BY <1>4, <1>5, <2>1, <2>2, BornInBasket
<1>7. SegmentTypeOK'
  <2>1. IC(0, tail[p]) \in 0 .. NODE_SIZE
    BY DEF IC
  <2>2. next' \in [Segment -> Segment \cup {NULL}] /\ TAIL' \in [Segment -> 0 .. NODE_SIZE]
    BY <1>0, <1>2, <1>4, <2>1 DEF SegmentTypeOK
  <2>3. qpc' \in [Procs -> EnqPcs \cup DeqPcs \cup {"idle"}] /\ nxt' \in [Procs -> Segment \cup {NULL}]
    BY <1>0, <1>2, <1>4 DEF SegmentTypeOK, EnqPcs
  <2>. QED
    BY <2>2, <2>3, <1>0, <1>4 DEF SegmentTypeOK
<1>8. /\ qpc'[p] = "enqSwing" /\ nxt'[p] = new
      /\ \A q \in Procs \ {p} : qpc'[q] = qpc[q] /\ nxt'[q] = nxt[q]
  BY <1>0, <1>4 DEF SegmentTypeOK
<1>9. Following' /\ Calling'
  BY <1>0, <1>2, <1>4, <1>8 DEF Following, Calling, PutPcs, TakePcs, BasketOf
<1>10. Enqueuing'
  <2>1. arg[p] \in used /\ arg[p] \notin stored
    BY <1>0 DEF Enqueuing, EnqPcs
  <2>. QED
    BY <2>1, <1>0, <1>4, <1>8 DEF Enqueuing, EnqPcs
<1>11. \A q \in Procs : seg[q] \in Segment => seg[q] <= n /\ seg[q] # new
  BY <1>1, <1>2 DEF ListTo
<1>12. Bounded'
  <2>1. ASSUME NEW q \in Procs, qpc'[q] \in {"enqFull", "enqPut"}
        PROVE  tail'[q] <= TAIL'[seg'[q]]
    <3>1. qpc[q] = qpc'[q] /\ seg[q] \in Segment /\ seg[q] # new
      BY <1>0, <1>8, <1>11, <2>1 DEF Following
    <3>2. TAIL'[seg[q]] = TAIL[seg[q]]
      BY <1>0, <1>4, <3>1 DEF SegmentTypeOK
    <3>. QED
      BY <1>0, <1>4, <2>1, <3>1, <3>2 DEF Bounded
  <2>. QED
    BY <2>1, <1>0, <1>4, <1>8 DEF Bounded
<1>13. Passed'
  BY <1>0, <1>4, <1>8 DEF Passed, BasketOf
<1>14. ListTo(new)'
  <2>1. ASSUME NEW s \in Segment PROVE next'[s] = IF s < new THEN s + 1 ELSE NULL
    <3>1. s \in Nat
      OBVIOUS
    <3>2. next[s] = IF s < n THEN s + 1 ELSE NULL
      BY <1>1 DEF ListTo
    <3>3. next'[s] = IF s = n THEN new ELSE next[s]
      BY <1>0, <1>4 DEF SegmentTypeOK
    <3>4. CASE s < n
      <4>1. s < new /\ s # n
        BY <1>2, <3>1, <3>4
      <4>2. next'[s] = s + 1
        BY <3>2, <3>3, <3>4, <4>1
      <4>. QED
        BY <4>1, <4>2
    <3>5. CASE s = n
      <4>1. s < new /\ s + 1 = new
        BY <1>2, <3>5
      <4>2. next'[s] = new
        BY <3>3, <3>5
      <4>. QED
        BY <4>1, <4>2
    <3>6. CASE s > n
      <4>1. ~(s < new) /\ s # n /\ ~(s < n)
        BY <1>2, <3>1, <3>6
      <4>2. next'[s] = NULL
        BY <3>2, <3>3, <4>1
      <4>. QED
        BY <4>1, <4>2
    <3>7. s < n \/ s = n \/ s > n
      BY <1>2, <3>1
    <3>. QED
      BY <3>4, <3>5, <3>6, <3>7
  <2>2. /\ HeadPtr' \in Segment => HeadPtr' <= new
        /\ TailPtr' <= new
    <3>1. (HeadPtr \in Segment => HeadPtr <= n) /\ TailPtr <= n /\ TailPtr \in Segment
      BY <1>0, <1>1 DEF ListTo, SegmentTypeOK
    <3>. QED
      BY <1>2, <1>4, <3>1
  <2>3. ASSUME NEW q \in Procs
        PROVE  /\ seg'[q] \in Segment => seg'[q] <= new
               /\ nxt'[q] \in Segment => nxt'[q] <= new
    <3>1. (seg[q] \in Segment => seg[q] <= n) /\ (nxt[q] \in Segment => nxt[q] <= n)
      BY <1>1 DEF ListTo
    <3>2. nxt'[q] = nxt[q] \/ nxt'[q] = new
      BY <1>8
    <3>. QED
      BY <1>2, <1>4, <3>1, <3>2
  <2>4. ASSUME NEW s \in Segment, NEW t \in Ticket, new < s PROVE Unused(BasketOf(s, t))'
    <3>1. n < s /\ s # new
      BY <1>2, <2>4
    <3>2. Unused(BasketOf(s, t)) /\ BasketOf(s, t) \in Baskets /\ BasketOf(s, t) # BasketOf(new, 0)
      BY <1>1, <1>2, <3>1, OwnBaskets DEF ListTo
    <3>. DEFINE b == BasketOf(s, t)
    <3>3. PUTS'[b] = PUTS[b] /\ TAKES'[b] = TAKES[b]
      BY <1>0, <1>4, <3>2 DEF TypeOK
    <3>. QED
      BY <3>2, <3>3 DEF Unused, BasketOf
  <2>. QED
    BY <2>1, <2>2, <2>3, <2>4 DEF ListTo
<1>. QED
  BY <1>2, <1>6, <1>7, <1>9, <1>10, <1>12, <1>13, <1>14 DEF SInv
-----------------------------------------------------------------------------
\* Every step of the queue but the one that links a segment is a step of the baskets,
\* or leaves them alone.
LEMMA StepIsBasketStep ==
  ASSUME IInv, SInv, NEW p \in Procs, Invoke(p) \/ Step(p),
         ~(EnqLink(p) /\ next[seg[p]] = NULL)
  PROVE  [BasketNext]_basketVars
<1>1. CASE PutStep(p) \/ TakeStep(p)
  BY <1>1 DEF BasketNext
<1>2. CASE EnqFull(p)
  <2>1. CASE PutCall(p, BasketOf(seg[p], tail[p]), arg[p]) /\ TAIL[seg[p]] < NODE_SIZE
    <3>1. seg[p] \in Segment /\ tail[p] \in 0 .. NODE_SIZE /\ tail[p] <= TAIL[seg[p]]
      BY <1>2 DEF SInv, SegmentTypeOK, Following, Bounded, EnqFull
    <3>2. TAIL[seg[p]] \in 0 .. NODE_SIZE
      BY <3>1 DEF SInv, SegmentTypeOK
    <3>3. tail[p] \in Ticket
      BY <2>1, <3>1, <3>2, Numbers
    <3>4. BasketOf(seg[p], tail[p]) \in Baskets
      BY <3>1, <3>3, OwnBaskets
    <3>5. arg[p] \in Items /\ Fresh(arg[p])
      BY <1>2, ArgIsFresh DEF EnqFull
    <3>. QED
      BY <2>1, <3>4, <3>5 DEF BasketNext, Call
  <2>2. CASE UNCHANGED basketVars
    BY <2>2
  <2>3. seg[p] \in Segment /\ TAIL[seg[p]] \in 0 .. NODE_SIZE /\ NODE_SIZE \in Nat
    BY <1>2, Numbers DEF SInv, SegmentTypeOK, Following, EnqFull
  <2>4. TAIL[seg[p]] >= NODE_SIZE \/ TAIL[seg[p]] < NODE_SIZE
    BY <2>3
  <2>. QED
    BY <1>2, <2>1, <2>2, <2>4 DEF EnqFull
<1>3. CASE DeqLoop(p)
  <2>1. CASE TakeCall(p, BasketOf(seg[p], head[p])) /\ head[p] < tail[p]
    <3>1. seg[p] \in Segment /\ head[p] \in 0 .. NODE_SIZE /\ tail[p] \in 0 .. NODE_SIZE
      BY <1>3 DEF SInv, SegmentTypeOK, Following, DeqLoop
    <3>2. head[p] \in Ticket
      BY <2>1, <3>1, Numbers
    <3>3. BasketOf(seg[p], head[p]) \in Baskets
      BY <3>1, <3>2, OwnBaskets
    <3>. QED
      BY <2>1, <3>3 DEF BasketNext, Call
  <2>2. CASE UNCHANGED basketVars
    BY <2>2
  <2>. QED
    BY <1>3, <2>1, <2>2 DEF DeqLoop
<1>4. CASE EnqLink(p) /\ next[seg[p]] # NULL
  BY <1>4 DEF EnqLink
<1>5. CASE Invoke(p)
  BY <1>5 DEF Invoke, Enqueue, Dequeue
<1>6. CASE EnqTail(p) \/ EnqNext(p) \/ EnqHelp(p) \/ EnqLL(p) \/ EnqIC(p) \/ EnqSwing(p)
  BY <1>6 DEF EnqTail, EnqNext, EnqHelp, EnqLL, EnqIC, EnqSwing, SwingTail
<1>7. CASE DeqStep(p) /\ ~DeqLoop(p)
  BY <1>7 DEF DeqStep, DeqHead, DeqClosed, DeqNext, DeqSwing, DeqLLHead, DeqLLTail, DeqIC,
    DeqHHead, DeqTTail
<1>. QED
  BY <1>1, <1>2, <1>3, <1>4, <1>5, <1>6, <1>7 DEF Step, EnqStep

LEMMA NextSInv == IInv /\ SInv /\ [Next]_vars => (IInv /\ SInv)'
<1>. SUFFICES ASSUME IInv, SInv, [Next]_vars PROVE IInv' /\ SInv'
  OBVIOUS
<1>1. CASE UNCHANGED vars
  <2>1. UNCHANGED basketVars
    BY <1>1 DEF vars
  <2>2. IInv'
    BY <2>1, NextIInv
  <2>3. UNCHANGED <<PUTS, TAKES, pc, bk, x, res, stored, drained>>
    BY <2>1 DEF basketVars, shared, local, history
  <2>4. UNCHANGED <<HEAD, TAIL, next, HeadPtr, TailPtr, qpc, arg, seg, nxt, head, tail, hhead, used>>
    BY <1>1 DEF vars, segmentVars, segments, locals
  <2>5. SegmentTypeOK' /\ Following' /\ Calling' /\ Enqueuing' /\ Bounded' /\ Passed'
    BY <2>3, <2>4 DEF SInv, SegmentTypeOK, Following, Calling, Enqueuing, Bounded, Passed, BasketOf
  <2>6. ASSUME NEW n \in Segment, ListTo(n) PROVE ListTo(n)'
    BY <2>3, <2>4, <2>6 DEF ListTo, Unused, BasketOf
  <2>. QED
    BY <2>2, <2>5, <2>6 DEF SInv
<1>2. ASSUME NEW p \in Procs, Invoke(p) \/ Step(p) PROVE IInv' /\ SInv'
  <2>1. CASE EnqLink(p) /\ next[seg[p]] = NULL
    BY <2>1, LinkInv
  <2>2. CASE ~(EnqLink(p) /\ next[seg[p]] = NULL)
    <3>1. IInv'
      BY <1>2, <2>2, StepIsBasketStep, NextIInv
    <3>2. CASE (PutStep(p) \/ TakeStep(p)) /\ UNCHANGED segmentVars
      BY <3>1, <3>2, BasketStepSInv
    <3>3. CASE (\E v \in Items : Enqueue(p, v)) \/ EnqStep(p)
      <4>1. SegmentTypeOK' /\ Effect(p)
        BY <2>2, <3>3, EnqEffect DEF EnqStep
      <4>. QED
        BY <3>1, <4>1, EffectSInv
    <3>4. CASE Dequeue(p) \/ DeqStep(p)
      <4>1. SegmentTypeOK' /\ Effect(p)
        BY <3>4, DeqEffect
      <4>. QED
        BY <3>1, <4>1, EffectSInv
    <3>. QED
      BY <1>2, <3>2, <3>3, <3>4 DEF Invoke, Step
  <2>. QED
    BY <2>1, <2>2
<1>. QED
  BY <1>1, <1>2 DEF Next

LEMMA SegmentInvariance == Spec => [](IInv /\ SInv)
<1>1. Init => IInv /\ SInv
  BY InitIInv, InitSInv DEF Init
<1>. QED
  BY <1>1, NextSInv, PTL DEF Spec

\* The types of the queue: every segment that enqueue and dequeue follow a pointer to
\* is one, and HEAD and TAIL stay in the array of baskets (LLICQueue.hpp 473-535).
THEOREM SegmentTypeCorrect == Spec => []SegmentTypeOK
<1>1. SInv => SegmentTypeOK
  BY DEF SInv
<1>. QED
  BY <1>1, SegmentInvariance, PTL

\* No item is lost or duplicated in the baskets of the segments, although a new
\* segment comes with an item that no put has stored (LLICQueue.hpp 484-494).
THEOREM SegmentsConserveItems == Spec => []NoLossNoDuplicate
BY IInvConserves, SegmentInvariance, PTL

\* What is in a basket that its segment's HEAD has passed belongs to a take in
\* progress, also if the put is late or the segment is no longer the last
\* (LLICQueue.hpp 504-535).
THEOREM SegmentsLeaveNothingBehind == Spec => []NothingBehindHead
<1>1. IInv /\ SInv => NothingBehindHead
  <2>. SUFFICES ASSUME IInv, SInv, NEW v \in stored, NEW s \in Segment, NEW t \in Ticket,
                       NEW k \in Slots, <<BasketOf(s, t), k>> \in Places(v), ~(HEAD[s] <= t)
                PROVE  \E p \in Procs : HoldsTake(p, BasketOf(s, t), k)
    BY DEF NothingBehindHead, Ticket
  <2>1. t < HEAD[s]
    BY Numbers DEF SInv, SegmentTypeOK
  <2>2. BasketOf(s, t) \in drained
    BY <2>1 DEF SInv, Passed
  <2>. QED
    BY <2>2, IInvLeavesNothing DEF ClosedLeavesNothing
<1>. QED
  BY <1>1, SegmentInvariance, PTL
=============================================================================
