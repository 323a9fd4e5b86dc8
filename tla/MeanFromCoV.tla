---------------------------- MODULE MeanFromCoV -----------------------------
(***************************************************************************)
(* How the experiments make one number out of repeated measurements: the   *)
(* benchmark runs up to ITERATIONS times, a Window keeps the last K times, *)
(* and from measurement K + 2 on (i > K, i from 0) the mean of the window  *)
(* is returned as soon as its coefficient of variation is below a          *)
(* threshold, or else in the end the mean of the window with the smallest  *)
(* one.  The code has nineteen copies of this loop, one per benchmark,     *)
(* with the threshold 0.02 in queue/ and 0.05 in queueTest/.               *)
(*                                                                         *)
(* A time is any of a few positive numbers.  Doubles are exact rationals   *)
(* here: a coefficient of variation is kept as its square, with numerator  *)
(* and denominator.  Windows have fewer than 30 elements.                  *)
(***************************************************************************)
EXTENDS Integers, Sequences, FiniteSets, SequencesExt

CONSTANTS
  ITERATIONS, K,
  ThresholdNum, ThresholdDen,   \* the threshold
  Times                         \* what a measurement may be

VARIABLES
  i,        \* the loop variable
  data,     \* data of the Window
  best,     \* the window of smallCoV and smallX, <<>> as long as they are max()
  mean,     \* the result, 0 before
  times     \* history: all measurements

vars == <<i, data, best, mean, times>>

Total(d) == FoldSeq(+, 0, d)

\* Mutant of AddValue: the oldest value stays.
AddOnly(d, t) == Append(d, t)

\* Window::addValue
AddValue(d, t) == Append(IF Len(d) < K THEN d ELSE Tail(d), t)

\* Mutant of Size: one less.
SizeShort(d) == Len(d) - 2

\* calculate_deviation divides by size - 1 and also sums only the first size - 1
\* squares: the last value of the window counts in the mean alone.
Size(d) == Len(d) - 1
Squares(d) == Total([n \in 1 .. Size(d) |-> (Len(d) * d[n] - Total(d)) * (Len(d) * d[n] - Total(d))])

\* (s / x)^2 as a fraction
CoV(d) == [num |-> Squares(d), den |-> Size(d) * Total(d) * Total(d)]

\* cov < threshold, and smallCoV > cov
BelowThreshold(d) ==
  CoV(d).num * ThresholdDen * ThresholdDen < ThresholdNum * ThresholdNum * CoV(d).den
Smaller(d, e) == CoV(d).num * CoV(e).den < CoV(e).num * CoV(d).den

\* The mean, returned as a long
Mean(d) == Total(d) \div Len(d)

Init == i = 0 /\ data = <<>> /\ best = <<>> /\ mean = 0 /\ times = <<>>

\* One turn of the loop.
Measure(t) ==
  /\ mean = 0 /\ i < ITERATIONS
  /\ times' = Append(times, t)
  /\ data' = AddValue(data, t)
  /\ i' = i + 1
  /\ mean' = IF i > K /\ BelowThreshold(data') THEN Mean(data') ELSE 0
  /\ best' = IF i > K /\ mean' = 0 /\ (best = <<>> \/ Smaller(data', best)) THEN data' ELSE best

\* return smallX
Return ==
  /\ mean = 0 /\ i = ITERATIONS
  /\ mean' = Mean(best)
  /\ UNCHANGED <<i, data, best, times>>

Over == mean # 0 /\ UNCHANGED vars

Next == Return \/ Over \/ \E t \in Times : Measure(t)
Spec == Init /\ [][Next]_vars
-----------------------------------------------------------------------------
Abs(n) == IF n < 0 THEN 0 - n ELSE n

\* A mean that is returned early is near every measurement of its window: within
\* (K - 1) thresholds, although the deviation leaves the last one out (the others
\* bound it, since all differences to the mean add up to 0).
EarlyMeanIsSteady ==
  mean # 0 /\ BelowThreshold(data) =>
    \A n \in 1 .. K :
      Abs(K * data[n] - Total(data)) * ThresholdDen <= (K - 1) * ThresholdNum * Total(data)

\* The K measurements that end with number n, the first measurement being number 1.
WindowAt(n) == SubSeq(times, n - K + 1, n)
Windows == {WindowAt(n) : n \in K + 2 .. Len(times)}

\* What is returned is the mean of K successive measurements, the first two not
\* among them, and no window that was looked at has a smaller variation, unless the
\* last one was good enough.
LeastVariation ==
  mean # 0 =>
    \E w \in Windows :
      /\ mean = Mean(w)
      /\ \/ w = WindowAt(Len(times)) /\ BelowThreshold(w)
         \/ \A v \in Windows : ~BelowThreshold(v) /\ ~Smaller(v, w)
=============================================================================
