---------------------------- MODULE SurveyProofs ----------------------------
(***************************************************************************)
(* What the arithmetic of module Survey computes, for every band, step and *)
(* window: the centres expand_centers pushes, how many they are, when the  *)
(* engine's validate_plan accepts them, and that windows around them leave *)
(* no frequency of the band out; and for every sequence of points: what    *)
(* the median is, that the pass over the points finds their maximal runs,  *)
(* what a candidate is made of, and when the report can be read.           *)
(*                                                                         *)
(* Induction over centres and points is by the least index at which a      *)
(* statement fails: a set of natural numbers that is not empty has a least *)
(* element.                                                                *)
(***************************************************************************)
EXTENDS Survey, FiniteSetTheorems, WellFoundedInduction, TLAPS

\* A set of naturals that is not empty has a least element.
LEMMA LeastNumber ==
    ASSUME NEW T, T \subseteq Nat, T # {}
    PROVE  \E n \in T : \A m \in T : n <= m
<1>1. IsWellFoundedOn(OpToRel(<, Nat), Nat)
  BY NatLessThanWellFounded
<1>2. PICK n \in T : \A m \in T : ~(<<m, n>> \in OpToRel(<, Nat))
  BY <1>1, WFMin, Zenon
<1>3. \A m, k \in Nat : m < k => <<m, k>> \in OpToRel(<, Nat)
  BY Zenon DEF OpToRel
<1>4. \A m \in T : ~(m < n)
  BY <1>2, <1>3, Zenon
<1> QED BY <1>4

\* Min of such a set is that element.
LEMMA MinOfNats ==
    ASSUME NEW T, T \subseteq Nat, T # {}
    PROVE  /\ Min(T) \in T
           /\ \A m \in T : Min(T) <= m
<1>1. \E n \in T : \A m \in T : n <= m
  BY LeastNumber, Zenon
<1> QED BY <1>1 DEF Min

\* The smaller of two integers, Rust's min.
LEMMA MinOfTwo ==
    ASSUME NEW a \in Int, NEW b \in Int
    PROVE  Min({a, b}) = IF a <= b THEN a ELSE b
<1>1. \E x \in {a, b} : \A y \in {a, b} : x <= y
  OBVIOUS
<1>2. Min({a, b}) \in {a, b} /\ \A y \in {a, b} : Min({a, b}) <= y
  BY <1>1 DEF Min
<1> QED BY <1>2

\* CeilDiv(a, b) steps of b reach a, and one step less does not.
LEMMA CeilDivReaches ==
    ASSUME NEW a \in Nat, NEW b \in Nat \ {0}
    PROVE  /\ CeilDiv(a, b) \in Nat
           /\ a <= CeilDiv(a, b) * b
           /\ CeilDiv(a, b) * b < a + b
<1> DEFINE c == a + b - 1
           q == c \div b
<1>1. c \in Nat
  OBVIOUS
<1>2. q \in Int /\ q >= 0 /\ b * q <= c /\ c < b * q + b
  <2> HIDE DEF c
  <2> QED BY <1>1
<1>3. CeilDiv(a, b) = q
  BY DEF CeilDiv
<1> HIDE DEF q
<1>4. b * q = q * b
  BY <1>2
<1>5. q * b \in Int
  BY <1>2
<1> QED BY <1>2, <1>3, <1>4, <1>5

-----------------------------------------------------------------------------
(* The centres of a band.                                                  *)

\* The i-th centre, counted from zero, without the recursion of the loop.
Center(start, stop, step, i) == IF start + i * step <= stop THEN start + i * step ELSE stop

\* One turn of the loop of expand_centers.
LEMMA CenterStep ==
    ASSUME NEW start \in Int, NEW stop \in Int, NEW step \in Nat, NEW i \in Nat \ {0}
    PROVE  /\ Center(start, stop, step, i) \in Int
           /\ Center(start, stop, step, i - 1) \in Int
           /\ Center(start, stop, step, i) = Min({Center(start, stop, step, i - 1) + step, stop})
<1>1. (i - 1) * step + step = i * step /\ (i - 1) * step \in Int /\ i * step \in Int
  OBVIOUS
<1>2. /\ Center(start, stop, step, i) \in Int
      /\ Center(start, stop, step, i - 1) \in Int
  BY <1>1 DEF Center
<1>3. Min({Center(start, stop, step, i - 1) + step, stop}) =
          IF Center(start, stop, step, i - 1) + step <= stop
          THEN Center(start, stop, step, i - 1) + step ELSE stop
  BY <1>2, MinOfTwo
<1> QED BY <1>1, <1>2, <1>3 DEF Center

\* The recursive function of expand_centers has the closed form: the closed
\* form solves its equation, so the function does too, and no index is the
\* first at which the two differ.
LEMMA CenterIs ==
    ASSUME NEW start \in Int, NEW stop \in Int, NEW step \in Nat, start <= stop
    PROVE  LET center[i \in 0..MAX_POINTS] ==
                   IF i = 0 THEN start ELSE Min({center[i - 1] + step, stop})
           IN  \A i \in 0..MAX_POINTS : center[i] = Center(start, stop, step, i)
<1> DEFINE center[i \in 0..MAX_POINTS] ==
               IF i = 0 THEN start ELSE Min({center[i - 1] + step, stop})
           Body(c) == [i \in 0..MAX_POINTS |->
                          IF i = 0 THEN start ELSE Min({c[i - 1] + step, stop})]
           closed == [i \in 0..MAX_POINTS |-> Center(start, stop, step, i)]
<1>1. MAX_POINTS \in Nat
  BY SurveyAssumption
<1>2. Center(start, stop, step, 0) = start
  BY DEF Center
<1>3. \A i \in 0..MAX_POINTS : i # 0 =>
          Center(start, stop, step, i) = Min({Center(start, stop, step, i - 1) + step, stop})
  BY <1>1, CenterStep
<1>4. closed = Body(closed)
  <2>1. \A i \in 0..MAX_POINTS : i # 0 => closed[i - 1] = Center(start, stop, step, i - 1)
    BY <1>1
  <2> QED BY <1>2, <1>3, <2>1
<1>5. center = Body(center)
  <2>1. center = CHOOSE c : c = Body(c)
    OBVIOUS
  <2> HIDE DEF center, Body
  <2> QED BY <1>4, <2>1
<1> HIDE DEF center
<1>6. \A i \in 0..MAX_POINTS : center[i] = Center(start, stop, step, i)
  <2> DEFINE Bad == {i \in 0..MAX_POINTS : center[i] # Center(start, stop, step, i)}
  <2>1. SUFFICES ASSUME Bad # {} PROVE FALSE
    OBVIOUS
  <2>2. PICK i \in Bad : \A m \in Bad : i <= m
    <3>1. Bad \subseteq Nat
      BY <1>1
    <3> QED BY <2>1, <3>1, LeastNumber
  <2>3. i # 0
    BY <1>1, <1>2, <1>5, <2>2
  <2>4. i - 1 \in 0..MAX_POINTS /\ i - 1 \notin Bad
    BY <1>1, <2>2, <2>3
  <2>5. center[i] = Min({center[i - 1] + step, stop})
    BY <1>5, <2>2, <2>3
  <2> QED BY <1>3, <2>2, <2>3, <2>4, <2>5
<1> QED BY <1>6 DEF center

\* Where the closed form reaches the end of the band: at the CeilDiv-th
\* centre and not before; the centres before it ascend by at most a step.
LEMMA CenterReaches ==
    ASSUME NEW start \in Int, NEW stop \in Int, NEW step \in Nat \ {0}, start <= stop,
           NEW i \in Nat
    PROVE  /\ CeilDiv(stop - start, step) \in Nat
           /\ i >= CeilDiv(stop - start, step) => Center(start, stop, step, i) = stop
           /\ i < CeilDiv(stop - start, step) =>
                  /\ Center(start, stop, step, i) < stop
                  /\ Center(start, stop, step, i) < Center(start, stop, step, i + 1)
           /\ Center(start, stop, step, i + 1) - Center(start, stop, step, i) <= step
           /\ Center(start, stop, step, i) \in start..stop
<1> DEFINE n == CeilDiv(stop - start, step)
<1>1. n \in Nat /\ stop - start <= n * step /\ n * step < stop - start + step
  BY CeilDivReaches
<1> HIDE DEF n
<1>2. i * step \in Nat /\ (i + 1) * step = i * step + step
  OBVIOUS
<1>3. i >= n => i * step >= n * step
  <2>1. SUFFICES ASSUME i >= n PROVE i * step >= n * step
    OBVIOUS
  <2>2. i * step = n * step + (i - n) * step
    BY <1>1
  <2>3. (i - n) * step >= 0
    BY <1>1, <2>1
  <2>4. n * step \in Int /\ (i - n) * step \in Int
    BY <1>1
  <2> QED BY <1>2, <2>2, <2>3, <2>4
<1>4. i < n => i * step + step <= n * step
  <2>1. SUFFICES ASSUME i < n PROVE i * step + step <= n * step
    OBVIOUS
  <2>2. n * step = (i + 1) * step + (n - (i + 1)) * step
    BY <1>1
  <2>3. (n - (i + 1)) * step >= 0
    BY <1>1, <2>1
  <2>4. n * step \in Int /\ (n - (i + 1)) * step \in Int
    BY <1>1
  <2> QED BY <1>2, <2>2, <2>3, <2>4
<1>5. n * step \in Int
  BY <1>1
<1>6. i >= n => Center(start, stop, step, i) = stop
  BY <1>1, <1>2, <1>3, <1>5 DEF Center
<1>7. i < n => Center(start, stop, step, i) < stop
  BY <1>1, <1>2, <1>4, <1>5 DEF Center
<1>8. /\ i < n => Center(start, stop, step, i) < Center(start, stop, step, i + 1)
      /\ Center(start, stop, step, i + 1) - Center(start, stop, step, i) <= step
      /\ Center(start, stop, step, i) \in start..stop
  BY <1>2, <1>7 DEF Center
<1> QED BY <1>1, <1>6, <1>7, <1>8 DEF n

\* expand_centers is the closed form up to the end of the band, or nothing
\* when that is more than MAX_POINTS steps away: the loop gives up only
\* after MAX_POINTS + 1 centres.
LEMMA ExpandCenters ==
    ASSUME NEW start \in Int, NEW stop \in Int, NEW step \in Nat \ {0}, start <= stop
    PROVE  /\ CeilDiv(stop - start, step) \in Nat
           /\ expand_centers(start, stop, step) =
                  IF CeilDiv(stop - start, step) > MAX_POINTS THEN <<>>
                  ELSE [i \in 1..(CeilDiv(stop - start, step) + 1) |->
                           Center(start, stop, step, i - 1)]
<1> DEFINE center[i \in 0..MAX_POINTS] ==
               IF i = 0 THEN start ELSE Min({center[i - 1] + step, stop})
           ends == {i \in 0..MAX_POINTS : center[i] = stop}
           n == CeilDiv(stop - start, step)
<1>1. \A i \in 0..MAX_POINTS : center[i] = Center(start, stop, step, i)
  BY CenterIs
<1>2. expand_centers(start, stop, step) =
          IF start > stop \/ step = 0 \/ ends = {}
          THEN <<>> ELSE [i \in 1..(Min(ends) + 1) |-> center[i - 1]]
  BY DEF expand_centers
<1>3. MAX_POINTS \in Nat
  BY SurveyAssumption
<1>4. /\ n \in Nat
      /\ \A i \in Nat : Center(start, stop, step, i) = stop <=> i >= n
  <2>1. \A i \in Nat :
            /\ n \in Nat
            /\ i >= n => Center(start, stop, step, i) = stop
            /\ i < n => /\ Center(start, stop, step, i) < stop
                        /\ Center(start, stop, step, i) \in start..stop
    <3> TAKE i \in Nat
    <3> QED BY CenterReaches
  <2>2. n \in Nat
    BY <2>1
  <2> QED BY <2>1, <2>2
<1> HIDE DEF center, n
<1>5. ends = {i \in 0..MAX_POINTS : i >= n}
  BY <1>1, <1>3, <1>4
<1> HIDE DEF ends
<1> SUFFICES /\ n \in Nat
             /\ expand_centers(start, stop, step) =
                    IF n > MAX_POINTS THEN <<>>
                    ELSE [i \in 1..(n + 1) |-> Center(start, stop, step, i - 1)]
  BY DEF n
<1>6. CASE n > MAX_POINTS
  <2>1. ends = {}
    BY <1>3, <1>4, <1>5, <1>6
  <2> QED BY <1>2, <1>4, <1>6, <2>1
<1>7. CASE n <= MAX_POINTS
  <2>1. ends \subseteq Nat /\ n \in ends
    BY <1>3, <1>4, <1>5, <1>7
  <2>2. Min(ends) = n
    BY <1>4, <1>5, <2>1, MinOfNats
  <2>3. expand_centers(start, stop, step) = [i \in 1..(n + 1) |-> center[i - 1]]
    BY <1>2, <2>1, <2>2
  <2>4. \A i \in 1..(n + 1) :
            i - 1 \in 0..MAX_POINTS /\ center[i - 1] = Center(start, stop, step, i - 1)
    BY <1>1, <1>3, <1>4, <1>7
  <2>5. [i \in 1..(n + 1) |-> center[i - 1]] =
            [i \in 1..(n + 1) |-> Center(start, stop, step, i - 1)]
    BY <2>4
  <2>6. ~(n > MAX_POINTS)
    BY <1>3, <1>4, <1>7
  <2> QED BY <1>4, <2>3, <2>5, <2>6, Zenon
<1> QED BY <1>3, <1>4, <1>6, <1>7

\* Whatever the fields of a survey, its centres are a sequence, and one that
\* is not empty runs from the start of the band to its end.
LEMMA CentersAreSequence ==
    ASSUME NEW start \in Nat, NEW stop \in Nat, NEW step \in Nat
    PROVE  LET s == expand_centers(start, stop, step)
           IN  /\ s \in Seq(Int)
               /\ s # <<>> => s[1] = start /\ s[Len(s)] = stop
<1>1. CASE start > stop \/ step = 0
  <2>1. expand_centers(start, stop, step) = <<>>
    BY <1>1 DEF expand_centers
  <2> QED BY <2>1
<1>2. CASE start <= stop /\ step # 0
  <2> DEFINE n == CeilDiv(stop - start, step)
             s == expand_centers(start, stop, step)
  <2>0. start \in Int /\ stop \in Int /\ step \in Nat \ {0} /\ start <= stop
    BY <1>2
  <2>1. /\ n \in Nat
        /\ s = IF n > MAX_POINTS THEN <<>>
               ELSE [i \in 1..(n + 1) |-> Center(start, stop, step, i - 1)]
    BY <2>0, ExpandCenters
  <2>2. \A i \in Nat : Center(start, stop, step, i) \in Int
    BY <2>0 DEF Center
  <2>3. Center(start, stop, step, n) = stop
    <3>1. \A i \in Nat : i >= n => Center(start, stop, step, i) = stop
      BY <2>0, CenterReaches
    <3> HIDE DEF n
    <3> QED BY <2>1, <3>1
  <2>4. Center(start, stop, step, 0) = start
    BY <2>0 DEF Center
  <2> HIDE DEF n, s
  <2>5. ASSUME ~(n > MAX_POINTS)
        PROVE  s \in Seq(Int) /\ Len(s) = n + 1 /\ s[1] = start /\ s[n + 1] = stop
    <3>1. s = [i \in 1..(n + 1) |-> Center(start, stop, step, i - 1)]
      BY <2>1, <2>5
    <3>2. \A i \in 1..(n + 1) : i - 1 \in Nat
      BY <2>1
    <3>3. n + 1 \in Nat /\ 1 \in 1..(n + 1) /\ n + 1 \in 1..(n + 1) /\ (n + 1) - 1 = n
      BY <2>1
    <3>4. s \in [1..(n + 1) -> Int]
      BY <2>2, <3>1, <3>2
    <3>5. Len(s) = n + 1 /\ s \in Seq(Int)
      BY <3>3, <3>4
    <3>6. s[1] = Center(start, stop, step, 0)
      BY <3>1, <3>3
    <3>7. s[n + 1] = Center(start, stop, step, n)
      BY <3>1, <3>3
    <3> QED BY <2>3, <2>4, <3>5, <3>6, <3>7
  <2>6. s \in Seq(Int) /\ (s # <<>> => s[1] = start /\ s[Len(s)] = stop)
    BY <2>1, <2>5
  <2> QED BY <2>6 DEF s
<1> QED BY <1>1, <1>2

\* The centres of a band at most MAX_POINTS - 1 steps wide: as many as
\* point_count says, ascending, in the band, at most a step apart.
LEMMA CentersOfBand ==
    ASSUME NEW start \in Nat, NEW stop \in Nat, NEW step \in Nat \ {0}, start <= stop,
           CeilDiv(stop - start, step) + 1 <= MAX_POINTS
    PROVE  LET s == expand_centers(start, stop, step)
               n == CeilDiv(stop - start, step)
           IN  /\ n \in Nat
               /\ Len(s) = n + 1
               /\ DOMAIN s = 1..(n + 1)
               /\ \A i \in 1..(n + 1) : s[i] \in start..stop
               /\ \A i \in 1..n : s[i] < s[i + 1] /\ s[i + 1] - s[i] <= step
<1> DEFINE s == expand_centers(start, stop, step)
           n == CeilDiv(stop - start, step)
<1>1. n \in Nat /\ MAX_POINTS \in Nat
  BY CeilDivReaches, SurveyAssumption
<1>2. s = [i \in 1..(n + 1) |-> Center(start, stop, step, i - 1)]
  <2>1. s = IF n > MAX_POINTS THEN <<>>
            ELSE [i \in 1..(n + 1) |-> Center(start, stop, step, i - 1)]
    <3>1. start \in Int /\ stop \in Int
      OBVIOUS
    <3> QED BY <3>1, ExpandCenters, Zenon
  <2>2. n + 1 <= MAX_POINTS
    OBVIOUS
  <2> HIDE DEF s, n
  <2> QED BY <1>1, <2>1, <2>2
<1>3. \A i \in Nat :
          /\ i < n => Center(start, stop, step, i) < Center(start, stop, step, i + 1)
          /\ Center(start, stop, step, i + 1) - Center(start, stop, step, i) <= step
          /\ Center(start, stop, step, i) \in start..stop
  <2> TAKE i \in Nat
  <2>1. start \in Int /\ stop \in Int
    OBVIOUS
  <2> QED BY <2>1, CenterReaches
<1> HIDE DEF s, n
<1>4. DOMAIN s = 1..(n + 1) /\ \A i \in 1..(n + 1) : s[i] = Center(start, stop, step, i - 1)
  BY <1>2
<1>5. Len(s) = n + 1
  BY <1>1, <1>4
<1>6. \A i \in 1..(n + 1) : s[i] \in start..stop
  <2> TAKE i \in 1..(n + 1)
  <2>1. i - 1 \in Nat
    BY <1>1
  <2> QED BY <1>3, <1>4, <2>1
<1>7. \A i \in 1..n : s[i] < s[i + 1] /\ s[i + 1] - s[i] <= step
  <2> TAKE i \in 1..n
  <2>1. i - 1 \in Nat /\ i - 1 < n /\ (i - 1) + 1 = i /\ (i + 1) - 1 = i
        /\ i \in 1..(n + 1) /\ i + 1 \in 1..(n + 1)
    BY <1>1
  <2>2. s[i] = Center(start, stop, step, i - 1) /\ s[i + 1] = Center(start, stop, step, i)
    BY <1>4, <2>1
  <2>3. /\ Center(start, stop, step, i - 1) < Center(start, stop, step, (i - 1) + 1)
        /\ Center(start, stop, step, (i - 1) + 1) - Center(start, stop, step, i - 1) <= step
    BY <1>3, <2>1
  <2> QED BY <2>1, <2>2, <2>3
<1> QED BY <1>1, <1>4, <1>5, <1>6, <1>7 DEF s, n

-----------------------------------------------------------------------------
(* The limits of the policy, the web console and the engine.               *)

\* The engine's verdict on a survey, when its dwell and the time of its points
\* are all there is to refuse; the policy's timeout is never to blame.
Refusable(a, timeout) ==
    LET proposed == SweepPlan(a, timeout)
        time == (a.dwell + timeout) * Len(proposed.centers)
    IN  /\ validate_plan(proposed) <=> a.dwell <= MAX_SETTLE_MS /\ time <= MAX_DURATION_MS
        /\ timeout <= SURVEY_POINT_TIMEOUT_MS => time <= MAX_DURATION_MS
        /\ Len(proposed.centers) = point_count(a)

\* A survey inside the radio's limits, with windows that overlap and within
\* the points and the time of a survey, is refused by the engine for its
\* dwell or for a longer timeout only, and has the points that point_count
\* says.
LEMMA EnginePlan ==
    ASSUME NEW a, a.kind = "survey", NEW timeout \in 1..MAX_POINT_TIMEOUT_MS,
           {a.start, a.stop, a.step, a.rate, a.bandwidth, a.dwell} \subseteq Nat,
           {a.start, a.stop} \subseteq MinHz..MaxHz, a.start <= a.stop, a.step # 0,
           a.rate \in MinRate..MaxRate, a.bandwidth \in MinBandwidth..MaxBandwidth,
           a.bandwidth <= a.rate, a.step <= (a.bandwidth * 4) \div 5,
           point_count(a) <= MAX_POINTS,
           point_count(a) * (a.dwell + SURVEY_POINT_TIMEOUT_MS) <= MAX_DURATION_MS
    PROVE  Refusable(a, timeout)
<1> DEFINE n == CeilDiv(a.stop - a.start, a.step)
           s == expand_centers(a.start, a.stop, a.step)
           gap == (a.bandwidth * 4) \div 5
           proposed == SweepPlan(a, timeout)
<1>1. /\ MAX_POINTS \in Nat /\ MinHz \in Nat /\ MaxHz \in Nat /\ timeout \in Nat
      /\ SURVEY_POINT_TIMEOUT_MS \in Nat /\ MAX_SETTLE_MS \in Nat
      /\ MAX_DURATION_MS \in Nat
  BY SurveyAssumption
<1>2. point_count(a) = n + 1
  BY DEF point_count
<1>3. /\ n \in Nat
      /\ Len(s) = n + 1
      /\ DOMAIN s = 1..(n + 1)
      /\ \A i \in 1..(n + 1) : s[i] \in a.start..a.stop
      /\ \A i \in 1..n : s[i] < s[i + 1] /\ s[i + 1] - s[i] <= a.step
  BY <1>2, CentersOfBand
<1>4. /\ proposed.centers = s /\ proposed.rate = a.rate
      /\ proposed.bandwidth = a.bandwidth /\ proposed.settle = a.dwell
      /\ proposed.timeout = timeout
  BY DEF SweepPlan
<1>5. gap \in Int /\ a.step <= gap
  OBVIOUS
<1> HIDE DEF n, s, gap, proposed
<1>6. Len(s) \in 1..MAX_POINTS /\ Len(s) - 1 = n
  BY <1>1, <1>2, <1>3
<1>7. \A i \in 1..(n + 1) : s[i] \in MinHz..MaxHz
  <2> TAKE i \in 1..(n + 1)
  <2>1. a.start \in MinHz..MaxHz /\ a.stop \in MinHz..MaxHz
    OBVIOUS
  <2>2. s[i] \in a.start..a.stop
    BY <1>3
  <2> QED BY <1>1, <2>1, <2>2
<1>8. Ascending(s)
  BY <1>3, <1>6 DEF Ascending
<1>9. \A i \in 1..n : s[i + 1] - s[i] <= gap
  <2> TAKE i \in 1..n
  <2>1. i \in 1..(n + 1) /\ i + 1 \in 1..(n + 1)
    BY <1>3
  <2>2. s[i] \in Int /\ s[i + 1] \in Int
    BY <1>3, <2>1
  <2> QED BY <1>3, <1>5, <2>2
<1>10. timeout <= SURVEY_POINT_TIMEOUT_MS => (a.dwell + timeout) * (n + 1) <= MAX_DURATION_MS
  <2> SUFFICES ASSUME timeout <= SURVEY_POINT_TIMEOUT_MS
               PROVE  (a.dwell + timeout) * (n + 1) <= MAX_DURATION_MS
    OBVIOUS
  <2> DEFINE x == a.dwell + timeout
             y == a.dwell + SURVEY_POINT_TIMEOUT_MS
             m == n + 1
  <2>0. a.dwell \in Nat /\ m * y <= MAX_DURATION_MS
    BY <1>2
  <2>1. x \in Nat /\ y \in Nat /\ m \in Nat /\ x <= y
    <3>1. m \in Nat
      BY <1>3
    <3> DEFINE d == a.dwell
    <3>2. d \in Nat
      BY <2>0
    <3> HIDE DEF d
    <3>3. d + timeout \in Nat /\ d + SURVEY_POINT_TIMEOUT_MS \in Nat
          /\ d + timeout <= d + SURVEY_POINT_TIMEOUT_MS
      BY <1>1, <3>2
    <3> QED BY <3>1, <3>3 DEF d
  <2> HIDE DEF x, y, m
  <2>2. x * m <= y * m /\ y * m = m * y /\ x * m \in Nat /\ y * m \in Nat
    BY <2>1
  <2>3. x * m <= MAX_DURATION_MS
    BY <1>1, <2>0, <2>2
  <2> QED BY <2>3 DEF x, m
<1>11. validate_plan(proposed) <=>
           a.dwell <= MAX_SETTLE_MS /\ (a.dwell + timeout) * (n + 1) <= MAX_DURATION_MS
  BY <1>3, <1>4, <1>6, <1>7, <1>8, <1>9 DEF validate_plan, gap
<1> QED BY <1>2, <1>3, <1>4, <1>10, <1>11 DEF Refusable, proposed

\* The same of a survey that the policy accepted.
LEMMA PolicySurvey ==
    ASSUME NEW a, a.kind = "survey", NEW timeout \in 1..MAX_POINT_TIMEOUT_MS,
           validate_limits, validate_survey(a),
           {a.start, a.stop, a.step, a.rate, a.bandwidth, a.dwell} \subseteq Nat
    PROVE  Refusable(a, timeout)
<1>1. /\ MinHz \in Nat /\ MaxHz \in Nat /\ MaxBandwidth \in Nat /\ MinBandwidth \in Nat
      /\ Limits.min_freq_hz \in Nat /\ Limits.max_freq_hz \in Nat
      /\ Limits.max_bandwidth_hz \in Nat
  BY SurveyAssumption
<1>2. /\ {a.start, a.stop} \subseteq MinHz..MaxHz /\ a.start <= a.stop /\ a.step # 0
      /\ a.rate \in MinRate..MaxRate /\ a.bandwidth \in MinBandwidth..MaxBandwidth
      /\ a.bandwidth <= a.rate /\ a.step <= (a.bandwidth * 4) \div 5
      /\ point_count(a) <= MAX_POINTS
      /\ point_count(a) * (a.dwell + SURVEY_POINT_TIMEOUT_MS) <= MAX_DURATION_MS
  BY <1>1 DEF validate_limits, validate_survey, validate_radio_profile, Frequency
<1> QED BY <1>2, EnginePlan

\* An inspection that the policy accepted is a plan the engine accepts.
LEMMA PolicyInspection ==
    ASSUME NEW a, NEW obs, a.kind = "inspect", NEW timeout \in 1..MAX_POINT_TIMEOUT_MS,
           validate_limits, validate_inspect(obs, a),
           {a.center, a.rate, a.bandwidth, a.dwell} \subseteq Nat
    PROVE  LET proposed == SweepPlan(a, timeout)
           IN  /\ validate_plan(proposed) /\ a.dwell <= MAX_SETTLE_MS
               /\ (a.dwell + timeout) * Len(proposed.centers) <= MAX_DURATION_MS
<1> DEFINE proposed == SweepPlan(a, timeout)
<1>1. /\ MinHz \in Nat /\ MaxHz \in Nat /\ MaxBandwidth \in Nat /\ MinBandwidth \in Nat
      /\ Limits.min_freq_hz \in Nat /\ Limits.max_freq_hz \in Nat
      /\ Limits.max_bandwidth_hz \in Nat /\ Limits.max_dwell_ms \in Nat
      /\ MAX_SETTLE_MS \in Nat /\ MAX_POINTS \in Nat \ {0}
      /\ MAX_POINT_TIMEOUT_MS \in Nat /\ MAX_DURATION_MS \in Nat
      /\ MAX_SETTLE_MS + MAX_POINT_TIMEOUT_MS <= MAX_DURATION_MS
  BY SurveyAssumption
<1>2. Min({Limits.max_dwell_ms, MAX_SETTLE_MS}) =
          IF Limits.max_dwell_ms <= MAX_SETTLE_MS THEN Limits.max_dwell_ms ELSE MAX_SETTLE_MS
  BY <1>1, MinOfTwo
<1>3. a.dwell <= MAX_SETTLE_MS
  BY <1>1, <1>2 DEF validate_inspect
<1>4. /\ a.center \in MinHz..MaxHz /\ a.rate \in MinRate..MaxRate
      /\ a.bandwidth \in MinBandwidth..MaxBandwidth /\ a.bandwidth <= a.rate
  BY <1>1 DEF validate_limits, validate_inspect, validate_radio_profile, Frequency
<1>5. /\ proposed.centers = <<a.center>> /\ proposed.rate = a.rate
      /\ proposed.bandwidth = a.bandwidth /\ proposed.settle = a.dwell
      /\ proposed.timeout = timeout
  BY DEF SweepPlan
<1> HIDE DEF proposed
<1>6. /\ Len(<<a.center>>) = 1 /\ DOMAIN <<a.center>> = 1..1 /\ <<a.center>>[1] = a.center
      /\ 1..(Len(<<a.center>>) - 1) = {}
  OBVIOUS
<1>7. (a.dwell + timeout) * 1 <= MAX_DURATION_MS
  BY <1>1, <1>3
<1>8. Ascending(<<a.center>>)
  BY <1>6 DEF Ascending
<1>9. 1 \in 1..MAX_POINTS /\ \A i \in 1..1 : i = 1
  BY <1>1
<1>10. validate_plan(proposed)
  BY <1>3, <1>4, <1>5, <1>6, <1>7, <1>8, <1>9 DEF validate_plan
<1> QED BY <1>3, <1>5, <1>6, <1>7, <1>10 DEF proposed

\* A survey of a new conversation, whose profile is four fifths overlapped
\* by the largest step the web console accepts.
LEMMA InitialSurvey ==
    ASSUME NEW a, NEW maxStep \in Nat, NEW timeout \in 1..MAX_POINT_TIMEOUT_MS,
           a.kind = "survey", a.bandwidth = a.rate,
           a.rate * 4 = maxStep * 5, validate_initial_survey(a, maxStep),
           {a.start, a.stop, a.step, a.rate, a.bandwidth, a.dwell} \subseteq Nat,
           maxStep % 4 = 0, (maxStep \div 4) * 5 \in MinRate..MaxRate,
           (maxStep \div 4) * 5 \in MinBandwidth..MaxBandwidth
    PROVE  Refusable(a, timeout)
<1>1. a.rate = (maxStep \div 4) * 5
  OBVIOUS
<1>2. (a.bandwidth * 4) \div 5 = maxStep
  OBVIOUS
<1>3. /\ {a.start, a.stop} \subseteq MinHz..MaxHz /\ a.start <= a.stop
      /\ a.step # 0 /\ a.step <= maxStep
      /\ point_count(a) <= MAX_POINTS
      /\ point_count(a) * (a.dwell + SURVEY_POINT_TIMEOUT_MS) <= MAX_DURATION_MS
  BY DEF validate_initial_survey
<1>4. a.bandwidth <= a.rate
  OBVIOUS
<1> QED BY <1>1, <1>2, <1>3, <1>4, EnginePlan

-----------------------------------------------------------------------------
(* The windows of a finished survey.                                       *)

\* Points within the tolerance of the centres of a valid plan leave no
\* frequency between the first centre and the last one out: such a frequency
\* is at most half a step from a centre, and ten times the tolerance fits
\* into a window of which a step is at most four fifths.
LEMMA WindowsCover ==
    ASSUME NEW p, validate_plan(p), p.centers \in Seq(Int),
           NEW actual, \A i \in 1..Len(p.centers) :
                           actual[i] \in Int /\ Distance(actual[i], p.centers[i]) <= Tolerance,
           NEW f \in p.centers[1]..p.centers[Len(p.centers)]
    PROVE  \E i \in 1..Len(p.centers) : 2 * Distance(actual[i], f) <= p.bandwidth
<1> DEFINE c == p.centers
           n == Len(p.centers)
           T == {i \in 1..n : f <= c[i]}
           gap == (p.bandwidth * 4) \div 5
<1>1. /\ Tolerance \in Nat /\ MinBandwidth \in Nat /\ MaxBandwidth \in Nat
      /\ MinBandwidth >= 10 * Tolerance /\ MAX_POINTS \in Nat
  BY SurveyAssumption
<1>2. /\ n \in Nat /\ n >= 1 /\ p.bandwidth \in Nat /\ p.bandwidth >= 10 * Tolerance
      /\ \A i \in 1..(n - 1) : c[i + 1] - c[i] <= gap
  BY <1>1 DEF validate_plan
<1>3. gap \in Int /\ 5 * gap <= 4 * p.bandwidth
  BY <1>2
<1>4. \A i \in 1..n : c[i] \in Int
  OBVIOUS
<1>5. T \subseteq Nat /\ n \in T /\ f \in Int
  BY <1>2, <1>4
<1>6. PICK i \in T : \A m \in T : i <= m
  BY <1>5, LeastNumber
<1> HIDE DEF c, gap
<1>7. CASE i = 1
  <2>1. f = c[1]
    BY <1>2, <1>4, <1>6, <1>7 DEF c
  <2>2. 1 \in 1..n /\ actual[1] \in Int /\ Distance(actual[1], c[1]) <= Tolerance
    BY <1>2 DEF c
  <2>3. 2 * Distance(actual[1], f) <= p.bandwidth
    BY <1>1, <1>2, <1>4, <2>1, <2>2 DEF Distance
  <2> QED BY <2>2, <2>3
<1>8. CASE i # 1
  <2>1. i \in 1..n /\ i - 1 \in 1..n /\ i - 1 \in 1..(n - 1) /\ (i - 1) + 1 = i
    BY <1>2, <1>6, <1>8
  <2>2. i - 1 \notin T
    BY <1>2, <1>6, <2>1
  <2>3. c[i - 1] < f /\ f <= c[i] /\ c[i] - c[i - 1] <= gap
    BY <1>2, <1>4, <1>5, <1>6, <2>1, <2>2
  <2>4. /\ c[i] \in Int /\ c[i - 1] \in Int
        /\ actual[i] \in Int /\ actual[i - 1] \in Int
        /\ Distance(actual[i], c[i]) <= Tolerance
        /\ Distance(actual[i - 1], c[i - 1]) <= Tolerance
    BY <1>4, <2>1 DEF c
  <2> DEFINE u == c[i - 1]
             v == c[i]
             x == actual[i - 1]
             y == actual[i]
  <2>5. 2 * Distance(x, f) <= p.bandwidth \/ 2 * Distance(y, f) <= p.bandwidth
    <3>1. /\ u \in Int /\ v \in Int /\ x \in Int /\ y \in Int
          /\ u < f /\ f <= v /\ v - u <= gap
          /\ Distance(y, v) <= Tolerance /\ Distance(x, u) <= Tolerance
      BY <2>3, <2>4
    <3> HIDE DEF u, v, x, y
    <3> QED BY <1>1, <1>2, <1>3, <1>5, <3>1 DEF Distance
  <2> QED BY <2>1, <2>5
<1> QED BY <1>7, <1>8

-----------------------------------------------------------------------------
(* The noise floor and the strongest point.                                *)

\* Of finitely many integers one is least.
LEMMA LeastValue ==
    ASSUME NEW n \in Nat, NEW f, \A i \in 1..n : f[i] \in Int,
           NEW T, T \subseteq 1..n, T # {}
    PROVE  \E i \in T : \A j \in T : f[i] <= f[j]
<1> DEFINE Least(k) == (\E i \in T : i <= k) =>
                           \E i \in T : i <= k /\ \A j \in T : j <= k => f[i] <= f[j]
           Bad == {k \in 0..n : ~Least(k)}
<1>1. \A j \in T : j \in Int /\ 1 <= j /\ j <= n /\ f[j] \in Int
  <2> TAKE j \in T
  <2>1. j \in 1..n
    BY Zenon
  <2> QED BY <2>1
<1>2. PICK t \in T : TRUE
  BY Zenon
<1>3. SUFFICES ASSUME Bad # {} PROVE FALSE
  <2>1. Bad = {} => Least(n)
    <3> HIDE DEF Least
    <3>1. n \in 0..n
      OBVIOUS
    <3> QED BY <3>1
  <2> QED BY <1>1, <1>2, <2>1
<1>4. Bad \subseteq Nat
  OBVIOUS
<1>5. PICK k \in Bad : \A m \in Bad : k <= m
  BY <1>3, <1>4, LeastNumber
<1>6. k \in 0..n /\ ~Least(k)
  BY <1>5
<1>7. k # 0
  BY <1>1, <1>6
<1>8. k \in 1..n /\ k - 1 \in 0..n /\ ~(k <= k - 1)
  BY <1>6, <1>7
<1>9. Least(k - 1)
  <2>1. k - 1 \notin Bad
    BY <1>5, <1>8
  <2> HIDE DEF Least
  <2> QED BY <1>8, <2>1
<1>10. k \in T
  BY <1>1, <1>6, <1>8, <1>9
<1>11. CASE \E i \in T : i <= k - 1
  <2>1. PICK i \in T : i <= k - 1 /\ \A j \in T : j <= k - 1 => f[i] <= f[j]
    BY <1>9, <1>11
  <2>2. \A j \in T : j <= k => j = k \/ j <= k - 1
    BY <1>1, <1>8
  <2>3. i <= k /\ f[i] \in Int /\ f[k] \in Int /\ \A j \in T : f[j] \in Int
    BY <1>1, <1>8, <1>10, <2>1
  <2>4. CASE f[i] <= f[k]
    <3>1. \A j \in T : j <= k => f[i] <= f[j]
      BY <2>1, <2>2, <2>4
    <3> QED BY <1>6, <2>3, <3>1
  <2>5. CASE f[k] <= f[i]
    <3>1. \A j \in T : j <= k => f[k] <= f[j]
      BY <2>1, <2>2, <2>3, <2>5
    <3> QED BY <1>1, <1>6, <1>8, <1>10, <3>1
  <2> QED BY <2>3, <2>4, <2>5
<1>12. CASE ~ \E i \in T : i <= k - 1
  <2>1. \A j \in T : j <= k => j = k /\ f[k] <= f[j]
    BY <1>1, <1>8, <1>12
  <2> QED BY <1>1, <1>6, <1>8, <1>10, <2>1
<1> QED BY <1>11, <1>12

\* And one is greatest.
LEMMA GreatestValue ==
    ASSUME NEW n \in Nat, NEW f, \A i \in 1..n : f[i] \in Int,
           NEW T, T \subseteq 1..n, T # {}
    PROVE  \E i \in T : \A j \in T : f[j] <= f[i]
<1> DEFINE g == [i \in 1..n |-> 0 - f[i]]
<1>1. \A i \in 1..n : g[i] \in Int /\ g[i] = 0 - f[i]
  OBVIOUS
<1> HIDE DEF g
<1>2. PICK i \in T : \A j \in T : g[i] <= g[j]
  BY <1>1, LeastValue
<1>3. \A j \in T : f[j] <= f[i]
  <2> TAKE j \in T
  <2>1. f[i] \in Int /\ f[j] \in Int /\ g[i] = 0 - f[i] /\ g[j] = 0 - f[j] /\ g[i] <= g[j]
    BY <1>1, <1>2
  <2> QED BY <2>1
<1> QED BY <1>3

\* Max of a set of integers that has a greatest element.
LEMMA MaxIs ==
    ASSUME NEW T, T \subseteq Int, NEW x \in T, \A y \in T : y <= x
    PROVE  Max(T) = x
<1>1. \E z \in T : \A y \in T : z >= y
  OBVIOUS
<1>2. Max(T) \in T /\ \A y \in T : Max(T) >= y
  BY <1>1 DEF Max
<1>3. Max(T) >= x /\ x >= Max(T) /\ Max(T) \in Int /\ x \in Int
  BY <1>2
<1> QED BY <1>3

\* The greater of two integers, Rust's max.
LEMMA MaxOfTwo ==
    ASSUME NEW a \in Int, NEW b \in Int
    PROVE  Max({a, b}) = IF a >= b THEN a ELSE b
<1>1. a >= b => Max({a, b}) = a
  BY MaxIs
<1>2. ~(a >= b) => Max({a, b}) = b
  BY MaxIs
<1> QED BY <1>1, <1>2

\* The points of a sweep, as far as their powers go.
Powered(points) == /\ Len(points) \in Nat
                   /\ DOMAIN points = 1..Len(points)
                   /\ \A i \in 1..Len(points) : points[i].power \in Int

\* The median is the power of a point, and at most half of the points lie
\* under it: there is such a value, the least with more than half of the
\* points up to it.
LEMMA MedianIs ==
    ASSUME NEW points, Powered(points), Len(points) # 0
    PROVE  LET noise == median_power_dbfs(points)
               middle == Len(points) \div 2
           IN  /\ noise \in Int
               /\ \E i \in 1..Len(points) : points[i].power = noise
               /\ Cardinality({i \in DOMAIN points : points[i].power < noise}) <= middle
               /\ middle < Cardinality({i \in DOMAIN points : points[i].power <= noise})
<1> DEFINE n == Len(points)
           f == [i \in 1..n |-> points[i].power]
           Under(x) == {i \in DOMAIN points : points[i].power < x}
           Upto(x)  == {i \in DOMAIN points : points[i].power <= x}
           Below(x) == Cardinality(Under(x))
           UpTo(x)  == Cardinality(Upto(x))
           middle   == n \div 2
           G == {i \in 1..n : middle < UpTo(f[i])}
<1>1. /\ n \in Nat /\ n # 0 /\ DOMAIN points = 1..n
      /\ \A i \in 1..n : f[i] = points[i].power /\ f[i] \in Int
  BY DEF Powered
<1>2. middle \in Nat /\ middle < n
  <2> HIDE DEF n
  <2> QED BY <1>1
<1>3. \A x : Below(x) \in Nat /\ UpTo(x) \in Nat
  <2> TAKE x
  <2>1. IsFiniteSet(1..n)
    BY <1>1, FS_Interval
  <2>2. Under(x) \in SUBSET (1..n) /\ Upto(x) \in SUBSET (1..n)
    BY <1>1
  <2> HIDE DEF Under, Upto
  <2>3. IsFiniteSet(Under(x)) /\ IsFiniteSet(Upto(x))
    BY <2>1, <2>2, FS_Subset
  <2> QED BY <2>3, FS_CardinalityType
<1>4. G # {}
  <2>1. 1..n # {} /\ 1..n \subseteq 1..n
    BY <1>1
  <2>2. PICK k \in 1..n : \A j \in 1..n : f[j] <= f[k]
    <3> HIDE DEF n, f
    <3> QED BY <1>1, <2>1, GreatestValue
  <2>3. Upto(f[k]) = 1..n
    BY <1>1, <2>2
  <2>4. UpTo(f[k]) = n
    <3> HIDE DEF Upto, n
    <3> QED BY <1>1, <2>3, FS_Interval
  <2> QED BY <1>2, <2>2, <2>4
<1>5. PICK i \in G : \A j \in G : f[i] <= f[j]
  <2>1. G \subseteq 1..n
    OBVIOUS
  <2> HIDE DEF G, f, n
  <2> QED BY <1>1, <1>4, <2>1, LeastValue
<1>6. Below(f[i]) <= middle
  <2> SUFFICES ASSUME ~(Below(f[i]) <= middle) PROVE FALSE
    OBVIOUS
  <2> DEFINE B == {j \in 1..n : f[j] < f[i]}
  <2>1. Under(f[i]) = B
    BY <1>1
  <2>2. Cardinality(B) > middle
    <3> HIDE DEF Under, B, middle, f
    <3> QED BY <1>2, <1>3, <2>1
  <2>3. B # {}
    <3> HIDE DEF B, middle
    <3>1. B = {} => Cardinality(B) = 0
      BY FS_EmptySet, Zenon
    <3> QED BY <1>2, <2>2, <3>1
  <2>4. PICK k \in B : \A j \in B : f[j] <= f[k]
    <3>1. B \subseteq 1..n
      OBVIOUS
    <3> HIDE DEF B, f, n
    <3> QED BY <1>1, <2>3, <3>1, GreatestValue
  <2>5. Upto(f[k]) = B
    <3>1. \A j \in 1..n : points[j].power <= f[k] <=> j \in B
      <4> TAKE j \in 1..n
      <4>1. /\ f[j] \in Int /\ f[k] \in Int /\ f[i] \in Int /\ f[k] < f[i]
            /\ points[j].power = f[j]
        BY <1>1, <1>5, <2>4
      <4>2. j \in B => f[j] <= f[k]
        BY <2>4
      <4>3. j \in B <=> f[j] < f[i]
        OBVIOUS
      <4> HIDE DEF B, f, n
      <4> QED BY <4>1, <4>2, <4>3
    <3> QED BY <1>1, <3>1
  <2>6. k \in G /\ f[k] < f[i]
    BY <1>1, <2>2, <2>4, <2>5
  <2>7. f[k] \in Int /\ f[i] \in Int /\ f[i] <= f[k]
    BY <1>1, <1>5, <2>6
  <2> QED BY <2>6, <2>7
<1>7. f[i] \in {points[j].power : j \in DOMAIN points} /\ middle < UpTo(f[i])
  BY <1>1, <1>5
<1>8. median_power_dbfs(points) =
          CHOOSE x \in {points[j].power : j \in DOMAIN points} :
              Below(x) <= middle /\ middle < UpTo(x)
  BY DEF median_power_dbfs
<1>9. /\ median_power_dbfs(points) \in {points[j].power : j \in DOMAIN points}
      /\ Below(median_power_dbfs(points)) <= middle
      /\ middle < UpTo(median_power_dbfs(points))
  <2> HIDE DEF Below, UpTo, middle, f
  <2> QED BY <1>6, <1>7, <1>8, Zenon
<1> QED BY <1>1, <1>9

\* Fewer than half of the points are above the floor.
LEMMA FewActive ==
    ASSUME NEW points, Powered(points), Len(points) # 0
    PROVE  LET active == Active(points, median_power_dbfs(points))
           IN  /\ active \subseteq 1..Len(points)
               /\ 2 * Cardinality(active) < Len(points)
<1> DEFINE n == Len(points)
           noise == median_power_dbfs(points)
           active == Active(points, noise)
           quiet == {i \in DOMAIN points : points[i].power <= noise}
<1>1. /\ n \in Nat /\ n # 0 /\ DOMAIN points = 1..n
      /\ \A i \in 1..n : points[i].power \in Int
  BY DEF Powered
<1>2. noise \in Int /\ n \div 2 < Cardinality(quiet)
  BY MedianIs
<1>3. Threshold \in Nat /\ Threshold # 0
  BY SurveyAssumption
<1> HIDE DEF noise
<1>4. active \subseteq 1..n /\ quiet \subseteq 1..n
  BY <1>1 DEF Active
<1>5. active \cap quiet = {}
  BY <1>1, <1>2, <1>3 DEF Active
<1> HIDE DEF active, quiet, n
<1>6. IsFiniteSet(1..n) /\ Cardinality(1..n) = n
  BY <1>1, FS_Interval
<1>7. /\ IsFiniteSet(active) /\ IsFiniteSet(quiet)
      /\ Cardinality(active) \in Nat /\ Cardinality(quiet) \in Nat
  <2>1. active \in SUBSET (1..n) /\ quiet \in SUBSET (1..n)
    BY <1>4
  <2>2. IsFiniteSet(active) /\ IsFiniteSet(quiet)
    BY <1>6, <2>1, FS_Subset
  <2> QED BY <2>2, FS_CardinalityType
<1>8. Cardinality(active \cup quiet) = Cardinality(active) + Cardinality(quiet)
  <2>1. Cardinality(active \cup quiet) =
            Cardinality(active) + Cardinality(quiet) - Cardinality(active \cap quiet)
    BY <1>7, FS_Union
  <2>2. Cardinality(active \cap quiet) = 0
    BY <1>5, FS_EmptySet
  <2> QED BY <1>7, <2>1, <2>2
<1>9. Cardinality(active \cup quiet) <= n
  <2>1. active \cup quiet \in SUBSET (1..n)
    BY <1>4
  <2> QED BY <1>6, <2>1, FS_Subset
<1>10. 2 * Cardinality(active) < n
  BY <1>1, <1>2, <1>7, <1>8, <1>9
<1> QED BY <1>4, <1>10 DEF active, noise, n

\* Peak is a point of its run, and none of the run is stronger.
LEMMA PeakIs ==
    ASSUME NEW points, Powered(points), NEW a \in Nat, NEW b \in Nat,
           1 <= a, a <= b, b <= Len(points)
    PROVE  /\ Peak(points, <<a, b>>) \in a..b
           /\ \A j \in a..b : points[j].power <= points[Peak(points, <<a, b>>)].power
<1> DEFINE n == Len(points)
           f == [i \in 1..n |-> points[i].power]
           S == {i \in a..b : \A j \in a..b : points[j].power <= points[i].power}
           T == {n - i : i \in S}
<1>1. n \in Nat /\ \A i \in 1..n : f[i] = points[i].power /\ f[i] \in Int
  BY DEF Powered
<1>2. a..b \subseteq 1..n /\ a..b # {}
  <2>1. a \in a..b
    OBVIOUS
  <2>2. \A x \in a..b : x \in 1..n
    <3> HIDE DEF n
    <3>1. b <= n
      BY DEF n
    <3> QED BY <1>1, <3>1
  <2> QED BY <2>1, <2>2, Zenon
<1>3. PICK i \in a..b : \A j \in a..b : f[j] <= f[i]
  <2> HIDE DEF f
  <2> QED BY <1>1, <1>2, GreatestValue
<1>4. i \in S
  BY <1>1, <1>2, <1>3
<1>5. T \subseteq Nat /\ T # {}
  BY <1>1, <1>2, <1>4
<1>6. PICK t \in T : \A u \in T : t <= u
  BY <1>5, LeastNumber
<1>7. PICK m \in S : t = n - m
  BY <1>6
<1>8. \A j \in S : j <= m
  <2> TAKE j \in S
  <2>1. n - j \in T
    OBVIOUS
  <2>2. j \in Int /\ m \in Int
    BY <1>7
  <2>3. n - m <= n - j
    <3> HIDE DEF S, T, n
    <3> QED BY <1>6, <1>7, <2>1
  <2> QED BY <1>1, <2>2, <2>3
<1>9. S \subseteq Int
  OBVIOUS
<1>10. Max(S) = m
  <2> HIDE DEF S
  <2> QED BY <1>7, <1>8, <1>9, MaxIs
<1>11. Peak(points, <<a, b>>) = Max(S)
  BY DEF Peak
<1> QED BY <1>7, <1>10, <1>11

-----------------------------------------------------------------------------
(* The runs of points above the floor.                                     *)

\* One turn of the loop of merge_candidates.
Extended(active, done, i) ==
    IF i \notin active THEN done
    ELSE IF i - 1 \in active
    THEN [done EXCEPT ![Len(done)][2] = i]
    ELSE Append(done, <<i, i>>)

\* The loop's recursion has a solution for every number of points: that for
\* one point less, extended by one turn.
LEMMA RangesExist ==
    ASSUME NEW n \in Nat, NEW active
    PROVE  \E r : r = [i \in 0..n |-> IF i = 0 THEN <<>> ELSE Extended(active, r[i - 1], i)]
<1> DEFINE Solves(r, k) ==
               r = [i \in 0..k |-> IF i = 0 THEN <<>> ELSE Extended(active, r[i - 1], i)]
           Bad == {k \in 0..n : ~ \E r : Solves(r, k)}
<1> SUFFICES ASSUME Bad # {} PROVE FALSE
  <2>1. n \in 0..n
    OBVIOUS
  <2>2. Bad = {} => \E r : Solves(r, n)
    <3> HIDE DEF Solves
    <3> QED BY <2>1
  <2> QED BY <2>2
<1>1. Bad \subseteq Nat
  OBVIOUS
<1>2. PICK k \in Bad : \A m \in Bad : k <= m
  BY <1>1, LeastNumber
<1>3. k \in 0..n /\ \A r : ~Solves(r, k)
  <2> HIDE DEF Solves
  <2> QED BY <1>2
<1>4. k # 0
  <2> SUFFICES ASSUME k = 0 PROVE FALSE
    OBVIOUS
  <2> DEFINE r == [i \in 0..0 |-> <<>>]
  <2>1. Solves(r, 0)
    OBVIOUS
  <2> QED BY <1>3, <2>1
<1>5. PICK r : Solves(r, k - 1)
  <2>1. k - 1 \in 0..n /\ k - 1 \notin Bad
    BY <1>2, <1>3, <1>4
  <2> HIDE DEF Solves
  <2> QED BY <2>1
<1> DEFINE s == [i \in 0..k |-> IF i = k THEN Extended(active, r[k - 1], k) ELSE r[i]]
<1>6. \A i \in 0..k : s[i] = IF i = 0 THEN <<>> ELSE Extended(active, s[i - 1], i)
  <2> TAKE i \in 0..k
  <2>1. CASE i = 0
    <3>1. r[0] = <<>>
      BY <1>3, <1>4, <1>5
    <3> QED BY <1>3, <1>4, <2>1, <3>1
  <2>2. CASE i = k
    BY <1>3, <1>4, <2>2
  <2>3. CASE i # 0 /\ i # k
    <3>1. i \in 0..(k - 1) /\ i - 1 \in 0..k /\ i - 1 # k
      BY <1>3, <1>4, <2>3
    <3>2. s[i] = r[i] /\ s[i - 1] = r[i - 1]
      BY <3>1, <2>3
    <3>3. r[i] = Extended(active, r[i - 1], i)
      BY <1>5, <2>3, <3>1
    <3> QED BY <2>3, <3>2, <3>3
  <2> QED BY <2>1, <2>2, <2>3
<1>7. Solves(s, k)
  <2>1. s = [i \in 0..k |-> s[i]]
    OBVIOUS
  <2> HIDE DEF s
  <2> QED BY <1>6, <2>1
<1> QED BY <1>3, <1>7

\* So ActiveRanges is where the turns of the loop lead.
LEMMA RangesAre ==
    ASSUME NEW points, NEW noise, Len(points) \in Nat
    PROVE  \E r : /\ r[0] = <<>>
                  /\ \A i \in 1..Len(points) :
                         r[i] = Extended(Active(points, noise), r[i - 1], i)
                  /\ ActiveRanges(points, noise) = r[Len(points)]
<1> DEFINE n == Len(points)
           active == Active(points, noise)
           ranges[i \in 0..n] ==
               IF i = 0 THEN <<>>
               ELSE LET done == ranges[i - 1]
                    IN  IF i \notin active THEN done
                        ELSE IF i - 1 \in active
                        THEN [done EXCEPT ![Len(done)][2] = i]
                        ELSE Append(done, <<i, i>>)
           Body(r) == [i \in 0..n |-> IF i = 0 THEN <<>> ELSE Extended(active, r[i - 1], i)]
<1>1. \E r : r = Body(r)
  BY RangesExist
<1>2. ranges = CHOOSE r : r = Body(r)
  BY DEF Extended
<1>3. ActiveRanges(points, noise) = ranges[n]
  BY DEF ActiveRanges
<1> HIDE DEF ranges
<1>4. ranges = Body(ranges)
  <2> HIDE DEF Body
  <2> QED BY <1>1, <1>2
<1>5. \A i \in 0..n : ranges[i] = IF i = 0 THEN <<>> ELSE Extended(active, ranges[i - 1], i)
  BY <1>4
<1>6. ranges[0] = <<>> /\ \A i \in 1..n : ranges[i] = Extended(active, ranges[i - 1], i)
  <2> HIDE DEF n, active
  <2>1. n \in Nat
    BY DEF n
  <2> QED BY <1>5, <2>1
<1> QED BY <1>3, <1>6

\* After i points: the ranges are runs of active points, apart from each
\* other, that no active point extends unless it is yet to come, and every
\* active point so far is in one of them.
Found(active, done, i) ==
    /\ done \in Seq(Nat \X Nat)
    /\ \A n \in 1..Len(done) :
           /\ 1 <= done[n][1] /\ done[n][1] <= done[n][2] /\ done[n][2] <= i
           /\ done[n][1]..done[n][2] \subseteq active
           /\ done[n][1] - 1 \notin active
           /\ done[n][2] + 1 \in active => n = Len(done) /\ done[n][2] = i
    /\ \A m, n \in 1..Len(done) : m < n => done[m][2] + 1 < done[n][1]
    /\ \A j \in active : j <= i => \E n \in 1..Len(done) : j \in done[n][1]..done[n][2]

\* One turn finds what there is up to the next point.
LEMMA FoundStep ==
    ASSUME NEW active, active \subseteq Nat \ {0}, NEW i \in Nat, NEW done, Found(active, done, i)
    PROVE  Found(active, Extended(active, done, i + 1), i + 1)
<1> DEFINE k == i + 1
           N == Len(done)
<1>1. /\ done \in Seq(Nat \X Nat) /\ N \in Nat
      /\ \A n \in 1..N : done[n][1] \in Nat /\ done[n][2] \in Nat
  <2>1. done \in Seq(Nat \X Nat)
    BY DEF Found
  <2>2. \A n \in 1..N : done[n] \in Nat \X Nat
    BY <2>1
  <2> QED BY <2>1, <2>2
<1>2. \A n \in 1..N :
           /\ 1 <= done[n][1] /\ done[n][1] <= done[n][2] /\ done[n][2] <= i
           /\ done[n][1]..done[n][2] \subseteq active
           /\ done[n][1] - 1 \notin active
           /\ done[n][2] + 1 \in active => n = N /\ done[n][2] = i
  BY DEF Found
<1>3. \A m, n \in 1..N : m < n => done[m][2] + 1 < done[n][1]
  BY DEF Found
<1>4. \A j \in active : j <= i => \E n \in 1..N : j \in done[n][1]..done[n][2]
  BY DEF Found
<1>5. \A j \in active : j \in Nat /\ (j <= k => j <= i \/ j = k)
  OBVIOUS
<1>6. CASE k \notin active
  <2>1. Extended(active, done, k) = done
    BY <1>6 DEF Extended
  <2>2. \A n \in 1..N : done[n][2] <= k /\ done[n][2] + 1 \notin active
    BY <1>1, <1>2, <1>6
  <2>3. \A j \in active : j <= k => \E n \in 1..N : j \in done[n][1]..done[n][2]
    BY <1>4, <1>5, <1>6
  <2> HIDE DEF k
  <2>4. Found(active, done, k)
    BY <1>1, <1>2, <1>3, <2>2, <2>3 DEF Found
  <2> QED BY <2>1, <2>4 DEF k
<1>7. CASE k \in active /\ k - 1 \in active
  <2>1. PICK n \in 1..N : i \in done[n][1]..done[n][2]
    BY <1>4, <1>7
  <2>2. done[n][2] = i /\ n = N
    BY <1>1, <1>2, <1>7, <2>1
  <2> DEFINE last == <<done[N][1], k>>
             new == [done EXCEPT ![N] = last]
  <2>3. N \in 1..N /\ done[N][2] = i
    BY <2>1, <2>2
  <2>4. done[N] = <<done[N][1], done[N][2]>>
    <3>1. done[N] \in Nat \X Nat
      BY <1>1, <2>3
    <3> QED BY <3>1
  <2>5. [done[N] EXCEPT ![2] = k] = last
    <3> DEFINE a == done[N][1]
               b == done[N][2]
    <3> HIDE DEF a, b, k, N
    <3>1. done[N] = <<a, b>>
      BY <2>4 DEF a, b
    <3>2. [<<a, b>> EXCEPT ![2] = k] = <<a, k>>
      OBVIOUS
    <3> QED BY <3>1, <3>2 DEF a
  <2>6. Extended(active, done, k) = new
    <3>1. Extended(active, done, k) = [done EXCEPT ![N][2] = k]
      BY <1>7 DEF Extended
    <3>2. [done EXCEPT ![N][2] = k] = [done EXCEPT ![N] = [done[N] EXCEPT ![2] = k]]
      OBVIOUS
    <3> QED BY <2>5, <3>1, <3>2
  <2>7. /\ new \in Seq(Nat \X Nat) /\ Len(new) = N
        /\ new[N][1] = done[N][1] /\ new[N][2] = k
        /\ \A m \in 1..N : m # N => new[m] = done[m]
    <3>1. last \in Nat \X Nat /\ last[1] = done[N][1] /\ last[2] = k
      BY <1>1, <2>3
    <3> HIDE DEF last, k
    <3>2. new \in Seq(Nat \X Nat) /\ Len(new) = N /\ new[N] = last
      BY <1>1, <2>3, <3>1
    <3>3. \A m \in 1..N : m # N => new[m] = done[m]
      BY <1>1, <2>3
    <3> QED BY <3>1, <3>2, <3>3
  <2> HIDE DEF new, last
  <2>8. done[N][1]..k \subseteq active
    <3> SUFFICES ASSUME NEW j \in done[N][1]..k PROVE j \in active
      OBVIOUS
    <3>1. j = k \/ j \in done[N][1]..done[N][2]
      BY <1>1, <2>3
    <3>2. done[N][1]..done[N][2] \subseteq active
      BY <1>2, <2>3
    <3> QED BY <1>7, <3>1, <3>2
  <2>9. ASSUME NEW m \in 1..N
        PROVE  /\ 1 <= new[m][1] /\ new[m][1] <= new[m][2] /\ new[m][2] <= k
               /\ new[m][1]..new[m][2] \subseteq active
               /\ new[m][1] - 1 \notin active
               /\ new[m][2] + 1 \in active => m = N /\ new[m][2] = k
    <3>1. CASE m = N
      <4>1. 1 <= done[N][1] /\ done[N][1] <= k /\ done[N][1] - 1 \notin active
        BY <1>1, <1>2, <2>3
      <4> QED BY <2>7, <2>8, <3>1, <4>1
    <3>2. CASE m # N
      <4>1. new[m] = done[m]
        BY <2>7, <3>2
      <4>2. /\ 1 <= done[m][1] /\ done[m][1] <= done[m][2] /\ done[m][2] <= i
            /\ done[m][1]..done[m][2] \subseteq active
            /\ done[m][1] - 1 \notin active
            /\ done[m][2] + 1 \notin active
            /\ done[m][2] \in Nat
        BY <1>1, <1>2, <3>2
      <4>3. done[m][2] <= k
        BY <4>2
      <4> HIDE DEF k
      <4> QED BY <4>1, <4>2, <4>3
    <3> QED BY <3>1, <3>2
  <2>10. \A m, p \in 1..N : m < p => new[m][2] + 1 < new[p][1]
    <3> TAKE m, p \in 1..N
    <3> SUFFICES ASSUME m < p PROVE new[m][2] + 1 < new[p][1]
      OBVIOUS
    <3>1. m # N
      BY <1>1
    <3>2. new[m] = done[m] /\ new[p][1] = done[p][1]
      BY <2>7, <3>1
    <3> QED BY <1>3, <3>2
  <2>11. \A j \in active : j <= k => \E m \in 1..N : j \in new[m][1]..new[m][2]
    <3> TAKE j \in active
    <3> SUFFICES ASSUME j <= k PROVE \E m \in 1..N : j \in new[m][1]..new[m][2]
      OBVIOUS
    <3>1. j \in Nat /\ (j <= i \/ j = k)
      BY <1>5
    <3>2. CASE j = k
      <4>1. k \in done[N][1]..k
        <5>1. done[N][1] \in Nat /\ done[N][1] <= done[N][2]
          BY <1>1, <1>2, <2>3
        <5> HIDE DEF N
        <5> QED BY <2>3, <5>1
      <4> QED BY <2>3, <2>7, <3>2, <4>1
    <3>3. CASE j <= i
      <4>1. PICK m \in 1..N : j \in done[m][1]..done[m][2]
        BY <1>4, <3>3
      <4>2. CASE m = N
        <5>1. j \in done[N][1]..k
          BY <1>1, <2>3, <4>1, <4>2
        <5> QED BY <2>3, <2>7, <5>1
      <4>3. CASE m # N
        BY <2>7, <4>1, <4>3
      <4> QED BY <4>2, <4>3
    <3> QED BY <3>1, <3>2, <3>3
  <2> HIDE DEF k, N
  <2>12. Found(active, new, k)
    BY <2>7, <2>9, <2>10, <2>11 DEF Found
  <2> QED BY <2>6, <2>12 DEF k
<1>8. CASE k \in active /\ k - 1 \notin active
  <2> DEFINE new == Append(done, <<k, k>>)
  <2>1. Extended(active, done, k) = new
    BY <1>8 DEF Extended
  <2>2. /\ new \in Seq(Nat \X Nat) /\ Len(new) = N + 1
        /\ new[N + 1][1] = k /\ new[N + 1][2] = k
        /\ \A m \in 1..N : new[m] = done[m]
    <3>1. <<k, k>> \in Nat \X Nat /\ <<k, k>>[1] = k /\ <<k, k>>[2] = k
      OBVIOUS
    <3> HIDE DEF k
    <3> DEFINE last == <<k, k>>
    <3> HIDE DEF last
    <3>2. new = Append(done, last) /\ last \in Nat \X Nat /\ last[1] = k /\ last[2] = k
      BY <3>1 DEF last
    <3> HIDE DEF new
    <3>3. new \in Seq(Nat \X Nat) /\ Len(new) = N + 1 /\ new[N + 1] = last
      BY <1>1, <3>2
    <3>4. \A m \in 1..N : new[m] = done[m]
      BY <1>1, <3>2
    <3> QED BY <3>2, <3>3, <3>4
  <2> HIDE DEF new
  <2>3. \A m \in 1..(N + 1) : m \in 1..N \/ m = N + 1
    BY <1>1
  <2>4. \A m \in 1..N : done[m][2] < i /\ done[m][2] + 1 \notin active
    <3> TAKE m \in 1..N
    <3>1. done[m][2] \in active
      <4>1. done[m][2] \in done[m][1]..done[m][2]
        BY <1>1, <1>2
      <4> QED BY <1>2, <4>1
    <3>2. done[m][2] # i
      BY <1>8, <3>1
    <3> QED BY <1>1, <1>2, <3>2
  <2>5. ASSUME NEW m \in 1..(N + 1)
        PROVE  /\ 1 <= new[m][1] /\ new[m][1] <= new[m][2] /\ new[m][2] <= k
               /\ new[m][1]..new[m][2] \subseteq active
               /\ new[m][1] - 1 \notin active
               /\ new[m][2] + 1 \in active => m = N + 1 /\ new[m][2] = k
    <3>1. CASE m = N + 1
      <4>1. k..k \subseteq active /\ 1 <= k
        BY <1>8
      <4> HIDE DEF k
      <4> QED BY <1>8, <2>2, <3>1, <4>1
    <3>2. CASE m \in 1..N
      <4>1. new[m] = done[m]
        BY <2>2, <3>2
      <4>2. /\ 1 <= done[m][1] /\ done[m][1] <= done[m][2] /\ done[m][2] <= k
            /\ done[m][1]..done[m][2] \subseteq active
            /\ done[m][1] - 1 \notin active
            /\ done[m][2] + 1 \notin active
        BY <1>1, <1>2, <2>4, <3>2
      <4> HIDE DEF k
      <4> QED BY <4>1, <4>2
    <3> QED BY <2>3, <3>1, <3>2
  <2>6. \A m, p \in 1..(N + 1) : m < p => new[m][2] + 1 < new[p][1]
    <3> TAKE m, p \in 1..(N + 1)
    <3> SUFFICES ASSUME m < p PROVE new[m][2] + 1 < new[p][1]
      OBVIOUS
    <3>1. m \in 1..N
      BY <1>1
    <3>2. CASE p = N + 1
      <4>1. new[p][1] = k /\ new[m] = done[m] /\ done[m][2] < i /\ done[m][2] \in Nat
        BY <1>1, <2>2, <2>4, <3>1, <3>2
      <4> QED BY <4>1
    <3>3. CASE p \in 1..N
      BY <1>3, <2>2, <3>1, <3>3
    <3> QED BY <2>3, <3>2, <3>3
  <2>7. \A j \in active : j <= k => \E m \in 1..(N + 1) : j \in new[m][1]..new[m][2]
    <3> TAKE j \in active
    <3> SUFFICES ASSUME j <= k PROVE \E m \in 1..(N + 1) : j \in new[m][1]..new[m][2]
      OBVIOUS
    <3>1. j \in Nat /\ (j <= i \/ j = k) /\ N + 1 \in 1..(N + 1) /\ 1..N \subseteq 1..(N + 1)
      BY <1>1, <1>5
    <3>2. CASE j = k
      <4>1. k \in k..k
        OBVIOUS
      <4> QED BY <2>2, <3>1, <3>2, <4>1
    <3>3. CASE j <= i
      <4>1. PICK m \in 1..N : j \in done[m][1]..done[m][2]
        BY <1>4, <3>3
      <4> QED BY <2>2, <3>1, <4>1
    <3> QED BY <3>1, <3>2, <3>3
  <2> HIDE DEF k, N
  <2>8. Found(active, new, k)
    BY <2>2, <2>5, <2>6, <2>7 DEF Found
  <2> QED BY <2>1, <2>8 DEF k
<1> QED BY <1>6, <1>7, <1>8

\* What the loop has found after the last point.
LEMMA RangesFound ==
    ASSUME NEW points, NEW noise, Len(points) \in Nat, DOMAIN points = 1..Len(points)
    PROVE  Found(Active(points, noise), ActiveRanges(points, noise), Len(points))
<1> DEFINE n == Len(points)
           active == Active(points, noise)
<1>1. n \in Nat
  OBVIOUS
<1>2. PICK r : /\ r[0] = <<>>
               /\ \A i \in 1..n : r[i] = Extended(active, r[i - 1], i)
               /\ ActiveRanges(points, noise) = r[n]
  BY RangesAre
<1>3. active \subseteq Nat \ {0}
  BY <1>1 DEF Active
<1> HIDE DEF n, active
<1> DEFINE Bad == {i \in 0..n : ~Found(active, r[i], i)}
<1>4. Bad = {}
  <2> SUFFICES ASSUME Bad # {} PROVE FALSE
    OBVIOUS
  <2>1. Bad \subseteq Nat
    OBVIOUS
  <2>2. PICK i \in Bad : \A m \in Bad : i <= m
    BY <2>1, LeastNumber
  <2>3. i # 0
    <3>1. <<>> \in Seq(Nat \X Nat) /\ Len(<<>>) = 0 /\ 1..0 = {}
      OBVIOUS
    <3>2. \A j \in active : ~(j <= 0)
      BY <1>3
    <3>3. Found(active, <<>>, 0)
      BY <3>1, <3>2 DEF Found
    <3> QED BY <1>2, <2>2, <3>3
  <2>4. i \in 1..n /\ i - 1 \in Nat /\ i - 1 \in 0..n /\ (i - 1) + 1 = i
    BY <1>1, <2>2, <2>3
  <2>5. Found(active, r[i - 1], i - 1)
    BY <2>2, <2>4
  <2>6. Found(active, Extended(active, r[i - 1], (i - 1) + 1), (i - 1) + 1)
    BY <1>3, <2>4, <2>5, FoundStep
  <2>7. Found(active, r[i], i)
    BY <1>2, <2>4, <2>6
  <2> QED BY <2>2, <2>7
<1>5. n \in 0..n
  BY <1>1
<1> QED BY <1>2, <1>4, <1>5 DEF n, active

\* The ranges found are the maximal runs, in their order.
LEMMA RunsFound ==
    ASSUME NEW points, Len(points) \in Nat, DOMAIN points = 1..Len(points),
           NEW active, active \subseteq 1..Len(points),
           NEW ranges, Found(active, ranges, Len(points))
    PROVE  /\ Len(ranges) \in Nat /\ DOMAIN ranges = 1..Len(ranges)
           /\ Runs(points, active) = Range(ranges)
           /\ \A m, n \in 1..Len(ranges) : m < n => ranges[m][1] < ranges[n][1]
<1> DEFINE L == Len(points)
           N == Len(ranges)
<1>1. ranges \in Seq(Nat \X Nat) /\ N \in Nat /\ DOMAIN ranges = 1..N
  BY DEF Found
<1>2. \A n \in 1..N : ranges[n] \in Nat \X Nat /\ ranges[n][1] \in Nat /\ ranges[n][2] \in Nat
  <2>1. \A n \in 1..N : ranges[n] \in Nat \X Nat
    BY <1>1
  <2> QED BY <2>1
<1>3. \A n \in 1..N :
          /\ 1 <= ranges[n][1] /\ ranges[n][1] <= ranges[n][2] /\ ranges[n][2] <= L
          /\ ranges[n][1]..ranges[n][2] \subseteq active
          /\ ranges[n][1] - 1 \notin active
          /\ ranges[n][2] + 1 \in active => n = N /\ ranges[n][2] = L
  BY DEF Found
<1>4. \A m, n \in 1..N : m < n => ranges[m][2] + 1 < ranges[n][1]
  BY DEF Found
<1>5. \A j \in active : j <= L => \E n \in 1..N : j \in ranges[n][1]..ranges[n][2]
  BY DEF Found
<1>6. L \in Nat /\ \A j \in active : j \in Nat /\ j <= L
  OBVIOUS
<1> HIDE DEF L, N
<1>7. ASSUME NEW n \in 1..N PROVE ranges[n] \in Runs(points, active)
  <2> DEFINE a == ranges[n][1]
             b == ranges[n][2]
  <2>1. a \in Nat /\ b \in Nat /\ ranges[n] = <<a, b>>
    BY <1>2
  <2>2. /\ 1 <= a /\ a <= b /\ b <= L /\ a..b \subseteq active
        /\ a - 1 \notin active
    BY <1>3
  <2>3. b + 1 \notin active
    BY <1>2, <1>3, <1>6
  <2> HIDE DEF a, b
  <2>4. a \in DOMAIN points /\ b \in DOMAIN points
    BY <1>6, <2>1, <2>2 DEF L
  <2> QED BY <2>1, <2>2, <2>3, <2>4 DEF Runs
<1>8. ASSUME NEW r \in Runs(points, active) PROVE \E n \in 1..N : ranges[n] = r
  <2> DEFINE a == r[1]
             b == r[2]
  <2>1. /\ r \in (DOMAIN points) \X (DOMAIN points)
        /\ a <= b /\ a..b \subseteq active
        /\ a - 1 \notin active /\ b + 1 \notin active
    BY DEF Runs
  <2>2. r = <<a, b>> /\ a \in Nat /\ b \in Nat
    BY <2>1
  <2> HIDE DEF a, b
  <2>3. a \in a..b
    BY <2>1, <2>2
  <2>4. a \in active
    BY <2>1, <2>3
  <2>5. PICK n \in 1..N : a \in ranges[n][1]..ranges[n][2]
    BY <1>5, <1>6, <2>4
  <2> DEFINE u == ranges[n][1]
             v == ranges[n][2]
  <2>6. /\ u \in Nat /\ v \in Nat /\ ranges[n] = <<u, v>> /\ u <= a /\ a <= v
        /\ u..v \subseteq active /\ u - 1 \notin active /\ v + 1 \notin active
    <3>1. u \in Nat /\ v \in Nat /\ ranges[n] = <<u, v>>
      BY <1>2
    <3>2. u..v \subseteq active /\ u - 1 \notin active
      BY <1>3
    <3>3. v + 1 \notin active
      BY <1>2, <1>3, <1>6
    <3> QED BY <2>5, <3>1, <3>2, <3>3
  <2> HIDE DEF u, v
  <2>7. u = a
    <3> SUFFICES ASSUME u < a PROVE FALSE
      BY <2>2, <2>6
    <3>1. a - 1 \in u..v
      BY <2>2, <2>6
    <3> QED BY <2>1, <2>6, <3>1
  <2>8. v = b
    <3>1. ~(v < b)
      <4> SUFFICES ASSUME v < b PROVE FALSE
        OBVIOUS
      <4>1. v + 1 \in a..b
        BY <2>2, <2>6
      <4> QED BY <2>1, <2>6, <4>1
    <3>2. ~(b < v)
      <4> SUFFICES ASSUME b < v PROVE FALSE
        OBVIOUS
      <4>1. b + 1 \in u..v
        BY <2>1, <2>2, <2>6
      <4> QED BY <2>1, <2>6, <4>1
    <3> QED BY <2>2, <2>6, <3>1, <3>2
  <2> QED BY <2>2, <2>6, <2>7, <2>8
<1>9. \A m, n \in 1..N : m < n => ranges[m][1] < ranges[n][1]
  <2> TAKE m, n \in 1..N
  <2>1. /\ ranges[m][1] \in Nat /\ ranges[m][2] \in Nat /\ ranges[n][1] \in Nat
        /\ ranges[m][1] <= ranges[m][2]
        /\ m < n => ranges[m][2] + 1 < ranges[n][1]
    BY <1>2, <1>3, <1>4
  <2> QED BY <2>1
<1>10. Runs(points, active) = Range(ranges)
  <2>1. \A r \in Runs(points, active) : r \in Range(ranges)
    BY <1>1, <1>8 DEF Range
  <2>2. \A r \in Range(ranges) : r \in Runs(points, active)
    BY <1>1, <1>7 DEF Range
  <2> QED BY <2>1, <2>2
<1> QED BY <1>1, <1>9, <1>10 DEF N

\* When a sequence lists a set by ascending first component, the set has as
\* many elements, and its n-th element is the one with n elements up to it.
LEMMA ListedInOrder ==
    ASSUME NEW R, NEW s, R = Range(s), NEW N \in Nat, DOMAIN s = 1..N,
           \A n \in 1..N : s[n][1] \in Int,
           \A m, n \in 1..N : m < n => s[m][1] < s[n][1]
    PROVE  /\ Cardinality(R) = N
           /\ \A n \in 1..N : Nth(R, n) = s[n]
<1>0. (\A n \in 1..N : s[n] \in R) /\ \A r \in R : \E n \in 1..N : s[n] = r
  BY DEF Range
<1>1. \A m, n \in 1..N : s[m] = s[n] => m = n
  <2> TAKE m, n \in 1..N
  <2>1. m \in Int /\ n \in Int /\ s[m][1] \in Int /\ s[n][1] \in Int
    OBVIOUS
  <2>2. (m < n => s[m][1] < s[n][1]) /\ (n < m => s[n][1] < s[m][1])
    OBVIOUS
  <2> QED BY <2>1, <2>2
<1>2. ASSUME NEW k \in Nat, k <= N, NEW T, T = {s[m] : m \in 1..k}
      PROVE  Cardinality(T) = k
  <2> DEFINE f == [m \in 1..k |-> s[m]]
  <2>1. \A m \in 1..k : m \in 1..N
    BY <1>2
  <2>2. f \in [1..k -> T]
    BY <1>2
  <2>3. \A m, n \in 1..k : f[m] = f[n] => m = n
    BY <1>1, <2>1
  <2>4. \A t \in T : \E m \in 1..k : f[m] = t
    BY <1>2
  <2> HIDE DEF f
  <2>5. f \in Bijection(1..k, T)
    <3>1. IsInjective(f)
      BY <2>2, <2>3 DEF IsInjective
    <3>2. f \in Injection(1..k, T)
      BY <2>2, <3>1, Zenon DEF Injection
    <3>3. f \in Surjection(1..k, T)
      BY <2>2, <2>4, Zenon DEF Surjection
    <3> QED BY <3>2, <3>3, Zenon DEF Bijection
  <2>6. ExistsBijection(1..k, T)
    BY <2>5, Zenon DEF ExistsBijection
  <2>7. IsFiniteSet(1..k) /\ Cardinality(1..k) = k
    BY FS_Interval
  <2> QED BY <2>6, <2>7, FS_Bijection
<1>3. Cardinality(R) = N
  <2>1. R = {s[m] : m \in 1..N}
    BY <1>0
  <2> HIDE <2>1
  <2> QED BY <1>2, <2>1
<1> DEFINE UpTo(r) == {q \in R : q[1] <= r[1]}
<1>4. ASSUME NEW n \in 1..N PROVE Cardinality(UpTo(s[n])) = n
  <2>1. \A m \in 1..N : s[m][1] <= s[n][1] <=> m <= n
    <3> TAKE m \in 1..N
    <3>1. m \in Int /\ n \in Int /\ s[m][1] \in Int /\ s[n][1] \in Int
      OBVIOUS
    <3>2. /\ m < n => s[m][1] < s[n][1]
          /\ n < m => s[n][1] < s[m][1]
          /\ m = n => s[m][1] = s[n][1]
      OBVIOUS
    <3> QED BY <3>1, <3>2
  <2>2. \A m : m \in 1..n <=> m \in 1..N /\ m <= n
    OBVIOUS
  <2>3. UpTo(s[n]) = {s[m] : m \in 1..n}
    <3>1. \A q \in UpTo(s[n]) : \E m \in 1..n : q = s[m]
      BY <1>0, <2>1, <2>2
    <3>2. \A m \in 1..n : s[m] \in UpTo(s[n])
      BY <1>0, <2>1, <2>2
    <3> HIDE DEF UpTo
    <3> QED BY <3>1, <3>2
  <2>4. n \in Nat /\ n <= N
    OBVIOUS
  <2> HIDE DEF UpTo
  <2> QED BY <1>2, <2>3, <2>4
<1>5. ASSUME NEW n \in 1..N
      PROVE  (CHOOSE r \in R : Cardinality(UpTo(r)) = n) = s[n]
  <2> DEFINE c == CHOOSE r \in R : Cardinality(UpTo(r)) = n
  <2>1. s[n] \in R /\ Cardinality(UpTo(s[n])) = n
    BY <1>0, <1>4
  <2>2. c \in R /\ Cardinality(UpTo(c)) = n
    <3> HIDE DEF UpTo
    <3> QED BY <2>1
  <2> HIDE DEF c
  <2>3. PICK m \in 1..N : s[m] = c
    BY <1>0, <2>2
  <2>4. Cardinality(UpTo(c)) = m
    <3>1. Cardinality(UpTo(s[m])) = m
      BY <1>4
    <3> HIDE DEF UpTo
    <3> QED BY <2>3, <3>1
  <2>5. m = n
    BY <2>2, <2>4
  <2> QED BY <2>3, <2>5 DEF c
<1> QED BY <1>3, <1>5 DEF Nth

\* The median, the runs and the candidates of points that a sweep has taken.
Taken(p, points) ==
    /\ Len(points) \in 1..MAX_POINTS /\ DOMAIN points = 1..Len(points)
    /\ \A i \in 1..Len(points) :
           points[i].power \in Int /\ points[i].actual \in Int /\ points[i].center \in Int
    /\ \A i, j \in 1..Len(points) : i < j => points[i].center < points[j].center
    /\ \A i \in 1..Len(points) : Distance(points[i].actual, points[i].center) <= Tolerance
    /\ p.bandwidth \in MinBandwidth..MaxBandwidth

\* A candidate of the run a..b with its strongest point k.
MadeOf(c, p, points, noise, a, b, k) ==
    /\ a <= b /\ a..b \subseteq Active(points, noise)
    /\ k \in a..b /\ \A j \in a..b : points[j].power <= points[k].power
    /\ c.start = Max({points[a].actual - p.bandwidth \div 2, 0})
    /\ c.stop = points[b].actual + p.bandwidth \div 2
    /\ c.bandwidth = c.stop - c.start
    /\ c.center = points[k].actual
    /\ c.peak = points[k].power /\ c.snr = c.peak - noise
    /\ c.count = b - a + 1

\* Candidate n is made of the n-th run, and no more runs are looked at than
\* MAX_CANDIDATES.
LEMMA CandidateIs ==
    ASSUME NEW p, NEW points, Taken(p, points)
    PROVE  LET report == Report(p, points)
               runs == Runs(points, Active(points, report.noise))
           IN  /\ report.noise = median_power_dbfs(points) /\ report.noise \in Int
               /\ Len(report.candidates) = Min({Cardinality(runs), MAX_CANDIDATES})
               /\ Len(report.candidates) \in Nat /\ Len(report.candidates) <= MAX_CANDIDATES
               /\ DOMAIN report.candidates = 1..Len(report.candidates)
               /\ \A n \in DOMAIN report.candidates :
                      /\ report.candidates[n].id = n
                      /\ \E a, b, k \in 1..Len(points) :
                             /\ Nth(runs, n) = <<a, b>>
                             /\ MadeOf(report.candidates[n], p, points, report.noise, a, b, k)
<1> DEFINE noise == Report(p, points).noise
           cands == Report(p, points).candidates
           active == Active(points, noise)
           ranges == ActiveRanges(points, noise)
           runs == Runs(points, active)
           edge == p.bandwidth \div 2
           N == Len(ranges)
           Candidate(n) ==
               LET range == ranges[n]
                   peak  == points[Peak(points, range)]
                   start == Max({points[range[1]].actual - edge, 0})
                   stop  == points[range[2]].actual + edge
               IN  [id |-> n, start |-> start, stop |-> stop, center |-> peak.actual,
                    bandwidth |-> stop - start, peak |-> peak.power,
                    snr |-> peak.power - noise, count |-> range[2] - range[1] + 1]
<1>1. Powered(points) /\ Len(points) # 0 /\ Len(points) \in Nat /\ DOMAIN points = 1..Len(points)
  <2>1. MAX_POINTS \in Nat
    BY SurveyAssumption
  <2> QED BY <2>1 DEF Powered, Taken
<1>2. noise = median_power_dbfs(points) /\ noise \in Int
  <2>1. noise = median_power_dbfs(points)
    BY DEF Report
  <2> QED BY <1>1, <2>1, MedianIs
<1>3. active \subseteq 1..Len(points)
  BY <1>1, <1>2, FewActive
<1>4. Found(active, ranges, Len(points))
  BY <1>1, RangesFound
<1>5. cands = [n \in 1..Min({N, MAX_CANDIDATES}) |-> Candidate(n)]
  BY Zenon DEF Report, merge_candidates
<1> HIDE DEF noise, cands, active, ranges
<1>6. /\ N \in Nat /\ DOMAIN ranges = 1..N /\ runs = Range(ranges)
      /\ \A m, n \in 1..N : m < n => ranges[m][1] < ranges[n][1]
  BY <1>1, <1>3, <1>4, RunsFound
<1>7. \A n \in 1..N :
          /\ ranges[n][1] \in 1..Len(points) /\ ranges[n][2] \in 1..Len(points)
          /\ ranges[n] = <<ranges[n][1], ranges[n][2]>>
          /\ ranges[n][1] <= ranges[n][2]
          /\ ranges[n][1]..ranges[n][2] \subseteq active
  <2> TAKE n \in 1..N
  <2>1. ranges[n] \in Runs(points, active)
    BY <1>6 DEF Range
  <2>2. ranges[n] \in (1..Len(points)) \X (1..Len(points))
    BY <1>1, <2>1 DEF Runs
  <2>3. ranges[n][1] <= ranges[n][2] /\ ranges[n][1]..ranges[n][2] \subseteq active
    BY <2>1 DEF Runs
  <2> QED BY <2>2, <2>3
<1>8. Cardinality(runs) = N /\ \A n \in 1..N : Nth(runs, n) = ranges[n]
  <2>1. \A n \in 1..N : ranges[n][1] \in Int
    BY <1>1, <1>7
  <2> HIDE DEF runs, N
  <2> QED BY <1>6, <2>1, ListedInOrder
<1>9. MAX_CANDIDATES \in Nat
  BY SurveyAssumption
<1>10. /\ Min({N, MAX_CANDIDATES}) \in Nat
      /\ Min({N, MAX_CANDIDATES}) <= N /\ Min({N, MAX_CANDIDATES}) <= MAX_CANDIDATES
  <2> HIDE DEF N
  <2>1. Min({N, MAX_CANDIDATES}) = IF N <= MAX_CANDIDATES THEN N ELSE MAX_CANDIDATES
    BY <1>6, <1>9, MinOfTwo
  <2> QED BY <1>6, <1>9, <2>1
<1>11. Len(cands) = Min({N, MAX_CANDIDATES}) /\ DOMAIN cands = 1..Min({N, MAX_CANDIDATES})
  <2> HIDE DEF N, Candidate
  <2> QED BY <1>10, <1>5
<1>12. ASSUME NEW n \in DOMAIN cands
       PROVE  /\ cands[n].id = n
              /\ \E a, b, k \in 1..Len(points) :
                     Nth(runs, n) = <<a, b>> /\ MadeOf(cands[n], p, points, noise, a, b, k)
  <2> DEFINE a == ranges[n][1]
             b == ranges[n][2]
             k == Peak(points, ranges[n])
             low == Max({points[a].actual - edge, 0})
             high == points[b].actual + edge
  <2>1. n \in 1..N
    <3> HIDE DEF N
    <3> QED BY <1>6, <1>10, <1>11, <1>12
  <2>2. /\ a \in 1..Len(points) /\ b \in 1..Len(points) /\ ranges[n] = <<a, b>>
        /\ a <= b /\ a..b \subseteq active /\ Nth(runs, n) = ranges[n]
    <3> HIDE DEF runs
    <3> QED BY <1>7, <1>8, <2>1
  <2>3. cands[n] = Candidate(n)
    <3> HIDE DEF Candidate, N
    <3> QED BY <1>5, <1>11
  <2>4. Candidate(n) = [id |-> n, start |-> low, stop |-> high, center |-> points[k].actual,
                        bandwidth |-> high - low, peak |-> points[k].power,
                        snr |-> points[k].power - noise, count |-> b - a + 1]
    BY Zenon
  <2> HIDE DEF a, b, k, Candidate
  <2>5. k \in a..b /\ \A j \in a..b : points[j].power <= points[k].power
    <3>1. k = Peak(points, <<a, b>>)
      BY <2>2 DEF k
    <3>2. a \in Nat /\ b \in Nat /\ 1 <= a /\ a <= b /\ b <= Len(points)
      BY <1>1, <2>2
    <3> QED BY <1>1, <3>1, <3>2, PeakIs
  <2>6. LET c == cands[n]
        IN  /\ c.id = n /\ c.count = b - a + 1
            /\ c.start = low /\ c.stop = high /\ c.bandwidth = c.stop - c.start
            /\ c.center = points[k].actual /\ c.peak = points[k].power
            /\ c.snr = c.peak - noise
    <3> HIDE DEF low, high
    <3> QED BY <2>3, <2>4
  <2>7. Nth(runs, n) = <<a, b>> /\ k \in 1..Len(points)
    BY <1>1, <2>2, <2>5
  <2>8. MadeOf(cands[n], p, points, noise, a, b, k)
    BY <2>2, <2>5, <2>6, Zenon DEF MadeOf, active
  <2> HIDE DEF runs
  <2> QED BY <2>2, <2>6, <2>7, <2>8
<1>13. Len(cands) = Min({Cardinality(runs), MAX_CANDIDATES}) /\ Len(cands) \in Nat
       /\ Len(cands) <= MAX_CANDIDATES /\ DOMAIN cands = 1..Len(cands)
  <2> HIDE DEF N, runs
  <2> QED BY <1>8, <1>10, <1>11
<1> QED BY <1>2, <1>12, <1>13, Zenon DEF noise, cands, active

\* Ascending compares neighbours; so any two elements ascend.
LEMMA AscendingPairs ==
    ASSUME NEW s, NEW N \in Nat, Len(s) = N, Ascending(s), \A i \in 1..N : s[i] \in Int
    PROVE  \A i, j \in 1..N : i < j => s[i] < s[j]
<1> SUFFICES ASSUME NEW i \in 1..N, NEW j \in 1..N, i < j, ~(s[i] < s[j]) PROVE FALSE
  OBVIOUS
<1> DEFINE Bad == {k \in 1..N : i < k /\ ~(s[i] < s[k])}
<1>1. Bad \subseteq Nat /\ j \in Bad
  OBVIOUS
<1>2. PICK k \in Bad : \A m \in Bad : k <= m
  BY <1>1, LeastNumber
<1>3. k \in 1..N /\ k - 1 \in 1..(N - 1) /\ k - 1 \in 1..N /\ (k - 1) + 1 = k
  BY <1>2
<1>4. s[k - 1] < s[k]
  BY <1>3 DEF Ascending
<1>5. s[i] \in Int /\ s[k] \in Int /\ s[k - 1] \in Int
  BY <1>3
<1>6. CASE k - 1 = i
  BY <1>2, <1>4, <1>6
<1>7. CASE k - 1 # i
  <2>1. k - 1 \notin Bad /\ i < k - 1
    BY <1>2, <1>3, <1>7
  <2>2. s[i] < s[k - 1]
    BY <1>3, <2>1
  <2> QED BY <1>2, <1>4, <1>5, <2>2
<1> QED BY <1>6, <1>7

\* A run has as many points as indices: no two points have a centre in common.
LEMMA RunLength ==
    ASSUME NEW p, NEW points, Taken(p, points),
           NEW a \in 1..Len(points), NEW b \in 1..Len(points), a <= b
    PROVE  Cardinality({points[i] : i \in a..b}) = b - a + 1
<1> DEFINE run == {points[i] : i \in a..b}
           f == [i \in a..b |-> points[i]]
<1>1. Len(points) \in Nat /\ a \in Int /\ b \in Int
  BY SurveyAssumption DEF Taken
<1>2. \A i \in a..b : i \in 1..Len(points)
  BY <1>1
<1>3. \A i, j \in a..b : points[i] = points[j] => i = j
  <2> TAKE i, j \in a..b
  <2>1. i \in 1..Len(points) /\ j \in 1..Len(points) /\ i \in Int /\ j \in Int
    BY <1>1, <1>2
  <2>2. /\ i < j => points[i].center < points[j].center
        /\ j < i => points[j].center < points[i].center
        /\ points[i].center \in Int
    BY <2>1 DEF Taken
  <2> QED BY <2>1, <2>2
<1>4. f \in [a..b -> run] /\ (\A i, j \in a..b : f[i] = f[j] => i = j)
      /\ \A t \in run : \E i \in a..b : f[i] = t
  BY <1>3
<1> HIDE DEF f, run
<1>5. IsInjective(f)
  BY <1>4 DEF IsInjective
<1>6. f \in Injection(a..b, run) /\ f \in Surjection(a..b, run)
  BY <1>4, <1>5, Zenon DEF Injection, Surjection
<1>7. ExistsBijection(a..b, run)
  BY <1>6, Zenon DEF ExistsBijection, Bijection
<1>8. IsFiniteSet(a..b) /\ Cardinality(a..b) = b - a + 1
  BY <1>1, FS_Interval
<1>9. Cardinality(run) = b - a + 1
  BY <1>7, <1>8, FS_Bijection
<1> QED BY <1>9 DEF run

\* merge_candidates as the reports are read: see CandidatesRight.
LEMMA CandidatesSound ==
    ASSUME NEW p, NEW points, Taken(p, points)
    PROVE  LET report == Report(p, points)
               active == Active(points, report.noise)
               runs == Runs(points, active)
               edge == p.bandwidth \div 2
               error_hz == IF Ascending([i \in DOMAIN points |-> points[i].actual])
                           THEN 0 ELSE 2 * Tolerance
           IN  /\ 2 * Cardinality(active) < Len(points)
               /\ Len(report.candidates) = Min({Cardinality(runs), MAX_CANDIDATES})
               /\ \A n \in DOMAIN report.candidates :
                      LET c == report.candidates[n]
                          run == {points[i] : i \in Nth(runs, n)[1]..Nth(runs, n)[2]}
                      IN  /\ c.count = Cardinality(run)
                          /\ \E q \in run : q.actual = c.center /\ q.power = c.peak
                          /\ \A q \in run :
                                 /\ q.power <= c.peak
                                 /\ c.start <= Max({q.actual - edge, 0}) + error_hz
                                 /\ q.actual + edge <= c.stop + error_hz
<1> DEFINE report == Report(p, points)
           active == Active(points, report.noise)
           runs == Runs(points, active)
           edge == p.bandwidth \div 2
           actual == [i \in DOMAIN points |-> points[i].actual]
           error_hz == IF Ascending(actual) THEN 0 ELSE 2 * Tolerance
           L == Len(points)
<1>1. /\ L \in Nat /\ L # 0 /\ DOMAIN points = 1..L /\ Powered(points)
      /\ Tolerance \in Nat /\ MinBandwidth \in Nat /\ MaxBandwidth \in Nat
  <2>1. MAX_POINTS \in Nat /\ Tolerance \in Nat /\ MinBandwidth \in Nat /\ MaxBandwidth \in Nat
    BY SurveyAssumption
  <2> QED BY <2>1 DEF Taken, Powered
<1>2. /\ report.noise = median_power_dbfs(points)
      /\ Len(report.candidates) = Min({Cardinality(runs), MAX_CANDIDATES})
      /\ \A n \in DOMAIN report.candidates : \E a, b, k \in 1..L :
             /\ Nth(runs, n) = <<a, b>>
             /\ MadeOf(report.candidates[n], p, points, report.noise, a, b, k)
  BY CandidateIs, Zenon
<1>3. 2 * Cardinality(active) < L
  BY <1>1, <1>2, FewActive
<1>4. edge \in Nat
  BY <1>1 DEF Taken
<1>5. \A i \in 1..L : points[i].power \in Int /\ points[i].actual \in Int /\ points[i].center \in Int
  BY DEF Taken
<1>6. ASSUME NEW i \in 1..L, NEW j \in 1..L, i <= j
      PROVE  points[i].actual <= points[j].actual + error_hz
  <2> DEFINE x == points[i].actual
             y == points[j].actual
             u == points[i].center
             v == points[j].center
  <2>1. x \in Int /\ y \in Int /\ u \in Int /\ v \in Int
    BY <1>5
  <2>2. CASE i = j
    BY <1>1, <2>1, <2>2
  <2>3. CASE i < j /\ Ascending(actual)
    <3>1. Len(actual) = L /\ \A m \in 1..L : actual[m] \in Int /\ actual[m] = points[m].actual
      BY <1>1, <1>5
    <3> HIDE DEF actual, L
    <3>2. actual[i] < actual[j]
      BY <1>1, <2>3, <3>1, AscendingPairs
    <3> QED BY <2>1, <2>3, <3>1, <3>2
  <2>4. CASE i < j /\ ~Ascending(actual)
    <3>1. Distance(x, u) <= Tolerance /\ Distance(y, v) <= Tolerance /\ u < v
      BY <2>4 DEF Taken
    <3> HIDE DEF x, y, u, v, actual
    <3>2. x <= y + 2 * Tolerance
      BY <1>1, <2>1, <3>1 DEF Distance
    <3> QED BY <2>4, <3>2 DEF x, y
  <2> QED BY <1>1, <1>6, <2>2, <2>3, <2>4
<1>7. error_hz \in Nat
  BY <1>1
<1>8. ASSUME NEW n \in DOMAIN report.candidates
      PROVE  LET c == report.candidates[n]
                 run == {points[i] : i \in Nth(runs, n)[1]..Nth(runs, n)[2]}
             IN  /\ c.count = Cardinality(run)
                 /\ \E q \in run : q.actual = c.center /\ q.power = c.peak
                 /\ \A q \in run :
                        /\ q.power <= c.peak
                        /\ c.start <= Max({q.actual - edge, 0}) + error_hz
                        /\ q.actual + edge <= c.stop + error_hz
  <2> DEFINE c == report.candidates[n]
  <2>1. PICK a, b, k \in 1..L :
            Nth(runs, n) = <<a, b>> /\ MadeOf(c, p, points, report.noise, a, b, k)
    <3> HIDE DEF report, runs
    <3> QED BY <1>2
  <2>2. /\ Nth(runs, n) = <<a, b>> /\ a <= b /\ k \in a..b
        /\ \A j \in a..b : points[j].power <= points[k].power
        /\ c.count = b - a + 1
        /\ c.start = Max({points[a].actual - edge, 0})
        /\ c.stop = points[b].actual + edge
        /\ c.center = points[k].actual /\ c.peak = points[k].power
    BY <2>1, Zenon DEF MadeOf
  <2> HIDE DEF c, runs, edge, error_hz, L
  <2> DEFINE run == {points[i] : i \in a..b}
  <2>3. Cardinality(run) = b - a + 1
    BY <2>2, RunLength DEF L
  <2>4. {points[i] : i \in Nth(runs, n)[1]..Nth(runs, n)[2]} = run
    BY <2>2
  <2>5. points[k] \in run
    BY <2>2
  <2>6. ASSUME NEW q \in run
        PROVE  /\ q.power <= c.peak
               /\ c.start <= Max({q.actual - edge, 0}) + error_hz
               /\ q.actual + edge <= c.stop + error_hz
    <3>1. PICK i \in a..b : q = points[i]
      OBVIOUS
    <3>2. i \in 1..L /\ a <= i /\ i <= b
      BY <1>1
    <3> DEFINE x == points[a].actual
               y == points[i].actual
               z == points[b].actual
    <3>3. x <= y + error_hz /\ y <= z + error_hz /\ x \in Int /\ y \in Int /\ z \in Int
      BY <1>5, <1>6, <3>2
    <3>4. c.start = Max({x - edge, 0}) /\ c.stop = z + edge
      BY <2>2
    <3> HIDE DEF x, y, z
    <3>5. /\ Max({x - edge, 0}) = IF x - edge >= 0 THEN x - edge ELSE 0
          /\ Max({y - edge, 0}) = IF y - edge >= 0 THEN y - edge ELSE 0
      <4>1. x - edge \in Int /\ y - edge \in Int
        BY <1>4, <3>3
      <4> QED BY <4>1, MaxOfTwo
    <3>6. c.start <= Max({y - edge, 0}) + error_hz /\ y + edge <= c.stop + error_hz
      BY <1>4, <1>7, <3>3, <3>4, <3>5
    <3>7. points[i].power <= c.peak
      BY <2>2
    <3> QED BY <3>1, <3>6, <3>7 DEF y
  <2> HIDE DEF run
  <2>7. /\ c.count = Cardinality(run)
        /\ \E q \in run : q.actual = c.center /\ q.power = c.peak
        /\ \A q \in run :
               /\ q.power <= c.peak
               /\ c.start <= Max({q.actual - edge, 0}) + error_hz
               /\ q.actual + edge <= c.stop + error_hz
    BY <2>2, <2>3, <2>5, <2>6
  <2> QED BY <2>4, <2>7 DEF c
<1> QED BY <1>2, <1>3, <1>8, Zenon

-----------------------------------------------------------------------------
(* Who reads the report.                                                   *)

\* What the planner is shown of a candidate is within the policy's limit.
Shown(c) ==
    \/ MAX_PLANNER_CANDIDATE_BANDWIDTH_HZ <= Limits.max_bandwidth_hz
    \/ c.bandwidth <= Limits.max_bandwidth_hz

\* What the web console and the policy ask of a candidate, for points that
\* ascend and lie within the limits of the request.
LEMMA CandidateUsable ==
    ASSUME NEW p, NEW points, Taken(p, points), validate_limits,
           \A i \in 1..Len(points) : Frequency(points[i].actual),
           \A i, j \in 1..Len(points) : i < j => points[i].actual < points[j].actual,
           NEW noise \in Int,
           NEW a \in 1..Len(points), NEW b \in 1..Len(points), NEW k \in 1..Len(points),
           NEW c, MadeOf(c, p, points, noise, a, b, k)
    PROVE  /\ c.start <= c.center /\ c.center <= c.stop
           /\ c.stop - c.start = c.bandwidth /\ c.stop <= MaxHz + MaxBandwidth
           /\ c.count \in 1..Len(points) /\ c.snr >= 0
           /\ Frequency(c.center)
           /\ Window(c) \in 1..Limits.max_bandwidth_hz <=> Shown(c)
<1> DEFINE x == points[a].actual
           y == points[k].actual
           z == points[b].actual
           power == points[k].power
           edge == p.bandwidth \div 2
           width == MAX_PLANNER_CANDIDATE_BANDWIDTH_HZ
           L == Len(points)
<1>1. /\ MAX_POINTS \in Nat /\ Tolerance \in Nat /\ Tolerance # 0 /\ Threshold \in Nat
      /\ MinHz \in Nat /\ MaxHz \in Nat /\ MinBandwidth \in Nat /\ MaxBandwidth \in Nat
      /\ MinBandwidth >= 10 * Tolerance
  BY SurveyAssumption
<1>2. /\ width \in Nat /\ width # 0
      /\ Limits.min_freq_hz \in Nat /\ Limits.max_freq_hz \in Nat /\ Limits.max_bandwidth_hz \in Nat
  BY SurveyAssumption
<1>3. L \in Nat /\ p.bandwidth \in MinBandwidth..MaxBandwidth
  <2>1. L \in 1..MAX_POINTS /\ p.bandwidth \in MinBandwidth..MaxBandwidth
    BY Zenon DEF Taken
  <2> QED BY <1>1, <2>1
<1>4. edge \in Nat /\ edge >= 1 /\ edge <= MaxBandwidth
  <2> DEFINE w == p.bandwidth
  <2>1. w \in Nat /\ w >= 2 /\ w <= MaxBandwidth
    BY <1>1, <1>3
  <2> HIDE DEF w
  <2>2. w \div 2 \in Nat /\ w \div 2 >= 1 /\ w \div 2 <= MaxBandwidth
    BY <1>1, <2>1
  <2> QED BY <2>2 DEF w
<1>5. x \in Int /\ y \in Int /\ z \in Int /\ power \in Int
  BY DEF Taken
<1>6. /\ a <= b /\ k \in a..b /\ k \in Active(points, noise)
      /\ c.start = Max({x - edge, 0}) /\ c.stop = z + edge
      /\ c.bandwidth = c.stop - c.start /\ c.center = y
      /\ c.peak = power /\ c.snr = c.peak - noise /\ c.count = b - a + 1
  BY DEF MadeOf
<1>7. /\ Frequency(x) /\ Frequency(y) /\ Frequency(z)
      /\ Limits.max_freq_hz <= MaxHz
  BY DEF validate_limits
<1>8. x <= y /\ y <= z
  <2>1. a \in Int /\ b \in Int /\ k \in Int /\ a <= k /\ k <= b
    BY <1>3, <1>6
  <2>2. (a < k => x < y) /\ (k < b => y < z) /\ (a = k => x = y) /\ (k = b => y = z)
    OBVIOUS
  <2> HIDE DEF x, y, z
  <2> QED BY <1>5, <2>1, <2>2
<1>9. power >= noise + Threshold
  BY <1>6 DEF Active
<1> HIDE DEF x, y, z, power, edge, width, L
<1>10. 0 <= x /\ z <= MaxHz
  BY <1>1, <1>2, <1>5, <1>7 DEF Frequency
<1>11. c.start = IF x - edge >= 0 THEN x - edge ELSE 0
  <2>1. x - edge \in Int
    BY <1>4, <1>5
  <2> QED BY <1>6, <2>1, MaxOfTwo
<1>12. c.start \in Int /\ c.stop \in Int /\ c.bandwidth \in Nat /\ c.bandwidth >= 1
  BY <1>4, <1>5, <1>6, <1>8, <1>10, <1>11
<1>13. c.start <= c.center /\ c.center <= c.stop /\ c.stop <= MaxHz + MaxBandwidth
  BY <1>1, <1>4, <1>5, <1>6, <1>8, <1>10, <1>11
<1>14. c.count \in 1..L /\ c.snr >= 0
  <2>1. c.count \in 1..L
    BY <1>3, <1>6 DEF L
  <2>2. c.snr >= 0
    BY <1>1, <1>5, <1>6, <1>9
  <2> QED BY <2>1, <2>2
<1>15. Window(c) \in 1..Limits.max_bandwidth_hz <=> Shown(c)
  <2>1. Window(c) = IF c.bandwidth <= width THEN c.bandwidth ELSE width
    BY <1>2, <1>12, MinOfTwo DEF Window, width
  <2>2. Shown(c) <=> width <= Limits.max_bandwidth_hz \/ c.bandwidth <= Limits.max_bandwidth_hz
    BY DEF Shown, width
  <2> QED BY <1>2, <1>12, <2>1, <2>2
<1> QED BY <1>6, <1>7, <1>13, <1>14, <1>15 DEF L

\* A report whose read-backs ascend within the limits is stored by the web
\* console, and the policy accepts the observation made of it unless its limit
\* is below the planner's window and a candidate is wider.
LEMMA PlotUsable ==
    ASSUME NEW p, NEW points, Taken(p, points), validate_limits,
           \A i \in DOMAIN points : Frequency(points[i].actual),
           Ascending(planner_observation(Report(p, points), 0).sweep)
    PROVE  /\ validate_sweep_plot(Report(p, points))
           /\ validate_request(planner_observation(Report(p, points), 0)) <=>
                  \A n \in DOMAIN Report(p, points).candidates :
                      Shown(Report(p, points).candidates[n])
<1> DEFINE report == Report(p, points)
           cands == report.candidates
           next == planner_observation(report, 0)
           actual == [i \in DOMAIN points |-> points[i].actual]
           L == Len(points)
           runs == Runs(points, Active(points, report.noise))
<1>1. /\ MAX_POINTS \in Nat /\ MinHz \in Nat /\ MaxHz \in Nat
      /\ Limits.min_freq_hz \in Nat /\ Limits.max_freq_hz \in Nat
      /\ Limits.max_observation_age_ms \in Nat
  BY SurveyAssumption
<1>2. L \in 1..MAX_POINTS /\ L \in Nat /\ DOMAIN points = 1..L
  BY <1>1 DEF Taken
<1>3. report.points = points /\ next.sweep = actual /\ next.age = 0
  BY DEF Report, planner_observation
<1>4. Len(actual) = L /\ DOMAIN actual = 1..L /\ Ascending(actual)
      /\ \A i \in 1..L : actual[i] = points[i].actual /\ actual[i] \in Int
  <2>1. Ascending(actual)
    BY <1>3
  <2>2. \A i \in 1..L : points[i].actual \in Int
    BY DEF Taken
  <2> QED BY <1>2, <2>1, <2>2
<1>5. \A i, j \in 1..L : i < j => points[i].actual < points[j].actual
  <2> HIDE DEF actual, L
  <2>1. \A i, j \in 1..L : i < j => actual[i] < actual[j]
    BY <1>2, <1>4, AscendingPairs
  <2> QED BY <1>4, <2>1
<1>6. \A i \in 1..L : Frequency(points[i].actual) /\ points[i].actual \in MinHz..MaxHz
  <2>1. MinHz <= Limits.min_freq_hz /\ Limits.max_freq_hz <= MaxHz
    BY DEF validate_limits
  <2>2. \A i \in 1..L : Frequency(points[i].actual)
    BY <1>2
  <2> HIDE DEF L
  <2> QED BY <1>1, <2>1, <2>2 DEF Frequency
<1>7. /\ report.noise \in Int
      /\ Len(cands) \in Nat /\ Len(cands) <= MAX_CANDIDATES /\ DOMAIN cands = 1..Len(cands)
      /\ \A n \in DOMAIN cands :
             /\ cands[n].id = n
             /\ \E a, b, k \in 1..L :
                    Nth(runs, n) = <<a, b>> /\ MadeOf(cands[n], p, points, report.noise, a, b, k)
  BY CandidateIs, Zenon
<1>8. ASSUME NEW n \in DOMAIN cands
      PROVE  /\ cands[n].start <= cands[n].center /\ cands[n].center <= cands[n].stop
             /\ cands[n].stop - cands[n].start = cands[n].bandwidth
             /\ cands[n].stop <= MaxHz + MaxBandwidth
             /\ cands[n].count \in 1..L /\ cands[n].snr >= 0
             /\ Frequency(cands[n].center)
             /\ Window(cands[n]) \in 1..Limits.max_bandwidth_hz <=> Shown(cands[n])
  <2> HIDE DEF report, cands, runs
  <2>1. PICK a, b, k \in 1..L : MadeOf(cands[n], p, points, report.noise, a, b, k)
    BY <1>7
  <2>2. \A i \in 1..Len(points) : Frequency(points[i].actual)
    BY <1>6
  <2> DEFINE c == cands[n]
             noise == report.noise
  <2>3. noise \in Int /\ MadeOf(c, p, points, noise, a, b, k)
    BY <1>7, <2>1
  <2> HIDE DEF c, noise
  <2>4. /\ c.start <= c.center /\ c.center <= c.stop
        /\ c.stop - c.start = c.bandwidth
        /\ c.stop <= MaxHz + MaxBandwidth
        /\ c.count \in 1..Len(points) /\ c.snr >= 0
        /\ Frequency(c.center)
        /\ Window(c) \in 1..Limits.max_bandwidth_hz <=> Shown(c)
    BY <1>5, <2>2, <2>3, CandidateUsable
  <2> QED BY <2>4 DEF c
<1>9. validate_sweep_plot(report)
  <2>1. [i \in DOMAIN report.points |-> report.points[i].actual] = actual
    BY <1>3
  <2> HIDE DEF report, actual, L
  <2> DEFINE centers == [i \in DOMAIN report.points |-> report.points[i].actual]
  <2>2. centers = actual
    BY <2>1
  <2> HIDE DEF centers
  <2>3. /\ Len(centers) \in 1..MAX_POINTS /\ Len(centers) = L
        /\ \A i \in DOMAIN centers : centers[i] \in MinHz..MaxHz
        /\ Ascending(centers)
    BY <1>2, <1>4, <1>6, <2>2
  <2>4. \A n \in DOMAIN cands :
            /\ cands[n].start <= cands[n].center /\ cands[n].center <= cands[n].stop
            /\ cands[n].stop - cands[n].start = cands[n].bandwidth
            /\ cands[n].stop <= MaxHz + MaxBandwidth
            /\ cands[n].count \in 1..Len(centers) /\ cands[n].snr >= 0
    BY <1>8, <2>3
  <2> QED BY <1>7, <2>3, <2>4, Zenon DEF validate_sweep_plot, centers
<1>10. /\ DOMAIN next.candidates = DOMAIN cands
       /\ \A n \in DOMAIN cands :
              /\ next.candidates[n].id = cands[n].id /\ next.candidates[n].age = 0
              /\ next.candidates[n].center = cands[n].center
              /\ next.candidates[n].bandwidth = Window(cands[n])
  <2> DEFINE made == [n \in DOMAIN report.candidates |->
                         LET c == report.candidates[n]
                         IN  [id |-> c.id, center |-> c.center, peak |-> c.peak, snr |-> c.snr,
                              age |-> 0, bandwidth |-> Window(c)]]
  <2>1. next.candidates = made
    BY DEF planner_observation
  <2> HIDE DEF report, next
  <2> QED BY <2>1
<1>11. Len(next.candidates) = Len(cands)
  <2>1. next.candidates = [n \in DOMAIN cands |-> next.candidates[n]]
    BY DEF planner_observation
  <2> HIDE DEF next, report, cands
  <2> QED BY <1>7, <1>10, <2>1
<1> HIDE DEF report, cands, next, actual, L
<1>12. validate_request(next) <=> \A n \in DOMAIN cands : Shown(cands[n])
  <2>1. \A n \in DOMAIN cands : validate_candidate(next.candidates[n]) <=> Shown(cands[n])
    BY <1>1, <1>8, <1>10 DEF validate_candidate
  <2>2. \A m, n \in DOMAIN next.candidates :
            next.candidates[m].id = next.candidates[n].id => m = n
    BY <1>7, <1>10
  <2>3. next.age <= Limits.max_observation_age_ms
    BY <1>1, <1>3
  <2>4. /\ Len(next.sweep) <= MAX_POINTS /\ Ascending(next.sweep)
        /\ \A i \in DOMAIN next.sweep : Frequency(next.sweep[i])
    BY <1>1, <1>2, <1>3, <1>4, <1>6
  <2> QED BY <1>7, <1>10, <1>11, <2>1, <2>2, <2>3, <2>4 DEF validate_request
<1> QED BY <1>9, <1>12 DEF report, next, cands

\* After an inspection the candidate of its identity is the one it made of
\* its only point.
LEMMA InspectionUsable ==
    ASSUME NEW p, NEW points, NEW obs, NEW id, NEW elapsed \in Nat,
           obs \in [age : Nat,
                    candidates : Seq([id : Nat, center : Nat, bandwidth : Nat, peak : Int,
                                      snr : Int, age : Nat]),
                    sweep : Seq(Nat)],
           Known(obs, id), Frequency(points[1].actual),
           p.bandwidth \in 1..Limits.max_bandwidth_hz
    PROVE  validate_candidate(find_candidate(
               planner_inspection_observation(Report(p, points), obs, id, elapsed), id))
<1> DEFINE report == Report(p, points)
           next == planner_inspection_observation(report, obs, id, elapsed)
           old == obs.candidates
           new == next.candidates
           N == Len(old)
           point == points[1]
           Aged(c) == [c EXCEPT !.age = @ + elapsed]
           Inspected(c) ==
               [c EXCEPT !.center = point.actual, !.bandwidth = p.bandwidth,
                         !.peak = point.power, !.age = 0,
                         !.snr = Max({point.power - (c.peak - c.snr), 0})]
<1>1. /\ old \in Seq([id : Nat, center : Nat, bandwidth : Nat, peak : Int, snr : Int, age : Nat])
      /\ N \in Nat /\ DOMAIN old = 1..N
      /\ Limits.max_observation_age_ms \in Nat
  BY SurveyAssumption
<1>2. report.points = points /\ report.plan = p
  BY DEF Report
<1>3. new = [n \in DOMAIN old |-> IF old[n].id = id THEN Inspected(old[n]) ELSE Aged(old[n])]
  BY <1>2 DEF planner_inspection_observation
<1>4. \A n \in 1..N :
          old[n] \in [id : Nat, center : Nat, bandwidth : Nat, peak : Int, snr : Int, age : Nat]
  <2> DEFINE Record == [id : Nat, center : Nat, bandwidth : Nat, peak : Int, snr : Int, age : Nat]
  <2>1. old \in Seq(Record)
    BY <1>1
  <2> HIDE DEF old, Record
  <2>2. \A n \in 1..N : old[n] \in Record
    BY <2>1
  <2> QED BY <2>2 DEF Record
<1> HIDE DEF new, old, N, point
<1>5. \A n \in 1..N : Inspected(old[n]).id = old[n].id /\ Aged(old[n]).id = old[n].id
  BY <1>4
<1>6. \A n \in 1..N :
          /\ Inspected(old[n]).center = point.actual
          /\ Inspected(old[n]).bandwidth = p.bandwidth
          /\ Inspected(old[n]).age = 0
  BY <1>4
<1> HIDE DEF Inspected, Aged
<1>7. DOMAIN new = 1..N /\ \A n \in 1..N : new[n].id = old[n].id
  BY <1>1, <1>3, <1>5
<1>8. \A n \in 1..N : new[n].id = id => new[n] = Inspected(old[n])
  BY <1>1, <1>3, <1>7
<1>9. PICK m \in 1..N : old[m].id = id
  BY <1>1 DEF Known, old
<1> DEFINE found == {n \in DOMAIN new : new[n].id = id}
           least == Min(found)
<1>10. least \in 1..N /\ new[least].id = id
  <2>1. found \subseteq Nat
    BY <1>7
  <2>2. m \in found
    BY <1>7, <1>9
  <2> HIDE DEF found
  <2>3. least \in found
    BY <2>1, <2>2, MinOfNats
  <2> HIDE DEF least
  <2> QED BY <1>7, <2>3 DEF found
<1>11. find_candidate(next, id) = new[least]
  BY Zenon DEF find_candidate, new
<1> HIDE DEF least
<1>12. validate_candidate(new[least])
  <2>1. /\ new[least].center = points[1].actual /\ new[least].bandwidth = p.bandwidth
        /\ new[least].age = 0
    BY <1>6, <1>8, <1>10 DEF point
  <2>2. 0 <= Limits.max_observation_age_ms
    BY <1>1
  <2> QED BY <2>1, <2>2, Zenon DEF validate_candidate
<1> QED BY <1>11, <1>12, Zenon

=============================================================================
