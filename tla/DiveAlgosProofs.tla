-------------------------- MODULE DiveAlgosProofs --------------------------
(***************************************************************************)
(* Proofs about DiveAlgos, for every kind of dive, any number of samples,  *)
(* any depths, times, pressures and alarms: the truncation keeps what the  *)
(* user asked for, and what is written about depths, pressures and alarms  *)
(* is that of the dive.                                                    *)
(***************************************************************************)
EXTENDS DiveAlgos, Induction

(* A sample with a depth of D, or with none. *)
SampleOf(D) ==
    [time : Nat, depth : D \cup {NoDepth}, pressures : Seq(Reading), alarms : Nat]

ParsedSample == SampleOf(Nat)

-----------------------------------------------------------------------------
(* The list of samples, and what is read off it. *)

LEMMA SampleFields ==
    ASSUME NEW list \in Seq(ParsedSample), NEW i \in 1..Len(list)
    PROVE  /\ list[i] \in ParsedSample
           /\ list[i].time \in Nat /\ list[i].alarms \in Nat
           /\ list[i].depth \in Int /\ list[i].depth >= NoDepth
           /\ list[i].depth # NoDepth => list[i].depth \in Nat
           /\ list[i].pressures \in Seq(Reading)
<1>1. list[i] \in ParsedSample
  OBVIOUS
<1>. QED  BY <1>1, SMTT(20) DEF ParsedSample, SampleOf, NoDepth

LEMMA PressureType ==
    ASSUME NEW s \in ParsedSample, HasPressure(s)
    PROVE  Pressure(s) \in Reading /\ Pressure(s).tank \in Nat /\ Pressure(s).value \in Nat
<1>1. s.pressures \in Seq(Reading) /\ s.pressures # <<>>
  BY DEF ParsedSample, SampleOf, HasPressure
<1>2. s.pressures[1] \in Reading
  <2>. HIDE DEF Reading
  <2>. QED  BY <1>1
<1>. QED  BY <1>2 DEF Pressure, Reading

(* Sorting keeps every sample, the times increase, and samples of the same *)
(* second stay in their order.                                             *)
LEMMA SortedIs ==
    ASSUME NEW list \in Seq(ParsedSample)
    PROVE  LET n == Len(list) IN
           \E p \in [1..n -> 1..n] :
              /\ Sorted(list) = [k \in 1..n |-> list[p[k]]]
              /\ \A k, l \in 1..n : k < l =>
                    \/ list[p[k]].time < list[p[l]].time
                    \/ list[p[k]].time = list[p[l]].time /\ p[k] < p[l]
              /\ \A j \in 1..n : \E k \in 1..n : p[k] = j
<1>. DEFINE n == Len(list)
            keys == [i \in 1..n |-> list[i].time]
            p == StableOrder(keys)
<1>1. n \in Nat /\ DOMAIN list = 1..n
  OBVIOUS
<1>2. keys \in [1..n -> Int] /\ \A i \in 1..n : keys[i] = list[i].time
  BY SampleFields
<1>3. Sorted(list) = [k \in 1..n |-> list[p[k]]]
  BY <1>1 DEF Sorted, SortedBy
<1>. HIDE DEF n, keys, p
<1>4. /\ p \in [1..n -> 1..n]
      /\ \A k, l \in 1..n : k < l =>
            (keys[p[k]] < keys[p[l]] \/ (keys[p[k]] = keys[p[l]] /\ p[k] < p[l]))
      /\ \A j \in 1..n : \E k \in 1..n : p[k] = j
  BY <1>1, <1>2, StableOrderIs DEF p
<1>5. \A k \in 1..n : keys[p[k]] = list[p[k]].time
  BY <1>2, <1>4
<1>6. \A k, l \in 1..n : k < l =>
        \/ list[p[k]].time < list[p[l]].time
        \/ list[p[k]].time = list[p[l]].time /\ p[k] < p[l]
  BY <1>4, <1>5
<1>. QED  BY <1>3, <1>4, <1>6 DEF n

LEMMA SortedType ==
    ASSUME NEW S, S \subseteq ParsedSample, NEW list \in Seq(S)
    PROVE  Sorted(list) \in Seq(S) /\ Len(Sorted(list)) = Len(list)
<1>1. list \in Seq(ParsedSample)
  OBVIOUS
<1>2. PICK p \in [1..Len(list) -> 1..Len(list)] :
           Sorted(list) = [k \in 1..Len(list) |-> list[p[k]]]
  BY <1>1, SortedIs
<1>3. Len(list) \in Nat /\ \A k \in 1..Len(list) : list[p[k]] \in S
  BY <1>2
<1>. QED  BY <1>2, <1>3

(* The scans that keep the greatest they have seen. *)
LEMMA GreatestDepthIs ==
    ASSUME NEW list \in Seq(ParsedSample)
    PROVE  /\ GreatestDepth(list) \in Nat
           /\ GreatestDepth(list) \in {0} \cup {list[i].depth : i \in 1..Len(list)}
           /\ \A i \in 1..Len(list) : list[i].depth <= GreatestDepth(list)
<1>. DEFINE n == Len(list)
            f == [i \in 1..n |-> list[i].depth]
            D == {0} \cup {f[i] : i \in 1..n}
<1>1. n \in Nat /\ f \in [1..n -> Int] /\ 0 \in Int
  BY SampleFields
<1>2. \A i \in 1..n : f[i] = list[i].depth
  OBVIOUS
<1>3. GreatestDepth(list) = Max({0} \cup {list[i].depth : i \in 1..n})
  <2>1. DOMAIN list = 1..n
    OBVIOUS
  <2>. QED  BY <2>1, Zenon DEF GreatestDepth
<1>. HIDE DEF n, f
<1>4. \E x \in D : \A y \in D : x >= y
  BY <1>1, GreatestOf
<1>5. GreatestDepth(list) = Max(D)
  <2>1. D = {0} \cup {list[i].depth : i \in 1..n}
    BY <1>2
  <2>. QED  BY <1>3, <2>1
<1>6. GreatestDepth(list) \in D /\ \A y \in D : GreatestDepth(list) >= y
  BY <1>4, <1>5 DEF Max
<1>7. D \subseteq Int
  BY <1>1
<1>8. GreatestDepth(list) \in Nat /\ \A i \in 1..n : f[i] <= GreatestDepth(list)
  BY <1>1, <1>6, <1>7
<1>. QED  BY <1>2, <1>6, <1>8 DEF n

LEMMA DurationType ==
    ASSUME NEW list \in Seq(ParsedSample)
    PROVE  Duration(list) \in Nat
<1>. DEFINE n == Len(list)
            f == [i \in 1..n |-> list[i].time]
            D == {0} \cup {f[i] : i \in 1..n}
<1>1. n \in Nat /\ f \in [1..n -> Int] /\ f \in [1..n -> Nat] /\ 0 \in Int
  BY SampleFields
<1>2. D = {0} \cup {list[i].time : i \in 1..n}
  OBVIOUS
<1>3. Duration(list) = Max({0} \cup {list[i].time : i \in 1..n})
  <2>1. DOMAIN list = 1..n
    OBVIOUS
  <2>. QED  BY <2>1, Zenon DEF Duration
<1>. HIDE DEF n, f
<1>4. \E x \in D : \A y \in D : x >= y
  BY <1>1, GreatestOf
<1>5. Duration(list) \in D
  BY <1>2, <1>3, <1>4 DEF Max
<1>. QED  BY <1>1, <1>5

(* The first and the last of the samples that a scan for a tank stops at.  *)
LEMMA ValidEnds ==
    ASSUME NEW list \in Seq(ParsedSample), NEW tank, Valid(list, tank) # {}
    PROVE  LET valid == Valid(list, tank) IN
           /\ valid \subseteq 1..Len(list)
           /\ Min(valid) \in valid /\ \A i \in valid : Min(valid) <= i
           /\ Max(valid) \in valid /\ \A i \in valid : Max(valid) >= i
<1>. DEFINE valid == Valid(list, tank)
<1>1. valid \in SUBSET (1..Len(list)) /\ Len(list) \in Nat
  BY DEF Valid
<1>. HIDE DEF valid
<1>2. /\ \E x \in valid : \A y \in valid : x >= y
      /\ \E x \in valid : \A y \in valid : x <= y
  BY <1>1, RangeEnds DEF valid
<1>. QED  BY <1>1, <1>2 DEF Min, Max, valid

LEMMA ScanTypes ==
    ASSUME NEW list \in Seq(ParsedSample), NEW tank
    PROVE  InitialPressure(list, tank) \in Nat /\ FinalPressure(list, tank) \in Nat
<1>1. ASSUME Valid(list, tank) # {}, NEW i \in Valid(list, tank)
      PROVE  Pressure(list[i]).value \in Nat
  <2>1. list[i] \in ParsedSample /\ HasPressure(list[i])
    BY <1>1 DEF Valid
  <2>. QED  BY <2>1, PressureType
<1>. QED  BY <1>1, ValidEnds DEF InitialPressure, FinalPressure

-----------------------------------------------------------------------------
(* The average depth. *)

Measure == [count : Nat, sum : Nat, depth : Nat, first : Nat, last : Nat, area : Int]

LEMMA WithDepthType ==
    ASSUME NEW m \in Measure, NEW s \in ParsedSample
    PROVE  WithDepth(m, s) \in Measure
<1>1. s.depth # NoDepth => s.depth \in Nat
  BY DEF ParsedSample, SampleOf
<1>2. s.time \in Nat
  BY DEF ParsedSample, SampleOf
<1>. DEFINE area == IF m.count = 0 THEN 0
                    ELSE m.area + (m.depth + s.depth) * (s.time - m.last)
<1>3. ASSUME s.depth # NoDepth PROVE area \in Int
  BY <1>1, <1>2, <1>3 DEF Measure
<1>. HIDE DEF area
<1>4. WithDepth(m, s) = IF s.depth = NoDepth THEN m
        ELSE [count |-> m.count + 1, sum |-> m.sum + s.depth, depth |-> s.depth,
              first |-> IF m.count = 0 THEN s.time ELSE m.first,
              last |-> s.time, area |-> area]
  BY DEF WithDepth, area
<1>. QED  BY <1>1, <1>2, <1>3, <1>4 DEF Measure

LEMMA MeasuredIs ==
    ASSUME NEW list \in Seq(ParsedSample)
    PROVE  /\ MeasuredUpTo(list)[0] = NoneMeasured
           /\ \A n \in 1..Len(list) :
                 MeasuredUpTo(list)[n] = WithDepth(MeasuredUpTo(list)[n - 1], list[n])
           /\ \A n \in 0..Len(list) : MeasuredUpTo(list)[n] \in Measure
<1>. DEFINE N == Len(list)
            g == [n \in 1..N |-> [m \in Measure |-> WithDepth(m, list[n])]]
            Is(f) == f = [n \in 0..N |->
                            IF n = 0 THEN NoneMeasured ELSE WithDepth(f[n - 1], list[n])]
            upTo == CHOOSE f : Is(f)
<1>1. NoneMeasured \in Measure /\ N \in Nat
  BY DEF NoneMeasured, Measure
<1>2. \A n \in 1..N : \A m \in Measure : WithDepth(m, list[n]) \in Measure
  BY SampleFields, WithDepthType
<1>3. MeasuredUpTo(list) = upTo
  BY DEF MeasuredUpTo
<1>. HIDE DEF N
<1>4. g \in [1..N -> [Measure -> Measure]]
  BY <1>2
<1>. HIDE DEF g
<1>5. PICK f \in [0..N -> Measure] :
           f[0] = NoneMeasured /\ \A i \in 1..N : f[i] = g[i][f[i - 1]]
  BY <1>1, <1>4, FoldExists
<1>6. Is(f)
  <2>1. \A i \in 0..N : i # 0 => i \in 1..N /\ i - 1 \in 0..N
    BY <1>1
  <2>2. \A i \in 0..N : i # 0 => g[i][f[i - 1]] = WithDepth(f[i - 1], list[i])
    BY <1>5, <2>1 DEF g
  <2>. QED  BY <1>5, <2>1, <2>2
<1>. HIDE DEF Is
<1>7. Is(upTo)
  BY <1>6
<1>. HIDE DEF upTo
<1>8. upTo[0] = NoneMeasured /\ \A n \in 1..N : upTo[n] = WithDepth(upTo[n - 1], list[n])
  <2>1. 0 \in 0..N /\ \A n \in 1..N : n # 0 /\ n \in 0..N
    BY <1>1
  <2>. QED  BY <1>7, <2>1 DEF Is
<1>9. \A n \in 0..N : upTo[n] \in Measure
  <2>1. \A n \in 1..N : upTo[n - 1] \in Measure => upTo[n] \in Measure
    BY <1>2, <1>8
  <2>. QED  BY <1>1, <1>8, <2>1, KeptAlong
<1>. QED  BY <1>3, <1>8, <1>9 DEF N

(* A product keeps the order of its factors. *)
LEMMA Scaled ==
    ASSUME NEW x \in Nat, NEW y \in Nat, NEW k \in Nat, x <= y
    PROVE  x * k \in Nat /\ y * k \in Nat /\ x * k <= y * k
<1>1. PICK d \in Nat : y = x + d
  <2>1. y - x \in Nat /\ y = x + (y - x)
    OBVIOUS
  <2>. QED  BY <2>1
<1>2. d * k \in Nat /\ x * k \in Nat
  OBVIOUS
<1>3. (x + d) * k = x * k + d * k
  OBVIOUS
<1>. QED  BY <1>1, <1>2, <1>3

(* One more trapezium keeps twice the area between the bounds. *)
LEMMA Trapezium ==
    ASSUME NEW lo \in Nat, NEW hi \in Nat, NEW d \in lo..hi, NEW e \in lo..hi,
           NEW t \in Nat, NEW dt \in Nat, NEW area \in Int,
           lo * (2 * t) <= area, area <= hi * (2 * t)
    PROVE  /\ lo * (2 * (t + dt)) <= area + (d + e) * dt
           /\ area + (d + e) * dt <= hi * (2 * (t + dt))
<1>1. /\ lo * dt <= d * dt /\ d * dt <= hi * dt
      /\ lo * dt <= e * dt /\ e * dt <= hi * dt
      /\ lo * dt \in Nat /\ hi * dt \in Nat /\ d * dt \in Nat /\ e * dt \in Nat
  BY Scaled
<1>2. (d + e) * dt = d * dt + e * dt
  OBVIOUS
<1>3. lo * (2 * (t + dt)) = lo * (2 * t) + 2 * (lo * dt)
  OBVIOUS
<1>4. hi * (2 * (t + dt)) = hi * (2 * t) + 2 * (hi * dt)
  OBVIOUS
<1>5. lo * (2 * t) \in Int /\ hi * (2 * t) \in Int
  OBVIOUS
<1>. QED  BY <1>1, <1>2, <1>3, <1>4, <1>5

(* What the loop has between the least and the greatest of the depths.     *)
Between(m, lo, hi) ==
    /\ m.count = 0 => m.sum = 0 /\ m.area = 0
    /\ m.count # 0 =>
          /\ m.depth \in lo..hi
          /\ m.first <= m.last
          /\ lo * m.count <= m.sum /\ m.sum <= hi * m.count
          /\ lo * (2 * (m.last - m.first)) <= m.area
          /\ m.area <= hi * (2 * (m.last - m.first))

LEMMA BetweenStep ==
    ASSUME NEW lo \in Nat, NEW hi \in Nat, NEW m \in Measure, Between(m, lo, hi),
           NEW s \in ParsedSample, s.depth # NoDepth => s.depth \in lo..hi,
           m.count # 0 => m.last <= s.time
    PROVE  Between(WithDepth(m, s), lo, hi)
<1>1. CASE s.depth = NoDepth
  BY <1>1 DEF WithDepth
<1>2. CASE s.depth # NoDepth
  <2>. DEFINE w == WithDepth(m, s)
  <2>1. s.depth \in lo..hi /\ s.depth \in Nat /\ s.time \in Nat
    BY <1>2 DEF ParsedSample, SampleOf
  <2>2. m.count \in Nat /\ m.sum \in Nat /\ m.depth \in Nat /\ m.first \in Nat
        /\ m.last \in Nat /\ m.area \in Int
    BY DEF Measure
  <2>3. /\ w.count = m.count + 1 /\ w.sum = m.sum + s.depth /\ w.depth = s.depth
        /\ w.last = s.time
        /\ m.count = 0 => w.first = s.time /\ w.area = 0
        /\ m.count # 0 => /\ w.first = m.first
                          /\ w.area = m.area + (m.depth + s.depth) * (s.time - m.last)
    BY <1>2 DEF WithDepth
  <2>. HIDE DEF w
  <2>4. lo * w.count <= w.sum /\ w.sum <= hi * w.count
    <3>. DEFINE a == lo * m.count
                b == hi * m.count
    <3>1. lo * (m.count + 1) = a + lo /\ hi * (m.count + 1) = b + hi
      BY <2>2
    <3>2. a <= m.sum /\ m.sum <= b
      <4>1. CASE m.count = 0
        <5>1. lo * 0 = 0 /\ hi * 0 = 0
          OBVIOUS
        <5>. QED  BY <4>1, <5>1 DEF Between
      <4>2. CASE m.count # 0
        BY <4>2 DEF Between
      <4>. QED  BY <4>1, <4>2
    <3>3. a \in Int /\ b \in Int
      BY <2>2
    <3>. HIDE DEF a, b
    <3>4. a + lo <= m.sum + s.depth /\ m.sum + s.depth <= b + hi
      BY <2>1, <2>2, <3>2, <3>3
    <3>. QED  BY <2>3, <3>1, <3>4
  <2>0. w.count # 0 /\ w.depth \in lo..hi
    BY <2>1, <2>2, <2>3
  <2>5. ASSUME m.count = 0 PROVE Between(w, lo, hi)
    <3>1. /\ w.first = w.last /\ w.area = 0 /\ w.last - w.first = 0
          /\ lo * (2 * 0) = 0 /\ hi * (2 * 0) = 0
      BY <2>1, <2>3, <2>5
    <3>2. /\ lo * (2 * (w.last - w.first)) <= w.area
          /\ w.area <= hi * (2 * (w.last - w.first))
          /\ w.first <= w.last
      BY <2>1, <2>3, <3>1
    <3>. QED  BY <2>0, <2>4, <3>2, Zenon DEF Between
  <2>6. ASSUME m.count # 0 PROVE Between(w, lo, hi)
    <3>. DEFINE t == m.last - m.first
                dt == s.time - m.last
    <3>1. t \in Nat /\ dt \in Nat /\ t + dt = w.last - w.first /\ w.first <= w.last
      BY <2>1, <2>2, <2>3, <2>6 DEF Between
    <3>2. /\ m.depth \in lo..hi
          /\ lo * (2 * t) <= m.area /\ m.area <= hi * (2 * t)
      BY <2>6 DEF Between
    <3>3. w.area = m.area + (m.depth + s.depth) * dt
      BY <2>3, <2>6
    <3>. HIDE DEF t, dt
    <3>4. /\ lo * (2 * (t + dt)) <= w.area
          /\ w.area <= hi * (2 * (t + dt))
      BY <2>1, <2>2, <3>1, <3>2, <3>3, Trapezium
    <3>5. /\ lo * (2 * (w.last - w.first)) <= w.area
          /\ w.area <= hi * (2 * (w.last - w.first))
      BY <3>1, <3>4
    <3>. QED  BY <2>0, <2>4, <3>1, <3>5, Zenon DEF Between
  <2>. QED  BY <2>5, <2>6 DEF w
<1>. QED  BY <1>1, <1>2

(* The times of the samples increase, their depths have bounds: so has the *)
(* average, and there is one if there is a depth.                          *)
LEMMA MeasuredBetween ==
    ASSUME NEW list \in Seq(ParsedSample), NEW lo \in Nat, NEW hi \in Nat,
           \A i \in 1..Len(list) : list[i].depth # NoDepth => list[i].depth \in lo..hi,
           \A i, j \in 1..Len(list) : i < j => list[i].time <= list[j].time
    PROVE  /\ Measured(list) \in Measure
           /\ Between(Measured(list), lo, hi)
           /\ (\E i \in 1..Len(list) : list[i].depth # NoDepth) => Measured(list).count # 0
<1>. DEFINE m == MeasuredUpTo(list)
            N == Len(list)
            Good(n) == /\ Between(m[n], lo, hi)
                       /\ m[n].count # 0 => \E i \in 1..n : m[n].last = list[i].time
                       /\ (\E i \in 1..n : list[i].depth # NoDepth) => m[n].count # 0
            T == {n \in 0..N : Good(n)}
<1>1. N \in Nat /\ 0 \in Int /\ N \in Int
  OBVIOUS
<1>2. /\ m[0] = NoneMeasured
      /\ \A n \in 1..N : m[n] = WithDepth(m[n - 1], list[n])
      /\ \A n \in 0..N : m[n] \in Measure
  BY MeasuredIs
<1>. HIDE DEF m
<1>3. 0 \in T
  BY <1>1, <1>2 DEF Between, NoneMeasured
<1>4. ASSUME NEW n \in 0..(N - 1), n \in T PROVE n + 1 \in T
  <2>. DEFINE k == n + 1
  <2>1. k \in 1..N /\ k \in 0..N /\ n \in 0..N /\ k - 1 = n /\ n < k /\ 1..k = 1..n \cup {k}
        /\ 1..n \subseteq 1..N
    BY <1>1
  <2>. HIDE DEF k
  <2>2. m[k] = WithDepth(m[n], list[k]) /\ m[n] \in Measure /\ Good(n)
    <3>1. m[k] = WithDepth(m[k - 1], list[k])
      BY <1>2, <2>1
    <3>. QED  BY <1>2, <1>4, <2>1, <3>1
  <2>3. list[k] \in ParsedSample /\ list[k].time \in Nat
    BY <2>1, SampleFields
  <2>4. m[n].count # 0 => m[n].last <= list[k].time
    <3>1. \A i \in 1..n : i \in 1..N /\ i < k
      BY <2>1
    <3>. QED  BY <2>1, <2>2, <3>1
  <2>5. Between(m[k], lo, hi)
    BY <2>1, <2>2, <2>3, <2>4, BetweenStep
  <2>6. m[n].count \in Nat
    BY <2>2 DEF Measure
  <2>7. CASE list[k].depth = NoDepth
    <3>1. m[k] = m[n]
      BY <2>2, <2>7 DEF WithDepth
    <3>. QED  BY <2>1, <2>2, <2>5, <2>7, <3>1 DEF k
  <2>8. CASE list[k].depth # NoDepth
    <3>1. m[k].count = m[n].count + 1 /\ m[k].last = list[k].time
      BY <2>2, <2>8 DEF WithDepth
    <3>2. m[k].count # 0
      BY <2>6, <3>1
    <3>3. k \in 1..k /\ \E i \in 1..k : m[k].last = list[i].time
      BY <2>1, <3>1
    <3>. QED  BY <2>1, <2>5, <3>2, <3>3 DEF k
  <2>. QED  BY <2>7, <2>8
<1>. HIDE DEF T
<1>5. N \in T
  <2>1. 0..N \subseteq T
    BY <1>1, <1>3, <1>4, RangeSet
  <2>. QED  BY <1>1, <2>1
<1>6. Measured(list) = m[N] /\ m[N] \in Measure
  BY <1>1, <1>2 DEF Measured, m
<1>. QED  BY <1>5, <1>6 DEF T

(* The average of the sorted samples is between the bounds of their        *)
(* depths.                                                                 *)
LEMMA AverageIs ==
    ASSUME NEW list \in Seq(ParsedSample), NEW lo \in Nat, NEW hi \in Nat,
           \A i \in 1..Len(list) : list[i].depth # NoDepth => list[i].depth \in lo..hi
    PROVE  LET average == AverageDepth(list) IN
           /\ average \in [sum : Nat, per : Nat \ {0}]
           /\ (\E i \in 1..Len(list) : list[i].depth # NoDepth) =>
                 lo * average.per <= average.sum /\ average.sum <= hi * average.per
<1>. DEFINE sorted == Sorted(list)
            n == Len(list)
            m == Measured(sorted)
            average == AverageDepth(list)
<1> SUFFICES /\ average \in [sum : Nat, per : Nat \ {0}]
             /\ (\E i \in 1..n : list[i].depth # NoDepth) =>
                   lo * average.per <= average.sum /\ average.sum <= hi * average.per
  OBVIOUS
<1>1. n \in Nat /\ sorted \in Seq(ParsedSample) /\ Len(sorted) = n
  BY SortedType
<1>2. PICK p \in [1..n -> 1..n] :
         /\ sorted = [k \in 1..n |-> list[p[k]]]
         /\ \A k, l \in 1..n : k < l =>
               \/ list[p[k]].time < list[p[l]].time
               \/ list[p[k]].time = list[p[l]].time /\ p[k] < p[l]
         /\ \A j \in 1..n : \E k \in 1..n : p[k] = j
  BY SortedIs
<1>. HIDE DEF sorted, n, average
<1>3. \A k \in 1..n : p[k] \in 1..n /\ sorted[k] = list[p[k]] /\ sorted[k].time \in Nat
  BY <1>1, <1>2, SampleFields DEF n
<1>4. ASSUME NEW k \in 1..n, NEW l \in 1..n, k < l
      PROVE  sorted[k].time <= sorted[l].time
  <2>1. \/ list[p[k]].time < list[p[l]].time
        \/ list[p[k]].time = list[p[l]].time /\ p[k] < p[l]
    BY <1>2, <1>4
  <2>2. sorted[k] = list[p[k]] /\ sorted[l] = list[p[l]]
    BY <1>3
  <2>3. sorted[k].time \in Nat /\ sorted[l].time \in Nat
    BY <1>3
  <2>. QED  BY <2>1, <2>2, <2>3
<1>5. \A k \in 1..n : sorted[k].depth # NoDepth => sorted[k].depth \in lo..hi
  BY <1>3 DEF n
<1>6. (\E i \in 1..n : list[i].depth # NoDepth) => \E k \in 1..n : sorted[k].depth # NoDepth
  <2> SUFFICES ASSUME NEW i \in 1..n, list[i].depth # NoDepth
               PROVE  \E k \in 1..n : sorted[k].depth # NoDepth
    OBVIOUS
  <2>1. PICK k \in 1..n : p[k] = i
    BY <1>2
  <2>. QED  BY <1>3, <2>1
<1>. HIDE DEF m
<1>7. /\ m \in Measure /\ Between(m, lo, hi)
      /\ (\E i \in 1..n : list[i].depth # NoDepth) => m.count # 0
  BY <1>1, <1>4, <1>5, <1>6, MeasuredBetween DEF m
<1>8. m.count \in Nat /\ m.sum \in Nat /\ m.first \in Nat /\ m.last \in Nat /\ m.area \in Int
  BY <1>7 DEF Measure
<1>9. average = IF m.count = 0 THEN [sum |-> 0, per |-> 1]
                ELSE IF m.last - m.first = 0 THEN [sum |-> m.sum, per |-> m.count]
                ELSE [sum |-> m.area, per |-> 2 * (m.last - m.first)]
  BY DEF AverageDepth, average, m, sorted
<1>10. CASE m.count = 0
  BY <1>7, <1>9, <1>10
<1>11. CASE m.count # 0 /\ m.last - m.first = 0
  <2>1. average = [sum |-> m.sum, per |-> m.count]
    BY <1>9, <1>11
  <2>2. average.sum = m.sum /\ average.per = m.count
    BY <2>1
  <2>3. lo * m.count <= m.sum /\ m.sum <= hi * m.count
    BY <1>7, <1>11 DEF Between
  <2>4. average \in [sum : Nat, per : Nat \ {0}]
    BY <1>8, <1>11, <2>1
  <2>5. lo * average.per <= average.sum /\ average.sum <= hi * average.per
    BY <2>2, <2>3
  <2>. QED  BY <2>4, <2>5
<1>12. CASE m.count # 0 /\ m.last - m.first # 0
  <2>. DEFINE per == 2 * (m.last - m.first)
  <2>1. per \in Nat \ {0}
    <3>1. m.first <= m.last
      BY <1>7, <1>12 DEF Between
    <3>. QED  BY <1>8, <1>12, <3>1
  <2>2. lo * per <= m.area /\ m.area <= hi * per
    BY <1>7, <1>12 DEF Between
  <2>3. average = [sum |-> m.area, per |-> per]
    BY <1>9, <1>12
  <2>. HIDE DEF per
  <2>4. m.area \in Nat
    <3>1. lo * per \in Nat
      BY <2>1
    <3>. QED  BY <1>8, <2>2, <3>1
  <2>. QED  BY <2>1, <2>2, <2>3, <2>4
<1>. QED  BY <1>10, <1>11, <1>12

-----------------------------------------------------------------------------
(* The dive is over at sample i, as far as the first n samples tell. *)
OverAt(i, n) ==
    /\ parsed[i].depth = 0
    /\ \A j \in (i + 1)..n : parsed[j].depth < DepthMin

(* currentLast is the first of the samples seen at which the dive is over. *)
Scanned ==
    LET n == scan.at - 1 IN
    /\ scan.at \in Nat \ {0} /\ n <= Len(parsed)
    /\ scan.last \in 0..n
    /\ scan.last # 0 => OverAt(scan.last, n)
    /\ \A i \in 1..n : OverAt(i, n) => scan.last # 0 /\ scan.last <= i

TypeInv ==
    /\ family \in Families
    /\ clock \in Nat
    /\ samples \in Seq(ParsedSample)
    /\ parsed \in Seq(ParsedSample)

ScanInv ==
    /\ phase \in {"samples", "alarms"} => scan = [at |-> 1, last |-> 0]
    /\ phase = "truncate" => samples = parsed /\ Scanned

FixInv == phase = "fix" => samples = Kept

(* What truncation cuts away is all shallower than 1 m. *)
NothingDeepIsCut ==
    phase = "fix" =>
        \A i \in DOMAIN parsed : parsed[i].depth >= DepthMin => i <= Len(samples)

-----------------------------------------------------------------------------
(* The parser's samples. *)

LEMMA FamilyIs ==
    ASSUME NEW f \in Families
    PROVE  /\ f.intervals \subseteq Nat /\ f.depths \subseteq Nat
           /\ f.alarmTimes \subseteq Nat /\ f.readings \subseteq Reading
           /\ \A r \in f.reported :
                 /\ r.average \in Nat
                 /\ r.pressures # <<>> => r.pressures[1] \in Nat /\ r.pressures[2] \in Nat
<1>1. /\ f.intervals \subseteq Nat /\ f.depths \subseteq Nat
      /\ f.alarmTimes \subseteq Nat /\ f.readings \subseteq Reading
      /\ f.reported \subseteq Reported
  BY FamiliesAssumption
<1>2. \A p \in (Nat \ 0..1) \X (Nat \ 0..1) : p[1] \in Nat /\ p[2] \in Nat
  OBVIOUS
<1>3. ASSUME NEW r \in f.reported
      PROVE  /\ r.average \in Nat
             /\ r.pressures # <<>> => r.pressures[1] \in Nat /\ r.pressures[2] \in Nat
  <2>1. /\ r.average \in Nat
        /\ r.pressures = <<>> \/ r.pressures \in (Nat \ 0..1) \X (Nat \ 0..1)
    BY <1>1 DEF Reported
  <2>. QED  BY <1>2, <2>1, Zenon
<1>. QED  BY <1>1, <1>3

LEMMA Loosely ==
    ASSUME TypeOK
    PROVE  Sample = SampleOf(family.depths) /\ Sample \subseteq ParsedSample /\ TypeInv
<1>1. family \in Families /\ family.depths \subseteq Nat
  BY FamilyIs DEF TypeOK
<1>2. Sample = SampleOf(family.depths)
  BY DEF Sample, SampleOf
<1>3. Sample \subseteq ParsedSample
  BY <1>1, <1>2 DEF SampleOf, ParsedSample
<1>. QED  BY <1>1, <1>2, <1>3 DEF TypeOK, TypeInv

LEMMA NewSampleType ==
    ASSUME NEW D, NEW t \in Nat
    PROVE  /\ NewSample(t) \in SampleOf(D)
           /\ [NewSample(t) EXCEPT !.alarms = 1] \in SampleOf(D)
<1>1. <<>> \in Seq(Reading)
  OBVIOUS
<1>. HIDE DEF Reading
<1>. QED  BY <1>1 DEF NewSample, SampleOf

(* The parser's milliseconds, and the seconds they are. *)
LEMMA Seconds ==
    ASSUME NEW c \in Nat, NEW i \in Nat
    PROVE  c + i \in Nat /\ (c + i) \div 1000 \in Nat
<1>. DEFINE t == c + i
<1>1. t \in Nat
  OBVIOUS
<1>. HIDE DEF t
<1>2. t \div 1000 \in Int /\ t \div 1000 >= 0
  BY <1>1
<1>. QED  BY <1>1, <1>2 DEF t

(* The initial pressure fix rewrites the pressures of the samples before   *)
(* the first valid one, and nothing else.                                  *)
LEMMA SetPressureIs ==
    ASSUME NEW D, NEW s \in SampleOf(D), NEW r \in Reading
    PROVE  LET w == SetPressure(s, r) IN
           /\ w \in SampleOf(D)
           /\ w.time = s.time /\ w.depth = s.depth /\ w.alarms = s.alarms
           /\ HasPressure(w) /\ Pressure(w).value = r.value
<1>1. CASE HasPressure(s)
  <2>. DEFINE first == [s.pressures[1] EXCEPT !.value = r.value]
              ps == [s.pressures EXCEPT ![1] = first]
  <2>1. s.pressures \in Seq(Reading) /\ s.pressures # <<>> /\ 1 \in 1..Len(s.pressures)
    BY <1>1 DEF SampleOf, HasPressure
  <2>2. first \in Reading /\ first.value = r.value
    <3>1. s.pressures[1] \in Reading
      <4>. HIDE DEF Reading
      <4>. QED  BY <2>1
    <3>. QED  BY <3>1 DEF Reading
  <2>3. SetPressure(s, r) = [s EXCEPT !.pressures = ps]
    BY <1>1 DEF SetPressure
  <2>. HIDE DEF first
  <2>4. ps \in Seq(Reading) /\ ps[1] = first /\ Len(ps) = Len(s.pressures)
    <3>. HIDE DEF Reading
    <3>. QED  BY <2>1, <2>2
  <2>5. ps # <<>>
    BY <2>1, <2>4
  <2>. HIDE DEF ps, Reading
  <2>6. [s EXCEPT !.pressures = ps] \in SampleOf(D)
    BY <2>4 DEF SampleOf
  <2>7. /\ [s EXCEPT !.pressures = ps].pressures = ps
        /\ [s EXCEPT !.pressures = ps].time = s.time
        /\ [s EXCEPT !.pressures = ps].depth = s.depth
        /\ [s EXCEPT !.pressures = ps].alarms = s.alarms
    BY DEF SampleOf
  <2>. QED  BY <2>2, <2>3, <2>4, <2>5, <2>6, <2>7 DEF HasPressure, Pressure
<1>2. CASE ~HasPressure(s)
  <2>1. SetPressure(s, r) = [s EXCEPT !.pressures = <<r>>]
    BY <1>2 DEF SetPressure
  <2>2. <<r>> \in Seq(Reading) /\ <<r>> # <<>> /\ <<r>>[1] = r
    <3>. HIDE DEF Reading
    <3>. QED  OBVIOUS
  <2>. DEFINE ps == <<r>>
  <2>3. ps \in Seq(Reading) /\ ps # <<>> /\ ps[1] = r
    BY <2>2
  <2>4. SetPressure(s, r) = [s EXCEPT !.pressures = ps]
    BY <2>1
  <2>. HIDE DEF ps, Reading
  <2>5. [s EXCEPT !.pressures = ps] \in SampleOf(D)
    BY <2>3 DEF SampleOf
  <2>6. /\ [s EXCEPT !.pressures = ps].pressures = ps
        /\ [s EXCEPT !.pressures = ps].time = s.time
        /\ [s EXCEPT !.pressures = ps].depth = s.depth
        /\ [s EXCEPT !.pressures = ps].alarms = s.alarms
    BY DEF SampleOf
  <2>. QED  BY <2>3, <2>4, <2>5, <2>6 DEF HasPressure, Pressure
<1>. QED  BY <1>1, <1>2

Above(list) ==
    {i \in 1..Len(list) : HasPressure(list[i]) /\ Pressure(list[i]).value > PressureMin}

LEMMA AboveFirst ==
    ASSUME NEW list \in Seq(ParsedSample), Above(list) # {}
    PROVE  /\ Min(Above(list)) \in Above(list) /\ Min(Above(list)) \in 1..Len(list)
           /\ \A i \in Above(list) : Min(Above(list)) <= i
<1>1. Above(list) \in SUBSET (1..Len(list)) /\ Len(list) \in Nat
  BY DEF Above
<1>2. \E x \in Above(list) : \A y \in Above(list) : x <= y
  BY <1>1, RangeEnds
<1>. QED  BY <1>1, <1>2 DEF Min

LEMMA FixIs ==
    ASSUME NEW list \in Seq(ParsedSample)
    PROVE  LET first == Min(Above(list)) IN
           /\ Above(list) = {} => InitialPressureFix(list) = list
           /\ Above(list) # {} =>
                 InitialPressureFix(list) =
                    [i \in 1..Len(list) |-> IF i < first
                                            THEN SetPressure(list[i], Pressure(list[first]))
                                            ELSE list[i]]
<1>1. DOMAIN list = 1..Len(list)
  OBVIOUS
<1>2. Above(list) = {i \in DOMAIN list :
                        HasPressure(list[i]) /\ Pressure(list[i]).value > PressureMin}
  BY <1>1, Zenon DEF Above
<1>. QED  BY <1>1, <1>2, Zenon DEF InitialPressureFix

LEMMA FixType ==
    ASSUME NEW D, D \subseteq Nat, NEW list \in Seq(SampleOf(D))
    PROVE  LET fixed == InitialPressureFix(list) IN
           /\ fixed \in Seq(SampleOf(D)) /\ Len(fixed) = Len(list)
           /\ \A i \in 1..Len(list) :
                 /\ fixed[i].time = list[i].time /\ fixed[i].depth = list[i].depth
                 /\ fixed[i].alarms = list[i].alarms
<1>. DEFINE fixed == InitialPressureFix(list)
            n == Len(list)
<1>1. list \in Seq(ParsedSample) /\ n \in Nat /\ \A i \in 1..n : list[i] \in SampleOf(D)
  <2>1. SampleOf(D) \subseteq ParsedSample
    BY DEF SampleOf, ParsedSample
  <2>. HIDE DEF SampleOf, ParsedSample
  <2>. QED  BY <2>1
<1>2. CASE Above(list) = {}
  BY <1>1, <1>2, FixIs
<1>3. CASE Above(list) # {}
  <2>. DEFINE first == Min(Above(list))
              r == Pressure(list[first])
  <2>1. r \in Reading
    <3>1. list[first] \in ParsedSample /\ HasPressure(list[first])
      BY <1>1, <1>3, AboveFirst DEF Above
    <3>. QED  BY <3>1, PressureType
  <2>2. fixed = [i \in 1..n |-> IF i < first THEN SetPressure(list[i], r) ELSE list[i]]
    BY <1>1, <1>3, FixIs
  <2>. HIDE DEF first, r, fixed
  <2>3. \A i \in 1..n : /\ fixed[i] \in SampleOf(D)
                        /\ fixed[i].time = list[i].time /\ fixed[i].depth = list[i].depth
                        /\ fixed[i].alarms = list[i].alarms
    BY <1>1, <2>1, <2>2, SetPressureIs
  <2>4. fixed \in Seq(SampleOf(D)) /\ Len(fixed) = n
    BY <1>1, <2>2, <2>3
  <2>. QED  BY <2>3, <2>4 DEF fixed
<1>. QED  BY <1>2, <1>3

-----------------------------------------------------------------------------
(* The loop. *)

LEMMA ScanStep ==
    ASSUME TypeInv, ScanInv, Scan
    PROVE  Scanned'
<1>1. /\ parsed \in Seq(ParsedSample) /\ samples = parsed /\ Scanned
      /\ scan.at \in 1..Len(parsed) /\ Len(parsed) \in Nat
      /\ scan' = [at |-> scan.at + 1, last |-> CurrentLast(parsed[scan.at].depth)]
      /\ UNCHANGED parsed
  BY DEF TypeInv, ScanInv, Scan, Scanned
<1>2. PICK at \in Nat \ {0}, last \in Nat, depth \in Int :
         /\ at = scan.at /\ last = scan.last /\ depth = parsed[at].depth
  <2>1. parsed[scan.at] \in ParsedSample
    BY <1>1
  <2>2. parsed[scan.at].depth \in Int
    BY <2>1 DEF ParsedSample, SampleOf, NoDepth
  <2>. QED  BY <1>1, <2>2 DEF Scanned
<1>3. PICK last2 : last2 = CurrentLast(depth)
  OBVIOUS
<1>4. scan'.at = at + 1 /\ scan'.last = last2 /\ scan'.at - 1 = at
  BY <1>1, <1>2, <1>3
<1>5. last2 = IF depth >= DepthMin THEN 0
              ELSE IF last = 0 /\ depth = 0 THEN at ELSE last
  BY <1>2, <1>3 DEF CurrentLast, DepthMin, Epsilon
<1>6. /\ at <= Len(parsed) /\ last \in 0..(at - 1)
      /\ last # 0 => OverAt(last, at - 1)
      /\ \A i \in 1..(at - 1) : OverAt(i, at - 1) => last # 0 /\ last <= i
  BY <1>1, <1>2 DEF Scanned
<1>7. \A i \in 1..(at - 1) :
         OverAt(i, at) <=> OverAt(i, at - 1) /\ depth < DepthMin
  <2> SUFFICES ASSUME NEW i \in 1..(at - 1)
               PROVE  (\A j \in (i + 1)..at : parsed[j].depth < DepthMin)
                        <=> /\ \A j \in (i + 1)..(at - 1) : parsed[j].depth < DepthMin
                            /\ parsed[at].depth < DepthMin
    BY <1>2 DEF OverAt
  <2>1. (i + 1)..at = ((i + 1)..(at - 1)) \cup {at}
    BY <1>2
  <2>. QED  BY <2>1
<1>8. OverAt(at, at) <=> depth = 0
  BY <1>2 DEF OverAt
<1>9. /\ last2 \in 0..at
      /\ last2 # 0 => OverAt(last2, at)
      /\ \A i \in 1..at : OverAt(i, at) => last2 # 0 /\ last2 <= i
  <2>1. CASE depth >= DepthMin
    BY <1>5, <1>6, <1>7, <1>8, <2>1 DEF DepthMin
  <2>2. CASE depth < DepthMin /\ last = 0 /\ depth = 0
    BY <1>5, <1>6, <1>7, <1>8, <2>2 DEF DepthMin
  <2>3. CASE depth < DepthMin /\ ~(last = 0 /\ depth = 0)
    BY <1>5, <1>6, <1>7, <1>8, <2>3 DEF DepthMin
  <2>. QED  BY <2>1, <2>2, <2>3 DEF DepthMin
<1>10. SUFFICES /\ at + 1 \in Nat \ {0} /\ at <= Len(parsed)
                /\ last2 \in 0..at
                /\ last2 # 0 => OverAt(last2, at)
                /\ \A i \in 1..at : OverAt(i, at) => last2 # 0 /\ last2 <= i
  BY <1>1, <1>4 DEF Scanned, OverAt
<1>11. at + 1 \in Nat \ {0} /\ at <= Len(parsed)
  BY <1>2, <1>6
<1>. QED  BY <1>9, <1>11, Zenon

(* When the loop has seen every sample, none of 1 m or more is behind      *)
(* currentLast ...                                                         *)
LEMMA NoneDeepBehind ==
    ASSUME TypeInv, ScanInv, phase = "truncate", opts.truncate => scan.at > Len(samples)
    PROVE  LET kept == IF opts.truncate THEN TruncateDive ELSE samples
           IN  \A i \in DOMAIN parsed : parsed[i].depth >= DepthMin => i <= Len(kept)
<1>1. parsed \in Seq(ParsedSample) /\ Len(parsed) \in Nat /\ samples = parsed /\ Scanned
  BY DEF TypeInv, ScanInv
<1>2. CASE ~opts.truncate \/ scan.last = 0
  BY <1>1, <1>2 DEF TruncateDive
<1>3. CASE opts.truncate /\ scan.last # 0
  <2>1. scan.last \in 1..Len(parsed) /\ scan.at - 1 = Len(parsed)
    BY <1>1, <1>3 DEF Scanned
  <2>2. Len(SubSeq(parsed, 1, scan.last)) = scan.last
    BY <1>1, <2>1
  <2>3. \A j \in (scan.last + 1)..Len(parsed) : parsed[j].depth < DepthMin
    BY <1>1, <1>3, <2>1 DEF Scanned, OverAt
  <2>4. ASSUME NEW i \in DOMAIN parsed, parsed[i].depth >= DepthMin PROVE i <= scan.last
    <3>1. parsed[i] \in ParsedSample
      BY <1>1
    <3>2. parsed[i].depth \in Int /\ DepthMin \in Int
      BY <3>1 DEF ParsedSample, SampleOf, NoDepth, DepthMin
    <3>. QED  BY <1>1, <2>1, <2>3, <2>4, <3>2
  <2>. QED  BY <1>1, <1>3, <2>2, <2>4 DEF TruncateDive
<1>. QED  BY <1>2, <1>3

(* ... which is the surfacing. *)
LEMMA ScanEnds ==
    ASSUME TypeInv, ScanInv, phase = "truncate", scan.at > Len(samples)
    PROVE  scan.last = Surfacing(parsed)
<1>. DEFINE over == {i \in DOMAIN parsed :
                        /\ parsed[i].depth = 0
                        /\ \A j \in (i + 1)..Len(parsed) : parsed[j].depth < DepthMin}
            n == Len(parsed)
<1>1. parsed \in Seq(ParsedSample) /\ n \in Nat /\ Scanned /\ scan.at - 1 = n
  BY DEF TypeInv, ScanInv, Scanned
<1>2. over = {i \in 1..n : OverAt(i, n)}
  BY <1>1 DEF OverAt
<1>3. /\ scan.last \in 0..n
      /\ scan.last # 0 => OverAt(scan.last, n)
      /\ \A i \in 1..n : OverAt(i, n) => scan.last # 0 /\ scan.last <= i
  BY <1>1 DEF Scanned
<1>. HIDE DEF over, n
<1>4. scan.last = IF over = {} THEN 0 ELSE Min(over)
  <2>1. CASE scan.last = 0
    BY <1>2, <1>3, <2>1
  <2>2. CASE scan.last # 0
    <3>1. scan.last \in over /\ \A i \in over : i \in Nat /\ scan.last <= i
      BY <1>1, <1>2, <1>3, <2>2
    <3>2. Min(over) \in over /\ \A i \in over : Min(over) <= i
      BY <3>1 DEF Min
    <3>. QED  BY <1>1, <1>3, <3>1, <3>2
  <2>. QED  BY <2>1, <2>2
<1>. QED  BY <1>4 DEF Surfacing, over

LEMMA ScanNext ==
    ASSUME TypeInv, ScanInv, FixInv, NothingDeepIsCut, [Next]_vars
    PROVE  ScanInv' /\ FixInv' /\ NothingDeepIsCut'
<1>. USE DEF ScanInv, FixInv, NothingDeepIsCut
<1>1. CASE Parsing
  <2>1. CASE DiveParsed
    <3>1. /\ parsed' = samples /\ samples' = samples /\ samples \in Seq(ParsedSample)
          /\ scan' = [at |-> 1, last |-> 0] /\ phase' = "truncate"
      BY <2>1 DEF DiveParsed, TypeInv
    <3>2. scan'.at = 1 /\ scan'.last = 0 /\ Len(parsed') \in Nat
      BY <3>1
    <3>. QED  BY <3>1, <3>2 DEF Scanned
  <2>2. CASE ~DiveParsed
    <3>1. /\ phase \in {"samples", "alarms"} /\ phase' \in {"samples", "alarms"}
          /\ UNCHANGED scan
      BY <1>1, <2>2 DEF Parsing, Time, Depth, TankPressure, SamplesParsed, AddAlarm
    <3>. QED  BY <3>1
  <2>. QED  BY <2>1, <2>2
<1>2. CASE Scan
  <2>1. Scanned'
    BY <1>2, ScanStep
  <2>. QED  BY <1>2, <2>1 DEF Scan
<1>3. CASE Truncate
  <2>1. /\ phase = "truncate" /\ phase' = "fix" /\ UNCHANGED <<opts, parsed>>
        /\ samples = parsed
        /\ samples' = IF opts.truncate THEN TruncateDive ELSE samples
    BY <1>3 DEF Truncate
  <2>2. ASSUME opts.truncate PROVE scan.last = Surfacing(parsed)
    BY <1>3, <2>1, <2>2, ScanEnds DEF Truncate
  <2>3. samples' = Kept
    BY <2>1, <2>2 DEF TruncateDive, Kept, Surfaced
  <2>4. Kept' = Kept
    BY <2>1 DEF Kept, Surfaced, Surfacing
  <2>5. \A i \in DOMAIN parsed : parsed[i].depth >= DepthMin => i <= Len(samples')
    <3>1. opts.truncate => scan.at > Len(samples)
      BY <1>3 DEF Truncate
    <3>. QED  BY <2>1, <3>1, NoneDeepBehind
  <2>. QED  BY <2>1, <2>3, <2>4, <2>5
<1>4. CASE Fix \/ Save
  BY <1>4 DEF Fix, Save
<1>5. CASE UNCHANGED vars
  BY <1>5 DEF vars, Scanned, OverAt, Kept, Surfaced, Surfacing
<1>. QED  BY <1>1, <1>2, <1>3, <1>4, <1>5 DEF Next

-----------------------------------------------------------------------------
(* The types. *)

LEMMA FoundIs ==
    ASSUME NEW list \in Seq(ParsedSample), NEW t
    PROVE  LET found == FindSample(list, t)
               at == {i \in 1..Len(list) : list[i].time = t}
           IN  /\ at = {} => found = 0
               /\ at # {} => found \in at /\ \A i \in at : found <= i
<1>. DEFINE at == {i \in 1..Len(list) : list[i].time = t}
<1>1. FindSample(list, t) = IF at # {} THEN Min(at) ELSE 0
  BY DEF FindSample, SelectInSeq
<1>2. at \in SUBSET (1..Len(list)) /\ Len(list) \in Nat
  OBVIOUS
<1>. HIDE DEF at
<1>3. at # {} => \E x \in at : \A y \in at : x <= y
  BY <1>2, RangeEnds
<1>4. at # {} => Min(at) \in at /\ \A y \in at : Min(at) <= y
  BY <1>3 DEF Min
<1>. QED  BY <1>1, <1>4 DEF at

LEMMA TypeNext ==
    ASSUME TypeOK, ScanInv, [Next]_vars
    PROVE  TypeOK'
<1>. DEFINE S == Sample
            ScanType == [at : Nat \ {0}, last : Nat]
            InfoType == [tankBegin : Nat, greatest : Nat, duration : Nat, begin : Nat, end : Nat,
                         drop : Nat, average : [sum : Nat, per : Nat \ {0}]]
<1>1. SUFFICES ASSUME Next PROVE TypeOK'
  BY DEF vars, TypeOK, Sample
<1>2. UNCHANGED <<family, opts, reported>>
  BY <1>1 DEF Next, Parsing, Time, Depth, TankPressure, SamplesParsed, AddAlarm, DiveParsed,
              Scan, Truncate, Fix, Save
<1>3. Sample' = Sample
  BY <1>2 DEF Sample
<1>4. /\ S = SampleOf(family.depths) /\ S \subseteq ParsedSample
      /\ TypeInv /\ family.depths \subseteq Nat /\ family \in Families
  BY Loosely, FamilyIs DEF TypeOK
<1>5. /\ phase \in Phases /\ clock \in Nat /\ samples \in Seq(S) /\ timed \in Nat
      /\ alarms \subseteq family.alarmTimes /\ parsed \in Seq(S)
      /\ scan \in ScanType /\ info \in InfoType
  BY DEF TypeOK
<1>6. SUFFICES /\ phase' \in Phases /\ clock' \in Nat /\ samples' \in Seq(S) /\ timed' \in Nat
               /\ alarms' \subseteq family.alarmTimes /\ parsed' \in Seq(S)
               /\ scan' \in ScanType /\ info' \in InfoType
  BY <1>2, <1>3 DEF TypeOK
<1>. HIDE DEF S
<1>7. \A i \in 1..Len(samples) : samples[i] \in S
  BY <1>5
<1>8. CASE \E interval \in family.intervals : Time(interval)
  <2>1. PICK interval \in family.intervals : Time(interval)
    BY <1>8
  <2>. DEFINE t == (clock + interval) \div 1000
  <2>2. interval \in Nat
    BY <1>4, FamilyIs
  <2>3. clock + interval \in Nat /\ t \in Nat
    BY <1>5, <2>2, Seconds
  <2>4. clock' = clock + interval /\ samples' = Append(samples, NewSample(t))
    BY <2>1 DEF Time
  <2>. HIDE DEF t
  <2>5. NewSample(t) \in S
    BY <1>4, <2>3, NewSampleType
  <2>6. samples' \in Seq(S) /\ clock' \in Nat
    BY <1>5, <2>3, <2>4, <2>5
  <2>7. UNCHANGED <<phase, timed, alarms, parsed, scan, info>>
    BY <2>1 DEF Time
  <2>. QED  BY <1>5, <2>6, <2>7
<1>9. CASE \E d \in family.depths : Depth(d)
  <2>1. PICK d \in family.depths : Depth(d)
    BY <1>9
  <2>2. \A s \in S : [s EXCEPT !.depth = d] \in S
    BY <1>4 DEF SampleOf
  <2>3. samples' = [samples EXCEPT ![Len(samples)] =
                        [samples[Len(samples)] EXCEPT !.depth = d]]
    BY <2>1 DEF Depth
  <2>4. samples' \in Seq(S)
    BY <1>5, <1>7, <2>2, <2>3, Replaced, Zenon
  <2>5. UNCHANGED <<phase, clock, timed, alarms, parsed, scan, info>>
    BY <2>1 DEF Depth
  <2>. QED  BY <1>5, <2>4, <2>5
<1>10. CASE \E r \in family.readings : TankPressure(r)
  <2>1. PICK r \in family.readings : TankPressure(r)
    BY <1>10
  <2>2. r \in Reading
    BY <1>4, FamilyIs
  <2>3. \A s \in S : [s EXCEPT !.pressures = Append(s.pressures, r)] \in S
    <3> SUFFICES ASSUME NEW s \in S
                 PROVE  [s EXCEPT !.pressures = Append(s.pressures, r)] \in S
      OBVIOUS
    <3>1. s.pressures \in Seq(Reading)
      BY <1>4 DEF SampleOf
    <3>. DEFINE ps == Append(s.pressures, r)
    <3>2. ps \in Seq(Reading)
      <4>. HIDE DEF Reading
      <4>. QED  BY <2>2, <3>1
    <3>. HIDE DEF ps, Reading
    <3>3. [s EXCEPT !.pressures = ps] \in S
      BY <1>4, <3>2 DEF SampleOf
    <3>. QED  BY <3>3 DEF ps
  <2>4. samples' = [samples EXCEPT ![Len(samples)] =
            [samples[Len(samples)] EXCEPT
                !.pressures = Append(samples[Len(samples)].pressures, r)]]
    BY <2>1 DEF TankPressure
  <2>5. samples' \in Seq(S)
    BY <1>5, <1>7, <2>3, <2>4, Replaced, Zenon
  <2>6. UNCHANGED <<phase, clock, timed, alarms, parsed, scan, info>>
    BY <2>1 DEF TankPressure
  <2>. QED  BY <1>5, <2>5, <2>6
<1>11. CASE SamplesParsed \/ DiveParsed
  BY <1>5, <1>11 DEF SamplesParsed, DiveParsed, Phases
<1>12. CASE \E t \in family.alarmTimes : AddAlarm(t)
  <2>1. PICK t \in family.alarmTimes : AddAlarm(t)
    BY <1>12
  <2>. DEFINE found == FindSample(samples, t)
  <2>2. t \in Nat
    BY <1>4, FamilyIs
  <2>. HIDE DEF found
  <2>3. \/ samples' = Append(samples, [NewSample(t) EXCEPT !.alarms = 1])
        \/ samples' = [samples EXCEPT ![found] =
                          [samples[found] EXCEPT !.alarms = samples[found].alarms + 1]]
    BY <2>1 DEF AddAlarm, found
  <2>4. \A s \in S : [s EXCEPT !.alarms = s.alarms + 1] \in S
    BY <1>4 DEF SampleOf
  <2>5. samples' \in Seq(S)
    <3>1. CASE samples' = Append(samples, [NewSample(t) EXCEPT !.alarms = 1])
      <4>1. [NewSample(t) EXCEPT !.alarms = 1] \in S
        BY <1>4, <2>2, NewSampleType
      <4>. QED  BY <1>5, <3>1, <4>1
    <3>2. CASE samples' = [samples EXCEPT ![found] =
                          [samples[found] EXCEPT !.alarms = samples[found].alarms + 1]]
      BY <1>5, <1>7, <2>4, <3>2, Replaced, Zenon
    <3>. QED  BY <2>3, <3>1, <3>2
  <2>6. UNCHANGED <<phase, clock, timed, parsed, scan, info>> /\ alarms' = alarms \cup {t}
    BY <2>1 DEF AddAlarm
  <2>. QED  BY <1>5, <2>5, <2>6
<1>13. CASE Scan
  <2>1. /\ UNCHANGED <<phase, clock, samples, timed, alarms, parsed, info>>
        /\ scan' = [at |-> scan.at + 1, last |-> CurrentLast(samples[scan.at].depth)]
    BY <1>13 DEF Scan
  <2>. DEFINE last == CurrentLast(samples[scan.at].depth)
  <2>2. last = 0 \/ last = scan.at \/ last = scan.last
    BY DEF CurrentLast
  <2>. HIDE DEF last
  <2>3. scan' \in ScanType
    <3>1. scan.at \in Nat /\ scan.at + 1 \in Nat \ {0} /\ scan.last \in Nat
      BY <1>5
    <3>2. last \in Nat
      BY <2>2, <3>1
    <3>. QED  BY <2>1, <3>1, <3>2 DEF last
  <2>. QED  BY <1>5, <2>1, <2>3
<1>14. CASE Truncate
  <2>1. /\ UNCHANGED <<clock, timed, alarms, parsed, scan, info>> /\ phase' = "fix"
        /\ samples' = IF opts.truncate THEN TruncateDive ELSE samples
        /\ samples = parsed /\ Scanned
    BY <1>14 DEF Truncate, ScanInv
  <2>2. Len(samples) \in Nat /\ scan.last \in 0..Len(samples)
    <3>1. scan.at \in Nat /\ scan.at - 1 <= Len(samples) /\ scan.last \in 0..(scan.at - 1)
      BY <2>1 DEF Scanned
    <3>2. Len(samples) \in Nat
      BY <1>5
    <3>. QED  BY <3>1, <3>2
  <2>3. TruncateDive \in Seq(S)
    <3>1. CASE scan.last = 0
      BY <1>5, <3>1 DEF TruncateDive
    <3>2. CASE scan.last # 0
      BY <1>5, <2>2, <3>2 DEF TruncateDive
    <3>. QED  BY <3>1, <3>2
  <2>. QED  BY <1>5, <2>1, <2>3 DEF Phases
<1>15. CASE Fix
  <2>1. /\ UNCHANGED <<clock, timed, alarms, parsed, scan, info>> /\ phase' = "save"
        /\ samples' = IF opts.fix THEN InitialPressureFix(samples) ELSE samples
    BY <1>15 DEF Fix
  <2>2. InitialPressureFix(samples) \in Seq(S)
    BY <1>4, <1>5, FixType
  <2>. QED  BY <1>5, <2>1, <2>2 DEF Phases
<1>16. CASE Save
  <2>. DEFINE tank == InitialTank(samples')
              begin == IF HasTankPressures THEN reported.pressures[1]
                       ELSE InitialPressure(samples', tank)
              end == IF HasTankPressures THEN reported.pressures[2]
                     ELSE FinalPressure(samples', tank)
              drop == IF begin > GasEpsilon /\ end > GasEpsilon /\ begin > end
                      THEN begin - end ELSE 0
  <2>1. /\ UNCHANGED <<clock, timed, alarms, parsed, scan>> /\ phase' = "saved"
        /\ samples' = Sorted(samples)
        /\ info' = [tankBegin |-> InitialPressure(samples, -1),
                    greatest |-> GreatestDepth(samples'),
                    duration |-> Duration(samples'),
                    begin |-> begin,
                    end |-> end,
                    drop |-> drop,
                    average |-> AverageWritten(samples')]
    BY <1>16 DEF Save
  <2>2. samples' \in Seq(S)
    BY <1>4, <1>5, <2>1, SortedType
  <2>3. samples \in Seq(ParsedSample) /\ samples' \in Seq(ParsedSample)
    BY <1>4, <1>5, <2>2
  <2>4. begin \in Nat /\ end \in Nat
    <3>1. HasTankPressures =>
             reported.pressures[1] \in Nat /\ reported.pressures[2] \in Nat
      BY <1>4, FamilyIs DEF TypeOK, HasTankPressures
    <3>. QED  BY <2>3, <3>1, ScanTypes
  <2>. HIDE DEF begin, end
  <2>5. drop \in Nat
    BY <2>4 DEF GasEpsilon
  <2>. HIDE DEF drop
  <2>6. AverageWritten(samples') \in [sum : Nat, per : Nat \ {0}]
    <3>1. AverageDepth(samples') \in [sum : Nat, per : Nat \ {0}]
      <4>. DEFINE g == GreatestDepth(samples')
      <4>1. g \in Nat /\ \A i \in 1..Len(samples') : samples'[i].depth <= g
        BY <2>3, GreatestDepthIs
      <4>2. \A i \in 1..Len(samples') :
               samples'[i].depth # NoDepth => samples'[i].depth \in 0..g
        <5>. HIDE DEF g
        <5>. QED  BY <2>3, <4>1, SampleFields
      <4>. HIDE DEF g
      <4>. QED  BY <2>3, <4>1, <4>2, AverageIs
    <3>2. [sum |-> reported.average, per |-> 1] \in [sum : Nat, per : Nat \ {0}]
      BY <1>4, FamilyIs DEF TypeOK
    <3>. QED  BY <3>1, <3>2 DEF AverageWritten, NotWritten
  <2>7. info' \in InfoType
    BY <2>1, <2>3, <2>4, <2>5, <2>6, ScanTypes, GreatestDepthIs, DurationType
  <2>. QED  BY <1>5, <2>1, <2>2, <2>7 DEF Phases
<1>. QED  BY <1>1, <1>8, <1>9, <1>10, <1>11, <1>12, <1>13, <1>14, <1>15, <1>16 DEF Next, Parsing

-----------------------------------------------------------------------------
(* The alarms, and the order of the samples. *)

(* One sample of the second of an alarm has it, the first of them. *)
Alarmed(list, times) ==
    /\ \A i \in 1..Len(list) : list[i].alarms # 0 => list[i].time \in times
    /\ \A t \in times : \E i \in 1..Len(list) :
          /\ list[i].time = t /\ list[i].alarms = 1
          /\ \A j \in 1..Len(list) : list[j].time = t /\ j # i => j > i /\ list[j].alarms = 0

AlarmInv ==
    /\ phase = "samples" => alarms = {}
    /\ phase \in {"samples", "alarms"} => Alarmed(samples, alarms)
    /\ phase \notin {"samples", "alarms"} => Alarmed(parsed, alarms)

(* No sample with a pressure is behind a later one: those that the alarms  *)
(* added, behind all the others, have none.                                *)
Ordered(list) ==
    \A i, j \in 1..Len(list) : i < j /\ HasPressure(list[j]) => list[i].time <= list[j].time

OrderInv ==
    /\ phase = "samples" =>
          \A i \in 1..Len(samples) :
             /\ samples[i].time <= clock \div 1000
             /\ \A j \in 1..Len(samples) : i < j => samples[i].time <= samples[j].time
    /\ phase = "alarms" => Ordered(samples)
    /\ phase \notin {"samples", "alarms"} => Ordered(parsed)

LEMMA SampleChanged ==
    ASSUME TypeOK,
           \/ \E d \in family.depths : Depth(d)
           \/ \E r \in family.readings : TankPressure(r)
    PROVE  /\ phase = "samples" /\ UNCHANGED <<phase, clock, alarms>>
           /\ Len(samples') = Len(samples)
           /\ \A i \in 1..Len(samples) : /\ samples'[i].time = samples[i].time
                                         /\ samples'[i].alarms = samples[i].alarms
<1>1. samples \in Seq(ParsedSample) /\ \A i \in 1..Len(samples) : samples[i] \in ParsedSample
  BY Loosely DEF TypeInv
<1>. DEFINE k == Len(samples)
<1>2. samples # <<>> => k \in 1..k
  BY <1>1
<1>3. \A y \in ParsedSample : \A z :
         /\ [y EXCEPT !.depth = z].time = y.time
         /\ [y EXCEPT !.depth = z].alarms = y.alarms
         /\ [y EXCEPT !.pressures = z].time = y.time
         /\ [y EXCEPT !.pressures = z].alarms = y.alarms
  BY DEF ParsedSample, SampleOf
<1>4. /\ phase = "samples" /\ UNCHANGED <<phase, clock, alarms>> /\ samples # <<>>
      /\ \E x : /\ samples' = [samples EXCEPT ![k] = x]
                /\ x.time = samples[k].time /\ x.alarms = samples[k].alarms
  <2>1. CASE \E d \in family.depths : Depth(d)
    <3>1. PICK d \in family.depths : Depth(d)
      BY <2>1
    <3>. DEFINE x == [samples[k] EXCEPT !.depth = d]
    <3>2. /\ phase = "samples" /\ UNCHANGED <<phase, clock, alarms>> /\ samples # <<>>
          /\ samples' = [samples EXCEPT ![k] = x]
      BY <3>1 DEF Depth
    <3>3. x.time = samples[k].time /\ x.alarms = samples[k].alarms
      BY <1>1, <1>2, <1>3, <3>2
    <3>. HIDE DEF x, k
    <3>. QED  BY <3>2, <3>3
  <2>2. CASE \E r \in family.readings : TankPressure(r)
    <3>1. PICK r \in family.readings : TankPressure(r)
      BY <2>2
    <3>. DEFINE x == [samples[k] EXCEPT !.pressures = Append(samples[k].pressures, r)]
    <3>2. /\ phase = "samples" /\ UNCHANGED <<phase, clock, alarms>> /\ samples # <<>>
          /\ samples' = [samples EXCEPT ![k] = x]
      BY <3>1 DEF TankPressure
    <3>3. x.time = samples[k].time /\ x.alarms = samples[k].alarms
      BY <1>1, <1>2, <1>3, <3>2
    <3>. HIDE DEF x, k
    <3>. QED  BY <3>2, <3>3
  <2>. QED  BY <2>1, <2>2
<1>5. PICK x : /\ samples' = [samples EXCEPT ![k] = x]
               /\ x.time = samples[k].time /\ x.alarms = samples[k].alarms
  BY <1>4
<1>6. k \in 1..k
  BY <1>2, <1>4
<1>. QED  BY <1>1, <1>4, <1>5, <1>6, OneReplaced

(* The two ways an alarm joins the dive. *)
LEMMA AlarmAdded ==
    ASSUME TypeOK, NEW t \in family.alarmTimes, AddAlarm(t)
    PROVE  LET n == Len(samples)
               found == FindSample(samples, t)
           IN  /\ phase = "alarms" /\ UNCHANGED <<phase, clock, timed, parsed>> /\ n \in Nat
               /\ alarms' = alarms \cup {t} /\ t \notin alarms /\ t \in Nat
               /\ \A i \in 1..n : /\ samples'[i].time = samples[i].time
                                  /\ samples'[i].depth = samples[i].depth
                                  /\ samples'[i].pressures = samples[i].pressures
                                  /\ i # found => samples'[i].alarms = samples[i].alarms
               /\ \/ /\ \A i \in 1..n : samples[i].time # t
                     /\ found = 0 /\ Len(samples') = n + 1
                     /\ samples'[n + 1].time = t /\ samples'[n + 1].alarms = 1
                     /\ samples'[n + 1].depth = NoDepth
                     /\ ~HasPressure(samples'[n + 1])
                  \/ /\ found \in 1..n /\ samples[found].time = t /\ Len(samples') = n
                     /\ \A i \in 1..n : samples[i].time = t => found <= i
                     /\ samples'[found].alarms = samples[found].alarms + 1
<1>. DEFINE n == Len(samples)
            found == FindSample(samples, t)
            x == [NewSample(t) EXCEPT !.alarms = 1]
            y == [samples[found] EXCEPT !.alarms = samples[found].alarms + 1]
<1>1. /\ samples \in Seq(ParsedSample) /\ n \in Nat
      /\ \A i \in 1..n : samples[i] \in ParsedSample
  BY Loosely DEF TypeInv
<1>2. /\ phase = "alarms" /\ UNCHANGED <<phase, clock, timed, parsed>>
      /\ alarms' = alarms \cup {t} /\ \A u \in alarms : u < t
      /\ samples' = IF found = 0 THEN Append(samples, x) ELSE [samples EXCEPT ![found] = y]
  BY DEF AddAlarm
<1>3. t \in Nat /\ t \notin alarms
  <2>1. t \in Nat
    BY FamilyIs DEF TypeOK
  <2>. QED  BY <1>2, <2>1
<1>4. \/ found = 0 /\ \A i \in 1..n : samples[i].time # t
      \/ /\ found \in 1..n /\ samples[found].time = t
         /\ \A i \in 1..n : samples[i].time = t => found <= i
  <2>. DEFINE at == {i \in 1..n : samples[i].time = t}
  <2>1. at = {} => found = 0
    BY <1>1, FoundIs
  <2>2. at # {} => found \in at /\ \A i \in at : found <= i
    BY <1>1, FoundIs
  <2>. HIDE DEF found
  <2>. QED  BY <2>1, <2>2
<1>. HIDE DEF found
<1>5. CASE found = 0 /\ \A i \in 1..n : samples[i].time # t
  <2>1. x.time = t /\ x.alarms = 1 /\ x.depth = NoDepth /\ ~HasPressure(x)
    BY DEF NewSample, HasPressure
  <2>2. samples' = Append(samples, x)
    BY <1>2, <1>5
  <2>. HIDE DEF x
  <2>3. /\ Len(samples') = n + 1 /\ samples'[n + 1] = x
        /\ \A i \in 1..n : samples'[i] = samples[i]
    BY <1>1, <2>2
  <2>. QED  BY <1>1, <1>2, <1>3, <1>5, <2>1, <2>3 DEF found
<1>6. CASE /\ found \in 1..n /\ samples[found].time = t
           /\ \A i \in 1..n : samples[i].time = t => found <= i
  <2>1. samples' = [samples EXCEPT ![found] = y]
    BY <1>2, <1>6
  <2>2. /\ y.time = samples[found].time /\ y.alarms = samples[found].alarms + 1
        /\ y.depth = samples[found].depth /\ y.pressures = samples[found].pressures
    BY <1>1, <1>6 DEF ParsedSample, SampleOf
  <2>. HIDE DEF y
  <2>3. Len(samples') = n /\ \A i \in 1..n : samples'[i] = IF i = found THEN y ELSE samples[i]
    BY <1>1, <1>6, <2>1, OneReplaced
  <2>4. \A i \in 1..n : /\ samples'[i].time = samples[i].time
                        /\ samples'[i].depth = samples[i].depth
                        /\ samples'[i].pressures = samples[i].pressures
                        /\ i # found => samples'[i].alarms = samples[i].alarms
    BY <2>2, <2>3
  <2>5. samples'[found].alarms = samples[found].alarms + 1
    BY <1>6, <2>2, <2>3
  <2>. QED  BY <1>1, <1>2, <1>3, <1>6, <2>3, <2>4, <2>5 DEF found
<1>. QED  BY <1>4, <1>5, <1>6

LEMMA TimeAdded ==
    ASSUME TypeOK, NEW interval \in family.intervals, Time(interval)
    PROVE  LET n == Len(samples) IN
           /\ phase = "samples" /\ UNCHANGED <<phase, alarms>> /\ n \in Nat
           /\ Len(samples') = n + 1 /\ \A i \in 1..n : samples'[i] = samples[i]
           /\ samples'[n + 1].time = clock' \div 1000 /\ samples'[n + 1].alarms = 0
           /\ clock \div 1000 \in Nat /\ clock' \div 1000 \in Nat
           /\ clock \div 1000 <= clock' \div 1000
<1>. DEFINE n == Len(samples)
            x == NewSample(clock' \div 1000)
<1>1. samples \in Seq(ParsedSample) /\ n \in Nat
  BY Loosely DEF TypeInv
<1>2. clock \in Nat /\ interval \in Nat
  BY FamilyIs DEF TypeOK
<1>3. /\ phase = "samples" /\ UNCHANGED <<phase, alarms>> /\ clock' = clock + interval
      /\ samples' = Append(samples, x)
  BY DEF Time
<1>4. x.time = clock' \div 1000 /\ x.alarms = 0
  BY DEF NewSample
<1>5. /\ clock \div 1000 \in Nat /\ clock' \div 1000 \in Nat
      /\ clock \div 1000 <= clock' \div 1000
  <2>1. \A c, d \in Nat : c <= d => c \div 1000 <= d \div 1000
    OBVIOUS
  <2>2. clock + 0 = clock /\ clock <= clock' /\ clock' \in Nat
    BY <1>2, <1>3
  <2>. QED  BY <1>2, <1>3, <2>1, <2>2, Seconds
<1>. HIDE DEF x
<1>6. Len(samples') = n + 1 /\ samples'[n + 1] = x /\ \A i \in 1..n : samples'[i] = samples[i]
  BY <1>1, <1>3
<1>. QED  BY <1>1, <1>3, <1>4, <1>5, <1>6

LEMMA AlarmNext ==
    ASSUME TypeOK, AlarmInv, [Next]_vars
    PROVE  AlarmInv'
<1>. DEFINE n == Len(samples)
<1>0. /\ samples \in Seq(ParsedSample) /\ n \in Nat
      /\ \A i \in 1..n : samples[i].alarms \in Nat
  BY Loosely, SampleFields DEF TypeInv
<1>1. CASE \E interval \in family.intervals : Time(interval)
  <2>1. PICK interval \in family.intervals : Time(interval)
    BY <1>1
  <2>2. /\ phase = "samples" /\ UNCHANGED <<phase, alarms>> /\ alarms = {}
        /\ Len(samples') = n + 1 /\ \A i \in 1..n : samples'[i] = samples[i]
        /\ samples'[n + 1].alarms = 0
    BY <2>1, TimeAdded DEF AlarmInv
  <2>3. \A i \in 1..(n + 1) : i = n + 1 \/ i \in 1..n
    BY <1>0
  <2>. QED  BY <2>2, <2>3 DEF AlarmInv, Alarmed
<1>2. CASE \/ \E d \in family.depths : Depth(d)
           \/ \E r \in family.readings : TankPressure(r)
  <2>1. /\ phase = "samples" /\ UNCHANGED <<phase, alarms>> /\ Len(samples') = n
        /\ \A i \in 1..n : samples'[i].alarms = samples[i].alarms
    BY <1>2, SampleChanged
  <2>. QED  BY <2>1 DEF AlarmInv, Alarmed
<1>3. CASE SamplesParsed \/ DiveParsed
  BY <1>3 DEF SamplesParsed, DiveParsed, AlarmInv
<1>4. CASE \E t \in family.alarmTimes : AddAlarm(t)
  <2>1. PICK t \in family.alarmTimes : AddAlarm(t)
    BY <1>4
  <2>. DEFINE found == FindSample(samples, t)
  <2>2. /\ phase = "alarms" /\ UNCHANGED <<phase, parsed>>
        /\ alarms' = alarms \cup {t} /\ t \notin alarms
        /\ \A i \in 1..n : /\ samples'[i].time = samples[i].time
                           /\ i # found => samples'[i].alarms = samples[i].alarms
        /\ \/ /\ \A i \in 1..n : samples[i].time # t
              /\ found = 0 /\ Len(samples') = n + 1
              /\ samples'[n + 1].time = t /\ samples'[n + 1].alarms = 1
           \/ /\ found \in 1..n /\ samples[found].time = t /\ Len(samples') = n
              /\ \A i \in 1..n : samples[i].time = t => found <= i
              /\ samples'[found].alarms = samples[found].alarms + 1
    BY <2>1, AlarmAdded
  <2>. HIDE DEF found
  <2>3. Alarmed(samples, alarms)
    BY <2>2 DEF AlarmInv
  <2>4. \A i \in 1..n : samples[i].time = t => samples[i].alarms = 0
    BY <2>2, <2>3 DEF Alarmed
  <2>5. CASE /\ \A i \in 1..n : samples[i].time # t
             /\ found = 0 /\ Len(samples') = n + 1
             /\ samples'[n + 1].time = t /\ samples'[n + 1].alarms = 1
    <3>1. \A i \in 1..(n + 1) : i = n + 1 \/ i \in 1..n
      BY <1>0
    <3>2. \A i \in 1..n : i \in 1..(n + 1) /\ i # n + 1 /\ i # found /\ i < n + 1
      BY <1>0, <2>5
    <3>3. \A i \in 1..(n + 1) : samples'[i].alarms # 0 => samples'[i].time \in alarms'
      BY <2>2, <2>3, <2>5, <3>1, <3>2 DEF Alarmed
    <3>4. ASSUME NEW u \in alarms'
          PROVE  \E i \in 1..(n + 1) :
                    /\ samples'[i].time = u /\ samples'[i].alarms = 1
                    /\ \A j \in 1..(n + 1) :
                          samples'[j].time = u /\ j # i => j > i /\ samples'[j].alarms = 0
      <4>1. CASE u = t
        <5>1. n + 1 \in 1..(n + 1) /\ \A j \in 1..(n + 1) : j # n + 1 => samples'[j].time # t
          BY <1>0, <2>2, <2>5, <3>1
        <5>. QED  BY <2>5, <4>1, <5>1
      <4>2. CASE u # t
        <5>1. PICK i \in 1..n :
                 /\ samples[i].time = u /\ samples[i].alarms = 1
                 /\ \A j \in 1..n : samples[j].time = u /\ j # i => j > i /\ samples[j].alarms = 0
          BY <2>2, <2>3, <4>2 DEF Alarmed
        <5>2. \A j \in 1..(n + 1) :
                 samples'[j].time = u /\ j # i => j > i /\ samples'[j].alarms = 0
          BY <2>2, <2>5, <3>1, <3>2, <4>2, <5>1
        <5>3. i \in 1..(n + 1) /\ samples'[i].time = u /\ samples'[i].alarms = 1
          BY <2>2, <3>2, <5>1
        <5>. QED  BY <5>2, <5>3
      <4>. QED  BY <4>1, <4>2
    <3>5. Alarmed(samples', alarms')
      BY <2>5, <3>3, <3>4 DEF Alarmed
    <3>. QED  BY <2>2, <3>5 DEF AlarmInv
  <2>6. CASE /\ found \in 1..n /\ samples[found].time = t /\ Len(samples') = n
             /\ \A i \in 1..n : samples[i].time = t => found <= i
             /\ samples'[found].alarms = samples[found].alarms + 1
    <3>1. samples'[found].alarms = 1
      BY <2>4, <2>6
    <3>2. \A i \in 1..n : samples'[i].alarms # 0 => samples'[i].time \in alarms'
      <4> SUFFICES ASSUME NEW i \in 1..n, samples'[i].alarms # 0
                   PROVE  samples'[i].time \in alarms'
        OBVIOUS
      <4>1. CASE i = found
        BY <2>2, <2>6, <4>1
      <4>2. CASE i # found
        BY <2>2, <2>3, <4>2 DEF Alarmed
      <4>. QED  BY <4>1, <4>2
    <3>3. ASSUME NEW u \in alarms'
          PROVE  \E i \in 1..n :
                    /\ samples'[i].time = u /\ samples'[i].alarms = 1
                    /\ \A j \in 1..n :
                          samples'[j].time = u /\ j # i => j > i /\ samples'[j].alarms = 0
      <4>1. CASE u = t
        <5>1. \A j \in 1..n :
                 samples'[j].time = t /\ j # found => j > found /\ samples'[j].alarms = 0
          BY <1>0, <2>2, <2>4, <2>6
        <5>. QED  BY <2>2, <2>6, <3>1, <4>1, <5>1
      <4>2. CASE u # t
        <5>1. PICK i \in 1..n :
                 /\ samples[i].time = u /\ samples[i].alarms = 1
                 /\ \A j \in 1..n : samples[j].time = u /\ j # i => j > i /\ samples[j].alarms = 0
          BY <2>2, <2>3, <4>2 DEF Alarmed
        <5>2. \A j \in 1..n : samples'[j].time = u => j # found
          BY <2>2, <2>6, <4>2
        <5>3. \A j \in 1..n :
                 samples'[j].time = u /\ j # i => j > i /\ samples'[j].alarms = 0
          BY <2>2, <5>1, <5>2
        <5>4. samples'[i].time = u /\ samples'[i].alarms = 1
          BY <2>2, <5>1, <5>2
        <5>. QED  BY <5>3, <5>4
      <4>. QED  BY <4>1, <4>2
    <3>4. Alarmed(samples', alarms')
      BY <2>6, <3>2, <3>3 DEF Alarmed
    <3>. QED  BY <2>2, <3>4 DEF AlarmInv
  <2>. QED  BY <2>2, <2>5, <2>6
<1>5. CASE Scan \/ Truncate \/ Fix \/ Save
  BY <1>5 DEF Scan, Truncate, Fix, Save, AlarmInv
<1>6. CASE UNCHANGED vars
  BY <1>6 DEF vars, AlarmInv
<1>. QED  BY <1>1, <1>2, <1>3, <1>4, <1>5, <1>6 DEF Next, Parsing

LEMMA OrderNext ==
    ASSUME TypeOK, OrderInv, [Next]_vars
    PROVE  OrderInv'
<1>. DEFINE n == Len(samples)
<1>0. /\ samples \in Seq(ParsedSample) /\ n \in Nat
      /\ \A i \in 1..n : samples[i].time \in Nat
  BY Loosely, SampleFields DEF TypeInv
<1>1. CASE \E interval \in family.intervals : Time(interval)
  <2>1. PICK interval \in family.intervals : Time(interval)
    BY <1>1
  <2>2. PICK now \in Nat : now = clock \div 1000
    BY <2>1, TimeAdded
  <2>3. PICK next \in Nat : next = clock' \div 1000
    BY <2>1, TimeAdded
  <2>4. /\ phase = "samples" /\ UNCHANGED phase /\ now <= next
        /\ Len(samples') = n + 1 /\ \A i \in 1..n : samples'[i] = samples[i]
        /\ samples'[n + 1].time = next
    BY <2>1, <2>2, <2>3, TimeAdded
  <2>5. \A i \in 1..n : /\ samples[i].time <= now
                        /\ \A j \in 1..n : i < j => samples[i].time <= samples[j].time
    BY <2>2, <2>4 DEF OrderInv
  <2>6. \A i \in 1..(n + 1) : i = n + 1 \/ i \in 1..n
    BY <1>0
  <2>7. \A i \in 1..(n + 1) : samples'[i].time \in Nat /\ samples'[i].time <= next
    BY <1>0, <2>4, <2>5, <2>6
  <2>8. ASSUME NEW i \in 1..(n + 1), NEW j \in 1..(n + 1), i < j
        PROVE  samples'[i].time <= samples'[j].time
    <3>1. CASE j = n + 1
      BY <2>4, <2>7, <3>1
    <3>2. CASE j # n + 1
      <4>1. i \in 1..n /\ j \in 1..n
        BY <1>0, <2>8, <3>2
      <4>. QED  BY <2>4, <2>5, <2>8, <4>1
    <3>. QED  BY <3>1, <3>2
  <2>. QED  BY <2>3, <2>4, <2>7, <2>8 DEF OrderInv
<1>2. CASE \/ \E d \in family.depths : Depth(d)
           \/ \E r \in family.readings : TankPressure(r)
  <2>1. /\ phase = "samples" /\ UNCHANGED <<phase, clock>> /\ Len(samples') = n
        /\ \A i \in 1..n : samples'[i].time = samples[i].time
    BY <1>2, SampleChanged
  <2>. QED  BY <2>1 DEF OrderInv
<1>3. CASE SamplesParsed \/ DiveParsed
  BY <1>3 DEF SamplesParsed, DiveParsed, OrderInv, Ordered
<1>4. CASE \E t \in family.alarmTimes : AddAlarm(t)
  <2>1. PICK t \in family.alarmTimes : AddAlarm(t)
    BY <1>4
  <2>2. /\ phase = "alarms" /\ UNCHANGED phase
        /\ \A i \in 1..n : /\ samples'[i].time = samples[i].time
                           /\ samples'[i].pressures = samples[i].pressures
        /\ \/ Len(samples') = n + 1 /\ ~HasPressure(samples'[n + 1])
           \/ Len(samples') = n
    BY <2>1, AlarmAdded
  <2>3. Ordered(samples)
    BY <2>2 DEF OrderInv
  <2>4. ASSUME NEW i \in 1..Len(samples'), NEW j \in 1..Len(samples'), i < j,
               HasPressure(samples'[j])
        PROVE  samples'[i].time <= samples'[j].time
    <3>1. i \in 1..n /\ j \in 1..n
      BY <1>0, <2>2, <2>4
    <3>2. HasPressure(samples[j])
      BY <2>2, <2>4, <3>1 DEF HasPressure
    <3>. QED  BY <2>2, <2>3, <2>4, <3>1, <3>2 DEF Ordered
  <2>5. Ordered(samples')
    BY <2>4 DEF Ordered
  <2>. QED  BY <2>2, <2>5 DEF OrderInv
<1>5. CASE Scan \/ Truncate \/ Fix \/ Save
  BY <1>5 DEF Scan, Truncate, Fix, Save, OrderInv
<1>6. CASE UNCHANGED vars
  BY <1>6 DEF vars, OrderInv
<1>. QED  BY <1>1, <1>2, <1>3, <1>4, <1>5, <1>6 DEF Next, Parsing

(* The first samples are those the parser reported, in order; those that   *)
(* the alarms added behind them have no depth.                             *)
TimedList(list) ==
    /\ timed \in 0..Len(list)
    /\ \A i, j \in 1..timed : i < j => list[i].time <= list[j].time
    /\ \A i \in 1..Len(list) : i > timed => list[i].depth = NoDepth

TimedInv ==
    /\ phase = "alarms" => TimedList(samples)
    /\ phase \notin {"samples", "alarms"} => TimedList(parsed)

LEMMA TimedNext ==
    ASSUME TypeOK, OrderInv, TimedInv, [Next]_vars
    PROVE  TimedInv'
<1>. DEFINE n == Len(samples)
<1>0. n \in Nat
  BY Loosely DEF TypeInv
<1>1. CASE \/ \E interval \in family.intervals : Time(interval)
           \/ \E d \in family.depths : Depth(d)
           \/ \E r \in family.readings : TankPressure(r)
  <2>1. phase' = "samples"
    BY <1>1 DEF Time, Depth, TankPressure
  <2>. QED  BY <2>1 DEF TimedInv
<1>2. CASE SamplesParsed
  <2>1. /\ phase = "samples" /\ phase' = "alarms" /\ timed' = n /\ samples' = samples
    BY <1>2 DEF SamplesParsed
  <2>2. \A i, j \in 1..n : i < j => samples[i].time <= samples[j].time
    BY <2>1 DEF OrderInv
  <2>3. timed' \in 0..Len(samples') /\ \A i \in 1..Len(samples') : ~(i > timed')
    BY <1>0, <2>1
  <2>4. TimedList(samples)'
    BY <2>1, <2>2, <2>3 DEF TimedList
  <2>. QED  BY <2>1, <2>4 DEF TimedInv
<1>3. CASE \E t \in family.alarmTimes : AddAlarm(t)
  <2>1. PICK t \in family.alarmTimes : AddAlarm(t)
    BY <1>3
  <2>2. /\ phase = "alarms" /\ UNCHANGED <<phase, timed>>
        /\ \A i \in 1..n : /\ samples'[i].time = samples[i].time
                           /\ samples'[i].depth = samples[i].depth
        /\ \/ Len(samples') = n + 1 /\ samples'[n + 1].depth = NoDepth
           \/ Len(samples') = n
    BY <2>1, AlarmAdded
  <2>3. /\ timed \in 0..n
        /\ \A i, j \in 1..timed : i < j => samples[i].time <= samples[j].time
        /\ \A i \in 1..n : i > timed => samples[i].depth = NoDepth
    BY <2>2 DEF TimedInv, TimedList
  <2>. HIDE DEF n
  <2>4. \A i \in 1..timed : i \in 1..n
    BY <1>0, <2>3
  <2>5. \A i, j \in 1..timed : i < j => samples'[i].time <= samples'[j].time
    BY <2>2, <2>3, <2>4
  <2>6. \A i \in 1..Len(samples') : i > timed => samples'[i].depth = NoDepth
    <3>1. \A i \in 1..Len(samples') : i \in 1..n \/ samples'[i].depth = NoDepth
      BY <1>0, <2>2
    <3>. QED  BY <2>2, <2>3, <3>1
  <2>7. timed \in 0..Len(samples')
    BY <1>0, <2>2, <2>3
  <2>8. TimedList(samples)'
    BY <2>2, <2>5, <2>6, <2>7 DEF TimedList
  <2>. QED  BY <2>2, <2>8 DEF TimedInv
<1>4. CASE DiveParsed
  BY <1>4 DEF DiveParsed, TimedInv, TimedList
<1>5. CASE Scan \/ Truncate \/ Fix \/ Save
  BY <1>5 DEF Scan, Truncate, Fix, Save, TimedInv, TimedList
<1>6. CASE UNCHANGED vars
  BY <1>6 DEF vars, TimedInv, TimedList
<1>. QED  BY <1>1, <1>2, <1>3, <1>4, <1>5, <1>6 DEF Next, Parsing

-----------------------------------------------------------------------------
(* What is written. *)

(* The samples the algorithms leave, and what _createDive derives of them. *)
Final == IF opts.fix THEN InitialPressureFix(Kept) ELSE Kept

Written ==
    LET sorted == Sorted(Final)
        tank == InitialTank(sorted)
        begin == IF HasTankPressures THEN reported.pressures[1]
                 ELSE InitialPressure(sorted, tank)
        end == IF HasTankPressures THEN reported.pressures[2]
               ELSE FinalPressure(sorted, tank)
    IN  [tankBegin |-> InitialPressure(Final, -1),
         greatest |-> GreatestDepth(sorted),
         duration |-> Duration(sorted),
         begin |-> begin,
         end |-> end,
         drop |-> IF begin > GasEpsilon /\ end > GasEpsilon /\ begin > end
                  THEN begin - end ELSE 0,
         average |-> AverageWritten(sorted)]

WrittenInv ==
    /\ phase = "save" => samples = Final
    /\ phase = "saved" => samples = Sorted(Final) /\ info = Written

(* Truncation keeps a first part of the samples, with every sample of 1 m  *)
(* or more.                                                                *)
LEMMA KeptIs ==
    ASSUME parsed \in Seq(ParsedSample)
    PROVE  /\ Kept \in Seq(ParsedSample) /\ Len(Kept) \in 0..Len(parsed)
           /\ \A i \in 1..Len(Kept) : Kept[i] = parsed[i]
           /\ ~opts.truncate => Kept = parsed
           /\ \A i \in 1..Len(parsed) : parsed[i].depth >= DepthMin => i <= Len(Kept)
<1>. DEFINE n == Len(parsed)
            over == {i \in DOMAIN parsed :
                        /\ parsed[i].depth = 0
                        /\ \A j \in (i + 1)..Len(parsed) : parsed[j].depth < DepthMin}
            s == Surfacing(parsed)
<1>1. n \in Nat /\ DOMAIN parsed = 1..n /\ over \in SUBSET (1..n)
  OBVIOUS
<1>2. s = IF over = {} THEN 0 ELSE Min(over)
  BY DEF Surfacing
<1>3. CASE ~(opts.truncate /\ s # 0)
  BY <1>1, <1>3 DEF Kept, Surfaced
<1>4. CASE opts.truncate /\ s # 0
  <2>1. s \in over
    <3>. HIDE DEF over, n, s
    <3>1. over # {} /\ s = Min(over)
      BY <1>2, <1>4
    <3>2. \E x \in over : \A y \in over : x <= y
      BY <1>1, <3>1, RangeEnds
    <3>. QED  BY <3>1, <3>2 DEF Min
  <2>2. Kept = SubSeq(parsed, 1, s)
    BY <1>4 DEF Kept, Surfaced
  <2>3. s \in 1..n /\ \A j \in (s + 1)..n : parsed[j].depth < DepthMin
    BY <2>1
  <2>. HIDE DEF over, s
  <2>4. Kept \in Seq(ParsedSample) /\ Len(Kept) = s /\ \A i \in 1..s : Kept[i] = parsed[i]
    <3>. HIDE DEF ParsedSample
    <3>. QED  BY <1>1, <2>2, <2>3
  <2>5. ASSUME NEW i \in 1..n, parsed[i].depth >= DepthMin PROVE i <= s
    <3>1. parsed[i].depth \in Int /\ DepthMin \in Int
      BY SampleFields DEF DepthMin
    <3>2. i > s => i \in (s + 1)..n
      BY <1>1, <2>3
    <3>. QED  BY <1>1, <2>3, <2>5, <3>1, <3>2
  <2>. QED  BY <1>1, <1>4, <2>3, <2>4, <2>5
<1>. QED  BY <1>3, <1>4

(* The surfacing is a sample of the computer, and the last that is kept.   *)
LEMMA SurfacedIs ==
    ASSUME parsed \in Seq(ParsedSample), TimedList(parsed)
    PROVE  LET k == Surfacing(parsed) IN
           /\ ~Surfaced => Kept = parsed
           /\ Surfaced => /\ k \in 1..Len(parsed) /\ k \in 1..timed
                          /\ Kept = SubSeq(parsed, 1, k) /\ Len(Kept) = k
<1>. DEFINE n == Len(parsed)
            over == {i \in DOMAIN parsed :
                        /\ parsed[i].depth = 0
                        /\ \A j \in (i + 1)..Len(parsed) : parsed[j].depth < DepthMin}
            k == Surfacing(parsed)
<1>1. n \in Nat /\ DOMAIN parsed = 1..n /\ over \in SUBSET (1..n)
  OBVIOUS
<1>2. k = IF over = {} THEN 0 ELSE Min(over)
  BY DEF Surfacing
<1>3. ASSUME Surfaced
      PROVE  k \in 1..n /\ k \in 1..timed /\ Kept = SubSeq(parsed, 1, k) /\ Len(Kept) = k
  <2>1. k \in over
    <3>1. over # {} /\ k = Min(over)
      <4>. HIDE DEF over
      <4>. QED  BY <1>2, <1>3 DEF Surfaced
    <3>. HIDE DEF over, n, k
    <3>2. \E x \in over : \A y \in over : x <= y
      BY <1>1, <3>1, RangeEnds
    <3>. QED  BY <3>1, <3>2 DEF Min
  <2>2. k \in 1..n /\ parsed[k].depth = 0
    BY <2>1
  <2>3. Kept = SubSeq(parsed, 1, k)
    BY <1>3 DEF Kept
  <2>. HIDE DEF over, k
  <2>4. Len(Kept) = k
    <3>. HIDE DEF ParsedSample
    <3>. QED  BY <1>1, <2>2, <2>3
  <2>5. k \in 1..timed
    <3>1. timed \in 0..n /\ (k > timed => parsed[k].depth = NoDepth)
      BY <2>2 DEF TimedList
    <3>. QED  BY <1>1, <2>2, <3>1 DEF NoDepth
  <2>. QED  BY <2>2, <2>3, <2>4, <2>5
<1>4. ASSUME ~Surfaced PROVE Kept = parsed
  BY <1>4 DEF Kept
<1>. QED  BY <1>3, <1>4

LEMMA KeptStops ==
    ASSUME TypeOK, FixInv, TimedInv
    PROVE  StopsAtSurfacing
<1> SUFFICES ASSUME phase = "fix" PROVE StopsAtSurfacing
  BY DEF StopsAtSurfacing
<1>. DEFINE n == Len(parsed)
            k == Surfacing(parsed)
<1>1. /\ parsed \in Seq(ParsedSample) /\ n \in Nat /\ samples = Kept /\ TimedList(parsed)
      /\ \A i \in 1..n : parsed[i].time \in Nat
  BY Loosely, SampleFields DEF TypeInv, FixInv, TimedInv
<1>2. CASE ~Surfaced
  <2>1. samples = parsed /\ parsed = SubSeq(parsed, 1, n)
    <3>1. samples = parsed
      BY <1>1, <1>2, SurfacedIs
    <3>2. parsed = SubSeq(parsed, 1, n)
      <4>. HIDE DEF ParsedSample
      <4>. QED  BY <1>1
    <3>. QED  BY <3>1, <3>2
  <2>. QED  BY <1>2, <2>1 DEF StopsAtSurfacing
<1>3. CASE Surfaced
  <2>1. k \in 1..n /\ k \in 1..timed /\ samples = SubSeq(parsed, 1, k) /\ Len(samples) = k
    BY <1>1, <1>3, SurfacedIs
  <2>2. /\ timed \in 0..n
        /\ \A i, j \in 1..timed : i < j => parsed[i].time <= parsed[j].time
    BY <1>1 DEF TimedList
  <2>3. DOMAIN samples = 1..k /\ \A i \in 1..k : samples[i] = parsed[i]
    <3>. HIDE DEF ParsedSample, k
    <3>. QED  BY <1>1, <2>1
  <2>. HIDE DEF k, n
  <2>4. \A i \in 1..timed : i \in 1..n
    BY <1>1, <2>2
  <2>5. ASSUME NEW i \in 1..timed
        PROVE  \/ i \in DOMAIN samples /\ i <= k
               \/ i \notin DOMAIN samples /\ parsed[i].time >= parsed[k].time
    <3>1. CASE i <= k
      BY <2>1, <2>2, <2>3, <3>1
    <3>2. CASE i > k
      <4>1. i \notin DOMAIN samples
        BY <1>1, <2>1, <2>2, <2>3, <3>2
      <4>2. parsed[k].time <= parsed[i].time
        BY <2>1, <2>2, <3>2
      <4>3. parsed[k].time \in Nat /\ parsed[i].time \in Nat
        BY <1>1, <2>1, <2>4
      <4>. QED  BY <4>1, <4>2, <4>3
    <3>. QED  BY <1>1, <2>1, <2>2, <3>1, <3>2
  <2>6. ASSUME NEW i \in DOMAIN samples PROVE samples[i].time <= parsed[k].time
    <3>1. i \in 1..k /\ samples[i] = parsed[i] /\ parsed[k].time \in Nat
      BY <1>1, <2>1, <2>3
    <3>2. i = k \/ (i \in 1..timed /\ i < k)
      BY <1>1, <2>1, <2>2, <3>1
    <3>. QED  BY <2>1, <2>2, <3>1, <3>2
  <2>. QED  BY <1>3, <2>1, <2>5, <2>6 DEF StopsAtSurfacing, SurfacingTime, k
<1>. QED  BY <1>2, <1>3

(* The algorithms change the pressures at most, of the samples kept. *)
LEMMA FinalIs ==
    ASSUME parsed \in Seq(ParsedSample)
    PROVE  /\ Final \in Seq(ParsedSample) /\ Len(Final) = Len(Kept)
           /\ \A i \in 1..Len(Kept) :
                 /\ Final[i].time = parsed[i].time /\ Final[i].depth = parsed[i].depth
                 /\ Final[i].alarms = parsed[i].alarms
           /\ ~opts.fix => Final = Kept
<1>1. Kept \in Seq(ParsedSample) /\ \A i \in 1..Len(Kept) : Kept[i] = parsed[i]
  BY KeptIs
<1>2. /\ InitialPressureFix(Kept) \in Seq(ParsedSample)
      /\ Len(InitialPressureFix(Kept)) = Len(Kept)
      /\ \A i \in 1..Len(Kept) :
            /\ InitialPressureFix(Kept)[i].time = Kept[i].time
            /\ InitialPressureFix(Kept)[i].depth = Kept[i].depth
            /\ InitialPressureFix(Kept)[i].alarms = Kept[i].alarms
  BY <1>1, FixType DEF ParsedSample
<1>. QED  BY <1>1, <1>2 DEF Final

LEMMA WrittenNext ==
    ASSUME FixInv, WrittenInv, [Next]_vars
    PROVE  WrittenInv'
<1>1. CASE Parsing \/ Scan \/ Truncate
  <2>1. phase' \in {"samples", "alarms", "truncate", "fix"}
    BY <1>1 DEF Parsing, Time, Depth, TankPressure, SamplesParsed, AddAlarm, DiveParsed,
                Scan, Truncate
  <2>. QED  BY <2>1 DEF WrittenInv
<1>2. CASE Fix
  <2>1. /\ phase = "fix" /\ phase' = "save" /\ UNCHANGED <<opts, parsed>>
        /\ samples' = IF opts.fix THEN InitialPressureFix(samples) ELSE samples
    BY <1>2 DEF Fix
  <2>2. samples' = Final
    BY <2>1 DEF FixInv, Final
  <2>3. Final' = Final
    BY <2>1 DEF Final, Kept, Surfaced, Surfacing
  <2>. QED  BY <2>1, <2>2, <2>3 DEF WrittenInv
<1>3. CASE Save
  <2>1. /\ phase = "save" /\ phase' = "saved" /\ UNCHANGED <<opts, parsed, reported>>
        /\ samples = Final /\ samples' = Sorted(samples)
    BY <1>3 DEF Save, WrittenInv
  <2>2. Final' = Final
    BY <2>1 DEF Final, Kept, Surfaced, Surfacing
  <2>3. info' = Written
    BY <1>3, <2>1, Zenon DEF Save, Written
  <2>4. Written' = Written /\ Sorted(Final)' = Sorted(Final)
    BY <2>1, <2>2, Zenon DEF Written, HasTankPressures, AverageWritten, HasAvgdepth
  <2>. QED  BY <2>1, <2>2, <2>3, <2>4 DEF WrittenInv
<1>4. CASE UNCHANGED vars
  <2>1. /\ Final' = Final /\ Written' = Written /\ Sorted(Final)' = Sorted(Final)
        /\ UNCHANGED <<phase, samples, info>>
    <3>1. Final' = Final /\ UNCHANGED <<phase, samples, info, reported>>
      BY <1>4 DEF vars, Final, Kept, Surfaced, Surfacing
    <3>. QED  BY <3>1, Zenon DEF Written, HasTankPressures, AverageWritten, HasAvgdepth
  <2>. QED  BY <2>1 DEF WrittenInv
<1>. QED  BY <1>1, <1>2, <1>3, <1>4 DEF Next

(* What is written is a permutation of the samples that are kept. *)
SavedAs(p) ==
    LET n == Len(Kept) IN
    /\ p \in [1..n -> 1..n]
    /\ \A k \in 1..n : /\ p[k] \in 1..n /\ p[k] \in 1..Len(parsed)
                       /\ samples[k] = Final[p[k]]
                       /\ samples[k].time = parsed[p[k]].time
                       /\ samples[k].depth = parsed[p[k]].depth
                       /\ samples[k].alarms = parsed[p[k]].alarms
                       /\ samples[k].time \in Nat
    /\ \A k, l \in 1..n : k < l => samples[k].time <= samples[l].time /\ p[k] # p[l]
    /\ \A j \in 1..n : \E k \in 1..n : p[k] = j

LEMMA SavedIs ==
    ASSUME TypeOK, WrittenInv, phase = "saved"
    PROVE  LET n == Len(Kept) IN
           /\ parsed \in Seq(ParsedSample) /\ Final \in Seq(ParsedSample)
           /\ samples \in Seq(ParsedSample) /\ Len(Final) = n /\ Len(samples) = n
           /\ n \in 0..Len(parsed) /\ n \in Nat
           /\ \E p : SavedAs(p)
<1>. DEFINE n == Len(Kept)
<1>1. /\ parsed \in Seq(ParsedSample) /\ samples \in Seq(ParsedSample)
      /\ samples = Sorted(Final)
  BY Loosely DEF TypeInv, WrittenInv
<1>2. /\ n \in 0..Len(parsed) /\ n \in Nat /\ Final \in Seq(ParsedSample) /\ Len(Final) = n
      /\ \A i \in 1..n :
            /\ Final[i].time = parsed[i].time /\ Final[i].depth = parsed[i].depth
            /\ Final[i].alarms = parsed[i].alarms
  BY <1>1, KeptIs, FinalIs
<1>. HIDE DEF n
<1>3. \E p \in [1..Len(Final) -> 1..Len(Final)] :
         /\ Sorted(Final) = [k \in 1..Len(Final) |-> Final[p[k]]]
         /\ \A k, l \in 1..Len(Final) : k < l =>
               \/ Final[p[k]].time < Final[p[l]].time
               \/ Final[p[k]].time = Final[p[l]].time /\ p[k] < p[l]
         /\ \A j \in 1..Len(Final) : \E k \in 1..Len(Final) : p[k] = j
  BY <1>2, SortedIs
<1>4. PICK p \in [1..n -> 1..n] :
         /\ samples = [k \in 1..n |-> Final[p[k]]]
         /\ \A k, l \in 1..n : k < l =>
               \/ Final[p[k]].time < Final[p[l]].time
               \/ Final[p[k]].time = Final[p[l]].time /\ p[k] < p[l]
         /\ \A j \in 1..n : \E k \in 1..n : p[k] = j
  BY <1>1, <1>2, <1>3, Zenon
<1>5. Len(samples) = n
  BY <1>2, <1>4
<1>6. ASSUME NEW k \in 1..n
      PROVE  /\ p[k] \in 1..n /\ p[k] \in 1..Len(parsed)
             /\ samples[k] = Final[p[k]]
             /\ samples[k].time = parsed[p[k]].time
             /\ samples[k].depth = parsed[p[k]].depth
             /\ samples[k].alarms = parsed[p[k]].alarms
             /\ samples[k].time \in Nat
  <2>1. p[k] \in 1..n /\ samples[k] = Final[p[k]]
    BY <1>4
  <2>2. p[k] \in 1..Len(parsed)
    BY <1>1, <1>2, <2>1
  <2>3. samples[k].time \in Nat
    BY <1>1, <1>5, SampleFields
  <2>. QED  BY <1>2, <2>1, <2>2, <2>3
<1>7. ASSUME NEW k \in 1..n, NEW l \in 1..n, k < l
      PROVE  samples[k].time <= samples[l].time /\ p[k] # p[l]
  <2>1. \/ Final[p[k]].time < Final[p[l]].time
        \/ Final[p[k]].time = Final[p[l]].time /\ p[k] < p[l]
    BY <1>4, <1>7
  <2>2. /\ samples[k] = Final[p[k]] /\ samples[l] = Final[p[l]]
        /\ samples[k].time \in Nat /\ samples[l].time \in Nat
        /\ p[k] \in 1..n /\ p[l] \in 1..n
    BY <1>6
  <2>3. \/ samples[k].time < samples[l].time
        \/ samples[k].time = samples[l].time /\ p[k] < p[l]
    BY <2>1, <2>2
  <2>4. samples[k].time <= samples[l].time
    BY <2>2, <2>3
  <2>5. ASSUME p[k] = p[l] PROVE FALSE
    <3>1. samples[k] = samples[l]
      BY <2>2, <2>5
    <3>. QED  BY <2>2, <2>3, <2>5, <3>1
  <2>. QED  BY <2>4, <2>5
<1>8. SavedAs(p)
  BY <1>4, <1>6, <1>7 DEF SavedAs, n
<1>. QED  BY <1>1, <1>2, <1>5, <1>8 DEF n

LEMMA WrittenDepth ==
    ASSUME TypeOK, WrittenInv
    PROVE  DepthSurvives
<1> SUFFICES ASSUME phase = "saved", GreatestDepth(parsed) >= DepthMin
             PROVE  info.greatest = GreatestDepth(parsed)
  BY DEF DepthSurvives
<1>. DEFINE n == Len(Kept)
            g == GreatestDepth(parsed)
            h == GreatestDepth(samples)
<1>1. /\ parsed \in Seq(ParsedSample) /\ samples \in Seq(ParsedSample)
      /\ Len(samples) = n /\ n \in Nat
  BY SavedIs
<1>0. PICK p : SavedAs(p)
  BY SavedIs
<1>2. /\ \A k \in 1..n : p[k] \in 1..Len(parsed) /\ samples[k].depth = parsed[p[k]].depth
      /\ \A j \in 1..n : \E k \in 1..n : p[k] = j
  BY <1>0 DEF SavedAs
<1>3. \A i \in 1..Len(parsed) : parsed[i].depth >= DepthMin => i \in 1..n
  BY <1>1, KeptIs
<1>4. /\ g \in Nat /\ g \in {0} \cup {parsed[i].depth : i \in 1..Len(parsed)}
      /\ \A i \in 1..Len(parsed) : parsed[i].depth <= g
  BY <1>1, GreatestDepthIs
<1>5. /\ h \in Nat /\ h \in {0} \cup {samples[i].depth : i \in 1..n}
      /\ \A i \in 1..n : samples[i].depth <= h
  BY <1>1, GreatestDepthIs
<1>6. info.greatest = h
  BY DEF WrittenInv, Written
<1>. HIDE DEF n, h
<1>7. h <= g
  <2>1. CASE h = 0
    BY <1>4, <2>1
  <2>2. CASE h # 0
    <3>1. PICK k \in 1..n : samples[k].depth = h
      BY <1>5, <2>2
    <3>. QED  BY <1>2, <1>4, <3>1
  <2>. QED  BY <2>1, <2>2
<1>8. g <= h
  <2>1. g # 0 /\ g >= DepthMin
    BY DEF DepthMin
  <2>. HIDE DEF g
  <2>2. PICK i \in 1..Len(parsed) : parsed[i].depth = g
    BY <1>4, <2>1
  <2>3. PICK k \in 1..n : p[k] = i
    BY <1>2, <1>3, <2>1, <2>2
  <2>. QED  BY <1>2, <1>5, <2>2, <2>3
<1>. QED  BY <1>4, <1>5, <1>6, <1>7, <1>8

LEMMA WrittenAverage ==
    ASSUME TypeOK, WrittenInv
    PROVE  AverageBetween
<1>. DEFINE n == Len(samples)
            depths == {samples[i].depth : i \in DOMAIN samples} \ {NoDepth}
            average == AverageDepth(samples)
<1> SUFFICES ASSUME phase = "saved", ~HasAvgdepth, depths # {}
             PROVE  /\ info.average.sum >= Min(depths) * info.average.per
                    /\ info.average.sum <= Max(depths) * info.average.per
  BY DEF AverageBetween
<1>1. samples \in Seq(ParsedSample) /\ n \in Nat /\ DOMAIN samples = 1..n
  BY Loosely DEF TypeInv
<1>2. info.average = IF average.sum > 0 THEN average ELSE NotWritten
  BY DEF WrittenInv, Written, AverageWritten
<1>3. \A d \in depths : d \in Nat /\ \E i \in 1..n : samples[i].depth = d
  BY <1>1, SampleFields
<1>4. \A i \in 1..n : samples[i].depth # NoDepth => samples[i].depth \in depths
  BY <1>1
<1>5. \E x \in depths : \A y \in depths : x <= y
  <2>. HIDE DEF depths
  <2>. QED  BY <1>3, LeastNat
<1>6. \E x \in depths : \A y \in depths : x >= y
  <2>. DEFINE g == GreatestDepth(samples)
  <2>1. /\ g \in Nat /\ g \in {0} \cup {samples[i].depth : i \in 1..n}
        /\ \A i \in 1..n : samples[i].depth <= g
    BY <1>1, GreatestDepthIs
  <2>. HIDE DEF g, depths, n
  <2>2. \A d \in depths : d <= g
    BY <1>3, <2>1
  <2>3. g \in depths
    <3>1. CASE g = 0
      <4>1. PICK d \in depths : TRUE
        OBVIOUS
      <4>2. d = 0
        BY <1>3, <2>2, <3>1
      <4>. QED  BY <3>1, <4>2
    <3>2. CASE g # 0
      <4>1. PICK i \in 1..n : samples[i].depth = g
        BY <2>1, <3>2
      <4>. QED  BY <1>4, <2>1, <4>1 DEF NoDepth
    <3>. QED  BY <3>1, <3>2
  <2>. QED  BY <2>2, <2>3
<1>. HIDE DEF depths
<1>7. /\ Min(depths) \in depths /\ \A y \in depths : Min(depths) <= y
      /\ Max(depths) \in depths /\ \A y \in depths : Max(depths) >= y
  BY <1>5, <1>6 DEF Min, Max
<1>. DEFINE lo == Min(depths)
            hi == Max(depths)
<1>8. lo \in Nat /\ hi \in Nat
  BY <1>3, <1>7
<1>9. \A i \in 1..n : samples[i].depth # NoDepth => samples[i].depth \in lo..hi
  <2>. HIDE DEF lo, hi, n
  <2>. QED  BY <1>3, <1>4, <1>7, <1>8 DEF lo, hi
<1>10. \E i \in 1..n : samples[i].depth # NoDepth
  <2>1. PICK d \in depths : TRUE
    OBVIOUS
  <2>. QED  BY <1>3, <2>1 DEF NoDepth
<1>. HIDE DEF average, lo, hi
<1>11. /\ average.sum \in Nat /\ average.per \in Nat /\ average.per # 0
       /\ lo * average.per <= average.sum /\ average.sum <= hi * average.per
  BY <1>1, <1>8, <1>9, <1>10, AverageIs DEF average
<1>12. CASE average.sum > 0
  BY <1>2, <1>8, <1>11, <1>12 DEF lo, hi
<1>13. CASE ~(average.sum > 0)
  <2>1. info.average.sum = 0 /\ info.average.per = 1
    BY <1>2, <1>13 DEF NotWritten
  <2>2. average.sum = 0
    BY <1>11, <1>13
  <2>3. \A l, p \in Nat : p # 0 /\ l * p <= 0 => l = 0
    OBVIOUS
  <2>4. lo = 0
    BY <1>8, <1>11, <2>2, <2>3
  <2>. QED  BY <1>8, <2>1, <2>4 DEF lo, hi
<1>. QED  BY <1>12, <1>13

LEMMA WrittenTank ==
    ASSUME TypeOK, WrittenInv
    PROVE  OneTankUnfixed
<1> SUFFICES ASSUME ~opts.fix, phase = "saved", ~HasTankPressures, info.begin # 0
             PROVE  \E i, j \in DOMAIN parsed :
                       /\ HasPressure(parsed[i]) /\ HasPressure(parsed[j])
                       /\ Pressure(parsed[i]).tank = Pressure(parsed[j]).tank
                       /\ Pressure(parsed[i]).value = info.begin
                       /\ Pressure(parsed[j]).value = info.end
                       /\ parsed[i].time <= parsed[j].time
  BY DEF OneTankUnfixed, OneTank
<1>. DEFINE n == Len(Kept)
            tank == InitialTank(samples)
            valid == Valid(samples, tank)
<1>1. /\ parsed \in Seq(ParsedSample) /\ samples \in Seq(ParsedSample)
      /\ Len(samples) = n /\ n \in 0..Len(parsed) /\ DOMAIN samples = 1..n
      /\ DOMAIN parsed = 1..Len(parsed)
  BY SavedIs
<1>0. PICK p : SavedAs(p)
  BY SavedIs
<1>2. /\ \A k \in 1..n : /\ p[k] \in 1..n /\ p[k] \in 1..Len(parsed)
                         /\ samples[k] = Final[p[k]] /\ samples[k].time \in Nat
      /\ \A k, l \in 1..n : k < l => samples[k].time <= samples[l].time
  BY <1>0 DEF SavedAs
<1>3. \A i \in 1..n : Final[i] = parsed[i]
  BY <1>1, KeptIs, FinalIs
<1>4. info.begin = InitialPressure(samples, tank) /\ info.end = FinalPressure(samples, tank)
  BY DEF WrittenInv, Written
<1>5. valid # {}
  BY <1>4 DEF InitialPressure
<1>. DEFINE i == Min(valid)
            j == Max(valid)
<1>6. i \in valid /\ j \in valid /\ i <= j /\ i \in 1..n /\ j \in 1..n
  <2>1. valid \subseteq 1..n /\ i \in valid /\ j \in valid /\ \A k \in valid : i <= k
    BY <1>1, <1>5, ValidEnds
  <2>. QED  BY <2>1
<1>7. /\ info.begin = Pressure(samples[i]).value /\ info.end = Pressure(samples[j]).value
      /\ HasPressure(samples[i]) /\ HasPressure(samples[j])
      /\ tank < 0 \/ (Pressure(samples[i]).tank = tank /\ Pressure(samples[j]).tank = tank)
  BY <1>4, <1>5, <1>6 DEF Valid, InitialPressure, FinalPressure
<1>8. ~(tank < 0)
  <2>. DEFINE any == Valid(samples, -1)
  <2>1. any # {}
    BY <1>6 DEF Valid
  <2>2. Min(any) \in any /\ Min(any) \in 1..n
    BY <1>1, <2>1, ValidEnds
  <2>3. samples[Min(any)] \in ParsedSample /\ HasPressure(samples[Min(any)])
    BY <1>1, <2>2 DEF Valid
  <2>4. tank = Pressure(samples[Min(any)]).tank
    BY <2>1 DEF InitialTank
  <2>5. tank \in Nat
    BY <2>3, <2>4, PressureType
  <2>. QED  BY <2>5
<1>. HIDE DEF i, j, valid, tank, n
<1>9. samples[i].time <= samples[j].time
  <2>1. CASE i = j
    BY <1>2, <1>6, <2>1
  <2>2. CASE i < j
    BY <1>2, <1>6, <2>2
  <2>. QED  BY <1>1, <1>6, <2>1, <2>2
<1>10. /\ samples[i] = parsed[p[i]] /\ samples[j] = parsed[p[j]]
       /\ p[i] \in DOMAIN parsed /\ p[j] \in DOMAIN parsed
  <2>1. /\ p[i] \in 1..n /\ p[i] \in 1..Len(parsed) /\ samples[i] = Final[p[i]]
        /\ p[j] \in 1..n /\ p[j] \in 1..Len(parsed) /\ samples[j] = Final[p[j]]
    BY <1>2, <1>6
  <2>. QED  BY <1>1, <1>3, <2>1
<1>. QED  BY <1>7, <1>8, <1>9, <1>10

LEMMA WrittenStart ==
    ASSUME TypeOK, WrittenInv, OrderInv
    PROVE  FixedStart
<1>. DEFINE n == Len(Kept)
            above == {i \in DOMAIN Kept :
                        HasPressure(Kept[i]) /\ Pressure(Kept[i]).value > PressureMin}
            m == Min(above)
            first == Kept[m]
            r == Pressure(first)
<1> SUFFICES ASSUME phase = "saved", opts.fix, above # {}
             PROVE  /\ info.tankBegin = r.value
                    /\ \A i \in DOMAIN samples :
                          HasPressure(samples[i]) /\ samples[i].time < first.time =>
                              Pressure(samples[i]).value = r.value
  BY DEF FixedStart
<1>1. /\ parsed \in Seq(ParsedSample) /\ samples \in Seq(ParsedSample)
      /\ Final \in Seq(ParsedSample) /\ Len(Final) = n /\ DOMAIN Final = 1..n
      /\ Len(samples) = n /\ n \in 0..Len(parsed) /\ DOMAIN samples = 1..n
  BY SavedIs
<1>0. PICK p : SavedAs(p)
  BY SavedIs
<1>2. \A k \in 1..n : p[k] \in 1..n /\ samples[k] = Final[p[k]]
  BY <1>0 DEF SavedAs
<1>3. /\ Kept \in Seq(ParsedSample) /\ DOMAIN Kept = 1..n
      /\ \A i \in 1..n : Kept[i] = parsed[i] /\ Final[i].time = parsed[i].time
  BY <1>1, KeptIs, FinalIs
<1>4. above = Above(Kept)
  BY <1>3, Zenon DEF Above
<1>5. m \in above /\ m \in 1..n /\ first \in ParsedSample /\ HasPressure(first)
      /\ r.value > PressureMin
  <2>1. m \in above /\ m \in 1..n
    BY <1>3, <1>4, AboveFirst
  <2>. QED  BY <1>3, <2>1
<1>6. r \in Reading /\ r.value \in Nat
  BY <1>5, PressureType
<1>7. Final = [i \in 1..n |-> IF i < m THEN SetPressure(Kept[i], r) ELSE Kept[i]]
  BY <1>3, <1>4, FixIs DEF Final
<1>. HIDE DEF n, above, m, r
<1>8. ASSUME NEW i \in 1..n, i <= m
      PROVE  HasPressure(Final[i]) /\ Pressure(Final[i]).value = r.value
  <2>1. CASE i < m
    <3>1. Kept[i] \in SampleOf(Nat)
      BY <1>3, SampleFields DEF ParsedSample, n
    <3>2. Final[i] = SetPressure(Kept[i], r)
      BY <1>7, <2>1
    <3>. QED  BY <1>6, <3>1, <3>2, SetPressureIs
  <2>2. CASE i = m
    <3>1. Final[i] = Kept[m]
      BY <1>5, <1>7, <2>2
    <3>. QED  BY <1>5, <3>1 DEF r
  <2>. QED  BY <1>1, <1>5, <1>8, <2>1, <2>2
<1>9. info.tankBegin = r.value
  <2>. DEFINE valid == Valid(Final, -1)
  <2>1. 1 \in 1..n /\ 1 <= m
    BY <1>1, <1>5
  <2>2. HasPressure(Final[1]) /\ Pressure(Final[1]).value > GasEpsilon
    BY <1>5, <1>6, <1>8, <2>1 DEF GasEpsilon, PressureMin
  <2>3. 1 \in valid
    BY <1>1, <2>1, <2>2 DEF Valid
  <2>4. Min(valid) \in 1..n /\ Min(valid) <= 1
    BY <1>1, <2>3, ValidEnds
  <2>5. Min(valid) = 1
    BY <1>1, <2>4
  <2>6. info.tankBegin = InitialPressure(Final, -1)
    BY DEF WrittenInv, Written
  <2>. QED  BY <1>8, <2>1, <2>3, <2>5, <2>6 DEF InitialPressure
<1>10. ASSUME NEW i \in 1..n, HasPressure(samples[i]), samples[i].time < first.time
       PROVE  Pressure(samples[i]).value = r.value
  <2>1. p[i] \in 1..n /\ samples[i] = Final[p[i]]
    BY <1>2
  <2>2. CASE p[i] <= m
    BY <1>8, <2>1, <2>2
  <2>3. CASE p[i] > m
    <3>1. Final[p[i]] = Kept[p[i]]
      BY <1>1, <1>5, <1>7, <2>1, <2>3
    <3>2. samples[i] = parsed[p[i]] /\ first = parsed[m]
      BY <1>3, <1>5, <2>1, <3>1
    <3>3. m \in 1..Len(parsed) /\ p[i] \in 1..Len(parsed)
      BY <1>1, <1>5, <2>1
    <3>4. parsed[m].time <= parsed[p[i]].time
      BY <1>10, <2>3, <3>2, <3>3 DEF OrderInv, Ordered
    <3>5. parsed[m].time \in Nat /\ parsed[p[i]].time \in Nat
      BY <1>1, <3>3, SampleFields
    <3>6. parsed[p[i]].time < parsed[m].time
      BY <1>10, <3>2
    <3>. QED  BY <3>4, <3>5, <3>6
  <2>. QED  BY <1>1, <1>5, <2>1, <2>2, <2>3
<1>. QED  BY <1>1, <1>9, <1>10

LEMMA WrittenAlarms ==
    ASSUME TypeOK, WrittenInv, AlarmInv, TimedInv
    PROVE  AlarmsWritten
<1> SUFFICES ASSUME phase = "saved" PROVE AlarmsWritten
  BY DEF AlarmsWritten
<1>. DEFINE n == Len(Kept)
<1>1. /\ parsed \in Seq(ParsedSample) /\ samples \in Seq(ParsedSample)
      /\ Len(samples) = n /\ n \in 0..Len(parsed) /\ DOMAIN samples = 1..n
  BY SavedIs
<1>0. PICK p : SavedAs(p)
  BY SavedIs
<1>2. /\ \A k \in 1..n : /\ p[k] \in 1..n /\ p[k] \in 1..Len(parsed)
                         /\ samples[k].time = parsed[p[k]].time
                         /\ samples[k].alarms = parsed[p[k]].alarms
      /\ \A k, l \in 1..n : k < l => samples[k].time <= samples[l].time /\ p[k] # p[l]
      /\ \A j \in 1..n : \E k \in 1..n : p[k] = j
  BY <1>0 DEF SavedAs
<1>. DEFINE k == Surfacing(parsed)
<1>3. /\ ~Surfaced => n = Len(parsed)
      /\ Surfaced => k \in 1..Len(parsed) /\ k \in 1..timed /\ n = k
      /\ timed \in 0..Len(parsed)
      /\ \A i, j \in 1..timed : i < j => parsed[i].time <= parsed[j].time
  <2>1. TimedList(parsed)
    BY DEF TimedInv
  <2>2. timed \in 0..Len(parsed) /\ \A i, j \in 1..timed : i < j => parsed[i].time <= parsed[j].time
    BY <2>1 DEF TimedList
  <2>. QED  BY <1>1, <2>1, <2>2, SurfacedIs
<1>. HIDE DEF n, k
<1>4. ASSUME NEW i \in 2..Len(samples) PROVE samples[i - 1].time <= samples[i].time
  <2>1. i - 1 \in 1..n /\ i \in 1..n /\ i - 1 < i
    BY <1>1
  <2>. QED  BY <1>2, <2>1
<1>5. ASSUME NEW t \in alarms, InDive(t), Surfaced => HasWaypoint(t)
      PROVE  WrittenOnce(t)
  <2>1. PICK i \in 1..Len(parsed) :
           /\ parsed[i].time = t /\ parsed[i].alarms = 1
           /\ \A j \in 1..Len(parsed) :
                 parsed[j].time = t /\ j # i => j > i /\ parsed[j].alarms = 0
    BY DEF AlarmInv, Alarmed
  <2>2. i \in 1..n
    <3>1. CASE ~Surfaced
      BY <1>3, <3>1
    <3>2. CASE Surfaced
      <4>1. PICK w \in 1..timed : parsed[w].time = t
        BY <1>5, <3>2 DEF HasWaypoint
      <4>2. w \in 1..Len(parsed) /\ Len(parsed) \in Nat
        BY <1>1, <1>3, <4>1
      <4>3. i <= w
        BY <2>1, <4>1, <4>2
      <4>4. i \in 1..timed
        BY <1>3, <2>1, <4>1, <4>2, <4>3
      <4>5. t <= parsed[k].time
        BY <1>5, <3>2 DEF InDive, SurfacingTime, k
      <4>6. k \in 1..Len(parsed) /\ k \in 1..timed /\ n = k
        BY <1>3, <3>2
      <4>7. ASSUME i > k PROVE FALSE
        <5>1. parsed[k].time <= parsed[i].time
          BY <1>3, <4>4, <4>6, <4>7
        <5>2. parsed[k].time \in Nat /\ parsed[i].time \in Nat
          BY <1>1, <2>1, <4>6, SampleFields
        <5>3. parsed[k].time = t /\ k # i
          BY <2>1, <4>5, <4>7, <5>1, <5>2
        <5>4. k > i
          BY <2>1, <4>6, <5>3
        <5>. QED  BY <2>1, <4>6, <4>7, <5>4
      <4>. QED  BY <1>1, <2>1, <4>6, <4>7
    <3>. QED  BY <3>1, <3>2
  <2>3. PICK m \in 1..n : p[m] = i
    BY <1>2, <2>2
  <2>4. m \in DOMAIN samples /\ samples[m].time = t /\ samples[m].alarms = 1
    BY <1>1, <1>2, <2>1, <2>3
  <2>5. ASSUME NEW l \in 1..n, samples[l].time = t, l # m PROVE samples[l].alarms = 0
    <3>1. p[l] # i
      <4>1. l < m \/ m < l
        BY <1>1, <2>5
      <4>. QED  BY <1>2, <2>3, <2>5, <4>1
    <3>2. p[l] \in 1..Len(parsed) /\ parsed[p[l]].time = t
      BY <1>2, <2>5
    <3>. QED  BY <1>2, <2>1, <2>5, <3>1, <3>2
  <2>. QED  BY <1>1, <2>4, <2>5 DEF WrittenOnce
<1>. QED  BY <1>4, <1>5 DEF AlarmsWritten

-----------------------------------------------------------------------------

IInv ==
    /\ TypeOK
    /\ ScanInv /\ FixInv /\ NothingDeepIsCut
    /\ AlarmInv /\ OrderInv /\ TimedInv
    /\ WrittenInv

LEMMA InitType == Init => TypeOK
<1> SUFFICES ASSUME Init PROVE TypeOK
  OBVIOUS
<1>. HIDE DEF Sample
<1>1. /\ samples \in Seq(Sample) /\ parsed \in Seq(Sample)
      /\ scan \in [at : Nat \ {0}, last : Nat]
  BY DEF Init
<1>2. info \in [tankBegin : Nat, greatest : Nat, duration : Nat, begin : Nat, end : Nat,
                drop : Nat, average : [sum : Nat, per : Nat \ {0}]]
  BY DEF Init, NoInfo, NotWritten
<1>. QED  BY <1>1, <1>2 DEF Init, TypeOK, Phases

LEMMA InitInvariant == Init => IInv
<1> SUFFICES ASSUME Init PROVE IInv
  OBVIOUS
<1>1. /\ phase = "samples" /\ scan = [at |-> 1, last |-> 0] /\ samples = <<>> /\ alarms = {}
      /\ 1..Len(samples) = {}
  BY DEF Init
<1>2. ScanInv /\ FixInv /\ NothingDeepIsCut /\ WrittenInv
  BY <1>1 DEF ScanInv, FixInv, NothingDeepIsCut, WrittenInv
<1>3. AlarmInv /\ OrderInv /\ TimedInv
  BY <1>1 DEF AlarmInv, Alarmed, OrderInv, TimedInv
<1>. QED  BY <1>2, <1>3, InitType DEF IInv

(* From the first sample to the saved values (doparse, process_and_save,   *)
(* _createDive): the samples are typed, have each alarm once and the       *)
(* pressures in order, the scan of dif_alg_dive_truncate_dive is at the    *)
(* first surfacing so far, and what is saved is read off the sorted list.  *)
THEOREM AlgorithmsInvariant == Spec => []IInv
<1>1. IInv /\ [Next]_vars => IInv'
  <2> SUFFICES ASSUME IInv, [Next]_vars PROVE IInv'
    OBVIOUS
  <2>1. TypeOK' /\ ScanInv' /\ FixInv' /\ NothingDeepIsCut'
    BY TypeNext, ScanNext, Loosely DEF IInv
  <2>2. AlarmInv' /\ OrderInv' /\ TimedInv' /\ WrittenInv'
    BY AlarmNext, OrderNext, TimedNext, WrittenNext DEF IInv
  <2>. QED  BY <2>1, <2>2 DEF IInv
<1>. QED  BY InitInvariant, <1>1, PTL DEF Spec

(* The samples, the scan and what _createDive derives have their types.    *)
THEOREM TypeCorrect == Spec => []TypeOK
<1>1. IInv => TypeOK
  BY DEF IInv
<1>. QED  BY <1>1, AlgorithmsInvariant, PTL

(* Truncation keeps the computer's samples up to the surfacing, whatever   *)
(* the profile, and no later one, whatever samples the alarms put behind   *)
(* (algos.c:86-113).                                                       *)
THEOREM Truncates == Spec => []StopsAtSurfacing
<1>1. IInv => StopsAtSurfacing
  BY KeptStops DEF IInv
<1>. QED  BY <1>1, AlgorithmsInvariant, PTL

(* No sample of 1 m or more is cut, however often the diver surfaced       *)
(* (algos.c:86-113).                                                       *)
THEOREM KeepsDiving == Spec => []NothingDeepIsCut
<1>1. IInv => NothingDeepIsCut
  BY DEF IInv
<1>. QED  BY <1>1, AlgorithmsInvariant, PTL

(* Neither algorithm nor the sort changes the greatest depth written, for  *)
(* a dive that reached 1 m (algos.c:26-113, dif.c:627-645).                *)
THEOREM GreatestSurvives == Spec => []DepthSurvives
<1>1. IInv => DepthSurvives
  BY WrittenDepth DEF IInv
<1>. QED  BY <1>1, AlgorithmsInvariant, PTL

(* The average of a dive for which the computer reports none: whatever the *)
(* times and the depths, the area under the profile over the time, and the *)
(* mean of the depths if no time passes, is between the least and the      *)
(* greatest of them (dif.c:589-625, uddf.c:407-414).                       *)
THEOREM AverageIsBetween == Spec => []AverageBetween
<1>1. IInv => AverageBetween
  BY WrittenAverage DEF IInv
<1>. QED  BY <1>1, AlgorithmsInvariant, PTL

(* A pressure drop derived from the samples is between two readings of one *)
(* tank, the later one last, if the initial pressure fix is off            *)
(* (uddf.c:413-434, dif.c:514-580).                                        *)
THEOREM DropIsOfOneTank == Spec => []OneTankUnfixed
<1>1. IInv => OneTankUnfixed
  BY WrittenTank DEF IInv
<1>. QED  BY <1>1, AlgorithmsInvariant, PTL

(* The initial pressure fix: the first valid pressure is the begin         *)
(* pressure, and that of every sample written before it (algos.c:26-68).   *)
THEOREM StartIsFixed == Spec => []FixedStart
<1>1. IInv => FixedStart
  BY WrittenStart DEF IInv
<1>. QED  BY <1>1, AlgorithmsInvariant, PTL

(* The samples are written in order, and each alarm is on one of them that *)
(* has its second; of a truncated dive those until the surfacing that      *)
(* joined a sample of the computer (dif.c:246-268 and 460-480).            *)
THEOREM WritesAlarms == Spec => []AlarmsWritten
<1>1. IInv => AlarmsWritten
  BY WrittenAlarms DEF IInv
<1>. QED  BY <1>1, AlgorithmsInvariant, PTL

=============================================================================
