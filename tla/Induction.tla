----------------------------- MODULE Induction -----------------------------
(***************************************************************************)
(* Induction and recursion on the natural numbers, as first-order facts    *)
(* that need no operator for a parameter.  What is proved by induction is  *)
(* the membership of each number in a set; a recursive function is the     *)
(* fold of a sequence of functions, which exists by induction.  And what   *)
(* follows for finite collections: the greatest and the least of them, a   *)
(* sequence with one element replaced, as many of one as of another, and   *)
(* the order a stable sort puts them in.                                   *)
(***************************************************************************)
EXTENDS StableSort, FiniteSetTheorems, FunctionTheorems, WellFoundedInduction, TLAPS

(* A set of naturals has a least element. *)
LEMMA LeastNat ==
    ASSUME NEW T \in SUBSET Nat, T # {}
    PROVE  \E x \in T : \A y \in T : x <= y
<1>1. PICK x \in T : \A y \in T : ~(<<y, x>> \in OpToRel(<, Nat))
  BY NatLessThanWellFounded, WFMin
<1>2. \A y \in T : ~(y < x)
  BY <1>1 DEF OpToRel
<1>. QED  BY <1>2

(* A set that holds 0 and every successor of its elements holds all. *)
LEMMA NatSet ==
    ASSUME NEW S, 0 \in S, \A n \in Nat : n \in S => n + 1 \in S
    PROVE  Nat \subseteq S
<1> SUFFICES ASSUME Nat \ S # {} PROVE FALSE
  OBVIOUS
<1>1. PICK x \in Nat \ S : \A y \in Nat \ S : x <= y
  BY LeastNat
<1>2. x - 1 \in Nat \ S
  BY <1>1
<1>. QED  BY <1>1, <1>2

(* The same between two bounds. *)
LEMMA RangeSet ==
    ASSUME NEW S, NEW a \in Int, NEW b \in Int, a \in S,
           \A n \in a..(b - 1) : n \in S => n + 1 \in S
    PROVE  a..b \subseteq S
<1>. DEFINE T == {n \in Nat : a + n <= b => a + n \in S}
<1>1. 0 \in T
  OBVIOUS
<1>2. ASSUME NEW n \in Nat, n \in T PROVE n + 1 \in T
  <2>1. ASSUME a + (n + 1) <= b PROVE a + (n + 1) \in S
    <3>1. a + n \in a..(b - 1) /\ a + n \in S
      BY <1>2, <2>1
    <3>2. (a + n) + 1 \in S
      BY <3>1
    <3>. QED  BY <3>2
  <2>. QED  BY <2>1
<1>. HIDE DEF T
<1>3. Nat \subseteq T
  BY <1>1, <1>2, NatSet
<1>4. ASSUME NEW i \in a..b PROVE i \in S
  <2>1. i - a \in T
    BY <1>3
  <2>2. a + (i - a) = i
    OBVIOUS
  <2>. QED  BY <2>1, <2>2 DEF T
<1>. QED  BY <1>4

(* The values a step function of each number leads to, one after another. *)
LEMMA FoldExists ==
    ASSUME NEW S, NEW a \in S, NEW n \in Nat, NEW g \in [1..n -> [S -> S]]
    PROVE  \E f \in [0..n -> S] : f[0] = a /\ \A i \in 1..n : f[i] = g[i][f[i - 1]]
<1>. DEFINE Good(m, f) == \A i \in 0..m : f[i] = IF i = 0 THEN a ELSE g[i][f[i - 1]]
            T == {m \in 0..n : \E f \in [0..m -> S] : Good(m, f)}
<1>1. 0 \in T
  <2>. DEFINE f == [i \in 0..0 |-> a]
  <2>1. f \in [0..0 -> S]
    OBVIOUS
  <2>2. Good(0, f)
    OBVIOUS
  <2>. HIDE DEF f, Good
  <2>3. 0 \in 0..n
    OBVIOUS
  <2>. QED  BY <2>1, <2>2, <2>3
<1>2. ASSUME NEW m \in 0..(n - 1), m \in T PROVE m + 1 \in T
  <2>1. PICK f \in [0..m -> S] : Good(m, f)
    BY <1>2
  <2>. DEFINE h == [i \in 0..(m + 1) |-> IF i = m + 1 THEN g[m + 1][f[m]] ELSE f[i]]
  <2>2. f[m] \in S /\ m + 1 \in 1..n /\ m \in Nat
    BY <2>1
  <2>3. g[m + 1] \in [S -> S]
    BY <2>2
  <2>4. g[m + 1][f[m]] \in S
    BY <2>2, <2>3
  <2>5. h \in [0..(m + 1) -> S]
    BY <2>1, <2>2, <2>4
  <2>6. Good(m + 1, h)
    <3> SUFFICES ASSUME NEW i \in 0..(m + 1)
                 PROVE  h[i] = IF i = 0 THEN a ELSE g[i][h[i - 1]]
      OBVIOUS
    <3>1. CASE i = m + 1
      BY <3>1, <2>2
    <3>2. CASE i # m + 1
      <4>1. i \in 0..m /\ (i # 0 => i - 1 \in 0..m /\ i - 1 # m + 1)
        BY <3>2, <2>2
      <4>2. h[i] = f[i] /\ (i # 0 => h[i - 1] = f[i - 1])
        BY <4>1, <3>2, <2>2
      <4>. QED  BY <4>1, <4>2, <2>1
    <3>. QED  BY <3>1, <3>2
  <2>7. m + 1 \in 0..n
    BY <2>2
  <2>. QED  BY <2>5, <2>6, <2>7
<1>. HIDE DEF T
<1>3. n \in T
  <2>1. 0..n \subseteq T
    <3>1. \A m \in 0..(n - 1) : m \in T => m + 1 \in T
      BY <1>2
    <3>2. 0 \in Int /\ n \in Int
      OBVIOUS
    <3>. QED  BY <1>1, <3>1, <3>2, RangeSet
  <2>2. n \in 0..n
    OBVIOUS
  <2>. QED  BY <2>1, <2>2
<1>4. PICK f \in [0..n -> S] : Good(n, f)
  BY <1>3 DEF T
<1>5. f[0] = a /\ \A i \in 1..n : f[i] = g[i][f[i - 1]]
  <2>1. 0 \in 0..n /\ \A i \in 1..n : i \in 0..n /\ i # 0
    OBVIOUS
  <2>. QED  BY <2>1, <1>4
<1>. QED  BY <1>5

(* What holds of the first value and is kept from one to the next holds of *)
(* every value.                                                            *)
LEMMA KeptAlong ==
    ASSUME NEW n \in Nat, NEW f, NEW S, f[0] \in S,
           \A i \in 1..n : f[i - 1] \in S => f[i] \in S
    PROVE  \A i \in 0..n : f[i] \in S
<1>. DEFINE T == {i \in 0..n : f[i] \in S}
<1>1. 0 \in T /\ 0 \in Int /\ n \in Int
  OBVIOUS
<1>2. \A i \in 0..(n - 1) : i \in T => i + 1 \in T
  <2> SUFFICES ASSUME NEW i \in 0..(n - 1), f[i] \in S
               PROVE  i + 1 \in 0..n /\ f[i + 1] \in S
    OBVIOUS
  <2>1. i + 1 \in 1..n /\ (i + 1) - 1 = i
    OBVIOUS
  <2>. QED  BY <2>1
<1>. HIDE DEF T
<1>3. 0..n \subseteq T
  BY <1>1, <1>2, RangeSet
<1>. QED  BY <1>3 DEF T

-----------------------------------------------------------------------------
(* The greatest and the least of finitely many integers. *)

LEMMA GreatestOf ==
    ASSUME NEW n \in Nat, NEW f \in [1..n -> Int], NEW a \in Int
    PROVE  LET S == {a} \cup {f[i] : i \in 1..n}
           IN  \E x \in S : \A y \in S : x >= y
<1>. DEFINE S(m) == {a} \cup {f[i] : i \in 1..m}
            T == {m \in 0..n : \E x \in S(m) : \A y \in S(m) : x >= y}
<1>1. 0 \in T
  <2>1. S(0) = {a}
    OBVIOUS
  <2>. QED  BY <2>1
<1>2. ASSUME NEW m \in 0..(n - 1), m \in T PROVE m + 1 \in T
  <2>1. PICK x \in S(m) : \A y \in S(m) : x >= y
    BY <1>2
  <2>2. m + 1 \in 1..n /\ 1..(m + 1) = 1..m \cup {m + 1} /\ 1..m \subseteq 1..n
    OBVIOUS
  <2>3. S(m + 1) = S(m) \cup {f[m + 1]} /\ f[m + 1] \in Int /\ S(m) \subseteq Int
    BY <2>2
  <2>. HIDE DEF S
  <2>4. \E z \in S(m + 1) : \A y \in S(m + 1) : z >= y
    <3>1. CASE x >= f[m + 1]
      BY <2>1, <2>3, <3>1
    <3>2. CASE x < f[m + 1]
      <4>1. \A y \in S(m + 1) : f[m + 1] >= y
        BY <2>1, <2>3, <3>2
      <4>. QED  BY <2>3, <4>1
    <3>. QED  BY <2>1, <2>3, <3>1, <3>2
  <2>. QED  BY <2>2, <2>4
<1>3. n \in T
  <2>. HIDE DEF T
  <2>1. 0..n \subseteq T
    <3>1. 0 \in Int /\ n \in Int
      OBVIOUS
    <3>. QED  BY <1>1, <1>2, <3>1, RangeSet
  <2>. QED  BY <2>1
<1>. QED  BY <1>3

(* A part of a range that is not empty has a greatest and a least number.  *)
LEMMA RangeEnds ==
    ASSUME NEW n \in Nat, NEW S \in SUBSET (1..n), S # {}
    PROVE  /\ \E x \in S : \A y \in S : x >= y
           /\ \E x \in S : \A y \in S : x <= y
<1>1. \E x \in S : \A y \in S : x <= y
  <2>1. S \in SUBSET Nat
    OBVIOUS
  <2>. QED  BY <2>1, LeastNat
<1>2. \E x \in S : \A y \in S : x >= y
  <2>. DEFINE T == {k \in Nat : n - k \in S}
  <2>1. T \in SUBSET Nat /\ \A x \in S : n - x \in T
    OBVIOUS
  <2>2. PICK k \in T : \A l \in T : k <= l
    <3>. HIDE DEF T
    <3>. QED  BY <2>1, LeastNat
  <2>3. n - k \in S /\ \A y \in S : n - k >= y
    BY <2>1, <2>2
  <2>. QED  BY <2>3
<1>. QED  BY <1>1, <1>2

-----------------------------------------------------------------------------
(* A sequence with one of its elements replaced. *)

LEMMA Replaced ==
    ASSUME NEW S, NEW s \in Seq(S), NEW i, NEW x, i \in 1..Len(s) => x \in S
    PROVE  [s EXCEPT ![i] = x] \in Seq(S)
<1>1. s \in [1..Len(s) -> S] /\ Len(s) \in Nat
  OBVIOUS
<1>2. [s EXCEPT ![i] = x] \in [1..Len(s) -> S]
  BY <1>1
<1>. QED  BY <1>1, <1>2

LEMMA OneReplaced ==
    ASSUME NEW S, NEW s \in Seq(S), NEW k \in 1..Len(s), NEW x
    PROVE  LET t == [s EXCEPT ![k] = x] IN
           /\ Len(t) = Len(s)
           /\ \A i \in 1..Len(s) : t[i] = IF i = k THEN x ELSE s[i]
<1>1. s \in [1..Len(s) -> S] /\ Len(s) \in Nat
  OBVIOUS
<1>. QED  BY <1>1

(* Each of S belongs to one of T, and the other way round. *)
LEMMA SameNumber ==
    ASSUME NEW S, NEW T, IsFiniteSet(T), NEW f \in [S -> T],
           \A x, y \in S : f[x] = f[y] => x = y,
           \A y \in T : \E x \in S : f[x] = y
    PROVE  Cardinality(S) = Cardinality(T)
<1>1. f \in Bijection(S, T)
  BY Fun_IsBij
<1>2. ExistsBijection(T, S)
  BY <1>1, Fun_ExistsBijSymmetric DEF ExistsBijection
<1>. QED  BY <1>2, FS_Bijection

-----------------------------------------------------------------------------
(* The stable sort is a permutation of the positions; of two of them it    *)
(* puts the one with the lesser key first, and of two with the same key    *)
(* the one that was first.                                                 *)
LEMMA StableOrderIs ==
    ASSUME NEW n \in Nat, NEW keys \in [1..n -> Int]
    PROVE  LET order == StableOrder(keys)
               before(i, j) == keys[i] < keys[j] \/ (keys[i] = keys[j] /\ i < j)
           IN  /\ order \in [1..n -> 1..n]
               /\ \A k, l \in 1..n : k < l => before(order[k], order[l])
               /\ \A j \in 1..n : \E k \in 1..n : order[k] = j
<1>. DEFINE order == StableOrder(keys)
            before(i, j) == keys[i] < keys[j] \/ (keys[i] = keys[j] /\ i < j)
            ahead(j) == {i \in 1..n : before(i, j)}
            place == [j \in 1..n |-> Cardinality(ahead(j)) + 1]
<1>1. \A j \in 1..n : keys[j] \in Int
  OBVIOUS
<1>2. order = [k \in 1..n |-> CHOOSE j \in 1..n : place[j] = k]
  <2>. DEFINE D == DOMAIN keys
              ahead2(j) == {i \in D : before(i, j)}
              place2 == [j \in D |-> Cardinality(ahead2(j)) + 1]
  <2>1. D = 1..n
    OBVIOUS
  <2>2. order = [k \in D |-> CHOOSE j \in D : place2[j] = k]
    BY Zenon DEF StableOrder
  <2>3. \A j \in D : ahead2(j) = ahead(j)
    BY <2>1
  <2>4. place2 = place
    <3>. HIDE DEF ahead, ahead2, D
    <3>. QED  BY <2>1, <2>3
  <2>. HIDE DEF D, place, place2, order
  <2>. QED  BY <2>1, <2>2, <2>4
<1>3. \A j \in 1..n : IsFiniteSet(ahead(j)) /\ Cardinality(ahead(j)) \in 0..(n - 1)
  <2> SUFFICES ASSUME NEW j \in 1..n
               PROVE  IsFiniteSet(ahead(j)) /\ Cardinality(ahead(j)) \in 0..(n - 1)
    OBVIOUS
  <2>1. ahead(j) \in SUBSET ((1..n) \ {j})
    BY <1>1
  <2>2. IsFiniteSet((1..n) \ {j}) /\ Cardinality((1..n) \ {j}) = n - 1
    <3>1. IsFiniteSet(1..n) /\ Cardinality(1..n) = n
      <4>1. Cardinality(1..n) = IF 1 > n THEN 0 ELSE n - 1 + 1
        BY FS_Interval
      <4>. QED  BY <4>1, FS_Interval
    <3>. QED  BY <3>1, FS_RemoveElement
  <2>. HIDE DEF ahead
  <2>3. /\ IsFiniteSet(ahead(j)) /\ Cardinality(ahead(j)) <= n - 1
        /\ Cardinality(ahead(j)) \in Nat
    BY <2>1, <2>2, FS_Subset, FS_CardinalityType
  <2>. QED  BY <2>3
<1>4. ASSUME NEW i \in 1..n, NEW j \in 1..n, before(i, j) PROVE place[i] < place[j]
  <2>1. ahead(i) \cup {i} \in SUBSET ahead(j) /\ i \notin ahead(i)
    <3>1. \A k \in 1..n : before(k, i) => before(k, j)
      BY <1>1, <1>4
    <3>2. ~before(i, i)
      BY <1>1
    <3>. QED  BY <1>4, <3>1, <3>2
  <2>2. /\ IsFiniteSet(ahead(i)) /\ Cardinality(ahead(i)) \in Nat
        /\ IsFiniteSet(ahead(j)) /\ Cardinality(ahead(j)) \in Nat
    <3>. HIDE DEF ahead
    <3>. QED  BY <1>3
  <2>3. place[i] = Cardinality(ahead(i)) + 1 /\ place[j] = Cardinality(ahead(j)) + 1
    OBVIOUS
  <2>. HIDE DEF ahead, place
  <2>4. Cardinality(ahead(i) \cup {i}) = Cardinality(ahead(i)) + 1
    BY <2>1, <2>2, FS_AddElement
  <2>5. Cardinality(ahead(i) \cup {i}) <= Cardinality(ahead(j))
    BY <2>1, <2>2, FS_Subset
  <2>. QED  BY <2>2, <2>3, <2>4, <2>5
<1>5. \A i, j \in 1..n : i # j => before(i, j) \/ before(j, i)
  BY <1>1
<1>6. place \in [1..n -> 1..n]
  <2> SUFFICES ASSUME NEW j \in 1..n PROVE Cardinality(ahead(j)) + 1 \in 1..n
    OBVIOUS
  <2>. HIDE DEF ahead
  <2>. QED  BY <1>3
<1>7. \A k \in 1..n : order[k] = CHOOSE j \in 1..n : place[j] = k
  <2>. HIDE DEF place, order
  <2>. QED  BY <1>2
<1>. HIDE DEF place, ahead, before, order
<1>8. \A k \in 1..n : \E j \in 1..n : place[j] = k
  <2>1. \A i, j \in 1..n : place[i] = place[j] => i = j
    <3> SUFFICES ASSUME NEW i \in 1..n, NEW j \in 1..n, place[i] = place[j], i # j
                 PROVE  FALSE
      OBVIOUS
    <3>1. place[i] < place[j] \/ place[j] < place[i]
      BY <1>4, <1>5
    <3>. QED  BY <1>6, <3>1
  <2>2. place \in Injection(1..n, 1..n)
    BY <1>6, <2>1 DEF Injection, IsInjective
  <2>3. place \in Surjection(1..n, 1..n)
    <3>. DEFINE D == 1..n
    <3>1. IsFiniteSet(D)
      BY FS_Interval
    <3>2. place \in Injection(D, D)
      BY <2>2
    <3>. HIDE DEF D
    <3>3. place \in Surjection(D, D)
      BY <3>1, <3>2, FS_Injection
    <3>. QED  BY <3>3 DEF D
  <2>. QED  BY <2>3 DEF Surjection
<1>9. \A k \in 1..n : order[k] \in 1..n /\ place[order[k]] = k
  <2>1. ASSUME NEW k \in 1..n
        PROVE  (CHOOSE j \in 1..n : place[j] = k) \in 1..n
               /\ place[CHOOSE j \in 1..n : place[j] = k] = k
    <3>1. \E j \in 1..n : place[j] = k
      BY <1>8
    <3>. QED  BY <3>1, Zenon
  <2>. QED  BY <1>7, <2>1
<1>10. order \in [1..n -> 1..n]
  <2>1. order = [k \in 1..n |-> order[k]]
    BY <1>2 DEF order
  <2>. QED  BY <1>9, <2>1
<1>11. ASSUME NEW k \in 1..n, NEW l \in 1..n, k < l PROVE before(order[k], order[l])
  <2>1. /\ order[k] \in 1..n /\ order[l] \in 1..n
        /\ place[order[k]] = k /\ place[order[l]] = l
    BY <1>9
  <2>2. order[k] # order[l]
    BY <1>11, <2>1
  <2>3. ASSUME before(order[l], order[k]) PROVE FALSE
    <3>1. place[order[l]] < place[order[k]]
      BY <1>4, <2>1, <2>3
    <3>. QED  BY <1>11, <2>1, <3>1
  <2>. QED  BY <1>5, <2>1, <2>2, <2>3
<1>12. ASSUME NEW j \in 1..n PROVE \E k \in 1..n : order[k] = j
  <2>1. place[j] \in 1..n
    BY <1>6
  <2>2. \A i \in 1..n : place[i] = place[j] => i = j
    <3> SUFFICES ASSUME NEW i \in 1..n, place[i] = place[j], i # j PROVE FALSE
      OBVIOUS
    <3>1. place[i] < place[j] \/ place[j] < place[i]
      BY <1>4, <1>5
    <3>. QED  BY <1>6, <3>1
  <2>3. order[place[j]] = j
    BY <1>9, <2>1, <2>2
  <2>. QED  BY <2>1, <2>3
<1>13. \A k, l \in 1..n : k < l => before(order[k], order[l])
  BY <1>11
<1>14. \A j \in 1..n : \E k \in 1..n : order[k] = j
  BY <1>12
<1>. QED  BY <1>10, <1>13, <1>14 DEF order, before

=============================================================================
