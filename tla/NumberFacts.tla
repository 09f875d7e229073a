---------------------------- MODULE NumberFacts ----------------------------
(***************************************************************************)
(* Facts about natural numbers that the proofs about numbers in memory     *)
(* rest on: induction, powers of two, division and recursive sums.         *)
(*                                                                         *)
(* Induction is stated with the set of the numbers that have the property, *)
(* and follows from the fact that the natural numbers are well-founded.    *)
(***************************************************************************)
EXTENDS Integers, FiniteSets, FiniteSetTheorems, FunctionTheorems, WellFoundedInduction, TLAPS

(* A set of natural numbers that is not empty has a least element.         *)
LEMMA LeastElement ==
  ASSUME NEW T, T \subseteq Nat, T # {}
  PROVE  \E m \in T : \A k \in T : m <= k
  <1> DEFINE R == {ss \in Nat \X Nat : ss[1] < ss[2]}
  <1>1. R = OpToRel(<, Nat)
    BY DEF OpToRel
  <1>2. IsWellFoundedOn(R, Nat)
    BY <1>1, NatLessThanWellFounded
  <1>3. \A i, j \in Nat : i < j => <<i, j>> \in R
    OBVIOUS
  <1> HIDE DEF R
  <1>4. PICK m \in T : \A k \in T : ~ (<<k, m>> \in R)
    BY <1>2, WFMin
  <1>5. \A k \in T : ~ (k < m)
    BY <1>3, <1>4
  <1>6. \A k \in T : m <= k
    BY <1>5
  <1> QED
    BY <1>6

(* A set with 0, and with k + 1 if k is in it, up to n, has all of 0..n.   *)
LEMMA UpTo ==
  ASSUME NEW n \in Nat, NEW S, 0 \in S, \A k \in 0 .. (n - 1) : k \in S => k + 1 \in S
  PROVE  \A k \in 0 .. n : k \in S
  <1> SUFFICES ASSUME NEW i \in 0 .. n, i \notin S
               PROVE  FALSE
    OBVIOUS
  <1> DEFINE T == {k \in Nat : k <= n /\ k \notin S}
  <1>1. i \in T
    OBVIOUS
  <1>2. PICK m \in T : \A k \in T : m <= k
    <2>1. T \subseteq Nat /\ T # {}
      BY <1>1
    <2> HIDE DEF T
    <2> QED
      BY <2>1, LeastElement
  <1>3. m \in Nat /\ m <= n /\ m \notin S /\ m # 0
    BY <1>2
  <1>4. m - 1 \in Nat /\ m - 1 <= n /\ m - 1 < m /\ m - 1 \in 0 .. (n - 1) /\ (m - 1) + 1 = m
    BY <1>3
  <1>5. m - 1 \notin T
    BY <1>2, <1>4
  <1>6. m - 1 \in S
    BY <1>4, <1>5
  <1> QED
    BY <1>3, <1>4, <1>6

-----------------------------------------------------------------------------
(***************************************************************************)
(* Powers of two, from the number of subsets of 1..n.                      *)
(***************************************************************************)

(* 2^0 counts the subsets of the empty set.                                *)
LEMMA PowZero == 2 ^ 0 = 1
  <1>1. SUBSET {} = {{}}
    OBVIOUS
  <1>2. Cardinality({}) = 0 /\ IsFiniteSet({})
    BY FS_EmptySet
  <1>3. Cardinality({{}}) = 1
    BY FS_Singleton
  <1> QED
    BY <1>1, <1>2, <1>3, FS_SUBSET

(* 2^n counts the subsets of 1..n.                                         *)
LEMMA PowCounts ==
  ASSUME NEW n \in Nat
  PROVE  IsFiniteSet(SUBSET (1 .. n)) /\ Cardinality(SUBSET (1 .. n)) = 2 ^ n
  <1>1. IsFiniteSet(1 .. n) /\ Cardinality(1 .. n) = n
    <2>1. IsFiniteSet(1 .. n) /\ Cardinality(1 .. n) = (IF 1 > n THEN 0 ELSE n - 1 + 1)
      BY FS_Interval
    <2> QED
      BY <2>1
  <1> QED
    BY <1>1, FS_SUBSET

(* A power of two is a positive number.                                    *)
LEMMA PowPos ==
  ASSUME NEW n \in Nat
  PROVE  2 ^ n \in Nat \ {0}
  <1> DEFINE U == SUBSET (1 .. n)
  <1>1. IsFiniteSet(U) /\ Cardinality(U) = 2 ^ n
    BY PowCounts
  <1>2. {} \in U
    OBVIOUS
  <1> HIDE DEF U
  <1>3. Cardinality(U) \in Nat /\ Cardinality(U) # 0
    BY <1>1, <1>2, FS_CardinalityType, FS_EmptySet
  <1> QED
    BY <1>1, <1>3

(* Half of the subsets of 1..n+1 contain n+1.                              *)
LEMMA PowSucc ==
  ASSUME NEW n \in Nat
  PROVE  2 ^ (n + 1) = 2 * 2 ^ n
  <1> DEFINE U == SUBSET (1 .. n)
             V == {T \in SUBSET (1 .. (n + 1)) : n + 1 \in T}
             f == [T \in U |-> T \cup {n + 1}]
  <1>1. f \in Bijection(U, V)
    <2>1. f \in [U -> V]
      <3> SUFFICES ASSUME NEW T \in U
                   PROVE  T \cup {n + 1} \in V
        OBVIOUS
      <3> QED
        OBVIOUS
    <2>2. \A S, T \in U : f[S] = f[T] => S = T
      <3> SUFFICES ASSUME NEW S \in U, NEW T \in U, S \cup {n + 1} = T \cup {n + 1}
                   PROVE  S = T
        OBVIOUS
      <3>1. n + 1 \notin S /\ n + 1 \notin T
        OBVIOUS
      <3> QED
        BY <3>1
    <2>3. \A W \in V : \E T \in U : f[T] = W
      <3> SUFFICES ASSUME NEW W \in V
                   PROVE  \E T \in U : f[T] = W
        OBVIOUS
      <3>1. W \ {n + 1} \in U
        <4> SUFFICES ASSUME NEW i \in W, i # n + 1
                     PROVE  i \in 1 .. n
          OBVIOUS
        <4>1. i \in 1 .. (n + 1)
          OBVIOUS
        <4> QED
          BY <4>1
      <3>2. (W \ {n + 1}) \cup {n + 1} = W
        OBVIOUS
      <3> QED
        BY <3>1, <3>2
    <2> QED
      BY <2>1, <2>2, <2>3, Fun_IsBij
  <1>2. IsFiniteSet(U) /\ Cardinality(U) = 2 ^ n
    BY PowCounts
  <1>3. IsFiniteSet(V) /\ Cardinality(V) = Cardinality(U)
    <2>1. ExistsBijection(U, V)
      BY <1>1 DEF ExistsBijection
    <2> HIDE DEF U, V
    <2> QED
      BY <1>2, <2>1, FS_Bijection
  <1>4. SUBSET (1 .. (n + 1)) = U \cup V
    <2>1. \A T : T \in SUBSET (1 .. (n + 1)) <=> T \in U \/ T \in V
      <3> SUFFICES ASSUME NEW T
                   PROVE  T \in SUBSET (1 .. (n + 1)) <=> T \in U \/ T \in V
        OBVIOUS
      <3>1. \A i : i \in 1 .. (n + 1) <=> (i \in 1 .. n \/ i = n + 1)
        OBVIOUS
      <3> QED
        BY <3>1, Zenon
    <2> QED
      BY <2>1, Zenon
  <1>5. U \cap V = {}
    <2>1. n + 1 \notin 1 .. n
      OBVIOUS
    <2> QED
      BY <2>1, Zenon
  <1>6. Cardinality(U \cup V) = Cardinality(U) + Cardinality(V) - Cardinality(U \cap V)
    <2> HIDE DEF U, V
    <2> QED
      BY <1>2, <1>3, FS_Union
  <1>7. Cardinality(U \cap V) = 0
    BY <1>5, FS_EmptySet
  <1>8. Cardinality(SUBSET (1 .. (n + 1))) = 2 ^ (n + 1)
    BY PowCounts
  <1>9. 2 ^ n \in Int
    BY PowPos
  <1> HIDE DEF U, V
  <1>10. Cardinality(U \cup V) = 2 ^ (n + 1)
    BY <1>4, <1>8
  <1>11. Cardinality(U) = 2 ^ n /\ Cardinality(V) = 2 ^ n
    BY <1>2, <1>3
  <1>12. 2 ^ (n + 1) = 2 ^ n + 2 ^ n - 0
    BY <1>6, <1>7, <1>10, <1>11
  <1> QED
    BY <1>9, <1>12

(* The law of exponents.                                                   *)
LEMMA PowAdd ==
  ASSUME NEW a \in Nat, NEW b \in Nat
  PROVE  2 ^ (a + b) = 2 ^ a * 2 ^ b
  <1> DEFINE S == {k \in Nat : 2 ^ (a + k) = 2 ^ a * 2 ^ k}
  <1>1. 0 \in S
    <2>1. 2 ^ a * 1 = 2 ^ a /\ a + 0 = a
      BY PowPos
    <2> QED
      BY <2>1, PowZero
  <1>2. ASSUME NEW k \in 0 .. (b - 1), k \in S
        PROVE  k + 1 \in S
    <2>1. k \in Nat /\ a + k \in Nat /\ k + 1 \in Nat /\ a + (k + 1) = (a + k) + 1
      OBVIOUS
    <2>2. 2 ^ (a + (k + 1)) = 2 * 2 ^ (a + k) /\ 2 ^ (k + 1) = 2 * 2 ^ k
      BY <2>1, PowSucc
    <2>3. 2 ^ (a + k) = 2 ^ a * 2 ^ k
      BY <1>2
    <2>4. \A p, q \in Int : 2 * (p * q) = p * (2 * q)
      OBVIOUS
    <2>5. 2 ^ a \in Int /\ 2 ^ k \in Int
      BY <2>1, PowPos
    <2>6. 2 * (2 ^ a * 2 ^ k) = 2 ^ a * (2 * 2 ^ k)
      BY <2>4, <2>5
    <2>7. 2 ^ (a + (k + 1)) = 2 ^ a * 2 ^ (k + 1)
      BY <2>2, <2>3, <2>6
    <2> QED
      BY <2>1, <2>7
  <1>3. b \in S
    <2> HIDE DEF S
    <2>1. \A k \in 0 .. b : k \in S
      BY <1>1, <1>2, UpTo
    <2> QED
      BY <2>1
  <1> QED
    BY <1>3

-----------------------------------------------------------------------------
(***************************************************************************)
(* Division.                                                               *)
(***************************************************************************)

(* Quotient and remainder.                                                 *)
LEMMA DivMod ==
  ASSUME NEW x \in Int, NEW m \in Nat \ {0}
  PROVE  /\ x \div m \in Int
         /\ x % m \in 0 .. (m - 1)
         /\ x = m * (x \div m) + (x % m)
  OBVIOUS

(* A product with a factor that is not zero is at least the other factor.  *)
LEMMA Multiple ==
  ASSUME NEW m \in Nat \ {0}, NEW d \in Int
  PROVE  (d >= 1 => m * d >= m) /\ (d <= -1 => m * d <= -m)
  OBVIOUS

(* Quotient and remainder are unique.                                      *)
LEMMA DivModUnique ==
  ASSUME NEW m \in Nat \ {0}, NEW q \in Int, NEW r \in 0 .. (m - 1)
  PROVE  (m * q + r) \div m = q /\ (m * q + r) % m = r
  <1> DEFINE x == m * q + r
             p == x \div m
             s == x % m
  <1>1. x \in Int
    OBVIOUS
  <1>2. p \in Int /\ s \in 0 .. (m - 1) /\ x = m * p + s
    BY <1>1, DivMod
  <1>3. m * q + r = m * p + s
    BY <1>2
  <1> HIDE DEF p, s
  <1>4. m * (p - q) = r - s
    <2>1. m * (p - q) = m * p - m * q
      BY <1>2
    <2>2. m * p \in Int /\ m * q \in Int
      BY <1>2
    <2> QED
      BY <1>2, <1>3, <2>1, <2>2
  <1>5. r - s < m /\ r - s > -m
    BY <1>2
  <1>6. p - q = 0
    <2>1. p - q \in Int
      BY <1>2
    <2>2. ~(p - q >= 1) /\ ~(p - q <= -1)
      BY <1>2, <1>4, <1>5, <2>1, Multiple
    <2> QED
      BY <2>1, <2>2
  <1>7. p = q
    BY <1>2, <1>6
  <1>8. s = r
    BY <1>2, <1>3, <1>7
  <1> QED
    BY <1>7, <1>8 DEF p, s

(* Numbers that differ by a multiple of m have the same remainder.         *)
LEMMA ModShift ==
  ASSUME NEW x \in Int, NEW k \in Int, NEW m \in Nat \ {0}
  PROVE  (x + m * k) % m = x % m
  <1> DEFINE q == x \div m
             r == x % m
  <1>1. q \in Int /\ r \in 0 .. (m - 1) /\ x = m * q + r
    BY DivMod
  <1> HIDE DEF q, r
  <1>2. x + m * k = m * (q + k) + r
    <2>1. m * (q + k) = m * q + m * k
      BY <1>1
    <2>2. m * q \in Int /\ m * k \in Int
      BY <1>1
    <2> QED
      BY <1>1, <2>1, <2>2
  <1>3. q + k \in Int
    BY <1>1
  <1>4. (m * (q + k) + r) % m = r
    BY <1>1, <1>3, DivModUnique
  <1> QED
    BY <1>2, <1>4 DEF r

(* Numbers in range are their own remainders.                              *)
LEMMA ModSmall ==
  ASSUME NEW m \in Nat \ {0}, NEW x \in 0 .. (m - 1)
  PROVE  x % m = x
  OBVIOUS

(* The remainder of a product depends only on the remainders.              *)
LEMMA ModMul ==
  ASSUME NEW x \in Int, NEW y \in Int, NEW m \in Nat \ {0}
  PROVE  ((x % m) * (y % m)) % m = (x * y) % m
  <1> DEFINE p == x \div m
             r == x % m
             q == y \div m
             s == y % m
  <1>1. p \in Int /\ r \in Int /\ x = m * p + r
    BY DivMod
  <1>2. q \in Int /\ s \in Int /\ y = m * q + s
    BY DivMod
  <1> HIDE DEF p, r, q, s
  <1>3. x * y = r * s + m * (p * y + r * q)
    <2>1. (m * p + r) * y = m * (p * y) + r * y
      BY <1>1
    <2>2. r * (m * q + s) = m * (r * q) + r * s
      BY <1>1, <1>2
    <2>3. m * (p * y + r * q) = m * (p * y) + m * (r * q)
      BY <1>1, <1>2
    <2>4. x * y = m * (p * y) + r * y /\ r * y = m * (r * q) + r * s
      BY <1>1, <1>2, <2>1, <2>2
    <2> DEFINE a == m * (p * y)
               b == m * (r * q)
               c == r * s
               d == m * (p * y + r * q)
               e == x * y
               h == r * y
    <2>5. a \in Int /\ b \in Int /\ c \in Int /\ d \in Int /\ e \in Int /\ h \in Int
      BY <1>1, <1>2
    <2>6. d = a + b /\ e = a + h /\ h = b + c
      BY <2>3, <2>4
    <2> HIDE DEF a, b, c, d, e, h
    <2>7. e = c + d
      BY <2>5, <2>6
    <2> QED
      BY <2>7 DEF c, d, e
  <1>4. r * s \in Int /\ p * y + r * q \in Int
    BY <1>1, <1>2
  <1>5. (r * s + m * (p * y + r * q)) % m = (r * s) % m
    BY <1>4, ModShift
  <1> QED
    BY <1>3, <1>5 DEF r, s

(* A remainder is its own remainder.                                       *)
LEMMA ModTwice ==
  ASSUME NEW i \in Int, NEW m \in Nat \ {0}
  PROVE  (i % m) % m = i % m
  <1>1. i % m \in 0 .. (m - 1)
    BY DivMod
  <1> QED
    BY <1>1, ModSmall

(* The remainder of a negative number from that of the number.             *)
LEMMA ModNeg ==
  ASSUME NEW i \in Int, NEW m \in Nat \ {0}
  PROVE  (-(i % m)) % m = (-i) % m
  <1> DEFINE q == i \div m
             r == i % m
  <1>1. q \in Int /\ r \in Int /\ i = m * q + r
    BY DivMod
  <1> HIDE DEF q, r
  <1>2. m * (-q) = -(m * q) /\ m * q \in Int
    BY <1>1
  <1>3. -i + m * q = -r
    BY <1>1, <1>2
  <1>4. (-i + m * q) % m = (-i) % m
    <2>1. -i \in Int
      OBVIOUS
    <2> QED
      BY <1>1, <2>1, ModShift
  <1> QED
    BY <1>3, <1>4 DEF r

(* The remainder of a sum and of a difference.                             *)
LEMMA ModAdd ==
  ASSUME NEW i \in Int, NEW j \in Int, NEW m \in Nat \ {0}
  PROVE  /\ ((i % m) + (j % m)) % m = (i + j) % m
         /\ ((i % m) - (j % m)) % m = (i - j) % m
  <1> DEFINE p == i \div m
             r == i % m
             q == j \div m
             s == j % m
  <1>1. p \in Int /\ r \in Int /\ i = m * p + r
    BY DivMod
  <1>2. q \in Int /\ s \in Int /\ j = m * q + s
    BY DivMod
  <1> HIDE DEF p, q, r, s
  <1>3. m * (p + q) = m * p + m * q /\ m * (p - q) = m * p - m * q
    BY <1>1, <1>2
  <1>4. m * p \in Int /\ m * q \in Int
    BY <1>1, <1>2
  <1>5. i + j = (r + s) + m * (p + q) /\ i - j = (r - s) + m * (p - q)
    BY <1>1, <1>2, <1>3, <1>4
  <1>6. r + s \in Int /\ r - s \in Int /\ p + q \in Int /\ p - q \in Int
    BY <1>1, <1>2
  <1>7. ((r + s) + m * (p + q)) % m = (r + s) % m /\ ((r - s) + m * (p - q)) % m = (r - s) % m
    BY <1>6, ModShift
  <1> QED
    BY <1>5, <1>7 DEF r, s

(* Dividing by a and then by b is dividing by a * b.                       *)
LEMMA DivDiv ==
  ASSUME NEW v \in Nat, NEW a \in Nat \ {0}, NEW b \in Nat \ {0}
  PROVE  (v \div a) \div b = v \div (a * b)
  <1> DEFINE q == v \div a
             r == v % a
             p == q \div b
             s == q % b
  <1>1. q \in Int /\ r \in 0 .. (a - 1) /\ v = a * q + r
    BY DivMod
  <1>2. p \in Int /\ s \in 0 .. (b - 1) /\ q = b * p + s
    BY <1>1, DivMod
  <1> HIDE DEF q, r, p, s
  <1>3. v = (a * b) * p + (a * s + r)
    <2>1. a * (b * p + s) = (a * b) * p + a * s
      BY <1>2
    <2>2. (a * b) * p \in Int /\ a * s \in Int
      BY <1>2
    <2> QED
      BY <1>1, <1>2, <2>1, <2>2
  <1>4. a * s + r \in 0 .. (a * b - 1)
    <2>1. a * s \in Int /\ a * b \in Int /\ a * (b - 1) \in Int
      BY <1>2
    <2>2. a * s >= 0
      BY <1>2
    <2>3. a * s <= a * (b - 1)
      <3>1. b - 1 - s \in Nat
        BY <1>2
      <3>2. \A k \in Nat : a * k >= 0
        OBVIOUS
      <3>3. a * (b - 1 - s) >= 0
        BY <3>1, <3>2
      <3>4. a * (b - 1 - s) = a * (b - 1) - a * s
        BY <1>2
      <3> QED
        BY <2>1, <3>3, <3>4
    <2>4. a * (b - 1) = a * b - a
      OBVIOUS
    <2> QED
      BY <1>1, <2>1, <2>2, <2>3, <2>4
  <1>5. a * b \in Nat \ {0}
    <2>1. a * b \in Int
      OBVIOUS
    <2>2. a * b >= a
      BY Multiple
    <2> QED
      BY <2>1, <2>2
  <1>6. ((a * b) * p + (a * s + r)) \div (a * b) = p
    BY <1>2, <1>4, <1>5, DivModUnique
  <1> QED
    BY <1>3, <1>6 DEF p, q

-----------------------------------------------------------------------------
(***************************************************************************)
(* Recursive sums.                                                         *)
(***************************************************************************)

(* g adds up b[1], ..., b[n], multiplying by c what it has before each.    *)
Summing(g, n, c, b) == g[0] = 0 /\ \A k \in 1 .. n : g[k] = c * g[k - 1] + b[k]

Terms(n, b) == n \in Nat /\ \A k \in 1 .. n : b[k] \in Int

(* There is a function that adds up the terms.                             *)
LEMMA SumExists ==
  ASSUME NEW n, NEW c \in Int, NEW b, Terms(n, b)
  PROVE  \E g \in [0 .. n -> Int] : Summing(g, n, c, b)
  <1> DEFINE Adds(g, m) == g[0] = 0 /\ \A k \in 1 .. m : g[k] = c * g[k - 1] + b[k]
             S == {m \in Nat : \E g \in [0 .. m -> Int] : Adds(g, m)}
  <1> USE DEF Summing, Terms
  <1>1. 0 \in S
    <2> DEFINE z == [k \in 0 .. 0 |-> 0]
    <2>1. z \in [0 .. 0 -> Int] /\ z[0] = 0
      OBVIOUS
    <2>2. Adds(z, 0)
      BY <2>1
    <2> QED
      BY <2>1, <2>2
  <1>2. ASSUME NEW m \in 0 .. (n - 1), m \in S
        PROVE  m + 1 \in S
    <2>1. PICK g \in [0 .. m -> Int] : Adds(g, m)
      BY <1>2
    <2> DEFINE h == [k \in 0 .. (m + 1) |-> IF k = m + 1 THEN c * g[m] + b[m + 1] ELSE g[k]]
    <2>2. m + 1 \in 1 .. n /\ m \in 0 .. m /\ m + 1 \in Nat /\ m \in Nat
      OBVIOUS
    <2>3. g[m] \in Int /\ b[m + 1] \in Int
      BY <2>1, <2>2
    <2>4. c * g[m] + b[m + 1] \in Int
      BY <2>3
    <2>5. h \in [0 .. (m + 1) -> Int]
      <3> SUFFICES ASSUME NEW k \in 0 .. (m + 1)
                   PROVE  (IF k = m + 1 THEN c * g[m] + b[m + 1] ELSE g[k]) \in Int
        OBVIOUS
      <3>1. CASE k = m + 1
        BY <2>4, <3>1
      <3>2. CASE k # m + 1
        <4>1. k \in 0 .. m
          BY <3>2
        <4> QED
          BY <2>1, <3>2, <4>1
      <3> QED
        BY <3>1, <3>2
    <2>6. \A k \in 0 .. m : h[k] = g[k]
      OBVIOUS
    <2>7. h[m + 1] = c * g[m] + b[m + 1]
      BY <2>2
    <2> HIDE DEF h
    <2>8. h[0] = 0
      BY <2>1, <2>2, <2>6
    <2>9. ASSUME NEW k \in 1 .. (m + 1)
          PROVE  h[k] = c * h[k - 1] + b[k]
      <3>1. CASE k = m + 1
        <4>1. k - 1 = m
          BY <3>1
        <4> QED
          BY <2>2, <2>6, <2>7, <3>1, <4>1
      <3>2. CASE k # m + 1
        <4>1. k \in 1 .. m /\ k \in 0 .. m /\ k - 1 \in 0 .. m
          BY <3>2
        <4>2. g[k] = c * g[k - 1] + b[k]
          BY <2>1, <4>1
        <4> QED
          BY <2>6, <4>1, <4>2
      <3> QED
        BY <3>1, <3>2
    <2>10. Adds(h, m + 1)
      BY <2>8, <2>9
    <2> QED
      BY <2>2, <2>5, <2>10
  <1>3. n \in S
    <2> HIDE DEF S
    <2>1. \A m \in 0 .. n : m \in S
      BY <1>1, <1>2, UpTo
    <2> QED
      BY <2>1
  <1> QED
    BY <1>3

-----------------------------------------------------------------------------
(***************************************************************************)
(* Recursion along links that descend in rank.                             *)
(***************************************************************************)

(* A set that has every element of S whose predecessors in rank it has     *)
(* has all of S.                                                           *)
LEMMA RankInduct ==
  ASSUME NEW S, NEW rk \in [S -> Nat], NEW Q,
         \A x \in S : (\A y \in S : rk[y] < rk[x] => y \in Q) => x \in Q
  PROVE  \A x \in S : x \in Q
  <1> SUFFICES ASSUME NEW x \in S, x \notin Q
               PROVE  FALSE
    OBVIOUS
  <1> DEFINE T == {rk[y] : y \in {z \in S : z \notin Q}}
  <1>1. T \subseteq Nat /\ T # {}
    OBVIOUS
  <1>2. PICK m \in T : \A k \in T : m <= k
    <2> HIDE DEF T
    <2> QED
      BY <1>1, LeastElement
  <1>3. PICK y \in S : y \notin Q /\ m = rk[y]
    OBVIOUS
  <1>4. ASSUME NEW z \in S, rk[z] < rk[y]
        PROVE  z \in Q
    <2>1. z \notin Q => rk[z] \in T
      OBVIOUS
    <2>2. z \notin Q => rk[y] <= rk[z]
      BY <1>2, <1>3, <2>1
    <2> QED
      BY <1>4, <2>2
  <1> QED
    BY <1>3, <1>4

(* The outcome of a walk, and what is gathered along two links.            *)
Walks(f, S, stop, step, out) == f = [x \in S |-> IF x \in stop THEN out[x] ELSE f[step[x]]]

Gathers(f, S, stop, lft, rgt) ==
  f = [x \in S |-> IF x \in stop THEN {} ELSE {x} \cup f[lft[x]] \cup f[rgt[x]]]

Descends(rk, S, stop, step) == \A x \in S : x \notin stop => step[x] \in S /\ rk[step[x]] < rk[x]

(* A walk that descends in rank until it stops has an outcome everywhere.  *)
LEMMA WalkExists ==
  ASSUME NEW S, NEW M \in Nat, NEW rk \in [S -> 0 .. M], NEW stop, NEW step, NEW out,
         Descends(rk, S, stop, step)
  PROVE  \E f : Walks(f, S, stop, step, out)
  <1> DEFINE Solves(f, m) == \A x \in S : rk[x] < m =>
                               f[x] = IF x \in stop THEN out[x] ELSE f[step[x]]
             Good == {m \in Nat : \E f : f = [x \in S |-> f[x]] /\ Solves(f, m)}
  <1>1. 0 \in Good
    <2>1. Solves([x \in S |-> out[x]], 0)
      OBVIOUS
    <2> HIDE DEF Solves
    <2> QED
      BY <2>1
  <1>2. ASSUME NEW k \in 0 .. M, k \in Good
        PROVE  k + 1 \in Good
    <2>1. PICK f : Solves(f, k)
      BY <1>2
    <2> DEFINE g == [x \in S |-> IF rk[x] < k THEN f[x]
                                 ELSE IF x \in stop THEN out[x] ELSE f[step[x]]]
    <2>2. ASSUME NEW x \in S, rk[x] < k + 1
          PROVE  g[x] = IF x \in stop THEN out[x] ELSE g[step[x]]
      <3>1. CASE x \in stop
        <4>1. rk[x] < k => f[x] = out[x]
          BY <2>1, <3>1
        <4> QED
          BY <3>1, <4>1
      <3>2. CASE x \notin stop
        <4>1. step[x] \in S /\ rk[step[x]] < rk[x]
          BY <3>2 DEF Descends
        <4>2. rk[x] \in Nat /\ rk[step[x]] \in Nat
          BY <4>1
        <4>3. rk[step[x]] < k
          BY <2>2, <4>1, <4>2
        <4>4. g[step[x]] = f[step[x]]
          BY <4>1, <4>3
        <4>5. g[x] = f[step[x]]
          BY <2>1, <3>2
        <4> QED
          BY <3>2, <4>4, <4>5
      <3> QED
        BY <3>1, <3>2
    <2>3. g = [x \in S |-> g[x]]
      OBVIOUS
    <2>4. Solves(g, k + 1)
      BY <2>2
    <2> HIDE DEF g, Solves
    <2> QED
      BY <2>3, <2>4
  <1>3. M + 1 \in Good
    <2> DEFINE n == M + 1
    <2>1. n \in Nat /\ 0 .. (n - 1) = 0 .. M /\ n \in 0 .. n
      OBVIOUS
    <2> HIDE DEF n, Good
    <2>2. \A k \in 0 .. n : k \in Good
      BY <1>1, <1>2, <2>1, UpTo
    <2> QED
      BY <2>1, <2>2 DEF n
  <1>4. PICK f : f = [x \in S |-> f[x]] /\ Solves(f, M + 1)
    BY <1>3
  <1>5. \A x \in S : rk[x] < M + 1
    OBVIOUS
  <1>6. \A x \in S : f[x] = IF x \in stop THEN out[x] ELSE f[step[x]]
    BY <1>4, <1>5
  <1>7. f = [x \in S |-> IF x \in stop THEN out[x] ELSE f[step[x]]]
    BY <1>4, <1>6
  <1> QED
    BY <1>7 DEF Walks

(* What is gathered along two links of each element is defined everywhere. *)
LEMMA GatherExists ==
  ASSUME NEW S, NEW M \in Nat, NEW rk \in [S -> 0 .. M], NEW stop, NEW lft, NEW rgt,
         Descends(rk, S, stop, lft), Descends(rk, S, stop, rgt)
  PROVE  \E f : Gathers(f, S, stop, lft, rgt)
  <1> DEFINE Solves(f, m) == \A x \in S : rk[x] < m =>
                 f[x] = IF x \in stop THEN {} ELSE {x} \cup f[lft[x]] \cup f[rgt[x]]
             Good == {m \in Nat : \E f : f = [x \in S |-> f[x]] /\ Solves(f, m)}
  <1>1. 0 \in Good
    <2>1. Solves([x \in S |-> {}], 0)
      OBVIOUS
    <2> HIDE DEF Solves
    <2> QED
      BY <2>1
  <1>2. ASSUME NEW k \in 0 .. M, k \in Good
        PROVE  k + 1 \in Good
    <2>1. PICK f : Solves(f, k)
      BY <1>2
    <2> DEFINE g == [x \in S |-> IF rk[x] < k THEN f[x]
                       ELSE IF x \in stop THEN {} ELSE {x} \cup f[lft[x]] \cup f[rgt[x]]]
    <2>2. ASSUME NEW x \in S, rk[x] < k + 1
          PROVE  g[x] = IF x \in stop THEN {} ELSE {x} \cup g[lft[x]] \cup g[rgt[x]]
      <3>1. CASE x \in stop
        <4>1. rk[x] < k => f[x] = {}
          BY <2>1, <3>1
        <4> QED
          BY <3>1, <4>1
      <3>2. CASE x \notin stop
        <4>1. /\ lft[x] \in S /\ rk[lft[x]] < rk[x]
              /\ rgt[x] \in S /\ rk[rgt[x]] < rk[x]
          BY <3>2 DEF Descends
        <4>2. rk[x] \in Nat /\ rk[lft[x]] \in Nat /\ rk[rgt[x]] \in Nat
          BY <4>1
        <4>3. rk[lft[x]] < k /\ rk[rgt[x]] < k
          BY <2>2, <4>1, <4>2
        <4>4. g[lft[x]] = f[lft[x]] /\ g[rgt[x]] = f[rgt[x]]
          BY <4>1, <4>3
        <4>5. g[x] = {x} \cup f[lft[x]] \cup f[rgt[x]]
          BY <2>1, <3>2
        <4> QED
          BY <3>2, <4>4, <4>5
      <3> QED
        BY <3>1, <3>2
    <2>3. g = [x \in S |-> g[x]]
      OBVIOUS
    <2>4. Solves(g, k + 1)
      BY <2>2
    <2> HIDE DEF g, Solves
    <2> QED
      BY <2>3, <2>4
  <1>3. M + 1 \in Good
    <2> DEFINE n == M + 1
    <2>1. n \in Nat /\ 0 .. (n - 1) = 0 .. M /\ n \in 0 .. n
      OBVIOUS
    <2> HIDE DEF n, Good
    <2>2. \A k \in 0 .. n : k \in Good
      BY <1>1, <1>2, <2>1, UpTo
    <2> QED
      BY <2>1, <2>2 DEF n
  <1>4. PICK f : f = [x \in S |-> f[x]] /\ Solves(f, M + 1)
    BY <1>3
  <1>5. \A x \in S : rk[x] < M + 1
    OBVIOUS
  <1>6. \A x \in S : f[x] = IF x \in stop THEN {} ELSE {x} \cup f[lft[x]] \cup f[rgt[x]]
    BY <1>4, <1>5
  <1>7. f = [x \in S |-> IF x \in stop THEN {} ELSE {x} \cup f[lft[x]] \cup f[rgt[x]]]
    BY <1>4, <1>6
  <1> QED
    BY <1>7 DEF Gathers

=============================================================================
