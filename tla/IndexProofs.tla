----------------------------- MODULE IndexProofs -----------------------------
(***************************************************************************)
(* Proofs about the stack of frames and stack_var_map: the index lists     *)
(* exactly the variables in scope, and the frames seen through it          *)
(* implement block scopes.  Both hold for every set of names, every size   *)
(* of the id space and every depth of the stack.                           *)
(***************************************************************************)
EXTENDS MemoryProofs

(***************************************************************************)
(* Sets of numbers closed upwards or downwards within 1 .. n are           *)
(* intervals, and their cardinality says which.                            *)
(***************************************************************************)

(* A set of list positions that holds every position above one of its own  *)
(* is a suffix of the list, given by its size.                             *)
LEMMA UpperSet ==
  ASSUME NEW n \in Nat, NEW K \in SUBSET (1 .. n),
         \A j \in K : \A k \in 1 .. n : j < k => k \in K
  PROVE  /\ Cardinality(K) \in 0 .. n
         /\ K = (n - Cardinality(K) + 1) .. n
  <1> DEFINE c == Cardinality(K)
             I == (n - c + 1) .. n
  <1>1. IsFiniteSet(1 .. n) /\ Cardinality(1 .. n) = n
    BY FS_Interval
  <1>2. IsFiniteSet(K) /\ c <= n
    BY <1>1, FS_Subset
  <1>3. c \in Nat
    BY <1>2, FS_CardinalityType
  <1>4. ASSUME NEW k \in K PROVE k \in I
    <2>1. k .. n \in SUBSET K
      <3>1. \A l \in k .. n : l = k \/ (k < l /\ l \in 1 .. n)
        OBVIOUS
      <3> QED
        BY <3>1
    <2>2. Cardinality(k .. n) <= c
      BY <1>2, <2>1, FS_Subset
    <2>3. Cardinality(k .. n) = n - k + 1
      BY FS_Interval
    <2> HIDE DEF c
    <2> QED
      BY <1>3, <2>2, <2>3
  <1> HIDE DEF c
  <1>5. IsFiniteSet(I) /\ Cardinality(I) = c
    <2>1. n - c + 1 \in Int
      BY <1>3
    <2>2. IsFiniteSet(I) /\ Cardinality(I) = IF n - c + 1 > n THEN 0 ELSE n - (n - c + 1) + 1
      BY <2>1, FS_Interval
    <2> QED
      BY <1>3, <2>2
  <1> HIDE DEF I
  <1>6. K = I
    BY <1>4, <1>5, FS_Subset DEF c
  <1> QED
    BY <1>2, <1>3, <1>6 DEF c, I

(* A set of list positions that holds every position below one of its own  *)
(* is a prefix of the list, given by its size.                             *)
LEMMA LowerSet ==
  ASSUME NEW n \in Nat, NEW K \in SUBSET (1 .. n),
         \A j \in K : \A k \in 1 .. n : k < j => k \in K
  PROVE  /\ Cardinality(K) \in 0 .. n
         /\ K = 1 .. Cardinality(K)
  <1> DEFINE c == Cardinality(K)
             I == 1 .. c
  <1>1. IsFiniteSet(1 .. n) /\ Cardinality(1 .. n) = n
    BY FS_Interval
  <1>2. IsFiniteSet(K) /\ c <= n
    BY <1>1, FS_Subset
  <1>3. c \in Nat
    BY <1>2, FS_CardinalityType
  <1>4. ASSUME NEW k \in K PROVE k \in I
    <2>1. 1 .. k \in SUBSET K
      <3>1. \A l \in 1 .. k : l = k \/ (l < k /\ l \in 1 .. n)
        OBVIOUS
      <3> QED
        BY <3>1
    <2>2. Cardinality(1 .. k) <= c
      BY <1>2, <2>1, FS_Subset
    <2>3. Cardinality(1 .. k) = k
      BY FS_Interval
    <2> HIDE DEF c
    <2> QED
      BY <1>3, <2>2, <2>3
  <1> HIDE DEF c
  <1>5. IsFiniteSet(I) /\ Cardinality(I) = c
    BY <1>3, FS_Interval
  <1> HIDE DEF I
  <1>6. K = I
    BY <1>4, <1>5, FS_Subset DEF c
  <1> QED
    BY <1>2, <1>3, <1>6 DEF c, I

(***************************************************************************)
(* StackIndexOK in terms of frames and indices in place of positions.      *)
(***************************************************************************)

(* The position p holds a variable called n.                               *)
Holds(m, p, n) ==
  /\ p[1] + 1 \in DOMAIN m.stack_vars
  /\ p[2] + 1 \in DOMAIN m.stack_vars[p[1] + 1]
  /\ m.stack_vars[p[1] + 1][p[2] + 1].name = n

Ordered(q) == \A j, k \in DOMAIN q : j < k => Before(q[j], q[k])

NoEmptyLists(m) == \A n \in DOMAIN m.stack_var_map : m.stack_var_map[n] # <<>>

Sound(m) ==
  \A n \in Names : \A k \in DOMAIN Listed(m, n) : Holds(m, Listed(m, n)[k], n)

Complete(m) ==
  \A f \in DOMAIN m.stack_vars : \A i \in DOMAIN m.stack_vars[f] :
    \E k \in DOMAIN Listed(m, m.stack_vars[f][i].name) :
      Listed(m, m.stack_vars[f][i].name)[k] = <<f - 1, i - 1>>

Indexed(m) ==
  /\ NoEmptyLists(m)
  /\ Sound(m)
  /\ Complete(m)
  /\ \A n \in Names : Ordered(Listed(m, n))

(* Every list is a sequence of pairs of numbers.                           *)
LEMMA ListedType ==
  ASSUME NEW m, MemTypeOK(m), NEW n
  PROVE  Listed(m, n) \in Seq(Nat \X Nat)
  BY DEF Listed, MemTypeOK

(* A position holds a name exactly when a variable of that name is there.  *)
LEMMA HoldsIsPosition ==
  ASSUME NEW m, MemTypeOK(m), NEW p \in Nat \X Nat, NEW n
  PROVE  Holds(m, p, n) <=> p \in Positions(m) /\ VarAt(m, p).name = n
  <1>1. p = <<p[1], p[2]>> /\ p[1] \in Nat /\ p[2] \in Nat
    OBVIOUS
  <1>2. ASSUME Holds(m, p, n)
        PROVE  p \in Positions(m) /\ VarAt(m, p).name = n
    <2> DEFINE f == p[1] + 1
               i == p[2] + 1
    <2>1. f \in DOMAIN m.stack_vars /\ i \in DOMAIN m.stack_vars[f]
      BY <1>2 DEF Holds
    <2>2. p = <<f - 1, i - 1>>
      BY <1>1
    <2> HIDE DEF f, i
    <2>3. p \in Positions(m)
      BY <2>1, <2>2, PositionOf
    <2> QED
      BY <1>2, <2>3 DEF Holds, VarAt
  <1>3. ASSUME p \in Positions(m), VarAt(m, p).name = n
        PROVE  Holds(m, p, n)
    <2>1. PICK f \in DOMAIN m.stack_vars : \E i \in DOMAIN m.stack_vars[f] :
            p = <<f - 1, i - 1>>
      BY <1>3, PositionOf
    <2>2. PICK i \in DOMAIN m.stack_vars[f] : p = <<f - 1, i - 1>>
      BY <2>1
    <2>3. f \in Int /\ i \in Int
      BY DEF MemTypeOK
    <2>4. p[1] + 1 = f /\ p[2] + 1 = i
      BY <2>2, <2>3
    <2> QED
      BY <1>3, <2>4 DEF Holds, VarAt
  <1> QED
    BY <1>2, <1>3

(* The pointwise form of the index invariant is the one the runs check.    *)
LEMMA IndexedIsStackIndex ==
  ASSUME NEW m, MemTypeOK(m)
  PROVE  Indexed(m) <=> StackIndexOK(m)
  <1>0. \A n \in DOMAIN m.stack_var_map : n \in Names /\ Listed(m, n) = m.stack_var_map[n]
    BY DEF MemTypeOK, Listed
  <1>1. \A n \in Names : n \notin DOMAIN m.stack_var_map => DOMAIN Listed(m, n) = {}
    BY DEF Listed
  <1>2. \A n \in Names : \A k \in DOMAIN Listed(m, n) : Listed(m, n)[k] \in Nat \X Nat
    BY ListedType
  <1>3. NoEmptyLists(m) /\ Sound(m) <=> IndexIsSound(m)
    <2>1. \A n \in Names : \A k \in DOMAIN Listed(m, n) :
            Holds(m, Listed(m, n)[k], n) <=>
              Listed(m, n)[k] \in Positions(m) /\ VarAt(m, Listed(m, n)[k]).name = n
      BY <1>2, HoldsIsPosition
    <2>2. Sound(m) <=> \A n \in Names : \A k \in DOMAIN Listed(m, n) :
            Listed(m, n)[k] \in Positions(m) /\ VarAt(m, Listed(m, n)[k]).name = n
      BY <2>1 DEF Sound
    <2> QED
      BY <1>0, <1>1, <2>2 DEF NoEmptyLists, IndexIsSound
  <1>4. Complete(m) <=> IndexIsComplete(m)
    <2>1. ASSUME Complete(m) PROVE IndexIsComplete(m)
      <3> SUFFICES ASSUME NEW p \in Positions(m)
                   PROVE  \E k \in DOMAIN Listed(m, VarAt(m, p).name) :
                            Listed(m, VarAt(m, p).name)[k] = p
        BY DEF IndexIsComplete
      <3>1. PICK f \in DOMAIN m.stack_vars : \E i \in DOMAIN m.stack_vars[f] :
              p = <<f - 1, i - 1>> /\ VarAt(m, p) = m.stack_vars[f][i]
        BY PositionOf
      <3>2. PICK i \in DOMAIN m.stack_vars[f] :
              p = <<f - 1, i - 1>> /\ VarAt(m, p) = m.stack_vars[f][i]
        BY <3>1
      <3> QED
        BY <2>1, <3>2 DEF Complete
    <2>2. ASSUME IndexIsComplete(m) PROVE Complete(m)
      <3> SUFFICES ASSUME NEW f \in DOMAIN m.stack_vars, NEW i \in DOMAIN m.stack_vars[f]
                   PROVE  \E k \in DOMAIN Listed(m, m.stack_vars[f][i].name) :
                            Listed(m, m.stack_vars[f][i].name)[k] = <<f - 1, i - 1>>
        BY DEF Complete
      <3> DEFINE p == <<f - 1, i - 1>>
      <3>1. p \in Positions(m) /\ VarAt(m, p) = m.stack_vars[f][i]
        BY PositionOf
      <3> HIDE DEF p
      <3>2. \E k \in DOMAIN Listed(m, m.stack_vars[f][i].name) :
              Listed(m, m.stack_vars[f][i].name)[k] = p
        BY <2>2, <3>1 DEF IndexIsComplete
      <3> QED
        BY <3>2 DEF p
    <2> QED
      BY <2>1, <2>2
  <1>5. (\A n \in Names : Ordered(Listed(m, n))) <=> IndexIsOrdered(m)
    BY <1>0, <1>1 DEF Ordered, IndexIsOrdered
  <1> QED
    BY <1>3, <1>4, <1>5 DEF Indexed, StackIndexOK

(***************************************************************************)
(* Leaving a scope.                                                        *)
(***************************************************************************)

(* pop_stack_frame pops the list of a name once for every variable of that *)
(* name in the top frame.  The list is ordered, so these pops remove the   *)
(* positions in the top frame and no others.                               *)
LEMMA PopRemovesTop ==
  ASSUME NEW m, MemTypeOK(m), Indexed(m), Len(m.stack_vars) > 0, NEW n \in Names
  PROVE  /\ PopCount(m, n) \in 0 .. Len(Listed(m, n))
         /\ \A k \in DOMAIN Listed(m, n) :
              Listed(m, n)[k][1] < Len(m.stack_vars) - 1
                <=> k <= Len(Listed(m, n)) - PopCount(m, n)
  <1> DEFINE e == Len(m.stack_vars)
             q == Listed(m, n)
             K == {k \in DOMAIN q : q[k][1] = e - 1}
             I == {i \in DOMAIN Top(m) : Top(m)[i].name = n}
             g == [k \in K |-> q[k][2] + 1]
  <1>1. /\ m.stack_vars \in Seq(Seq(VarType))
        /\ e \in Nat /\ e \in DOMAIN m.stack_vars /\ DOMAIN m.stack_vars = 1 .. e
        /\ Top(m) = m.stack_vars[e]
    BY DEF MemTypeOK, Top
  <1>2. q \in Seq(Nat \X Nat) /\ Len(q) \in Nat /\ DOMAIN q = 1 .. Len(q)
    BY ListedType
  <1>3. \A k \in DOMAIN q :
          /\ q[k] = <<q[k][1], q[k][2]>> /\ q[k][1] \in Nat /\ q[k][2] \in Nat
          /\ Holds(m, q[k], n)
    BY <1>2 DEF Indexed, Sound
  <1>4. \A k \in DOMAIN q : q[k][1] <= e - 1
    <2> HIDE DEF e, q
    <2> QED
      BY <1>1, <1>3 DEF Holds
  <1>5. Ordered(q)
    BY DEF Indexed
  <1>6. \A i \in I : \E k \in DOMAIN q : q[k] = <<e - 1, i - 1>>
    BY <1>1 DEF Indexed, Complete
  <1> HIDE DEF e, q
  <1>7. g \in Bijection(K, I)
    <2>1. g \in [K -> I]
      <3> SUFFICES ASSUME NEW k \in K PROVE q[k][2] + 1 \in I
        OBVIOUS
      <3>1. q[k][1] + 1 = e
        BY <1>1
      <3> QED
        BY <1>1, <1>3, <3>1 DEF Holds
    <2>2. ASSUME NEW j \in K, NEW k \in K, g[j] = g[k] PROVE j = k
      <3>1. q[j][2] = q[k][2] /\ q[j][1] = q[k][1]
        <4>1. q[j][2] + 1 = q[k][2] + 1
          BY <2>2
        <4> QED
          BY <1>3, <4>1
      <3>2. j \in Nat /\ k \in Nat
        BY <1>2
      <3>3. ~(j < k) /\ ~(k < j)
        BY <1>3, <1>5, <3>1 DEF Ordered, Before
      <3> QED
        BY <3>2, <3>3
    <2>3. ASSUME NEW i \in I PROVE \E k \in K : g[k] = i
      <3>1. PICK k \in DOMAIN q : q[k] = <<e - 1, i - 1>>
        BY <1>6
      <3>2. i \in Nat
        BY <1>1
      <3>3. q[k][1] = e - 1 /\ q[k][2] = i - 1
        BY <3>1
      <3>4. k \in K
        BY <3>3
      <3>5. g[k] = q[k][2] + 1
        BY <3>4
      <3> QED
        BY <3>2, <3>3, <3>4, <3>5
    <2> HIDE DEF g, K, I
    <2> QED
      BY <2>1, <2>2, <2>3 DEF Bijection, Injection, Surjection, IsInjective
  <1>8. Cardinality(I) = Cardinality(K)
    <2> HIDE DEF g, I
    <2>1. IsFiniteSet(DOMAIN q)
      BY <1>2, FS_Interval
    <2>2. IsFiniteSet(K)
      BY <2>1, FS_Subset
    <2>3. ExistsBijection(K, I)
      BY <1>7 DEF ExistsBijection
    <2> QED
      BY <2>2, <2>3, FS_Bijection
  <1>9. PopCount(m, n) = Cardinality(K)
    BY <1>8 DEF PopCount
  <1>10. /\ Cardinality(K) \in 0 .. Len(q)
         /\ K = (Len(q) - Cardinality(K) + 1) .. Len(q)
    <2>1. K \in SUBSET (1 .. Len(q))
      BY <1>2
    <2>2. ASSUME NEW j \in K, NEW k \in 1 .. Len(q), j < k PROVE k \in K
      <3>1. Before(q[j], q[k])
        BY <1>2, <1>5, <2>2 DEF Ordered
      <3>2. q[j][1] <= q[k][1]
        BY <1>2, <1>3, <3>1 DEF Before
      <3>3. q[j][1] = e - 1 /\ q[k][1] <= e - 1 /\ q[k][1] \in Nat
        BY <1>2, <1>3, <1>4
      <3>4. q[k][1] = e - 1
        <4>1. e - 1 \in Int /\ e - 1 <= q[k][1]
          BY <1>1, <3>2, <3>3
        <4> QED
          BY <3>3, <4>1
      <3> QED
        BY <1>2, <3>4
    <2> HIDE DEF K
    <2> QED
      BY <1>2, <2>1, <2>2, UpperSet
  <1>11. ASSUME NEW k \in DOMAIN q
         PROVE  q[k][1] < e - 1 <=> k <= Len(q) - Cardinality(K)
    <2> DEFINE c == Cardinality(K)
    <2>1. k \in K <=> k \in (Len(q) - c + 1) .. Len(q)
      BY <1>10
    <2>2. k \in K <=> ~(q[k][1] < e - 1)
      BY <1>1, <1>3, <1>4
    <2>3. c \in Nat
      BY <1>10
    <2> HIDE DEF c, K
    <2>4. k \in (Len(q) - c + 1) .. Len(q) <=> ~(k <= Len(q) - c)
      BY <1>2, <2>3
    <2> QED
      BY <2>1, <2>2, <2>4 DEF c
  <1> QED
    BY <1>9, <1>10, <1>11 DEF e, q

(* The list of a name after the pops.                                      *)
LEMMA PopListed ==
  ASSUME NEW m, MemTypeOK(m), Indexed(m), Len(m.stack_vars) > 0,
         NEW n, n.stack_var_map = Unindexed(m), NEW name \in Names
  PROVE  /\ \A k : k \in DOMAIN Listed(n, name) <=>
              k \in DOMAIN Listed(m, name) /\ Listed(m, name)[k][1] < Len(m.stack_vars) - 1
         /\ \A k \in DOMAIN Listed(n, name) : Listed(n, name)[k] = Listed(m, name)[k]
         /\ DOMAIN Listed(n, name) = 1 .. (Len(Listed(m, name)) - PopCount(m, name))
  <1> DEFINE q == Listed(m, name)
             c == PopCount(m, name)
             l == Len(q) - c
             e == Len(m.stack_vars)
  <1>1. q \in Seq(Nat \X Nat) /\ Len(q) \in Nat /\ DOMAIN q = 1 .. Len(q)
    BY ListedType
  <1>2. c \in 0 .. Len(q) /\ \A k \in DOMAIN q : q[k][1] < e - 1 <=> k <= l
    BY PopRemovesTop
  <1>3. CASE name \in DOMAIN m.stack_var_map /\ Len(q) > c
    <2>1. m.stack_var_map[name] = q
      BY <1>3 DEF Listed
    <2>2. name \in DOMAIN Unindexed(m) /\ Unindexed(m)[name] = SubSeq(q, 1, l)
      BY <1>3, <2>1 DEF Unindexed
    <2>3. Listed(n, name) = SubSeq(q, 1, l)
      BY <2>2 DEF Listed
    <2> HIDE DEF q, c, e
    <2>4. l \in Nat /\ l <= Len(q)
      BY <1>1, <1>2
    <2>5. DOMAIN SubSeq(q, 1, l) = 1 .. l /\ \A k \in 1 .. l : SubSeq(q, 1, l)[k] = q[k]
      BY <1>1, <2>4
    <2>6. \A k : k \in 1 .. l <=> k \in DOMAIN q /\ q[k][1] < e - 1
      BY <1>1, <1>2, <2>4
    <2> QED
      BY <2>3, <2>5, <2>6 DEF q, c, e
  <1>4. CASE ~(name \in DOMAIN m.stack_var_map /\ Len(q) > c)
    <2>1. name \notin DOMAIN Unindexed(m)
      BY <1>4 DEF Unindexed, Listed
    <2>2. Listed(n, name) = <<>>
      BY <2>1 DEF Listed
    <2>3. l = 0
      <3>1. name \notin DOMAIN m.stack_var_map => q = <<>>
        BY DEF Listed
      <3> HIDE DEF q, c
      <3>2. Len(q) <= c
        BY <1>1, <1>2, <1>4, <3>1
      <3>3. c \in Nat /\ c <= Len(q)
        BY <1>1, <1>2
      <3>4. Len(q) \in Nat
        BY <1>1
      <3>5. Len(q) = c
        BY <3>2, <3>3, <3>4
      <3> QED
        BY <3>3, <3>5
    <2> HIDE DEF q, e, l
    <2>4. \A k \in DOMAIN q : ~(q[k][1] < e - 1)
      BY <1>1, <1>2, <2>3
    <2> QED
      BY <2>2, <2>3, <2>4 DEF q, e, l
  <1> QED
    BY <1>3, <1>4

(* The frames that stay keep their index.                                  *)
LEMMA PopIndexed ==
  ASSUME NEW m, MemTypeOK(m), Indexed(m), Len(m.stack_vars) > 0,
         NEW n, n.stack_vars = SubSeq(m.stack_vars, 1, Len(m.stack_vars) - 1),
         n.stack_var_map = Unindexed(m)
  PROVE  Indexed(n)
  <1> DEFINE e == Len(m.stack_vars)
             s == n.stack_vars
  <1>1. /\ m.stack_vars \in Seq(Seq(VarType))
        /\ e \in Nat /\ e \in DOMAIN m.stack_vars /\ DOMAIN m.stack_vars = 1 .. e
    BY DEF MemTypeOK
  <1>2. /\ DOMAIN s = 1 .. (e - 1)
        /\ \A f \in DOMAIN s : f \in DOMAIN m.stack_vars /\ s[f] = m.stack_vars[f]
    BY <1>1
  <1>0. \A name \in Names :
          /\ \A k : k \in DOMAIN Listed(n, name) <=>
               k \in DOMAIN Listed(m, name) /\ Listed(m, name)[k][1] < e - 1
          /\ \A k \in DOMAIN Listed(n, name) : Listed(n, name)[k] = Listed(m, name)[k]
    BY PopListed
  <1> HIDE DEF e, s
  <1>3. NoEmptyLists(n)
    <2> SUFFICES ASSUME NEW name \in DOMAIN n.stack_var_map
                 PROVE  n.stack_var_map[name] # <<>>
      BY DEF NoEmptyLists
    <2>1. /\ name \in DOMAIN m.stack_var_map /\ name \in Names
          /\ Len(m.stack_var_map[name]) > PopCount(m, name)
      BY DEF Unindexed, MemTypeOK
    <2>2. /\ Listed(m, name) = m.stack_var_map[name]
          /\ Listed(n, name) = n.stack_var_map[name]
      BY <2>1 DEF Listed
    <2>3. DOMAIN Listed(n, name) = 1 .. (Len(Listed(m, name)) - PopCount(m, name))
      BY <2>1, PopListed
    <2>4. PopCount(m, name) \in Nat /\ Len(Listed(m, name)) \in Nat
      <3>1. Listed(m, name) \in Seq(Nat \X Nat)
        BY ListedType
      <3> QED
        BY <3>1, PopCountType, LenProperties
    <2>5. 1 \in 1 .. (Len(Listed(m, name)) - PopCount(m, name))
      BY <2>1, <2>2, <2>4
    <2>6. 1 \in DOMAIN n.stack_var_map[name]
      BY <2>2, <2>3, <2>5
    <2>7. DOMAIN <<>> = {}
      OBVIOUS
    <2> QED
      BY <2>6, <2>7
  <1>4. ASSUME NEW name \in Names, NEW k \in DOMAIN Listed(n, name)
        PROVE  Holds(n, Listed(n, name)[k], name)
    <2> DEFINE p == Listed(m, name)[k]
    <2>1. k \in DOMAIN Listed(m, name) /\ p[1] < e - 1 /\ Listed(n, name)[k] = p
      BY <1>0
    <2>2. Holds(m, p, name) /\ p[1] \in Nat
      <3>1. p \in Nat \X Nat
        BY <2>1, ListedType
      <3> QED
        BY <2>1, <3>1 DEF Indexed, Sound
    <2> HIDE DEF p
    <2>3. p[1] + 1 \in DOMAIN s
      BY <1>1, <1>2, <2>1, <2>2
    <2> QED
      BY <1>2, <2>1, <2>2, <2>3 DEF Holds, s
  <1>5. ASSUME NEW f \in DOMAIN s, NEW i \in DOMAIN s[f]
        PROVE  \E k \in DOMAIN Listed(n, s[f][i].name) :
                 Listed(n, s[f][i].name)[k] = <<f - 1, i - 1>>
    <2> DEFINE name == m.stack_vars[f][i].name
    <2>1. /\ f \in DOMAIN m.stack_vars /\ i \in DOMAIN m.stack_vars[f]
          /\ s[f][i].name = name
      BY <1>2
    <2>2. name \in Names
      <3>1. m.stack_vars[f][i] \in VarType
        BY <1>1, <2>1
      <3> QED
        BY <3>1 DEF VarType
    <2>3. PICK k \in DOMAIN Listed(m, name) : Listed(m, name)[k] = <<f - 1, i - 1>>
      BY <2>1 DEF Indexed, Complete
    <2> HIDE DEF name
    <2>4. Listed(m, name)[k][1] < e - 1
      BY <1>1, <1>2, <2>3
    <2> QED
      BY <1>0, <2>1, <2>2, <2>3, <2>4
  <1>6. ASSUME NEW name \in Names PROVE Ordered(Listed(n, name))
    BY <1>0 DEF Indexed, Ordered
  <1> QED
    BY <1>3, <1>4, <1>5, <1>6 DEF Indexed, Sound, Complete, s

(* What pop_stack_frame does to the frames and the index, whether or not   *)
(* the blocks of the frame can be freed.                                   *)
LEMMA PopEffect ==
  ASSUME NEW m, MemTypeOK(m), m.outcome = "run"
  PROVE  /\ pop_stack_frame(m).stack_vars = SubSeq(m.stack_vars, 1, Len(m.stack_vars) - 1)
         /\ pop_stack_frame(m).stack_var_map = Unindexed(m)
  <1> DEFINE p == [m EXCEPT !.stack_vars = SubSeq(@, 1, Len(@) - 1),
                            !.stack_var_map = Unindexed(m)]
             n == free_blocks(p, TopBlocks(m))
  <1>1. /\ p.stack_vars = SubSeq(m.stack_vars, 1, Len(m.stack_vars) - 1)
        /\ p.stack_var_map = Unindexed(m)
        /\ DOMAIN p = DOMAIN m
    BY DEF MemTypeOK
  <1>2. pop_stack_frame(m) = n
    BY DEF pop_stack_frame
  <1> HIDE DEF p
  <1>3. n.stack_vars = p.stack_vars /\ n.stack_var_map = p.stack_var_map
    BY <1>1 DEF free_blocks, End, MemTypeOK
  <1> QED
    BY <1>1, <1>2, <1>3

(***************************************************************************)
(* Opening a scope and declaring a variable.                               *)
(***************************************************************************)

(* Operations that leave the frames and the index alone.                   *)
LEMMA SameIndexed ==
  ASSUME NEW m, Indexed(m), NEW n, n.stack_vars = m.stack_vars,
         n.stack_var_map = m.stack_var_map
  PROVE  Indexed(n)
  <1>1. \A k : Listed(n, k) = Listed(m, k)
    BY DEF Listed
  <1> QED
    BY <1>1 DEF Indexed, NoEmptyLists, Sound, Complete, Holds

(* The new frame is empty, and the index does not change.                  *)
LEMMA FrameEffect ==
  ASSUME NEW m, MemTypeOK(m), m.outcome = "run", NEW n, n = add_stack_frame(m)
  PROVE  /\ n.stack_var_map = m.stack_var_map
         /\ \A k : Listed(n, k) = Listed(m, k)
         /\ n.stack_vars = Append(m.stack_vars, <<>>)
         /\ DOMAIN n.stack_vars = DOMAIN m.stack_vars \cup {Len(m.stack_vars) + 1}
         /\ \A f \in DOMAIN m.stack_vars : n.stack_vars[f] = m.stack_vars[f]
         /\ DOMAIN n.stack_vars[Len(m.stack_vars) + 1] = {}
  <1>1. n.stack_vars = Append(m.stack_vars, <<>>) /\ n.stack_var_map = m.stack_var_map
    BY DEF add_stack_frame, MemTypeOK
  <1>2. m.stack_vars \in Seq(Seq(VarType))
    BY DEF MemTypeOK
  <1>3. \A k : Listed(n, k) = Listed(m, k)
    BY <1>1 DEF Listed
  <1> QED
    BY <1>1, <1>2, <1>3

(* add_stack_frame opens an empty frame: no name enters or leaves.         *)
LEMMA FrameIndexed ==
  ASSUME NEW m, MemTypeOK(m), m.outcome = "run", Indexed(m)
  PROVE  Indexed(add_stack_frame(m))
  <1> DEFINE n == add_stack_frame(m)
  <1>1. /\ n.stack_var_map = m.stack_var_map
        /\ \A k : Listed(n, k) = Listed(m, k)
        /\ DOMAIN n.stack_vars = DOMAIN m.stack_vars \cup {Len(m.stack_vars) + 1}
        /\ \A f \in DOMAIN m.stack_vars : n.stack_vars[f] = m.stack_vars[f]
        /\ DOMAIN n.stack_vars[Len(m.stack_vars) + 1] = {}
    BY FrameEffect
  <1> HIDE DEF n
  <1>2. NoEmptyLists(n)
    BY <1>1 DEF Indexed, NoEmptyLists
  <1>3. Sound(n)
    BY <1>1 DEF Indexed, Sound, Holds
  <1>4. Complete(n)
    BY <1>1 DEF Indexed, Complete
  <1>5. Indexed(n)
    BY <1>1, <1>2, <1>3, <1>4 DEF Indexed
  <1> QED
    BY <1>5 DEF n

(* From m to n, a variable with block b joins the top frame e, after the l *)
(* variables it has, and its position joins the list of its name.          *)
Added(m, n, name, b, e, l) ==
  /\ e \in DOMAIN m.stack_vars /\ l \in Nat
  /\ DOMAIN m.stack_vars[e] = 1 .. l
  /\ DOMAIN n.stack_vars = DOMAIN m.stack_vars
  /\ \A f \in DOMAIN m.stack_vars : f # e => n.stack_vars[f] = m.stack_vars[f]
  /\ DOMAIN n.stack_vars[e] = 1 .. (l + 1)
  /\ n.stack_vars[e][l + 1] = [name |-> name, block |-> b]
  /\ \A i \in DOMAIN m.stack_vars[e] : n.stack_vars[e][i] = m.stack_vars[e][i]
  /\ DOMAIN n.stack_var_map = DOMAIN m.stack_var_map \cup {name}
  /\ \A k : k # name => Listed(n, k) = Listed(m, k)
  /\ Listed(n, name) = Append(Listed(m, name), <<e - 1, l>>)

(* That is what add_stack_var does.                                        *)
LEMMA VarEffect ==
  ASSUME NEW m, MemTypeOK(m), m.outcome = "run", Len(m.stack_vars) > 0,
         NEW name \in Names, NEW b
  PROVE  Added(m, add_stack_var(m, name, b), name, b,
               Len(m.stack_vars), Len(m.stack_vars[Len(m.stack_vars)]))
  <1> DEFINE n == add_stack_var(m, name, b)
             e == Len(m.stack_vars)
             l == Len(m.stack_vars[e])
             v == [name |-> name, block |-> b]
             s == [m.stack_vars EXCEPT ![e] = Append(@, v)]
             x == [k \in DOMAIN m.stack_var_map \cup {name} |->
                     IF k = name THEN Append(Listed(m, name), <<e - 1, l>>)
                     ELSE m.stack_var_map[k]]
  <1>1. m.stack_vars \in Seq(Seq(VarType)) /\ e \in Nat /\ e \in DOMAIN m.stack_vars
    BY DEF MemTypeOK
  <1>2. e - 1 + 1 = e
    BY <1>1
  <1>3. n.stack_vars = s /\ n.stack_var_map = x
    BY <1>2 DEF add_stack_var, MemTypeOK
  <1>4. m.stack_vars[e] \in Seq(VarType) /\ l \in Nat /\ DOMAIN m.stack_vars[e] = 1 .. l
    BY <1>1
  <1>5. DOMAIN s = DOMAIN m.stack_vars /\ \A f \in DOMAIN s : f # e => s[f] = m.stack_vars[f]
    OBVIOUS
  <1>6. s[e] = Append(m.stack_vars[e], v)
    BY <1>1
  <1>7. /\ DOMAIN s[e] = 1 .. (l + 1)
        /\ s[e][l + 1] = v
        /\ \A i \in DOMAIN m.stack_vars[e] : s[e][i] = m.stack_vars[e][i]
    BY <1>4, <1>6
  <1>8. /\ DOMAIN x = DOMAIN m.stack_var_map \cup {name}
        /\ x[name] = Append(Listed(m, name), <<e - 1, l>>)
        /\ \A k \in DOMAIN x : k # name => x[k] = m.stack_var_map[k]
    OBVIOUS
  <1> HIDE DEF s, x
  <1>9. Listed(n, name) = Append(Listed(m, name), <<e - 1, l>>)
    BY <1>3, <1>8 DEF Listed
  <1>10. \A k : k # name => Listed(n, k) = Listed(m, k)
    BY <1>3, <1>8 DEF Listed
  <1> HIDE DEF n, e, l
  <1>11. Added(m, n, name, b, e, l)
    BY <1>1, <1>3, <1>4, <1>5, <1>7, <1>8, <1>9, <1>10 DEF Added
  <1> QED
    BY <1>11 DEF n, e, l

(* The new position comes after every position in the lists.               *)
LEMMA VarIndexed ==
  ASSUME NEW m, MemTypeOK(m), m.outcome = "run", Len(m.stack_vars) > 0, Indexed(m),
         NEW name \in Names, NEW b
  PROVE  Indexed(add_stack_var(m, name, b))
  <1> DEFINE n == add_stack_var(m, name, b)
             e == Len(m.stack_vars)
             l == Len(m.stack_vars[e])
             q == Listed(m, name)
             r == Listed(n, name)
  <1>1. Added(m, n, name, b, e, l)
    BY VarEffect
  <1>2. /\ q \in Seq(Nat \X Nat) /\ Len(q) \in Nat /\ DOMAIN q = 1 .. Len(q)
        /\ \A k \in DOMAIN q : q[k] \in Nat \X Nat
    BY ListedType
  <1>3. e \in Nat /\ DOMAIN m.stack_vars = 1 .. e
    BY DEF MemTypeOK
  <1>4. /\ DOMAIN r = 1 .. (Len(q) + 1)
        /\ r[Len(q) + 1] = <<e - 1, l>>
        /\ \A k \in DOMAIN q : r[k] = q[k]
    <2> HIDE DEF e, l, n
    <2>1. r = Append(q, <<e - 1, l>>)
      BY <1>1 DEF Added
    <2> HIDE DEF q, r
    <2> QED
      BY <1>2, <2>1
  <1> HIDE DEF n, e, l, q, r
  <1>5. \A f \in DOMAIN m.stack_vars : \A i \in DOMAIN m.stack_vars[f] :
          i \in DOMAIN n.stack_vars[f] /\ n.stack_vars[f][i] = m.stack_vars[f][i]
    <2> SUFFICES ASSUME NEW f \in DOMAIN m.stack_vars, NEW i \in DOMAIN m.stack_vars[f]
                 PROVE  i \in DOMAIN n.stack_vars[f] /\ n.stack_vars[f][i] = m.stack_vars[f][i]
      OBVIOUS
    <2>1. CASE f = e
      <3>1. i \in 1 .. (l + 1)
        BY <1>1, <2>1 DEF Added
      <3> QED
        BY <1>1, <2>1, <3>1 DEF Added
    <2>2. CASE f # e
      BY <1>1, <2>2 DEF Added
    <2> QED
      BY <2>1, <2>2
  <1>6. \A p, k : Holds(m, p, k) => Holds(n, p, k)
    BY <1>1, <1>5 DEF Added, Holds
  <1>7. NoEmptyLists(n)
    <2> SUFFICES ASSUME NEW k \in DOMAIN n.stack_var_map
                 PROVE  n.stack_var_map[k] # <<>>
      BY DEF NoEmptyLists
    <2>1. n.stack_var_map[k] = Listed(n, k)
      BY DEF Listed
    <2>2. CASE k = name
      <3>1. 1 \in DOMAIN r
        BY <1>2, <1>4
      <3>2. DOMAIN <<>> = {}
        OBVIOUS
      <3> QED
        BY <2>1, <2>2, <3>1, <3>2 DEF r
    <2>3. CASE k # name
      BY <1>1, <2>1, <2>3 DEF Added, Indexed, NoEmptyLists, Listed
    <2> QED
      BY <2>2, <2>3
  <1>8. Sound(n)
    <2>1. ASSUME NEW k \in DOMAIN r PROVE Holds(n, r[k], name)
      <3>1. CASE k \in DOMAIN q
        BY <1>4, <1>6, <3>1 DEF Indexed, Sound, q
      <3>2. CASE k \notin DOMAIN q
        <4>1. k = Len(q) + 1
          BY <1>2, <1>4, <3>2
        <4>2. r[k] = <<e - 1, l>>
          BY <1>4, <4>1
        <4>3. r[k][1] + 1 = e /\ r[k][2] + 1 = l + 1
          BY <1>3, <4>2
        <4>4. l + 1 \in 1 .. (l + 1)
          BY <1>1 DEF Added
        <4> QED
          BY <1>1, <4>3, <4>4 DEF Added, Holds
      <3> QED
        BY <3>1, <3>2
    <2>2. \A k \in Names : k # name =>
            \A j \in DOMAIN Listed(n, k) : Holds(n, Listed(n, k)[j], k)
      BY <1>1, <1>6 DEF Added, Indexed, Sound
    <2> QED
      BY <2>1, <2>2 DEF Sound, r
  <1>9. Complete(n)
    <2> SUFFICES ASSUME NEW f \in DOMAIN n.stack_vars, NEW i \in DOMAIN n.stack_vars[f]
                 PROVE  \E k \in DOMAIN Listed(n, n.stack_vars[f][i].name) :
                          Listed(n, n.stack_vars[f][i].name)[k] = <<f - 1, i - 1>>
      BY DEF Complete
    <2>1. CASE i \in DOMAIN m.stack_vars[f]
      <3> DEFINE o == m.stack_vars[f][i].name
      <3>1. n.stack_vars[f][i].name = o
        BY <1>1, <1>5, <2>1 DEF Added
      <3>2. PICK k \in DOMAIN Listed(m, o) : Listed(m, o)[k] = <<f - 1, i - 1>>
        BY <1>1, <2>1 DEF Added, Indexed, Complete
      <3> HIDE DEF o
      <3>3. CASE o = name
        <4>1. k \in DOMAIN r /\ r[k] = <<f - 1, i - 1>>
          BY <1>2, <1>4, <3>2, <3>3 DEF q
        <4> QED
          BY <3>1, <3>3, <4>1 DEF r
      <3>4. CASE o # name
        BY <1>1, <3>1, <3>2, <3>4 DEF Added
      <3> QED
        BY <3>3, <3>4
    <2>2. CASE i \notin DOMAIN m.stack_vars[f]
      <3>1. f = e /\ i = l + 1
        BY <1>1, <2>2 DEF Added
      <3>2. n.stack_vars[f][i].name = name /\ i - 1 = l
        BY <1>1, <3>1 DEF Added
      <3>3. Len(q) + 1 \in DOMAIN r
        BY <1>2, <1>4
      <3> QED
        BY <1>4, <3>1, <3>2, <3>3 DEF r
    <2> QED
      BY <2>1, <2>2
  <1>10. Ordered(r)
    <2> SUFFICES ASSUME NEW j \in DOMAIN r, NEW k \in DOMAIN r, j < k
                 PROVE  Before(r[j], r[k])
      BY DEF Ordered
    <2>1. j \in DOMAIN q
      BY <1>2, <1>4
    <2>2. CASE k \in DOMAIN q
      BY <1>4, <2>1, <2>2 DEF Indexed, Ordered, q
    <2>3. CASE k \notin DOMAIN q
      <3>1. k = Len(q) + 1
        BY <1>2, <1>4, <2>3
      <3>2. r[k][1] = e - 1 /\ r[k][2] = l
        BY <1>4, <3>1
      <3>3. /\ r[j] = q[j] /\ q[j][1] \in Nat /\ q[j][2] \in Nat
            /\ Holds(m, q[j], name)
        BY <1>2, <1>4, <2>1 DEF Indexed, Sound, q
      <3>4. r[j][1] <= e - 1
        BY <1>3, <3>3 DEF Holds
      <3>5. r[j][1] = e - 1 => r[j][2] < l
        <4> SUFFICES ASSUME q[j][1] = e - 1 PROVE q[j][2] < l
          BY <3>3
        <4>1. q[j][1] + 1 = e
          BY <1>3
        <4>2. q[j][2] + 1 \in 1 .. l
          BY <1>1, <3>3, <4>1 DEF Added, Holds
        <4> QED
          BY <1>1, <3>3, <4>2 DEF Added
      <3>6. r[j][1] \in Nat /\ e - 1 \in Int
        BY <1>3, <3>3
      <3> QED
        BY <3>2, <3>4, <3>5, <3>6 DEF Before
    <2> QED
      BY <2>2, <2>3
  <1>11. \A k \in Names : Ordered(Listed(n, k))
    BY <1>1, <1>10 DEF Added, Indexed, r
  <1>12. Indexed(n)
    BY <1>7, <1>8, <1>9, <1>11 DEF Indexed
  <1> QED
    BY <1>12 DEF n

(***************************************************************************)
(* The index is always right.                                              *)
(***************************************************************************)

(* The constructor and the destructor of mem_block, and exits, leave the   *)
(* frames and the index alone.                                             *)
LEMMA BlockSameStack ==
  ASSUME NEW m, MemTypeOK(m), NEW t, NEW d, NEW n, n = mem_block(m, t, d)
  PROVE  n.stack_vars = m.stack_vars /\ n.stack_var_map = m.stack_var_map
  BY DEF mem_block, new_block_id, Enters, End, MemTypeOK

(* delete_block touches neither the frames nor the index.                  *)
LEMMA DeleteSameStack ==
  ASSUME NEW m, MemTypeOK(m), NEW b, NEW n, n = delete_block(m, b)
  PROVE  n.stack_vars = m.stack_vars /\ n.stack_var_map = m.stack_var_map
  BY DEF delete_block, End, MemTypeOK

(* stack_var_map lists the variables in scope, each name's innermost last, *)
(* after any sequence of scopes, declarations, allocations and frees: the  *)
(* last element that eval_lexpr reads unchecked exists and is the          *)
(* innermost declaration of the name.                                      *)
THEOREM IndexAlwaysRight == Spec => []StackIndex
  <1>1. Init => StackIndex
    <2> SUFFICES ASSUME Init PROVE StackIndex
      OBVIOUS
    <2>1. DOMAIN mem.stack_var_map = {}
      BY DEF Init, Start
    <2>2. Positions(mem) = {}
      BY DEF Positions, Init, Start
    <2> QED
      BY <2>1, <2>2
      DEF StackIndex, StackIndexOK, IndexIsSound, IndexIsComplete, IndexIsOrdered
  <1>2. TypeOK /\ TypeOK' /\ StackIndex /\ [Next]_mem => StackIndex'
    <2> SUFFICES ASSUME TypeOK, TypeOK', StackIndex, [Next]_mem
                 PROVE  Indexed(mem')
      BY IndexedIsStackIndex DEF StackIndex, TypeOK
    <2>0. MemTypeOK(mem) /\ Indexed(mem)
      BY IndexedIsStackIndex DEF StackIndex, TypeOK
    <2>1. InBody => Len(mem.stack_vars) > 0 /\ mem.outcome = "run"
      BY <2>0 DEF InBody, MemTypeOK
    <2>2. CASE EnterScope
      BY <2>0, <2>2, FrameIndexed DEF EnterScope
    <2>3. CASE LeaveScope
      BY <2>0, <2>1, <2>3, PopEffect, PopIndexed DEF LeaveScope
    <2>4. ASSUME NEW name \in Names, Declare(name)
          PROVE  Indexed(mem')
      <3> DEFINE m == mem_block(mem, "STACK", <<>>)
      <3>1. MemTypeOK(m)
        BY <2>0, BlockType DEF mem_type_t
      <3>2. m.stack_vars = mem.stack_vars /\ m.stack_var_map = mem.stack_var_map
        BY <2>0, BlockSameStack
      <3> HIDE DEF m
      <3>3. Indexed(m)
        BY <2>0, <3>2, SameIndexed
      <3>4. mem' = add_stack_var(m, name, mem.id_counter)
        BY <2>4 DEF Declare, m
      <3>5. CASE m.outcome = "run"
        BY <2>1, <2>4, <3>1, <3>2, <3>3, <3>4, <3>5, VarIndexed DEF Declare
      <3>6. CASE m.outcome # "run"
        BY <3>3, <3>4, <3>6 DEF add_stack_var
      <3> QED
        BY <3>5, <3>6
    <2>5. ASSUME NEW t \in {"HEAP", "STATIC", "STACK"}, Allocate(t)
          PROVE  Indexed(mem')
      BY <2>0, <2>5, BlockSameStack, SameIndexed DEF Allocate
    <2>6. ASSUME NEW b \in block_id_t, Release(b)
          PROVE  Indexed(mem')
      BY <2>0, <2>6, DeleteSameStack, SameIndexed DEF Release
    <2>7. CASE UNCHANGED mem
      BY <2>0, <2>7
    <2> QED
      BY <2>2, <2>3, <2>4, <2>5, <2>6, <2>7 DEF Next
  <1> QED
    BY <1>1, <1>2, TypeCorrect, PTL DEF Spec

-----------------------------------------------------------------------------
(***************************************************************************)
(* Memory implements ScopeStack: the initial states map to initial states  *)
(* and every step of the frames and their index maps to a step of block    *)
(* scopes, or to no step.                                                  *)
(***************************************************************************)

(* The refinement mapping, as an operator on memory states.                *)
EnvsOf(m) == [k \in DOMAIN m.stack_vars |-> Env(m, k)]

(***************************************************************************)
(* What a name denotes.                                                    *)
(***************************************************************************)

(* The last of the visible positions of name in the k outermost frames     *)
(* holds a variable with block b, or there is none and b is 0.             *)
Denotes(m, name, k, b) ==
  \/ Visible(m, name, k) = {} /\ b = 0
  \/ \E c \in Visible(m, name, k) :
       /\ \A i \in Visible(m, name, k) : i <= c
       /\ b = VarAt(m, Listed(m, name)[c]).block

(* The lists are ordered, so the visible positions are the first ones.     *)
LEMMA VisibleIsPrefix ==
  ASSUME NEW m, MemTypeOK(m), Indexed(m), NEW name \in Names, NEW k \in Int
  PROVE  \E c \in 0 .. Len(Listed(m, name)) : Visible(m, name, k) = 1 .. c
  <1> DEFINE q == Listed(m, name)
             V == Visible(m, name, k)
  <1>1. /\ q \in Seq(Nat \X Nat) /\ Len(q) \in Nat /\ DOMAIN q = 1 .. Len(q)
        /\ \A j \in DOMAIN q : q[j][1] \in Nat
    BY ListedType
  <1>2. V \in SUBSET (1 .. Len(q)) /\ \A j \in DOMAIN q : j \in V <=> q[j][1] < k
    BY <1>1 DEF Visible
  <1>3. ASSUME NEW j \in V, NEW i \in 1 .. Len(q), i < j PROVE i \in V
    <2>1. Before(q[i], q[j])
      BY <1>1, <1>2, <1>3 DEF Indexed, Ordered
    <2> HIDE DEF q, V
    <2>2. q[i][1] < q[j][1] \/ q[i][1] = q[j][1]
      BY <2>1 DEF Before
    <2>3. i \in DOMAIN q /\ j \in DOMAIN q
      BY <1>1, <1>2
    <2>4. q[i][1] < k
      <3>1. q[i][1] \in Nat /\ q[j][1] \in Nat
        BY <1>1, <2>3
      <3>2. q[j][1] < k
        BY <1>2, <2>3
      <3> QED
        BY <2>2, <3>1, <3>2
    <2> QED
      BY <1>1, <1>2, <2>4
  <1> HIDE DEF q, V
  <1>4. Cardinality(V) \in 0 .. Len(q) /\ V = 1 .. Cardinality(V)
    BY <1>1, <1>2, <1>3, LowerSet
  <1> QED
    BY <1>4 DEF q, V

(* Env gives a name the one block it denotes.                              *)
LEMMA EnvDenotes ==
  ASSUME NEW m, MemTypeOK(m), Indexed(m), NEW name \in Names, NEW k \in Int
  PROVE  \A b : Denotes(m, name, k, b) <=> b = Env(m, k)[name]
  <1> DEFINE V == Visible(m, name, k)
             last == CHOOSE j \in V : \A i \in V : i <= j
             q == Listed(m, name)
  <1>1. CASE V = {}
    <2>1. Env(m, k)[name] = 0
      BY <1>1 DEF Env
    <2> QED
      BY <1>1, <2>1 DEF Denotes
  <1>2. CASE V # {}
    <2>1. Env(m, k)[name] = VarAt(m, q[last]).block
      BY <1>2 DEF Env
    <2>2. PICK c \in 0 .. Len(q) : V = 1 .. c
      BY VisibleIsPrefix
    <2>3. c \in Nat
      <3>1. Len(q) \in Nat
        BY ListedType, LenProperties
      <3> QED
        BY <2>2, <3>1
    <2> HIDE DEF V, q
    <2>4. c \in V /\ \A i \in V : i <= c
      BY <1>2, <2>2, <2>3
    <2>5. last \in V /\ \A i \in V : i <= last
      BY <2>4
    <2>6. \A j \in V : (\A i \in V : i <= j) => j = last
      <3> SUFFICES ASSUME NEW j \in V, \A i \in V : i <= j PROVE j = last
        OBVIOUS
      <3> HIDE DEF last
      <3>1. j <= last /\ last <= j /\ j \in Nat /\ last \in Nat
        BY <2>2, <2>3, <2>5
      <3> QED
        BY <3>1
    <2> HIDE DEF last
    <2> QED
      BY <1>2, <2>1, <2>5, <2>6 DEF Denotes, V, q
  <1> QED
    BY <1>1, <1>2

(* Where the same positions are visible and hold the same variables, a     *)
(* name denotes the same block.                                            *)
LEMMA SameEnv ==
  ASSUME NEW m, NEW n, NEW name \in Names, NEW j, NEW k,
         Visible(n, name, k) = Visible(m, name, j),
         \A i \in Visible(m, name, j) :
           VarAt(n, Listed(n, name)[i]).block = VarAt(m, Listed(m, name)[i]).block,
         NEW b, Denotes(m, name, j, b)
  PROVE  Denotes(n, name, k, b)
  BY DEF Denotes

(* Two memories that list the same variables for a name give it the same   *)
(* block.                                                                  *)
LEMMA SameEnvs ==
  ASSUME NEW m, MemTypeOK(m), Indexed(m), NEW n, MemTypeOK(n), Indexed(n),
         NEW j \in Int, NEW k \in Int, NEW name \in Names,
         Visible(n, name, k) = Visible(m, name, j),
         \A i \in Visible(m, name, j) :
           VarAt(n, Listed(n, name)[i]).block = VarAt(m, Listed(m, name)[i]).block
  PROVE  Env(n, k)[name] = Env(m, j)[name]
  <1>1. Denotes(m, name, j, Env(m, j)[name])
    BY EnvDenotes
  <1>2. Denotes(n, name, k, Env(m, j)[name])
    BY <1>1, SameEnv
  <1> QED
    BY <1>2, EnvDenotes

(* A name denotes nothing or the block of a variable.                      *)
LEMMA EnvBlocks ==
  ASSUME NEW m, MemTypeOK(m), Indexed(m), NEW name \in Names, NEW k \in Int
  PROVE  \/ Env(m, k)[name] = 0
         \/ \E f \in DOMAIN m.stack_vars : \E i \in DOMAIN m.stack_vars[f] :
              Env(m, k)[name] = m.stack_vars[f][i].block
  <1> DEFINE b == Env(m, k)[name]
             q == Listed(m, name)
  <1>1. Denotes(m, name, k, b)
    BY EnvDenotes
  <1> HIDE DEF b
  <1>2. CASE b = 0
    BY <1>2 DEF b
  <1>3. CASE b # 0
    <2>1. PICK c \in Visible(m, name, k) : b = VarAt(m, q[c]).block
      BY <1>1, <1>3 DEF Denotes
    <2>2. Holds(m, q[c], name)
      BY <2>1 DEF Visible, Indexed, Sound
    <2> QED
      BY <2>1, <2>2 DEF Holds, VarAt, b
  <1> QED
    BY <1>2, <1>3

(* What the frames up to k make visible is a map from names to block ids.  *)
LEMMA EnvType ==
  ASSUME NEW m, MemTypeOK(m), Indexed(m), NEW k \in Int
  PROVE  Env(m, k) \in [Names -> block_id_t]
  <1>1. 0 \in block_id_t
    BY IdSpaceAssumption DEF block_id_t, BLOCK_ID_START
  <1>2. \A f \in DOMAIN m.stack_vars : \A i \in DOMAIN m.stack_vars[f] :
          m.stack_vars[f][i].block \in block_id_t
    <2> SUFFICES ASSUME NEW f \in DOMAIN m.stack_vars, NEW i \in DOMAIN m.stack_vars[f]
                 PROVE  m.stack_vars[f][i].block \in block_id_t
      OBVIOUS
    <2>1. m.stack_vars \in Seq(Seq(VarType))
      BY DEF MemTypeOK
    <2>2. m.stack_vars[f][i] \in VarType
      BY <2>1
    <2> QED
      BY <2>2 DEF VarType
  <1>3. ASSUME NEW name \in Names PROVE Env(m, k)[name] \in block_id_t
    BY <1>1, <1>2, EnvBlocks
  <1>4. Env(m, k) = [name \in Names |-> Env(m, k)[name]]
    BY DEF Env
  <1> QED
    BY <1>3, <1>4

(* A function on 1 .. n is a sequence of length n.                         *)
LEMMA FunctionIsSeq ==
  ASSUME NEW S, NEW n \in Nat, NEW g \in [1 .. n -> S]
  PROVE  g \in Seq(S) /\ Len(g) = n
  <1>1. g \in Seq(S)
    BY SeqDef
  <1>2. DOMAIN g = 1 .. Len(g) /\ Len(g) \in Nat
    BY <1>1, LenProperties
  <1>3. 1 .. Len(g) = 1 .. n
    BY <1>2
  <1>4. \A j, k \in Nat : 1 .. j = 1 .. k => j = k
    <2> SUFFICES ASSUME NEW j \in Nat, NEW k \in Nat, 1 .. j = 1 .. k PROVE j = k
      OBVIOUS
    <2>1. j > 0 => j \in 1 .. k
      OBVIOUS
    <2>2. k > 0 => k \in 1 .. j
      OBVIOUS
    <2> QED
      BY <2>1, <2>2
  <1> QED
    BY <1>1, <1>2, <1>3, <1>4

(* There is one such map per frame.                                        *)
LEMMA EnvsType ==
  ASSUME NEW m, MemTypeOK(m), Indexed(m)
  PROVE  /\ EnvsOf(m) \in Seq([Names -> block_id_t])
         /\ Len(EnvsOf(m)) = Len(m.stack_vars)
  <1>1. /\ m.stack_vars \in Seq(Seq(VarType)) /\ Len(m.stack_vars) \in Nat
        /\ DOMAIN m.stack_vars = 1 .. Len(m.stack_vars)
    BY DEF MemTypeOK
  <1>2. \A k \in DOMAIN m.stack_vars : Env(m, k) \in [Names -> block_id_t]
    BY <1>1, EnvType
  <1>3. EnvsOf(m) \in [1 .. Len(m.stack_vars) -> [Names -> block_id_t]]
    BY <1>1, <1>2 DEF EnvsOf
  <1> QED
    BY <1>1, <1>3, FunctionIsSeq

(***************************************************************************)
(* Every operation maps to a step of ScopeStack.                           *)
(***************************************************************************)

(* add_stack_frame opens a scope with the bindings of the scope around it. *)
LEMMA FrameEnters ==
  ASSUME NEW m, MemTypeOK(m), Indexed(m), m.outcome = "run", Len(m.stack_vars) > 0
  PROVE  EnvsOf(add_stack_frame(m)) =
           Append(EnvsOf(m), EnvsOf(m)[Len(EnvsOf(m))])
  <1> DEFINE n == add_stack_frame(m)
             e == Len(m.stack_vars)
             E == EnvsOf(m)
             F == EnvsOf(n)
  <1>1. MemTypeOK(n) /\ Indexed(n)
    BY FrameType, FrameIndexed
  <1>2. /\ \A k : Listed(n, k) = Listed(m, k)
        /\ n.stack_vars = Append(m.stack_vars, <<>>)
        /\ DOMAIN n.stack_vars = DOMAIN m.stack_vars \cup {e + 1}
        /\ \A f \in DOMAIN m.stack_vars : n.stack_vars[f] = m.stack_vars[f]
    BY FrameEffect
  <1> HIDE DEF n
  <1>3. e \in Nat /\ DOMAIN m.stack_vars = 1 .. e /\ Len(n.stack_vars) = e + 1
    BY <1>2 DEF MemTypeOK
  <1>4. /\ E \in Seq([Names -> block_id_t]) /\ Len(E) = e
        /\ F \in Seq([Names -> block_id_t]) /\ Len(F) = e + 1
    BY <1>1, <1>3, EnvsType
  <1>5. ASSUME NEW name \in Names, NEW i \in DOMAIN Listed(m, name)
        PROVE  /\ VarAt(n, Listed(n, name)[i]) = VarAt(m, Listed(m, name)[i])
               /\ Listed(m, name)[i][1] < e
    <2> DEFINE p == Listed(m, name)[i]
    <2>1. p \in Nat \X Nat
      BY ListedType
    <2>2. Holds(m, p, name)
      BY DEF Indexed, Sound
    <2>3. p[1] \in Nat
      BY <2>1
    <2> HIDE DEF p, e
    <2>4. p[1] < e
      BY <1>3, <2>2, <2>3 DEF Holds
    <2>5. VarAt(n, p) = VarAt(m, p)
      BY <1>2, <2>2 DEF Holds, VarAt
    <2> QED
      BY <1>2, <2>4, <2>5 DEF p
  <1>6. ASSUME NEW k \in 1 .. e PROVE Env(n, k) = Env(m, k)
    <2>1. ASSUME NEW name \in Names PROVE Env(n, k)[name] = Env(m, k)[name]
      <3>1. Visible(n, name, k) = Visible(m, name, k)
        BY <1>2 DEF Visible
      <3>2. \A i \in Visible(m, name, k) : i \in DOMAIN Listed(m, name)
        BY DEF Visible
      <3> QED
        BY <1>1, <1>5, <3>1, <3>2, SameEnvs
    <2> QED
      BY <1>1, <2>1, EnvType
  <1>7. Env(n, e + 1) = Env(m, e)
    <2>1. ASSUME NEW name \in Names PROVE Env(n, e + 1)[name] = Env(m, e)[name]
      <3>1. /\ \A i \in DOMAIN Listed(m, name) : Listed(m, name)[i][1] < e
            /\ \A i \in DOMAIN Listed(m, name) : Listed(m, name)[i][1] < e + 1
        <4>1. \A i \in DOMAIN Listed(m, name) : Listed(m, name)[i][1] \in Nat
          BY ListedType
        <4> HIDE DEF e
        <4> QED
          BY <1>3, <1>5, <4>1
      <3>2. Visible(n, name, e + 1) = Visible(m, name, e)
        BY <1>2, <3>1 DEF Visible
      <3>3. \A i \in Visible(m, name, e) : i \in DOMAIN Listed(m, name)
        BY DEF Visible
      <3>4. e + 1 \in Int /\ e \in Int
        BY <1>3
      <3> HIDE DEF e
      <3> QED
        BY <1>1, <1>5, <3>2, <3>3, <3>4, SameEnvs
    <2>2. e + 1 \in Int /\ e \in Int
      BY <1>3
    <2> HIDE DEF e
    <2> QED
      BY <1>1, <2>1, <2>2, EnvType
  <1>8. /\ \A k \in 1 .. e : F[k] = E[k]
        /\ F[e + 1] = E[e]
    BY <1>2, <1>3, <1>6, <1>7 DEF EnvsOf
  <1> HIDE DEF E, F, e
  <1>9. e \in 1 .. e
    BY <1>3 DEF e
  <1>10. E[e] \in [Names -> block_id_t]
    BY <1>4, <1>9, ElementOfSeq
  <1>11. /\ Append(E, E[e]) \in Seq([Names -> block_id_t])
         /\ Len(Append(E, E[e])) = e + 1
         /\ \A k \in 1 .. (e + 1) : F[k] = Append(E, E[e])[k]
    BY <1>3, <1>4, <1>8, <1>10
  <1>12. F = Append(E, E[e])
    BY <1>4, <1>11, SeqEqual
  <1> QED
    BY <1>4, <1>12 DEF E, F, n

(* pop_stack_frame gives the scope around it back as it was.               *)
LEMMA PopLeaves ==
  ASSUME NEW m, MemTypeOK(m), Indexed(m), m.outcome = "run", Len(m.stack_vars) > 1
  PROVE  /\ Len(EnvsOf(m)) > 1
         /\ EnvsOf(pop_stack_frame(m)) = SubSeq(EnvsOf(m), 1, Len(EnvsOf(m)) - 1)
  <1> DEFINE n == pop_stack_frame(m)
             e == Len(m.stack_vars)
             E == EnvsOf(m)
             F == EnvsOf(n)
  <1>1. /\ m.stack_vars \in Seq(Seq(VarType)) /\ e \in Nat /\ e > 1
        /\ DOMAIN m.stack_vars = 1 .. e
    BY DEF MemTypeOK
  <1>2. /\ n.stack_vars = SubSeq(m.stack_vars, 1, e - 1)
        /\ n.stack_var_map = Unindexed(m)
    BY PopEffect
  <1>3. MemTypeOK(n) /\ Indexed(n)
    BY <1>1, <1>2, PopType, PopIndexed
  <1> HIDE DEF n
  <1>4. /\ DOMAIN n.stack_vars = 1 .. (e - 1) /\ Len(n.stack_vars) = e - 1
        /\ \A f \in 1 .. (e - 1) : n.stack_vars[f] = m.stack_vars[f]
    BY <1>1, <1>2
  <1>5. /\ E \in Seq([Names -> block_id_t]) /\ Len(E) = e
        /\ F \in Seq([Names -> block_id_t]) /\ Len(F) = e - 1
    BY <1>3, <1>4, EnvsType
  <1>6. ASSUME NEW k \in 1 .. (e - 1) PROVE Env(n, k) = Env(m, k)
    <2>1. ASSUME NEW name \in Names PROVE Env(n, k)[name] = Env(m, k)[name]
      <3> DEFINE q == Listed(m, name)
                 r == Listed(n, name)
      <3>1. /\ \A i : i \in DOMAIN r <=> i \in DOMAIN q /\ q[i][1] < e - 1
            /\ \A i \in DOMAIN r : r[i] = q[i]
        BY <1>1, <1>2, PopListed
      <3>2. \A i \in DOMAIN q : q[i][1] \in Nat /\ Holds(m, q[i], name)
        BY ListedType DEF Indexed, Sound
      <3> HIDE DEF q, r, e
      <3>3. \A i \in DOMAIN q : q[i][1] < k => q[i][1] < e - 1
        BY <1>1, <3>2
      <3>4. Visible(n, name, k) = Visible(m, name, k)
        BY <3>1, <3>3 DEF Visible, q, r
      <3>5. ASSUME NEW i \in Visible(m, name, k)
            PROVE  VarAt(n, r[i]) = VarAt(m, q[i])
        <4>1. i \in DOMAIN q /\ q[i][1] < k
          BY DEF Visible, q
        <4>2. r[i] = q[i] /\ q[i][1] + 1 \in 1 .. (e - 1)
          BY <1>1, <3>1, <3>2, <3>3, <4>1
        <4> QED
          BY <1>4, <4>2 DEF VarAt
      <3> QED
        BY <1>3, <3>4, <3>5, SameEnvs DEF q, r
    <2> QED
      BY <1>3, <2>1, EnvType
  <1>7. \A k \in 1 .. (e - 1) : F[k] = E[k]
    <2>1. \A k \in 1 .. (e - 1) : k \in DOMAIN m.stack_vars /\ k \in DOMAIN n.stack_vars
      BY <1>1, <1>4
    <2> QED
      BY <1>6, <2>1 DEF EnvsOf
  <1> HIDE DEF E, F, e
  <1>8. /\ SubSeq(E, 1, e - 1) \in Seq([Names -> block_id_t])
        /\ Len(SubSeq(E, 1, e - 1)) = e - 1
        /\ \A k \in 1 .. (e - 1) : F[k] = SubSeq(E, 1, e - 1)[k]
    BY <1>1, <1>5, <1>7
  <1>9. F = SubSeq(E, 1, e - 1)
    BY <1>5, <1>8, SeqEqual
  <1> QED
    BY <1>1, <1>5, <1>9 DEF E, F, n

(* add_stack_var rebinds its name in the innermost scope and nothing else. *)
LEMMA VarBinds ==
  ASSUME NEW m, MemTypeOK(m), Indexed(m), m.outcome = "run", Len(m.stack_vars) > 0,
         NEW name \in Names, NEW b \in block_id_t
  PROVE  EnvsOf(add_stack_var(m, name, b)) =
           [EnvsOf(m) EXCEPT ![Len(EnvsOf(m))][name] = b]
  <1> DEFINE n == add_stack_var(m, name, b)
             e == Len(m.stack_vars)
             l == Len(m.stack_vars[e])
             E == EnvsOf(m)
             F == EnvsOf(n)
             q == Listed(m, name)
             r == Listed(n, name)
  <1>1. MemTypeOK(n) /\ Indexed(n)
    BY VarsType, VarIndexed
  <1>2. Added(m, n, name, b, e, l)
    BY VarEffect
  <1> HIDE DEF n
  <1>3. e \in Nat /\ e > 0 /\ DOMAIN m.stack_vars = 1 .. e /\ DOMAIN n.stack_vars = 1 .. e
    BY <1>2 DEF MemTypeOK, Added
  <1>4. Len(E) = e
    BY EnvsType
  <1>5. ASSUME NEW o \in Names, NEW i \in DOMAIN Listed(m, o)
        PROVE  VarAt(n, Listed(m, o)[i]) = VarAt(m, Listed(m, o)[i])
    <2> DEFINE p == Listed(m, o)[i]
    <2>1. Holds(m, p, o)
      BY DEF Indexed, Sound
    <2> HIDE DEF p, e, l
    <2>2. n.stack_vars[p[1] + 1][p[2] + 1] = m.stack_vars[p[1] + 1][p[2] + 1]
      BY <1>2, <2>1 DEF Holds, Added
    <2> QED
      BY <2>2 DEF VarAt, p
  <1>6. ASSUME NEW o \in Names, o # name, NEW k \in 1 .. e
        PROVE  Env(n, k)[o] = Env(m, k)[o]
    <2>1. Listed(n, o) = Listed(m, o)
      BY <1>2, <1>6 DEF Added
    <2>2. Visible(n, o, k) = Visible(m, o, k)
      BY <2>1 DEF Visible
    <2>3. \A i \in Visible(m, o, k) : i \in DOMAIN Listed(m, o)
      BY DEF Visible
    <2> QED
      BY <1>1, <1>5, <2>1, <2>2, <2>3, SameEnvs
  <1>7. /\ q \in Seq(Nat \X Nat) /\ Len(q) \in Nat /\ DOMAIN q = 1 .. Len(q)
        /\ \A j \in DOMAIN q : q[j][1] \in Nat
    BY ListedType
  <1>8. r = Append(q, <<e - 1, l>>)
    <2> HIDE DEF e, l
    <2> QED
      BY <1>2 DEF Added
  <1> HIDE DEF q, r, e, l
  <1>9. /\ DOMAIN r = 1 .. (Len(q) + 1)
        /\ r[Len(q) + 1] = <<e - 1, l>>
        /\ \A j \in DOMAIN q : r[j] = q[j]
    BY <1>7, <1>8
  <1>10. ASSUME NEW k \in 1 .. (e - 1)
         PROVE  Env(n, k)[name] = Env(m, k)[name]
    <2>1. r[Len(q) + 1][1] = e - 1
      BY <1>9
    <2>2. ~(r[Len(q) + 1][1] < k)
      BY <1>3, <2>1
    <2>3. \A j : j \in DOMAIN r /\ r[j][1] < k <=> j \in DOMAIN q /\ q[j][1] < k
      <3>1. \A j \in DOMAIN r : j \in DOMAIN q \/ j = Len(q) + 1
        BY <1>7, <1>9
      <3>2. \A j \in DOMAIN q : j \in DOMAIN r
        BY <1>7, <1>9
      <3> QED
        BY <1>9, <2>2, <3>1, <3>2
    <2>4. Visible(n, name, k) = Visible(m, name, k)
      BY <2>3 DEF Visible, q, r
    <2>5. \A i \in Visible(m, name, k) : i \in DOMAIN q
      BY DEF Visible, q
    <2>6. \A i \in Visible(m, name, k) : VarAt(n, r[i]) = VarAt(m, q[i])
      BY <1>5, <1>9, <2>5 DEF q
    <2> QED
      BY <1>1, <2>4, <2>6, SameEnvs DEF q, r
  <1>11. Env(n, e)[name] = b
    <2> DEFINE c == Len(q) + 1
    <2>1. r[c][1] = e - 1 /\ r[c][2] = l
      BY <1>9
    <2>2. c \in DOMAIN r /\ r[c][1] < e
      BY <1>3, <1>7, <1>9, <2>1
    <2>3. c \in Visible(n, name, e)
      BY <2>2 DEF Visible, r
    <2>4. \A i \in Visible(n, name, e) : i <= c
      BY <1>7, <1>9 DEF Visible, r
    <2>5. VarAt(n, r[c]).block = b
      <3>1. r[c][1] + 1 = e /\ r[c][2] + 1 = l + 1
        BY <1>3, <2>1
      <3> QED
        BY <1>2, <3>1 DEF VarAt, Added
    <2> HIDE DEF c
    <2>6. Denotes(n, name, e, b)
      BY <2>3, <2>4, <2>5 DEF Denotes, r
    <2> QED
      BY <1>1, <1>3, <2>6, EnvDenotes
  <1>12. \A k \in 1 .. e : E[k] = Env(m, k) /\ F[k] = Env(n, k)
    BY <1>3 DEF EnvsOf
  <1>13. DOMAIN E = 1 .. e /\ DOMAIN F = 1 .. e
    BY <1>3 DEF EnvsOf
  <1>14. \A k \in 1 .. e : E[k] \in [Names -> block_id_t] /\ F[k] \in [Names -> block_id_t]
    BY <1>1, <1>12, EnvType
  <1>15. E = [k \in 1 .. e |-> E[k]] /\ F = [k \in 1 .. e |-> F[k]]
    BY <1>3, <1>12 DEF EnvsOf
  <1>16. \A k \in 1 .. (e - 1) : F[k] = E[k]
    <2> SUFFICES ASSUME NEW k \in 1 .. (e - 1) PROVE F[k] = E[k]
      OBVIOUS
    <2>1. k \in 1 .. e
      BY <1>3
    <2>2. \A o \in Names : F[k][o] = E[k][o]
      BY <1>6, <1>10, <1>12, <2>1
    <2> QED
      BY <1>14, <2>1, <2>2
  <1>17. F[e] = [E[e] EXCEPT ![name] = b]
    <2>1. e \in 1 .. e
      BY <1>3
    <2>2. \A o \in Names : F[e][o] = IF o = name THEN b ELSE E[e][o]
      BY <1>6, <1>11, <1>12, <2>1
    <2> QED
      BY <1>14, <2>1, <2>2
  <1> HIDE DEF E, F
  <1>18. F = [E EXCEPT ![e] = [E[e] EXCEPT ![name] = b]]
    <2>1. \A k \in 1 .. e : F[k] = [E EXCEPT ![e] = [E[e] EXCEPT ![name] = b]][k]
      <3>1. \A k \in 1 .. e : k = e \/ k \in 1 .. (e - 1)
        BY <1>3
      <3> QED
        BY <1>13, <1>16, <1>17, <3>1
    <2> QED
      BY <1>13, <1>15, <2>1
  <1> QED
    BY <1>4, <1>18 DEF E, F, n

(* A new block is not one that a name denotes.                             *)
LEMMA FreshBlock ==
  ASSUME NEW m, MemTypeOK(m), Indexed(m), Owned(m), CounterOK(m), m.id_counter # 0
  PROVE  \A k \in DOMAIN EnvsOf(m) : \A o \in Names : EnvsOf(m)[k][o] # m.id_counter
  <1> SUFFICES ASSUME NEW k \in DOMAIN EnvsOf(m), NEW o \in Names
               PROVE  EnvsOf(m)[k][o] # m.id_counter
    OBVIOUS
  <1>1. k \in Int /\ EnvsOf(m)[k] = Env(m, k)
    BY DEF EnvsOf, MemTypeOK
  <1>2. m.id_counter \notin Issued(m)
    BY IssuesOne
  <1>3. \A f \in DOMAIN m.stack_vars : \A i \in DOMAIN m.stack_vars[f] :
          m.stack_vars[f][i].block # m.id_counter
    BY <1>2 DEF Owned
  <1> QED
    BY <1>1, <1>3, EnvBlocks

(* The frame that RunProgram pushes is never popped.                       *)
RootFrame == Len(mem.stack_vars) > 0

(* Every pop was preceded by a push of its own.                            *)
LEMMA RootFrameStays == Spec => []RootFrame
  <1>1. Init => RootFrame
    BY DEF Init, Start, RootFrame
  <1>2. TypeOK /\ RootFrame /\ [Next]_mem => RootFrame'
    <2> SUFFICES ASSUME MemTypeOK(mem), Len(mem.stack_vars) > 0, [Next]_mem
                 PROVE  Len(mem'.stack_vars) > 0
      BY DEF TypeOK, RootFrame
    <2>0. mem.stack_vars \in Seq(Seq(VarType)) /\ Len(mem.stack_vars) \in Nat
      BY DEF MemTypeOK
    <2>1. CASE EnterScope
      <3>1. mem'.stack_vars = Append(mem.stack_vars, <<>>)
        BY <2>1, FrameEffect DEF EnterScope
      <3> QED
        BY <2>0, <3>1
    <2>2. CASE LeaveScope
      <3>1. mem'.stack_vars = SubSeq(mem.stack_vars, 1, Len(mem.stack_vars) - 1)
        BY <2>2, PopEffect DEF LeaveScope, InBody
      <3>2. Len(mem.stack_vars) > 1
        BY <2>2 DEF LeaveScope, InBody
      <3> QED
        BY <2>0, <3>1, <3>2
    <2>3. ASSUME NEW name \in Names, Declare(name)
          PROVE  Len(mem'.stack_vars) > 0
      <3> DEFINE m == mem_block(mem, "STACK", <<>>)
      <3>1. MemTypeOK(m) /\ m.stack_vars = mem.stack_vars
        BY BlockType, BlockSameStack DEF mem_type_t
      <3> HIDE DEF m
      <3>2. mem' = add_stack_var(m, name, mem.id_counter)
        BY <2>3 DEF Declare, m
      <3>3. CASE m.outcome = "run"
        <4>1. DOMAIN mem'.stack_vars = DOMAIN mem.stack_vars
          <5>1. Added(m, mem', name, mem.id_counter,
                      Len(m.stack_vars), Len(m.stack_vars[Len(m.stack_vars)]))
            BY <3>1, <3>2, <3>3, VarEffect
          <5> QED
            BY <3>1, <5>1 DEF Added
        <4>2. MemTypeOK(mem')
          <5>1. mem.id_counter \in block_id_t
            BY DEF MemTypeOK
          <5> QED
            BY <3>1, <3>2, <5>1, VarsType
        <4>3. Len(mem'.stack_vars) \in Nat /\ DOMAIN mem'.stack_vars = 1 .. Len(mem'.stack_vars)
          BY <4>2 DEF MemTypeOK
        <4>4. 1 \in DOMAIN mem'.stack_vars
          BY <2>0, <4>1
        <4> QED
          BY <4>3, <4>4
      <3>4. CASE m.outcome # "run"
        BY <3>1, <3>2, <3>4 DEF add_stack_var
      <3> QED
        BY <3>3, <3>4
    <2>4. ASSUME NEW t \in {"HEAP", "STATIC", "STACK"}, Allocate(t)
          PROVE  Len(mem'.stack_vars) > 0
      BY <2>4, BlockSameStack DEF Allocate
    <2>5. ASSUME NEW b \in block_id_t, Release(b)
          PROVE  Len(mem'.stack_vars) > 0
      BY <2>5, DeleteSameStack DEF Release
    <2>6. CASE UNCHANGED mem
      BY <2>6
    <2> QED
      BY <2>1, <2>2, <2>3, <2>4, <2>5, <2>6 DEF Next
  <1> QED
    BY <1>1, <1>2, TypeCorrect, PTL DEF Spec

(* The frames and stack_var_map implement block scopes, for every program: *)
(* names resolve as the nesting of the frames says, a declaration hides    *)
(* only its own name and only in its own scope, and pop_stack_frame gives  *)
(* back the bindings that were visible before.                             *)
THEOREM FramesImplementScopes == Spec => ImplementsScopes
  <1>1. Init => Scopes!Init
    <2> SUFFICES ASSUME Init PROVE EnvsOf(mem) = <<[n \in Names |-> 0]>>
      BY DEF Scopes!Init, EnvsOf
    <2>1. DOMAIN mem.stack_vars = 1 .. 1 /\ DOMAIN mem.stack_var_map = {}
      BY DEF Init, Start
    <2>2. Env(mem, 1) = [n \in Names |-> 0]
      BY <2>1 DEF Env, Visible, Listed
    <2> QED
      BY <2>1, <2>2 DEF EnvsOf
  <1>2. IInv /\ StackIndex /\ RootFrame /\ [Next]_mem
          => [Scopes!Next]_([k \in DOMAIN mem.stack_vars |-> Env(mem, k)])
    <2> SUFFICES ASSUME IInv, StackIndex, RootFrame, [Next]_mem
                 PROVE  \/ EnvsOf(mem') = EnvsOf(mem)
                        \/ EnvsOf(mem') = Append(EnvsOf(mem), EnvsOf(mem)[Len(EnvsOf(mem))])
                        \/ /\ Len(EnvsOf(mem)) > 1
                           /\ EnvsOf(mem') = SubSeq(EnvsOf(mem), 1, Len(EnvsOf(mem)) - 1)
                        \/ \E n \in Names, b \in block_id_t \ {0} :
                             /\ \A k \in DOMAIN EnvsOf(mem) : \A o \in Names : EnvsOf(mem)[k][o] # b
                             /\ EnvsOf(mem') = [EnvsOf(mem) EXCEPT ![Len(EnvsOf(mem))][n] = b]
      BY DEF Scopes!Next, Scopes!Enter, Scopes!Leave, Scopes!Bind, Scopes!Innermost, EnvsOf
    <2>0. MemTypeOK(mem) /\ Indexed(mem) /\ CounterOK(mem)
      BY IndexedIsStackIndex DEF IInv, StackIndex, TypeOK
    <2>1. mem.outcome = "run" => Owned(mem)
      BY <2>0, OwnedIsOwnership DEF IInv, InScopeBlocksLive
    <2>2. ASSUME mem'.stack_vars = mem.stack_vars, mem'.stack_var_map = mem.stack_var_map
          PROVE  EnvsOf(mem') = EnvsOf(mem)
      BY <2>2 DEF EnvsOf, Env, Visible, Listed, VarAt
    <2>3. Len(mem.stack_vars) > 0 /\ (InBody => Len(mem.stack_vars) > 1 /\ mem.outcome = "run")
      BY DEF InBody, RootFrame
    <2>4. CASE EnterScope
      BY <2>0, <2>3, <2>4, FrameEnters DEF EnterScope
    <2>5. CASE LeaveScope
      BY <2>0, <2>3, <2>5, PopLeaves DEF LeaveScope
    <2>6. ASSUME NEW name \in Names, Declare(name), mem.id_counter # 0
          PROVE  \E n \in Names, b \in block_id_t \ {0} :
                   /\ \A k \in DOMAIN EnvsOf(mem) : \A o \in Names : EnvsOf(mem)[k][o] # b
                   /\ EnvsOf(mem') = [EnvsOf(mem) EXCEPT ![Len(EnvsOf(mem))][n] = b]
      <3> DEFINE m == mem_block(mem, "STACK", <<>>)
                 b == mem.id_counter
      <3>1. MemTypeOK(m) /\ m.stack_vars = mem.stack_vars /\ m.stack_var_map = mem.stack_var_map
        BY <2>0, BlockType, BlockSameStack DEF mem_type_t
      <3>2. m.outcome = "run"
        BY <2>0, <2>3, <2>6, BlockEffect DEF Declare
      <3>3. b \in block_id_t \ {0}
        BY <2>0, <2>6 DEF MemTypeOK
      <3> HIDE DEF m
      <3>4. Indexed(m) /\ EnvsOf(m) = EnvsOf(mem)
        BY <2>0, <3>1, SameIndexed DEF EnvsOf, Env, Visible, Listed, VarAt
      <3>5. mem' = add_stack_var(m, name, b)
        BY <2>6 DEF Declare, m
      <3>6. \A k \in DOMAIN EnvsOf(mem) : \A o \in Names : EnvsOf(mem)[k][o] # b
        BY <2>0, <2>1, <2>3, <2>6, FreshBlock DEF Declare
      <3>7. EnvsOf(mem') = [EnvsOf(mem) EXCEPT ![Len(EnvsOf(mem))][name] = b]
        BY <2>3, <3>1, <3>2, <3>3, <3>4, <3>5, VarBinds
      <3> HIDE DEF b
      <3> QED
        BY <3>3, <3>6, <3>7
    <2>7. ASSUME NEW name \in Names, Declare(name), mem.id_counter = 0
          PROVE  EnvsOf(mem') = EnvsOf(mem)
      <3>1. mem' = End(mem, "exit")
        BY <2>0, <2>3, <2>7, DeclareExits DEF Declare
      <3> QED
        BY <2>0, <2>2, <3>1 DEF End, MemTypeOK
    <2>8. ASSUME NEW t \in {"HEAP", "STATIC", "STACK"}, Allocate(t)
          PROVE  EnvsOf(mem') = EnvsOf(mem)
      BY <2>0, <2>2, <2>8, BlockSameStack DEF Allocate
    <2>9. ASSUME NEW b \in block_id_t, Release(b)
          PROVE  EnvsOf(mem') = EnvsOf(mem)
      BY <2>0, <2>2, <2>9, DeleteSameStack DEF Release
    <2>10. CASE UNCHANGED mem
      BY <2>10
    <2> QED
      BY <2>4, <2>5, <2>6, <2>7, <2>8, <2>9, <2>10 DEF Next
  <1> QED
    BY <1>1, <1>2, IInvHolds, IndexAlwaysRight, RootFrameStays, PTL
    DEF Spec, ImplementsScopes, Scopes!Spec

=============================================================================
