---------------------------- MODULE MemTagsProofs ----------------------------
(***************************************************************************)
(* Proofs about the memory tags of a block: the tree keeps its shape, its  *)
(* colours and its order, and the tags describe what was written.          *)
(*                                                                         *)
(* The argument about the tree goes through a function D from each node to *)
(* the nodes below it.  Of the nodes in the tree D tells exactly what lies *)
(* below them; of the nodes that a rotation has dropped, which still point *)
(* into the tree, it gives an upper bound, which is all that is needed for *)
(* the links of all nodes to be free of cycles and so for every walk along *)
(* them to end.                                                            *)
(***************************************************************************)
EXTENDS MemTags, NumberFacts, SequenceTheorems

TagRec ==
  [offset : Nat, type : Types \cup {RawType}, next : Int, typesize : Nat \ {0}, count : Nat]

NodeRec == [value : TagRec, col : BOOLEAN, child : Nat \X Nat]

TreeRec == [node : Seq(NodeRec), head : Nat, dead : SUBSET Nat]

(* The links lead to nodes and never round in a circle; D closes them; and *)
(* the part below the root is a tree.                                      *)
Linked(t, D) ==
  /\ t.head \in ChildLinks(t)
  /\ D \in [ChildLinks(t) -> SUBSET DOMAIN t.node]
  /\ D[Null] = {}
  /\ \A n \in DOMAIN t.node :
       /\ n \in D[n]
       /\ \A x \in D[n] : D[x] \subseteq D[n]
       /\ \A s \in BOOLEAN :
            /\ Child(t, n, s) \in ChildLinks(t)
            /\ D[Child(t, n, s)] \subseteq D[n]
            /\ n \notin D[Child(t, n, s)]

Branching(t, D) ==
  \A n \in D[t.head] :
    /\ \A x \in D[n] : x = n \/ x \in D[Child(t, n, FALSE)] \/ x \in D[Child(t, n, TRUE)]
    /\ \A x \in D[Child(t, n, FALSE)] : x \notin D[Child(t, n, TRUE)]

Shape(t, D) == Linked(t, D) /\ Branching(t, D)

(* RedsSeparated, of the nodes D has below the root.                       *)
Separated(t, D) ==
  \A n \in D[t.head] :
    IsRed(t, n) => n # t.head /\ \A s \in BOOLEAN : ~IsRed(t, Child(t, n, s))

(* The tree is ordered by offset, and no two offsets are the same.         *)
Sorted(t, D) ==
  \A n \in D[t.head] :
    /\ \A x \in D[Child(t, n, FALSE)] : Key(t, x) < Key(t, n)
    /\ \A x \in D[Child(t, n, TRUE)] : Key(t, n) < Key(t, x)

(* What is so while the tree is small: up to three nodes lie at most one   *)
(* below the root, and the second is red.                                  *)
Shallow(t, D) ==
  /\ Len(t.node) <= 4 => D[t.head] = DOMAIN t.node
  /\ Len(t.node) <= 3 => \A n \in DOMAIN t.node : n = t.head \/ \E s \in BOOLEAN : n = Child(t, t.head, s)
  /\ Len(t.node) = 2 => \A n \in DOMAIN t.node : n = t.head \/ IsRed(t, n)

-----------------------------------------------------------------------------
(***************************************************************************)
(* The steps that the methods of the tree are made of.                     *)
(***************************************************************************)

LEMMA TreeTyped ==
  ASSUME NEW t \in TreeRec
  PROVE  /\ Len(t.node) \in Nat
         /\ DOMAIN t.node = 1 .. Len(t.node)
         /\ t.node \in [1 .. Len(t.node) -> NodeRec]
         /\ \A n \in DOMAIN t.node : n \in Nat \ {Null} /\ t.node[n] \in NodeRec
         /\ \A n \in DOMAIN t.node : Key(t, n) \in Nat
         /\ \A n \in DOMAIN t.node, s \in BOOLEAN : Child(t, n, s) \in Nat
  <1>1. Len(t.node) \in Nat /\ DOMAIN t.node = 1 .. Len(t.node) /\ t.node \in [1 .. Len(t.node) -> NodeRec]
    BY DEF TreeRec
  <1>2. \A n \in DOMAIN t.node : n \in Nat \ {Null} /\ t.node[n] \in NodeRec
    BY <1>1 DEF Null
  <1>3. \A n \in DOMAIN t.node : Key(t, n) \in Nat
    BY <1>2 DEF Key, sortval, NodeRec, TagRec
  <1>4. \A n \in DOMAIN t.node, s \in BOOLEAN : Child(t, n, s) \in Nat
    BY <1>2 DEF Child, Side, NodeRec
  <1> QED
    BY <1>1, <1>2, <1>3, <1>4

(* The trees have the same nodes, values and root.                         *)
SameNodes(t, u) ==
  /\ DOMAIN u.node = DOMAIN t.node
  /\ Len(u.node) = Len(t.node)
  /\ \A n \in DOMAIN t.node : u.node[n].value = t.node[n].value

LEMMA SetChildIs ==
  ASSUME NEW t \in TreeRec, NEW n \in DOMAIN t.node, NEW right \in BOOLEAN, NEW c \in Nat
  PROVE  LET u == SetChild(t, n, right, c)
         IN /\ u \in TreeRec
            /\ SameNodes(t, u)
            /\ u.head = t.head
            /\ u.dead = t.dead
            /\ \A m \in DOMAIN t.node : IsRed(u, m) <=> IsRed(t, m)
            /\ \A m \in DOMAIN t.node, s \in BOOLEAN :
                 Child(u, m, s) = IF m = n /\ s = right THEN c ELSE Child(t, m, s)
  <1> DEFINE u == SetChild(t, n, right, c)
             k == Side(right)
             v == [t.node EXCEPT ![n].child[k] = c]
  <1>1. /\ Len(t.node) \in Nat
        /\ DOMAIN t.node = 1 .. Len(t.node)
        /\ t.node \in [1 .. Len(t.node) -> NodeRec]
    BY TreeTyped
  <1>2. u.node = v /\ u.head = t.head /\ u.dead = t.dead /\ u \in [node : {v}, head : Nat, dead : SUBSET Nat]
    BY DEF SetChild, TreeRec
  <1>3. k \in {1, 2}
    BY DEF Side
  <1>4. v \in [1 .. Len(t.node) -> NodeRec]
    <2>1. CASE k = 1
      BY <1>1, <2>1 DEF NodeRec
    <2>2. CASE k = 2
      BY <1>1, <2>2 DEF NodeRec
    <2> QED
      BY <1>3, <2>1, <2>2
  <1>5. v \in Seq(NodeRec) /\ Len(v) = Len(t.node) /\ DOMAIN v = DOMAIN t.node
    BY <1>1, <1>4
  <1>6. \A m \in DOMAIN t.node : v[m].value = t.node[m].value
    BY <1>1, <1>3 DEF NodeRec
  <1>7. \A m \in DOMAIN t.node : v[m].col <=> t.node[m].col
    <2>1. \A m \in DOMAIN t.node : m # n => v[m] = t.node[m]
      BY <1>1
    <2>2. v[n] = [t.node[n] EXCEPT !.child[k] = c]
      BY <1>1
    <2>3. v[n].col = t.node[n].col
      BY <1>1, <2>2, Zenon DEF NodeRec
    <2> QED
      BY <2>1, <2>3, Zenon
  <1>8. ASSUME NEW m \in DOMAIN t.node, NEW s \in BOOLEAN
        PROVE  v[m].child[Side(s)] = IF m = n /\ s = right THEN c ELSE t.node[m].child[Side(s)]
    <2>1. t.node[m].child \in Nat \X Nat /\ t.node[n].child \in Nat \X Nat
      BY <1>1 DEF NodeRec
    <2>2. m # n => v[m] = t.node[m]
      BY <1>1
    <2>3. v[n].child = [t.node[n].child EXCEPT ![k] = c]
      BY <1>1 DEF NodeRec
    <2>4. Side(s) \in {1, 2} /\ (Side(s) = k <=> s = right)
      BY DEF Side
    <2>5. v[n].child[Side(s)] = IF s = right THEN c ELSE t.node[n].child[Side(s)]
      BY <1>3, <2>1, <2>3, <2>4
    <2> QED
      BY <2>2, <2>5
  <1> HIDE DEF v, k
  <1>9. u \in TreeRec
    BY <1>2, <1>5 DEF TreeRec
  <1>10. SameNodes(t, u)
    BY <1>2, <1>5, <1>6 DEF SameNodes
  <1>11. \A m \in DOMAIN t.node : IsRed(u, m) <=> IsRed(t, m)
    BY <1>2, <1>7, Zenon DEF IsRed
  <1>12. \A m \in DOMAIN t.node, s \in BOOLEAN :
           Child(u, m, s) = IF m = n /\ s = right THEN c ELSE Child(t, m, s)
    BY <1>2, <1>8 DEF Child
  <1> QED
    BY <1>2, <1>9, <1>10, <1>11, <1>12

LEMMA SetColIs ==
  ASSUME NEW t \in TreeRec, NEW n \in DOMAIN t.node, NEW red \in BOOLEAN
  PROVE  LET u == SetCol(t, n, red)
         IN /\ u \in TreeRec
            /\ SameNodes(t, u)
            /\ u.head = t.head
            /\ u.dead = t.dead
            /\ \A m \in DOMAIN t.node : IsRed(u, m) <=> IF m = n THEN red ELSE IsRed(t, m)
            /\ \A m \in DOMAIN t.node, s \in BOOLEAN : Child(u, m, s) = Child(t, m, s)
  <1> DEFINE u == SetCol(t, n, red)
             v == [t.node EXCEPT ![n].col = red]
  <1>1. /\ Len(t.node) \in Nat
        /\ DOMAIN t.node = 1 .. Len(t.node)
        /\ t.node \in [1 .. Len(t.node) -> NodeRec]
        /\ n # Null
    BY TreeTyped
  <1>2. u.node = v /\ u.head = t.head /\ u.dead = t.dead /\ u \in [node : {v}, head : Nat, dead : SUBSET Nat]
    BY DEF SetCol, TreeRec
  <1>3. v \in [1 .. Len(t.node) -> NodeRec]
    BY <1>1 DEF NodeRec
  <1>4. v \in Seq(NodeRec) /\ Len(v) = Len(t.node) /\ DOMAIN v = DOMAIN t.node
    BY <1>1, <1>3
  <1>5. \A m \in DOMAIN t.node : v[m].value = t.node[m].value /\ v[m].child = t.node[m].child
    BY <1>1 DEF NodeRec
  <1>6. \A m \in DOMAIN t.node : m # n => v[m] = t.node[m]
    BY <1>1
  <1>7. v[n] = [t.node[n] EXCEPT !.col = red]
    BY <1>1
  <1>8. v[n].col = red
    BY <1>1, <1>7, Zenon DEF NodeRec
  <1> HIDE DEF v
  <1>9. u \in TreeRec
    BY <1>2, <1>4 DEF TreeRec
  <1>10. SameNodes(t, u)
    BY <1>2, <1>4, <1>5 DEF SameNodes
  <1>11. \A m \in DOMAIN t.node : m # n => (IsRed(u, m) <=> IsRed(t, m))
    BY <1>2, <1>6, Zenon DEF IsRed
  <1>12. IsRed(u, n) <=> red
    BY <1>1, <1>2, <1>8, Zenon DEF IsRed
  <1>13. \A m \in DOMAIN t.node : IsRed(u, m) <=> IF m = n THEN red ELSE IsRed(t, m)
    BY <1>11, <1>12, Zenon
  <1>14. \A m \in DOMAIN t.node, s \in BOOLEAN : Child(u, m, s) = Child(t, m, s)
    BY <1>2, <1>5 DEF Child
  <1> QED
    BY <1>2, <1>9, <1>10, <1>13, <1>14

(* v is t with the colour of n set.                                        *)
Recoloured(t, v, n, red) ==
  /\ v \in TreeRec
  /\ SameNodes(t, v)
  /\ v.head = t.head
  /\ v.dead = t.dead
  /\ \A m \in DOMAIN t.node : IsRed(v, m) <=> IF m = n THEN red ELSE IsRed(t, m)
  /\ \A m \in DOMAIN t.node, s \in BOOLEAN : Child(v, m, s) = Child(t, m, s)

LEMMA SetColTo ==
  ASSUME NEW t \in TreeRec, NEW n \in DOMAIN t.node, NEW red \in BOOLEAN
  PROVE  Recoloured(t, SetCol(t, n, red), n, red)
  BY SetColIs DEF Recoloured

LEMMA NewNodeIs ==
  ASSUME NEW t \in TreeRec, NEW obj \in TagRec, NEW col \in BOOLEAN
  PROVE  LET u == NewNode(t, obj, col)
             new == Len(t.node) + 1
         IN /\ u \in TreeRec
            /\ Len(u.node) = new
            /\ DOMAIN u.node = DOMAIN t.node \cup {new}
            /\ new \notin DOMAIN t.node /\ new \in Nat /\ new # Null
            /\ u.head = t.head
            /\ u.dead = t.dead
            /\ u.node[new].value = obj
            /\ \A m \in DOMAIN t.node : u.node[m].value = t.node[m].value
            /\ IsRed(u, new) <=> col
            /\ \A m \in DOMAIN t.node : IsRed(u, m) <=> IsRed(t, m)
            /\ \A s \in BOOLEAN : Child(u, new, s) = Null
            /\ \A m \in DOMAIN t.node, s \in BOOLEAN : Child(u, m, s) = Child(t, m, s)
  <1> DEFINE u == NewNode(t, obj, col)
             new == Len(t.node) + 1
             e == [value |-> obj, col |-> col, child |-> <<Null, Null>>]
             v == Append(t.node, e)
  <1>1. /\ Len(t.node) \in Nat
        /\ DOMAIN t.node = 1 .. Len(t.node)
        /\ t.node \in Seq(NodeRec)
    BY TreeTyped DEF TreeRec
  <1>2. u.node = v /\ u.head = t.head /\ u.dead = t.dead /\ u \in [node : {v}, head : Nat, dead : SUBSET Nat]
    BY DEF NewNode, TreeRec
  <1>3. e \in NodeRec
    BY DEF NodeRec, Null
  <1>4. e.value = obj /\ e.child = <<Null, Null>>
    OBVIOUS
  <1>5. e.col = col
    BY Zenon
  <1> HIDE DEF e
  <1>6. /\ v \in Seq(NodeRec)
        /\ Len(v) = new
        /\ \A m \in 1 .. Len(t.node) : v[m] = t.node[m]
        /\ v[new] = e
    BY <1>1, <1>3
  <1>7. DOMAIN v = DOMAIN t.node \cup {new} /\ new \notin DOMAIN t.node /\ new \in Nat /\ new # Null
    BY <1>1, <1>6 DEF Null
  <1> HIDE DEF v, new
  <1>8. u \in TreeRec
    BY <1>2, <1>6 DEF TreeRec
  <1>9. IsRed(u, new) <=> col
    BY <1>2, <1>5, <1>6, <1>7, Zenon DEF IsRed
  <1>10. \A m \in DOMAIN t.node : IsRed(u, m) <=> IsRed(t, m)
    BY <1>1, <1>2, <1>6, Zenon DEF IsRed
  <1>11. \A s \in BOOLEAN : Child(u, new, s) = Null
    BY <1>2, <1>4, <1>6 DEF Child, Side
  <1>12. \A m \in DOMAIN t.node, s \in BOOLEAN : Child(u, m, s) = Child(t, m, s)
    BY <1>1, <1>2, <1>6 DEF Child
  <1>13. u.node[new].value = obj /\ \A m \in DOMAIN t.node : u.node[m].value = t.node[m].value
    BY <1>1, <1>2, <1>4, <1>6
  <1> QED
    BY <1>2, <1>6, <1>7, <1>8, <1>9, <1>10, <1>11, <1>12, <1>13 DEF new

SetHead(t, c) == [t EXCEPT !.head = c]

LEMMA SetHeadIs ==
  ASSUME NEW t \in TreeRec, NEW c \in Nat
  PROVE  LET u == SetHead(t, c)
         IN /\ u \in TreeRec
            /\ SameNodes(t, u)
            /\ u.head = c
            /\ u.dead = t.dead
            /\ \A m \in DOMAIN t.node : IsRed(u, m) <=> IsRed(t, m)
            /\ \A m \in DOMAIN t.node, s \in BOOLEAN : Child(u, m, s) = Child(t, m, s)
  <1> DEFINE u == SetHead(t, c)
  <1>1. u \in TreeRec /\ u.node = t.node /\ u.head = c /\ u.dead = t.dead
    BY DEF SetHead, TreeRec
  <1> HIDE DEF u
  <1>2. SameNodes(t, u)
    BY <1>1 DEF SameNodes
  <1>3. \A m \in DOMAIN t.node : IsRed(u, m) <=> IsRed(t, m)
    BY <1>1, Zenon DEF IsRed
  <1>4. \A m \in DOMAIN t.node, s \in BOOLEAN : Child(u, m, s) = Child(t, m, s)
    BY <1>1 DEF Child
  <1> QED
    BY <1>1, <1>2, <1>3, <1>4 DEF u

-----------------------------------------------------------------------------
(***************************************************************************)
(* The walks.                                                              *)
(***************************************************************************)

(* The nodes below a node lie below it in rank.                            *)
LEMMA LinkedRank ==
  ASSUME NEW t \in TreeRec, NEW D, Linked(t, D)
  PROVE  \E rk \in [ChildLinks(t) -> 0 .. Len(t.node)] :
           \A n \in DOMAIN t.node, s \in BOOLEAN : rk[Child(t, n, s)] < rk[n]
  <1> DEFINE rk == [c \in ChildLinks(t) |-> Cardinality(D[c])]
  <1>1. Len(t.node) \in Nat /\ DOMAIN t.node = 1 .. Len(t.node)
    BY TreeTyped
  <1>2. IsFiniteSet(DOMAIN t.node) /\ Cardinality(DOMAIN t.node) = Len(t.node)
    BY <1>1, FS_Interval
  <1>3. ASSUME NEW c \in ChildLinks(t)
        PROVE  IsFiniteSet(D[c]) /\ Cardinality(D[c]) \in 0 .. Len(t.node)
    <2>1. D[c] \subseteq DOMAIN t.node
      BY DEF Linked
    <2>2. IsFiniteSet(D[c]) /\ Cardinality(D[c]) <= Cardinality(DOMAIN t.node)
      BY <1>2, <2>1, FS_Subset
    <2>3. Cardinality(D[c]) \in Nat
      BY <2>2, FS_CardinalityType
    <2> QED
      BY <1>1, <1>2, <2>2, <2>3
  <1>4. ASSUME NEW n \in DOMAIN t.node, NEW s \in BOOLEAN
        PROVE  rk[Child(t, n, s)] < rk[n]
    <2> DEFINE c == Child(t, n, s)
    <2>1. c \in ChildLinks(t) /\ n \in ChildLinks(t)
      BY DEF Linked, ChildLinks
    <2>2. D[c] \subseteq D[n] /\ n \in D[n] /\ n \notin D[c]
      BY DEF Linked
    <2> HIDE DEF c
    <2>3. D[c] \subseteq D[n] /\ D[c] # D[n]
      BY <2>2
    <2>4. Cardinality(D[c]) < Cardinality(D[n])
      BY <1>3, <2>1, <2>3, FS_Subset
    <2> QED
      BY <2>1, <2>4 DEF c
  <1>5. rk \in [ChildLinks(t) -> 0 .. Len(t.node)]
    BY <1>3
  <1> HIDE DEF rk
  <1> QED
    BY <1>4, <1>5

(* Induction from the leaves up.                                           *)
LEMMA UpInduct ==
  ASSUME NEW t \in TreeRec, NEW D, Linked(t, D), NEW Q, Null \in Q,
         \A n \in DOMAIN t.node : (\A s \in BOOLEAN : Child(t, n, s) \in Q) => n \in Q
  PROVE  \A c \in ChildLinks(t) : c \in Q
  <1>1. PICK rk \in [ChildLinks(t) -> 0 .. Len(t.node)] :
          \A n \in DOMAIN t.node, s \in BOOLEAN : rk[Child(t, n, s)] < rk[n]
    BY LinkedRank
  <1>2. rk \in [ChildLinks(t) -> Nat]
    BY TreeTyped
  <1>3. ASSUME NEW c \in ChildLinks(t), \A y \in ChildLinks(t) : rk[y] < rk[c] => y \in Q
        PROVE  c \in Q
    <2>1. CASE c = Null
      BY <2>1
    <2>2. CASE c # Null
      <3>1. c \in DOMAIN t.node
        BY <2>2 DEF ChildLinks
      <3>2. \A s \in BOOLEAN : Child(t, c, s) \in ChildLinks(t) /\ rk[Child(t, c, s)] < rk[c]
        BY <1>1, <3>1 DEF Linked
      <3>3. \A s \in BOOLEAN : Child(t, c, s) \in Q
        BY <1>3, <3>2
      <3> QED
        BY <3>1, <3>3
    <2> QED
      BY <2>1, <2>2
  <1> DEFINE S == ChildLinks(t)
  <1>4. \A x \in S : (\A y \in S : rk[y] < rk[x] => y \in Q) => x \in Q
    BY <1>3
  <1>5. rk \in [S -> Nat]
    BY <1>2
  <1> HIDE DEF S
  <1>6. \A x \in S : x \in Q
    BY <1>4, <1>5, RankInduct
  <1> QED
    BY <1>6 DEF S

(* What the tree holds is what D has below the root.                       *)
LEMMA InTreeIs ==
  ASSUME NEW t \in TreeRec, NEW D, Shape(t, D)
  PROVE  InTree(t) = D[t.head]
  <1> USE DEF Shape
  <1> DEFINE S == ChildLinks(t)
             stop == {Null}
             lft == [c \in S |-> Child(t, c, FALSE)]
             rgt == [c \in S |-> Child(t, c, TRUE)]
             reach == CHOOSE reach : reach = [c \in S |->
                        IF c = Null THEN {}
                        ELSE {c} \cup reach[Child(t, c, FALSE)] \cup reach[Child(t, c, TRUE)]]
  <1>1. PICK rk \in [S -> 0 .. Len(t.node)] :
          \A n \in DOMAIN t.node, s \in BOOLEAN : rk[Child(t, n, s)] < rk[n]
    BY LinkedRank
  <1>2. Descends(rk, S, stop, lft) /\ Descends(rk, S, stop, rgt)
    BY <1>1 DEF Linked, ChildLinks, Descends
  <1>3. \E f : Gathers(f, S, stop, lft, rgt)
    <2> DEFINE M == Len(t.node)
    <2>1. M \in Nat /\ rk \in [S -> 0 .. M]
      BY TreeTyped
    <2> HIDE DEF S, stop, lft, rgt, M, reach
    <2> QED
      BY <1>2, <2>1, GatherExists
  <1>4. PICK f : Gathers(f, S, stop, lft, rgt)
    BY <1>3
  <1>5. f = [c \in S |-> IF c = Null THEN {}
                         ELSE {c} \cup f[Child(t, c, FALSE)] \cup f[Child(t, c, TRUE)]]
    <2>1. \A c \in S : lft[c] = Child(t, c, FALSE) /\ rgt[c] = Child(t, c, TRUE)
      OBVIOUS
    <2>2. \A c \in S : c \in stop <=> c = Null
      OBVIOUS
    <2> HIDE DEF S, stop, lft, rgt
    <2> QED
      BY <1>4, <2>1, <2>2 DEF Gathers
  <1>6. reach = [c \in S |-> IF c = Null THEN {}
                             ELSE {c} \cup reach[Child(t, c, FALSE)] \cup reach[Child(t, c, TRUE)]]
    <2> HIDE DEF S
    <2> QED
      BY <1>5
  <1>7. InTree(t) = reach[t.head]
    BY DEF InTree, Below
  <1> HIDE DEF reach
  <1> DEFINE Q == {c \in S : c \notin D[t.head] \/ reach[c] = D[c]}
  <1>8. ASSUME NEW n \in DOMAIN t.node, \A s \in BOOLEAN : Child(t, n, s) \in Q \cup {Null}
        PROVE  n \in Q
    <2> SUFFICES ASSUME n \in D[t.head]
                 PROVE  reach[n] = D[n]
      BY DEF ChildLinks
    <2>1. n \in S /\ n # Null
      BY TreeTyped DEF ChildLinks
    <2>2. reach[n] = {n} \cup reach[Child(t, n, FALSE)] \cup reach[Child(t, n, TRUE)]
      BY <1>6, <2>1
    <2>3. t.head \in DOMAIN t.node
      BY DEF Linked, ChildLinks
    <2>4. D[n] \subseteq D[t.head]
      BY <2>3 DEF Linked
    <2>5. ASSUME NEW s \in BOOLEAN
          PROVE  reach[Child(t, n, s)] = D[Child(t, n, s)]
      <3>1. CASE Child(t, n, s) = Null
        BY <1>6, <3>1 DEF Linked, ChildLinks
      <3>2. CASE Child(t, n, s) # Null
        <4>1. Child(t, n, s) \in DOMAIN t.node
          BY <3>2 DEF Linked, ChildLinks
        <4>2. Child(t, n, s) \in D[Child(t, n, s)] /\ D[Child(t, n, s)] \subseteq D[n]
          BY <4>1 DEF Linked
        <4> QED
          BY <1>8, <2>4, <3>2, <4>2
      <3> QED
        BY <3>1, <3>2
    <2>6. reach[n] = {n} \cup D[Child(t, n, FALSE)] \cup D[Child(t, n, TRUE)]
      BY <2>2, <2>5
    <2>7. D[Child(t, n, FALSE)] \subseteq D[n] /\ D[Child(t, n, TRUE)] \subseteq D[n] /\ n \in D[n]
      BY DEF Linked
    <2>8. \A x \in D[n] : x = n \/ x \in D[Child(t, n, FALSE)] \/ x \in D[Child(t, n, TRUE)]
      BY DEF Branching
    <2> QED
      BY <2>6, <2>7, <2>8
  <1> DEFINE R == Q \cup {Null}
  <1>9. Null \in R /\ \A n \in DOMAIN t.node : (\A s \in BOOLEAN : Child(t, n, s) \in R) => n \in R
    BY <1>8
  <1>10. \A c \in ChildLinks(t) : c \in R
    <2> HIDE DEF R
    <2> QED
      BY <1>9, UpInduct
  <1>11. CASE t.head = Null
    BY <1>6, <1>7, <1>11 DEF Linked, ChildLinks
  <1>12. CASE t.head # Null
    <2>1. t.head \in DOMAIN t.node /\ t.head \in D[t.head]
      BY <1>12 DEF Linked, ChildLinks
    <2>2. t.head \in Q
      BY <1>10, <1>12, <2>1 DEF ChildLinks
    <2> QED
      BY <1>7, <2>1, <2>2
  <1> QED
    BY <1>11, <1>12

(* The loops of findBelow, findAbove and insert, unrolled by one step.     *)
LEMMA BelowWalk ==
  ASSUME NEW t \in TreeRec, NEW D, Linked(t, D), NEW key \in Nat
  PROVE  \E w : /\ findBelow(t, key) = w[<<t.head, Null>>]
                /\ \A c, best \in ChildLinks(t) :
                     w[<<c, best>>] = IF c = Null THEN best
                                      ELSE IF key = Key(t, c) THEN c
                                      ELSE IF key > Key(t, c) THEN w[<<Child(t, c, TRUE), c>>]
                                      ELSE w[<<Child(t, c, FALSE), best>>]
  <1> DEFINE S == ChildLinks(t) \X ChildLinks(t)
             stop == {p \in S : p[1] = Null \/ key = Key(t, p[1])}
             out == [p \in S |-> IF p[1] = Null THEN p[2] ELSE p[1]]
             step == [p \in S |-> IF key > Key(t, p[1]) THEN <<Child(t, p[1], TRUE), p[1]>>
                                  ELSE <<Child(t, p[1], FALSE), p[2]>>]
             w == CHOOSE w : w = [p \in S |->
                    IF p[1] = Null THEN p[2]
                    ELSE IF key = Key(t, p[1]) THEN p[1]
                    ELSE IF key > Key(t, p[1]) THEN w[<<Child(t, p[1], TRUE), p[1]>>]
                    ELSE w[<<Child(t, p[1], FALSE), p[2]>>]]
             M == Len(t.node)
  <1>1. PICK rk \in [ChildLinks(t) -> 0 .. M] :
          \A n \in DOMAIN t.node, s \in BOOLEAN : rk[Child(t, n, s)] < rk[n]
    BY LinkedRank
  <1> DEFINE prk == [p \in S |-> rk[p[1]]]
  <1>2. M \in Nat /\ prk \in [S -> 0 .. M]
    BY TreeTyped
  <1>3. ASSUME NEW p \in S, p \notin stop
        PROVE  step[p] \in S /\ prk[step[p]] < prk[p]
    <2>1. p[1] \in DOMAIN t.node /\ p[2] \in ChildLinks(t) /\ p[1] \in ChildLinks(t)
      BY <1>3 DEF ChildLinks
    <2>2. \A s \in BOOLEAN : Child(t, p[1], s) \in ChildLinks(t) /\ rk[Child(t, p[1], s)] < rk[p[1]]
      BY <1>1, <2>1 DEF Linked
    <2>3. CASE key > Key(t, p[1])
      <3>1. step[p] = <<Child(t, p[1], TRUE), p[1]>>
        BY <2>3
      <3> QED
        BY <2>1, <2>2, <3>1
    <2>4. CASE ~(key > Key(t, p[1]))
      <3>1. step[p] = <<Child(t, p[1], FALSE), p[2]>>
        BY <2>4
      <3> QED
        BY <2>1, <2>2, <3>1
    <2> QED
      BY <2>3, <2>4
  <1>4. Descends(prk, S, stop, step)
    <2> HIDE DEF prk, S, stop, step
    <2> QED
      BY <1>3 DEF Descends
  <1>5. \E f : Walks(f, S, stop, step, out)
    <2> HIDE DEF prk, S, stop, step, out, M, w
    <2> QED
      BY <1>2, <1>4, WalkExists
  <1>6. PICK f : Walks(f, S, stop, step, out)
    BY <1>5
  <1>7. ASSUME NEW p \in S
        PROVE  f[p] = IF p[1] = Null THEN p[2]
                      ELSE IF key = Key(t, p[1]) THEN p[1]
                      ELSE IF key > Key(t, p[1]) THEN f[<<Child(t, p[1], TRUE), p[1]>>]
                      ELSE f[<<Child(t, p[1], FALSE), p[2]>>]
    <2>1. f[p] = IF p \in stop THEN out[p] ELSE f[step[p]]
      <3> HIDE DEF S, stop, step, out
      <3> QED
        BY <1>6 DEF Walks
    <2>2. p \in stop <=> p[1] = Null \/ key = Key(t, p[1])
      OBVIOUS
    <2>3. out[p] = IF p[1] = Null THEN p[2] ELSE p[1]
      OBVIOUS
    <2>4. step[p] = IF key > Key(t, p[1]) THEN <<Child(t, p[1], TRUE), p[1]>>
                    ELSE <<Child(t, p[1], FALSE), p[2]>>
      OBVIOUS
    <2> HIDE DEF S, stop, step, out
    <2> QED
      BY <2>1, <2>2, <2>3, <2>4
  <1>8. f = [p \in S |-> f[p]]
    <2> HIDE DEF S, stop, step, out
    <2> QED
      BY <1>6 DEF Walks
  <1>9. f = [p \in S |->
               IF p[1] = Null THEN p[2]
               ELSE IF key = Key(t, p[1]) THEN p[1]
               ELSE IF key > Key(t, p[1]) THEN f[<<Child(t, p[1], TRUE), p[1]>>]
               ELSE f[<<Child(t, p[1], FALSE), p[2]>>]]
    <2> HIDE DEF S
    <2> QED
      BY <1>7, <1>8
  <1>10. w = [p \in S |->
                IF p[1] = Null THEN p[2]
                ELSE IF key = Key(t, p[1]) THEN p[1]
                ELSE IF key > Key(t, p[1]) THEN w[<<Child(t, p[1], TRUE), p[1]>>]
                ELSE w[<<Child(t, p[1], FALSE), p[2]>>]]
    <2> HIDE DEF S
    <2> QED
      BY <1>9
  <1>11. findBelow(t, key) = w[<<t.head, Null>>]
    BY DEF findBelow
  <1> HIDE DEF w
  <1>12. ASSUME NEW c \in ChildLinks(t), NEW best \in ChildLinks(t)
         PROVE  w[<<c, best>>] = IF c = Null THEN best
                                 ELSE IF key = Key(t, c) THEN c
                                 ELSE IF key > Key(t, c) THEN w[<<Child(t, c, TRUE), c>>]
                                 ELSE w[<<Child(t, c, FALSE), best>>]
    <2> DEFINE p == <<c, best>>
    <2>1. p \in S /\ p[1] = c /\ p[2] = best
      OBVIOUS
    <2> HIDE DEF p, S
    <2>2. w[p] = IF p[1] = Null THEN p[2]
                 ELSE IF key = Key(t, p[1]) THEN p[1]
                 ELSE IF key > Key(t, p[1]) THEN w[<<Child(t, p[1], TRUE), p[1]>>]
                 ELSE w[<<Child(t, p[1], FALSE), p[2]>>]
      BY <1>10, <2>1
    <2> QED
      BY <2>1, <2>2 DEF p
  <1> QED
    BY <1>11, <1>12

LEMMA AboveWalk ==
  ASSUME NEW t \in TreeRec, NEW D, Linked(t, D), NEW key \in Nat
  PROVE  \E w : /\ findAbove(t, key) = w[<<t.head, Null>>]
                /\ \A c, best \in ChildLinks(t) :
                     w[<<c, best>>] = IF c = Null THEN best
                                      ELSE IF key = Key(t, c) THEN c
                                      ELSE IF key < Key(t, c) THEN w[<<Child(t, c, FALSE), c>>]
                                      ELSE w[<<Child(t, c, TRUE), best>>]
  <1> DEFINE S == ChildLinks(t) \X ChildLinks(t)
             stop == {p \in S : p[1] = Null \/ key = Key(t, p[1])}
             out == [p \in S |-> IF p[1] = Null THEN p[2] ELSE p[1]]
             step == [p \in S |-> IF key < Key(t, p[1]) THEN <<Child(t, p[1], FALSE), p[1]>>
                                  ELSE <<Child(t, p[1], TRUE), p[2]>>]
             w == CHOOSE w : w = [p \in S |->
                    IF p[1] = Null THEN p[2]
                    ELSE IF key = Key(t, p[1]) THEN p[1]
                    ELSE IF key < Key(t, p[1]) THEN w[<<Child(t, p[1], FALSE), p[1]>>]
                    ELSE w[<<Child(t, p[1], TRUE), p[2]>>]]
             M == Len(t.node)
  <1>1. PICK rk \in [ChildLinks(t) -> 0 .. M] :
          \A n \in DOMAIN t.node, s \in BOOLEAN : rk[Child(t, n, s)] < rk[n]
    BY LinkedRank
  <1> DEFINE prk == [p \in S |-> rk[p[1]]]
  <1>2. M \in Nat /\ prk \in [S -> 0 .. M]
    BY TreeTyped
  <1>3. ASSUME NEW p \in S, p \notin stop
        PROVE  step[p] \in S /\ prk[step[p]] < prk[p]
    <2>1. p[1] \in DOMAIN t.node /\ p[2] \in ChildLinks(t) /\ p[1] \in ChildLinks(t)
      BY <1>3 DEF ChildLinks
    <2>2. \A s \in BOOLEAN : Child(t, p[1], s) \in ChildLinks(t) /\ rk[Child(t, p[1], s)] < rk[p[1]]
      BY <1>1, <2>1 DEF Linked
    <2>3. CASE key < Key(t, p[1])
      <3>1. step[p] = <<Child(t, p[1], FALSE), p[1]>>
        BY <2>3
      <3> QED
        BY <2>1, <2>2, <3>1
    <2>4. CASE ~(key < Key(t, p[1]))
      <3>1. step[p] = <<Child(t, p[1], TRUE), p[2]>>
        BY <2>4
      <3> QED
        BY <2>1, <2>2, <3>1
    <2> QED
      BY <2>3, <2>4
  <1>4. Descends(prk, S, stop, step)
    <2> HIDE DEF prk, S, stop, step
    <2> QED
      BY <1>3 DEF Descends
  <1>5. \E f : Walks(f, S, stop, step, out)
    <2> HIDE DEF prk, S, stop, step, out, M, w
    <2> QED
      BY <1>2, <1>4, WalkExists
  <1>6. PICK f : Walks(f, S, stop, step, out)
    BY <1>5
  <1>7. ASSUME NEW p \in S
        PROVE  f[p] = IF p[1] = Null THEN p[2]
                      ELSE IF key = Key(t, p[1]) THEN p[1]
                      ELSE IF key < Key(t, p[1]) THEN f[<<Child(t, p[1], FALSE), p[1]>>]
                      ELSE f[<<Child(t, p[1], TRUE), p[2]>>]
    <2>1. f[p] = IF p \in stop THEN out[p] ELSE f[step[p]]
      <3> HIDE DEF S, stop, step, out
      <3> QED
        BY <1>6 DEF Walks
    <2>2. p \in stop <=> p[1] = Null \/ key = Key(t, p[1])
      OBVIOUS
    <2>3. out[p] = IF p[1] = Null THEN p[2] ELSE p[1]
      OBVIOUS
    <2>4. step[p] = IF key < Key(t, p[1]) THEN <<Child(t, p[1], FALSE), p[1]>>
                    ELSE <<Child(t, p[1], TRUE), p[2]>>
      OBVIOUS
    <2> HIDE DEF S, stop, step, out
    <2> QED
      BY <2>1, <2>2, <2>3, <2>4
  <1>8. f = [p \in S |-> f[p]]
    <2> HIDE DEF S, stop, step, out
    <2> QED
      BY <1>6 DEF Walks
  <1>9. f = [p \in S |->
               IF p[1] = Null THEN p[2]
               ELSE IF key = Key(t, p[1]) THEN p[1]
               ELSE IF key < Key(t, p[1]) THEN f[<<Child(t, p[1], FALSE), p[1]>>]
               ELSE f[<<Child(t, p[1], TRUE), p[2]>>]]
    <2> HIDE DEF S
    <2> QED
      BY <1>7, <1>8
  <1>10. w = [p \in S |->
                IF p[1] = Null THEN p[2]
                ELSE IF key = Key(t, p[1]) THEN p[1]
                ELSE IF key < Key(t, p[1]) THEN w[<<Child(t, p[1], FALSE), p[1]>>]
                ELSE w[<<Child(t, p[1], TRUE), p[2]>>]]
    <2> HIDE DEF S
    <2> QED
      BY <1>9
  <1>11. findAbove(t, key) = w[<<t.head, Null>>]
    BY DEF findAbove
  <1> HIDE DEF w
  <1>12. ASSUME NEW c \in ChildLinks(t), NEW best \in ChildLinks(t)
         PROVE  w[<<c, best>>] = IF c = Null THEN best
                                 ELSE IF key = Key(t, c) THEN c
                                 ELSE IF key < Key(t, c) THEN w[<<Child(t, c, FALSE), c>>]
                                 ELSE w[<<Child(t, c, TRUE), best>>]
    <2> DEFINE p == <<c, best>>
    <2>1. p \in S /\ p[1] = c /\ p[2] = best
      OBVIOUS
    <2> HIDE DEF p, S
    <2>2. w[p] = IF p[1] = Null THEN p[2]
                 ELSE IF key = Key(t, p[1]) THEN p[1]
                 ELSE IF key < Key(t, p[1]) THEN w[<<Child(t, p[1], FALSE), p[1]>>]
                 ELSE w[<<Child(t, p[1], TRUE), p[2]>>]
      BY <1>10, <2>1
    <2> QED
      BY <2>1, <2>2 DEF p
  <1> QED
    BY <1>11, <1>12

LEMMA DescentWalk ==
  ASSUME NEW t \in TreeRec, NEW D, Linked(t, D), NEW key \in Nat
  PROVE  \E w : /\ Descent(t, key) = w[<<t.head, Null>>]
                /\ \A n \in DOMAIN t.node, above \in ChildLinks(t) :
                     LET below == Child(t, n, GoesRight(t, n, key))
                     IN w[<<n, above>>] = IF below = Null THEN [parent |-> n, grandparent |-> above]
                                          ELSE w[<<below, n>>]
  <1> DEFINE below(n) == Child(t, n, GoesRight(t, n, key))
             S == (DOMAIN t.node) \X ChildLinks(t)
             stop == {p \in S : below(p[1]) = Null}
             out == [p \in S |-> [parent |-> p[1], grandparent |-> p[2]]]
             step == [p \in S |-> <<below(p[1]), p[1]>>]
             w == CHOOSE w : w = [p \in S |->
                    IF below(p[1]) = Null THEN [parent |-> p[1], grandparent |-> p[2]]
                    ELSE w[<<below(p[1]), p[1]>>]]
             M == Len(t.node)
  <1>1. PICK rk \in [ChildLinks(t) -> 0 .. M] :
          \A n \in DOMAIN t.node, s \in BOOLEAN : rk[Child(t, n, s)] < rk[n]
    BY LinkedRank
  <1> DEFINE prk == [p \in S |-> rk[p[1]]]
  <1>2. M \in Nat /\ prk \in [S -> 0 .. M]
    BY TreeTyped DEF ChildLinks
  <1>3. ASSUME NEW n \in DOMAIN t.node
        PROVE  below(n) \in ChildLinks(t) /\ rk[below(n)] < rk[n]
    <2>1. GoesRight(t, n, key) \in BOOLEAN
      BY DEF GoesRight
    <2> QED
      BY <1>1, <2>1 DEF Linked
  <1> HIDE DEF below
  <1>4. ASSUME NEW p \in S, p \notin stop
        PROVE  step[p] \in S /\ prk[step[p]] < prk[p]
    <2>1. p[1] \in DOMAIN t.node /\ p[1] \in ChildLinks(t) /\ below(p[1]) # Null
      BY <1>4 DEF ChildLinks
    <2>2. below(p[1]) \in DOMAIN t.node /\ rk[below(p[1])] < rk[p[1]]
      BY <1>3, <2>1 DEF ChildLinks
    <2> QED
      BY <2>1, <2>2
  <1>5. Descends(prk, S, stop, step)
    <2> HIDE DEF prk, S, stop, step
    <2> QED
      BY <1>4 DEF Descends
  <1>6. \E f : Walks(f, S, stop, step, out)
    <2> HIDE DEF prk, S, stop, step, out, M, w
    <2> QED
      BY <1>2, <1>5, WalkExists
  <1>7. PICK f : Walks(f, S, stop, step, out)
    BY <1>6
  <1>8. ASSUME NEW p \in S
        PROVE  f[p] = IF below(p[1]) = Null THEN [parent |-> p[1], grandparent |-> p[2]]
                      ELSE f[<<below(p[1]), p[1]>>]
    <2>1. f[p] = IF p \in stop THEN out[p] ELSE f[step[p]]
      <3> HIDE DEF S, stop, step, out
      <3> QED
        BY <1>7 DEF Walks
    <2>2. p \in stop <=> below(p[1]) = Null
      OBVIOUS
    <2>3. out[p] = [parent |-> p[1], grandparent |-> p[2]] /\ step[p] = <<below(p[1]), p[1]>>
      OBVIOUS
    <2> HIDE DEF S, stop, step, out
    <2> QED
      BY <2>1, <2>2, <2>3
  <1>9. f = [p \in S |-> f[p]]
    <2> HIDE DEF S, stop, step, out
    <2> QED
      BY <1>7 DEF Walks
  <1>10. f = [p \in S |-> IF below(p[1]) = Null THEN [parent |-> p[1], grandparent |-> p[2]]
                          ELSE f[<<below(p[1]), p[1]>>]]
    <2> HIDE DEF S
    <2> QED
      BY <1>8, <1>9
  <1>11. w = [p \in S |-> IF below(p[1]) = Null THEN [parent |-> p[1], grandparent |-> p[2]]
                          ELSE w[<<below(p[1]), p[1]>>]]
    <2> HIDE DEF S
    <2> QED
      BY <1>10
  <1>12. Descent(t, key) = w[<<t.head, Null>>]
    BY DEF Descent, below
  <1> HIDE DEF w
  <1>13. ASSUME NEW n \in DOMAIN t.node, NEW above \in ChildLinks(t)
         PROVE  w[<<n, above>>] = IF below(n) = Null THEN [parent |-> n, grandparent |-> above]
                                  ELSE w[<<below(n), n>>]
    <2> DEFINE p == <<n, above>>
    <2>1. p \in S /\ p[1] = n /\ p[2] = above
      OBVIOUS
    <2> HIDE DEF p, S
    <2>2. w[p] = IF below(p[1]) = Null THEN [parent |-> p[1], grandparent |-> p[2]]
                 ELSE w[<<below(p[1]), p[1]>>]
      BY <1>11, <2>1
    <2> QED
      BY <2>1, <2>2 DEF p
  <1> QED
    BY <1>12, <1>13 DEF below

(* What lies below a child lies below the node.                            *)
LEMMA HeldChild ==
  ASSUME NEW t \in TreeRec, NEW D, Shape(t, D), NEW n \in D[t.head], NEW s \in BOOLEAN
  PROVE  /\ n \in DOMAIN t.node
         /\ t.head \in DOMAIN t.node
         /\ D[n] \subseteq D[t.head]
         /\ Child(t, n, s) \in ChildLinks(t)
         /\ Child(t, n, s) # Null => Child(t, n, s) \in D[t.head] /\ Child(t, n, s) \in D[n]
         /\ D[Child(t, n, s)] \subseteq D[n]
  <1> USE DEF Shape
  <1>1. n \in DOMAIN t.node /\ t.head \in DOMAIN t.node
    BY DEF Linked, ChildLinks
  <1>2. D[n] \subseteq D[t.head]
    BY <1>1 DEF Linked
  <1>3. Child(t, n, s) \in ChildLinks(t) /\ D[Child(t, n, s)] \subseteq D[n]
    BY <1>1 DEF Linked
  <1>4. Child(t, n, s) # Null => Child(t, n, s) \in D[Child(t, n, s)]
    BY <1>3 DEF Linked, ChildLinks
  <1> QED
    BY <1>1, <1>2, <1>3, <1>4

(* A new key belongs below the node that insert descends to, on the same   *)
(* side of every node above as that node.                                  *)
LEMMA DescentIs ==
  ASSUME NEW t \in TreeRec, NEW D, Shape(t, D), t.head # Null, NEW key \in Nat
  PROVE  LET p == Descent(t, key).parent
             g == Descent(t, key).grandparent
         IN /\ p \in D[t.head]
            /\ Child(t, p, GoesRight(t, p, key)) = Null
            /\ \/ p = t.head /\ g = Null
               \/ g \in D[t.head] /\ Child(t, g, GoesRight(t, g, key)) = p
            /\ \A a \in D[t.head] : p \in D[a] => a = p \/ p \in D[Child(t, a, GoesRight(t, a, key))]
  <1> USE DEF Shape
  <1> DEFINE below(n) == Child(t, n, GoesRight(t, n, key))
             other(n) == Child(t, n, ~GoesRight(t, n, key))
  <1>1. PICK w : /\ Descent(t, key) = w[<<t.head, Null>>]
                 /\ \A n \in DOMAIN t.node, above \in ChildLinks(t) :
                      w[<<n, above>>] = IF below(n) = Null THEN [parent |-> n, grandparent |-> above]
                                        ELSE w[<<below(n), n>>]
    BY DescentWalk
  <1> DEFINE Fits(n, above) ==
        LET p == w[<<n, above>>].parent
            g == w[<<n, above>>].grandparent
        IN /\ p \in D[n]
           /\ below(p) = Null
           /\ \/ p = n /\ g = above
              \/ g \in D[n] /\ below(g) = p
           /\ \A a \in D[n] : p \in D[a] => a = p \/ p \in D[below(a)]
             Q == {n \in ChildLinks(t) : n \in D[t.head] => \A above \in ChildLinks(t) : Fits(n, above)}
  <1>2. Null \in Q
    <2>1. Null \notin DOMAIN t.node
      BY TreeTyped
    <2> QED
      BY <2>1 DEF Linked, ChildLinks
  <1>3. ASSUME NEW n \in D[t.head]
        PROVE  /\ below(n) \in ChildLinks(t) /\ D[below(n)] \subseteq D[n]
               /\ below(n) # Null => below(n) \in D[t.head] /\ below(n) \in DOMAIN t.node
               /\ D[other(n)] \subseteq D[n]
               /\ n \in D[n] /\ n \notin D[below(n)] /\ n \notin D[other(n)]
               /\ \A x \in D[n] : x = n \/ x \in D[below(n)] \/ x \in D[other(n)]
               /\ \A x \in D[below(n)] : x \notin D[other(n)]
               /\ n \in DOMAIN t.node /\ n \in ChildLinks(t)
               /\ \A x \in D[n] : D[x] \subseteq D[n]
               /\ \A x \in D[other(n)] : D[x] \subseteq D[other(n)]
               /\ \A x \in D[below(n)] : D[x] \subseteq D[below(n)]
    <2> DEFINE s == GoesRight(t, n, key)
    <2>1. s \in BOOLEAN /\ (~s) \in BOOLEAN
      BY DEF GoesRight
    <2>2. n \in DOMAIN t.node /\ n \in ChildLinks(t)
      BY <1>3 DEF Linked, ChildLinks
    <2> HIDE DEF s
    <2>3. /\ Child(t, n, s) \in ChildLinks(t) /\ D[Child(t, n, s)] \subseteq D[n]
          /\ Child(t, n, s) # Null => Child(t, n, s) \in D[t.head]
          /\ n \notin D[Child(t, n, s)]
      BY <1>3, <2>1, <2>2, HeldChild DEF Linked
    <2>4. /\ D[Child(t, n, ~s)] \subseteq D[n] /\ n \notin D[Child(t, n, ~s)] /\ n \in D[n]
          /\ Child(t, n, ~s) \in ChildLinks(t)
      BY <2>1, <2>2 DEF Linked
    <2>5. /\ \A x \in D[n] : x = n \/ x \in D[Child(t, n, s)] \/ x \in D[Child(t, n, ~s)]
          /\ \A x \in D[Child(t, n, s)] : x \notin D[Child(t, n, ~s)]
      <3>1. CASE s = TRUE
        BY <1>3, <3>1 DEF Branching
      <3>2. CASE s = FALSE
        BY <1>3, <3>2 DEF Branching
      <3> QED
        BY <2>1, <3>1, <3>2
    <2>6. \A c \in ChildLinks(t) : \A x \in D[c] : D[x] \subseteq D[c]
      BY DEF Linked, ChildLinks
    <2> QED
      BY <2>2, <2>3, <2>4, <2>5, <2>6 DEF s, ChildLinks
  <1> HIDE DEF below, other
  <1>4. ASSUME NEW n \in DOMAIN t.node, \A s \in BOOLEAN : Child(t, n, s) \in Q
        PROVE  n \in Q
    <2> SUFFICES ASSUME n \in D[t.head], NEW above \in ChildLinks(t)
                 PROVE  Fits(n, above)
      BY DEF ChildLinks
    <2>1. CASE below(n) = Null
      <3>1. w[<<n, above>>] = [parent |-> n, grandparent |-> above]
        BY <1>1, <2>1
      <3>2. w[<<n, above>>].parent = n /\ w[<<n, above>>].grandparent = above
        BY <3>1
      <3>3. ASSUME NEW a \in D[n], n \in D[a]
            PROVE  a = n
        <4>1. \A c \in ChildLinks(t) : \A x \in D[c] : D[x] \subseteq D[c]
          BY DEF Linked, ChildLinks
        <4> QED
          BY <1>3, <3>3
      <3> QED
        BY <1>3, <2>1, <3>2, <3>3
    <2>2. CASE below(n) # Null
      <3> DEFINE c == below(n)
                 p == w[<<c, n>>].parent
                 g == w[<<c, n>>].grandparent
      <3>1. w[<<n, above>>] = w[<<c, n>>]
        BY <1>1, <2>2
      <3>2. c \in Q
        <4>1. GoesRight(t, n, key) \in BOOLEAN
          BY DEF GoesRight
        <4> QED
          BY <1>4, <4>1 DEF below
      <3>3. n \in ChildLinks(t) /\ c \in D[t.head]
        BY <1>3, <2>2
      <3>4. Fits(c, n)
        BY <3>2, <3>3
      <3>5. p \in D[n] /\ below(p) = Null
        BY <1>3, <3>4
      <3>6. g \in D[n] /\ below(g) = p
        BY <1>3, <3>4
      <3>7. ASSUME NEW a \in D[n], p \in D[a]
            PROVE  a = p \/ p \in D[below(a)]
        <4>1. CASE a = n
          BY <3>4, <4>1
        <4>2. CASE a \in D[c]
          BY <3>4, <3>7, <4>2
        <4>3. CASE a \in D[other(n)]
          BY <1>3, <3>4, <3>7, <4>3
        <4> QED
          BY <1>3, <4>1, <4>2, <4>3
      <3> QED
        BY <3>1, <3>5, <3>6, <3>7
    <2> QED
      BY <2>1, <2>2
  <1>5. \A c \in ChildLinks(t) : c \in Q
    <2> HIDE DEF Q
    <2> QED
      BY <1>2, <1>4, UpInduct
  <1>6. t.head \in DOMAIN t.node /\ t.head \in D[t.head] /\ Null \in ChildLinks(t)
    BY DEF Linked, ChildLinks
  <1>7. Fits(t.head, Null)
    BY <1>5, <1>6 DEF ChildLinks
  <1> QED
    BY <1>1, <1>7 DEF below

(* A lookup returns a node of the tree, the nearest if the tree is sorted.   *)
LEMMA FindBelowIs ==
  ASSUME NEW t \in TreeRec, NEW D, Shape(t, D), NEW key \in Nat
  PROVE  LET r == findBelow(t, key)
         IN /\ r # Null => r \in D[t.head] /\ Key(t, r) <= key
            /\ Sorted(t, D) => \A x \in D[t.head] : Key(t, x) <= key => r # Null /\ Key(t, x) <= Key(t, r)
  <1> USE DEF Shape
  <1>1. PICK w : /\ findBelow(t, key) = w[<<t.head, Null>>]
                 /\ \A c, best \in ChildLinks(t) :
                      w[<<c, best>>] = IF c = Null THEN best
                                       ELSE IF key = Key(t, c) THEN c
                                       ELSE IF key > Key(t, c) THEN w[<<Child(t, c, TRUE), c>>]
                                       ELSE w[<<Child(t, c, FALSE), best>>]
    BY BelowWalk
  <1> DEFINE Misses(n) == Sorted(t, D) => \A x \in D[n] : ~(Key(t, x) <= key)
             Hits(n, r) ==
               /\ r \in D[n]
               /\ Key(t, r) <= key
               /\ Sorted(t, D) => \A x \in D[n] : Key(t, x) <= key => Key(t, x) <= Key(t, r)
             Fits(n, best) ==
               \/ w[<<n, best>>] = best /\ Misses(n)
               \/ Hits(n, w[<<n, best>>])
             Q == {n \in ChildLinks(t) : n \in D[t.head] \cup {Null} =>
                                          \A best \in ChildLinks(t) : Fits(n, best)}
  <1>2. Null \in ChildLinks(t) /\ D[Null] = {}
    BY DEF Linked, ChildLinks
  <1>3. Null \in Q
    BY <1>1, <1>2
  <1>4. \A n \in DOMAIN t.node : Key(t, n) \in Nat /\ n # Null
    BY TreeTyped
  <1>5. \A c \in ChildLinks(t) : D[c] \subseteq DOMAIN t.node
    BY DEF Linked
  <1>6. ASSUME NEW n \in DOMAIN t.node, \A s \in BOOLEAN : Child(t, n, s) \in Q
        PROVE  n \in Q
    <2> SUFFICES ASSUME n \in D[t.head], NEW best \in ChildLinks(t)
                 PROVE  Fits(n, best)
      BY <1>4 DEF ChildLinks
    <2> DEFINE lo == Child(t, n, FALSE)
               hi == Child(t, n, TRUE)
    <2>1. /\ n \in ChildLinks(t) /\ n \in D[n]
          /\ lo \in ChildLinks(t) /\ D[lo] \subseteq D[n] /\ (lo # Null => lo \in D[t.head])
          /\ hi \in ChildLinks(t) /\ D[hi] \subseteq D[n] /\ (hi # Null => hi \in D[t.head])
      BY HeldChild DEF ChildLinks, Linked
    <2>2. \A x \in D[n] : x = n \/ x \in D[lo] \/ x \in D[hi]
      BY DEF Branching
    <2>3. /\ Sorted(t, D) => \A x \in D[lo] : Key(t, x) < Key(t, n)
          /\ Sorted(t, D) => \A x \in D[hi] : Key(t, n) < Key(t, x)
      BY DEF Sorted
    <2>4. Fits(lo, best) /\ Fits(hi, n)
      BY <1>6, <2>1
    <2>5. w[<<n, best>>] = IF key = Key(t, n) THEN n
                           ELSE IF key > Key(t, n) THEN w[<<hi, n>>] ELSE w[<<lo, best>>]
      BY <1>1, <1>4, <2>1
    <2> HIDE DEF lo, hi
    <2>6. \A x \in D[n] : Key(t, x) \in Nat
      BY <1>4, <1>5, <2>1
    <2>7. CASE key = Key(t, n)
      <3>1. w[<<n, best>>] = n
        BY <2>5, <2>7
      <3>2. Hits(n, n)
        BY <1>4, <2>1, <2>6, <2>7
      <3> QED
        BY <3>1, <3>2
    <2>8. CASE key # Key(t, n) /\ key > Key(t, n)
      <3>1. w[<<n, best>>] = w[<<hi, n>>]
        BY <2>5, <2>8
      <3>2. CASE w[<<hi, n>>] = n /\ Misses(hi)
        <4>1. Hits(n, n)
          BY <1>4, <2>1, <2>2, <2>3, <2>6, <2>8, <3>2
        <4> QED
          BY <3>1, <3>2, <4>1
      <3>3. CASE Hits(hi, w[<<hi, n>>])
        <4> DEFINE r == w[<<hi, n>>]
        <4> HIDE DEF r
        <4>1. Hits(hi, r)
          BY <3>3 DEF r
        <4>2. ASSUME Sorted(t, D), NEW x \in D[n], Key(t, x) <= key
              PROVE  Key(t, x) <= Key(t, r)
          <5>1. Key(t, n) < Key(t, r) /\ Key(t, r) \in Nat /\ Key(t, x) \in Nat /\ Key(t, n) \in Nat
            BY <1>4, <2>1, <2>3, <2>6, <4>1, <4>2
          <5>2. x \in D[lo] => Key(t, x) < Key(t, n)
            BY <2>3, <4>2
          <5>3. x \in D[hi] => Key(t, x) <= Key(t, r)
            BY <4>1, <4>2
          <5> QED
            BY <2>2, <5>1, <5>2, <5>3
        <4>3. Hits(n, r)
          BY <2>1, <4>1, <4>2
        <4> QED
          BY <3>1, <4>3 DEF r
      <3> QED
        BY <2>4, <3>2, <3>3
    <2>9. CASE key # Key(t, n) /\ ~(key > Key(t, n))
      <3>1. w[<<n, best>>] = w[<<lo, best>>]
        BY <2>5, <2>9
      <3>2. ASSUME Sorted(t, D), NEW x \in D[n], Key(t, x) <= key
            PROVE  x \in D[lo]
        <4>1. Key(t, x) \in Nat /\ Key(t, n) \in Nat
          BY <1>4, <2>6
        <4>2. x \in D[hi] => Key(t, n) < Key(t, x)
          BY <2>3, <3>2
        <4> QED
          BY <2>2, <2>9, <3>2, <4>1, <4>2
      <3>3. CASE w[<<lo, best>>] = best /\ Misses(lo)
        <4>1. Misses(n)
          BY <3>2, <3>3
        <4> QED
          BY <3>1, <3>3, <4>1
      <3>4. CASE Hits(lo, w[<<lo, best>>])
        <4> DEFINE r == w[<<lo, best>>]
        <4> HIDE DEF r
        <4>1. Hits(lo, r)
          BY <3>4 DEF r
        <4>2. Hits(n, r)
          BY <2>1, <3>2, <4>1
        <4> QED
          BY <3>1, <4>2 DEF r
      <3> QED
        BY <2>4, <3>3, <3>4
    <2> QED
      BY <2>7, <2>8, <2>9
  <1>7. \A c \in ChildLinks(t) : c \in Q
    <2> HIDE DEF Q
    <2> QED
      BY <1>3, <1>6, UpInduct
  <1>8. t.head \in ChildLinks(t) /\ t.head \in D[t.head] \cup {Null}
    BY DEF Linked, ChildLinks
  <1>9. Fits(t.head, Null)
    BY <1>2, <1>7, <1>8
  <1> DEFINE r == findBelow(t, key)
  <1>10. (r = Null /\ Misses(t.head)) \/ Hits(t.head, r)
    BY <1>1, <1>9
  <1>11. D[t.head] \subseteq DOMAIN t.node
    BY <1>5, <1>8
  <1>12. Hits(t.head, r) => r # Null
    BY <1>4, <1>11
  <1> HIDE DEF r
  <1>13. r # Null => r \in D[t.head] /\ Key(t, r) <= key
    BY <1>10
  <1>14. Sorted(t, D) => \A x \in D[t.head] : Key(t, x) <= key => r # Null /\ Key(t, x) <= Key(t, r)
    BY <1>10, <1>12
  <1> QED
    BY <1>13, <1>14 DEF r

(* The same, looking upwards.                                              *)
LEMMA FindAboveIs ==
  ASSUME NEW t \in TreeRec, NEW D, Shape(t, D), NEW key \in Nat
  PROVE  LET r == findAbove(t, key)
         IN /\ r # Null => r \in D[t.head] /\ Key(t, r) >= key
            /\ Sorted(t, D) => \A x \in D[t.head] : Key(t, x) >= key => r # Null /\ Key(t, x) >= Key(t, r)
  <1> USE DEF Shape
  <1>1. PICK w : /\ findAbove(t, key) = w[<<t.head, Null>>]
                 /\ \A c, best \in ChildLinks(t) :
                      w[<<c, best>>] = IF c = Null THEN best
                                       ELSE IF key = Key(t, c) THEN c
                                       ELSE IF key < Key(t, c) THEN w[<<Child(t, c, FALSE), c>>]
                                       ELSE w[<<Child(t, c, TRUE), best>>]
    BY AboveWalk
  <1> DEFINE Misses(n) == Sorted(t, D) => \A x \in D[n] : ~(Key(t, x) >= key)
             Hits(n, r) ==
               /\ r \in D[n]
               /\ Key(t, r) >= key
               /\ Sorted(t, D) => \A x \in D[n] : Key(t, x) >= key => Key(t, x) >= Key(t, r)
             Fits(n, best) ==
               \/ w[<<n, best>>] = best /\ Misses(n)
               \/ Hits(n, w[<<n, best>>])
             Q == {n \in ChildLinks(t) : n \in D[t.head] \cup {Null} =>
                                          \A best \in ChildLinks(t) : Fits(n, best)}
  <1>2. Null \in ChildLinks(t) /\ D[Null] = {}
    BY DEF Linked, ChildLinks
  <1>3. Null \in Q
    BY <1>1, <1>2
  <1>4. \A n \in DOMAIN t.node : Key(t, n) \in Nat /\ n # Null
    BY TreeTyped
  <1>5. \A c \in ChildLinks(t) : D[c] \subseteq DOMAIN t.node
    BY DEF Linked
  <1>6. ASSUME NEW n \in DOMAIN t.node, \A s \in BOOLEAN : Child(t, n, s) \in Q
        PROVE  n \in Q
    <2> SUFFICES ASSUME n \in D[t.head], NEW best \in ChildLinks(t)
                 PROVE  Fits(n, best)
      BY <1>4 DEF ChildLinks
    <2> DEFINE lo == Child(t, n, TRUE)
               hi == Child(t, n, FALSE)
    <2>1. /\ n \in ChildLinks(t) /\ n \in D[n]
          /\ lo \in ChildLinks(t) /\ D[lo] \subseteq D[n] /\ (lo # Null => lo \in D[t.head])
          /\ hi \in ChildLinks(t) /\ D[hi] \subseteq D[n] /\ (hi # Null => hi \in D[t.head])
      BY HeldChild DEF ChildLinks, Linked
    <2>2. \A x \in D[n] : x = n \/ x \in D[lo] \/ x \in D[hi]
      BY DEF Branching
    <2>3. /\ Sorted(t, D) => \A x \in D[lo] : Key(t, x) > Key(t, n)
          /\ Sorted(t, D) => \A x \in D[hi] : Key(t, n) > Key(t, x)
      BY DEF Sorted
    <2>4. Fits(lo, best) /\ Fits(hi, n)
      BY <1>6, <2>1
    <2>5. w[<<n, best>>] = IF key = Key(t, n) THEN n
                           ELSE IF key < Key(t, n) THEN w[<<hi, n>>] ELSE w[<<lo, best>>]
      BY <1>1, <1>4, <2>1
    <2> HIDE DEF lo, hi
    <2>6. \A x \in D[n] : Key(t, x) \in Nat
      BY <1>4, <1>5, <2>1
    <2>7. CASE key = Key(t, n)
      <3>1. w[<<n, best>>] = n
        BY <2>5, <2>7
      <3>2. Hits(n, n)
        BY <1>4, <2>1, <2>6, <2>7
      <3> QED
        BY <3>1, <3>2
    <2>8. CASE key # Key(t, n) /\ key < Key(t, n)
      <3>1. w[<<n, best>>] = w[<<hi, n>>]
        BY <2>5, <2>8
      <3>2. CASE w[<<hi, n>>] = n /\ Misses(hi)
        <4>1. Hits(n, n)
          BY <1>4, <2>1, <2>2, <2>3, <2>6, <2>8, <3>2
        <4> QED
          BY <3>1, <3>2, <4>1
      <3>3. CASE Hits(hi, w[<<hi, n>>])
        <4> DEFINE r == w[<<hi, n>>]
        <4> HIDE DEF r
        <4>1. Hits(hi, r)
          BY <3>3 DEF r
        <4>2. ASSUME Sorted(t, D), NEW x \in D[n], Key(t, x) >= key
              PROVE  Key(t, x) >= Key(t, r)
          <5>1. Key(t, n) > Key(t, r) /\ Key(t, r) \in Nat /\ Key(t, x) \in Nat /\ Key(t, n) \in Nat
            BY <1>4, <2>1, <2>3, <2>6, <4>1, <4>2
          <5>2. x \in D[lo] => Key(t, x) > Key(t, n)
            BY <2>3, <4>2
          <5>3. x \in D[hi] => Key(t, x) >= Key(t, r)
            BY <4>1, <4>2
          <5> QED
            BY <2>2, <5>1, <5>2, <5>3
        <4>3. Hits(n, r)
          BY <2>1, <4>1, <4>2
        <4> QED
          BY <3>1, <4>3 DEF r
      <3> QED
        BY <2>4, <3>2, <3>3
    <2>9. CASE key # Key(t, n) /\ ~(key < Key(t, n))
      <3>1. w[<<n, best>>] = w[<<lo, best>>]
        BY <2>5, <2>9
      <3>2. ASSUME Sorted(t, D), NEW x \in D[n], Key(t, x) >= key
            PROVE  x \in D[lo]
        <4>1. Key(t, x) \in Nat /\ Key(t, n) \in Nat
          BY <1>4, <2>6
        <4>2. x \in D[hi] => Key(t, n) > Key(t, x)
          BY <2>3, <3>2
        <4> QED
          BY <2>2, <2>9, <3>2, <4>1, <4>2
      <3>3. CASE w[<<lo, best>>] = best /\ Misses(lo)
        <4>1. Misses(n)
          BY <3>2, <3>3
        <4> QED
          BY <3>1, <3>3, <4>1
      <3>4. CASE Hits(lo, w[<<lo, best>>])
        <4> DEFINE r == w[<<lo, best>>]
        <4> HIDE DEF r
        <4>1. Hits(lo, r)
          BY <3>4 DEF r
        <4>2. Hits(n, r)
          BY <2>1, <3>2, <4>1
        <4> QED
          BY <3>1, <4>2 DEF r
      <3> QED
        BY <2>4, <3>3, <3>4
    <2> QED
      BY <2>7, <2>8, <2>9
  <1>7. \A c \in ChildLinks(t) : c \in Q
    <2> HIDE DEF Q
    <2> QED
      BY <1>3, <1>6, UpInduct
  <1>8. t.head \in ChildLinks(t) /\ t.head \in D[t.head] \cup {Null}
    BY DEF Linked, ChildLinks
  <1>9. Fits(t.head, Null)
    BY <1>2, <1>7, <1>8
  <1> DEFINE r == findAbove(t, key)
  <1>10. (r = Null /\ Misses(t.head)) \/ Hits(t.head, r)
    BY <1>1, <1>9
  <1>11. D[t.head] \subseteq DOMAIN t.node
    BY <1>5, <1>8
  <1>12. Hits(t.head, r) => r # Null
    BY <1>4, <1>11
  <1> HIDE DEF r
  <1>13. r # Null => r \in D[t.head] /\ Key(t, r) >= key
    BY <1>10
  <1>14. Sorted(t, D) => \A x \in D[t.head] : Key(t, x) >= key => r # Null /\ Key(t, x) >= Key(t, r)
    BY <1>10, <1>12
  <1> QED
    BY <1>13, <1>14 DEF r

-----------------------------------------------------------------------------
(***************************************************************************)
(* Insertion: the new node is hung below a leaf, and the nodes about it    *)
(* are perhaps rotated.                                                    *)
(***************************************************************************)

(* The two sides of a node alike.                                          *)
Beyond(s, a, b) == IF s THEN b < a ELSE a < b

LEMMA BeyondIs ==
  /\ \A s \in BOOLEAN, a, b, c \in Nat : Beyond(s, a, b) /\ Beyond(s, b, c) => Beyond(s, a, c)
  /\ \A s \in BOOLEAN, a, b \in Nat : Beyond(~s, a, b) <=> Beyond(s, b, a)
  BY DEF Beyond

LEMMA SortedSides ==
  ASSUME NEW t, NEW D
  PROVE  Sorted(t, D) <=> \A n \in D[t.head], s \in BOOLEAN : \A x \in D[Child(t, n, s)] :
                            Beyond(s, Key(t, x), Key(t, n))
  <1>1. ASSUME Sorted(t, D), NEW n \in D[t.head], NEW s \in BOOLEAN, NEW x \in D[Child(t, n, s)]
        PROVE  Beyond(s, Key(t, x), Key(t, n))
    <2>1. CASE s = TRUE
      BY <1>1, <2>1 DEF Sorted, Beyond
    <2>2. CASE s = FALSE
      BY <1>1, <2>2 DEF Sorted, Beyond
    <2> QED
      BY <2>1, <2>2
  <1>2. ASSUME \A n \in D[t.head], s \in BOOLEAN : \A x \in D[Child(t, n, s)] :
                 Beyond(s, Key(t, x), Key(t, n))
        PROVE  Sorted(t, D)
    <2>1. ASSUME NEW n \in D[t.head], NEW x \in D[Child(t, n, FALSE)]
          PROVE  Key(t, x) < Key(t, n)
      BY <1>2, <2>1 DEF Beyond
    <2>2. ASSUME NEW n \in D[t.head], NEW x \in D[Child(t, n, TRUE)]
          PROVE  Key(t, n) < Key(t, x)
      BY <1>2, <2>2 DEF Beyond
    <2> QED
      BY <2>1, <2>2 DEF Sorted
  <1> QED
    BY <1>1, <1>2

LEMMA BranchingSides ==
  ASSUME NEW t, NEW D
  PROVE  Branching(t, D) <=> \A n \in D[t.head], s \in BOOLEAN :
           /\ \A x \in D[n] : x = n \/ x \in D[Child(t, n, s)] \/ x \in D[Child(t, n, ~s)]
           /\ \A x \in D[Child(t, n, s)] : x \notin D[Child(t, n, ~s)]
  <1>1. ASSUME Branching(t, D), NEW n \in D[t.head], NEW s \in BOOLEAN
        PROVE  /\ \A x \in D[n] : x = n \/ x \in D[Child(t, n, s)] \/ x \in D[Child(t, n, ~s)]
               /\ \A x \in D[Child(t, n, s)] : x \notin D[Child(t, n, ~s)]
    <2>1. CASE s = TRUE
      BY <1>1, <2>1 DEF Branching
    <2>2. CASE s = FALSE
      BY <1>1, <2>2 DEF Branching
    <2> QED
      BY <2>1, <2>2
  <1>2. ASSUME \A n \in D[t.head], s \in BOOLEAN :
                 /\ \A x \in D[n] : x = n \/ x \in D[Child(t, n, s)] \/ x \in D[Child(t, n, ~s)]
                 /\ \A x \in D[Child(t, n, s)] : x \notin D[Child(t, n, ~s)]
        PROVE  Branching(t, D)
    <2>1. (~FALSE) = TRUE /\ FALSE \in BOOLEAN
      OBVIOUS
    <2> QED
      BY <1>2, <2>1 DEF Branching
  <1> QED
    BY <1>1, <1>2

(* u is t with the new node below p.                                       *)
Hung(t, u, p, right) ==
  LET new == Len(t.node) + 1
  IN /\ DOMAIN u.node = DOMAIN t.node \cup {new}
     /\ Len(u.node) = new
     /\ new \notin DOMAIN t.node /\ new # Null
     /\ u.head = t.head
     /\ \A m \in DOMAIN t.node : u.node[m].value = t.node[m].value
     /\ \A s \in BOOLEAN : Child(u, new, s) = Null
     /\ \A m \in DOMAIN t.node, s \in BOOLEAN :
          Child(u, m, s) = IF m = p /\ s = right THEN new ELSE Child(t, m, s)

HungBelow(t, D, p) ==
  LET new == Len(t.node) + 1
  IN [c \in ChildLinks(t) \cup {new} |->
        IF c = new THEN {new} ELSE IF p \in D[c] THEN D[c] \cup {new} ELSE D[c]]

LEMMA HangShape ==
  ASSUME NEW t \in TreeRec, NEW u \in TreeRec, NEW D, Shape(t, D),
         NEW p \in D[t.head], NEW right \in BOOLEAN, Child(t, p, right) = Null, Hung(t, u, p, right)
  PROVE  /\ Shape(u, HungBelow(t, D, p))
         /\ HungBelow(t, D, p)[u.head] = D[t.head] \cup {Len(t.node) + 1}
  <1> USE DEF Shape
  <1> DEFINE new == Len(t.node) + 1
             E == HungBelow(t, D, p)
  <1>1. /\ DOMAIN u.node = DOMAIN t.node \cup {new}
        /\ new \notin DOMAIN t.node /\ new # Null
        /\ u.head = t.head
        /\ \A s \in BOOLEAN : Child(u, new, s) = Null
        /\ \A m \in DOMAIN t.node, s \in BOOLEAN :
             Child(u, m, s) = IF m = p /\ s = right THEN new ELSE Child(t, m, s)
    BY DEF Hung
  <1>2. ChildLinks(u) = ChildLinks(t) \cup {new}
    BY <1>1 DEF ChildLinks
  <1>3. /\ E = [c \in ChildLinks(u) |->
                  IF c = new THEN {new} ELSE IF p \in D[c] THEN D[c] \cup {new} ELSE D[c]]
        /\ E[new] = {new}
        /\ \A c \in ChildLinks(t) : E[c] = IF p \in D[c] THEN D[c] \cup {new} ELSE D[c]
    <2>1. new \notin ChildLinks(t)
      BY <1>1 DEF ChildLinks
    <2> QED
      BY <1>2, <2>1 DEF HungBelow
  <1>4. p \in DOMAIN t.node /\ p \in D[p] /\ t.head \in DOMAIN t.node /\ t.head \in ChildLinks(t)
    BY HeldChild DEF Linked, ChildLinks
  <1>5. /\ D \in [ChildLinks(t) -> SUBSET DOMAIN t.node]
        /\ D[Null] = {} /\ Null \in ChildLinks(t) /\ DOMAIN t.node \subseteq ChildLinks(t)
        /\ \A c \in ChildLinks(t) : new \notin D[c]
    BY <1>1 DEF Linked, ChildLinks
  <1>6. /\ \A x : x \in E[new] <=> x = new
        /\ \A c \in ChildLinks(t) : \A x : x \in E[c] <=> x \in D[c] \/ (x = new /\ p \in D[c])
    BY <1>3
  <1> HIDE DEF E, new
  <1>20. E \in [ChildLinks(u) -> SUBSET DOMAIN u.node]
    BY <1>1, <1>2, <1>3, <1>5
  <1>7. E[Null] = {}
    BY <1>6, <1>5
  <1>8. \A n \in DOMAIN u.node : n \in E[n]
    BY <1>1, <1>6, <1>5 DEF Linked
  <1>9. ASSUME NEW n \in DOMAIN u.node, NEW x \in E[n]
        PROVE  E[x] \subseteq E[n]
    <2>1. CASE n = new
      BY <1>6, <1>9, <2>1
    <2>2. CASE n # new /\ x = new
      BY <1>6, <1>9, <2>2
    <2>3. CASE n # new /\ x # new
      <3>1. n \in DOMAIN t.node /\ x \in D[n]
        BY <1>1, <1>6, <1>5, <1>9, <2>3
      <3>2. x \in DOMAIN t.node /\ D[x] \subseteq D[n]
        BY <1>5, <3>1 DEF Linked
      <3> QED
        BY <1>6, <1>5, <3>1, <3>2
    <2> QED
      BY <2>1, <2>2, <2>3
  <1>10. ASSUME NEW n \in DOMAIN u.node, NEW s \in BOOLEAN
         PROVE  Child(u, n, s) \in ChildLinks(u) /\ E[Child(u, n, s)] \subseteq E[n] /\ n \notin E[Child(u, n, s)]
    <2>1. CASE n = new
      BY <1>1, <1>2, <1>5, <1>7, <2>1
    <2>2. CASE n = p /\ s = right
      <3>1. Child(u, n, s) = new /\ new \in ChildLinks(u)
        BY <1>1, <1>2, <1>4, <2>2
      <3>2. new \in E[n] /\ n # new
        BY <1>1, <1>6, <1>4, <1>5, <2>2
      <3> QED
        BY <1>6, <3>1, <3>2
    <2>3. CASE n # new /\ ~(n = p /\ s = right)
      <3> DEFINE c == Child(t, n, s)
      <3>1. n \in DOMAIN t.node /\ Child(u, n, s) = c
        BY <1>1, <2>3
      <3>2. c \in ChildLinks(t) /\ D[c] \subseteq D[n] /\ n \notin D[c]
        BY <3>1 DEF Linked
      <3> HIDE DEF c
      <3>3. E[c] \subseteq E[n] /\ n \notin E[c]
        BY <1>6, <1>5, <2>3, <3>1, <3>2
      <3> QED
        BY <1>2, <3>1, <3>2, <3>3
    <2> QED
      BY <2>1, <2>2, <2>3
  <1>11. Linked(u, E)
    BY <1>1, <1>2, <1>4, <1>20, <1>7, <1>8, <1>9, <1>10 DEF Linked
  <1>12. E[u.head] = D[t.head] \cup {new}
    BY <1>1, <1>3, <1>4
  <1>13. ASSUME NEW n \in E[u.head], NEW s \in BOOLEAN
         PROVE  /\ \A x \in E[n] : x = n \/ x \in E[Child(u, n, s)] \/ x \in E[Child(u, n, ~s)]
                /\ \A x \in E[Child(u, n, s)] : x \notin E[Child(u, n, ~s)]
    <2>1. CASE n = new
      BY <1>1, <1>6, <1>7, <2>1
    <2>2. CASE n # new
      <3>1. n \in D[t.head] /\ n \in DOMAIN t.node
        BY <1>5, <1>4, <1>12, <2>2
      <3> DEFINE c == Child(t, n, s)
                 d == Child(t, n, ~s)
      <3>2. /\ \A x \in D[n] : x = n \/ x \in D[c] \/ x \in D[d]
            /\ \A x \in D[c] : x \notin D[d]
        BY <3>1, BranchingSides
      <3>3. /\ c \in ChildLinks(t) /\ D[c] \subseteq D[n] /\ n \notin D[c]
            /\ d \in ChildLinks(t) /\ D[d] \subseteq D[n] /\ n \notin D[d]
        BY <3>1 DEF Linked
      <3> DEFINE c2 == Child(u, n, s)
                 d2 == Child(u, n, ~s)
      <3>4. CASE n = p
        <4>1. CASE s = right
          <5>1. c2 = new /\ d2 = d /\ c = Null
            BY <1>1, <1>4, <3>4, <4>1
          <5> HIDE DEF c, d, c2, d2
          <5>2. E[d] = D[d] /\ E[n] = D[n] \cup {new} /\ D[c] = {}
            BY <1>3, <1>4, <1>5, <3>3, <3>4, <5>1
          <5>3. /\ \A x \in E[n] : x = n \/ x \in E[c2] \/ x \in E[d2]
                /\ \A x \in E[c2] : x \notin E[d2]
            BY <1>6, <1>5, <3>2, <3>3, <5>1, <5>2
          <5> QED
            BY <5>3 DEF c2, d2
        <4>2. CASE s # right
          <5>1. (~s) = right
            BY <4>2
          <5>2. d2 = new /\ c2 = c /\ d = Null
            BY <1>1, <1>4, <3>4, <5>1
          <5> HIDE DEF c, d, c2, d2
          <5>3. E[c] = D[c] /\ E[n] = D[n] \cup {new} /\ D[d] = {}
            BY <1>3, <1>4, <1>5, <3>3, <3>4, <5>2
          <5>4. /\ \A x \in E[n] : x = n \/ x \in E[c2] \/ x \in E[d2]
                /\ \A x \in E[c2] : x \notin E[d2]
            BY <1>6, <1>5, <3>2, <3>3, <5>2, <5>3
          <5> QED
            BY <5>4 DEF c2, d2
        <4> QED
          BY <4>1, <4>2
      <3>5. CASE n # p
        <4>1. c2 = c /\ d2 = d
          BY <1>1, <3>1, <3>5
        <4> HIDE DEF c, d, c2, d2
        <4>2. p \in D[n] => p \in D[c] \/ p \in D[d]
          BY <3>2, <3>5
        <4>3. /\ \A x \in E[n] : x = n \/ x \in E[c2] \/ x \in E[d2]
              /\ \A x \in E[c2] : x \notin E[d2]
          BY <1>6, <1>5, <3>1, <3>2, <3>3, <4>1, <4>2
        <4> QED
          BY <4>3 DEF c2, d2
      <3> QED
        BY <3>4, <3>5
    <2> QED
      BY <2>1, <2>2
  <1>14. Branching(u, E)
    BY <1>13, BranchingSides
  <1> QED
    BY <1>11, <1>12, <1>14 DEF E, new

LEMMA HangSorted ==
  ASSUME NEW t \in TreeRec, NEW u \in TreeRec, NEW D, Shape(t, D), Sorted(t, D), NEW key \in Nat,
         NEW p \in D[t.head], NEW right \in BOOLEAN, right <=> GoesRight(t, p, key),
         Child(t, p, right) = Null, Hung(t, u, p, right),
         Key(u, Len(t.node) + 1) = key, \A x \in D[t.head] : Key(t, x) # key,
         \A a \in D[t.head] : p \in D[a] => a = p \/ p \in D[Child(t, a, GoesRight(t, a, key))]
  PROVE  Sorted(u, HungBelow(t, D, p))
  <1> DEFINE new == Len(t.node) + 1
             E == HungBelow(t, D, p)
  <1>1. /\ DOMAIN u.node = DOMAIN t.node \cup {new}
        /\ new \notin DOMAIN t.node /\ new # Null
        /\ u.head = t.head
        /\ \A s \in BOOLEAN : Child(u, new, s) = Null
        /\ \A m \in DOMAIN t.node, s \in BOOLEAN :
             Child(u, m, s) = IF m = p /\ s = right THEN new ELSE Child(t, m, s)
        /\ \A m \in DOMAIN t.node : Key(u, m) = Key(t, m)
    BY DEF Hung, Key
  <1>2. /\ D \in [ChildLinks(t) -> SUBSET DOMAIN t.node]
        /\ D[Null] = {} /\ Null \in ChildLinks(t)
        /\ \A c \in ChildLinks(t) : new \notin D[c]
        /\ t.head \in ChildLinks(t)
    BY <1>1 DEF Linked, ChildLinks, Shape
  <1>3. /\ \A x : x \in E[new] <=> x = new
        /\ \A c \in ChildLinks(t) : \A x : x \in E[c] <=> x \in D[c] \/ (x = new /\ p \in D[c])
        /\ E[Null] = {}
    <2>1. new \notin ChildLinks(t)
      BY <1>1 DEF ChildLinks
    <2> QED
      BY <1>2, <2>1 DEF HungBelow
  <1>4. E[u.head] = D[t.head] \cup {new}
    BY HangShape
  <1>5. \A m \in D[t.head] : m \in DOMAIN t.node /\ Key(t, m) \in Nat
    BY <1>2, TreeTyped
  <1>6. \A m \in D[t.head] : IF GoesRight(t, m, key) THEN Key(t, m) < key ELSE key < Key(t, m)
    BY <1>5 DEF GoesRight
  <1> HIDE DEF E, new
  <1> SUFFICES ASSUME NEW n \in E[u.head], NEW s \in BOOLEAN, NEW x \in E[Child(u, n, s)]
               PROVE  Beyond(s, Key(u, x), Key(u, n))
    BY SortedSides DEF E
  <1>7. n # new
    BY <1>1, <1>3
  <1>8. n \in D[t.head] /\ n \in DOMAIN t.node
    BY <1>4, <1>5, <1>7
  <1> DEFINE c == Child(t, n, s)
  <1>9. c \in ChildLinks(t) /\ D[c] \subseteq D[n] /\ D[n] \subseteq D[t.head]
    BY <1>8, HeldChild
  <1>10. CASE n = p /\ s = right
    <2>1. x = new
      BY <1>1, <1>3, <1>8, <1>10
    <2>2. Key(u, x) = key /\ Key(u, n) = Key(t, n)
      BY <1>1, <1>8, <2>1 DEF new
    <2> QED
      BY <1>6, <1>8, <1>10, <2>2 DEF Beyond
  <1>11. CASE ~(n = p /\ s = right)
    <2>1. Child(u, n, s) = c
      BY <1>1, <1>8, <1>11
    <2>2. x \in D[c] \/ (x = new /\ p \in D[c])
      BY <1>3, <1>9, <2>1
    <2>3. CASE x \in D[c]
      <3>1. Beyond(s, Key(t, x), Key(t, n))
        BY <1>8, <2>3, SortedSides
      <3>2. x \in DOMAIN t.node
        BY <1>2, <1>9, <2>3
      <3> QED
        BY <1>1, <1>8, <3>1, <3>2
    <2>4. CASE x = new /\ p \in D[c]
      <3>1. p \in D[n] /\ n # p
        <4>1. p \in DOMAIN t.node /\ p \notin D[Child(t, p, s)]
          BY <1>5 DEF Shape, Linked
        <4> QED
          BY <1>9, <2>4, <4>1
      <3> DEFINE gr == GoesRight(t, n, key)
      <3>2. gr \in BOOLEAN
        BY DEF GoesRight
      <3>3. p \in D[Child(t, n, gr)]
        BY <1>8, <3>1
      <3> HIDE DEF gr
      <3>4. gr = s
        <4>1. \A y \in D[Child(t, n, s)] : y \notin D[Child(t, n, ~s)]
          BY <1>8, BranchingSides DEF Shape
        <4>2. gr # s => gr = ~s
          BY <3>2
        <4> QED
          BY <2>4, <3>3, <4>1, <4>2
      <3>5. Key(u, x) = key /\ Key(u, n) = Key(t, n)
        BY <1>1, <1>8, <2>4 DEF new
      <3>6. IF gr THEN Key(t, n) < key ELSE key < Key(t, n)
        BY <1>6, <1>8 DEF gr
      <3> QED
        BY <3>4, <3>5, <3>6 DEF Beyond
    <2> QED
      BY <2>2, <2>3, <2>4
  <1> QED
    BY <1>10, <1>11

(* v is u with p, the child of g on this side, moved above g to the root.  *)
RotatedOnce(u, v, p, g, right) ==
  /\ SameNodes(u, v)
  /\ v.head = p
  /\ \A m \in DOMAIN u.node, s \in BOOLEAN :
       Child(v, m, s) = IF m = g /\ s = right THEN Child(u, p, ~right)
                        ELSE IF m = p /\ s = ~right THEN g
                        ELSE Child(u, m, s)

BelowOnce(u, D, p, g, right) ==
  [c \in ChildLinks(u) |->
     IF c = p THEN D[g]
     ELSE IF c = g THEN {g} \cup D[Child(u, g, ~right)] \cup D[Child(u, p, ~right)]
     ELSE IF c = Null \/ c \in D[g] THEN D[c]
     ELSE D[c] \cup D[g]]

LEMMA RotateOnceShape ==
  ASSUME NEW u \in TreeRec, NEW v \in TreeRec, NEW D, Shape(u, D),
         NEW g \in D[u.head], NEW right \in BOOLEAN, NEW p \in DOMAIN u.node,
         Child(u, g, right) = p, RotatedOnce(u, v, p, g, right)
  PROVE  LET E == BelowOnce(u, D, p, g, right)
         IN /\ Shape(v, E)
            /\ E[v.head] = D[g]
            /\ Sorted(u, D) => Sorted(v, E)
  <1> DEFINE E == BelowOnce(u, D, p, g, right)
             X == D[g]
             a == Child(u, p, ~right)
             b == Child(u, p, right)
             k == Child(u, g, ~right)
  <1>1. /\ DOMAIN v.node = DOMAIN u.node /\ ChildLinks(v) = ChildLinks(u)
        /\ v.head = p
        /\ \A m \in DOMAIN u.node, s \in BOOLEAN :
             Child(v, m, s) = IF m = g /\ s = right THEN a
                              ELSE IF m = p /\ s = ~right THEN g
                              ELSE Child(u, m, s)
        /\ \A m \in DOMAIN u.node : Key(v, m) = Key(u, m)
    BY DEF RotatedOnce, SameNodes, ChildLinks, Key
  <1>2. /\ D \in [ChildLinks(u) -> SUBSET DOMAIN u.node]
        /\ D[Null] = {} /\ Null \in ChildLinks(u) /\ DOMAIN u.node \subseteq ChildLinks(u)
        /\ Null \notin DOMAIN u.node
        /\ \A c \in ChildLinks(u) : c = Null \/ c \in D[c]
        /\ \A c \in ChildLinks(u) : \A x \in D[c] : x \in DOMAIN u.node /\ D[x] \subseteq D[c]
        /\ \A m \in DOMAIN u.node, s \in BOOLEAN :
             Child(u, m, s) \in ChildLinks(u) /\ D[Child(u, m, s)] \subseteq D[m] /\ m \notin D[Child(u, m, s)]
    <2>1. Null \notin DOMAIN u.node
      BY TreeTyped
    <2> QED
      BY <2>1 DEF Shape, Linked, ChildLinks
  <1>3. g \in DOMAIN u.node /\ X \subseteq D[u.head] /\ (~right) \in BOOLEAN
    BY HeldChild
  <1>4. /\ g \in X /\ p \in D[p] /\ D[p] \subseteq X /\ g \notin D[p] /\ p # g /\ p \in X
        /\ k \in ChildLinks(u) /\ D[k] \subseteq X /\ g \notin D[k]
        /\ a \in ChildLinks(u) /\ D[a] \subseteq D[p] /\ p \notin D[a]
        /\ b \in ChildLinks(u) /\ D[b] \subseteq D[p] /\ p \notin D[b]
    BY <1>2, <1>3
  <1>5. /\ \A x \in X : x = g \/ x \in D[p] \/ x \in D[k]
        /\ \A x \in D[p] : x \notin D[k]
        /\ \A x \in D[p] : x = p \/ x \in D[b] \/ x \in D[a]
        /\ \A x \in D[b] : x \notin D[a]
    <2>1. p \in D[u.head]
      BY <1>3, <1>4
    <2> QED
      BY <2>1, <1>3, BranchingSides DEF Shape
  <1>6. E = [c \in ChildLinks(u) |-> IF c = p THEN X
                                     ELSE IF c = g THEN {g} \cup D[k] \cup D[a]
                                     ELSE IF c = Null \/ c \in X THEN D[c] ELSE D[c] \cup X]
    BY DEF BelowOnce
  <1>11. X \subseteq DOMAIN u.node /\ \A x \in X : D[x] \subseteq X
    BY <1>2, <1>3
  <1> HIDE DEF a, b, k, E, X
  <1>7. /\ E[p] = X
        /\ E[g] = {g} \cup D[k] \cup D[a]
        /\ E[Null] = {}
        /\ \A c \in X : c # p /\ c # g => E[c] = D[c]
        /\ \A c \in DOMAIN u.node : c \notin X => E[c] = D[c] \cup X
    BY <1>2, <1>3, <1>4, <1>6, <1>11
  <1>8. \A c \in ChildLinks(u) : c # p /\ c # g /\ c \in X \cup {Null} => E[c] = D[c]
    BY <1>2, <1>7
  <1>9. /\ a # p /\ a # g /\ a \in X \cup {Null} /\ E[a] = D[a]
        /\ b # p /\ b # g /\ b \in X \cup {Null} /\ E[b] = D[b]
        /\ k # p /\ k # g /\ k \in X \cup {Null} /\ E[k] = D[k]
    <2>1. a \in X \cup {Null} /\ b \in X \cup {Null} /\ k \in X \cup {Null}
      BY <1>2, <1>4
    <2>2. /\ a # Null => a \in D[a]
          /\ b # Null => b \in D[b]
          /\ k # Null => k \in D[k]
          /\ p # Null /\ g # Null
      BY <1>2, <1>3, <1>4
    <2>3. a # p /\ a # g /\ b # p /\ b # g /\ k # p /\ k # g
      BY <1>4, <1>5, <2>2
    <2> QED
      BY <1>4, <1>8, <2>1, <2>3
  <1>10. \A x \in X : E[x] \subseteq X
    BY <1>4, <1>7, <1>11
  <1>12. ASSUME NEW n \in X, n # p, n # g
         PROVE  /\ E[n] = D[n]
                /\ \A x \in D[n] : x \in X /\ x # p /\ x # g /\ E[x] = D[x]
                /\ \A s \in BOOLEAN : /\ Child(v, n, s) = Child(u, n, s)
                                      /\ E[Child(u, n, s)] = D[Child(u, n, s)]
    <2>1. n \in DOMAIN u.node
      BY <1>11
    <2>2. n \in D[a] \/ n \in D[b] \/ n \in D[k]
      BY <1>5, <1>12
    <2>3. D[n] \subseteq D[a] \/ D[n] \subseteq D[b] \/ D[n] \subseteq D[k]
      BY <1>2, <1>4, <2>2
    <2>4. \A x \in D[n] : x \in X /\ x # p /\ x # g
      BY <1>4, <1>5, <2>3
    <2>5. \A x \in D[n] : E[x] = D[x]
      BY <1>7, <2>4
    <2>6. \A s \in BOOLEAN : Child(u, n, s) = Null \/ Child(u, n, s) \in D[n]
      BY <1>2, <2>1
    <2>7. \A s \in BOOLEAN : E[Child(u, n, s)] = D[Child(u, n, s)]
      BY <1>2, <1>7, <2>5, <2>6
    <2> QED
      BY <1>1, <1>7, <1>12, <2>1, <2>4, <2>5, <2>7
  <1>13. /\ Child(v, p, right) = b /\ Child(v, p, ~right) = g
         /\ Child(v, g, right) = a /\ Child(v, g, ~right) = k
    <2>1. right # ~right
      OBVIOUS
    <2> QED
      BY <1>1, <1>3, <1>4, <2>1 DEF a, b, k
  <1>14. ASSUME NEW n \in DOMAIN u.node
         PROVE  n \in E[n] /\ \A x \in E[n] : E[x] \subseteq E[n]
    <2>1. CASE n = p
      BY <1>4, <1>7, <1>10, <2>1
    <2>2. CASE n = g
      <3>1. ASSUME NEW x \in E[g]
            PROVE  E[x] \subseteq E[g]
        <4>1. x = g \/ x \in D[k] \/ x \in D[a]
          BY <1>7
        <4>2. x # g => E[x] = D[x] /\ (D[x] \subseteq D[k] \/ D[x] \subseteq D[a])
          <5>1. x # g => x \in X /\ x # p
            BY <1>4, <1>5, <4>1
          <5> QED
            BY <1>2, <1>4, <1>7, <4>1, <5>1
        <4> QED
          BY <1>7, <4>2
      <3> QED
        BY <1>7, <2>2, <3>1
    <2>3. CASE n \in X /\ n # p /\ n # g
      BY <1>2, <1>12, <2>3
    <2>4. CASE n \notin X
      <3>1. E[n] = D[n] \cup X
        BY <1>7, <2>4
      <3>2. ASSUME NEW x \in D[n], x \notin X
            PROVE  E[x] \subseteq E[n]
        <4>1. x \in DOMAIN u.node /\ D[x] \subseteq D[n]
          BY <1>2
        <4> QED
          BY <1>7, <3>1, <3>2, <4>1
      <3> QED
        BY <1>2, <1>10, <3>1, <3>2
    <2> QED
      BY <2>1, <2>2, <2>3, <2>4
  <1>15. ASSUME NEW n \in DOMAIN u.node, NEW s \in BOOLEAN
         PROVE  Child(v, n, s) \in ChildLinks(u) /\ E[Child(v, n, s)] \subseteq E[n] /\ n \notin E[Child(v, n, s)]
    <2>1. s = right \/ s = ~right
      OBVIOUS
    <2>2. CASE n = p
      <3>1. Child(v, n, s) = b \/ Child(v, n, s) = g
        BY <1>13, <2>1, <2>2
      <3>2. b \in ChildLinks(u) /\ E[b] \subseteq E[p] /\ p \notin E[b]
        BY <1>4, <1>7, <1>9
      <3>3. g \in ChildLinks(u) /\ E[g] \subseteq E[p] /\ p \notin E[g]
        BY <1>2, <1>3, <1>4, <1>5, <1>7
      <3> QED
        BY <2>2, <3>1, <3>2, <3>3
    <2>3. CASE n = g
      <3>1. Child(v, n, s) = a \/ Child(v, n, s) = k
        BY <1>13, <2>1, <2>3
      <3> QED
        BY <1>4, <1>7, <1>9, <2>3, <3>1
    <2>4. CASE n \in X /\ n # p /\ n # g
      <3>1. Child(v, n, s) = Child(u, n, s) /\ E[n] = D[n] /\ E[Child(u, n, s)] = D[Child(u, n, s)]
        BY <1>12, <2>4
      <3> QED
        BY <1>2, <3>1
    <2>5. CASE n \notin X
      <3> DEFINE c == Child(u, n, s)
      <3>1. Child(v, n, s) = c /\ E[n] = D[n] \cup X
        BY <1>1, <1>4, <1>7, <2>5
      <3>2. c \in ChildLinks(u) /\ D[c] \subseteq D[n] /\ n \notin D[c]
        BY <1>2
      <3> HIDE DEF c
      <3>3. c \in X => E[c] \subseteq X
        BY <1>10
      <3>4. c = Null => E[c] = {}
        BY <1>7
      <3>5. c \notin X /\ c # Null => E[c] = D[c] \cup X
        BY <1>7, <3>2 DEF ChildLinks
      <3> QED
        BY <2>5, <3>1, <3>2, <3>3, <3>4, <3>5
    <2> QED
      BY <2>2, <2>3, <2>4, <2>5
  <1>16. E \in [ChildLinks(u) -> SUBSET DOMAIN u.node]
    BY <1>2, <1>4, <1>6, <1>11
  <1>17. Linked(v, E)
    BY <1>1, <1>2, <1>7, <1>14, <1>15, <1>16 DEF Linked
  <1>18. Branching(v, E)
    <2> SUFFICES ASSUME NEW n \in X
                 PROVE  \E s \in BOOLEAN :
                          /\ \A x \in E[n] : x = n \/ x \in E[Child(v, n, s)] \/ x \in E[Child(v, n, ~s)]
                          /\ \A x \in E[Child(v, n, s)] : x \notin E[Child(v, n, ~s)]
      <3>1. E[v.head] = X
        BY <1>1, <1>7
      <3>2. ASSUME NEW n \in X, NEW s \in BOOLEAN,
                   \A x \in E[n] : x = n \/ x \in E[Child(v, n, s)] \/ x \in E[Child(v, n, ~s)],
                   \A x \in E[Child(v, n, s)] : x \notin E[Child(v, n, ~s)]
            PROVE  /\ \A x \in E[n] : x = n \/ x \in E[Child(v, n, FALSE)] \/ x \in E[Child(v, n, TRUE)]
                   /\ \A x \in E[Child(v, n, FALSE)] : x \notin E[Child(v, n, TRUE)]
        <4>1. CASE s = TRUE
          BY <3>2, <4>1
        <4>2. CASE s = FALSE
          BY <3>2, <4>2
        <4> QED
          BY <4>1, <4>2
      <3> QED
        BY <3>1, <3>2 DEF Branching
    <2>1. CASE n = p
      <3>1. /\ \A x \in E[p] : x = p \/ x \in E[b] \/ x \in E[g]
            /\ \A x \in E[b] : x \notin E[g]
        BY <1>4, <1>5, <1>7, <1>9
      <3> QED
        BY <1>13, <2>1, <3>1
    <2>2. CASE n = g
      <3>1. /\ \A x \in E[g] : x = g \/ x \in E[a] \/ x \in E[k]
            /\ \A x \in E[a] : x \notin E[k]
        BY <1>4, <1>5, <1>7, <1>9
      <3> QED
        BY <1>13, <2>2, <3>1
    <2>3. CASE n # p /\ n # g
      <3>1. /\ \A x \in D[n] : x = n \/ x \in D[Child(u, n, right)] \/ x \in D[Child(u, n, ~right)]
            /\ \A x \in D[Child(u, n, right)] : x \notin D[Child(u, n, ~right)]
        BY <1>3, BranchingSides DEF Shape
      <3>2. /\ E[n] = D[n]
            /\ Child(v, n, right) = Child(u, n, right) /\ E[Child(u, n, right)] = D[Child(u, n, right)]
            /\ Child(v, n, ~right) = Child(u, n, ~right) /\ E[Child(u, n, ~right)] = D[Child(u, n, ~right)]
        BY <1>3, <1>12, <2>3
      <3>3. /\ \A x \in E[n] : x = n \/ x \in E[Child(v, n, right)] \/ x \in E[Child(v, n, ~right)]
            /\ \A x \in E[Child(v, n, right)] : x \notin E[Child(v, n, ~right)]
        BY <3>1, <3>2
      <3> QED
        BY <3>3
    <2> QED
      BY <2>1, <2>2, <2>3
  <1>19. ASSUME Sorted(u, D)
         PROVE  Sorted(v, E)
    <2>1. \A n \in D[u.head], s \in BOOLEAN : \A x \in D[Child(u, n, s)] : Beyond(s, Key(u, x), Key(u, n))
      BY <1>19, SortedSides
    <2>2. \A x \in X : Key(v, x) = Key(u, x) /\ Key(u, x) \in Nat
      BY <1>1, <1>11, TreeTyped
    <2>3. p \in D[u.head]
      BY <1>3, <1>4
    <2>4. /\ \A x \in D[p] : Beyond(right, Key(u, x), Key(u, g))
          /\ \A x \in D[k] : Beyond(~right, Key(u, x), Key(u, g))
          /\ \A x \in D[a] : Beyond(~right, Key(u, x), Key(u, p))
          /\ \A x \in D[b] : Beyond(right, Key(u, x), Key(u, p))
      BY <1>3, <2>1, <2>3 DEF a, b, k
    <2>5. Beyond(right, Key(u, p), Key(u, g)) /\ Beyond(~right, Key(u, g), Key(u, p))
      BY <1>4, <2>2, <2>4, BeyondIs
    <2>6. \A x \in D[k] : Beyond(~right, Key(u, x), Key(u, p))
      BY <1>3, <1>4, <2>2, <2>4, <2>5, BeyondIs
    <2> SUFFICES ASSUME NEW n \in X, NEW s \in BOOLEAN, NEW x \in E[Child(v, n, s)]
                 PROVE  Beyond(s, Key(u, x), Key(u, n))
      <3>1. E[v.head] = X
        BY <1>1, <1>7
      <3>2. \A n \in X, s \in BOOLEAN : \A x \in E[Child(v, n, s)] : x \in X
        <4>1. \A n \in X, s \in BOOLEAN : E[Child(v, n, s)] \subseteq E[n]
          BY <1>11, <1>15
        <4> QED
          BY <1>10, <4>1
      <3> QED
        BY <2>2, <3>1, <3>2, SortedSides
    <2>7. s = right \/ s = ~right
      OBVIOUS
    <2>8. CASE n = p
      <3>1. CASE s = right
        BY <1>9, <1>13, <2>4, <2>8, <3>1
      <3>2. CASE s = ~right
        <4>1. x \in E[g]
          BY <1>13, <2>8, <3>2
        <4>2. x = g \/ x \in D[k] \/ x \in D[a]
          BY <1>7, <4>1
        <4> QED
          BY <2>4, <2>5, <2>6, <2>8, <3>2, <4>2
      <3> QED
        BY <2>7, <3>1, <3>2
    <2>9. CASE n = g
      <3>1. CASE s = right
        BY <1>4, <1>9, <1>13, <2>4, <2>9, <3>1
      <3>2. CASE s = ~right
        BY <1>9, <1>13, <2>4, <2>9, <3>2
      <3> QED
        BY <2>7, <3>1, <3>2
    <2>10. CASE n # p /\ n # g
      <3>1. x \in D[Child(u, n, s)]
        BY <1>12, <2>10
      <3> QED
        BY <1>3, <2>1, <3>1
    <2> QED
      BY <2>8, <2>9, <2>10
  <1>20. E[v.head] = D[g]
    BY <1>1, <1>7 DEF X
  <1> QED
    BY <1>17, <1>18, <1>19, <1>20 DEF Shape, E

(* v is u with the leaf x moved above its parent p and the parent g of p,  *)
(* on the other side of which p lies, to the root.                         *)
RotatedTwice(u, v, x, p, g, right) ==
  /\ SameNodes(u, v)
  /\ v.head = x
  /\ \A m \in DOMAIN u.node, s \in BOOLEAN :
       Child(v, m, s) = IF m = p /\ s = right THEN Null
                        ELSE IF m = g /\ s = ~right THEN Null
                        ELSE IF m = x THEN (IF s = right THEN g ELSE p)
                        ELSE Child(u, m, s)

BelowTwice(u, D, x, p, g, right) ==
  [c \in ChildLinks(u) |->
     IF c = x THEN D[g]
     ELSE IF c = p THEN {p} \cup D[Child(u, p, ~right)]
     ELSE IF c = g THEN {g} \cup D[Child(u, g, right)]
     ELSE IF c = Null \/ c \in D[g] THEN D[c]
     ELSE D[c] \cup D[g]]

LEMMA RotateTwiceShape ==
  ASSUME NEW u \in TreeRec, NEW v \in TreeRec, NEW D, Shape(u, D),
         NEW g \in D[u.head], NEW right \in BOOLEAN, NEW p \in DOMAIN u.node, NEW x \in DOMAIN u.node,
         Child(u, g, ~right) = p, Child(u, p, right) = x, \A s \in BOOLEAN : Child(u, x, s) = Null,
         RotatedTwice(u, v, x, p, g, right)
  PROVE  LET E == BelowTwice(u, D, x, p, g, right)
         IN /\ Shape(v, E)
            /\ E[v.head] = D[g]
            /\ Sorted(u, D) => Sorted(v, E)
  <1> DEFINE E == BelowTwice(u, D, x, p, g, right)
             X == D[g]
             a == Child(u, p, ~right)
             k == Child(u, g, right)
  <1>1. /\ DOMAIN v.node = DOMAIN u.node /\ ChildLinks(v) = ChildLinks(u)
        /\ v.head = x
        /\ \A m \in DOMAIN u.node, s \in BOOLEAN :
             Child(v, m, s) = IF m = p /\ s = right THEN Null
                              ELSE IF m = g /\ s = ~right THEN Null
                              ELSE IF m = x THEN (IF s = right THEN g ELSE p)
                              ELSE Child(u, m, s)
        /\ \A m \in DOMAIN u.node : Key(v, m) = Key(u, m)
    BY DEF RotatedTwice, SameNodes, ChildLinks, Key
  <1>2. /\ D \in [ChildLinks(u) -> SUBSET DOMAIN u.node]
        /\ D[Null] = {} /\ Null \in ChildLinks(u) /\ DOMAIN u.node \subseteq ChildLinks(u)
        /\ Null \notin DOMAIN u.node
        /\ \A c \in ChildLinks(u) : c = Null \/ c \in D[c]
        /\ \A c \in ChildLinks(u) : \A y \in D[c] : y \in DOMAIN u.node /\ D[y] \subseteq D[c]
        /\ \A m \in DOMAIN u.node, s \in BOOLEAN :
             Child(u, m, s) \in ChildLinks(u) /\ D[Child(u, m, s)] \subseteq D[m] /\ m \notin D[Child(u, m, s)]
    <2>1. Null \notin DOMAIN u.node
      BY TreeTyped
    <2> QED
      BY <2>1 DEF Shape, Linked, ChildLinks
  <1>3. g \in DOMAIN u.node /\ X \subseteq D[u.head] /\ (~right) \in BOOLEAN
    BY HeldChild
  <1>4. /\ g \in X /\ p \in D[p] /\ D[p] \subseteq X /\ g \notin D[p] /\ p # g /\ p \in X
        /\ x \in D[x] /\ D[x] \subseteq D[p] /\ p \notin D[x] /\ x # p /\ x # g /\ x \in X /\ x \in D[p]
        /\ k \in ChildLinks(u) /\ D[k] \subseteq X /\ g \notin D[k]
        /\ a \in ChildLinks(u) /\ D[a] \subseteq D[p] /\ p \notin D[a]
    <2>1. g \in X /\ p \in D[p] /\ x \in D[x]
      BY <1>2, <1>3
    <2>2. D[p] \subseteq X /\ g \notin D[p]
      BY <1>2, <1>3
    <2>3. D[x] \subseteq D[p] /\ p \notin D[x]
      BY <1>2
    <2>4. k \in ChildLinks(u) /\ D[k] \subseteq X /\ g \notin D[k]
      BY <1>2, <1>3
    <2>5. a \in ChildLinks(u) /\ D[a] \subseteq D[p] /\ p \notin D[a]
      BY <1>2, <1>3
    <2> HIDE DEF X, a, k
    <2> QED
      BY <2>1, <2>2, <2>3, <2>4, <2>5
  <1>5. /\ \A y \in X : y = g \/ y \in D[p] \/ y \in D[k]
        /\ \A y \in D[p] : y \notin D[k]
        /\ \A y \in D[p] : y = p \/ y \in D[x] \/ y \in D[a]
        /\ \A y \in D[x] : y \notin D[a]
        /\ \A y \in D[x] : y = x
    <2>1. p \in D[u.head] /\ x \in D[u.head]
      BY <1>3, <1>4
    <2>2. /\ \A y \in D[p] : y = p \/ y \in D[x] \/ y \in D[a]
          /\ \A y \in D[x] : y \notin D[a]
      BY <2>1, BranchingSides DEF Shape
    <2>3. /\ \A y \in X : y = g \/ y \in D[p] \/ y \in D[k]
          /\ \A y \in D[k] : y \notin D[p]
      BY BranchingSides DEF Shape
    <2>4. \A y \in D[x] : y = x \/ y \in D[Child(u, x, FALSE)] \/ y \in D[Child(u, x, TRUE)]
      BY <2>1 DEF Shape, Branching
    <2>5. \A y \in D[x] : y = x
      BY <1>2, <2>4
    <2> QED
      BY <2>2, <2>3, <2>5
  <1>6. E = [c \in ChildLinks(u) |-> IF c = x THEN X
                                     ELSE IF c = p THEN {p} \cup D[a]
                                     ELSE IF c = g THEN {g} \cup D[k]
                                     ELSE IF c = Null \/ c \in X THEN D[c] ELSE D[c] \cup X]
    BY DEF BelowTwice
  <1>7. X \subseteq DOMAIN u.node /\ \A y \in X : D[y] \subseteq X
    BY <1>2, <1>3
  <1> HIDE DEF a, k, E, X
  <1>8. /\ E[x] = X
        /\ E[p] = {p} \cup D[a]
        /\ E[g] = {g} \cup D[k]
        /\ E[Null] = {}
        /\ \A c \in X : c # x /\ c # p /\ c # g => E[c] = D[c]
        /\ \A c \in DOMAIN u.node : c \notin X => E[c] = D[c] \cup X
    BY <1>2, <1>3, <1>4, <1>6, <1>7
  <1>9. E[a] = D[a] /\ E[k] = D[k]
    <2>1. a \in X \cup {Null} /\ k \in X \cup {Null}
      BY <1>2, <1>4
    <2>2. /\ a # Null => a \in D[a]
          /\ k # Null => k \in D[k]
          /\ p # Null /\ g # Null /\ x # Null
      BY <1>2, <1>3, <1>4
    <2>3. a # p /\ a # g /\ a # x /\ k # p /\ k # g /\ k # x
      BY <1>4, <1>5, <2>2
    <2> QED
      BY <1>2, <1>8, <2>1, <2>3
  <1>10. \A y \in X : E[y] \subseteq X
    BY <1>4, <1>7, <1>8
  <1>11. ASSUME NEW n \in X, n # x, n # p, n # g
         PROVE  /\ E[n] = D[n]
                /\ \A y \in D[n] : y \in X /\ y # x /\ y # p /\ y # g /\ E[y] = D[y]
                /\ \A s \in BOOLEAN : /\ Child(v, n, s) = Child(u, n, s)
                                      /\ E[Child(u, n, s)] = D[Child(u, n, s)]
    <2>1. n \in DOMAIN u.node
      BY <1>7
    <2>2. n \in D[a] \/ n \in D[k]
      BY <1>5, <1>11
    <2>3. D[n] \subseteq D[a] \/ D[n] \subseteq D[k]
      BY <1>2, <1>4, <2>2
    <2>4. \A y \in D[n] : y \in X /\ y # x /\ y # p /\ y # g
      BY <1>4, <1>5, <2>3
    <2>5. \A y \in D[n] : E[y] = D[y]
      BY <1>8, <2>4
    <2>6. \A s \in BOOLEAN : Child(u, n, s) = Null \/ Child(u, n, s) \in D[n]
      BY <1>2, <2>1
    <2>7. \A s \in BOOLEAN : E[Child(u, n, s)] = D[Child(u, n, s)]
      <3> SUFFICES ASSUME NEW s \in BOOLEAN
                   PROVE  E[Child(u, n, s)] = D[Child(u, n, s)]
        OBVIOUS
      <3>1. D[Null] = {} /\ E[Null] = {}
        BY <1>2, <1>8
      <3> QED
        BY <2>5, <2>6, <3>1
    <2> QED
      BY <1>1, <1>8, <1>11, <2>1, <2>4, <2>5, <2>7
  <1>12. /\ Child(v, x, right) = g /\ Child(v, x, ~right) = p
         /\ Child(v, p, right) = Null /\ Child(v, p, ~right) = a
         /\ Child(v, g, right) = k /\ Child(v, g, ~right) = Null
    <2>1. right # ~right
      OBVIOUS
    <2> QED
      BY <1>1, <1>3, <1>4, <2>1 DEF a, k
  <1>13. ASSUME NEW n \in DOMAIN u.node
         PROVE  n \in E[n] /\ \A y \in E[n] : E[y] \subseteq E[n]
    <2>1. CASE n = x
      BY <1>4, <1>8, <1>10, <2>1
    <2>2. CASE n = p
      <3>1. ASSUME NEW y \in D[a]
            PROVE  E[y] \subseteq D[a]
        <4>1. y \in X /\ y # p /\ y # g /\ y # x
          BY <1>4, <1>5
        <4> QED
          BY <1>2, <1>4, <1>8, <4>1
      <3> QED
        BY <1>8, <2>2, <3>1
    <2>3. CASE n = g
      <3>1. ASSUME NEW y \in D[k]
            PROVE  E[y] \subseteq D[k]
        <4>1. y \in X /\ y # p /\ y # g /\ y # x
          BY <1>4, <1>5
        <4> QED
          BY <1>2, <1>4, <1>8, <4>1
      <3> QED
        BY <1>8, <2>3, <3>1
    <2>4. CASE n \in X /\ n # x /\ n # p /\ n # g
      BY <1>2, <1>11, <2>4
    <2>5. CASE n \notin X
      <3>1. E[n] = D[n] \cup X
        BY <1>8, <2>5
      <3>2. ASSUME NEW y \in D[n], y \notin X
            PROVE  E[y] \subseteq E[n]
        <4>1. y \in DOMAIN u.node /\ D[y] \subseteq D[n]
          BY <1>2
        <4> QED
          BY <1>8, <3>1, <3>2, <4>1
      <3> QED
        BY <1>2, <1>10, <3>1, <3>2
    <2> QED
      BY <2>1, <2>2, <2>3, <2>4, <2>5
  <1>14. ASSUME NEW n \in DOMAIN u.node, NEW s \in BOOLEAN
         PROVE  Child(v, n, s) \in ChildLinks(u) /\ E[Child(v, n, s)] \subseteq E[n] /\ n \notin E[Child(v, n, s)]
    <2>1. s = right \/ s = ~right
      OBVIOUS
    <2>2. CASE n = x
      <3>1. Child(v, n, s) = g \/ Child(v, n, s) = p
        BY <1>12, <2>1, <2>2
      <3>2. p \in ChildLinks(u) /\ E[p] \subseteq E[x] /\ x \notin E[p]
        BY <1>2, <1>4, <1>5, <1>8
      <3>3. g \in ChildLinks(u) /\ E[g] \subseteq E[x] /\ x \notin E[g]
        BY <1>2, <1>3, <1>4, <1>5, <1>8
      <3> QED
        BY <2>2, <3>1, <3>2, <3>3
    <2>3. CASE n = p
      <3>1. Child(v, n, s) = Null \/ Child(v, n, s) = a
        BY <1>12, <2>1, <2>3
      <3> QED
        BY <1>2, <1>4, <1>8, <1>9, <2>3, <3>1
    <2>4. CASE n = g
      <3>1. Child(v, n, s) = Null \/ Child(v, n, s) = k
        BY <1>12, <2>1, <2>4
      <3> QED
        BY <1>2, <1>4, <1>8, <1>9, <2>4, <3>1
    <2>5. CASE n \in X /\ n # x /\ n # p /\ n # g
      <3>1. Child(v, n, s) = Child(u, n, s) /\ E[n] = D[n] /\ E[Child(u, n, s)] = D[Child(u, n, s)]
        BY <1>11, <2>5
      <3> QED
        BY <1>2, <3>1
    <2>6. CASE n \notin X
      <3> DEFINE c == Child(u, n, s)
      <3>1. Child(v, n, s) = c /\ E[n] = D[n] \cup X
        BY <1>1, <1>4, <1>8, <2>6
      <3>2. c \in ChildLinks(u) /\ D[c] \subseteq D[n] /\ n \notin D[c]
        BY <1>2
      <3> HIDE DEF c
      <3>3. c \in X => E[c] \subseteq X
        BY <1>10
      <3>4. c = Null => E[c] = {}
        BY <1>8
      <3>5. c \notin X /\ c # Null => E[c] = D[c] \cup X
        BY <1>8, <3>2 DEF ChildLinks
      <3> QED
        BY <2>6, <3>1, <3>2, <3>3, <3>4, <3>5
    <2> QED
      BY <2>2, <2>3, <2>4, <2>5, <2>6
  <1>15. E \in [ChildLinks(u) -> SUBSET DOMAIN u.node]
    BY <1>2, <1>4, <1>6, <1>7
  <1>16. Linked(v, E)
    BY <1>1, <1>2, <1>8, <1>13, <1>14, <1>15 DEF Linked
  <1>17. Branching(v, E)
    <2> SUFFICES ASSUME NEW n \in X
                 PROVE  \E s \in BOOLEAN :
                          /\ \A y \in E[n] : y = n \/ y \in E[Child(v, n, s)] \/ y \in E[Child(v, n, ~s)]
                          /\ \A y \in E[Child(v, n, s)] : y \notin E[Child(v, n, ~s)]
      <3>1. E[v.head] = X
        BY <1>1, <1>8
      <3>2. ASSUME NEW n \in X, NEW s \in BOOLEAN,
                   \A y \in E[n] : y = n \/ y \in E[Child(v, n, s)] \/ y \in E[Child(v, n, ~s)],
                   \A y \in E[Child(v, n, s)] : y \notin E[Child(v, n, ~s)]
            PROVE  /\ \A y \in E[n] : y = n \/ y \in E[Child(v, n, FALSE)] \/ y \in E[Child(v, n, TRUE)]
                   /\ \A y \in E[Child(v, n, FALSE)] : y \notin E[Child(v, n, TRUE)]
        <4>1. CASE s = TRUE
          BY <3>2, <4>1
        <4>2. CASE s = FALSE
          BY <3>2, <4>2
        <4> QED
          BY <4>1, <4>2
      <3> QED
        BY <3>1, <3>2 DEF Branching
    <2>1. CASE n = x
      <3>1. /\ \A y \in E[x] : y = x \/ y \in E[g] \/ y \in E[p]
            /\ \A y \in E[g] : y \notin E[p]
        BY <1>4, <1>5, <1>8, <1>9
      <3> QED
        BY <1>12, <2>1, <3>1
    <2>2. CASE n = p
      <3>1. /\ \A y \in E[p] : y = p \/ y \in E[Null] \/ y \in E[a]
            /\ \A y \in E[Null] : y \notin E[a]
        BY <1>8, <1>9
      <3> QED
        BY <1>12, <2>2, <3>1
    <2>3. CASE n = g
      <3>1. /\ \A y \in E[g] : y = g \/ y \in E[k] \/ y \in E[Null]
            /\ \A y \in E[k] : y \notin E[Null]
        BY <1>8, <1>9
      <3> QED
        BY <1>12, <2>3, <3>1
    <2>4. CASE n # x /\ n # p /\ n # g
      <3>1. /\ \A y \in D[n] : y = n \/ y \in D[Child(u, n, right)] \/ y \in D[Child(u, n, ~right)]
            /\ \A y \in D[Child(u, n, right)] : y \notin D[Child(u, n, ~right)]
        BY <1>3, BranchingSides DEF Shape
      <3>2. /\ E[n] = D[n]
            /\ Child(v, n, right) = Child(u, n, right) /\ E[Child(u, n, right)] = D[Child(u, n, right)]
            /\ Child(v, n, ~right) = Child(u, n, ~right) /\ E[Child(u, n, ~right)] = D[Child(u, n, ~right)]
        BY <1>3, <1>11, <2>4
      <3>3. /\ \A y \in E[n] : y = n \/ y \in E[Child(v, n, right)] \/ y \in E[Child(v, n, ~right)]
            /\ \A y \in E[Child(v, n, right)] : y \notin E[Child(v, n, ~right)]
        BY <3>1, <3>2
      <3> QED
        BY <3>3
    <2> QED
      BY <2>1, <2>2, <2>3, <2>4
  <1>18. ASSUME Sorted(u, D)
         PROVE  Sorted(v, E)
    <2>1. \A n \in D[u.head], s \in BOOLEAN : \A y \in D[Child(u, n, s)] : Beyond(s, Key(u, y), Key(u, n))
      BY <1>18, SortedSides
    <2>2. \A y \in X : Key(v, y) = Key(u, y) /\ Key(u, y) \in Nat
      BY <1>1, <1>7, TreeTyped
    <2>3. p \in D[u.head]
      BY <1>3, <1>4
    <2>4. /\ \A y \in D[p] : Beyond(~right, Key(u, y), Key(u, g))
          /\ \A y \in D[k] : Beyond(right, Key(u, y), Key(u, g))
          /\ \A y \in D[a] : Beyond(~right, Key(u, y), Key(u, p))
          /\ \A y \in D[x] : Beyond(right, Key(u, y), Key(u, p))
      BY <1>3, <2>1, <2>3 DEF a, k
    <2>5. Beyond(right, Key(u, g), Key(u, x)) /\ Beyond(~right, Key(u, p), Key(u, x))
      BY <1>4, <2>2, <2>4, BeyondIs
    <2>6. \A y \in D[k] : Beyond(right, Key(u, y), Key(u, x))
      BY <1>3, <1>4, <2>2, <2>4, <2>5, BeyondIs
    <2>7. \A y \in D[a] : Beyond(~right, Key(u, y), Key(u, x))
      BY <1>3, <1>4, <2>2, <2>4, <2>5, BeyondIs
    <2> SUFFICES ASSUME NEW n \in X, NEW s \in BOOLEAN, NEW y \in E[Child(v, n, s)]
                 PROVE  Beyond(s, Key(u, y), Key(u, n))
      <3>1. E[v.head] = X
        BY <1>1, <1>8
      <3>2. \A n \in X, s \in BOOLEAN : \A y \in E[Child(v, n, s)] : y \in X
        <4>1. \A n \in X, s \in BOOLEAN : E[Child(v, n, s)] \subseteq E[n]
          BY <1>7, <1>14
        <4> QED
          BY <1>10, <4>1
      <3> QED
        BY <2>2, <3>1, <3>2, SortedSides
    <2>8. s = right \/ s = ~right
      OBVIOUS
    <2>9. CASE n = x
      <3>1. CASE s = right
        <4>1. y = g \/ y \in D[k]
          BY <1>8, <1>12, <2>9, <3>1
        <4> QED
          BY <2>5, <2>6, <2>9, <3>1, <4>1
      <3>2. CASE s = ~right
        <4>1. y = p \/ y \in D[a]
          BY <1>8, <1>12, <2>9, <3>2
        <4> QED
          BY <2>5, <2>7, <2>9, <3>2, <4>1
      <3> QED
        BY <2>8, <3>1, <3>2
    <2>10. CASE n = p
      <3>1. CASE s = right
        BY <1>8, <1>12, <2>10, <3>1
      <3>2. CASE s = ~right
        BY <1>9, <1>12, <2>4, <2>10, <3>2
      <3> QED
        BY <2>8, <3>1, <3>2
    <2>11. CASE n = g
      <3>1. CASE s = right
        BY <1>9, <1>12, <2>4, <2>11, <3>1
      <3>2. CASE s = ~right
        BY <1>8, <1>12, <2>11, <3>2
      <3> QED
        BY <2>8, <3>1, <3>2
    <2>12. CASE n # x /\ n # p /\ n # g
      <3>1. y \in D[Child(u, n, s)]
        BY <1>11, <2>12
      <3> QED
        BY <1>3, <2>1, <3>1
    <2> QED
      BY <2>9, <2>10, <2>11, <2>12
  <1>19. E[v.head] = D[g]
    BY <1>1, <1>8 DEF X
  <1> QED
    BY <1>16, <1>17, <1>18, <1>19 DEF Shape, E


(***************************************************************************)
(* insert.                                                                 *)
(***************************************************************************)

(* The trees differ in colours and values only.                            *)
Alike(u, v) ==
  /\ DOMAIN v.node = DOMAIN u.node
  /\ Len(v.node) = Len(u.node)
  /\ v.head = u.head
  /\ \A m \in DOMAIN u.node, s \in BOOLEAN : Child(v, m, s) = Child(u, m, s)

LEMMA AlikeShape ==
  ASSUME NEW u, NEW v, NEW D, Shape(u, D), Alike(u, v)
  PROVE  /\ Shape(v, D)
         /\ (\A m \in DOMAIN u.node : Key(v, m) = Key(u, m)) /\ Sorted(u, D) => Sorted(v, D)
  <1>1. /\ DOMAIN v.node = DOMAIN u.node /\ ChildLinks(v) = ChildLinks(u) /\ v.head = u.head
        /\ \A m \in DOMAIN u.node, s \in BOOLEAN : Child(v, m, s) = Child(u, m, s)
    BY DEF Alike, ChildLinks
  <1>2. Linked(u, D) /\ Branching(u, D)
    BY DEF Shape
  <1>3. Linked(v, D)
    BY <1>1, <1>2 DEF Linked
  <1>4. D[u.head] \subseteq DOMAIN u.node
    BY <1>2 DEF Linked
  <1>5. Branching(v, D)
    BY <1>1, <1>2, <1>4 DEF Branching
  <1>6. ASSUME \A m \in DOMAIN u.node : Key(v, m) = Key(u, m), Sorted(u, D)
        PROVE  Sorted(v, D)
    <2>1. \A n \in D[u.head], s \in BOOLEAN : D[Child(u, n, s)] \subseteq DOMAIN u.node
      BY <1>2, <1>4 DEF Linked
    <2>2. \A n \in D[u.head], s \in BOOLEAN : \A x \in D[Child(u, n, s)] : Beyond(s, Key(u, x), Key(u, n))
      BY <1>6, SortedSides
    <2>3. \A n \in D[v.head], s \in BOOLEAN : \A x \in D[Child(v, n, s)] : Beyond(s, Key(v, x), Key(v, n))
      BY <1>1, <1>4, <1>6, <2>1, <2>2
    <2> QED
      BY <2>3, SortedSides
  <1> QED
    BY <1>3, <1>5, <1>6 DEF Shape

LEMMA HangIs ==
  ASSUME NEW t \in TreeRec, NEW obj \in TagRec, NEW col \in BOOLEAN,
         NEW p \in DOMAIN t.node, NEW right \in BOOLEAN
  PROVE  LET new == Len(t.node) + 1
             u == SetChild(NewNode(t, obj, col), p, right, new)
         IN /\ u \in TreeRec
            /\ Hung(t, u, p, right)
            /\ u.dead = t.dead
            /\ u.node[new].value = obj
            /\ IsRed(u, new) <=> col
            /\ \A m \in DOMAIN t.node : IsRed(u, m) <=> IsRed(t, m)
  <1> DEFINE new == Len(t.node) + 1
             w == NewNode(t, obj, col)
             u == SetChild(w, p, right, new)
  <1>1. /\ w \in TreeRec
        /\ Len(w.node) = new
        /\ DOMAIN w.node = DOMAIN t.node \cup {new}
        /\ new \notin DOMAIN t.node /\ new \in Nat /\ new # Null
        /\ w.head = t.head
        /\ w.dead = t.dead
        /\ w.node[new].value = obj
        /\ \A m \in DOMAIN t.node : w.node[m].value = t.node[m].value
        /\ IsRed(w, new) <=> col
        /\ \A m \in DOMAIN t.node : IsRed(w, m) <=> IsRed(t, m)
        /\ \A s \in BOOLEAN : Child(w, new, s) = Null
        /\ \A m \in DOMAIN t.node, s \in BOOLEAN : Child(w, m, s) = Child(t, m, s)
    BY NewNodeIs
  <1> HIDE DEF w, new
  <1>2. /\ u \in TreeRec
        /\ SameNodes(w, u)
        /\ u.head = w.head
        /\ u.dead = w.dead
        /\ \A m \in DOMAIN w.node : IsRed(u, m) <=> IsRed(w, m)
        /\ \A m \in DOMAIN w.node, s \in BOOLEAN :
             Child(u, m, s) = IF m = p /\ s = right THEN new ELSE Child(w, m, s)
    BY <1>1, SetChildIs
  <1> HIDE DEF u
  <1>3. Hung(t, u, p, right)
    BY <1>1, <1>2 DEF Hung, SameNodes, new
  <1> QED
    BY <1>1, <1>2, <1>3 DEF SameNodes, u, w, new

LEMMA RotateOnceIs ==
  ASSUME NEW u \in TreeRec, NEW p \in DOMAIN u.node, NEW g \in DOMAIN u.node, p # g, NEW right \in BOOLEAN
  PROVE  LET v == RotateOnce(u, p, g, right)
         IN /\ v \in TreeRec
            /\ RotatedOnce(u, v, p, g, right)
            /\ v.dead = u.dead
            /\ ~IsRed(v, p) /\ IsRed(v, g)
            /\ \A m \in DOMAIN u.node : m # p /\ m # g => (IsRed(v, m) <=> IsRed(u, m))
  <1> DEFINE left == ~right
             c == Child(u, p, left)
             t1 == SetChild(u, g, right, c)
             t2 == SetChild(t1, p, left, g)
             t3 == SetCol(t2, p, FALSE)
             t4 == SetCol(t3, g, TRUE)
             v == SetHead(t4, p)
  <1>1. v = RotateOnce(u, p, g, right)
    BY DEF RotateOnce, SetHead
  <1>2. c \in Nat /\ left \in BOOLEAN /\ p \in Nat /\ g \in Nat
    BY TreeTyped
  <1> HIDE DEF left, c
  <1>3. /\ t1 \in TreeRec /\ SameNodes(u, t1) /\ t1.head = u.head /\ t1.dead = u.dead
        /\ \A m \in DOMAIN u.node : IsRed(t1, m) <=> IsRed(u, m)
        /\ \A m \in DOMAIN u.node, s \in BOOLEAN :
             Child(t1, m, s) = IF m = g /\ s = right THEN c ELSE Child(u, m, s)
    BY <1>2, SetChildIs
  <1>4. DOMAIN t1.node = DOMAIN u.node
    BY <1>3 DEF SameNodes
  <1> HIDE DEF t1
  <1>5. /\ t2 \in TreeRec /\ SameNodes(t1, t2) /\ t2.head = t1.head /\ t2.dead = t1.dead
        /\ \A m \in DOMAIN t1.node : IsRed(t2, m) <=> IsRed(t1, m)
        /\ \A m \in DOMAIN t1.node, s \in BOOLEAN :
             Child(t2, m, s) = IF m = p /\ s = left THEN g ELSE Child(t1, m, s)
    BY <1>2, <1>3, <1>4, SetChildIs
  <1>6. DOMAIN t2.node = DOMAIN u.node
    BY <1>4, <1>5 DEF SameNodes
  <1> HIDE DEF t2
  <1>7. /\ t3 \in TreeRec /\ SameNodes(t2, t3) /\ t3.dead = t2.dead
        /\ \A m \in DOMAIN t2.node : IsRed(t3, m) <=> IF m = p THEN FALSE ELSE IsRed(t2, m)
        /\ \A m \in DOMAIN t2.node, s \in BOOLEAN : Child(t3, m, s) = Child(t2, m, s)
    BY <1>5, <1>6, SetColIs
  <1>8. DOMAIN t3.node = DOMAIN u.node
    BY <1>6, <1>7 DEF SameNodes
  <1> HIDE DEF t3
  <1>9. /\ t4 \in TreeRec /\ SameNodes(t3, t4) /\ t4.dead = t3.dead
        /\ \A m \in DOMAIN t3.node : IsRed(t4, m) <=> IF m = g THEN TRUE ELSE IsRed(t3, m)
        /\ \A m \in DOMAIN t3.node, s \in BOOLEAN : Child(t4, m, s) = Child(t3, m, s)
    BY <1>7, <1>8, SetColIs
  <1>10. DOMAIN t4.node = DOMAIN u.node
    BY <1>8, <1>9 DEF SameNodes
  <1> HIDE DEF t4
  <1>11. /\ v \in TreeRec /\ SameNodes(t4, v) /\ v.head = p /\ v.dead = t4.dead
         /\ \A m \in DOMAIN t4.node : IsRed(v, m) <=> IsRed(t4, m)
         /\ \A m \in DOMAIN t4.node, s \in BOOLEAN : Child(v, m, s) = Child(t4, m, s)
    BY <1>2, <1>9, SetHeadIs
  <1> HIDE DEF v
  <1>12. /\ ~IsRed(v, p) /\ IsRed(v, g)
         /\ \A m \in DOMAIN u.node : m # p /\ m # g => (IsRed(v, m) <=> IsRed(u, m))
    BY <1>3, <1>4, <1>5, <1>6, <1>7, <1>8, <1>9, <1>10, <1>11, Zenon
  <1>13. \A m \in DOMAIN u.node, s \in BOOLEAN :
           Child(v, m, s) = IF m = g /\ s = right THEN c
                            ELSE IF m = p /\ s = left THEN g
                            ELSE Child(u, m, s)
    BY <1>3, <1>4, <1>5, <1>6, <1>7, <1>8, <1>9, <1>10, <1>11
  <1>14. SameNodes(u, v)
    BY <1>3, <1>5, <1>7, <1>9, <1>11 DEF SameNodes
  <1>15. RotatedOnce(u, v, p, g, right)
    BY <1>11, <1>13, <1>14 DEF RotatedOnce, c, left
  <1> QED
    BY <1>1, <1>3, <1>5, <1>7, <1>9, <1>11, <1>12, <1>15

LEMMA RotateTwiceIs ==
  ASSUME NEW u \in TreeRec, NEW x \in DOMAIN u.node, NEW p \in DOMAIN u.node, NEW g \in DOMAIN u.node,
         p # g, x # p, x # g, NEW right \in BOOLEAN, \A s \in BOOLEAN : Child(u, x, s) = Null
  PROVE  LET v == RotateTwice(u, x, p, g, right)
         IN /\ v \in TreeRec
            /\ RotatedTwice(u, v, x, p, g, right)
            /\ v.dead = u.dead
            /\ ~IsRed(v, x) /\ IsRed(v, g)
            /\ \A m \in DOMAIN u.node : m # x /\ m # g => (IsRed(v, m) <=> IsRed(u, m))
  <1> DEFINE left == ~right
             t1 == SetChild(u, p, right, Null)
             t2 == SetChild(t1, g, left, Null)
             t3 == SetChild(t2, x, left, p)
             t4 == SetChild(t3, x, right, g)
             t5 == SetCol(t4, x, FALSE)
             t6 == SetCol(t5, g, TRUE)
             v == SetHead(t6, x)
  <1>1. v = RotateTwice(u, x, p, g, right)
    <2>1. Child(u, x, right) = Null /\ Child(u, x, ~right) = Null
      OBVIOUS
    <2> QED
      BY <2>1 DEF RotateTwice, SetHead
  <1>2. left \in BOOLEAN /\ p \in Nat /\ g \in Nat /\ x \in Nat /\ Null \in Nat
    BY TreeTyped DEF Null
  <1> HIDE DEF left
  <1>3. /\ t1 \in TreeRec /\ SameNodes(u, t1) /\ t1.dead = u.dead
        /\ \A m \in DOMAIN u.node : IsRed(t1, m) <=> IsRed(u, m)
        /\ \A m \in DOMAIN u.node, s \in BOOLEAN :
             Child(t1, m, s) = IF m = p /\ s = right THEN Null ELSE Child(u, m, s)
    BY <1>2, SetChildIs
  <1>4. DOMAIN t1.node = DOMAIN u.node
    BY <1>3 DEF SameNodes
  <1> HIDE DEF t1
  <1>5. /\ t2 \in TreeRec /\ SameNodes(t1, t2) /\ t2.dead = t1.dead
        /\ \A m \in DOMAIN t1.node : IsRed(t2, m) <=> IsRed(t1, m)
        /\ \A m \in DOMAIN t1.node, s \in BOOLEAN :
             Child(t2, m, s) = IF m = g /\ s = left THEN Null ELSE Child(t1, m, s)
    BY <1>2, <1>3, <1>4, SetChildIs
  <1>6. DOMAIN t2.node = DOMAIN u.node
    BY <1>4, <1>5 DEF SameNodes
  <1> HIDE DEF t2
  <1>7. /\ t3 \in TreeRec /\ SameNodes(t2, t3) /\ t3.dead = t2.dead
        /\ \A m \in DOMAIN t2.node : IsRed(t3, m) <=> IsRed(t2, m)
        /\ \A m \in DOMAIN t2.node, s \in BOOLEAN :
             Child(t3, m, s) = IF m = x /\ s = left THEN p ELSE Child(t2, m, s)
    BY <1>2, <1>5, <1>6, SetChildIs
  <1>8. DOMAIN t3.node = DOMAIN u.node
    BY <1>6, <1>7 DEF SameNodes
  <1> HIDE DEF t3
  <1>9. /\ t4 \in TreeRec /\ SameNodes(t3, t4) /\ t4.dead = t3.dead
        /\ \A m \in DOMAIN t3.node : IsRed(t4, m) <=> IsRed(t3, m)
        /\ \A m \in DOMAIN t3.node, s \in BOOLEAN :
             Child(t4, m, s) = IF m = x /\ s = right THEN g ELSE Child(t3, m, s)
    BY <1>2, <1>7, <1>8, SetChildIs
  <1>10. DOMAIN t4.node = DOMAIN u.node
    BY <1>8, <1>9 DEF SameNodes
  <1> HIDE DEF t4
  <1>11. /\ t5 \in TreeRec /\ SameNodes(t4, t5) /\ t5.dead = t4.dead
         /\ \A m \in DOMAIN t4.node : IsRed(t5, m) <=> IF m = x THEN FALSE ELSE IsRed(t4, m)
         /\ \A m \in DOMAIN t4.node, s \in BOOLEAN : Child(t5, m, s) = Child(t4, m, s)
    BY <1>9, <1>10, SetColIs
  <1>12. DOMAIN t5.node = DOMAIN u.node
    BY <1>10, <1>11 DEF SameNodes
  <1> HIDE DEF t5
  <1>13. /\ t6 \in TreeRec /\ SameNodes(t5, t6) /\ t6.dead = t5.dead
         /\ \A m \in DOMAIN t5.node : IsRed(t6, m) <=> IF m = g THEN TRUE ELSE IsRed(t5, m)
         /\ \A m \in DOMAIN t5.node, s \in BOOLEAN : Child(t6, m, s) = Child(t5, m, s)
    BY <1>11, <1>12, SetColIs
  <1>14. DOMAIN t6.node = DOMAIN u.node
    BY <1>12, <1>13 DEF SameNodes
  <1> HIDE DEF t6
  <1>15. /\ v \in TreeRec /\ SameNodes(t6, v) /\ v.head = x /\ v.dead = t6.dead
         /\ \A m \in DOMAIN t6.node : IsRed(v, m) <=> IsRed(t6, m)
         /\ \A m \in DOMAIN t6.node, s \in BOOLEAN : Child(v, m, s) = Child(t6, m, s)
    BY <1>2, <1>13, SetHeadIs
  <1> HIDE DEF v
  <1>16. /\ ~IsRed(v, x) /\ IsRed(v, g)
         /\ \A m \in DOMAIN u.node : m # x /\ m # g => (IsRed(v, m) <=> IsRed(u, m))
    BY <1>3, <1>4, <1>5, <1>6, <1>7, <1>8, <1>9, <1>10, <1>11, <1>12, <1>13, <1>14, <1>15, Zenon
  <1>17. \A m \in DOMAIN u.node, s \in BOOLEAN :
           Child(v, m, s) = IF m = p /\ s = right THEN Null
                            ELSE IF m = g /\ s = left THEN Null
                            ELSE IF m = x THEN (IF s = right THEN g ELSE p)
                            ELSE Child(u, m, s)
    <2>1. \A m \in DOMAIN u.node, s \in BOOLEAN :
            Child(v, m, s) = IF m = x /\ s = right THEN g
                             ELSE IF m = x /\ s = left THEN p
                             ELSE IF m = g /\ s = left THEN Null
                             ELSE IF m = p /\ s = right THEN Null
                             ELSE Child(u, m, s)
      BY <1>3, <1>4, <1>5, <1>6, <1>7, <1>8, <1>9, <1>10, <1>11, <1>12, <1>13, <1>14, <1>15
    <2>2. \A s \in BOOLEAN : s = right \/ s = left
      BY DEF left
    <2> QED
      BY <2>1, <2>2
  <1>18. SameNodes(u, v)
    BY <1>3, <1>5, <1>7, <1>9, <1>11, <1>13, <1>15 DEF SameNodes
  <1>19. RotatedTwice(u, v, x, p, g, right)
    BY <1>15, <1>17, <1>18 DEF RotatedTwice, left
  <1> QED
    BY <1>1, <1>3, <1>5, <1>7, <1>9, <1>11, <1>13, <1>15, <1>16, <1>19


(* What insert finds below the root: the new node hangs below p, and if p  *)
(* is red then p has a parent g.                                           *)
Planted(t, D, u, p, right) ==
  /\ u \in TreeRec
  /\ Shape(t, D)
  /\ Separated(t, D)
  /\ p \in D[t.head]
  /\ Child(t, p, right) = Null
  /\ Hung(t, u, p, right)
  /\ \A m \in DOMAIN t.node : IsRed(u, m) <=> IsRed(t, m)

PlantedFacts(t, D, u, p, right) ==
  LET F == HungBelow(t, D, p)
      new == Len(t.node) + 1
  IN /\ Shape(u, F)
     /\ F[u.head] = D[t.head] \cup {new}
     /\ new \in Nat /\ new # Null /\ new \notin DOMAIN t.node
     /\ DOMAIN u.node = DOMAIN t.node \cup {new}
     /\ u.head = t.head /\ u.head \in DOMAIN t.node /\ u.head # new
     /\ D[t.head] \subseteq DOMAIN t.node
     /\ \A s \in BOOLEAN : Child(u, new, s) = Null
     /\ ~IsRed(u, u.head)
     /\ \A n \in D[t.head], s \in BOOLEAN :
          /\ Child(t, n, s) # new
          /\ Child(t, n, s) # Null => Child(t, n, s) \in DOMAIN t.node
          /\ Child(u, n, s) = IF n = p /\ s = right THEN new ELSE Child(t, n, s)
          /\ IsRed(u, n) => ~IsRed(u, Child(t, n, s))

LEMMA PlantedIs ==
  ASSUME NEW t \in TreeRec, NEW D, NEW u, NEW p, NEW right \in BOOLEAN, Planted(t, D, u, p, right)
  PROVE  PlantedFacts(t, D, u, p, right)
  <1> DEFINE new == Len(t.node) + 1
  <1> USE DEF Planted
  <1>1. Shape(u, HungBelow(t, D, p)) /\ HungBelow(t, D, p)[u.head] = D[t.head] \cup {new}
    BY HangShape
  <1>2. /\ DOMAIN u.node = DOMAIN t.node \cup {new}
        /\ new \notin DOMAIN t.node /\ new # Null
        /\ u.head = t.head
        /\ \A s \in BOOLEAN : Child(u, new, s) = Null
        /\ \A m \in DOMAIN t.node, s \in BOOLEAN :
             Child(u, m, s) = IF m = p /\ s = right THEN new ELSE Child(t, m, s)
    BY DEF Hung
  <1>3. new \in Nat
    BY TreeTyped
  <1> HIDE DEF new
  <1>4. p \in DOMAIN t.node /\ t.head \in DOMAIN t.node
    BY HeldChild
  <1>5. D[t.head] \subseteq DOMAIN t.node
    BY <1>4 DEF Shape, Linked, ChildLinks
  <1>6. t.head \in D[t.head]
    BY <1>4 DEF Shape, Linked
  <1>7. ~IsRed(u, u.head)
    BY <1>2, <1>4, <1>6 DEF Separated
  <1>8. ASSUME NEW n \in D[t.head], NEW s \in BOOLEAN
        PROVE  /\ Child(t, n, s) # new
               /\ Child(t, n, s) # Null => Child(t, n, s) \in DOMAIN t.node
               /\ Child(u, n, s) = IF n = p /\ s = right THEN new ELSE Child(t, n, s)
               /\ IsRed(u, n) => ~IsRed(u, Child(t, n, s))
    <2>1. n \in DOMAIN t.node /\ Child(t, n, s) \in ChildLinks(t)
      BY HeldChild
    <2>2. Child(t, n, s) = Null \/ Child(t, n, s) \in DOMAIN t.node
      BY <2>1 DEF ChildLinks
    <2>3. IsRed(t, n) => ~IsRed(t, Child(t, n, s))
      BY DEF Separated
    <2>4. Child(t, n, s) = Null => ~IsRed(u, Child(t, n, s))
      BY DEF IsRed
    <2> QED
      BY <1>2, <2>1, <2>2, <2>3, <2>4
  <1> QED
    BY <1>1, <1>2, <1>3, <1>4, <1>5, <1>7, <1>8 DEF PlantedFacts, new

(* The new node is red below a black parent.                               *)
LEMMA ColouredSeparated ==
  ASSUME NEW t \in TreeRec, NEW D, NEW u, NEW p, NEW right \in BOOLEAN, Planted(t, D, u, p, right),
         NEW v, Alike(u, v), NEW B \in SUBSET DOMAIN t.node,
         ~IsRed(u, p) \/ p \in B,
         \A m \in DOMAIN u.node : m # Len(t.node) + 1 => (IsRed(v, m) <=> m \notin B /\ IsRed(u, m))
  PROVE  LET F == HungBelow(t, D, p) IN Shape(v, F) /\ Separated(v, F)
  <1> DEFINE F == HungBelow(t, D, p)
             new == Len(t.node) + 1
  <1>1. /\ Shape(u, F)
        /\ F[u.head] = D[t.head] \cup {new}
        /\ new # Null /\ new \notin DOMAIN t.node
        /\ DOMAIN u.node = DOMAIN t.node \cup {new}
        /\ u.head \in DOMAIN t.node /\ u.head # new
        /\ D[t.head] \subseteq DOMAIN t.node
        /\ \A s \in BOOLEAN : Child(u, new, s) = Null
        /\ ~IsRed(u, u.head)
        /\ \A n \in D[t.head], s \in BOOLEAN :
             /\ Child(t, n, s) # new
             /\ Child(t, n, s) # Null => Child(t, n, s) \in DOMAIN t.node
             /\ Child(u, n, s) = IF n = p /\ s = right THEN new ELSE Child(t, n, s)
             /\ IsRed(u, n) => ~IsRed(u, Child(t, n, s))
    BY PlantedIs DEF PlantedFacts
  <1> HIDE DEF new, F
  <1>2. Shape(v, F)
    BY <1>1, AlikeShape
  <1>3. v.head = u.head /\ \A m \in DOMAIN u.node, s \in BOOLEAN : Child(v, m, s) = Child(u, m, s)
    BY DEF Alike
  <1>4. ~IsRed(v, Null)
    BY DEF IsRed
  <1>5. \A m \in DOMAIN t.node : IsRed(v, m) <=> m \notin B /\ IsRed(u, m)
    BY <1>1 DEF new
  <1>6. ASSUME NEW n \in F[v.head], IsRed(v, n)
        PROVE  n # v.head /\ \A s \in BOOLEAN : ~IsRed(v, Child(v, n, s))
    <2>1. CASE n = new
      BY <1>1, <1>3, <1>4, <2>1
    <2>2. CASE n \in D[t.head]
      <3>1. n \in DOMAIN t.node /\ n \notin B /\ IsRed(u, n) /\ n # p
        BY <1>1, <1>5, <1>6, <2>2
      <3>2. ASSUME NEW s \in BOOLEAN
            PROVE  ~IsRed(v, Child(v, n, s))
        <4> DEFINE c == Child(t, n, s)
        <4>1. Child(v, n, s) = c /\ (c # Null => c \in DOMAIN t.node) /\ ~IsRed(u, c)
          BY <1>1, <1>3, <2>2, <3>1
        <4> HIDE DEF c
        <4> QED
          BY <1>4, <1>5, <4>1
      <3> QED
        BY <1>1, <1>3, <3>1, <3>2
    <2> QED
      BY <1>1, <1>3, <2>1, <2>2
  <1> QED
    BY <1>2, <1>6 DEF Separated, F

LEMMA OnceSeparated ==
  ASSUME NEW t \in TreeRec, NEW D, NEW u, NEW p, NEW right \in BOOLEAN, Planted(t, D, u, p, right),
         IsRed(u, p), NEW g \in D[t.head], Child(t, g, right) = p, ~IsRed(u, Child(t, g, ~right)),
         NEW v \in TreeRec, RotatedOnce(u, v, p, g, right), ~IsRed(v, p),
         \A m \in DOMAIN u.node : m # p /\ m # g => (IsRed(v, m) <=> IsRed(u, m))
  PROVE  LET F == HungBelow(t, D, p)
             E == BelowOnce(u, F, p, g, right)
         IN /\ Shape(v, E)
            /\ E[v.head] = F[g]
            /\ Sorted(u, F) => Sorted(v, E)
            /\ Separated(v, E)
            /\ Len(t.node) + 1 \in F[g]
  <1> DEFINE F == HungBelow(t, D, p)
             new == Len(t.node) + 1
             E == BelowOnce(u, F, p, g, right)
             left == ~right
  <1>1. /\ Shape(u, F)
        /\ F[u.head] = D[t.head] \cup {new}
        /\ new # Null /\ new \notin DOMAIN t.node
        /\ DOMAIN u.node = DOMAIN t.node \cup {new}
        /\ D[t.head] \subseteq DOMAIN t.node
        /\ \A s \in BOOLEAN : Child(u, new, s) = Null
        /\ \A n \in D[t.head], s \in BOOLEAN :
             /\ Child(t, n, s) # new
             /\ Child(t, n, s) # Null => Child(t, n, s) \in DOMAIN t.node
             /\ Child(u, n, s) = IF n = p /\ s = right THEN new ELSE Child(t, n, s)
             /\ IsRed(u, n) => ~IsRed(u, Child(t, n, s))
    <2>1. PlantedFacts(t, D, u, p, right)
      BY PlantedIs DEF PlantedFacts
    <2> QED
      BY <2>1 DEF PlantedFacts
  <1>2. p \in D[t.head] /\ u \in TreeRec
    BY DEF Planted
  <1>3. left \in BOOLEAN /\ right # left
    OBVIOUS
  <1> HIDE DEF new, F, left
  <1>4. p # g /\ p # Null /\ p # new /\ g # new
    <2>1. g \in DOMAIN t.node /\ g \notin D[Child(t, g, right)] /\ p \in D[p]
      BY <1>1, <1>2 DEF Planted, Shape, Linked
    <2> QED
      BY <1>1, <1>2, <2>1, TreeTyped
  <1>5. Child(u, g, right) = p /\ Child(u, p, right) = new
    BY <1>1, <1>2, <1>4
  <1>6. Shape(v, E) /\ E[v.head] = F[g] /\ (Sorted(u, F) => Sorted(v, E))
    <2>1. g \in F[u.head] /\ p \in DOMAIN u.node
      BY <1>1, <1>2
    <2> HIDE DEF E
    <2> QED
      BY <1>1, <1>2, <1>5, <2>1, RotateOnceShape DEF E
  <1>7. /\ v.head = p
        /\ \A m \in DOMAIN u.node, s \in BOOLEAN :
             Child(v, m, s) = IF m = g /\ s = right THEN Child(u, p, left)
                              ELSE IF m = p /\ s = left THEN g
                              ELSE Child(u, m, s)
    BY DEF RotatedOnce, left
  <1>8. F[g] \subseteq F[u.head] /\ new \in F[g]
    <2>1. g \in DOMAIN u.node /\ p \in DOMAIN u.node /\ new \in DOMAIN u.node /\ g \in F[u.head] /\ Linked(u, F)
      BY <1>1, <1>2 DEF Shape
    <2>2. u.head \in DOMAIN u.node
      BY <1>1, <2>1 DEF Linked, ChildLinks
    <2>3. F[g] \subseteq F[u.head] /\ F[p] \subseteq F[g] /\ F[new] \subseteq F[p] /\ new \in F[new]
      BY <1>5, <2>1, <2>2 DEF Linked
    <2> QED
      BY <2>3
  <1>9. ~IsRed(v, Null)
    BY DEF IsRed
  <1>10. ASSUME NEW c, c = Null \/ c \in DOMAIN t.node, ~IsRed(u, c), c # g
         PROVE  ~IsRed(v, c)
    BY <1>1, <1>9, <1>10
  <1>11. ASSUME NEW n \in F[g], NEW s \in BOOLEAN
         PROVE  Child(u, n, s) # g
    BY <1>1, <1>2, <1>8 DEF Shape, Linked
  <1>12. ASSUME NEW n \in F[g], IsRed(v, n), NEW s \in BOOLEAN
         PROVE  n # p /\ ~IsRed(v, Child(v, n, s))
    <2>1. n # p /\ n \in D[t.head] \cup {new}
      BY <1>1, <1>8, <1>12
    <2>2. CASE n = new
      BY <1>1, <1>4, <1>7, <1>9, <2>2
    <2>3. CASE n = g /\ s = right
      <3> DEFINE c == Child(t, p, left)
      <3>1. Child(v, n, s) = c
        BY <1>1, <1>2, <1>3, <1>7, <2>3
      <3>2. c = Null \/ c \in DOMAIN t.node
        BY <1>1, <1>2, <1>3
      <3>3. ~IsRed(u, c)
        BY <1>1, <1>2, <1>3
      <3>4. c # g
        <4>1. Child(u, p, left) = c
          BY <1>1, <1>2, <1>3
        <4>2. p \in F[g]
          BY <1>1, <1>2, <1>5, <1>8 DEF Shape, Linked
        <4> QED
          BY <1>3, <1>11, <4>1, <4>2
      <3> HIDE DEF c
      <3> QED
        BY <1>10, <3>1, <3>2, <3>3, <3>4, <2>1
    <2>4. CASE n = g /\ s # right
      <3> DEFINE c == Child(t, g, left)
      <3>1. s = left
        BY <2>4 DEF left
      <3>2. Child(v, n, s) = c /\ Child(u, g, left) = c
        BY <1>1, <1>3, <1>4, <1>7, <2>4, <3>1
      <3>3. c = Null \/ c \in DOMAIN t.node
        BY <1>1, <1>3
      <3>4. ~IsRed(u, c)
        BY DEF left
      <3>5. c # g
        BY <1>3, <1>11, <2>4, <3>2
      <3> HIDE DEF c
      <3> QED
        BY <1>10, <2>1, <3>2, <3>3, <3>4, <3>5
    <2>5. CASE n # new /\ n # g
      <3> DEFINE c == Child(t, n, s)
      <3>1. n \in D[t.head] /\ n \in DOMAIN u.node /\ IsRed(u, n)
        BY <1>1, <1>12, <2>1, <2>5
      <3>2. Child(v, n, s) = c /\ Child(u, n, s) = c
        BY <1>1, <1>7, <2>1, <2>5, <3>1
      <3>3. (c = Null \/ c \in DOMAIN t.node) /\ ~IsRed(u, c)
        BY <1>1, <3>1
      <3>4. c # g
        BY <1>11, <3>2
      <3> HIDE DEF c
      <3> QED
        BY <1>10, <2>1, <3>2, <3>3, <3>4
    <2> QED
      BY <2>2, <2>3, <2>4, <2>5
  <1>13. Separated(v, E)
    BY <1>6, <1>7, <1>12 DEF Separated
  <1> QED
    BY <1>6, <1>8, <1>13 DEF F, new, E


LEMMA TwiceSeparated ==
  ASSUME NEW t \in TreeRec, NEW D, NEW u, NEW p, NEW right \in BOOLEAN, Planted(t, D, u, p, right),
         IsRed(u, p), NEW g \in D[t.head], Child(t, g, ~right) = p, ~IsRed(u, Child(t, g, right)),
         NEW v \in TreeRec, RotatedTwice(u, v, Len(t.node) + 1, p, g, right), ~IsRed(v, Len(t.node) + 1),
         \A m \in DOMAIN u.node : m # Len(t.node) + 1 /\ m # g => (IsRed(v, m) <=> IsRed(u, m))
  PROVE  LET F == HungBelow(t, D, p)
             E == BelowTwice(u, F, Len(t.node) + 1, p, g, right)
         IN /\ Shape(v, E)
            /\ E[v.head] = F[g]
            /\ Sorted(u, F) => Sorted(v, E)
            /\ Separated(v, E)
            /\ Len(t.node) + 1 \in F[g]
  <1> DEFINE F == HungBelow(t, D, p)
             new == Len(t.node) + 1
             E == BelowTwice(u, F, new, p, g, right)
             left == ~right
  <1>1. /\ Shape(u, F)
        /\ F[u.head] = D[t.head] \cup {new}
        /\ new # Null /\ new \notin DOMAIN t.node
        /\ DOMAIN u.node = DOMAIN t.node \cup {new}
        /\ D[t.head] \subseteq DOMAIN t.node
        /\ \A s \in BOOLEAN : Child(u, new, s) = Null
        /\ \A n \in D[t.head], s \in BOOLEAN :
             /\ Child(t, n, s) # new
             /\ Child(t, n, s) # Null => Child(t, n, s) \in DOMAIN t.node
             /\ Child(u, n, s) = IF n = p /\ s = right THEN new ELSE Child(t, n, s)
             /\ IsRed(u, n) => ~IsRed(u, Child(t, n, s))
    <2>1. PlantedFacts(t, D, u, p, right)
      BY PlantedIs
    <2> QED
      BY <2>1 DEF PlantedFacts
  <1>2. p \in D[t.head] /\ u \in TreeRec
    BY DEF Planted
  <1>3. left \in BOOLEAN /\ right # left
    OBVIOUS
  <1>4. Child(t, g, left) = p
    OBVIOUS
  <1> HIDE DEF new, F, left
  <1>5. p # g /\ p # Null /\ p # new /\ g # new
    <2>1. g \in DOMAIN t.node /\ g \notin D[Child(t, g, left)] /\ p \in D[p]
      BY <1>1, <1>2, <1>3 DEF Planted, Shape, Linked
    <2> QED
      BY <1>1, <1>2, <1>4, <2>1, TreeTyped
  <1>6. Child(u, g, left) = p /\ Child(u, p, right) = new
    BY <1>1, <1>2, <1>3, <1>4, <1>5
  <1>7. /\ v.head = new
        /\ \A m \in DOMAIN u.node, s \in BOOLEAN :
             Child(v, m, s) = IF m = p /\ s = right THEN Null
                              ELSE IF m = g /\ s = left THEN Null
                              ELSE IF m = new THEN (IF s = right THEN g ELSE p)
                              ELSE Child(u, m, s)
    BY DEF RotatedTwice, left, new
  <1>8. Shape(v, E) /\ E[v.head] = F[g] /\ (Sorted(u, F) => Sorted(v, E))
    <2>1. g \in F[u.head] /\ p \in DOMAIN u.node /\ new \in DOMAIN u.node
      BY <1>1, <1>2
    <2>2. Child(u, g, ~right) = p /\ RotatedTwice(u, v, new, p, g, right)
      BY <1>6 DEF left, new
    <2>3. Shape(v, BelowTwice(u, F, new, p, g, right))
      BY <1>1, <1>2, <1>6, <2>1, <2>2, RotateTwiceShape
    <2>4. BelowTwice(u, F, new, p, g, right)[v.head] = F[g]
      BY <1>1, <1>2, <1>6, <2>1, <2>2, RotateTwiceShape
    <2>5. Sorted(u, F) => Sorted(v, BelowTwice(u, F, new, p, g, right))
      BY <1>1, <1>2, <1>6, <2>1, <2>2, RotateTwiceShape
    <2> QED
      BY <2>3, <2>4, <2>5
  <1>9. F[g] \subseteq F[u.head] /\ new \in F[g]
    <2>1. g \in DOMAIN u.node /\ p \in DOMAIN u.node /\ new \in DOMAIN u.node /\ g \in F[u.head] /\ Linked(u, F)
      BY <1>1, <1>2 DEF Shape
    <2>2. u.head \in DOMAIN u.node
      BY <1>1, <2>1 DEF Linked, ChildLinks
    <2>3. F[g] \subseteq F[u.head] /\ F[p] \subseteq F[g] /\ F[new] \subseteq F[p] /\ new \in F[new]
      BY <1>3, <1>6, <2>1, <2>2 DEF Linked
    <2> QED
      BY <2>3
  <1>10. ~IsRed(v, Null)
    BY DEF IsRed
  <1>11. ASSUME NEW c, c = Null \/ c \in DOMAIN t.node, ~IsRed(u, c), c # g
         PROVE  ~IsRed(v, c)
    BY <1>1, <1>10, <1>11 DEF new
  <1>12. ASSUME NEW n \in F[g], NEW s \in BOOLEAN
         PROVE  Child(u, n, s) # g
    BY <1>1, <1>2, <1>9 DEF Shape, Linked
  <1>13. ASSUME NEW n \in F[g], IsRed(v, n), NEW s \in BOOLEAN
         PROVE  n # new /\ ~IsRed(v, Child(v, n, s))
    <2>1. n # new /\ n \in D[t.head]
      BY <1>1, <1>9, <1>13 DEF new
    <2>2. CASE (n = g /\ s = left) \/ (n = p /\ s = right)
      BY <1>1, <1>5, <1>7, <1>10, <2>1, <2>2
    <2>3. CASE n = g /\ s # left
      <3> DEFINE c == Child(t, g, right)
      <3>1. s = right
        BY <2>3 DEF left
      <3>2. Child(v, n, s) = c /\ Child(u, g, right) = c
        BY <1>1, <1>5, <1>7, <2>3, <3>1
      <3>3. c = Null \/ c \in DOMAIN t.node
        BY <1>1
      <3>4. ~IsRed(u, c)
        OBVIOUS
      <3>5. c # g
        BY <1>12, <2>3, <3>2
      <3> HIDE DEF c
      <3> QED
        BY <1>11, <2>1, <3>2, <3>3, <3>4, <3>5
    <2>4. CASE n # g /\ ~(n = p /\ s = right)
      <3> DEFINE c == Child(t, n, s)
      <3>1. n \in DOMAIN u.node /\ IsRed(u, n)
        BY <1>1, <1>13, <2>1, <2>4 DEF new
      <3>2. Child(v, n, s) = c /\ Child(u, n, s) = c
        BY <1>1, <1>7, <2>1, <2>4, <3>1
      <3>3. (c = Null \/ c \in DOMAIN t.node) /\ ~IsRed(u, c)
        BY <1>1, <2>1, <3>1
      <3>4. c # g
        BY <1>12, <3>2
      <3> HIDE DEF c
      <3> QED
        BY <1>11, <2>1, <3>2, <3>3, <3>4
    <2> QED
      BY <2>2, <2>3, <2>4
  <1>14. Separated(v, E)
    BY <1>7, <1>8, <1>13 DEF Separated
  <1> QED
    BY <1>8, <1>9, <1>14 DEF F, new, E


(* A tree of up to three nodes: the parent of a node is the root.          *)
LEMMA ParentIsRoot ==
  ASSUME NEW t \in TreeRec, NEW D, Shape(t, D), NEW g \in D[t.head], NEW s \in BOOLEAN, NEW p \in DOMAIN t.node,
         Child(t, g, s) = p,
         \A n \in DOMAIN t.node : n = t.head \/ \E r \in BOOLEAN : n = Child(t, t.head, r)
  PROVE  g = t.head
  <1>1. /\ g \in DOMAIN t.node /\ t.head \in DOMAIN t.node
        /\ D[g] \subseteq D[t.head] /\ D[p] \subseteq D[g]
    BY HeldChild
  <1>2. g \in D[g] /\ p \in D[p] /\ g \notin D[p] /\ t.head \in D[t.head]
    BY <1>1 DEF Shape, Linked
  <1>3. p # t.head
    BY <1>1, <1>2
  <1>4. PICK r \in BOOLEAN : p = Child(t, t.head, r)
    BY <1>3
  <1>5. ASSUME NEW q \in BOOLEAN, g = Child(t, t.head, q)
        PROVE  FALSE
    <2>1. \A x \in D[Child(t, t.head, r)] : x \notin D[Child(t, t.head, ~r)]
      BY <1>2, BranchingSides DEF Shape
    <2>2. CASE q = r
      BY <1>2, <1>4, <1>5, <2>2
    <2>3. CASE q = ~r
      BY <1>1, <1>2, <1>4, <1>5, <2>1, <2>3
    <2> QED
      BY <2>2, <2>3
  <1> QED
    BY <1>1, <1>5

(* insert appends a node with obj and leaves the values of the others.     *)
Grown(t, v, obj) ==
  /\ v \in TreeRec
  /\ Len(v.node) = Len(t.node) + 1
  /\ DOMAIN v.node = DOMAIN t.node \cup {Len(t.node) + 1}
  /\ v.node[Len(t.node) + 1].value = obj
  /\ \A m \in DOMAIN t.node : v.node[m].value = t.node[m].value
  /\ v.dead = t.dead

(* The tree holds the new node and, beside it, nothing it did not hold.    *)
Holds(t, D, v, E, key) ==
  /\ Len(t.node) + 1 \in E[v.head]
  /\ E[v.head] \subseteq D[t.head] \cup {Len(t.node) + 1}
  /\ Sorted(t, D) /\ (\A x \in D[t.head] : Key(t, x) # key) => Sorted(v, E)

GoodTree(t, D) == Shape(t, D) /\ Separated(t, D) /\ Shallow(t, D)

Inserted(t, D, v, obj) ==
  /\ Grown(t, v, obj)
  /\ \E E : GoodTree(v, E) /\ Holds(t, D, v, E, sortval(obj))

LEMMA InsertFirst ==
  ASSUME NEW t \in TreeRec, NEW D, GoodTree(t, D), t.head = Null, NEW obj \in TagRec, NEW col \in BOOLEAN
  PROVE  Inserted(t, D, insert(t, obj, col), obj)
  <1> DEFINE new == Len(t.node) + 1
             black == FALSE
             w == NewNode(t, obj, black)
             v == SetHead(w, new)
             E == [c \in ChildLinks(t) \cup {new} |-> IF c = new THEN {new} ELSE D[c]]
  <1>0. black \in BOOLEAN /\ ~black
    OBVIOUS
  <1>1. v = insert(t, obj, col)
    BY DEF insert, SetHead
  <1> HIDE DEF black
  <1>2. /\ w \in TreeRec
        /\ Len(w.node) = new
        /\ DOMAIN w.node = DOMAIN t.node \cup {new}
        /\ new \notin DOMAIN t.node /\ new \in Nat /\ new # Null
        /\ w.dead = t.dead
        /\ w.node[new].value = obj
        /\ \A m \in DOMAIN t.node : w.node[m].value = t.node[m].value
        /\ ~IsRed(w, new)
        /\ \A s \in BOOLEAN : Child(w, new, s) = Null
        /\ \A m \in DOMAIN t.node, s \in BOOLEAN : Child(w, m, s) = Child(t, m, s)
    BY <1>0, NewNodeIs
  <1>3. Len(t.node) \in Nat /\ DOMAIN t.node = 1 .. Len(t.node)
    BY TreeTyped
  <1> HIDE DEF w, new
  <1>4. /\ v \in TreeRec /\ SameNodes(w, v) /\ v.head = new /\ v.dead = w.dead
        /\ \A m \in DOMAIN w.node : IsRed(v, m) <=> IsRed(w, m)
        /\ \A m \in DOMAIN w.node, s \in BOOLEAN : Child(v, m, s) = Child(w, m, s)
    BY <1>2, SetHeadIs
  <1> HIDE DEF v
  <1>5. Grown(t, v, obj)
    BY <1>2, <1>4 DEF Grown, SameNodes, new
  <1>6. /\ DOMAIN v.node = DOMAIN t.node \cup {new}
        /\ ChildLinks(v) = ChildLinks(t) \cup {new}
        /\ new \notin ChildLinks(t) /\ Null \in ChildLinks(t)
    BY <1>2, <1>4 DEF SameNodes, ChildLinks
  <1>7. E[new] = {new} /\ \A c \in ChildLinks(t) : E[c] = D[c]
    BY <1>6
  <1>8. Linked(t, D) /\ D[Null] = {}
    BY DEF GoodTree, Shape, Linked
  <1>9. Linked(v, E)
    <2>1. v.head \in ChildLinks(v) /\ E[Null] = {}
      BY <1>4, <1>6, <1>7, <1>8
    <2>2. E \in [ChildLinks(v) -> SUBSET DOMAIN v.node]
      BY <1>6, <1>8 DEF Linked
    <2> HIDE DEF E
    <2>3. ASSUME NEW n \in DOMAIN t.node
          PROVE  /\ n \in E[n]
                 /\ \A x \in E[n] : E[x] \subseteq E[n]
                 /\ \A s \in BOOLEAN :
                      Child(v, n, s) \in ChildLinks(v) /\ E[Child(v, n, s)] \subseteq E[n] /\ n \notin E[Child(v, n, s)]
      <3>1. n \in ChildLinks(t) /\ E[n] = D[n] /\ \A x \in D[n] : x \in ChildLinks(t)
        BY <1>7, <1>8 DEF Linked, ChildLinks
      <3>2. \A s \in BOOLEAN : Child(v, n, s) = Child(t, n, s) /\ Child(t, n, s) \in ChildLinks(t)
        BY <1>2, <1>4, <1>8 DEF Linked
      <3> QED
        BY <1>6, <1>7, <1>8, <3>1, <3>2 DEF Linked
    <2>4. /\ new \in E[new]
          /\ \A x \in E[new] : E[x] \subseteq E[new]
          /\ \A s \in BOOLEAN :
               Child(v, new, s) \in ChildLinks(v) /\ E[Child(v, new, s)] \subseteq E[new] /\ new \notin E[Child(v, new, s)]
      BY <1>2, <1>4, <1>6, <1>7, <1>8
    <2> QED
      BY <1>6, <2>1, <2>2, <2>3, <2>4 DEF Linked
  <1> HIDE DEF E
  <1>10. Child(v, new, FALSE) = Null /\ Child(v, new, TRUE) = Null /\ E[Null] = {} /\ E[v.head] = {new}
    BY <1>2, <1>4, <1>6, <1>7, <1>8
  <1>11. Branching(v, E) /\ Sorted(v, E)
    BY <1>7, <1>10 DEF Branching, Sorted
  <1>12. Separated(v, E)
    BY <1>2, <1>4, <1>10 DEF Separated
  <1>13. Shallow(v, E)
    <2>1. Len(v.node) = Len(t.node) + 1
      BY <1>5 DEF Grown
    <2>2. Len(t.node) <= 4 => DOMAIN t.node = {}
      BY <1>8 DEF GoodTree, Shallow
    <2>3. DOMAIN t.node = {} => Len(t.node) = 0 /\ DOMAIN v.node = {new}
      <3>1. Len(t.node) # 0 => 1 \in DOMAIN t.node
        BY <1>3
      <3> QED
        BY <1>6, <3>1
    <2>4. Len(v.node) <= 4 => DOMAIN v.node = {new} /\ Len(v.node) = 1
      BY <1>3, <2>1, <2>2, <2>3
    <2> QED
      BY <1>3, <1>4, <1>10, <2>1, <2>4 DEF Shallow
  <1>14. Holds(t, D, v, E, sortval(obj))
    BY <1>10, <1>11 DEF Holds, new
  <1> QED
    BY <1>1, <1>5, <1>9, <1>11, <1>12, <1>13, <1>14 DEF GoodTree, Shape, Inserted


LEMMA OneMore ==
  \A m \in Nat : /\ m + 1 <= 4 => m <= 3 /\ m <= 4
                 /\ m + 1 <= 3 => m = 0 \/ m = 1 \/ m = 2
                 /\ m + 1 = 2 => m = 1
  OBVIOUS

(* The hypotheses of the four cases of Rebalance.                          *)
Rebalancing(t, D, u, p, g, gright, right, obj) ==
  /\ GoodTree(t, D)
  /\ Planted(t, D, u, p, right)
  /\ u.node[Len(t.node) + 1].value = obj
  /\ u.dead = t.dead
  /\ \/ p = t.head /\ g = Null
     \/ g \in D[t.head] /\ Child(t, g, gright) = p
  /\ Sorted(t, D) /\ (\A x \in D[t.head] : Key(t, x) # sortval(obj)) => Sorted(u, HungBelow(t, D, p))

LEMMA GrownFrom ==
  ASSUME NEW t, NEW u, NEW v, NEW p, NEW right, NEW obj, Hung(t, u, p, right), u.node[Len(t.node) + 1].value = obj,
         u.dead = t.dead, v \in TreeRec, SameNodes(u, v), v.dead = u.dead
  PROVE  Grown(t, v, obj) /\ \A m \in DOMAIN u.node : Key(v, m) = Key(u, m)
  BY DEF Grown, Hung, SameNodes, Key

(* The nodes of B turn black and the new one red.                          *)
Blackened(u, v, new, B) ==
  /\ IsRed(v, new)
  /\ \A m \in DOMAIN u.node : m # new => (IsRed(v, m) <=> m \notin B /\ IsRed(u, m))

(* Nothing is rotated.                                                     *)
LEMMA ColouredIs ==
  ASSUME NEW t \in TreeRec, NEW D, NEW u, NEW p, NEW g, NEW gright \in BOOLEAN, NEW right \in BOOLEAN, NEW obj,
         Rebalancing(t, D, u, p, g, gright, right, obj),
         NEW v \in TreeRec, SameNodes(u, v), v.head = u.head, v.dead = u.dead,
         \A m \in DOMAIN u.node, s \in BOOLEAN : Child(v, m, s) = Child(u, m, s),
         NEW B \in SUBSET DOMAIN t.node, ~IsRed(u, p) \/ p \in B, Blackened(u, v, Len(t.node) + 1, B),
         Len(t.node) = 2 => p = t.head
  PROVE  Inserted(t, D, v, obj)
  <1> DEFINE F == HungBelow(t, D, p)
             new == Len(t.node) + 1
             M == Len(t.node)
             K == Len(v.node)
  <1> USE DEF Rebalancing, Blackened
  <1>1. Alike(u, v)
    BY DEF Alike, SameNodes
  <1>2. Shape(v, F) /\ Separated(v, F)
    BY <1>1, ColouredSeparated
  <1>3. Grown(t, v, obj) /\ \A m \in DOMAIN u.node : Key(v, m) = Key(u, m)
    BY GrownFrom DEF Planted
  <1>4. Shape(u, F) /\ (Sorted(u, F) => Sorted(v, F))
    BY <1>1, <1>3, PlantedIs, AlikeShape DEF PlantedFacts
  <1>5. /\ F[u.head] = D[t.head] \cup {new}
        /\ DOMAIN u.node = DOMAIN t.node \cup {new}
        /\ new \notin DOMAIN t.node
        /\ u.head = t.head /\ u.head \in DOMAIN t.node /\ t.head # Null
        /\ \A n \in D[t.head], s \in BOOLEAN : Child(u, n, s) = IF n = p /\ s = right THEN new ELSE Child(t, n, s)
    BY PlantedIs, TreeTyped DEF PlantedFacts
  <1>6. Holds(t, D, v, F, sortval(obj))
    BY <1>4, <1>5 DEF Holds
  <1>7. K = M + 1 /\ M \in Nat /\ DOMAIN t.node = 1 .. M /\ (M = 2 => p = t.head) /\ DOMAIN v.node = DOMAIN u.node
    BY <1>3, <1>5, TreeTyped DEF Grown
  <1> HIDE DEF F, new, M, K
  <1>8. Shallow(v, F)
    <2>1. K <= 4 => F[v.head] = DOMAIN v.node
      <3>1. K <= 4 => D[t.head] = DOMAIN t.node
        BY <1>7, OneMore DEF GoodTree, Shallow, M
      <3> QED
        BY <1>5, <1>7, <3>1
    <2>2. ASSUME K <= 3
          PROVE  p = t.head /\ \A n \in DOMAIN v.node : n = v.head \/ \E s \in BOOLEAN : n = Child(v, v.head, s)
      <3>1. D[t.head] = DOMAIN t.node /\ \A n \in DOMAIN t.node : n = t.head \/ \E s \in BOOLEAN : n = Child(t, t.head, s)
        <4>1. M <= 3 /\ M <= 4
          BY <1>7, <2>2
        <4> QED
          BY <4>1 DEF GoodTree, Shallow, M
      <3>2. p \in DOMAIN t.node /\ Child(t, p, right) = Null /\ Null \notin DOMAIN t.node
        BY <1>5, <1>7, <3>1 DEF Planted, Null
      <3>3. p = t.head
        <4>1. CASE M = 1
          BY <1>5, <1>7, <3>2, <4>1
        <4>2. M # 0
          BY <1>5, <1>7
        <4>3. M = 0 \/ M = 1 \/ M = 2
          BY <1>7, <2>2, OneMore
        <4> QED
          BY <1>7, <4>1, <4>2, <4>3
      <3>4. Child(v, v.head, right) = new
        BY <1>5, <3>1, <3>3
      <3>5. ASSUME NEW n \in DOMAIN t.node, n # t.head
            PROVE  \E s \in BOOLEAN : n = Child(v, v.head, s)
        <4>1. PICK s \in BOOLEAN : n = Child(t, t.head, s)
          BY <3>1, <3>5
        <4>2. s # right
          BY <3>2, <3>3, <4>1
        <4>3. Child(u, t.head, s) = n
          BY <1>5, <3>1, <4>1, <4>2
        <4>4. Child(v, v.head, s) = n
          BY <1>5, <4>3
        <4> QED
          BY <4>4
      <3> QED
        BY <1>5, <1>7, <3>3, <3>4, <3>5
    <2>3. ASSUME K = 2
          PROVE  \A n \in DOMAIN v.node : n = v.head \/ IsRed(v, n)
      <3>1. M = 1
        BY <1>7, <2>3, OneMore
      <3>2. \A n \in DOMAIN t.node : n = t.head
        BY <1>5, <1>7, <3>1
      <3> QED
        BY <1>5, <1>7, <3>2 DEF new
    <2> QED
      BY <2>1, <2>2, <2>3 DEF Shallow, K
  <1> QED
    BY <1>2, <1>3, <1>6, <1>8 DEF GoodTree, Inserted

(* A rotation of up to four nodes is at the root: it loses no node.        *)
LEMMA RotatedShallow ==
  ASSUME NEW t \in TreeRec, NEW D, NEW u, NEW p, NEW g, NEW gright \in BOOLEAN, NEW right \in BOOLEAN, NEW obj,
         Rebalancing(t, D, u, p, g, gright, right, obj), p # t.head,
         NEW v, NEW E, Grown(t, v, obj), E[v.head] = HungBelow(t, D, p)[g],
         \A x \in {p, g, Len(t.node) + 1} : x = v.head \/ \E s \in BOOLEAN : x = Child(v, v.head, s)
  PROVE  Shallow(v, E)
  <1> DEFINE F == HungBelow(t, D, p)
             new == Len(t.node) + 1
             M == Len(t.node)
             K == Len(v.node)
  <1>1. g \in D[t.head] /\ Child(t, g, gright) = p /\ p \in D[t.head] /\ Shape(t, D) /\ Shallow(t, D)
    BY DEF Rebalancing, Planted, GoodTree
  <1>2. /\ F[u.head] = D[t.head] \cup {new}
        /\ u.head = t.head /\ D[t.head] \subseteq DOMAIN t.node
    BY PlantedIs DEF Rebalancing, PlantedFacts
  <1>3. K = M + 1 /\ DOMAIN v.node = DOMAIN t.node \cup {new}
    BY DEF Grown
  <1>4. M \in Nat /\ DOMAIN t.node = 1 .. M
    BY TreeTyped
  <1> HIDE DEF F, new, M, K
  <1>5. ASSUME K <= 4
        PROVE  D[t.head] = DOMAIN t.node /\ g = t.head
    <2>1. M <= 3 /\ M <= 4
      BY <1>3, <1>4, <1>5, OneMore
    <2> QED
      BY <1>1, <1>2, <2>1, ParentIsRoot DEF Shallow, M
  <1>6. K <= 4 => E[v.head] = DOMAIN v.node
    BY <1>2, <1>3, <1>5 DEF F
  <1>7. g # p
    BY <1>1, <1>2 DEF Shape, Linked
  <1>8. K <= 3 => M = 2
    <2>1. M # 0 /\ M # 1
      BY <1>1, <1>2, <1>4, <1>7
    <2>2. K <= 3 => M = 0 \/ M = 1 \/ M = 2
      BY <1>3, <1>4, OneMore
    <2> QED
      BY <2>1, <2>2
  <1>9. ASSUME K <= 3
        PROVE  \A n \in DOMAIN v.node : n = v.head \/ \E s \in BOOLEAN : n = Child(v, v.head, s)
    <2>1. p \in 1 .. 2 /\ g \in 1 .. 2
      BY <1>1, <1>2, <1>4, <1>8, <1>9
    <2>2. \A n \in 1 .. 2 : n = p \/ n = g
      BY <1>7, <2>1
    <2>3. \A n \in DOMAIN v.node : n \in {p, g, new}
      BY <1>3, <1>4, <1>8, <1>9, <2>2
    <2> QED
      BY <2>3 DEF new
  <1>10. K # 2
    <2>1. K = 2 => K <= 3 /\ M = 1
      BY <1>3, <1>4, OneMore
    <2> QED
      BY <1>8, <2>1
  <1> QED
    BY <1>6, <1>9, <1>10 DEF Shallow, K


(* insert, below the root.                                                 *)
LEMMA RebalanceIs ==
  ASSUME NEW t \in TreeRec, NEW D, NEW u, NEW p, NEW g, NEW gright \in BOOLEAN, NEW right \in BOOLEAN, NEW obj,
         Rebalancing(t, D, u, p, g, gright, right, obj)
  PROVE  Inserted(t, D, Rebalance(u, Len(t.node) + 1, p, g, right), obj)
  <1> DEFINE F == HungBelow(t, D, p)
             new == Len(t.node) + 1
             v == Rebalance(u, new, p, g, right)
             parentright == Child(u, g, TRUE) = p
             uncle == Child(u, g, ~parentright)
             other == Child(t, g, ~gright)
  <1>1. /\ GoodTree(t, D) /\ Planted(t, D, u, p, right) /\ Hung(t, u, p, right) /\ p \in D[t.head]
        /\ u.node[Len(t.node) + 1].value = obj /\ u.dead = t.dead /\ u \in TreeRec
        /\ Shape(t, D) /\ Separated(t, D) /\ Shallow(t, D)
        /\ Sorted(t, D) /\ (\A x \in D[t.head] : Key(t, x) # sortval(obj)) => Sorted(u, F)
    BY DEF Rebalancing, Planted, GoodTree
  <1>2. PlantedFacts(t, D, u, p, right)
    BY <1>1, PlantedIs
  <1>3. /\ Shape(u, F)
        /\ F[u.head] = D[t.head] \cup {new}
        /\ new # Null /\ new \notin DOMAIN t.node
        /\ DOMAIN u.node = DOMAIN t.node \cup {new}
        /\ D[t.head] \subseteq DOMAIN t.node
        /\ u.head = t.head /\ ~IsRed(u, u.head)
        /\ \A s \in BOOLEAN : Child(u, new, s) = Null
        /\ \A n \in D[t.head], s \in BOOLEAN :
             /\ Child(t, n, s) # Null => Child(t, n, s) \in DOMAIN t.node
             /\ Child(u, n, s) = IF n = p /\ s = right THEN new ELSE Child(t, n, s)
    BY <1>2 DEF PlantedFacts
  <1>4. p \in DOMAIN u.node /\ p # new /\ p \in DOMAIN t.node
    BY <1>1, <1>3
  <1> HIDE DEF F, new
  <1>5. CASE ~IsRed(u, p)
    <2>1. v = SetCol(u, new, TRUE)
      BY <1>5 DEF Rebalance
    <2> HIDE DEF v, uncle, other, parentright
    <2>2. /\ v \in TreeRec /\ SameNodes(u, v) /\ v.head = u.head /\ v.dead = u.dead
          /\ \A m \in DOMAIN u.node : IsRed(v, m) <=> IF m = new THEN TRUE ELSE IsRed(u, m)
          /\ \A m \in DOMAIN u.node, s \in BOOLEAN : Child(v, m, s) = Child(u, m, s)
      <3>1. Recoloured(u, v, new, TRUE)
        BY <1>1, <1>3, <2>1, SetColTo
      <3> QED
        BY <3>1 DEF Recoloured
    <2>3. Len(t.node) = 2 => p = t.head
      BY <1>1, <1>3, <1>4, <1>5 DEF Shallow, Planted
    <2>4. {} \in SUBSET DOMAIN t.node /\ Blackened(u, v, Len(t.node) + 1, {})
      BY <1>3, <2>2 DEF Blackened, new
    <2>5. Inserted(t, D, v, obj)
      BY <1>5, <2>2, <2>3, <2>4, ColouredIs
    <2> QED
      BY <2>5 DEF v, new
  <1>6. ASSUME IsRed(u, p)
        PROVE  /\ p # t.head /\ g \in D[t.head] /\ Child(t, g, gright) = p /\ g # p /\ g # new /\ g \in DOMAIN u.node
               /\ parentright <=> gright
               /\ uncle = other
               /\ other # p /\ other # g /\ other # new /\ (other # Null => other \in DOMAIN t.node)
    <2>1. p # t.head
      BY <1>3, <1>6
    <2>2. g \in D[t.head] /\ Child(t, g, gright) = p
      BY <2>1 DEF Rebalancing
    <2>3. g \in DOMAIN t.node /\ p \in D[p] /\ g \notin D[p] /\ g \in D[g]
      BY <1>1, <1>3, <1>4, <2>2 DEF Shape, Linked
    <2>4. g # p /\ g # new
      BY <1>3, <2>3
    <2>5. (~gright) \in BOOLEAN
      OBVIOUS
    <2>6. \A x \in D[Child(t, g, gright)] : x \notin D[other]
      BY <1>1, <2>2, BranchingSides DEF Shape
    <2>7. g \notin D[other]
      BY <1>1, <2>3, <2>5 DEF Shape, Linked
    <2>8. other # p /\ other # g
      BY <2>2, <2>3, <2>6, <2>7
    <2>9. other # Null => other \in DOMAIN t.node
      BY <1>3, <2>2, <2>5
    <2>10. other # new
      BY <1>3, <2>9
    <2>11. \A s \in BOOLEAN : Child(u, g, s) = Child(t, g, s)
      BY <1>3, <2>2, <2>4
    <2>12. (parentright <=> gright) /\ uncle = other
      <3>1. CASE gright = TRUE
        BY <2>2, <2>11, <3>1
      <3>2. CASE gright = FALSE
        BY <2>2, <2>8, <2>11, <3>2
      <3> QED
        BY <3>1, <3>2
    <2> QED
      BY <1>3, <2>1, <2>2, <2>3, <2>4, <2>8, <2>9, <2>10, <2>12
  <1>7. CASE IsRed(u, p) /\ IsRed(u, uncle)
    <2> DEFINE t1 == SetCol(u, new, TRUE)
               t2 == SetCol(t1, p, FALSE)
    <2>1. v = SetCol(t2, uncle, FALSE)
      BY <1>7 DEF Rebalance
    <2>2. /\ p # t.head /\ g \in D[t.head] /\ Child(t, g, gright) = p /\ g # p
          /\ uncle = other /\ other # p /\ other # g /\ other # new /\ (other # Null => other \in DOMAIN t.node)
      BY <1>6, <1>7
    <2>3. other \in DOMAIN t.node /\ other \in DOMAIN u.node
      BY <1>3, <1>7, <2>2 DEF IsRed
    <2>4. v = SetCol(t2, other, FALSE)
      BY <2>1, <2>2
    <2> HIDE DEF v, uncle, other
    <2>5. /\ t1 \in TreeRec /\ SameNodes(u, t1) /\ t1.head = u.head /\ t1.dead = u.dead
          /\ \A m \in DOMAIN u.node : IsRed(t1, m) <=> IF m = new THEN TRUE ELSE IsRed(u, m)
          /\ \A m \in DOMAIN u.node, s \in BOOLEAN : Child(t1, m, s) = Child(u, m, s)
      BY <1>1, <1>3, SetColIs
    <2>6. DOMAIN t1.node = DOMAIN u.node
      BY <2>5 DEF SameNodes
    <2> HIDE DEF t1
    <2>7. /\ t2 \in TreeRec /\ SameNodes(t1, t2) /\ t2.head = t1.head /\ t2.dead = t1.dead
          /\ \A m \in DOMAIN t1.node : IsRed(t2, m) <=> IF m = p THEN FALSE ELSE IsRed(t1, m)
          /\ \A m \in DOMAIN t1.node, s \in BOOLEAN : Child(t2, m, s) = Child(t1, m, s)
      BY <1>4, <2>5, <2>6, SetColIs
    <2>8. DOMAIN t2.node = DOMAIN u.node
      BY <2>6, <2>7 DEF SameNodes
    <2> HIDE DEF t2
    <2>9. /\ v \in TreeRec /\ SameNodes(t2, v) /\ v.head = t2.head /\ v.dead = t2.dead
          /\ \A m \in DOMAIN t2.node : IsRed(v, m) <=> IF m = other THEN FALSE ELSE IsRed(t2, m)
          /\ \A m \in DOMAIN t2.node, s \in BOOLEAN : Child(v, m, s) = Child(t2, m, s)
      <3>1. Recoloured(t2, v, other, FALSE)
        BY <2>3, <2>4, <2>7, <2>8, SetColTo
      <3> QED
        BY <3>1 DEF Recoloured
    <2>10. SameNodes(u, v) /\ v.head = u.head /\ v.dead = u.dead
      BY <2>5, <2>7, <2>9 DEF SameNodes
    <2>11. \A m \in DOMAIN u.node, s \in BOOLEAN : Child(v, m, s) = Child(u, m, s)
      BY <2>5, <2>6, <2>7, <2>8, <2>9
    <2>12. Blackened(u, v, Len(t.node) + 1, {p, other})
      BY <1>3, <1>4, <2>2, <2>5, <2>6, <2>7, <2>8, <2>9 DEF Blackened, new
    <2>13. Len(t.node) # 2
      <3>1. SUFFICES ASSUME Len(t.node) = 2 PROVE FALSE
        OBVIOUS
      <3>2. \A n \in DOMAIN t.node : n = t.head \/ \E r \in BOOLEAN : n = Child(t, t.head, r)
        BY <1>1, <3>1 DEF Shallow
      <3>3. g = t.head
        BY <1>1, <1>4, <2>2, <3>2, ParentIsRoot
      <3>4. DOMAIN t.node = 1 .. 2
        BY <3>1, TreeTyped
      <3>5. g \in 1 .. 2 /\ p \in 1 .. 2 /\ other \in 1 .. 2
        BY <1>3, <1>4, <2>2, <2>3, <3>4
      <3> QED
        BY <2>2, <3>5
    <2> DEFINE B == {p, other}
    <2>14. B \in SUBSET DOMAIN t.node /\ p \in B /\ Blackened(u, v, Len(t.node) + 1, B)
      BY <1>4, <2>3, <2>12
    <2>15. v \in TreeRec
      BY <2>9
    <2> HIDE DEF B
    <2>16. Inserted(t, D, v, obj)
      BY <2>10, <2>11, <2>13, <2>14, <2>15, ColouredIs
    <2> QED
      BY <2>16 DEF v, new
  <1>8. CASE IsRed(u, p) /\ ~IsRed(u, uncle) /\ right = parentright
    <2>1. v = RotateOnce(u, p, g, right)
      BY <1>8 DEF Rebalance
    <2>2. /\ p # t.head /\ g \in D[t.head] /\ Child(t, g, gright) = p /\ g # p /\ g \in DOMAIN u.node
          /\ gright = right /\ ~IsRed(u, Child(t, g, ~right))
      <3>1. gright = parentright
        BY <1>6, <1>8
      <3> QED
        BY <1>6, <1>8, <3>1
    <2> HIDE DEF v, uncle, other, parentright
    <2>3. /\ v \in TreeRec
          /\ RotatedOnce(u, v, p, g, right)
          /\ v.dead = u.dead
          /\ ~IsRed(v, p)
          /\ \A m \in DOMAIN u.node : m # p /\ m # g => (IsRed(v, m) <=> IsRed(u, m))
      BY <1>1, <1>4, <2>1, <2>2, RotateOnceIs
    <2> DEFINE E == BelowOnce(u, F, p, g, right)
    <2>4. Shape(v, E) /\ E[v.head] = F[g] /\ (Sorted(u, F) => Sorted(v, E)) /\ Separated(v, E) /\ new \in F[g]
      <3>1. Child(t, g, right) = p
        BY <2>2
      <3> QED
        BY <1>1, <1>8, <2>2, <2>3, <3>1, OnceSeparated DEF F, new
    <2> HIDE DEF E
    <2>5. Grown(t, v, obj)
      BY <1>1, <2>3, GrownFrom DEF RotatedOnce
    <2>6. Shallow(v, E)
      <3> DEFINE left == ~right
      <3>1. v.head = p /\ Child(v, p, left) = g /\ Child(v, p, right) = new
        BY <1>1, <1>3, <1>4, <2>2, <2>3 DEF RotatedOnce
      <3>2. left \in BOOLEAN
        OBVIOUS
      <3> HIDE DEF left
      <3>3. \A x \in {p, g, new} : x = v.head \/ \E s \in BOOLEAN : x = Child(v, v.head, s)
        BY <3>1, <3>2
      <3>4. p # t.head /\ E[v.head] = F[g]
        BY <2>2, <2>4
      <3> QED
        BY <2>5, <3>3, <3>4, RotatedShallow DEF F, new
    <2>7. Holds(t, D, v, E, sortval(obj))
      <3>1. F[g] \subseteq F[u.head]
        BY <1>1, <1>3, <2>2, HeldChild
      <3> QED
        BY <1>1, <1>3, <2>4, <3>1 DEF Holds, new
    <2> QED
      BY <2>4, <2>5, <2>6, <2>7 DEF GoodTree, Inserted, v, new
  <1>9. CASE IsRed(u, p) /\ ~IsRed(u, uncle) /\ right # parentright
    <2>1. v = RotateTwice(u, new, p, g, right)
      BY <1>9 DEF Rebalance
    <2>2. /\ p # t.head /\ g \in D[t.head] /\ Child(t, g, gright) = p /\ g # p /\ g # new /\ g \in DOMAIN u.node
          /\ gright = ~right /\ ~IsRed(u, Child(t, g, right))
      <3>1. gright = ~right
        BY <1>6, <1>9
      <3>2. Child(t, g, ~gright) = Child(t, g, right)
        BY <3>1
      <3> QED
        BY <1>6, <1>9, <3>1, <3>2
    <2> HIDE DEF v, uncle, other, parentright
    <2>3. /\ v \in TreeRec
          /\ RotatedTwice(u, v, new, p, g, right)
          /\ v.dead = u.dead
          /\ ~IsRed(v, new)
          /\ \A m \in DOMAIN u.node : m # new /\ m # g => (IsRed(v, m) <=> IsRed(u, m))
      BY <1>1, <1>3, <1>4, <2>1, <2>2, RotateTwiceIs
    <2> DEFINE E == BelowTwice(u, F, new, p, g, right)
    <2>4. Shape(v, E) /\ E[v.head] = F[g] /\ (Sorted(u, F) => Sorted(v, E)) /\ Separated(v, E) /\ new \in F[g]
      <3>1. Child(t, g, ~right) = p
        BY <2>2
      <3> QED
        BY <1>1, <1>9, <2>2, <2>3, <3>1, TwiceSeparated DEF F, new
    <2> HIDE DEF E
    <2>5. Grown(t, v, obj)
      BY <1>1, <2>3, GrownFrom DEF RotatedTwice
    <2>6. Shallow(v, E)
      <3> DEFINE left == ~right
      <3>1. v.head = new /\ Child(v, new, left) = p /\ Child(v, new, right) = g
        BY <1>1, <1>3, <1>4, <2>2, <2>3 DEF RotatedTwice
      <3>2. left \in BOOLEAN
        OBVIOUS
      <3> HIDE DEF left
      <3>3. \A x \in {p, g, new} : x = v.head \/ \E s \in BOOLEAN : x = Child(v, v.head, s)
        BY <3>1, <3>2
      <3>4. p # t.head /\ E[v.head] = F[g]
        BY <2>2, <2>4
      <3> QED
        BY <2>5, <3>3, <3>4, RotatedShallow DEF F, new
    <2>7. Holds(t, D, v, E, sortval(obj))
      <3>1. F[g] \subseteq F[u.head]
        BY <1>1, <1>3, <2>2, HeldChild
      <3> QED
        BY <1>1, <1>3, <2>4, <3>1 DEF Holds, new
    <2> QED
      BY <2>4, <2>5, <2>6, <2>7 DEF GoodTree, Inserted, v, new
  <1> QED
    BY <1>5, <1>7, <1>8, <1>9

(* A new node hangs where its offset belongs.                              *)
LEMMA InsertIs ==
  ASSUME NEW t \in TreeRec, NEW D, GoodTree(t, D), NEW obj \in TagRec, NEW col \in BOOLEAN
  PROVE  Inserted(t, D, insert(t, obj, col), obj)
  <1> DEFINE new == Len(t.node) + 1
             key == sortval(obj)
             p == Descent(t, key).parent
             g == Descent(t, key).grandparent
             right == GoesRight(t, p, key)
             gright == GoesRight(t, g, key)
             u == SetChild(NewNode(t, obj, col), p, right, new)
  <1>1. key \in Nat /\ Shape(t, D)
    BY DEF sortval, TagRec, GoodTree
  <1>2. right \in BOOLEAN /\ gright \in BOOLEAN
    BY DEF GoesRight
  <1>3. CASE t.head = Null
    BY <1>3, InsertFirst
  <1>4. CASE t.head # Null
    <2>1. insert(t, obj, col) = Rebalance(u, new, p, g, right)
      BY <1>4 DEF insert, InsertBelow
    <2>2. /\ p \in D[t.head]
          /\ Child(t, p, right) = Null
          /\ \/ p = t.head /\ g = Null
             \/ g \in D[t.head] /\ Child(t, g, gright) = p
          /\ \A a \in D[t.head] : p \in D[a] => a = p \/ p \in D[Child(t, a, GoesRight(t, a, key))]
      BY <1>1, <1>4, DescentIs
    <2>3. right <=> GoesRight(t, p, key)
      OBVIOUS
    <2> HIDE DEF p, g, right, gright
    <2>4. p \in DOMAIN t.node
      BY <1>1, <2>2, HeldChild
    <2>5. /\ u \in TreeRec
          /\ Hung(t, u, p, right)
          /\ u.dead = t.dead
          /\ u.node[new].value = obj
          /\ \A m \in DOMAIN t.node : IsRed(u, m) <=> IsRed(t, m)
      BY <1>2, <2>4, HangIs
    <2> HIDE DEF u
    <2>6. Planted(t, D, u, p, right)
      BY <1>1, <2>2, <2>5 DEF Planted, GoodTree
    <2>7. Key(u, new) = key
      BY <2>5 DEF Key
    <2> HIDE DEF key
    <2>8. Sorted(t, D) /\ (\A x \in D[t.head] : Key(t, x) # key) => Sorted(u, HungBelow(t, D, p))
      BY <1>1, <1>2, <2>2, <2>3, <2>5, <2>7, HangSorted DEF new
    <2>9. Rebalancing(t, D, u, p, g, gright, right, obj)
      BY <2>2, <2>5, <2>6, <2>8 DEF Rebalancing, key
    <2> QED
      BY <1>2, <2>1, <2>9, RebalanceIs
  <1> QED
    BY <1>3, <1>4


-----------------------------------------------------------------------------
(***************************************************************************)
(* The steps that the methods of the block are made of: the value of a tag *)
(* is set, or a tag is added.                                              *)
(***************************************************************************)

BlockRec == [tags : TreeRec, firsttag : Nat, outcome : Outcomes]

(* c is b with the tag n set to val.                                       *)
Puts(b, c, n, val) ==
  /\ c \in BlockRec
  /\ Alike(b.tags, c.tags)
  /\ \A m \in DOMAIN b.tags.node : IsRed(c.tags, m) <=> IsRed(b.tags, m)
  /\ c.tags.dead = b.tags.dead
  /\ Tag(c, n) = val
  /\ \A m \in DOMAIN b.tags.node : m # n => Tag(c, m) = Tag(b, m)
  /\ c.firsttag = b.firsttag
  /\ c.outcome = b.outcome

PutTag(b, n, val) == [b EXCEPT !.tags.node[n].value = val]

LEMMA BlockTyped ==
  ASSUME NEW b \in BlockRec
  PROVE  /\ b.tags \in TreeRec
         /\ Len(b.tags.node) \in Nat
         /\ DOMAIN b.tags.node = 1 .. Len(b.tags.node)
         /\ \A n \in DOMAIN b.tags.node : n \in Nat /\ n # Null /\ n # Wild /\ Tag(b, n) \in TagRec
         /\ NewTag(b) \in Nat /\ NewTag(b) \notin DOMAIN b.tags.node /\ NewTag(b) # Null /\ NewTag(b) # Wild
  <1>1. b.tags \in TreeRec
    BY DEF BlockRec
  <1>2. /\ Len(b.tags.node) \in Nat
        /\ DOMAIN b.tags.node = 1 .. Len(b.tags.node)
        /\ \A n \in DOMAIN b.tags.node : n \in Nat \ {Null} /\ b.tags.node[n] \in NodeRec
    BY <1>1, TreeTyped
  <1>3. \A n \in DOMAIN b.tags.node : n \in Nat /\ n # Null /\ n # Wild /\ Tag(b, n) \in TagRec
    BY <1>2 DEF Wild, Tag, NodeRec
  <1> QED
    BY <1>1, <1>2, <1>3 DEF NewTag, Null, Wild

LEMMA PutTagIs ==
  ASSUME NEW b \in BlockRec, NEW n \in DOMAIN b.tags.node, NEW val \in TagRec
  PROVE  Puts(b, PutTag(b, n, val), n, val)
  <1> DEFINE c == PutTag(b, n, val)
             t == b.tags
             w == [t.node EXCEPT ![n].value = val]
  <1>1. /\ t \in TreeRec /\ Len(t.node) \in Nat /\ DOMAIN t.node = 1 .. Len(t.node)
        /\ t.node \in [1 .. Len(t.node) -> NodeRec]
    BY BlockTyped, TreeTyped
  <1>2. /\ c.tags.node = w /\ c.tags.head = t.head /\ c.tags.dead = t.dead
        /\ c.firsttag = b.firsttag /\ c.outcome = b.outcome
        /\ c \in [tags : [node : {w}, head : Nat, dead : SUBSET Nat], firsttag : Nat, outcome : Outcomes]
    BY DEF PutTag, BlockRec, TreeRec
  <1>3. w \in [1 .. Len(t.node) -> NodeRec]
    BY <1>1 DEF NodeRec
  <1>4. w \in Seq(NodeRec) /\ Len(w) = Len(t.node) /\ DOMAIN w = DOMAIN t.node
    BY <1>1, <1>3
  <1>5. c \in BlockRec
    BY <1>2, <1>4 DEF BlockRec, TreeRec
  <1>6. \A m \in DOMAIN t.node : m # n => w[m] = t.node[m]
    BY <1>1
  <1>7. w[n].value = val /\ w[n].child = t.node[n].child
    BY <1>1 DEF NodeRec
  <1>8. w[n].col = t.node[n].col
    <2>1. w[n] = [t.node[n] EXCEPT !.value = val]
      BY <1>1
    <2> QED
      BY <1>1, <2>1, Zenon DEF NodeRec
  <1> HIDE DEF w, c, t
  <1>9. \A m \in DOMAIN t.node : IsRed(c.tags, m) <=> IsRed(t, m)
    BY <1>2, <1>6, <1>8, Zenon DEF IsRed
  <1>10. \A m \in DOMAIN t.node, s \in BOOLEAN : Child(c.tags, m, s) = Child(t, m, s)
    BY <1>2, <1>6, <1>7 DEF Child
  <1>11. Alike(t, c.tags)
    BY <1>2, <1>4, <1>10 DEF Alike
  <1>12. Tag(c, n) = val /\ \A m \in DOMAIN t.node : m # n => Tag(c, m) = Tag(b, m)
    BY <1>2, <1>6, <1>7 DEF Tag, t
  <1> QED
    BY <1>2, <1>5, <1>9, <1>11, <1>12 DEF Puts, c, t

LEMMA SetNextIs ==
  ASSUME NEW b \in BlockRec, NEW n \in DOMAIN b.tags.node, NEW next \in Int
  PROVE  Puts(b, SetNext(b, n, next), n, [Tag(b, n) EXCEPT !.next = next])
  <1> DEFINE val == [Tag(b, n) EXCEPT !.next = next]
  <1>1. Tag(b, n) \in TagRec
    BY BlockTyped
  <1>2. val \in TagRec
    BY <1>1 DEF TagRec
  <1>3. SetNext(b, n, next) = PutTag(b, n, val)
    BY DEF SetNext, PutTag, Tag
  <1> HIDE DEF val
  <1>4. Puts(b, SetNext(b, n, next), n, val)
    BY <1>2, <1>3, PutTagIs
  <1> QED
    BY <1>4 DEF val

LEMMA SetCountIs ==
  ASSUME NEW b \in BlockRec, NEW n \in DOMAIN b.tags.node, NEW k \in Nat
  PROVE  Puts(b, SetCount(b, n, k), n, [Tag(b, n) EXCEPT !.count = k])
  <1> DEFINE val == [Tag(b, n) EXCEPT !.count = k]
  <1>1. Tag(b, n) \in TagRec
    BY BlockTyped
  <1>2. val \in TagRec
    BY <1>1 DEF TagRec
  <1>3. SetCount(b, n, k) = PutTag(b, n, val)
    BY DEF SetCount, PutTag, Tag
  <1> HIDE DEF val
  <1>4. Puts(b, SetCount(b, n, k), n, val)
    BY <1>2, <1>3, PutTagIs
  <1> QED
    BY <1>4 DEF val

Retagged(tag, t, size, k) == [tag EXCEPT !.type = t, !.typesize = size, !.count = k]

LEMMA RetagIs ==
  ASSUME NEW b \in BlockRec, NEW n \in DOMAIN b.tags.node, NEW t \in Types \cup {RawType},
         NEW size \in Nat \ {0}, NEW k \in Nat
  PROVE  Puts(b, Retag(b, n, t, size, k), n, Retagged(Tag(b, n), t, size, k))
  <1> DEFINE val == Retagged(Tag(b, n), t, size, k)
  <1>1. Tag(b, n) \in TagRec
    BY BlockTyped
  <1>2. val \in TagRec
    BY <1>1 DEF TagRec, Retagged
  <1>3. Retag(b, n, t, size, k) = PutTag(b, n, val)
    BY DEF Retag, PutTag, Tag, Retagged
  <1> HIDE DEF val
  <1>4. Puts(b, Retag(b, n, t, size, k), n, val)
    BY <1>2, <1>3, PutTagIs
  <1> QED
    BY <1>4 DEF val

Moved(b, n, o) == [b EXCEPT !.tags.node[n].value.offset = o]

LEMMA MovedIs ==
  ASSUME NEW b \in BlockRec, NEW n \in DOMAIN b.tags.node, NEW o \in Nat
  PROVE  Puts(b, Moved(b, n, o), n, [Tag(b, n) EXCEPT !.offset = o])
  <1> DEFINE val == [Tag(b, n) EXCEPT !.offset = o]
  <1>1. Tag(b, n) \in TagRec
    BY BlockTyped
  <1>2. val \in TagRec
    BY <1>1 DEF TagRec
  <1>3. Moved(b, n, o) = PutTag(b, n, val)
    BY DEF Moved, PutTag, Tag
  <1> HIDE DEF val
  <1>4. Puts(b, Moved(b, n, o), n, val)
    BY <1>2, <1>3, PutTagIs
  <1> QED
    BY <1>4 DEF val


(* A tree stays good when only values change.                              *)
LEMMA AlikeGood ==
  ASSUME NEW u, NEW v, NEW D, GoodTree(u, D), Alike(u, v),
         \A m \in DOMAIN u.node : IsRed(v, m) <=> IsRed(u, m)
  PROVE  GoodTree(v, D)
  <1>1. Shape(u, D) /\ Shape(v, D) /\ Separated(u, D) /\ Shallow(u, D)
    BY AlikeShape DEF GoodTree
  <1>2. /\ DOMAIN v.node = DOMAIN u.node /\ Len(v.node) = Len(u.node) /\ v.head = u.head
        /\ \A m \in DOMAIN u.node, s \in BOOLEAN : Child(v, m, s) = Child(u, m, s)
    BY DEF Alike
  <1>3. /\ D[u.head] \subseteq DOMAIN u.node
        /\ \A m \in DOMAIN u.node, s \in BOOLEAN : Child(u, m, s) = Null \/ Child(u, m, s) \in DOMAIN u.node
        /\ u.head = Null \/ u.head \in DOMAIN u.node
    BY <1>1 DEF Shape, Linked, ChildLinks
  <1>4. ~IsRed(u, Null) /\ ~IsRed(v, Null)
    BY DEF IsRed
  <1>5. Separated(v, D)
    BY <1>1, <1>2, <1>3, <1>4 DEF Separated
  <1>6. ASSUME Len(v.node) <= 3, NEW n \in DOMAIN v.node, n # v.head
        PROVE  \E s \in BOOLEAN : n = Child(v, v.head, s)
    <2>1. PICK s \in BOOLEAN : n = Child(u, u.head, s)
      BY <1>1, <1>2, <1>6 DEF Shallow
    <2>2. D[u.head] # {} /\ u.head \in DOMAIN u.node
      <3>1. Len(u.node) \in Nat => Len(u.node) <= 4
        BY <1>2, <1>6
      <3>2. n \in D[u.head]
        BY <1>1, <1>2, <1>6, <2>1 DEF Shallow
      <3> QED
        BY <1>1, <1>3, <3>2 DEF Shape, Linked
    <2> QED
      BY <1>2, <2>1, <2>2
  <1>7. Shallow(v, D)
    BY <1>1, <1>2, <1>3, <1>6 DEF Shallow
  <1> QED
    BY <1>1, <1>5, <1>7 DEF GoodTree

LinksOf(b) == {Null, Wild} \cup DOMAIN b.tags.node

(* A tag links to a tag and has the size of its type.                      *)
GoodTag(b, tag) ==
  /\ tag.next \in LinksOf(b)
  /\ tag.typesize = IF tag.type = RawType THEN 1 ELSE SizeOf[tag.type]

(* What every write keeps.                                                 *)
Ok(b) ==
  /\ b \in BlockRec
  /\ \E D : GoodTree(b.tags, D)
  /\ b.firsttag \in {Null} \cup DOMAIN b.tags.node
  /\ \A n \in DOMAIN b.tags.node : GoodTag(b, Tag(b, n)) /\ Tag(b, n).next # n

LEMMA PutOk ==
  ASSUME NEW b, Ok(b), NEW n \in DOMAIN b.tags.node, NEW val, GoodTag(b, val), val.next # n,
         NEW c, Puts(b, c, n, val)
  PROVE  /\ Ok(c)
         /\ DOMAIN c.tags.node = DOMAIN b.tags.node
         /\ Len(c.tags.node) = Len(b.tags.node)
  <1>1. DOMAIN c.tags.node = DOMAIN b.tags.node /\ Len(c.tags.node) = Len(b.tags.node)
    BY DEF Puts, Alike
  <1>2. LinksOf(c) = LinksOf(b)
    BY <1>1 DEF LinksOf
  <1>3. c \in BlockRec /\ c.firsttag \in {Null} \cup DOMAIN c.tags.node
    BY <1>1 DEF Puts, Ok
  <1>4. \E D : GoodTree(c.tags, D)
    <2>1. PICK D : GoodTree(b.tags, D)
      BY DEF Ok
    <2>2. GoodTree(c.tags, D)
      BY <2>1, AlikeGood DEF Puts
    <2> QED
      BY <2>2
  <1>5. \A m \in DOMAIN c.tags.node : GoodTag(c, Tag(c, m)) /\ Tag(c, m).next # m
    BY <1>1, <1>2 DEF Ok, Puts, GoodTag
  <1> QED
    BY <1>1, <1>3, <1>4, <1>5 DEF Ok

(* c is b with a tag more.                                                 *)
Adds(b, c, tag) ==
  /\ c \in BlockRec
  /\ Grown(b.tags, c.tags, tag)
  /\ Tag(c, NewTag(b)) = tag
  /\ \A m \in DOMAIN b.tags.node : Tag(c, m) = Tag(b, m)
  /\ c.firsttag = b.firsttag
  /\ c.outcome = b.outcome
  /\ DOMAIN c.tags.node = DOMAIN b.tags.node \cup {NewTag(b)}
  /\ Len(c.tags.node) = Len(b.tags.node) + 1
  /\ NewTag(b) \notin DOMAIN b.tags.node /\ NewTag(b) \in Nat

LEMMA InsertAdds ==
  ASSUME NEW b \in BlockRec, NEW D, GoodTree(b.tags, D), NEW tag \in TagRec, NEW col \in BOOLEAN
  PROVE  /\ Adds(b, Insert(b, tag, col), tag)
         /\ Inserted(b.tags, D, Insert(b, tag, col).tags, tag)
  <1> DEFINE c == Insert(b, tag, col)
             t == insert(b.tags, tag, col)
  <1>1. b.tags \in TreeRec /\ NewTag(b) = Len(b.tags.node) + 1
        /\ NewTag(b) \in Nat /\ NewTag(b) \notin DOMAIN b.tags.node
    BY BlockTyped DEF NewTag
  <1>2. Inserted(b.tags, D, t, tag)
    BY <1>1, InsertIs
  <1>3. c.tags = t /\ c.firsttag = b.firsttag /\ c.outcome = b.outcome
        /\ c \in [tags : {t}, firsttag : Nat, outcome : Outcomes]
    BY DEF Insert, BlockRec
  <1> HIDE DEF c, t
  <1>4. Grown(b.tags, t, tag)
    BY <1>2 DEF Inserted
  <1>5. c \in BlockRec
    BY <1>3, <1>4 DEF BlockRec, Grown
  <1>6. Adds(b, c, tag)
    BY <1>1, <1>3, <1>4, <1>5 DEF Adds, Grown, Tag
  <1> QED
    BY <1>2, <1>3, <1>6 DEF c

LEMMA InsertOk ==
  ASSUME NEW b, Ok(b), NEW tag \in TagRec, GoodTag(b, tag), NEW col \in BOOLEAN
  PROVE  Ok(Insert(b, tag, col)) /\ Adds(b, Insert(b, tag, col), tag)
  <1> DEFINE c == Insert(b, tag, col)
  <1>1. PICK D : GoodTree(b.tags, D)
    BY DEF Ok
  <1>2. b \in BlockRec
    BY DEF Ok
  <1>3. Adds(b, c, tag) /\ Inserted(b.tags, D, c.tags, tag)
    BY <1>1, <1>2, InsertAdds
  <1> HIDE DEF c
  <1>4. /\ DOMAIN c.tags.node = DOMAIN b.tags.node \cup {NewTag(b)}
        /\ Tag(c, NewTag(b)) = tag
        /\ \A m \in DOMAIN b.tags.node : Tag(c, m) = Tag(b, m)
        /\ c.firsttag = b.firsttag
    BY <1>3 DEF Adds
  <1>5. LinksOf(b) \subseteq LinksOf(c)
    BY <1>4 DEF LinksOf
  <1>6. NewTag(b) \notin LinksOf(b)
    BY <1>2, BlockTyped DEF LinksOf
  <1>7. \A m \in DOMAIN b.tags.node : GoodTag(c, Tag(c, m)) /\ Tag(c, m).next # m
    BY <1>4, <1>5 DEF Ok, GoodTag
  <1>8. GoodTag(c, Tag(c, NewTag(b))) /\ Tag(c, NewTag(b)).next # NewTag(b)
    BY <1>4, <1>5, <1>6 DEF GoodTag
  <1>9. \E E : GoodTree(c.tags, E)
    BY <1>3 DEF Inserted
  <1>10. c \in BlockRec /\ c.firsttag \in {Null} \cup DOMAIN c.tags.node
    BY <1>3, <1>4 DEF Adds, Ok
  <1>11. Ok(c)
    BY <1>4, <1>7, <1>8, <1>9, <1>10 DEF Ok
  <1> QED
    BY <1>3, <1>11 DEF c

LEMMA SetNextOk ==
  ASSUME NEW b, Ok(b), NEW n \in DOMAIN b.tags.node, NEW next \in LinksOf(b), next # n
  PROVE  /\ Ok(SetNext(b, n, next))
         /\ DOMAIN SetNext(b, n, next).tags.node = DOMAIN b.tags.node
         /\ Len(SetNext(b, n, next).tags.node) = Len(b.tags.node)
         /\ Puts(b, SetNext(b, n, next), n, [Tag(b, n) EXCEPT !.next = next])
  <1> DEFINE val == [Tag(b, n) EXCEPT !.next = next]
             c == SetNext(b, n, next)
  <1>1. b \in BlockRec /\ GoodTag(b, Tag(b, n))
    BY DEF Ok
  <1>2. Tag(b, n) \in TagRec /\ next \in Int
    BY <1>1, BlockTyped DEF LinksOf, Null, Wild
  <1>3. GoodTag(b, val) /\ val.next # n
    BY <1>1, <1>2 DEF GoodTag, TagRec
  <1>4. Puts(b, c, n, val)
    BY <1>1, <1>2, SetNextIs
  <1> HIDE DEF c, val
  <1>5. Ok(c) /\ DOMAIN c.tags.node = DOMAIN b.tags.node /\ Len(c.tags.node) = Len(b.tags.node)
    BY <1>3, <1>4, PutOk
  <1> QED
    BY <1>4, <1>5 DEF c, val

LEMMA SetCountOk ==
  ASSUME NEW b, Ok(b), NEW n \in DOMAIN b.tags.node, NEW k \in Nat
  PROVE  /\ Ok(SetCount(b, n, k))
         /\ DOMAIN SetCount(b, n, k).tags.node = DOMAIN b.tags.node
         /\ Len(SetCount(b, n, k).tags.node) = Len(b.tags.node)
         /\ Puts(b, SetCount(b, n, k), n, [Tag(b, n) EXCEPT !.count = k])
  <1> DEFINE val == [Tag(b, n) EXCEPT !.count = k]
             c == SetCount(b, n, k)
  <1>1. b \in BlockRec /\ GoodTag(b, Tag(b, n)) /\ Tag(b, n).next # n
    BY DEF Ok
  <1>2. Tag(b, n) \in TagRec
    BY <1>1, BlockTyped
  <1>3. GoodTag(b, val) /\ val.next # n
    BY <1>1, <1>2 DEF GoodTag, TagRec
  <1>4. Puts(b, c, n, val)
    BY <1>1, SetCountIs
  <1> HIDE DEF c, val
  <1>5. Ok(c) /\ DOMAIN c.tags.node = DOMAIN b.tags.node /\ Len(c.tags.node) = Len(b.tags.node)
    BY <1>3, <1>4, PutOk
  <1> QED
    BY <1>4, <1>5 DEF c, val

LEMMA MovedOk ==
  ASSUME NEW b, Ok(b), NEW n \in DOMAIN b.tags.node, NEW o \in Nat
  PROVE  /\ Ok(Moved(b, n, o))
         /\ DOMAIN Moved(b, n, o).tags.node = DOMAIN b.tags.node
         /\ Len(Moved(b, n, o).tags.node) = Len(b.tags.node)
         /\ Puts(b, Moved(b, n, o), n, [Tag(b, n) EXCEPT !.offset = o])
  <1> DEFINE val == [Tag(b, n) EXCEPT !.offset = o]
             c == Moved(b, n, o)
  <1>1. b \in BlockRec /\ GoodTag(b, Tag(b, n)) /\ Tag(b, n).next # n
    BY DEF Ok
  <1>2. Tag(b, n) \in TagRec
    BY <1>1, BlockTyped
  <1>3. GoodTag(b, val) /\ val.next # n
    BY <1>1, <1>2 DEF GoodTag, TagRec
  <1>4. Puts(b, c, n, val)
    BY <1>1, MovedIs
  <1> HIDE DEF c, val
  <1>5. Ok(c) /\ DOMAIN c.tags.node = DOMAIN b.tags.node /\ Len(c.tags.node) = Len(b.tags.node)
    BY <1>3, <1>4, PutOk
  <1> QED
    BY <1>4, <1>5 DEF c, val
(* The size that goes with a tag's type.                                   *)
Sized(t, size) ==
  /\ t \in Types \cup {RawType} /\ size \in Nat \ {0}
  /\ size = IF t = RawType THEN 1 ELSE SizeOf[t]

LEMMA RetagOk ==
  ASSUME NEW b, Ok(b), NEW n \in DOMAIN b.tags.node, NEW t, NEW size, Sized(t, size), NEW k \in Nat
  PROVE  /\ Ok(Retag(b, n, t, size, k))
         /\ DOMAIN Retag(b, n, t, size, k).tags.node = DOMAIN b.tags.node
         /\ Len(Retag(b, n, t, size, k).tags.node) = Len(b.tags.node)
         /\ Puts(b, Retag(b, n, t, size, k), n, Retagged(Tag(b, n), t, size, k))
  <1> DEFINE val == Retagged(Tag(b, n), t, size, k)
             c == Retag(b, n, t, size, k)
  <1>1. b \in BlockRec /\ GoodTag(b, Tag(b, n)) /\ Tag(b, n).next # n
    BY DEF Ok
  <1>2. Tag(b, n) \in TagRec
    BY <1>1, BlockTyped
  <1>3. val.next = Tag(b, n).next /\ val.type = t /\ val.typesize = size
    BY <1>2 DEF TagRec, Retagged
  <1>4. GoodTag(b, val) /\ val.next # n
    BY <1>1, <1>3 DEF GoodTag, Sized
  <1>5. Puts(b, c, n, val)
    BY <1>1, RetagIs DEF Sized
  <1> HIDE DEF c, val
  <1>6. Ok(c) /\ DOMAIN c.tags.node = DOMAIN b.tags.node /\ Len(c.tags.node) = Len(b.tags.node)
    BY <1>4, <1>5, PutOk
  <1> QED
    BY <1>5, <1>6 DEF c, val

LEMMA EndOk ==
  ASSUME NEW b, Ok(b), NEW how \in Outcomes
  PROVE  /\ Ok(End(b, how)) /\ End(b, how).tags = b.tags /\ End(b, how).firsttag = b.firsttag
         /\ End(b, how).outcome = how
         /\ \A n : Tag(End(b, how), n) = Tag(b, n)
  <1> DEFINE c == End(b, how)
  <1>1. c.tags = b.tags /\ c.firsttag = b.firsttag /\ c.outcome = how /\ c \in BlockRec
    BY DEF End, Ok, BlockRec
  <1> HIDE DEF c
  <1>2. LinksOf(c) = LinksOf(b) /\ \A n : Tag(c, n) = Tag(b, n)
    BY <1>1 DEF LinksOf, Tag
  <1>3. Ok(c)
    BY <1>1, <1>2 DEF Ok, GoodTag
  <1> QED
    BY <1>1, <1>2, <1>3 DEF c


-----------------------------------------------------------------------------
(***************************************************************************)
(* Every write keeps the block in order, whatever it cuts, and leaves a    *)
(* tag for the object written.                                             *)
(***************************************************************************)

(* A write that removes a tag has executed an undefined operation.         *)
LEMMA RemoveEnds ==
  ASSUME NEW b, Ok(b), NEW n
  PROVE  /\ AfterRemove(remove(b.tags, n).outcome) \in {"ub_deleted", "ub_wild", "ub_null"}
         /\ Ok(DropAffected(b, n))
         /\ DropAffected(b, n).tags = b.tags
         /\ DropAffected(b, n).firsttag = b.firsttag
         /\ DropAffected(b, n).outcome \in {"ub_deleted", "ub_wild", "ub_null"}
  <1> DEFINE t == b.tags
             how == AfterRemove(remove(t, n).outcome)
  <1>1. \A u, h : Ran(u, h).outcome = h
    BY DEF Ran
  <1>2. \A u, m : Deletes(u, m).outcome \in {"run", "ub_deleted"}
    BY <1>1 DEF Deletes
  <1>3. \A u, m, c : balance_blacks(u, m, c).outcome \in {"run", "ub_null"}
    BY <1>1 DEF balance_blacks
  <1>4. remove(t, n).outcome \in {"run", "ub_deleted", "ub_wild", "ub_null"}
    <2> DEFINE two == Child(t, n, FALSE) # Null
               gone == IF two THEN Leftmost(t, Child(t, n, TRUE)) ELSE n
               moved == IF two THEN [t EXCEPT !.node[n].value = t.node[gone].value] ELSE t
               balanced == balance_blacks(moved, gone, Child(moved, gone, TRUE))
    <2>1. remove(t, n) =
            IF n \in t.dead THEN Ran(t, "ub_deleted")
            ELSE IF Child(t, n, FALSE) # Null /\ Child(t, n, TRUE) = Null THEN Ran(t, "ub_wild")
            ELSE IF balanced.outcome # "run" THEN balanced
            ELSE Deletes(balanced.tree, gone)
      BY DEF remove
    <2>2. balanced.outcome \in {"run", "ub_null"}
      BY <1>3
    <2> HIDE DEF balanced, gone, t
    <2>3. \/ remove(t, n) = Ran(t, "ub_deleted")
          \/ remove(t, n) = Ran(t, "ub_wild")
          \/ remove(t, n) = balanced
          \/ remove(t, n) = Deletes(balanced.tree, gone)
      BY <2>1
    <2>4. CASE remove(t, n) = Ran(t, "ub_deleted") \/ remove(t, n) = Ran(t, "ub_wild")
      BY <1>1, <2>4
    <2>5. CASE remove(t, n) = balanced
      BY <2>2, <2>5
    <2>6. CASE remove(t, n) = Deletes(balanced.tree, gone)
      BY <1>2, <2>6
    <2> QED
      BY <2>3, <2>4, <2>5, <2>6
  <1>5. how \in {"ub_deleted", "ub_wild", "ub_null"}
    BY <1>4 DEF AfterRemove
  <1>6. DropAffected(b, n) = End(b, how) /\ how \in Outcomes
    BY <1>5 DEF DropAffected, Outcomes
  <1> HIDE DEF how
  <1>7. Ok(End(b, how)) /\ End(b, how).tags = b.tags /\ End(b, how).firsttag = b.firsttag
        /\ End(b, how).outcome = how
    BY <1>6, EndOk
  <1> QED
    BY <1>5, <1>6, <1>7 DEF how

(* Rounding up: the first object of size s behind d bytes.                 *)
LEMMA RoundUp ==
  ASSUME NEW d \in Nat, NEW s \in Nat \ {0}, NEW k \in Nat, d < s * k
  PROVE  LET q == (d + s - 1) \div s
         IN q \in Nat /\ q <= k /\ d <= q * s /\ q * s \in Nat /\ q * s - d \in Nat /\ k - q \in Nat
  <1> DEFINE x == d + s - 1
             q == x \div s
             r == x % s
  <1>1. x \in Nat
    OBVIOUS
  <1>2. q \in Int /\ r \in 0 .. (s - 1) /\ x = s * q + r
    BY <1>1, DivMod
  <1> HIDE DEF q, r
  <1>3. q >= 0
    <2>1. q <= -1 => s * q <= -s
      BY <1>2
    <2> QED
      BY <1>1, <1>2, <2>1
  <1>4. q <= k
    <2>1. q >= k + 1 => s * q >= s * (k + 1)
      BY <1>2, <1>3
    <2>2. s * (k + 1) = s * k + s
      OBVIOUS
    <2>3. s * k \in Int /\ s * q \in Int
      BY <1>2
    <2> QED
      BY <1>2, <2>1, <2>2, <2>3
  <1>5. q * s = s * q /\ s * q \in Int /\ d <= s * q
    BY <1>2
  <1>6. q \in Nat /\ q * s \in Nat
    BY <1>2, <1>3, <1>5
  <1> QED
    BY <1>3, <1>4, <1>5, <1>6 DEF q

(* A step that may change the tag n and add a tag.                         *)
Touches(b, c, n) ==
  /\ Ok(c)
  /\ DOMAIN b.tags.node \subseteq DOMAIN c.tags.node
  /\ \A m \in DOMAIN b.tags.node : m # n => Tag(c, m) = Tag(b, m)
  /\ c.firsttag = b.firsttag
  /\ c.outcome = b.outcome

LEMMA PutTouches ==
  ASSUME NEW b, NEW n, NEW c, NEW val, Puts(b, c, n, val), Ok(c)
  PROVE  Touches(b, c, n)
  BY DEF Touches, Puts, Alike

LEMMA TouchesTwice ==
  ASSUME NEW b, NEW c, NEW d, NEW n, Touches(b, c, n), Touches(c, d, n)
  PROVE  Touches(b, d, n)
  BY DEF Touches

LEMMA RawTagIs ==
  ASSUME NEW b, NEW o \in Nat, NEW size \in Nat, NEW next \in LinksOf(b), next \in Int
  PROVE  mem_tag(o, size, RawType, next) \in TagRec /\ GoodTag(b, mem_tag(o, size, RawType, next))
  BY DEF mem_tag, TagRec, GoodTag

LEMMA NewTagIs ==
  ASSUME NEW b, NEW o \in Nat, NEW t \in Types, NEW next \in LinksOf(b), next \in Int
  PROVE  /\ mem_tag(o, SizeOf[t], t, next) = [offset |-> o, type |-> t, next |-> next, typesize |-> SizeOf[t], count |-> 1]
         /\ mem_tag(o, SizeOf[t], t, next) \in TagRec
         /\ GoodTag(b, mem_tag(o, SizeOf[t], t, next))
         /\ SizeOf[t] \in Nat \ {0} /\ t # RawType
  BY TagAssumption DEF mem_tag, TagRec, GoodTag

LEMMA RawRetagOk ==
  ASSUME NEW b, Ok(b), NEW n \in DOMAIN b.tags.node, NEW k \in Nat
  PROVE  /\ Ok(Retag(b, n, RawType, 1, k))
         /\ DOMAIN Retag(b, n, RawType, 1, k).tags.node = DOMAIN b.tags.node
         /\ Touches(b, Retag(b, n, RawType, 1, k), n)
  <1> DEFINE t == RawType
             size == 1
  <1>1. Sized(t, size)
    BY DEF Sized
  <1> HIDE DEF t, size
  <1>2. /\ Ok(Retag(b, n, t, size, k))
        /\ DOMAIN Retag(b, n, t, size, k).tags.node = DOMAIN b.tags.node
        /\ Puts(b, Retag(b, n, t, size, k), n, Retagged(Tag(b, n), t, size, k))
    BY <1>1, RetagOk
  <1>3. Touches(b, Retag(b, n, t, size, k), n)
    BY <1>2, PutTouches
  <1> QED
    BY <1>2, <1>3 DEF t, size

LEMMA CutFrontOk ==
  ASSUME NEW b, Ok(b), NEW affected \in DOMAIN b.tags.node, NEW endpos \in Nat, NEW junk \in Junk,
         Tag(b, affected).offset < endpos, TagEnd(b, affected) > endpos
  PROVE  Touches(b, CutFront(b, affected, endpos, junk), affected)
  <1> DEFINE a == Tag(b, affected)
             firstvalid == (endpos - a.offset + a.typesize - 1) \div a.typesize
             behind == a.offset + firstvalid * a.typesize
             newcount == a.count - firstvalid
             moved == Moved(b, affected, endpos)
             raw == mem_tag(behind, newcount, RawType, junk.next)
             split == Insert(moved, raw, junk.splitcol)
             rest == behind - endpos
             short == Retag(split, affected, RawType, 1, rest)
  <1>1. b \in BlockRec
    BY DEF Ok
  <1>2. a \in TagRec
    BY <1>1, BlockTyped
  <1>3. /\ a.offset \in Nat /\ a.typesize \in Nat \ {0} /\ a.count \in Nat
        /\ endpos - a.offset \in Nat /\ endpos - a.offset < a.typesize * a.count
    <2>1. a.offset \in Nat /\ a.typesize \in Nat \ {0} /\ a.count \in Nat
      BY <1>2 DEF TagRec
    <2>2. a.offset < endpos /\ a.offset + a.typesize * a.count > endpos
      BY DEF TagEnd
    <2>3. a.typesize * a.count \in Int
      BY <2>1
    <2> QED
      BY <2>1, <2>2, <2>3
  <1> HIDE DEF a
  <1>4. /\ firstvalid \in Nat /\ firstvalid * a.typesize \in Nat /\ newcount \in Nat
        /\ firstvalid * a.typesize - (endpos - a.offset) \in Nat
    BY <1>3, RoundUp
  <1>5. behind \in Nat /\ rest \in Nat /\ newcount \in Nat
    BY <1>3, <1>4
  <1>6. /\ Ok(moved) /\ Touches(b, moved, affected)
        /\ DOMAIN moved.tags.node = DOMAIN b.tags.node /\ Len(moved.tags.node) = Len(b.tags.node)
    BY MovedOk, PutTouches
  <1>7. LinksOf(moved) = LinksOf(b) /\ NewTag(moved) = NewTag(b)
    BY <1>6 DEF LinksOf, NewTag
  <1>8. CutFront(b, affected, endpos, junk) =
          IF behind = endpos THEN SetCount(moved, affected, newcount)
          ELSE IF newcount = 0 THEN Retag(moved, affected, RawType, 1, 0)
          ELSE SetNext(short, affected, NewTag(b))
    BY DEF CutFront, Moved, a
  <1>9. junk.splitcol \in BOOLEAN /\ junk.next \in LinksOf(moved) /\ junk.next \in Int
    BY DEF Junk, LinksOf, Null, Wild
  <1> HIDE DEF behind, newcount, moved, firstvalid, rest
  <1>10. CASE behind = endpos
    <2> DEFINE c == SetCount(moved, affected, newcount)
    <2>1. Ok(c) /\ Puts(moved, c, affected, [Tag(moved, affected) EXCEPT !.count = newcount])
      BY <1>5, <1>6, SetCountOk
    <2>2. Touches(moved, c, affected)
      BY <2>1, PutTouches
    <2> QED
      BY <1>6, <1>8, <1>10, <2>2, TouchesTwice
  <1>11. CASE behind # endpos /\ newcount = 0
    <2> DEFINE c == Retag(moved, affected, RawType, 1, 0)
    <2>1. 0 \in Nat
      OBVIOUS
    <2>2. Touches(moved, c, affected)
      BY <1>6, <2>1, RawRetagOk
    <2> QED
      BY <1>6, <1>8, <1>11, <2>2, TouchesTwice
  <1>12. CASE behind # endpos /\ newcount # 0
    <2>1. raw \in TagRec /\ GoodTag(moved, raw)
      BY <1>5, <1>9, RawTagIs
    <2> HIDE DEF raw
    <2>2. Ok(split) /\ Adds(moved, split, raw)
      BY <1>6, <1>9, <2>1, InsertOk
    <2>3. Touches(moved, split, affected) /\ NewTag(b) \in DOMAIN split.tags.node /\ affected \in DOMAIN split.tags.node
          /\ NewTag(b) # affected
      BY <1>6, <1>7, <2>2 DEF Touches, Adds
    <2> HIDE DEF split
    <2>4. Ok(short) /\ DOMAIN short.tags.node = DOMAIN split.tags.node
      BY <1>5, <2>2, <2>3, RawRetagOk
    <2>5. Touches(split, short, affected)
      BY <1>5, <2>2, <2>3, RawRetagOk
    <2> HIDE DEF short
    <2> DEFINE c == SetNext(short, affected, NewTag(b))
    <2>6. NewTag(b) \in LinksOf(short)
      BY <2>3, <2>4 DEF LinksOf
    <2>7. Ok(c) /\ Puts(short, c, affected, [Tag(short, affected) EXCEPT !.next = NewTag(b)])
      BY <2>3, <2>4, <2>6, SetNextOk
    <2>8. Touches(short, c, affected)
      BY <2>7, PutTouches
    <2> HIDE DEF c
    <2>9. Touches(b, c, affected)
      BY <1>6, <2>3, <2>5, <2>8, TouchesTwice
    <2> QED
      BY <1>8, <1>12, <2>9 DEF c
  <1> QED
    BY <1>10, <1>11, <1>12


SameRun(x, y) == x.offset = y.offset /\ x.type = y.type /\ x.typesize = y.typesize /\ x.count = y.count

(* deal_with_end leaves what the tag extended says of the block alone, if  *)
(* it returns.                                                             *)
Dealt(b, c, extended) ==
  /\ Ok(c)
  /\ DOMAIN b.tags.node \subseteq DOMAIN c.tags.node
  /\ c.firsttag = b.firsttag
  /\ c.outcome = "run" => SameRun(Tag(c, extended), Tag(b, extended))

LEMMA SetNextDealt ==
  ASSUME NEW b, Ok(b), NEW n \in DOMAIN b.tags.node, NEW next \in LinksOf(b), next # n
  PROVE  /\ Dealt(b, SetNext(b, n, next), n)
         /\ SameRun(Tag(SetNext(b, n, next), n), Tag(b, n))
  <1> DEFINE c == SetNext(b, n, next)
  <1>1. /\ Ok(c) /\ DOMAIN c.tags.node = DOMAIN b.tags.node
        /\ Puts(b, c, n, [Tag(b, n) EXCEPT !.next = next])
    BY SetNextOk
  <1> HIDE DEF c
  <1>2. Tag(b, n) \in TagRec
    BY BlockTyped DEF Ok
  <1>3. SameRun(Tag(c, n), Tag(b, n)) /\ c.firsttag = b.firsttag
    BY <1>1, <1>2 DEF Puts, SameRun, TagRec
  <1> QED
    BY <1>1, <1>3 DEF Dealt, c

LEMMA DealOk ==
  ASSUME NEW b, Ok(b), NEW extended \in DOMAIN b.tags.node, NEW affected \in LinksOf(b), affected # extended,
         NEW endpos \in Nat, NEW junk \in Junk
  PROVE  Dealt(b, deal_with_end(b, extended, affected, endpos, junk), extended)
  <1> DEFINE c == deal_with_end(b, extended, affected, endpos, junk)
             a == Tag(b, affected)
             e == Tag(b, extended)
  <1>1. b \in BlockRec
    BY DEF Ok
  <1>2. Null \in LinksOf(b) /\ extended # Null /\ Null # Wild
    BY <1>1, BlockTyped DEF LinksOf, Null, Wild
  <1>3. CASE affected = Null
    <2>1. c = SetNext(b, extended, Null)
      BY <1>3 DEF deal_with_end
    <2> QED
      BY <1>2, <2>1, SetNextDealt
  <1>4. CASE affected = Wild
    <2>1. c = End(b, "ub_wild")
      BY <1>2, <1>4 DEF deal_with_end
    <2>2. "ub_wild" \in Outcomes
      BY DEF Outcomes
    <2>3. Ok(c) /\ c.tags = b.tags /\ c.firsttag = b.firsttag /\ c.outcome = "ub_wild"
      BY <2>1, <2>2, EndOk
    <2> HIDE DEF c
    <2> QED
      BY <2>3 DEF Dealt, c
  <1>5. CASE affected \in DOMAIN b.tags.node
    <2>1. affected # Null /\ affected # Wild /\ a \in TagRec /\ e \in TagRec
      BY <1>1, <1>5, BlockTyped
    <2>2. a.offset \in Nat /\ a.count \in Nat /\ e.count \in Nat
      BY <2>1 DEF TagRec
    <2>3. c = CASE a.offset = endpos /\ a.type = e.type ->
                     DropAffected(SetCount(b, extended, e.count + a.count), affected)
                [] a.offset = endpos /\ a.type # e.type -> SetNext(b, extended, affected)
                [] a.offset > endpos -> SetNext(b, extended, affected)
                [] a.offset < endpos /\ TagEnd(b, affected) > endpos ->
                     SetNext(CutFront(b, affected, endpos, junk), extended, affected)
                [] OTHER -> DropAffected(b, affected)
      BY <2>1 DEF deal_with_end
    <2> HIDE DEF c, a, e
    <2>4. Dealt(b, SetNext(b, extended, affected), extended)
      BY SetNextDealt
    <2>5. Dealt(b, DropAffected(b, affected), extended)
      <3> DEFINE d == DropAffected(b, affected)
      <3>1. Ok(d) /\ d.tags = b.tags /\ d.firsttag = b.firsttag /\ d.outcome # "run"
        BY RemoveEnds
      <3> HIDE DEF d
      <3>2. Dealt(b, d, extended)
        BY <3>1 DEF Dealt
      <3> QED
        BY <3>2 DEF d
    <2>6. Dealt(b, DropAffected(SetCount(b, extended, e.count + a.count), affected), extended)
      <3> DEFINE k == e.count + a.count
                 s == SetCount(b, extended, k)
                 d == DropAffected(s, affected)
      <3>1. k \in Nat
        BY <2>2
      <3> HIDE DEF k
      <3>2. Ok(s) /\ DOMAIN s.tags.node = DOMAIN b.tags.node
            /\ Puts(b, s, extended, [Tag(b, extended) EXCEPT !.count = k])
        BY <3>1, SetCountOk
      <3>3. s.firsttag = b.firsttag
        BY <3>2 DEF Puts
      <3> HIDE DEF s
      <3>4. Ok(d) /\ d.tags = s.tags /\ d.firsttag = s.firsttag /\ d.outcome # "run"
        BY <3>2, RemoveEnds
      <3> HIDE DEF d
      <3>5. Dealt(b, d, extended)
        BY <3>2, <3>3, <3>4 DEF Dealt
      <3> QED
        BY <3>5 DEF d, s, k
    <2>7. CASE a.offset < endpos /\ TagEnd(b, affected) > endpos
      <3> DEFINE f == CutFront(b, affected, endpos, junk)
                 d == SetNext(f, extended, affected)
      <3>1. Touches(b, f, affected)
        BY <1>5, <2>7, CutFrontOk DEF a
      <3> HIDE DEF f
      <3>2. Ok(f) /\ extended \in DOMAIN f.tags.node /\ affected \in LinksOf(f) /\ Tag(f, extended) = e
            /\ f.firsttag = b.firsttag /\ DOMAIN b.tags.node \subseteq DOMAIN f.tags.node
        BY <1>5, <3>1 DEF Touches, LinksOf, e
      <3>3. Dealt(f, d, extended)
        BY <3>2, SetNextDealt
      <3> HIDE DEF d
      <3>4. Dealt(b, d, extended)
        BY <3>2, <3>3 DEF Dealt, e
      <3>5. c = d
        BY <2>2, <2>3, <2>7 DEF d, f
      <3> QED
        BY <3>4, <3>5 DEF c
    <2>8. CASE ~(a.offset < endpos /\ TagEnd(b, affected) > endpos)
      <3>1. \/ c = SetNext(b, extended, affected)
            \/ c = DropAffected(b, affected)
            \/ c = DropAffected(SetCount(b, extended, e.count + a.count), affected)
        BY <2>3, <2>8
      <3> QED
        BY <2>4, <2>5, <2>6, <3>1 DEF c
    <2> QED
      BY <2>7, <2>8
  <1> QED
    BY <1>3, <1>4, <1>5 DEF LinksOf

LEMMA FirstOk ==
  ASSUME NEW b, Ok(b), NEW n \in DOMAIN b.tags.node
  PROVE  LET c == [b EXCEPT !.firsttag = n]
         IN Ok(c) /\ c.tags = b.tags /\ c.firsttag = n /\ c.outcome = b.outcome /\ \A m : Tag(c, m) = Tag(b, m)
  <1> DEFINE c == [b EXCEPT !.firsttag = n]
  <1>1. n \in Nat
    BY BlockTyped DEF Ok
  <1>2. c.tags = b.tags /\ c.firsttag = n /\ c.outcome = b.outcome /\ c \in BlockRec
    BY <1>1 DEF Ok, BlockRec
  <1> HIDE DEF c
  <1>3. LinksOf(c) = LinksOf(b) /\ \A m : Tag(c, m) = Tag(b, m)
    BY <1>2 DEF LinksOf, Tag
  <1>4. Ok(c)
    BY <1>2, <1>3 DEF Ok, GoodTag
  <1> QED
    BY <1>2, <1>3, <1>4 DEF c


(* x says that an object of type t lies at offset.                         *)
Says(x, t, offset) ==
  /\ x.type = t
  /\ x.typesize = SizeOf[t]
  /\ \E q \in Nat : offset = x.offset + q * SizeOf[t] /\ q < x.count

Written(c, t, offset) ==
  /\ Ok(c)
  /\ c.outcome = "run" => \E n \in DOMAIN c.tags.node : Says(Tag(c, n), t, offset)

LEMMA SaysSame ==
  ASSUME NEW x, NEW y, NEW t, NEW offset, Says(x, t, offset), SameRun(y, x)
  PROVE  Says(y, t, offset)
  BY DEF Says, SameRun

LEMMA NewSays ==
  ASSUME NEW t \in Types, NEW offset \in Nat, NEW next
  PROVE  Says(mem_tag(offset, SizeOf[t], t, next), t, offset)
  <1> DEFINE x == mem_tag(offset, SizeOf[t], t, next)
  <1>1. SizeOf[t] \in Nat /\ t # RawType
    BY TagAssumption
  <1>2. x.type = t /\ x.typesize = SizeOf[t] /\ x.offset = offset /\ x.count = 1
    BY <1>1 DEF mem_tag
  <1> HIDE DEF x
  <1>3. 0 \in Nat /\ offset = x.offset + 0 * SizeOf[t] /\ 0 < x.count
    BY <1>1, <1>2
  <1> QED
    BY <1>2, <1>3 DEF Says, x

(* What the new nodes of a write hold is one of a few things.              *)
LEMMA JunkIs ==
  ASSUME NEW b, Ok(b), NEW junk \in Junk
  PROVE  /\ junk.col \in BOOLEAN /\ junk.splitcol \in BOOLEAN
         /\ junk.next \in LinksOf(b) /\ junk.next \in Int
         /\ \A n \in LinksOf(b) : n \in Int
  BY BlockTyped DEF Junk, LinksOf, Null, Wild, Ok

LEMMA InsertNew ==
  ASSUME NEW b, Ok(b), NEW t \in Types, NEW offset \in Nat, NEW next \in LinksOf(b), NEW col \in BOOLEAN
  PROVE  LET c == Insert(b, mem_tag(offset, SizeOf[t], t, next), col)
         IN /\ Ok(c)
            /\ Adds(b, c, mem_tag(offset, SizeOf[t], t, next))
            /\ NewTag(b) \in DOMAIN c.tags.node
            /\ DOMAIN c.tags.node = DOMAIN b.tags.node \cup {NewTag(b)}
            /\ LinksOf(b) \subseteq LinksOf(c)
            /\ NewTag(b) \notin LinksOf(b)
            /\ Says(Tag(c, NewTag(b)), t, offset)
            /\ c.outcome = b.outcome
  <1> DEFINE tag == mem_tag(offset, SizeOf[t], t, next)
             c == Insert(b, tag, col)
  <1>1. tag \in TagRec /\ GoodTag(b, tag) /\ Says(tag, t, offset)
    <2>1. next \in Int
      BY BlockTyped DEF LinksOf, Null, Wild, Ok
    <2> QED
      BY <2>1, NewTagIs, NewSays
  <1> HIDE DEF tag
  <1>2. Ok(c) /\ Adds(b, c, tag)
    BY <1>1, InsertOk
  <1>3. DOMAIN c.tags.node = DOMAIN b.tags.node \cup {NewTag(b)} /\ Tag(c, NewTag(b)) = tag /\ c.outcome = b.outcome
    BY <1>2 DEF Adds
  <1>4. NewTag(b) \notin LinksOf(b)
    BY BlockTyped DEF LinksOf, Ok
  <1> HIDE DEF c
  <1>5. LinksOf(b) \subseteq LinksOf(c)
    BY <1>3 DEF LinksOf
  <1> QED
    BY <1>1, <1>2, <1>3, <1>4, <1>5 DEF c, tag

LEMMA WriteFirstOk ==
  ASSUME NEW b, Ok(b), NEW t \in Types, NEW offset \in Nat, NEW junk \in Junk
  PROVE  Written(WriteFirst(b, t, SizeOf[t], offset, junk), t, offset)
  <1> DEFINE c == Insert(b, mem_tag(offset, SizeOf[t], t, junk.next), junk.col)
             new == NewTag(b)
             d == deal_with_end(c, new, b.firsttag, offset + SizeOf[t], junk)
             e == [d EXCEPT !.firsttag = new]
  <1>1. WriteFirst(b, t, SizeOf[t], offset, junk) = e
    BY DEF WriteFirst
  <1>2. /\ Ok(c) /\ new \in DOMAIN c.tags.node /\ LinksOf(b) \subseteq LinksOf(c)
        /\ new \notin LinksOf(b) /\ Says(Tag(c, new), t, offset)
    BY JunkIs, InsertNew
  <1>3. b.firsttag \in LinksOf(b) /\ offset + SizeOf[t] \in Nat
    BY TagAssumption DEF Ok, LinksOf
  <1> HIDE DEF c, new
  <1>4. Dealt(c, d, new)
    BY <1>2, <1>3, DealOk
  <1> HIDE DEF d
  <1>5. Ok(d) /\ new \in DOMAIN d.tags.node /\ (d.outcome = "run" => Says(Tag(d, new), t, offset))
    BY <1>2, <1>4, SaysSame DEF Dealt
  <1>6. Ok(e) /\ e.tags = d.tags /\ e.outcome = d.outcome /\ Tag(e, new) = Tag(d, new)
    BY <1>5, FirstOk
  <1> HIDE DEF e
  <1>7. Written(e, t, offset)
    BY <1>5, <1>6 DEF Written
  <1> QED
    BY <1>1, <1>7

LEMMA WriteBehindOk ==
  ASSUME NEW b, Ok(b), NEW start \in DOMAIN b.tags.node, NEW t \in Types, NEW offset \in Nat, NEW junk \in Junk
  PROVE  Written(WriteBehind(b, start, t, SizeOf[t], offset, junk), t, offset)
  <1> DEFINE c == Insert(b, mem_tag(offset, SizeOf[t], t, junk.next), junk.col)
             new == NewTag(b)
             next == Tag(b, start).next
             d == deal_with_end(c, new, next, offset + SizeOf[t], junk)
             e == SetNext(d, start, new)
  <1>1. WriteBehind(b, start, t, SizeOf[t], offset, junk) = e
    BY DEF WriteBehind
  <1>2. /\ Ok(c) /\ new \in DOMAIN c.tags.node /\ LinksOf(b) \subseteq LinksOf(c)
        /\ new \notin LinksOf(b) /\ Says(Tag(c, new), t, offset) /\ DOMAIN c.tags.node = DOMAIN b.tags.node \cup {new}
    BY JunkIs, InsertNew
  <1>3. next \in LinksOf(b) /\ offset + SizeOf[t] \in Nat /\ start # new
    BY <1>2, TagAssumption DEF Ok, GoodTag, LinksOf
  <1> HIDE DEF c, new, next
  <1>4. Dealt(c, d, new)
    BY <1>2, <1>3, DealOk
  <1> HIDE DEF d
  <1>5. /\ Ok(d) /\ new \in DOMAIN d.tags.node /\ start \in DOMAIN d.tags.node /\ new \in LinksOf(d)
        /\ d.outcome = "run" => Says(Tag(d, new), t, offset)
    BY <1>2, <1>4, SaysSame DEF Dealt, LinksOf
  <1>6. /\ Ok(e) /\ DOMAIN e.tags.node = DOMAIN d.tags.node
        /\ Puts(d, e, start, [Tag(d, start) EXCEPT !.next = new])
    BY <1>3, <1>5, SetNextOk
  <1>7. e.outcome = d.outcome /\ Tag(e, new) = Tag(d, new)
    BY <1>3, <1>5, <1>6 DEF Puts
  <1> HIDE DEF e
  <1>8. Written(e, t, offset)
    BY <1>5, <1>6, <1>7 DEF Written
  <1> QED
    BY <1>1, <1>8

LEMMA WriteBetweenOk ==
  ASSUME NEW b, Ok(b), NEW front \in DOMAIN b.tags.node, NEW start_next \in LinksOf(b),
         NEW t \in Types, NEW offset \in Nat, NEW junk \in Junk
  PROVE  Written(WriteBetween(b, front, start_next, t, SizeOf[t], offset, junk), t, offset)
  <1> DEFINE c == Insert(b, mem_tag(offset, SizeOf[t], t, start_next), junk.col)
             new == NewTag(b)
             d == SetNext(c, front, new)
             e == deal_with_end(d, new, start_next, offset + SizeOf[t], junk)
  <1>1. WriteBetween(b, front, start_next, t, SizeOf[t], offset, junk) = e
    BY DEF WriteBetween
  <1>2. /\ Ok(c) /\ new \in DOMAIN c.tags.node /\ LinksOf(b) \subseteq LinksOf(c)
        /\ new \notin LinksOf(b) /\ Says(Tag(c, new), t, offset) /\ DOMAIN c.tags.node = DOMAIN b.tags.node \cup {new}
    BY JunkIs, InsertNew
  <1>3. front \in DOMAIN c.tags.node /\ front # new /\ new \in LinksOf(c) /\ offset + SizeOf[t] \in Nat
    BY <1>2, TagAssumption DEF LinksOf
  <1> HIDE DEF c, new
  <1>4. /\ Ok(d) /\ DOMAIN d.tags.node = DOMAIN c.tags.node
        /\ Puts(c, d, front, [Tag(c, front) EXCEPT !.next = new])
    BY <1>2, <1>3, SetNextOk
  <1>5. Tag(d, new) = Tag(c, new) /\ new \in DOMAIN d.tags.node /\ start_next \in LinksOf(d) /\ start_next # new
    BY <1>2, <1>3, <1>4 DEF Puts, LinksOf
  <1> HIDE DEF d
  <1>6. Dealt(d, e, new)
    BY <1>3, <1>4, <1>5, DealOk
  <1> HIDE DEF e
  <1>7. Written(e, t, offset)
    BY <1>2, <1>5, <1>6, SaysSame DEF Written, Dealt
  <1> QED
    BY <1>1, <1>7


LEMMA StartIs ==
  ASSUME NEW b, Ok(b), NEW start \in DOMAIN b.tags.node
  PROVE  LET s == Tag(b, start)
         IN /\ s \in TagRec /\ s.offset \in Nat /\ s.typesize \in Nat \ {0} /\ s.count \in Nat
            /\ s.type \in Types \cup {RawType} /\ s.next \in LinksOf(b) /\ s.next # start
            /\ s.typesize = IF s.type = RawType THEN 1 ELSE SizeOf[s.type]
            /\ TagEnd(b, start) = s.offset + s.typesize * s.count /\ TagEnd(b, start) \in Nat
  <1>1. Tag(b, start) \in TagRec /\ GoodTag(b, Tag(b, start)) /\ Tag(b, start).next # start
    BY BlockTyped DEF Ok
  <1> QED
    BY <1>1 DEF TagRec, GoodTag, TagEnd

LEMMA WriteExtendingOk ==
  ASSUME NEW b, Ok(b), NEW start \in DOMAIN b.tags.node, NEW t \in Types, NEW offset \in Nat, NEW junk \in Junk,
         offset = TagEnd(b, start), t = Tag(b, start).type
  PROVE  Written(WriteExtending(b, start, junk), t, offset)
  <1> DEFINE s == Tag(b, start)
             k == s.count + 1
             c == SetCount(b, start, k)
             endpos == TagEnd(b, start) + s.typesize
             d == deal_with_end(c, start, s.next, endpos, junk)
  <1>1. /\ s \in TagRec /\ s.offset \in Nat /\ s.typesize \in Nat \ {0} /\ s.count \in Nat
        /\ s.next \in LinksOf(b) /\ s.next # start
        /\ s.typesize = SizeOf[t]
        /\ TagEnd(b, start) = s.offset + s.typesize * s.count
        /\ TagEnd(b, start) \in Nat
    BY StartIs, TagAssumption
  <1>2. WriteExtending(b, start, junk) = d
    BY DEF WriteExtending
  <1>3. k \in Nat /\ endpos \in Nat
    BY <1>1
  <1> HIDE DEF s, k, endpos
  <1>4. Ok(c) /\ DOMAIN c.tags.node = DOMAIN b.tags.node /\ Puts(b, c, start, [Tag(b, start) EXCEPT !.count = k])
    BY <1>3, SetCountOk
  <1> HIDE DEF c
  <1>5. Tag(c, start) = [s EXCEPT !.count = k] /\ s.next \in LinksOf(c)
    BY <1>1, <1>4 DEF Puts, LinksOf, s
  <1>6. Dealt(c, d, start)
    BY <1>1, <1>3, <1>4, <1>5, DealOk
  <1> HIDE DEF d
  <1>7. Says(Tag(c, start), t, offset)
    <2> DEFINE x == Tag(c, start)
    <2>1. x.type = s.type /\ x.typesize = s.typesize /\ x.offset = s.offset /\ x.count = k
      BY <1>1, <1>5 DEF TagRec
    <2> HIDE DEF x
    <2>2. s.typesize * s.count = s.count * SizeOf[t]
      BY <1>1
    <2>3. s.count \in Nat /\ offset = x.offset + s.count * SizeOf[t] /\ s.count < x.count
      BY <1>1, <2>1, <2>2 DEF k
    <2> QED
      BY <1>1, <2>1, <2>3 DEF Says, x, s
  <1>8. Written(d, t, offset)
    BY <1>4, <1>6, <1>7, SaysSame DEF Written, Dealt
  <1> QED
    BY <1>2, <1>8

(* start becomes a tag for the object written.                             *)
LEMMA RetagNew ==
  ASSUME NEW b, Ok(b), NEW n \in DOMAIN b.tags.node, NEW t \in Types
  PROVE  LET c == Retag(b, n, t, SizeOf[t], 1)
         IN /\ Ok(c) /\ DOMAIN c.tags.node = DOMAIN b.tags.node /\ LinksOf(c) = LinksOf(b)
            /\ Puts(b, c, n, Retagged(Tag(b, n), t, SizeOf[t], 1))
            /\ Says(Tag(c, n), t, Tag(b, n).offset)
  <1> DEFINE c == Retag(b, n, t, SizeOf[t], 1)
             x == Tag(c, n)
  <1>1. SizeOf[t] \in Nat \ {0} /\ SizeOf[t] = (IF t = RawType THEN 1 ELSE SizeOf[t]) /\ 1 \in Nat
    BY TagAssumption
  <1>2. Ok(c) /\ DOMAIN c.tags.node = DOMAIN b.tags.node /\ Puts(b, c, n, Retagged(Tag(b, n), t, SizeOf[t], 1))
    <2>1. Sized(t, SizeOf[t])
      BY <1>1 DEF Sized
    <2> QED
      BY <2>1, RetagOk
  <1>3. x.type = t /\ x.typesize = SizeOf[t] /\ x.offset = Tag(b, n).offset /\ x.count = 1 /\ x.offset \in Nat
    <2> DEFINE s == Tag(b, n)
    <2>1. x = Retagged(s, t, SizeOf[t], 1)
      BY <1>2 DEF Puts
    <2>2. s \in TagRec /\ s.offset \in Nat
      BY StartIs
    <2> HIDE DEF s, x
    <2>3. x.type = t /\ x.typesize = SizeOf[t] /\ x.offset = s.offset /\ x.count = 1
      BY <2>1, <2>2 DEF Retagged, TagRec
    <2> QED
      BY <2>2, <2>3 DEF s
  <1> HIDE DEF c, x
  <1>4. 0 \in Nat /\ Tag(b, n).offset = x.offset + 0 * SizeOf[t] /\ 0 < x.count
    BY <1>1, <1>3
  <1>5. Says(x, t, Tag(b, n).offset)
    BY <1>3, <1>4 DEF Says
  <1>6. LinksOf(c) = LinksOf(b)
    BY <1>2 DEF LinksOf
  <1> QED
    BY <1>2, <1>5, <1>6 DEF c, x

LEMMA WriteOverFrontOk ==
  ASSUME NEW b, Ok(b), NEW start \in DOMAIN b.tags.node, NEW t \in Types, NEW offset \in Nat, NEW junk \in Junk,
         offset = Tag(b, start).offset
  PROVE  Written(WriteOverFront(b, start, t, SizeOf[t], offset, junk), t, offset)
  <1> DEFINE s == Tag(b, start)
             endpos == offset + SizeOf[t]
             new == NewTag(b)
             tag == mem_tag(endpos, s.typesize, s.type, s.next)
             left == Insert(b, tag, junk.col)
             c == Retag(b, start, t, SizeOf[t], 1)
             d == deal_with_end(c, start, s.next, endpos, junk)
             e == Retag(left, start, t, SizeOf[t], 1)
             f == SetNext(e, start, new)
  <1>1. /\ s \in TagRec /\ s.offset \in Nat /\ s.typesize \in Nat \ {0} /\ s.count \in Nat
        /\ s.type \in Types \cup {RawType} /\ s.next \in LinksOf(b) /\ s.next # start
        /\ s.typesize = IF s.type = RawType THEN 1 ELSE SizeOf[s.type]
    BY StartIs
  <1>2. endpos \in Nat /\ new \notin LinksOf(b) /\ junk.col \in BOOLEAN /\ s.next \in Int /\ s.offset = offset
    <2>1. endpos \in Nat
      BY TagAssumption
    <2>2. new \notin LinksOf(b)
      BY BlockTyped DEF Ok, LinksOf
    <2>3. junk.col \in BOOLEAN
      BY JunkIs
    <2>4. s.next \in Int
      BY <1>1 DEF TagRec
    <2> QED
      BY <2>1, <2>2, <2>3, <2>4
  <1>3. WriteOverFront(b, start, t, SizeOf[t], offset, junk) = IF TagEnd(b, start) <= endpos THEN d ELSE f
    BY DEF WriteOverFront
  <1> HIDE DEF s, endpos, new
  <1>4. Written(d, t, offset)
    <2>1. Ok(c) /\ DOMAIN c.tags.node = DOMAIN b.tags.node /\ LinksOf(c) = LinksOf(b) /\ Says(Tag(c, start), t, offset)
      BY RetagNew DEF s
    <2> HIDE DEF c
    <2>2. Dealt(c, d, start)
      BY <1>1, <1>2, <2>1, DealOk
    <2> HIDE DEF d
    <2> QED
      BY <2>1, <2>2, SaysSame DEF Written, Dealt
  <1>5. Written(f, t, offset)
    <2>1. tag \in TagRec /\ GoodTag(b, tag)
      BY <1>1, <1>2 DEF mem_tag, TagRec, GoodTag
    <2> HIDE DEF tag
    <2>2. Ok(left) /\ Adds(b, left, tag)
      BY <1>2, <2>1, InsertOk
    <2>3. /\ DOMAIN left.tags.node = DOMAIN b.tags.node \cup {new} /\ Tag(left, start) = s
          /\ left.outcome = b.outcome
      BY <2>2 DEF Adds, new, s
    <2> HIDE DEF left
    <2>4. /\ Ok(e) /\ DOMAIN e.tags.node = DOMAIN left.tags.node /\ LinksOf(e) = LinksOf(left)
          /\ Says(Tag(e, start), t, offset)
      BY <1>2, <2>2, <2>3, RetagNew
    <2>5. new \in LinksOf(e) /\ new # start /\ start \in DOMAIN e.tags.node
      BY <1>2, <2>3, <2>4 DEF LinksOf
    <2> HIDE DEF e
    <2>6. Dealt(e, f, start) /\ SameRun(Tag(f, start), Tag(e, start))
      BY <2>4, <2>5, SetNextDealt
    <2> HIDE DEF f
    <2> QED
      BY <2>4, <2>5, <2>6, SaysSame DEF Written, Dealt
  <1> QED
    BY <1>3, <1>4, <1>5

LEMMA WriteInsideOk ==
  ASSUME NEW b, Ok(b), NEW start \in DOMAIN b.tags.node, NEW t \in Types, NEW offset \in Nat, NEW junk \in Junk,
         offset >= Tag(b, start).offset
  PROVE  Written(WriteInside(b, start, t, SizeOf[t], offset, junk), t, offset)
  <1> DEFINE s == Tag(b, start)
             lastvalid == (offset - s.offset) \div s.typesize
             cut == s.offset + lastvalid * s.typesize
             kept == SetCount(b, start, lastvalid)
             rawtag == mem_tag(cut, offset - cut, RawType, junk.next)
             new == NewTag(b)
             c == Insert(kept, rawtag, junk.splitcol)
             d == SetNext(c, start, new)
  <1>1. /\ s \in TagRec /\ s.offset \in Nat /\ s.typesize \in Nat \ {0} /\ s.count \in Nat
        /\ s.next \in LinksOf(b) /\ s.next # start
    BY StartIs
  <1>2. /\ WriteInside(b, start, t, SizeOf[t], offset, junk) =
             IF cut = offset THEN WriteBetween(kept, start, s.next, t, SizeOf[t], offset, junk)
             ELSE WriteBetween(d, new, new, t, SizeOf[t], offset, junk)
        /\ offset >= s.offset
    BY DEF WriteInside
  <1> HIDE DEF s
  <1>3. lastvalid \in Nat /\ cut \in Nat /\ offset - cut \in Nat
    <2> DEFINE o == offset - s.offset
               z == s.typesize
               r == o % z
    <2>1. o \in Nat /\ z \in Nat \ {0}
      BY <1>1, <1>2
    <2>5. lastvalid = o \div z
      OBVIOUS
    <2> HIDE DEF o, z, lastvalid
    <2>6. o \div z \in Int /\ r \in 0 .. (z - 1) /\ o = z * (o \div z) + r
      BY <2>1, DivMod
    <2>2. lastvalid \in Int /\ r \in 0 .. (s.typesize - 1) /\ o = s.typesize * lastvalid + r
      BY <2>5, <2>6 DEF z
    <2> HIDE DEF r
    <2>3. lastvalid >= 0
      <3>1. lastvalid <= -1 => s.typesize * lastvalid <= -s.typesize
        BY <1>1, <2>2
      <3> QED
        BY <1>1, <2>1, <2>2, <3>1
    <2>4. lastvalid * s.typesize = s.typesize * lastvalid /\ s.typesize * lastvalid \in Nat
      BY <1>1, <2>2, <2>3
    <2> QED
      BY <1>1, <1>2, <2>2, <2>3, <2>4 DEF o
  <1> HIDE DEF lastvalid
  <1>4. /\ Ok(kept) /\ DOMAIN kept.tags.node = DOMAIN b.tags.node /\ Len(kept.tags.node) = Len(b.tags.node)
    BY <1>3, SetCountOk
  <1>5. LinksOf(kept) = LinksOf(b) /\ NewTag(kept) = new
    BY <1>4 DEF LinksOf, NewTag
  <1> HIDE DEF kept, cut, new
  <1>6. CASE cut = offset
    BY <1>1, <1>2, <1>4, <1>5, <1>6, WriteBetweenOk
  <1>7. CASE cut # offset
    <2>1. junk.splitcol \in BOOLEAN /\ junk.next \in LinksOf(kept) /\ junk.next \in Int
      BY <1>4, JunkIs
    <2>2. rawtag \in TagRec /\ GoodTag(kept, rawtag)
      BY <1>3, <2>1, RawTagIs
    <2> HIDE DEF rawtag
    <2>3. Ok(c) /\ Adds(kept, c, rawtag)
      BY <1>4, <2>1, <2>2, InsertOk
    <2>4. DOMAIN c.tags.node = DOMAIN b.tags.node \cup {new} /\ new \notin DOMAIN b.tags.node
      BY <1>4, <1>5, <2>3 DEF Adds
    <2> HIDE DEF c
    <2>5. start \in DOMAIN c.tags.node /\ new \in LinksOf(c) /\ new # start
      BY <2>4 DEF LinksOf
    <2>6. Ok(d) /\ DOMAIN d.tags.node = DOMAIN c.tags.node
      BY <2>3, <2>5, SetNextOk
    <2>7. new \in DOMAIN d.tags.node /\ new \in LinksOf(d)
      BY <2>4, <2>6 DEF LinksOf
    <2> HIDE DEF d
    <2> QED
      BY <1>2, <1>7, <2>6, <2>7, WriteBetweenOk
  <1> QED
    BY <1>6, <1>7

(* offset is inside the k objects of size s from o on, at the start of one. *)
AtObject(o, s, k, offset) ==
  /\ o \in Nat /\ s \in Nat \ {0} /\ k \in Nat /\ offset \in Nat
  /\ o <= offset /\ offset < o + s * k /\ (offset - o) % s = 0

(* A whole number of objects in front of offset.                           *)
LEMMA WholeObjects ==
  ASSUME NEW o, NEW s, NEW k, NEW offset, AtObject(o, s, k, offset)
  PROVE  \E q \in Nat : offset = o + q * s /\ q < k
  <1> DEFINE d == offset - o
             q == d \div s
  <1> USE DEF AtObject
  <1>1. d \in Nat /\ d < s * k
    <2>1. s * k \in Int
      OBVIOUS
    <2> QED
      BY <2>1
  <1>2. q \in Int /\ d = s * q + (d % s)
    BY <1>1, DivMod
  <1>3. d = s * q
    BY <1>2
  <1>4. offset = o + d
    OBVIOUS
  <1> HIDE DEF q, d
  <1>5. q >= 0 /\ q < k
    <2>1. q <= -1 => s * q <= -s
      BY <1>2
    <2>2. q >= k => s * q >= s * k
      BY <1>2
    <2>3. s * k \in Int
      OBVIOUS
    <2> QED
      BY <1>1, <1>2, <1>3, <2>1, <2>2, <2>3
  <1>6. q * s = s * q
    BY <1>2
  <1> QED
    BY <1>2, <1>3, <1>4, <1>5, <1>6

LEMMA UpdateOk ==
  ASSUME NEW b, Ok(b), NEW t \in Types, NEW offset \in Nat, NEW junk \in Junk
  PROVE  Written(update_tag_write(b, t, SizeOf[t], offset, junk), t, offset)
  <1> DEFINE start == findBelow(b.tags, offset)
             s == Tag(b, start)
             c == WriteAt(b, start, t, SizeOf[t], offset, junk)
  <1>1. c = update_tag_write(b, t, SizeOf[t], offset, junk)
    BY DEF update_tag_write
  <1>2. PICK D : GoodTree(b.tags, D)
    BY DEF Ok
  <1>3. start # Null => start \in DOMAIN b.tags.node /\ s.offset <= offset
    <2>1. b.tags \in TreeRec /\ Shape(b.tags, D)
      BY <1>2 DEF Ok, BlockRec, GoodTree
    <2>2. start # Null => start \in D[b.tags.head] /\ Key(b.tags, start) <= offset
      BY <2>1, FindBelowIs
    <2>3. start \in D[b.tags.head] => start \in DOMAIN b.tags.node
      BY <2>1, HeldChild
    <2> QED
      BY <2>2, <2>3 DEF Key, sortval, Tag
  <1> HIDE DEF start
  <1>4. CASE start = Null
    <2>1. c = WriteFirst(b, t, SizeOf[t], offset, junk)
      BY <1>4 DEF WriteAt
    <2> QED
      BY <1>1, <2>1, WriteFirstOk
  <1>5. CASE start # Null
    <2>1. /\ start \in DOMAIN b.tags.node /\ s.offset <= offset
          /\ s.offset \in Nat /\ s.typesize \in Nat \ {0} /\ s.count \in Nat
          /\ s.typesize = IF s.type = RawType THEN 1 ELSE SizeOf[s.type]
          /\ TagEnd(b, start) = s.offset + s.typesize * s.count /\ TagEnd(b, start) \in Nat
      BY <1>3, <1>5, StartIs
    <2>2. c = IF offset = TagEnd(b, start) /\ t = s.type THEN WriteExtending(b, start, junk)
              ELSE IF offset >= TagEnd(b, start) THEN WriteBehind(b, start, t, SizeOf[t], offset, junk)
              ELSE IF (offset - s.offset) % s.typesize = 0 /\ t = s.type THEN b
              ELSE IF offset = s.offset THEN WriteOverFront(b, start, t, SizeOf[t], offset, junk)
              ELSE WriteInside(b, start, t, SizeOf[t], offset, junk)
      BY <1>5 DEF WriteAt
    <2>3. CASE offset < TagEnd(b, start) /\ (offset - s.offset) % s.typesize = 0 /\ t = s.type
      <3>1. c = b
        BY <2>1, <2>2, <2>3
      <3>2. t # RawType /\ s.typesize = SizeOf[t]
        BY <2>1, <2>3, TagAssumption
      <3> HIDE DEF s
      <3> DEFINE o == s.offset
                 z == s.typesize
                 k == s.count
      <3>3. o \in Nat /\ z \in Nat \ {0} /\ k \in Nat /\ o <= offset /\ (offset - o) % z = 0
        BY <2>1, <2>3
      <3>4. offset < o + z * k
        BY <2>1, <2>3
      <3> HIDE DEF o, z, k
      <3>5. \E q \in Nat : offset = o + q * z /\ q < k
        <4>1. AtObject(o, z, k, offset)
          BY <3>3, <3>4 DEF AtObject
        <4> QED
          BY <4>1, WholeObjects, Zenon
      <3>6. \E q \in Nat : offset = s.offset + q * s.typesize /\ q < s.count
        BY <3>5 DEF o, z, k
      <3>7. Says(s, t, offset)
        BY <2>3, <3>2, <3>6 DEF Says
      <3> QED
        BY <1>1, <2>1, <3>1, <3>7 DEF Written, s
    <2>4. CASE ~(offset < TagEnd(b, start) /\ (offset - s.offset) % s.typesize = 0 /\ t = s.type)
      <3>1. CASE offset = TagEnd(b, start) /\ t = s.type
        BY <1>1, <2>1, <2>2, <3>1, WriteExtendingOk
      <3>2. CASE offset >= TagEnd(b, start) /\ ~(offset = TagEnd(b, start) /\ t = s.type)
        BY <1>1, <2>1, <2>2, <3>2, WriteBehindOk
      <3>3. CASE offset < TagEnd(b, start) /\ offset = s.offset
        <4>1. c = WriteOverFront(b, start, t, SizeOf[t], offset, junk)
          BY <2>1, <2>2, <2>4, <3>3
        <4> QED
          BY <1>1, <2>1, <3>3, <4>1, WriteOverFrontOk
      <3>4. CASE offset < TagEnd(b, start) /\ offset # s.offset
        <4>1. c = WriteInside(b, start, t, SizeOf[t], offset, junk) /\ offset >= s.offset
          BY <2>1, <2>2, <2>4, <3>4
        <4> QED
          BY <1>1, <2>1, <4>1, WriteInsideOk
      <3> QED
        BY <2>1, <3>1, <3>2, <3>3, <3>4
    <2> QED
      BY <2>3, <2>4
  <1> QED
    BY <1>4, <1>5


-----------------------------------------------------------------------------
(***************************************************************************)
(* The inductive invariant of every block, however it is written.          *)
(***************************************************************************)
TagInv ==
  /\ Ok(block)
  /\ DOMAIN bytes = 0 .. (BlockSize - 1)

LEMMA NoTagsOk == Ok(NoTags)
  <1> DEFINE t == EmptyTree
             D == [c \in {Null} |-> {}]
  <1>1. t \in TreeRec /\ t.node = <<>> /\ t.head = Null /\ DOMAIN t.node = {} /\ Len(t.node) = 0
    BY DEF EmptyTree, TreeRec, Null
  <1>2. NoTags.tags = t /\ NoTags.firsttag = Null /\ NoTags \in BlockRec
    BY <1>1 DEF NoTags, BlockRec, Outcomes, Null
  <1> HIDE DEF t
  <1>3. ChildLinks(t) = {Null}
    BY <1>1 DEF ChildLinks
  <1>4. D[Null] = {} /\ D \in [ChildLinks(t) -> SUBSET DOMAIN t.node]
    BY <1>1, <1>3
  <1> HIDE DEF D
  <1>5. Linked(t, D) /\ Branching(t, D) /\ Separated(t, D)
    BY <1>1, <1>3, <1>4 DEF Linked, Branching, Separated
  <1>6. Shallow(t, D)
    BY <1>1, <1>4 DEF Shallow
  <1>7. GoodTree(t, D)
    BY <1>5, <1>6 DEF GoodTree, Shape
  <1> QED
    BY <1>1, <1>2, <1>7 DEF Ok

LEMMA WriteKeeps ==
  ASSUME TagInv, NEW t \in Types, NEW offset \in 0 .. (BlockSize + 1), NEW junk \in Junk, Write(t, offset, junk)
  PROVE  /\ TagInv'
         /\ InBounds(t, offset) => Written(block', t, offset)
  <1>1. offset \in Nat
    BY TagAssumption
  <1>2. CASE InBounds(t, offset)
    <2>1. block' = update_tag_write(block, t, SizeOf[t], offset, junk) /\ DOMAIN bytes' = DOMAIN bytes
      BY <1>2 DEF Write
    <2>2. Written(block', t, offset)
      BY <1>1, <2>1, UpdateOk DEF TagInv
    <2> QED
      BY <2>1, <2>2 DEF Written, TagInv
  <1>3. CASE ~InBounds(t, offset)
    <2>1. block' = End(block, "exit") /\ bytes' = bytes
      BY <1>3 DEF Write
    <2>2. Ok(block')
      BY <2>1, EndOk DEF TagInv, Outcomes
    <2> QED
      BY <1>3, <2>1, <2>2 DEF TagInv
  <1> QED
    BY <1>2, <1>3

LEMMA TagInvHolds == Spec => []TagInv
  <1>1. Init => TagInv
    BY NoTagsOk DEF Init, TagInv
  <1>2. TagInv /\ [Next]_vars => TagInv'
    <2> SUFFICES ASSUME TagInv, [Next]_vars
                 PROVE  TagInv'
      OBVIOUS
    <2>1. CASE Next
      BY <2>1, WriteKeeps DEF Next
    <2>2. CASE UNCHANGED vars
      BY <2>2 DEF vars, TagInv
    <2> QED
      BY <2>1, <2>2
  <1> QED
    BY <1>1, <1>2, PTL DEF Spec

LEMMA OkTypes ==
  ASSUME TagInv
  PROVE  TagsTypeOK
  <1> DEFINE N == DOMAIN block.tags.node
  <1>1. block \in BlockRec /\ block.outcome \in Outcomes /\ block.firsttag \in {Null} \cup N
    BY DEF TagInv, Ok, BlockRec
  <1>2. PICK D : GoodTree(block.tags, D)
    BY DEF TagInv, Ok
  <1>3. block.tags.head \in {Null} \cup N
    BY <1>2 DEF GoodTree, Shape, Linked, ChildLinks
  <1>4. ASSUME NEW n \in N
        PROVE  /\ Tag(block, n) \in TagType
               /\ block.tags.node[n].col \in BOOLEAN
               /\ block.tags.node[n].child \in ({Null} \cup N) \X ({Null} \cup N)
    <2> DEFINE x == Tag(block, n)
               y == block.tags.node[n]
    <2>1. x \in TagRec /\ x.next \in Links
      BY <1>1, BlockTyped DEF TagInv, Ok, GoodTag, LinksOf, Links
    <2>2. x \in TagType
      <3> HIDE DEF x
      <3> QED
        BY <2>1 DEF TagRec, TagType
    <2>3. y \in NodeRec
      BY <1>1, BlockTyped, TreeTyped
    <2>4. \A s \in BOOLEAN : y.child[Side(s)] \in {Null} \cup N
      BY <1>2 DEF GoodTree, Shape, Linked, ChildLinks, Child
    <2> HIDE DEF y
    <2>5. y.child[1] \in {Null} \cup N /\ y.child[2] \in {Null} \cup N
      BY <2>4 DEF Side
    <2>6. y.col \in BOOLEAN /\ y.child \in Nat \X Nat
      BY <2>3 DEF NodeRec
    <2>7. y.child = <<y.child[1], y.child[2]>>
      BY <2>6
    <2>8. y.child \in ({Null} \cup N) \X ({Null} \cup N)
      BY <2>5, <2>7
    <2> QED
      BY <2>2, <2>6, <2>8 DEF y
  <1> QED
    BY <1>1, <1>3, <1>4 DEF TagsTypeOK

(* However a block is written, the links of its tree and of its list stay  *)
(* inside the nodes allocated, and no size or count becomes negative.      *)
THEOREM TagsTyped == Spec => []TagsTypeOK
  BY TagInvHolds, OkTypes, PTL

(* insert never finds a red parent without a grandparent: the root is      *)
(* black and no red node has a red child, whatever colour the memory of a  *)
(* new node held and however many nodes the rotations have dropped.        *)
THEOREM RedsAlwaysSeparated == Spec => []RedsSeparated
  <1>1. TagInv => RedsSeparated
    <2> SUFFICES ASSUME TagInv
                 PROVE  RedsSeparated
      OBVIOUS
    <2> DEFINE t == block.tags
    <2>1. PICK D : GoodTree(t, D)
      BY DEF TagInv, Ok
    <2>2. t \in TreeRec
      BY BlockTyped DEF TagInv, Ok
    <2> HIDE DEF t
    <2>3. InTree(t) = D[t.head]
      BY <2>1, <2>2, InTreeIs DEF GoodTree
    <2>4. ASSUME NEW n \in InTree(t), t.node[n].col
          PROVE  n # t.head /\ ~IsRed(t, Child(t, n, FALSE)) /\ ~IsRed(t, Child(t, n, TRUE))
      <3>1. n \in DOMAIN t.node
        BY <2>1, <2>3 DEF GoodTree, Shape, Linked
      <3>2. IsRed(t, n)
        BY <2>2, <2>4, <3>1, TreeTyped DEF IsRed
      <3> QED
        BY <2>1, <2>3, <3>2 DEF GoodTree, Separated
    <2> QED
      BY <2>4 DEF RedsSeparated, t
  <1> QED
    BY <1>1, TagInvHolds, PTL

(* Until a block has more than four tags the rotations drop none of them:  *)
(* a lookup sees every tag.                                                *)
THEOREM SmallBlocksAlwaysIndexed == Spec => []SmallBlocksIndexed
  <1>1. TagInv => SmallBlocksIndexed
    <2> SUFFICES ASSUME TagInv, Len(block.tags.node) <= 4
                 PROVE  InTree(block.tags) = DOMAIN block.tags.node
      BY DEF SmallBlocksIndexed
    <2>1. PICK D : GoodTree(block.tags, D)
      BY DEF TagInv, Ok
    <2>2. block.tags \in TreeRec
      BY BlockTyped DEF TagInv, Ok
    <2> QED
      BY <2>1, <2>2, InTreeIs DEF GoodTree, Shallow
  <1> QED
    BY <1>1, TagInvHolds, PTL

(* A byte of the object that x says lies at offset.                        *)
LEMMA SaysByte ==
  ASSUME NEW x \in TagRec, NEW t \in Types, NEW offset \in Nat, Says(x, t, offset), NEW i \in Span(t, offset)
  PROVE  /\ x.type = t /\ x.offset <= i
         /\ i < x.offset + x.typesize * x.count
         /\ (i - x.offset) % x.typesize = i - offset
  <1> DEFINE z == SizeOf[t]
             o == x.offset
             k == x.count
             d == i - offset
  <1>1. z \in Nat \ {0} /\ x.type = t /\ x.typesize = z /\ o \in Nat /\ k \in Nat
    BY TagAssumption DEF Says, TagRec
  <1>2. PICK q \in Nat : offset = o + q * z /\ q < k
    BY DEF Says
  <1>3. d \in 0 .. (z - 1) /\ i = offset + d
    BY <1>1 DEF Span
  <1> HIDE DEF z, o, k, d
  <1>4. q * z = z * q /\ q * z \in Nat
    BY <1>1, <1>2
  <1>5. z * (q + 1) <= z * k /\ z * (q + 1) = z * q + z /\ z * k \in Nat
    BY <1>1, <1>2
  <1>6. i \in Nat /\ o <= i /\ i < o + z * k
    BY <1>1, <1>2, <1>3, <1>4, <1>5
  <1>7. i - o = d + z * q
    BY <1>1, <1>2, <1>3, <1>4
  <1>8. (d + z * q) % z = d % z
    <2>1. d \in Int /\ q \in Int /\ z \in Nat \ {0}
      BY <1>1, <1>2, <1>3
    <2> QED
      BY <2>1, ModShift
  <1>9. d % z = d
    BY <1>1, <1>3, ModSmall
  <1> QED
    BY <1>1, <1>6, <1>7, <1>8, <1>9 DEF o, k, d

(* A write that returns leaves a tag that describes the object written,    *)
(* with its type and its place, whatever the write cut or overwrote and    *)
(* whatever the tree has lost.                                             *)
THEOREM WritesTagged == Spec => LastWriteTagged
  <1> DEFINE A == \A i \in DOMAIN bytes :
                    (block'.outcome = "run" /\ bytes'[i] # bytes[i]) =>
                      \E n \in DOMAIN block'.tags.node :
                        /\ Tag(block', n).type = bytes'[i].type
                        /\ Tag(block', n).offset <= i
                        /\ i < TagEnd(block', n)
                        /\ (i - Tag(block', n).offset) % Tag(block', n).typesize = i - bytes'[i].at
  <1>1. TagInv /\ [Next]_vars => [A]_vars
    <2> SUFFICES ASSUME TagInv, Next
                 PROVE  A
      OBVIOUS
    <2> SUFFICES ASSUME NEW i \in DOMAIN bytes, block'.outcome = "run", bytes'[i] # bytes[i]
                 PROVE  \E n \in DOMAIN block'.tags.node :
                          /\ Tag(block', n).type = bytes'[i].type
                          /\ Tag(block', n).offset <= i
                          /\ i < TagEnd(block', n)
                          /\ (i - Tag(block', n).offset) % Tag(block', n).typesize = i - bytes'[i].at
      OBVIOUS
    <2>1. PICK t \in Types, offset \in 0 .. (BlockSize + 1), junk \in Junk : Write(t, offset, junk)
      BY DEF Next
    <2>2. InBounds(t, offset) /\ i \in Span(t, offset) /\ bytes'[i] = [type |-> t, at |-> offset] /\ offset \in Nat
      BY <2>1, TagAssumption DEF Write
    <2>3. Written(block', t, offset)
      BY <2>1, <2>2, WriteKeeps
    <2>4. PICK n \in DOMAIN block'.tags.node : Says(Tag(block', n), t, offset)
      BY <2>3 DEF Written
    <2> DEFINE x == Tag(block', n)
    <2>5. x \in TagRec
      BY <2>3, BlockTyped DEF Written, Ok
    <2>6. /\ x.type = t /\ x.offset <= i /\ i < x.offset + x.typesize * x.count
          /\ (i - x.offset) % x.typesize = i - offset
      <3> HIDE DEF x
      <3>1. Says(x, t, offset)
        BY <2>4 DEF x
      <3> QED
        BY <2>2, <2>5, <3>1, SaysByte
    <2> QED
      BY <2>2, <2>6 DEF TagEnd
  <1> QED
    BY <1>1, TagInvHolds, PTL DEF Spec, LastWriteTagged


-----------------------------------------------------------------------------
(***************************************************************************)
(* Blocks written tidily.  The tree stays ordered and every tag, in the    *)
(* tree or lost from it, says what was written.                            *)
(***************************************************************************)
Held(b) == InTree(b.tags)

Ordered(b) == \E D : GoodTree(b.tags, D) /\ Sorted(b.tags, D)

LEMMA HeldIs ==
  ASSUME NEW b \in BlockRec, NEW D, GoodTree(b.tags, D)
  PROVE  /\ Held(b) = D[b.tags.head]
         /\ Held(b) \subseteq DOMAIN b.tags.node
         /\ Len(b.tags.node) <= 4 => Held(b) = DOMAIN b.tags.node
  <1>1. Held(b) = D[b.tags.head]
    BY BlockTyped, InTreeIs DEF GoodTree, Held
  <1> QED
    BY <1>1 DEF GoodTree, Shape, Linked, Shallow

(* Changing a tag leaves the tree ordered, if its offset stays or the tree *)
(* does not hold it.                                                       *)
LEMMA PutOrdered ==
  ASSUME NEW b \in BlockRec, Ordered(b), NEW n \in DOMAIN b.tags.node, NEW val, NEW c, Puts(b, c, n, val),
         n \in Held(b) => val.offset = Tag(b, n).offset
  PROVE  Ordered(c) /\ Held(c) = Held(b)
  <1> DEFINE t == b.tags
             u == c.tags
  <1>1. PICK D : GoodTree(t, D) /\ Sorted(t, D)
    BY DEF Ordered
  <1>2. Alike(t, u) /\ GoodTree(u, D) /\ c \in BlockRec
    BY <1>1, AlikeGood DEF Puts
  <1>3. Held(b) = D[t.head] /\ Held(c) = D[u.head] /\ D[t.head] \subseteq DOMAIN t.node
    BY <1>1, <1>2, HeldIs
  <1>4. \A m \in D[t.head] : Key(u, m) = Key(t, m)
    BY <1>3 DEF Puts, Key, sortval, Tag
  <1> HIDE DEF t, u
  <1>5. /\ u.head = t.head
        /\ \A m \in DOMAIN t.node, s \in BOOLEAN : Child(u, m, s) = Child(t, m, s)
    BY <1>2 DEF Alike
  <1>6. \A m \in D[t.head], s \in BOOLEAN : D[Child(t, m, s)] \subseteq D[t.head]
    <2>1. Linked(t, D)
      BY <1>1 DEF GoodTree, Shape
    <2>2. t.head \in DOMAIN t.node \/ D[t.head] = {}
      BY <2>1 DEF Linked, ChildLinks
    <2> QED
      BY <1>3, <2>1, <2>2 DEF Linked
  <1>7. Sorted(u, D)
    <2>1. \A m \in D[t.head], s \in BOOLEAN : \A x \in D[Child(t, m, s)] : Beyond(s, Key(t, x), Key(t, m))
      BY <1>1, SortedSides
    <2>2. \A m \in D[u.head], s \in BOOLEAN : \A x \in D[Child(u, m, s)] : Beyond(s, Key(u, x), Key(u, m))
      BY <1>3, <1>4, <1>5, <1>6, <2>1
    <2> QED
      BY <2>2, SortedSides
  <1> QED
    BY <1>2, <1>3, <1>5, <1>7 DEF Ordered, u

(* So does a new tag at an offset where the tree has none.                 *)
LEMMA InsertOrdered ==
  ASSUME NEW b \in BlockRec, Ordered(b), NEW tag \in TagRec, NEW col \in BOOLEAN,
         \A x \in Held(b) : Tag(b, x).offset # tag.offset
  PROVE  LET c == Insert(b, tag, col)
         IN Ordered(c) /\ NewTag(b) \in Held(c) /\ Held(c) \subseteq Held(b) \cup {NewTag(b)}
  <1> DEFINE c == Insert(b, tag, col)
             t == b.tags
             v == c.tags
  <1>1. PICK D : GoodTree(t, D) /\ Sorted(t, D)
    BY DEF Ordered
  <1>2. Adds(b, c, tag) /\ Inserted(t, D, v, tag)
    BY <1>1, InsertAdds
  <1>3. c \in BlockRec
    BY <1>2 DEF Adds
  <1> HIDE DEF c
  <1>4. PICK E : GoodTree(v, E) /\ Holds(t, D, v, E, sortval(tag))
    BY <1>2 DEF Inserted
  <1>5. Held(b) = D[t.head] /\ Held(c) = E[v.head]
    BY <1>1, <1>3, <1>4, HeldIs
  <1>6. \A x \in D[t.head] : Key(t, x) # sortval(tag)
    BY <1>5 DEF Key, sortval, Tag
  <1>7. Sorted(v, E) /\ NewTag(b) \in E[v.head] /\ E[v.head] \subseteq D[t.head] \cup {NewTag(b)}
    BY <1>1, <1>4, <1>6 DEF Holds, NewTag
  <1>8. Ordered(c)
    BY <1>4, <1>7 DEF Ordered
  <1> QED
    BY <1>5, <1>7, <1>8 DEF c

(* A lookup returns the nearest tag at or below an offset of those held.   *)
Nearest(b, S, offset, start) ==
  /\ start = Null \/ (start \in Held(b) /\ Tag(b, start).offset <= offset)
  /\ \A x \in S : Tag(b, x).offset <= offset => start # Null /\ Tag(b, x).offset <= Tag(b, start).offset

LEMMA LookupNearest ==
  ASSUME NEW b \in BlockRec, Ordered(b), NEW offset \in Nat
  PROVE  Nearest(b, Held(b), offset, findBelow(b.tags, offset))
  <1> DEFINE t == b.tags
             r == findBelow(t, offset)
  <1>1. PICK D : GoodTree(t, D) /\ Sorted(t, D)
    BY DEF Ordered
  <1>2. Held(b) = D[t.head] /\ t \in TreeRec
    BY <1>1, HeldIs, BlockTyped
  <1>3. /\ r # Null => r \in D[t.head] /\ Key(t, r) <= offset
        /\ \A x \in D[t.head] : Key(t, x) <= offset => r # Null /\ Key(t, x) <= Key(t, r)
    <2> HIDE DEF t
    <2> QED
      BY <1>1, <1>2, FindBelowIs DEF GoodTree
  <1>4. \A x : Key(t, x) = Tag(b, x).offset
    BY DEF Key, sortval, Tag
  <1> HIDE DEF t, r
  <1>5. Nearest(b, Held(b), offset, r)
    BY <1>2, <1>3, <1>4 DEF Nearest
  <1> QED
    BY <1>5 DEF r, t


(* The bytes that x covers hold the objects that x says lie there.         *)
Fits(x, B) ==
  /\ x.type \in Types
  /\ x.count # 0
  /\ \A i \in Nat : x.offset <= i /\ i < x.offset + x.typesize * x.count =>
       /\ i \in DOMAIN B
       /\ B[i].type = x.type
       /\ B[i].at = i - ((i - x.offset) % x.typesize)

(* The bytes of an object of type t at offset.                             *)
Object(B, t, offset) == \A i \in Span(t, offset) : i \in DOMAIN B /\ B[i] = [type |-> t, at |-> offset]

LEMMA FitsSame ==
  ASSUME NEW x, NEW y, NEW B, Fits(x, B), SameRun(y, x)
  PROVE  Fits(y, B)
  BY DEF Fits, SameRun

LEMMA SpanIs ==
  ASSUME NEW t \in Types, NEW offset \in Nat, NEW B, Object(B, t, offset),
         NEW i \in Nat, offset <= i, i < offset + SizeOf[t]
  PROVE  i \in DOMAIN B /\ B[i].type = t /\ B[i].at = offset
  <1>1. i \in Span(t, offset)
    BY TagAssumption DEF Span
  <1> QED
    BY <1>1 DEF Object

LEMMA NewFits ==
  ASSUME NEW t \in Types, NEW offset \in Nat, NEW B, Object(B, t, offset), NEW next
  PROVE  Fits(mem_tag(offset, SizeOf[t], t, next), B)
  <1> DEFINE x == mem_tag(offset, SizeOf[t], t, next)
             z == SizeOf[t]
  <1>1. z \in Nat \ {0} /\ t # RawType
    BY TagAssumption
  <1>2. x.type = t /\ x.typesize = z /\ x.offset = offset /\ x.count = 1
    BY <1>1 DEF mem_tag
  <1> HIDE DEF x
  <1>3. ASSUME NEW i \in Nat, x.offset <= i, i < x.offset + x.typesize * x.count
        PROVE  i \in DOMAIN B /\ B[i].type = x.type /\ B[i].at = i - ((i - x.offset) % x.typesize)
    <2>1. offset <= i /\ i < offset + z
      BY <1>1, <1>2, <1>3
    <2>2. i \in DOMAIN B /\ B[i].type = t /\ B[i].at = offset
      BY <2>1, SpanIs
    <2> DEFINE d == i - offset
    <2>3. d \in 0 .. (z - 1) /\ offset = i - d
      BY <1>1, <2>1
    <2> HIDE DEF d, z
    <2>4. d % z = d
      BY <1>1, <2>3, ModSmall
    <2> QED
      BY <1>2, <2>2, <2>3, <2>4 DEF d
  <1> QED
    BY <1>2, <1>3 DEF Fits, x

LEMMA ExtendedFits ==
  ASSUME NEW t \in Types, NEW offset \in Nat, NEW B, Object(B, t, offset), NEW x \in TagRec, Fits(x, B),
         x.type = t, x.typesize = SizeOf[t], offset = x.offset + x.typesize * x.count
  PROVE  Fits([x EXCEPT !.count = x.count + 1], B)
  <1> DEFINE z == SizeOf[t]
             o == x.offset
             k == x.count
             y == [x EXCEPT !.count = k + 1]
  <1>1. z \in Nat \ {0} /\ o \in Nat /\ k \in Nat /\ offset = o + z * k /\ x.typesize = z /\ z * k \in Nat
    BY TagAssumption DEF TagRec
  <1>2. y.type = t /\ y.typesize = z /\ y.offset = o /\ y.count = k + 1
    BY <1>1 DEF TagRec
  <1> HIDE DEF y, o, k
  <1>3. z * (k + 1) = z * k + z
    <2> HIDE DEF z
    <2> QED
      BY <1>1
  <1>4. ASSUME NEW i \in Nat, o <= i, i < o + z * (k + 1)
        PROVE  i \in DOMAIN B /\ B[i].type = t /\ B[i].at = i - ((i - o) % z)
    <2>1. CASE i < o + z * k
      BY <1>1, <1>4, <2>1 DEF Fits, o, k
    <2>2. CASE i >= o + z * k
      <3>1. offset <= i /\ i < offset + z
        BY <1>1, <1>3, <1>4, <2>2
      <3>2. i \in DOMAIN B /\ B[i].type = t /\ B[i].at = offset
        BY <3>1, SpanIs
      <3> DEFINE d == i - offset
      <3>3. d \in 0 .. (z - 1) /\ offset = i - d /\ i - o = d + z * k
        BY <1>1, <3>1
      <3> HIDE DEF d, z
      <3>4. d % z = d
        BY <1>1, <3>3, ModSmall
      <3>5. (d + z * k) % z = d % z
        <4>1. d \in Int /\ k \in Int
          BY <1>1, <3>3
        <4> QED
          BY <1>1, <4>1, ModShift
      <3> QED
        BY <3>2, <3>3, <3>4, <3>5
    <2> QED
      BY <1>1, <2>1, <2>2
  <1>5. y.count # 0
    BY <1>1, <1>2
  <1> QED
    BY <1>2, <1>4, <1>5 DEF Fits, y, k

(* A tag that covers the last byte of an object of type t at offset, and   *)
(* more, is cut behind the object, between two objects.                    *)
LEMMA CutWhole ==
  ASSUME NEW t \in Types, NEW offset \in Nat, NEW B, Object(B, t, offset), NEW x \in TagRec, Fits(x, B),
         x.typesize = IF x.type = RawType THEN 1 ELSE SizeOf[x.type],
         NEW endpos \in Nat, endpos = offset + SizeOf[t],
         x.offset < endpos, x.offset + x.typesize * x.count > endpos
  PROVE  LET first == (endpos - x.offset + x.typesize - 1) \div x.typesize
         IN /\ x.type = t /\ x.typesize = SizeOf[t]
            /\ x.offset <= offset
            /\ first \in Nat /\ endpos = x.offset + first * SizeOf[t]
            /\ first < x.count
  <1> DEFINE z == SizeOf[t]
             o == x.offset
             k == x.count
             e == endpos
             i == e - 1
             d == i - o
             q == d \div z
             first == (e - o + z - 1) \div z
  <1>1. z \in Nat \ {0} /\ o \in Nat /\ k \in Nat /\ x.typesize \in Nat \ {0} /\ t # RawType
    BY TagAssumption DEF TagRec
  <1>2. x.typesize * k \in Nat
    BY <1>1
  <1>3. e \in Nat /\ i \in Nat /\ offset <= i /\ i < offset + z /\ o <= i /\ i < o + x.typesize * k
    BY <1>1, <1>2
  <1>4. i \in DOMAIN B /\ B[i].type = t /\ B[i].at = offset
    BY <1>3, SpanIs
  <1>5. B[i].type = x.type /\ B[i].at = i - ((i - o) % x.typesize)
    BY <1>3 DEF Fits
  <1>6. x.type = t /\ x.typesize = z
    BY <1>1, <1>4, <1>5
  <1>7. d \in Nat /\ i - (d % z) = offset /\ e = i + 1
    <2>1. d \in Nat /\ e = i + 1
      BY <1>1, <1>3
    <2>2. i - ((i - o) % x.typesize) = offset
      BY <1>4, <1>5
    <2>3. (i - o) % x.typesize = d % z
      BY <1>6
    <2> QED
      BY <2>1, <2>2, <2>3
  <1>8. o + z * k > e /\ e = offset + z
    BY <1>6
  <1> HIDE DEF z, o, k, e, d
  <1>9. q \in Int /\ d % z \in 0 .. (z - 1) /\ d = z * q + (d % z)
    BY <1>1, <1>7, DivMod
  <1>10. d % z = z - 1
    <2> DEFINE m == d % z
    <2>1. m \in 0 .. (z - 1) /\ i - m = offset /\ e = i + 1 /\ e = offset + z /\ e \in Nat
      BY <1>3, <1>7, <1>8, <1>9
    <2> HIDE DEF m
    <2>2. m = z - 1
      BY <1>1, <2>1
    <2> QED
      BY <2>2 DEF m
  <1> HIDE DEF q
  <1>11. d = z * q + (z - 1)
    BY <1>9, <1>10
  <1>12. q >= 0
    <2>1. q <= -1 => z * q <= -z
      BY <1>1, <1>9
    <2>2. z * q \in Int
      BY <1>1, <1>9
    <2> QED
      BY <1>1, <1>7, <1>9, <1>11, <2>1, <2>2
  <1> DEFINE p == q + 1
             zp == z * p
  <1>13. zp = z * q + z /\ p \in Nat /\ zp \in Nat
    BY <1>1, <1>9, <1>12
  <1>14. e - o = zp
    <2>1. d = i - o /\ z * q \in Int
      BY <1>1, <1>9 DEF d
    <2> QED
      BY <1>1, <1>3, <1>7, <1>11, <1>13, <2>1
  <1>15. first = p
    <2> DEFINE r == z - 1
    <2>1. r \in 0 .. (z - 1) /\ p \in Int
      BY <1>1, <1>13
    <2>2. e - o + z - 1 = z * p + r
      BY <1>1, <1>3, <1>13, <1>14
    <2> HIDE DEF r, p
    <2>3. (z * p + r) \div z = p
      BY <1>1, <2>1, DivModUnique
    <2> QED
      BY <2>2, <2>3
  <1> HIDE DEF first
  <1>16. p * z = zp /\ e = o + p * z
    BY <1>1, <1>3, <1>13, <1>14
  <1>17. o <= offset
    BY <1>1, <1>3, <1>8, <1>12, <1>13, <1>14
  <1>18. p < k
    <2>1. p >= k => z * p >= z * k
      BY <1>1, <1>13
    <2>2. z * k \in Nat
      BY <1>1
    <2> QED
      BY <1>1, <1>3, <1>8, <1>13, <1>14, <2>1, <2>2
  <1>19. first \in Nat /\ e = o + first * z /\ first < k
    BY <1>13, <1>15, <1>16, <1>18
  <1>20. first = (endpos - x.offset + x.typesize - 1) \div x.typesize
    BY <1>6, Zenon DEF first, e, o
  <1> QED
    BY <1>6, <1>17, <1>19, <1>20 DEF e, z, o, k

LEMMA CutFits ==
  ASSUME NEW x \in TagRec, NEW B, Fits(x, B), NEW f \in Nat, f < x.count, NEW y \in TagRec,
         y.type = x.type, y.typesize = x.typesize, y.offset = x.offset + f * x.typesize, y.count = x.count - f
  PROVE  Fits(y, B)
  <1> DEFINE z == x.typesize
             o == x.offset
             k == x.count
             p == o + f * z
  <1>1. z \in Nat \ {0} /\ o \in Nat /\ k \in Nat
    BY DEF TagRec
  <1>2. f * z = z * f /\ z * f \in Nat /\ z * (k - f) = z * k - z * f /\ z * k \in Nat
    <2> HIDE DEF z, o, k
    <2>1. f * z = z * f /\ z * f \in Nat /\ z * k \in Nat
      BY <1>1
    <2>2. z * (k - f) = z * k - z * f
      BY <1>1
    <2> QED
      BY <2>1, <2>2
  <1>3. /\ y.type = x.type /\ y.typesize = z /\ y.offset = p /\ y.count = k - f /\ f < k
        /\ x.type \in Types
    BY DEF Fits
  <1>4. \A i \in Nat : o <= i /\ i < o + z * k =>
          i \in DOMAIN B /\ B[i].type = x.type /\ B[i].at = i - ((i - o) % z)
    BY DEF Fits
  <1> HIDE DEF z, o, k
  <1>5. p = o + z * f
    BY <1>2
  <1>6. ASSUME NEW i \in Nat, p <= i, i < p + z * (k - f)
        PROVE  i \in DOMAIN B /\ B[i].type = x.type /\ B[i].at = i - ((i - p) % z)
    <2> DEFINE d == i - p
    <2>1. o <= i /\ i < o + z * k /\ d \in Int /\ i - o = d + z * f
      BY <1>1, <1>2, <1>5, <1>6
    <2> HIDE DEF d
    <2>2. (d + z * f) % z = d % z
      <3>1. f \in Int /\ d \in Int /\ z \in Nat \ {0}
        BY <1>1, <2>1
      <3> QED
        BY <3>1, ModShift
    <2> QED
      BY <1>4, <2>1, <2>2 DEF d
  <1>7. y.count # 0
    BY <1>1, <1>3
  <1> HIDE DEF p
  <1> QED
    BY <1>3, <1>6, <1>7 DEF Fits


(* The links between tags in the tree lead forward.                        *)
Increases(b, n) ==
  Tag(b, n).next \in Held(b) => Tag(b, n).offset < Tag(b, Tag(b, n).next).offset

NeatBut(b, B, x) ==
  /\ Ordered(b)
  /\ \A n \in DOMAIN b.tags.node : Fits(Tag(b, n), B)
  /\ \A n \in Held(b) : n # x => Increases(b, n)

(* What every tidy write keeps.                                            *)
Neat(b, B) ==
  /\ Ordered(b)
  /\ \A n \in DOMAIN b.tags.node : Fits(Tag(b, n), B)
  /\ \A n \in Held(b) : Increases(b, n)

(* c has the tags of b, those in the tree where they were, and all links   *)
(* but that of x.                                                          *)
Same(b, c, x) ==
  /\ DOMAIN c.tags.node = DOMAIN b.tags.node
  /\ Held(c) = Held(b)
  /\ \A n \in Held(b) : Tag(c, n).offset = Tag(b, n).offset
  /\ \A n \in DOMAIN b.tags.node : n # x => Tag(c, n).next = Tag(b, n).next

LEMMA HeldSome ==
  ASSUME NEW b, Ok(b), Ordered(b)
  PROVE  Held(b) \subseteq DOMAIN b.tags.node /\ Null \notin Held(b) /\ Wild \notin Held(b)
  BY HeldIs, BlockTyped DEF Ordered, Ok

LEMMA NextNeat ==
  ASSUME NEW b, Ok(b), NEW B, NEW x \in DOMAIN b.tags.node, NeatBut(b, B, x), NEW next \in LinksOf(b), next # x,
         x \in Held(b) /\ next \in Held(b) => Tag(b, x).offset < Tag(b, next).offset
  PROVE  LET c == SetNext(b, x, next)
         IN Ok(c) /\ Neat(c, B) /\ Same(b, c, x) /\ Tag(c, x).next = next /\ c.outcome = b.outcome
  <1> DEFINE c == SetNext(b, x, next)
             val == [Tag(b, x) EXCEPT !.next = next]
  <1>1. Ok(c) /\ DOMAIN c.tags.node = DOMAIN b.tags.node /\ Puts(b, c, x, val)
    BY SetNextOk
  <1>2. Tag(b, x) \in TagRec /\ b \in BlockRec /\ Held(b) \subseteq DOMAIN b.tags.node
    BY BlockTyped, HeldSome DEF Ok, NeatBut
  <1>3. SameRun(val, Tag(b, x)) /\ val.next = next
    BY <1>2 DEF SameRun, TagRec
  <1> HIDE DEF c, val
  <1>4. Ordered(c) /\ Held(c) = Held(b)
    BY <1>1, <1>2, <1>3, PutOrdered DEF NeatBut, SameRun
  <1>5. /\ Tag(c, x) = val /\ c.outcome = b.outcome
        /\ \A n \in DOMAIN b.tags.node : n # x => Tag(c, n) = Tag(b, n)
    BY <1>1 DEF Puts
  <1>6. \A n \in DOMAIN b.tags.node : SameRun(Tag(c, n), Tag(b, n))
    BY <1>3, <1>5 DEF SameRun
  <1>7. \A n \in DOMAIN c.tags.node : Fits(Tag(c, n), B)
    BY <1>1, <1>6, FitsSame DEF NeatBut
  <1>8. Same(b, c, x)
    BY <1>1, <1>2, <1>4, <1>5, <1>6 DEF Same, SameRun
  <1>9. ASSUME NEW n \in Held(c)
        PROVE  Increases(c, n)
    <2>1. \A m \in Held(b) : Tag(c, m).offset = Tag(b, m).offset
      BY <1>8 DEF Same
    <2>2. CASE n = x
      BY <1>3, <1>4, <1>5, <1>9, <2>1, <2>2 DEF Increases
    <2>3. CASE n # x
      BY <1>2, <1>4, <1>5, <1>9, <2>1, <2>3 DEF Increases, NeatBut
    <2> QED
      BY <2>2, <2>3
  <1> QED
    BY <1>1, <1>3, <1>4, <1>5, <1>7, <1>8, <1>9 DEF Neat, c

(* A tag that is cut by a tidy write is one the tree has lost.             *)
LEMMA CutNeat ==
  ASSUME NEW b, Ok(b), NEW B, NEW x \in DOMAIN b.tags.node, NeatBut(b, B, x),
         NEW a \in DOMAIN b.tags.node, a # x,
         NEW t \in Types, NEW offset \in Nat, Object(B, t, offset), NEW endpos \in Nat, endpos = offset + SizeOf[t],
         a \in Held(b) => offset < Tag(b, a).offset,
         Tag(b, a).offset < endpos, TagEnd(b, a) > endpos, NEW junk
  PROVE  LET f == CutFront(b, a, endpos, junk)
         IN Ok(f) /\ NeatBut(f, B, x) /\ Same(b, f, x) /\ a \notin Held(f) /\ Tag(f, x) = Tag(b, x) /\ f.outcome = b.outcome
  <1> DEFINE y == Tag(b, a)
             first == (endpos - y.offset + y.typesize - 1) \div y.typesize
             k == y.count - first
             g == Moved(b, a, endpos)
             f == SetCount(g, a, k)
             v == [y EXCEPT !.offset = endpos]
             w == [v EXCEPT !.count = k]
  <1>1. /\ y \in TagRec /\ y.typesize = IF y.type = RawType THEN 1 ELSE SizeOf[y.type]
        /\ Fits(y, B) /\ b \in BlockRec /\ y.offset < endpos /\ y.offset + y.typesize * y.count > endpos
    BY BlockTyped DEF Ok, GoodTag, NeatBut, TagEnd
  <1>2. /\ y.type = t /\ y.typesize = SizeOf[t] /\ y.offset <= offset
        /\ first \in Nat /\ endpos = y.offset + first * SizeOf[t] /\ first < y.count
    <2> HIDE DEF y
    <2> QED
      BY <1>1, CutWhole
  <1>3. CutFront(b, a, endpos, junk) = f
    <2>1. y.offset + first * y.typesize = endpos
      BY <1>2
    <2>2. CutFront(b, a, endpos, junk) =
            IF y.offset + first * y.typesize = endpos THEN f
            ELSE CutFront(b, a, endpos, junk)
      BY DEF CutFront, Moved
    <2> HIDE DEF y, first, f
    <2> QED
      BY <2>1, <2>2
  <1>4. a \notin Held(b) /\ k \in Nat
    <2> HIDE DEF first
    <2>1. y.offset \in Nat /\ y.count \in Nat
      BY <1>1 DEF TagRec
    <2> QED
      BY <1>2, <2>1
  <1> HIDE DEF k
  <1>5. Ok(g) /\ DOMAIN g.tags.node = DOMAIN b.tags.node /\ Puts(b, g, a, v)
    BY MovedOk
  <1>6. Tag(g, a) = v /\ g \in BlockRec /\ \A n \in DOMAIN b.tags.node : n # a => Tag(g, n) = Tag(b, n)
    BY <1>5 DEF Puts
  <1> HIDE DEF y, g, first
  <1>7. Ordered(g) /\ Held(g) = Held(b)
    BY <1>1, <1>4, <1>5, PutOrdered DEF NeatBut
  <1>8. Ok(f) /\ DOMAIN f.tags.node = DOMAIN g.tags.node /\ Puts(g, f, a, w)
    BY <1>4, <1>5, <1>6, SetCountOk
  <1> HIDE DEF f
  <1>9. /\ Tag(f, a) = w /\ f.outcome = b.outcome
        /\ \A n \in DOMAIN b.tags.node : n # a => Tag(f, n) = Tag(b, n)
    BY <1>5, <1>6, <1>8 DEF Puts
  <1>10. Ordered(f) /\ Held(f) = Held(b)
    BY <1>4, <1>5, <1>6, <1>7, <1>8, PutOrdered
  <1>11. /\ w \in TagRec /\ w.type = y.type /\ w.typesize = y.typesize
         /\ w.offset = y.offset + first * y.typesize /\ w.count = y.count - first /\ w.next = y.next
    <2>1. w \in TagRec /\ w.type = y.type /\ w.typesize = y.typesize /\ w.offset = endpos /\ w.count = k /\ w.next = y.next
      BY <1>1, <1>4 DEF TagRec
    <2> QED
      BY <1>2, <2>1 DEF k
  <1> HIDE DEF v, w
  <1>12. Fits(w, B)
    BY <1>1, <1>2, <1>11, CutFits
  <1>13. \A n \in DOMAIN f.tags.node : Fits(Tag(f, n), B)
    BY <1>5, <1>8, <1>9, <1>12 DEF NeatBut
  <1>14. Same(b, f, x) /\ Held(b) \subseteq DOMAIN b.tags.node
    <2>1. Held(b) \subseteq DOMAIN b.tags.node
      BY HeldSome DEF NeatBut
    <2> QED
      BY <1>4, <1>5, <1>8, <1>9, <1>10, <1>11, <2>1 DEF Same, y
  <1>15. ASSUME NEW n \in Held(f), n # x
         PROVE  Increases(f, n)
    BY <1>4, <1>9, <1>10, <1>14, <1>15 DEF Increases, NeatBut
  <1> QED
    BY <1>3, <1>4, <1>8, <1>9, <1>10, <1>13, <1>14, <1>15 DEF NeatBut


LEMMA DealNeat ==
  ASSUME NEW b, Ok(b), NEW B, NEW x \in DOMAIN b.tags.node, NeatBut(b, B, x),
         NEW affected \in LinksOf(b), affected # x,
         NEW t \in Types, NEW offset \in Nat, Object(B, t, offset), NEW endpos \in Nat, endpos = offset + SizeOf[t],
         Tag(b, x).offset <= offset,
         affected \in Held(b) => offset < Tag(b, affected).offset, NEW junk \in Junk
  PROVE  LET c == deal_with_end(b, x, affected, endpos, junk)
         IN c.outcome = "run" => Neat(c, B) /\ Same(b, c, x)
  <1> DEFINE c == deal_with_end(b, x, affected, endpos, junk)
             a == Tag(b, affected)
             e == Tag(b, x)
             d == SetNext(b, x, affected)
  <1>1. b \in BlockRec /\ e \in TagRec /\ Null \notin Held(b) /\ Wild \notin Held(b) /\ Null # Wild
    BY BlockTyped, HeldSome DEF Ok, NeatBut, Null, Wild
  <1>2. affected \in Held(b) => e.offset < a.offset
    <2>1. affected \in Held(b) => a \in TagRec
      BY <1>1, HeldSome, BlockTyped DEF NeatBut
    <2> QED
      BY <1>1, <2>1 DEF TagRec
  <1>3. Neat(d, B) /\ Same(b, d, x)
    BY <1>2, NextNeat
  <1>4. CASE affected = Null
    <2>1. c = d
      BY <1>4 DEF deal_with_end
    <2> QED
      BY <1>3, <2>1
  <1>5. CASE affected = Wild
    <2>1. c = End(b, "ub_wild")
      BY <1>1, <1>5 DEF deal_with_end
    <2>2. "ub_wild" \in Outcomes
      BY DEF Outcomes
    <2>3. c.outcome = "ub_wild"
      BY <2>1, <2>2, EndOk
    <2> QED
      BY <2>3
  <1>6. CASE affected \in DOMAIN b.tags.node
    <2>1. affected # Null /\ affected # Wild /\ a \in TagRec
      BY <1>1, <1>6, BlockTyped
    <2>2. a.offset \in Nat /\ a.count \in Nat /\ e.count \in Nat
      BY <1>1, <2>1 DEF TagRec
    <2> DEFINE k == e.count + a.count
               g == DropAffected(SetCount(b, x, k), affected)
               h == DropAffected(b, affected)
               f == CutFront(b, affected, endpos, junk)
    <2>3. c = CASE a.offset = endpos /\ a.type = e.type -> g
                [] a.offset = endpos /\ a.type # e.type -> d
                [] a.offset > endpos -> d
                [] a.offset < endpos /\ TagEnd(b, affected) > endpos -> SetNext(f, x, affected)
                [] OTHER -> h
      BY <2>1 DEF deal_with_end
    <2>4. h.outcome # "run"
      BY RemoveEnds
    <2>5. g.outcome # "run"
      <3>1. k \in Nat
        BY <2>2
      <3> HIDE DEF k
      <3>2. Ok(SetCount(b, x, k))
        BY <3>1, SetCountOk
      <3> QED
        BY <3>2, RemoveEnds
    <2> HIDE DEF c, a, e, d, g, h
    <2>6. CASE a.offset < endpos /\ TagEnd(b, affected) > endpos
      <3>1. /\ Ok(f) /\ NeatBut(f, B, x) /\ Same(b, f, x) /\ affected \notin Held(f)
        BY <1>6, <2>6, CutNeat DEF a
      <3> HIDE DEF f
      <3>2. affected \in LinksOf(f) /\ x \in DOMAIN f.tags.node
        BY <1>6, <3>1 DEF LinksOf, Same
      <3>3. Neat(SetNext(f, x, affected), B) /\ Same(f, SetNext(f, x, affected), x)
        BY <3>1, <3>2, NextNeat
      <3>4. c = SetNext(f, x, affected)
        BY <2>2, <2>3, <2>6
      <3>5. Same(b, c, x)
        BY <3>1, <3>3, <3>4 DEF Same
      <3> QED
        BY <3>3, <3>4, <3>5 DEF c
    <2>7. CASE ~(a.offset < endpos /\ TagEnd(b, affected) > endpos)
      <3>1. c = g \/ c = h \/ c = d
        BY <2>3, <2>7
      <3>2. c.outcome = "run" => Neat(c, B) /\ Same(b, c, x)
        BY <1>3, <2>4, <2>5, <3>1
      <3> QED
        BY <3>2 DEF c
    <2> QED
      BY <2>6, <2>7
  <1> QED
    BY <1>4, <1>5, <1>6 DEF LinksOf

LEMMA InsertNeat ==
  ASSUME NEW b, Ok(b), NEW B, Neat(b, B), NEW t \in Types, NEW offset \in Nat, Object(B, t, offset),
         NEW next \in LinksOf(b), NEW col \in BOOLEAN, \A x \in Held(b) : Tag(b, x).offset # offset
  PROVE  LET c == Insert(b, mem_tag(offset, SizeOf[t], t, next), col)
         IN /\ NeatBut(c, B, NewTag(b)) /\ NewTag(b) \in Held(c) /\ Held(c) \subseteq Held(b) \cup {NewTag(b)}
            /\ Tag(c, NewTag(b)) = mem_tag(offset, SizeOf[t], t, next) /\ Tag(c, NewTag(b)).offset = offset
            /\ \A m \in DOMAIN b.tags.node : Tag(c, m) = Tag(b, m)
            /\ c.outcome = b.outcome
  <1> DEFINE tag == mem_tag(offset, SizeOf[t], t, next)
             c == Insert(b, tag, col)
             new == NewTag(b)
  <1>1. b \in BlockRec /\ next \in Int
    BY BlockTyped DEF LinksOf, Null, Wild, Ok
  <1>2. tag \in TagRec /\ tag.offset = offset /\ Fits(tag, B)
    <2>1. tag \in TagRec
      BY <1>1, NewTagIs
    <2>2. tag.offset = offset
      BY DEF mem_tag
    <2>3. Fits(tag, B)
      BY NewFits
    <2> QED
      BY <2>1, <2>2, <2>3
  <1>3. /\ Adds(b, c, tag) /\ DOMAIN c.tags.node = DOMAIN b.tags.node \cup {new}
        /\ LinksOf(b) \subseteq LinksOf(c) /\ new \notin LinksOf(b)
    BY InsertNew
  <1> HIDE DEF tag
  <1>4. Ordered(c) /\ new \in Held(c) /\ Held(c) \subseteq Held(b) \cup {new}
    BY <1>1, <1>2, InsertOrdered DEF Neat
  <1> HIDE DEF c, new
  <1>5. Tag(c, new) = tag /\ c.outcome = b.outcome /\ \A m \in DOMAIN b.tags.node : Tag(c, m) = Tag(b, m)
    BY <1>3 DEF Adds, new
  <1>6. \A n \in DOMAIN c.tags.node : Fits(Tag(c, n), B)
    BY <1>2, <1>3, <1>5 DEF Neat
  <1>7. ASSUME NEW n \in Held(c), n # new
        PROVE  Increases(c, n)
    <2>1. n \in Held(b) /\ Held(b) \subseteq DOMAIN b.tags.node
      BY <1>4, <1>7, HeldSome DEF Neat
    <2>2. Tag(c, n) = Tag(b, n) /\ Tag(b, n).next # new
      BY <1>3, <1>5, <2>1 DEF Ok, GoodTag
    <2>3. Increases(b, n)
      BY <2>1 DEF Neat
    <2>4. Tag(b, n).next \in Held(c) => Tag(b, n).next \in Held(b)
      BY <1>4, <2>2
    <2>5. Tag(b, n).next \in Held(b) => Tag(c, Tag(b, n).next) = Tag(b, Tag(b, n).next)
      BY <1>5, <2>1
    <2> QED
      BY <2>2, <2>3, <2>4, <2>5 DEF Increases
  <1>8. NeatBut(c, B, new)
    BY <1>4, <1>6, <1>7 DEF NeatBut
  <1> QED
    BY <1>2, <1>4, <1>5, <1>8 DEF c, new, tag

LEMMA WriteFirstNeat ==
  ASSUME NEW b, Ok(b), NEW B, Neat(b, B), NEW t \in Types, NEW offset \in Nat, Object(B, t, offset), NEW junk \in Junk,
         \A x \in Held(b) : offset < Tag(b, x).offset
  PROVE  LET c == WriteFirst(b, t, SizeOf[t], offset, junk)
         IN DOMAIN b.tags.node \subseteq DOMAIN c.tags.node /\ (c.outcome = "run" => Neat(c, B))
  <1> DEFINE c == Insert(b, mem_tag(offset, SizeOf[t], t, junk.next), junk.col)
             new == NewTag(b)
             endpos == offset + SizeOf[t]
             d == deal_with_end(c, new, b.firsttag, endpos, junk)
             e == [d EXCEPT !.firsttag = new]
  <1>1. WriteFirst(b, t, SizeOf[t], offset, junk) = e
    BY DEF WriteFirst
  <1>2. /\ Ok(c) /\ new \in DOMAIN c.tags.node /\ LinksOf(b) \subseteq LinksOf(c) /\ new \notin LinksOf(b)
        /\ DOMAIN b.tags.node \subseteq DOMAIN c.tags.node
    BY JunkIs, InsertNew
  <1>3. \A x \in Held(b) : Tag(b, x).offset # offset
    BY HeldSome, BlockTyped DEF Neat, Ok, TagRec
  <1>4. /\ NeatBut(c, B, new) /\ Held(c) \subseteq Held(b) \cup {new} /\ Tag(c, new).offset = offset
        /\ \A m \in DOMAIN b.tags.node : Tag(c, m) = Tag(b, m)
    BY <1>3, JunkIs, InsertNeat
  <1>5. b.firsttag \in LinksOf(b) /\ endpos \in Nat
    BY TagAssumption DEF Ok, LinksOf
  <1> HIDE DEF c, new
  <1>6. b.firsttag \in Held(c) => offset < Tag(c, b.firsttag).offset
    <2>1. b.firsttag \in Held(c) => b.firsttag \in Held(b) /\ b.firsttag \in DOMAIN b.tags.node
      BY <1>2, <1>4, <1>5, HeldSome DEF Neat
    <2> QED
      BY <1>4, <2>1
  <1>7. d.outcome = "run" => Neat(d, B)
    <2>1. endpos = offset + SizeOf[t] /\ b.firsttag \in LinksOf(c) /\ b.firsttag # new /\ Tag(c, new).offset <= offset
      BY <1>2, <1>4, <1>5
    <2> HIDE DEF endpos, d
    <2> QED
      BY <1>2, <1>4, <1>5, <1>6, <2>1, DealNeat DEF d
  <1>8. Ok(d) /\ new \in DOMAIN d.tags.node /\ DOMAIN b.tags.node \subseteq DOMAIN d.tags.node
    <2>1. Dealt(c, d, new)
      BY <1>2, <1>5, DealOk
    <2> QED
      BY <1>2, <2>1 DEF Dealt
  <1> HIDE DEF d
  <1>9. e.tags = d.tags /\ e.outcome = d.outcome /\ \A m : Tag(e, m) = Tag(d, m)
    BY <1>8, FirstOk
  <1> HIDE DEF e
  <1>10. e.outcome = "run" => Neat(e, B)
    BY <1>7, <1>9 DEF Neat, Ordered, Held, Increases
  <1> QED
    BY <1>1, <1>8, <1>9, <1>10

LEMMA WriteBehindNeat ==
  ASSUME NEW b, Ok(b), NEW B, Neat(b, B), NEW start \in Held(b),
         NEW t \in Types, NEW offset \in Nat, Object(B, t, offset), NEW junk \in Junk,
         Tag(b, start).offset < offset, Nearest(b, Held(b), offset, start)
  PROVE  LET c == WriteBehind(b, start, t, SizeOf[t], offset, junk)
         IN DOMAIN b.tags.node \subseteq DOMAIN c.tags.node /\ (c.outcome = "run" => Neat(c, B))
  <1> DEFINE c == Insert(b, mem_tag(offset, SizeOf[t], t, junk.next), junk.col)
             new == NewTag(b)
             next == Tag(b, start).next
             endpos == offset + SizeOf[t]
             d == deal_with_end(c, new, next, endpos, junk)
             e == SetNext(d, start, new)
  <1>1. WriteBehind(b, start, t, SizeOf[t], offset, junk) = e
    BY DEF WriteBehind
  <1>2. /\ Ok(c) /\ new \in DOMAIN c.tags.node /\ LinksOf(b) \subseteq LinksOf(c) /\ new \notin LinksOf(b)
        /\ DOMAIN c.tags.node = DOMAIN b.tags.node \cup {new}
    BY JunkIs, InsertNew
  <1>3. /\ start \in DOMAIN b.tags.node /\ start # new /\ next \in LinksOf(b) /\ endpos \in Nat
        /\ \A x \in Held(b) : x \in DOMAIN b.tags.node /\ Tag(b, x).offset \in Nat
    <2>1. Held(b) \subseteq DOMAIN b.tags.node
      BY HeldSome DEF Neat
    <2>2. \A x \in Held(b) : Tag(b, x).offset \in Nat
      BY <2>1, BlockTyped DEF Ok, TagRec
    <2> QED
      BY <1>2, <2>1, <2>2, TagAssumption DEF Ok, GoodTag, LinksOf
  <1>4. \A x \in Held(b) : Tag(b, x).offset # offset
    BY <1>3 DEF Nearest
  <1>5. /\ NeatBut(c, B, new) /\ Held(c) \subseteq Held(b) \cup {new} /\ Tag(c, new).offset = offset
        /\ \A m \in DOMAIN b.tags.node : Tag(c, m) = Tag(b, m)
        /\ new \in Held(c)
    BY <1>4, JunkIs, InsertNeat
  <1>6. next \in Held(b) => offset < Tag(b, next).offset
    <2>1. next \in Held(b) => Tag(b, start).offset < Tag(b, next).offset
      BY DEF Neat, Increases
    <2> QED
      BY <1>3, <2>1 DEF Nearest
  <1> HIDE DEF c, new, next
  <1>7. next \in Held(c) => offset < Tag(c, next).offset
    BY <1>2, <1>3, <1>5, <1>6
  <1>8. d.outcome = "run" => Neat(d, B) /\ Same(c, d, new)
    <2>1. endpos = offset + SizeOf[t] /\ next \in LinksOf(c) /\ next # new /\ Tag(c, new).offset <= offset
      BY <1>2, <1>3, <1>5
    <2> HIDE DEF endpos, d
    <2> QED
      BY <1>2, <1>3, <1>5, <1>7, <2>1, DealNeat DEF d
  <1>9. Ok(d)
    <2>1. Dealt(c, d, new)
      BY <1>2, <1>3, DealOk
    <2> QED
      BY <2>1 DEF Dealt
  <1> HIDE DEF d
  <1>10. /\ start \in DOMAIN d.tags.node /\ e.outcome = d.outcome
         /\ DOMAIN b.tags.node \subseteq DOMAIN e.tags.node
    <2>1. Dealt(c, d, new)
      BY <1>2, <1>3, DealOk DEF d
    <2>2. start \in DOMAIN d.tags.node /\ new \in LinksOf(d) /\ DOMAIN b.tags.node \subseteq DOMAIN d.tags.node
      BY <1>2, <1>3, <2>1 DEF Dealt, LinksOf
    <2>3. Puts(d, e, start, [Tag(d, start) EXCEPT !.next = new])
      BY <1>3, <1>9, <2>2, SetNextOk
    <2> QED
      BY <2>2, <2>3 DEF Puts, Alike
  <1>11. ASSUME d.outcome = "run"
         PROVE  Neat(e, B)
    <2>1. Neat(d, B) /\ Same(c, d, new)
      BY <1>8, <1>11
    <2>2. NeatBut(d, B, start) /\ new \in LinksOf(d)
      BY <1>2, <2>1 DEF Neat, NeatBut, Same, LinksOf
    <2>3. start \in Held(d) /\ new \in Held(d) => Tag(d, start).offset < Tag(d, new).offset
      <3>1. start \in Held(d) => start \in Held(c)
        BY <2>1 DEF Same
      <3>2. start \in Held(c) /\ new \in Held(c) =>
              Tag(d, start).offset = Tag(c, start).offset /\ Tag(d, new).offset = Tag(c, new).offset
        BY <2>1 DEF Same
      <3> QED
        BY <1>3, <1>5, <3>1, <3>2
    <2> QED
      BY <1>3, <1>9, <1>10, <2>2, <2>3, NextNeat
  <1> HIDE DEF e
  <1> QED
    BY <1>1, <1>10, <1>11

LEMMA WriteExtendingNeat ==
  ASSUME NEW b, Ok(b), NEW B, Neat(b, B), NEW start \in Held(b),
         NEW t \in Types, NEW offset \in Nat, Object(B, t, offset), NEW junk \in Junk,
         offset = TagEnd(b, start), t = Tag(b, start).type, Nearest(b, Held(b), offset, start)
  PROVE  LET c == WriteExtending(b, start, junk)
         IN DOMAIN b.tags.node \subseteq DOMAIN c.tags.node /\ (c.outcome = "run" => Neat(c, B))
  <1> DEFINE s == Tag(b, start)
             k == s.count + 1
             val == [s EXCEPT !.count = k]
             c == SetCount(b, start, k)
             endpos == TagEnd(b, start) + s.typesize
             d == deal_with_end(c, start, s.next, endpos, junk)
  <1>1. /\ start \in DOMAIN b.tags.node
        /\ \A x \in Held(b) : x \in DOMAIN b.tags.node /\ Tag(b, x).offset \in Nat
    <2>1. Held(b) \subseteq DOMAIN b.tags.node
      BY HeldSome DEF Neat
    <2>2. \A x \in Held(b) : Tag(b, x).offset \in Nat
      BY <2>1, BlockTyped DEF Ok, TagRec
    <2> QED
      BY <2>1, <2>2
  <1>2. /\ s \in TagRec /\ s.offset \in Nat /\ s.typesize \in Nat \ {0} /\ s.count \in Nat
        /\ s.next \in LinksOf(b) /\ s.next # start /\ s.typesize = SizeOf[t]
        /\ offset = s.offset + s.typesize * s.count /\ b \in BlockRec
    <2>1. /\ s \in TagRec /\ s.offset \in Nat /\ s.typesize \in Nat \ {0} /\ s.count \in Nat
          /\ s.next \in LinksOf(b) /\ s.next # start
          /\ s.typesize = IF s.type = RawType THEN 1 ELSE SizeOf[s.type]
          /\ TagEnd(b, start) = s.offset + s.typesize * s.count
      BY <1>1, StartIs
    <2>2. s.typesize = SizeOf[t]
      BY <2>1, TagAssumption
    <2> QED
      BY <2>1, <2>2 DEF Ok
  <1>3. k \in Nat /\ endpos \in Nat /\ endpos = offset + SizeOf[t] /\ s.offset <= offset
    <2>1. s.typesize * s.count \in Nat
      BY <1>2
    <2> QED
      BY <1>2, <2>1
  <1>4. Fits(s, B) /\ s.type = t
    BY <1>1 DEF Neat
  <1>5. /\ val.offset = s.offset /\ val.next = s.next
    BY <1>2 DEF TagRec
  <1> HIDE DEF s
  <1>6. Fits(val, B)
    BY <1>2, <1>4, ExtendedFits
  <1>7. WriteExtending(b, start, junk) = d
    BY DEF WriteExtending, s
  <1> HIDE DEF k, endpos
  <1>8. Ok(c) /\ DOMAIN c.tags.node = DOMAIN b.tags.node /\ Puts(b, c, start, val)
    BY <1>1, <1>3, SetCountOk DEF s
  <1> HIDE DEF c, val
  <1>9. Ordered(c) /\ Held(c) = Held(b)
    BY <1>1, <1>2, <1>5, <1>8, PutOrdered DEF Neat, s
  <1>10. Tag(c, start) = val /\ \A n \in DOMAIN b.tags.node : n # start => Tag(c, n) = Tag(b, n)
    BY <1>8 DEF Puts
  <1>11. \A n \in Held(b) : Tag(c, n).offset = Tag(b, n).offset /\ Tag(c, n).next = Tag(b, n).next
    BY <1>1, <1>5, <1>10 DEF s
  <1>12. NeatBut(c, B, start)
    <2>1. \A n \in DOMAIN c.tags.node : Fits(Tag(c, n), B)
      BY <1>6, <1>8, <1>10 DEF Neat
    <2>2. \A n \in Held(c) : Increases(c, n)
      BY <1>9, <1>11 DEF Neat, Increases
    <2> QED
      BY <1>9, <2>1, <2>2 DEF NeatBut
  <1>13. s.next \in Held(c) => offset < Tag(c, s.next).offset
    <2>1. s.next \in Held(b) => s.offset < Tag(b, s.next).offset
      BY DEF Neat, Increases, s
    <2>2. s.next \in Held(b) => offset < Tag(b, s.next).offset
      BY <1>1, <1>2, <2>1 DEF Nearest, s
    <2> QED
      BY <1>9, <1>11, <2>2
  <1>14. start \in DOMAIN c.tags.node /\ s.next \in LinksOf(c) /\ Tag(c, start).offset <= offset
    BY <1>1, <1>2, <1>3, <1>5, <1>8, <1>10 DEF LinksOf
  <1>15. d.outcome = "run" => Neat(d, B)
    BY <1>2, <1>3, <1>8, <1>12, <1>13, <1>14, DealNeat
  <1>16. DOMAIN b.tags.node \subseteq DOMAIN d.tags.node
    <2>1. Dealt(c, d, start)
      BY <1>2, <1>3, <1>8, <1>14, DealOk
    <2> QED
      BY <1>8, <2>1 DEF Dealt
  <1> HIDE DEF d
  <1> QED
    BY <1>7, <1>15, <1>16

(* A tidy write keeps a block neat.                                        *)
LEMMA UpdateNeat ==
  ASSUME NEW b, Ok(b), NEW B, Neat(b, B), NEW t \in Types, NEW offset \in Nat, Object(B, t, offset), NEW junk \in Junk
  PROVE  LET c == update_tag_write(b, t, SizeOf[t], offset, junk)
         IN DOMAIN b.tags.node \subseteq DOMAIN c.tags.node /\ (c.outcome = "run" => Neat(c, B))
  <1> DEFINE start == findBelow(b.tags, offset)
             s == Tag(b, start)
             c == WriteAt(b, start, t, SizeOf[t], offset, junk)
  <1>1. c = update_tag_write(b, t, SizeOf[t], offset, junk)
    BY DEF update_tag_write
  <1>2. Nearest(b, Held(b), offset, start) /\ Held(b) \subseteq DOMAIN b.tags.node
    BY LookupNearest, HeldSome DEF Ok, Neat
  <1> HIDE DEF start
  <1>3. \A x \in Held(b) : Tag(b, x).offset \in Nat
    BY <1>2, BlockTyped DEF Ok, TagRec
  <1>4. CASE start = Null
    <2>1. c = WriteFirst(b, t, SizeOf[t], offset, junk)
      BY <1>4 DEF WriteAt
    <2>2. \A x \in Held(b) : offset < Tag(b, x).offset
      BY <1>2, <1>3, <1>4 DEF Nearest
    <2> QED
      BY <1>1, <2>1, <2>2, WriteFirstNeat
  <1>5. CASE start # Null
    <2>1. start \in Held(b) /\ start \in DOMAIN b.tags.node /\ s.offset <= offset
      BY <1>2, <1>5 DEF Nearest
    <2>2. /\ s \in TagRec /\ s.offset \in Nat /\ s.typesize \in Nat \ {0} /\ s.count \in Nat
          /\ TagEnd(b, start) = s.offset + s.typesize * s.count /\ TagEnd(b, start) \in Nat
          /\ Fits(s, B) /\ s.count # 0
      BY <2>1, StartIs DEF Neat, Fits
    <2>3. c = IF offset = TagEnd(b, start) /\ t = s.type THEN WriteExtending(b, start, junk)
              ELSE IF offset >= TagEnd(b, start) THEN WriteBehind(b, start, t, SizeOf[t], offset, junk)
              ELSE IF (offset - s.offset) % s.typesize = 0 /\ t = s.type THEN b
              ELSE IF offset = s.offset THEN WriteOverFront(b, start, t, SizeOf[t], offset, junk)
              ELSE WriteInside(b, start, t, SizeOf[t], offset, junk)
      BY <1>5 DEF WriteAt
    <2>4. CASE offset = TagEnd(b, start) /\ t = s.type
      BY <1>1, <1>2, <2>1, <2>3, <2>4, WriteExtendingNeat
    <2>5. CASE offset >= TagEnd(b, start) /\ ~(offset = TagEnd(b, start) /\ t = s.type)
      <3>1. s.typesize * s.count > 0
        BY <2>2
      <3>2. s.offset < offset
        BY <2>2, <2>5, <3>1
      <3> QED
        BY <1>1, <1>2, <2>1, <2>3, <2>5, <3>2, WriteBehindNeat
    <2>6. CASE offset < TagEnd(b, start)
      <3>1. B[offset].type = t /\ B[offset].at = offset
        BY TagAssumption, SpanIs
      <3>2. B[offset].type = s.type /\ B[offset].at = offset - ((offset - s.offset) % s.typesize)
        BY <2>1, <2>2, <2>6 DEF Fits
      <3>3. (offset - s.offset) % s.typesize = 0
        <4> DEFINE m == (offset - s.offset) % s.typesize
        <4>1. m \in Int
          <5> DEFINE d == offset - s.offset
                     z == s.typesize
          <5>1. d \in Int /\ z \in Nat \ {0}
            BY <2>2
          <5> HIDE DEF d, z
          <5>2. d % z \in 0 .. (z - 1)
            BY <5>1, DivMod
          <5>3. d % z \in Int
            BY <5>1, <5>2
          <5> QED
            BY <5>3 DEF d, z
        <4>2. offset - m = offset
          BY <3>1, <3>2
        <4> HIDE DEF m
        <4>3. m = 0
          BY <4>1, <4>2
        <4> QED
          BY <4>3 DEF m
      <3>4. c = b
        BY <2>2, <2>3, <2>6, <3>1, <3>2, <3>3
      <3> QED
        BY <1>1, <3>4
    <2> QED
      BY <2>2, <2>4, <2>5, <2>6
  <1> QED
    BY <1>4, <1>5


-----------------------------------------------------------------------------
(***************************************************************************)
(* Blocks written in order.  Lookups see every tag that matters, and the   *)
(* list runs through all tags in the order of their offsets.               *)
(***************************************************************************)
Apart(b) ==
  \A n, m \in DOMAIN b.tags.node :
    n # m => TagEnd(b, n) <= Tag(b, m).offset \/ TagEnd(b, m) <= Tag(b, n).offset

(* m is the tag next to n, of all tags.                                    *)
Follows(b, n, m) ==
  \/ m = Null /\ \A k \in DOMAIN b.tags.node : Tag(b, k).offset <= Tag(b, n).offset
  \/ /\ m \in DOMAIN b.tags.node
     /\ Tag(b, n).offset < Tag(b, m).offset
     /\ \A k \in DOMAIN b.tags.node : Tag(b, k).offset <= Tag(b, n).offset \/ Tag(b, m).offset <= Tag(b, k).offset

Chained(b) ==
  /\ Apart(b)
  /\ \A n \in DOMAIN b.tags.node : Follows(b, n, Tag(b, n).next)
  /\ b.firsttag = Null => DOMAIN b.tags.node = {}
  /\ \A k \in DOMAIN b.tags.node : Tag(b, b.firsttag).offset <= Tag(b, k).offset

(* No tag lies where an object of type t is put at offset, nor right       *)
(* behind it if of the same type.                                          *)
Free(b, t, offset) ==
  \A n \in DOMAIN b.tags.node :
    /\ TagEnd(b, n) <= offset \/ offset + SizeOf[t] <= Tag(b, n).offset
    /\ Tag(b, n).offset = offset + SizeOf[t] => Tag(b, n).type # t

(* c has the tags of b, which cover what they covered, and one that covers *)
(* the object put at offset: a tag of b, or a new one.                     *)
Filled(b, c, t, offset) ==
  /\ Chained(c)
  /\ c.outcome = b.outcome
  /\ DOMAIN b.tags.node \subseteq DOMAIN c.tags.node
  /\ \A m \in DOMAIN b.tags.node : Tag(c, m).offset = Tag(b, m).offset /\ TagEnd(b, m) <= TagEnd(c, m)
  /\ \E n \in DOMAIN c.tags.node : Tag(c, n).offset <= offset /\ offset + SizeOf[t] <= TagEnd(c, n)
  /\ \/ /\ DOMAIN c.tags.node = DOMAIN b.tags.node /\ Len(c.tags.node) = Len(b.tags.node)
        /\ Held(c) = Held(b)
     \/ /\ DOMAIN c.tags.node = DOMAIN b.tags.node \cup {NewTag(b)} /\ Len(c.tags.node) = NewTag(b)
        /\ NewTag(b) \in Held(c) /\ Tag(c, NewTag(b)).offset = offset

(* A tag covers something.                                                 *)
LEMMA TagSizes ==
  ASSUME NEW b, Ok(b), NEW B, \A n \in DOMAIN b.tags.node : Fits(Tag(b, n), B)
  PROVE  \A n \in DOMAIN b.tags.node :
           /\ Tag(b, n).offset \in Nat /\ TagEnd(b, n) \in Nat /\ Tag(b, n).offset < TagEnd(b, n)
           /\ Tag(b, n).next # n
  <1> SUFFICES ASSUME NEW n \in DOMAIN b.tags.node
               PROVE  /\ Tag(b, n).offset \in Nat /\ TagEnd(b, n) \in Nat /\ Tag(b, n).offset < TagEnd(b, n)
                      /\ Tag(b, n).next # n
    OBVIOUS
  <1> DEFINE s == Tag(b, n)
  <1>1. /\ s.offset \in Nat /\ s.typesize \in Nat \ {0} /\ s.count \in Nat
        /\ TagEnd(b, n) = s.offset + s.typesize * s.count /\ s.next # n
    BY StartIs
  <1>2. s.count # 0
    BY DEF Fits
  <1> HIDE DEF s
  <1>3. s.typesize * s.count \in Nat /\ s.typesize * s.count > 0
    BY <1>1, <1>2
  <1> QED
    BY <1>1, <1>3 DEF s

LEMMA SameEnd ==
  ASSUME NEW b, NEW c, NEW n, SameRun(Tag(c, n), Tag(b, n))
  PROVE  TagEnd(c, n) = TagEnd(b, n) /\ Tag(c, n).offset = Tag(b, n).offset
  BY DEF SameRun, TagEnd

(* If what follows lies behind and does not join, deal_with_end links it.  *)
LEMMA DealLinks ==
  ASSUME NEW b, Ok(b), NEW x \in DOMAIN b.tags.node, NEW affected \in {Null} \cup DOMAIN b.tags.node,
         NEW endpos \in Nat, NEW junk,
         affected # Null => /\ endpos <= Tag(b, affected).offset
                            /\ Tag(b, affected).offset = endpos => Tag(b, affected).type # Tag(b, x).type
  PROVE  deal_with_end(b, x, affected, endpos, junk) = SetNext(b, x, affected)
  <1> DEFINE c == deal_with_end(b, x, affected, endpos, junk)
             a == Tag(b, affected)
             e == Tag(b, x)
             d == SetNext(b, x, affected)
  <1>1. CASE affected = Null
    BY <1>1 DEF deal_with_end
  <1>2. CASE affected # Null
    <2>1. affected \in DOMAIN b.tags.node
      BY <1>2
    <2>2. affected # Wild /\ a.offset \in Nat
      BY <2>1, BlockTyped DEF Ok, TagRec
    <2> DEFINE g == DropAffected(SetCount(b, x, e.count + a.count), affected)
               h == DropAffected(b, affected)
               f == SetNext(CutFront(b, affected, endpos, junk), x, affected)
    <2>3. c = CASE a.offset = endpos /\ a.type = e.type -> g
                [] a.offset = endpos /\ a.type # e.type -> d
                [] a.offset > endpos -> d
                [] a.offset < endpos /\ TagEnd(b, affected) > endpos -> f
                [] OTHER -> h
      BY <1>2, <2>2 DEF deal_with_end
    <2>4. endpos <= a.offset /\ (a.offset = endpos => a.type # e.type)
      BY <1>2
    <2> HIDE DEF c, a, e, d, g, h, f
    <2>5. c = d
      <3>1. CASE a.offset = endpos
        BY <2>2, <2>3, <2>4, <3>1
      <3>2. CASE a.offset > endpos
        BY <2>2, <2>3, <3>2
      <3> QED
        BY <2>2, <2>4, <3>1, <3>2
    <2> QED
      BY <2>5 DEF c, d
  <1> QED
    BY <1>1, <1>2

(* Where a new tag at offset, with next behind it, takes its place.        *)
Placed(b, d, t, offset, next) ==
  /\ Ok(d)
  /\ DOMAIN d.tags.node = DOMAIN b.tags.node \cup {NewTag(b)} /\ Len(d.tags.node) = NewTag(b)
  /\ NewTag(b) \notin DOMAIN b.tags.node
  /\ \A m \in DOMAIN b.tags.node :
       Tag(d, m).offset = Tag(b, m).offset /\ TagEnd(d, m) = TagEnd(b, m) /\ Tag(d, m).next = Tag(b, m).next
  /\ Tag(d, NewTag(b)).offset = offset /\ TagEnd(d, NewTag(b)) = offset + SizeOf[t]
  /\ Tag(d, NewTag(b)).next = next
  /\ NewTag(b) \in Held(d)
  /\ d.outcome = b.outcome /\ d.firsttag = b.firsttag

LEMMA PlaceNew ==
  ASSUME NEW b, Ok(b), NEW B, Neat(b, B), NEW t \in Types, NEW offset \in Nat, Object(B, t, offset), NEW junk \in Junk,
         \A x \in Held(b) : Tag(b, x).offset # offset,
         NEW next \in {Null} \cup DOMAIN b.tags.node,
         next # Null => /\ offset + SizeOf[t] <= Tag(b, next).offset
                        /\ Tag(b, next).offset = offset + SizeOf[t] => Tag(b, next).type # t
  PROVE  LET c == Insert(b, mem_tag(offset, SizeOf[t], t, junk.next), junk.col)
         IN Placed(b, deal_with_end(c, NewTag(b), next, offset + SizeOf[t], junk), t, offset, next)
  <1> DEFINE tag == mem_tag(offset, SizeOf[t], t, junk.next)
             c == Insert(b, tag, junk.col)
             new == NewTag(b)
             endpos == offset + SizeOf[t]
             d == SetNext(c, new, next)
  <1>1. /\ Ok(c) /\ new \in DOMAIN c.tags.node /\ LinksOf(b) \subseteq LinksOf(c) /\ new \notin LinksOf(b)
        /\ DOMAIN c.tags.node = DOMAIN b.tags.node \cup {new} /\ Adds(b, c, tag)
    BY JunkIs, InsertNew
  <1>2. /\ NeatBut(c, B, new) /\ Held(c) \subseteq Held(b) \cup {new} /\ Tag(c, new) = tag
        /\ \A m \in DOMAIN b.tags.node : Tag(c, m) = Tag(b, m)
        /\ new \in Held(c)
    BY JunkIs, InsertNeat
  <1>3. endpos \in Nat /\ SizeOf[t] \in Nat \ {0} /\ t # RawType
    BY TagAssumption
  <1>4. tag.offset = offset /\ tag.type = t /\ tag.typesize = SizeOf[t] /\ tag.count = 1
    BY <1>3 DEF mem_tag
  <1>5. c.firsttag = b.firsttag /\ c.outcome = b.outcome /\ Len(c.tags.node) = new /\ new \notin DOMAIN b.tags.node
    BY <1>1 DEF Adds, NewTag
  <1>6. next # Null => next \in DOMAIN b.tags.node /\ Tag(c, next) = Tag(b, next)
    BY <1>2
  <1> HIDE DEF tag, c, new
  <1>7. next \in LinksOf(c) /\ next # new /\ next \in {Null} \cup DOMAIN c.tags.node
    BY <1>1 DEF LinksOf
  <1>8. deal_with_end(c, new, next, endpos, junk) = d
    <2>1. next # Null => /\ endpos <= Tag(c, next).offset
                         /\ Tag(c, next).offset = endpos => Tag(c, next).type # Tag(c, new).type
      BY <1>2, <1>4, <1>6
    <2> HIDE DEF endpos
    <2> QED
      BY <1>1, <1>3, <1>7, <2>1, DealLinks
  <1>9. new \in Held(c) /\ next \in Held(c) => Tag(c, new).offset < Tag(c, next).offset
    <2>1. next \in Held(c) => next # Null
      BY <1>1, <1>2, HeldSome DEF NeatBut
    <2>2. next # Null => Tag(b, next).offset \in Nat
      BY <1>6, BlockTyped DEF Ok, TagRec
    <2> QED
      BY <1>2, <1>3, <1>4, <1>6, <2>1, <2>2
  <1>10. Ok(d) /\ Same(c, d, new) /\ Tag(d, new).next = next /\ d.outcome = c.outcome
    BY <1>1, <1>2, <1>7, <1>9, NextNeat
  <1>11. /\ DOMAIN d.tags.node = DOMAIN c.tags.node /\ Len(d.tags.node) = Len(c.tags.node)
         /\ Puts(c, d, new, [Tag(c, new) EXCEPT !.next = next])
    BY <1>1, <1>7, SetNextOk
  <1>12. SameRun(Tag(d, new), Tag(c, new))
    BY <1>1, <1>7, SetNextDealt
  <1> HIDE DEF d
  <1>13. d.firsttag = c.firsttag /\ \A m \in DOMAIN b.tags.node : Tag(d, m) = Tag(b, m)
    BY <1>1, <1>2, <1>5, <1>11 DEF Puts
  <1>14. Tag(d, new).offset = offset /\ TagEnd(d, new) = offset + SizeOf[t]
    BY <1>2, <1>3, <1>4, <1>12 DEF SameRun, TagEnd
  <1>15. Placed(b, d, t, offset, next)
    BY <1>1, <1>2, <1>5, <1>10, <1>11, <1>13, <1>14 DEF Placed, Same, TagEnd, new
  <1> QED
    BY <1>8, <1>15 DEF c, tag, new, endpos


LEMMA PutHeld ==
  ASSUME NEW b \in BlockRec, \E D : GoodTree(b.tags, D), NEW n \in DOMAIN b.tags.node, NEW val, NEW c, Puts(b, c, n, val)
  PROVE  Held(c) = Held(b)
  <1>1. PICK D : GoodTree(b.tags, D)
    OBVIOUS
  <1>2. GoodTree(c.tags, D) /\ c \in BlockRec /\ c.tags.head = b.tags.head
    BY <1>1, AlikeGood DEF Puts, Alike
  <1> QED
    BY <1>1, <1>2, HeldIs

LEMMA WriteFirstFilled ==
  ASSUME NEW b, Ok(b), NEW B, Neat(b, B), Chained(b), NEW t \in Types, NEW offset \in Nat, Object(B, t, offset),
         NEW junk \in Junk, Free(b, t, offset), \A n \in DOMAIN b.tags.node : offset < Tag(b, n).offset
  PROVE  Filled(b, WriteFirst(b, t, SizeOf[t], offset, junk), t, offset)
  <1> DEFINE c == Insert(b, mem_tag(offset, SizeOf[t], t, junk.next), junk.col)
             new == NewTag(b)
             first == b.firsttag
             d == deal_with_end(c, new, first, offset + SizeOf[t], junk)
             e == [d EXCEPT !.firsttag = new]
             N == DOMAIN b.tags.node
  <1>1. WriteFirst(b, t, SizeOf[t], offset, junk) = e
    BY DEF WriteFirst
  <1>2. \A n \in N : /\ Tag(b, n).offset \in Nat /\ TagEnd(b, n) \in Nat /\ Tag(b, n).offset < TagEnd(b, n)
    BY TagSizes DEF Neat
  <1>3. SizeOf[t] \in Nat \ {0}
    BY TagAssumption
  <1>4. \A n \in N : offset + SizeOf[t] <= Tag(b, n).offset
    BY <1>2, <1>3 DEF Free
  <1>5. first \in {Null} \cup N
    BY DEF Ok
  <1>6. \A x \in Held(b) : Tag(b, x).offset # offset
    BY <1>2, HeldSome DEF Neat
  <1>7. Placed(b, d, t, offset, first)
    <2>1. first # Null => /\ offset + SizeOf[t] <= Tag(b, first).offset
                          /\ Tag(b, first).offset = offset + SizeOf[t] => Tag(b, first).type # t
      BY <1>4, <1>5 DEF Free
    <2> HIDE DEF first
    <2> QED
      BY <1>5, <1>6, <2>1, PlaceNew
  <1> HIDE DEF d, new
  <1>8. /\ Ok(d) /\ DOMAIN d.tags.node = N \cup {new} /\ Len(d.tags.node) = new /\ new \notin N
        /\ \A m \in N : /\ Tag(d, m).offset = Tag(b, m).offset /\ TagEnd(d, m) = TagEnd(b, m)
                        /\ Tag(d, m).next = Tag(b, m).next
        /\ Tag(d, new).offset = offset /\ TagEnd(d, new) = offset + SizeOf[t] /\ Tag(d, new).next = first
        /\ new \in Held(d) /\ d.outcome = b.outcome
    BY <1>7 DEF Placed, new
  <1>9. e.tags = d.tags /\ e.firsttag = new /\ e.outcome = d.outcome /\ \A m : Tag(e, m) = Tag(d, m)
    <2>1. Ok(d) /\ new \in DOMAIN d.tags.node
      BY <1>8
    <2> QED
      BY <2>1, FirstOk
  <1>10. Held(e) = Held(d) /\ \A m : TagEnd(e, m) = TagEnd(d, m)
    BY <1>9 DEF Held, TagEnd
  <1> HIDE DEF e, N
  <1>11. /\ DOMAIN e.tags.node = N \cup {new} /\ Len(e.tags.node) = new /\ new \notin N
         /\ \A m \in N : /\ Tag(e, m).offset = Tag(b, m).offset /\ TagEnd(e, m) = TagEnd(b, m)
                         /\ Tag(e, m).next = Tag(b, m).next
         /\ Tag(e, new).offset = offset /\ TagEnd(e, new) = offset + SizeOf[t] /\ Tag(e, new).next = first
         /\ new \in Held(e) /\ e.outcome = b.outcome /\ e.firsttag = new
    BY <1>8, <1>9, <1>10
  <1>12. /\ \A n, m \in N : n # m => TagEnd(b, n) <= Tag(b, m).offset \/ TagEnd(b, m) <= Tag(b, n).offset
         /\ \A n \in N : Follows(b, n, Tag(b, n).next)
         /\ first = Null => N = {}
         /\ \A k \in N : Tag(b, first).offset <= Tag(b, k).offset
    BY DEF Chained, Apart, N
  <1>13. Apart(e)
    BY <1>4, <1>11, <1>12 DEF Apart
  <1>14. ASSUME NEW n \in N
         PROVE  Follows(e, n, Tag(e, n).next)
    <2>1. Follows(b, n, Tag(b, n).next)
      BY <1>12
    <2>2. offset < Tag(b, n).offset
      BY DEF N
    <2> QED
      BY <1>2, <1>11, <2>1, <2>2 DEF Follows, N
  <1>15. Follows(e, new, first)
    <2>1. CASE first = Null
      BY <1>11, <1>12, <2>1 DEF Follows
    <2>2. CASE first \in N
      <3>1. offset < Tag(b, first).offset
        BY <2>2 DEF N
      <3> QED
        BY <1>11, <1>12, <2>2, <3>1 DEF Follows
    <2> QED
      BY <1>5, <2>1, <2>2 DEF N
  <1>16. \A k \in DOMAIN e.tags.node : Tag(e, new).offset <= Tag(e, k).offset
    <2>1. \A k \in N : offset < Tag(b, k).offset
      BY DEF N
    <2> QED
      BY <1>2, <1>11, <2>1 DEF N
  <1>17. new # Null
    BY BlockTyped DEF Ok, new
  <1>18. Chained(e)
    BY <1>11, <1>13, <1>14, <1>15, <1>16, <1>17 DEF Chained
  <1>19. \A m \in N : TagEnd(b, m) <= TagEnd(e, m)
    BY <1>2, <1>11 DEF N
  <1>20. Tag(e, new).offset <= offset /\ offset + SizeOf[t] <= TagEnd(e, new)
    BY <1>3, <1>11
  <1>21. Filled(b, e, t, offset)
    BY <1>11, <1>18, <1>19, <1>20 DEF Filled, N, new
  <1> QED
    BY <1>1, <1>21

LEMMA WriteBehindFilled ==
  ASSUME NEW b, Ok(b), NEW B, Neat(b, B), Chained(b), NEW t \in Types, NEW offset \in Nat, Object(B, t, offset),
         NEW junk \in Junk, Free(b, t, offset), NEW start \in DOMAIN b.tags.node, Tag(b, start).offset < offset,
         Nearest(b, DOMAIN b.tags.node, offset, start)
  PROVE  Filled(b, WriteBehind(b, start, t, SizeOf[t], offset, junk), t, offset)
  <1> DEFINE c == Insert(b, mem_tag(offset, SizeOf[t], t, junk.next), junk.col)
             new == NewTag(b)
             next == Tag(b, start).next
             d == deal_with_end(c, new, next, offset + SizeOf[t], junk)
             e == SetNext(d, start, new)
             N == DOMAIN b.tags.node
  <1>1. WriteBehind(b, start, t, SizeOf[t], offset, junk) = e
    BY DEF WriteBehind
  <1>2. \A n \in N : /\ Tag(b, n).offset \in Nat /\ TagEnd(b, n) \in Nat /\ Tag(b, n).offset < TagEnd(b, n)
    BY TagSizes DEF Neat
  <1>3. SizeOf[t] \in Nat \ {0}
    BY TagAssumption
  <1>4. \A n \in N : Tag(b, n).offset <= offset => Tag(b, n).offset <= Tag(b, start).offset
    BY DEF Nearest
  <1>5. \A n \in N : Tag(b, n).offset > Tag(b, start).offset => offset + SizeOf[t] <= Tag(b, n).offset
    BY <1>2, <1>3, <1>4 DEF Free
  <1>6. Follows(b, start, next)
    BY DEF Chained
  <1>7. next \in {Null} \cup N /\ (next # Null => Tag(b, start).offset < Tag(b, next).offset)
    BY <1>6 DEF Follows
  <1>8. \A x \in Held(b) : Tag(b, x).offset # offset
    <2>1. Held(b) \subseteq N
      BY HeldSome DEF Neat
    <2> QED
      BY <1>2, <1>4, <2>1
  <1>9. Placed(b, d, t, offset, next)
    <2>1. next # Null => /\ offset + SizeOf[t] <= Tag(b, next).offset
                         /\ Tag(b, next).offset = offset + SizeOf[t] => Tag(b, next).type # t
      BY <1>2, <1>5, <1>7 DEF Free
    <2> HIDE DEF next
    <2> QED
      BY <1>7, <1>8, <2>1, PlaceNew
  <1> HIDE DEF d, new
  <1>10. /\ Ok(d) /\ DOMAIN d.tags.node = N \cup {new} /\ Len(d.tags.node) = new /\ new \notin N
         /\ \A m \in N : /\ Tag(d, m).offset = Tag(b, m).offset /\ TagEnd(d, m) = TagEnd(b, m)
                         /\ Tag(d, m).next = Tag(b, m).next
         /\ Tag(d, new).offset = offset /\ TagEnd(d, new) = offset + SizeOf[t] /\ Tag(d, new).next = next
         /\ new \in Held(d) /\ d.outcome = b.outcome /\ d.firsttag = b.firsttag
    BY <1>9 DEF Placed, new
  <1>11. start # new /\ start \in DOMAIN d.tags.node /\ new \in LinksOf(d)
    BY <1>10 DEF LinksOf
  <1>12. /\ Ok(e) /\ DOMAIN e.tags.node = DOMAIN d.tags.node /\ Len(e.tags.node) = Len(d.tags.node)
         /\ Puts(d, e, start, [Tag(d, start) EXCEPT !.next = new])
    <2>1. Ok(d)
      BY <1>10
    <2> QED
      BY <1>11, <2>1, SetNextOk
  <1>13. SameRun(Tag(e, start), Tag(d, start))
    BY <1>10, <1>11, SetNextDealt
  <1>14. Tag(e, start).next = new
    <2>1. Tag(d, start) \in TagRec
      BY <1>10, <1>11, BlockTyped DEF Ok
    <2> QED
      BY <1>12, <2>1 DEF Puts, TagRec
  <1>15. Held(e) = Held(d)
    <2> DEFINE val == [Tag(d, start) EXCEPT !.next = new]
    <2>1. Puts(d, e, start, val) /\ d \in BlockRec /\ \E D : GoodTree(d.tags, D)
      BY <1>10, <1>12 DEF Ok
    <2> HIDE DEF val, e
    <2> QED
      BY <1>11, <2>1, PutHeld
  <1> HIDE DEF e
  <1>16. /\ e.firsttag = d.firsttag /\ e.outcome = d.outcome
         /\ \A m \in DOMAIN d.tags.node : m # start => Tag(e, m) = Tag(d, m)
    BY <1>12 DEF Puts
  <1>17. \A m \in DOMAIN d.tags.node : Tag(e, m).offset = Tag(d, m).offset /\ TagEnd(e, m) = TagEnd(d, m)
    BY <1>13, <1>16, SameEnd DEF TagEnd
  <1> HIDE DEF N
  <1>18. /\ DOMAIN e.tags.node = N \cup {new} /\ Len(e.tags.node) = new /\ new \notin N /\ start \in N
         /\ \A m \in N : Tag(e, m).offset = Tag(b, m).offset /\ TagEnd(e, m) = TagEnd(b, m)
         /\ \A m \in N : m # start => Tag(e, m).next = Tag(b, m).next
         /\ Tag(e, new).offset = offset /\ TagEnd(e, new) = offset + SizeOf[t] /\ Tag(e, new).next = next
         /\ Tag(e, start).next = new
         /\ new \in Held(e) /\ e.outcome = b.outcome /\ e.firsttag = b.firsttag
    BY <1>10, <1>11, <1>12, <1>14, <1>15, <1>16, <1>17 DEF N
  <1>19. /\ \A n, m \in N : n # m => TagEnd(b, n) <= Tag(b, m).offset \/ TagEnd(b, m) <= Tag(b, n).offset
         /\ \A n \in N : Follows(b, n, Tag(b, n).next)
         /\ b.firsttag \in N
         /\ \A k \in N : Tag(b, b.firsttag).offset <= Tag(b, k).offset
    BY <1>18 DEF Chained, Apart, N, Ok
  <1>20. Apart(e)
    <2>1. \A n \in N : TagEnd(b, n) <= offset \/ offset + SizeOf[t] <= Tag(b, n).offset
      BY DEF Free, N
    <2> QED
      BY <1>18, <1>19, <2>1 DEF Apart
  <1>21. \A n \in N : n # start => Tag(b, n).offset # Tag(b, start).offset
    BY <1>2, <1>18, <1>19
  <1>22. ASSUME NEW n \in N, n # start
         PROVE  Follows(e, n, Tag(e, n).next)
    <2> DEFINE m == Tag(b, n).next
    <2>1. Follows(b, n, m)
      BY <1>19
    <2>2. Tag(b, n).offset > Tag(b, start).offset => offset < Tag(b, n).offset
      BY <1>2, <1>3, <1>5
    <2> HIDE DEF m
    <2>3. CASE m = Null
      <3>1. \A k \in N : Tag(b, k).offset <= Tag(b, n).offset
        BY <2>1, <2>3, BlockTyped DEF Follows, N, Ok
      <3>2. offset <= Tag(b, n).offset
        BY <1>2, <1>18, <1>21, <1>22, <2>2, <3>1 DEF N
      <3>3. Tag(e, n).next = Null
        BY <1>18, <1>22, <2>3 DEF m
      <3> QED
        BY <1>18, <1>22, <3>1, <3>2, <3>3 DEF Follows
    <2>4. CASE m # Null
      <3>1. m \in N /\ Tag(b, n).offset < Tag(b, m).offset
            /\ \A k \in N : Tag(b, k).offset <= Tag(b, n).offset \/ Tag(b, m).offset <= Tag(b, k).offset
        BY <2>1, <2>4 DEF Follows, N
      <3>2. offset <= Tag(b, n).offset \/ Tag(b, m).offset <= offset
        BY <1>2, <1>18, <1>21, <1>22, <2>2, <3>1
      <3> QED
        BY <1>18, <1>22, <3>1, <3>2 DEF Follows, m
    <2> QED
      BY <2>3, <2>4
  <1>23. Follows(e, start, new)
    BY <1>2, <1>3, <1>5, <1>18 DEF Follows, N
  <1>24. Follows(e, new, next)
    <2>1. CASE next = Null
      <3>1. \A k \in N : Tag(b, k).offset <= Tag(b, start).offset
        BY <1>6, <2>1, BlockTyped DEF Follows, N, Ok
      <3> QED
        BY <1>2, <1>18, <2>1, <3>1 DEF Follows
    <2>2. CASE next \in N
      <3>1. next # Null
        BY <2>2, BlockTyped DEF N, Ok
      <3>2. \A k \in N : Tag(b, k).offset <= Tag(b, start).offset \/ Tag(b, next).offset <= Tag(b, k).offset
        BY <1>6, <3>1 DEF Follows, N
      <3>3. offset < Tag(b, next).offset
        BY <1>2, <1>3, <1>5, <1>7, <2>2, <3>1
      <3> QED
        BY <1>2, <1>18, <2>2, <3>2, <3>3 DEF Follows
    <2> QED
      BY <1>7, <2>1, <2>2 DEF N
  <1>25. \A k \in N \cup {new} : Tag(e, b.firsttag).offset <= Tag(e, k).offset
    BY <1>2, <1>18, <1>19
  <1>26. b.firsttag # Null
    BY <1>19, BlockTyped DEF N, Ok
  <1>27. Chained(e)
    BY <1>18, <1>20, <1>22, <1>23, <1>24, <1>25, <1>26 DEF Chained
  <1>28. \A m \in N : TagEnd(b, m) <= TagEnd(e, m)
    BY <1>2, <1>18 DEF N
  <1>29. Tag(e, new).offset <= offset /\ offset + SizeOf[t] <= TagEnd(e, new)
    BY <1>3, <1>18
  <1>30. Filled(b, e, t, offset)
    BY <1>18, <1>27, <1>28, <1>29 DEF Filled, N, new
  <1> QED
    BY <1>1, <1>30


LEMMA WriteExtendingFilled ==
  ASSUME NEW b, Ok(b), NEW B, Neat(b, B), Chained(b), NEW t \in Types, NEW offset \in Nat,
         NEW junk \in Junk, Free(b, t, offset), NEW start \in DOMAIN b.tags.node,
         offset = TagEnd(b, start), t = Tag(b, start).type, Nearest(b, DOMAIN b.tags.node, offset, start)
  PROVE  Filled(b, WriteExtending(b, start, junk), t, offset)
  <1> DEFINE s == Tag(b, start)
             k == s.count + 1
             val == [s EXCEPT !.count = k]
             c == SetCount(b, start, k)
             endpos == TagEnd(b, start) + s.typesize
             next == s.next
             e == SetNext(c, start, next)
             N == DOMAIN b.tags.node
  <1>1. /\ s \in TagRec /\ s.offset \in Nat /\ s.typesize \in Nat \ {0} /\ s.count \in Nat
        /\ next \in LinksOf(b) /\ next # start
        /\ s.typesize = IF s.type = RawType THEN 1 ELSE SizeOf[s.type]
        /\ TagEnd(b, start) = s.offset + s.typesize * s.count
    BY StartIs
  <1>2. s.typesize = SizeOf[t] /\ SizeOf[t] \in Nat \ {0}
    BY <1>1, TagAssumption
  <1>3. \A n \in N : /\ Tag(b, n).offset \in Nat /\ TagEnd(b, n) \in Nat /\ Tag(b, n).offset < TagEnd(b, n)
    BY TagSizes DEF Neat
  <1>4. k \in Nat /\ endpos \in Nat /\ endpos = offset + SizeOf[t]
    BY <1>1, <1>2
  <1>5. val.offset = s.offset /\ val.type = s.type /\ val.typesize = s.typesize /\ val.count = k /\ val.next = next
    BY <1>1 DEF TagRec
  <1>6. s.offset + s.typesize * k = endpos
    <2> HIDE DEF s
    <2>1. s.typesize * (s.count + 1) = s.typesize * s.count + s.typesize /\ s.typesize * s.count \in Nat
      BY <1>1
    <2> QED
      BY <1>1, <2>1
  <1>7. \A n \in N : Tag(b, n).offset <= offset => Tag(b, n).offset <= s.offset
    BY DEF Nearest
  <1>8. \A n \in N : Tag(b, n).offset > s.offset => offset + SizeOf[t] <= Tag(b, n).offset
    BY <1>1, <1>2, <1>3, <1>7 DEF Free
  <1>9. Follows(b, start, next)
    BY DEF Chained
  <1>10. next \in {Null} \cup N /\ (next # Null => s.offset < Tag(b, next).offset)
    BY <1>9 DEF Follows
  <1> HIDE DEF k, endpos
  <1>11. /\ Ok(c) /\ DOMAIN c.tags.node = N /\ Len(c.tags.node) = Len(b.tags.node) /\ Puts(b, c, start, val)
    BY <1>4, SetCountOk
  <1> HIDE DEF val
  <1>12. Held(c) = Held(b)
    BY <1>11, PutHeld DEF Ok
  <1> HIDE DEF c
  <1>13. /\ Tag(c, start) = val /\ c.outcome = b.outcome /\ c.firsttag = b.firsttag
         /\ \A n \in N : n # start => Tag(c, n) = Tag(b, n)
    BY <1>11 DEF Puts
  <1>14. WriteExtending(b, start, junk) = deal_with_end(c, start, next, endpos, junk)
    BY DEF WriteExtending, c, k, endpos
  <1>15. deal_with_end(c, start, next, endpos, junk) = e
    <2>1. next # Null => /\ endpos <= Tag(c, next).offset
                         /\ Tag(c, next).offset = endpos => Tag(c, next).type # Tag(c, start).type
      BY <1>1, <1>3, <1>4, <1>5, <1>8, <1>10, <1>13 DEF Free
    <2>2. next \in {Null} \cup DOMAIN c.tags.node /\ start \in DOMAIN c.tags.node
      BY <1>10, <1>11
    <2> HIDE DEF next, e
    <2> QED
      BY <1>4, <1>11, <2>1, <2>2, DealLinks DEF e
  <1>16. next \in LinksOf(c) /\ start \in DOMAIN c.tags.node
    BY <1>10, <1>11 DEF LinksOf
  <1>17. /\ DOMAIN e.tags.node = DOMAIN c.tags.node /\ Len(e.tags.node) = Len(c.tags.node)
         /\ Puts(c, e, start, [Tag(c, start) EXCEPT !.next = next])
    BY <1>1, <1>11, <1>16, SetNextOk
  <1>18. SameRun(Tag(e, start), Tag(c, start))
    BY <1>1, <1>11, <1>16, SetNextDealt
  <1>19. Tag(e, start).next = next
    <2>1. Tag(c, start) \in TagRec
      BY <1>11, <1>16, BlockTyped DEF Ok
    <2> QED
      BY <1>17, <2>1 DEF Puts, TagRec
  <1>20. Held(e) = Held(c)
    <2> DEFINE w == [Tag(c, start) EXCEPT !.next = next]
    <2>1. Puts(c, e, start, w) /\ c \in BlockRec /\ \E D : GoodTree(c.tags, D)
      BY <1>11, <1>17 DEF Ok
    <2> HIDE DEF w, e
    <2> QED
      BY <1>16, <2>1, PutHeld
  <1> HIDE DEF e
  <1>21. /\ e.firsttag = b.firsttag /\ e.outcome = b.outcome
         /\ \A m \in N : m # start => Tag(e, m) = Tag(b, m)
    BY <1>11, <1>13, <1>17 DEF Puts
  <1>22. Tag(e, start).offset = s.offset /\ TagEnd(e, start) = endpos
    BY <1>5, <1>6, <1>13, <1>18 DEF SameRun, TagEnd
  <1>23. \A m \in N : m # start => TagEnd(e, m) = TagEnd(b, m)
    BY <1>21 DEF TagEnd
  <1>24. \A m \in N : Tag(e, m).offset = Tag(b, m).offset /\ Tag(e, m).next = Tag(b, m).next
    BY <1>19, <1>21, <1>22
  <1> HIDE DEF N
  <1>25. start \in N /\ DOMAIN e.tags.node = N
    BY <1>11, <1>17 DEF N
  <1>26. /\ \A n, m \in N : n # m => TagEnd(b, n) <= Tag(b, m).offset \/ TagEnd(b, m) <= Tag(b, n).offset
         /\ \A n \in N : Follows(b, n, Tag(b, n).next)
         /\ b.firsttag = Null => N = {}
         /\ \A m \in N : Tag(b, b.firsttag).offset <= Tag(b, m).offset
    BY DEF Chained, Apart, N
  <1>27. \A m \in N : m # start => TagEnd(b, m) <= s.offset \/ endpos <= Tag(b, m).offset
    <2> SUFFICES ASSUME NEW m \in N, m # start
                 PROVE  TagEnd(b, m) <= s.offset \/ endpos <= Tag(b, m).offset
      OBVIOUS
    <2>1. TagEnd(b, m) <= s.offset \/ TagEnd(b, start) <= Tag(b, m).offset
      BY <1>25, <1>26
    <2>2. TagEnd(b, start) <= Tag(b, m).offset => Tag(b, m).offset > s.offset
      BY <1>3, <1>25
    <2> QED
      BY <1>4, <1>8, <2>1, <2>2
  <1>28. Apart(e)
    BY <1>22, <1>23, <1>24, <1>25, <1>26, <1>27 DEF Apart
  <1>29. ASSUME NEW n \in N
         PROVE  Follows(e, n, Tag(e, n).next)
    <2>1. Follows(b, n, Tag(b, n).next)
      BY <1>26
    <2> QED
      BY <1>24, <1>25, <2>1 DEF Follows, N
  <1>30. \A m \in N : Tag(e, e.firsttag).offset <= Tag(e, m).offset
    <2>1. N # {} => b.firsttag \in N
      BY <1>26 DEF Ok, N
    <2> QED
      BY <1>21, <1>24, <1>26, <2>1
  <1>31. Chained(e)
    BY <1>21, <1>25, <1>26, <1>28, <1>29, <1>30 DEF Chained
  <1>32. \A m \in N : TagEnd(b, m) <= TagEnd(e, m)
    BY <1>2, <1>3, <1>4, <1>22, <1>23 DEF N
  <1>33. Tag(e, start).offset <= offset /\ offset + SizeOf[t] <= TagEnd(e, start)
    <2>1. s.offset <= offset
      BY <1>3, <1>25 DEF N
    <2> QED
      BY <1>4, <1>22, <2>1
  <1>34. Filled(b, e, t, offset)
    BY <1>11, <1>12, <1>17, <1>20, <1>21, <1>24, <1>25, <1>31, <1>32, <1>33 DEF Filled, N
  <1> QED
    BY <1>14, <1>15, <1>34

(* A write to free bytes keeps the list of tags in order.                  *)
LEMMA UpdateFilled ==
  ASSUME NEW b, Ok(b), NEW B, Neat(b, B), Chained(b), NEW t \in Types, NEW offset \in Nat, Object(B, t, offset),
         NEW junk \in Junk, Free(b, t, offset), Nearest(b, DOMAIN b.tags.node, offset, findBelow(b.tags, offset))
  PROVE  Filled(b, update_tag_write(b, t, SizeOf[t], offset, junk), t, offset)
  <1> DEFINE start == findBelow(b.tags, offset)
             s == Tag(b, start)
             c == WriteAt(b, start, t, SizeOf[t], offset, junk)
             N == DOMAIN b.tags.node
  <1>1. c = update_tag_write(b, t, SizeOf[t], offset, junk)
    BY DEF update_tag_write
  <1>2. Nearest(b, N, offset, start) /\ Held(b) \subseteq N
    BY HeldSome DEF Neat
  <1> HIDE DEF start
  <1>3. \A n \in N : /\ Tag(b, n).offset \in Nat /\ TagEnd(b, n) \in Nat /\ Tag(b, n).offset < TagEnd(b, n)
    BY TagSizes DEF Neat
  <1>4. CASE start = Null
    <2>1. c = WriteFirst(b, t, SizeOf[t], offset, junk)
      BY <1>4 DEF WriteAt
    <2>2. \A n \in N : offset < Tag(b, n).offset
      BY <1>2, <1>3, <1>4 DEF Nearest
    <2> QED
      BY <1>1, <2>1, <2>2, WriteFirstFilled
  <1>5. CASE start # Null
    <2>1. start \in N /\ s.offset <= offset
      BY <1>2, <1>5 DEF Nearest
    <2>2. TagEnd(b, start) <= offset /\ s.offset < offset
      <3>1. TagEnd(b, start) <= offset \/ offset + SizeOf[t] <= s.offset
        BY <2>1 DEF Free
      <3>2. SizeOf[t] \in Nat \ {0}
        BY TagAssumption
      <3> QED
        BY <1>3, <2>1, <3>1, <3>2
    <2>3. c = IF offset = TagEnd(b, start) /\ t = s.type THEN WriteExtending(b, start, junk)
              ELSE IF offset >= TagEnd(b, start) THEN WriteBehind(b, start, t, SizeOf[t], offset, junk)
              ELSE IF (offset - s.offset) % s.typesize = 0 /\ t = s.type THEN b
              ELSE IF offset = s.offset THEN WriteOverFront(b, start, t, SizeOf[t], offset, junk)
              ELSE WriteInside(b, start, t, SizeOf[t], offset, junk)
      BY <1>5 DEF WriteAt
    <2>4. CASE offset = TagEnd(b, start) /\ t = s.type
      BY <1>1, <1>2, <2>1, <2>3, <2>4, WriteExtendingFilled
    <2>5. CASE ~(offset = TagEnd(b, start) /\ t = s.type)
      <3>1. c = WriteBehind(b, start, t, SizeOf[t], offset, junk)
        BY <1>3, <2>1, <2>2, <2>3, <2>5
      <3> QED
        BY <1>1, <1>2, <2>1, <2>2, <3>1, WriteBehindFilled
    <2> QED
      BY <2>4, <2>5
  <1> QED
    BY <1>4, <1>5

(* To write an object again where its tag is found changes no tag.         *)
LEMMA UpdateAgain ==
  ASSUME NEW b, Ok(b), NEW B, Neat(b, B), Chained(b), NEW t \in Types, NEW offset \in Nat, Object(B, t, offset),
         NEW junk \in Junk, Nearest(b, DOMAIN b.tags.node, offset, findBelow(b.tags, offset)),
         NEW m \in DOMAIN b.tags.node, Tag(b, m).offset <= offset, offset < TagEnd(b, m)
  PROVE  update_tag_write(b, t, SizeOf[t], offset, junk) = b
  <1> DEFINE start == findBelow(b.tags, offset)
             s == Tag(b, start)
             c == WriteAt(b, start, t, SizeOf[t], offset, junk)
             N == DOMAIN b.tags.node
  <1>1. c = update_tag_write(b, t, SizeOf[t], offset, junk)
    BY DEF update_tag_write
  <1>2. Nearest(b, N, offset, start) /\ Held(b) \subseteq N
    BY HeldSome DEF Neat
  <1> HIDE DEF start
  <1>3. \A n \in N : /\ Tag(b, n).offset \in Nat /\ TagEnd(b, n) \in Nat /\ Tag(b, n).offset < TagEnd(b, n)
    BY TagSizes DEF Neat
  <1>4. start # Null /\ start \in N /\ s.offset <= offset /\ Tag(b, m).offset <= s.offset
    BY <1>2 DEF Nearest
  <1>5. start = m
    <2>1. start # m => TagEnd(b, start) <= Tag(b, m).offset \/ TagEnd(b, m) <= s.offset
      BY <1>4 DEF Chained, Apart
    <2> QED
      BY <1>3, <1>4, <2>1
  <1>6. offset < TagEnd(b, start)
    BY <1>5
  <1>7. /\ s.typesize \in Nat \ {0} /\ TagEnd(b, start) = s.offset + s.typesize * s.count /\ Fits(s, B)
        /\ s.offset \in Nat
    BY <1>4, StartIs DEF Neat
  <1>8. B[offset].type = t /\ B[offset].at = offset
    BY TagAssumption, SpanIs
  <1>9. B[offset].type = s.type /\ B[offset].at = offset - ((offset - s.offset) % s.typesize)
    BY <1>4, <1>6, <1>7 DEF Fits
  <1>10. (offset - s.offset) % s.typesize = 0
    <2> DEFINE d == offset - s.offset
               z == s.typesize
               r == d % z
    <2>1. d \in Int /\ z \in Nat \ {0} /\ offset - r = offset
      BY <1>7, <1>8, <1>9
    <2> HIDE DEF d, z
    <2>2. r \in 0 .. (z - 1)
      BY <2>1, DivMod
    <2> HIDE DEF r
    <2>3. r = 0
      BY <2>1, <2>2
    <2> QED
      BY <2>3 DEF r, d, z
  <1>11. c = IF offset = TagEnd(b, start) /\ t = s.type THEN WriteExtending(b, start, junk)
             ELSE IF offset >= TagEnd(b, start) THEN WriteBehind(b, start, t, SizeOf[t], offset, junk)
             ELSE IF (offset - s.offset) % s.typesize = 0 /\ t = s.type THEN b
             ELSE IF offset = s.offset THEN WriteOverFront(b, start, t, SizeOf[t], offset, junk)
             ELSE WriteInside(b, start, t, SizeOf[t], offset, junk)
    BY <1>4 DEF WriteAt
  <1>12. c = b
    BY <1>3, <1>4, <1>6, <1>8, <1>9, <1>10, <1>11
  <1> QED
    BY <1>1, <1>12


(* Every byte written is covered by a tag.                                 *)
Complete(b, B) ==
  \A i \in DOMAIN B : B[i] # Unwritten =>
    \E n \in DOMAIN b.tags.node : Tag(b, n).offset <= i /\ i < TagEnd(b, n)

(* The tag made last is in the tree, and lies behind the others.           *)
Newest(b) ==
  DOMAIN b.tags.node # {} =>
    /\ Len(b.tags.node) \in Held(b)
    /\ \A n \in DOMAIN b.tags.node : Tag(b, n).offset <= Tag(b, Len(b.tags.node)).offset

(* The inductive invariant of a block by its history.                      *)
OrderInv ==
  /\ TagInv
  /\ history \in {"ascending", "tidy", "any"}
  /\ Orderly => block.outcome \in {"run", "exit"}
  /\ block.outcome = "run" =>
       /\ history # "any" => Neat(block, bytes)
       /\ Orderly => Chained(block) /\ Complete(block, bytes)
       /\ history = "ascending" => Newest(block)

(* What a write makes of the bytes; the two kinds of tidy writes.          *)
Put(B, t, offset) == [i \in DOMAIN B |-> IF i \in Span(t, offset) THEN [type |-> t, at |-> offset] ELSE B[i]]

Fills(B, t, offset) ==
  /\ \A i \in Span(t, offset) : B[i] = Unwritten
  /\ offset + SizeOf[t] \in DOMAIN B => B[offset + SizeOf[t]].type # t

Replaces(B, t, offset) == \A i \in Span(t, offset) : B[i] = [type |-> t, at |-> offset]

LEMMA PutIs ==
  ASSUME NEW B, DOMAIN B = 0 .. (BlockSize - 1), NEW t \in Types, NEW offset \in Nat, InBounds(t, offset)
  PROVE  /\ DOMAIN Put(B, t, offset) = DOMAIN B
         /\ Object(Put(B, t, offset), t, offset)
         /\ \A i \in DOMAIN B : i \notin Span(t, offset) => Put(B, t, offset)[i] = B[i]
         /\ Replaces(B, t, offset) => \A i \in DOMAIN B : Put(B, t, offset)[i] = B[i]
         /\ Fills(B, t, offset) \/ Replaces(B, t, offset) =>
              \A i \in DOMAIN B : B[i] # Unwritten => Put(B, t, offset)[i] = B[i]
  <1>1. BlockSize \in Nat /\ SizeOf[t] \in Nat \ {0}
    BY TagAssumption
  <1>2. \A i \in Span(t, offset) : i \in DOMAIN B
    BY <1>1 DEF InBounds, Span
  <1>3. Object(Put(B, t, offset), t, offset)
    BY <1>2 DEF Object, Put
  <1> QED
    BY <1>3 DEF Put, Replaces, Fills

LEMMA NeatPut ==
  ASSUME NEW b, NEW B, NEW C, Neat(b, B), DOMAIN C = DOMAIN B, \A i \in DOMAIN B : B[i] # Unwritten => C[i] = B[i]
  PROVE  Neat(b, C)
  <1>1. ASSUME NEW n \in DOMAIN b.tags.node
        PROVE  Fits(Tag(b, n), C)
    <2> DEFINE x == Tag(b, n)
    <2>1. Fits(x, B)
      BY DEF Neat
    <2>2. RawType \notin Types
      BY TagAssumption
    <2> HIDE DEF x
    <2>3. Fits(x, C)
      BY <2>1, <2>2 DEF Fits, Unwritten
    <2> QED
      BY <2>3 DEF x
  <1> QED
    BY <1>1 DEF Neat

(* What is covered is written.                                             *)
LEMMA CoveredWritten ==
  ASSUME NEW b, NEW B, Neat(b, B), NEW n \in DOMAIN b.tags.node, NEW i \in Nat,
         Tag(b, n).offset <= i, i < TagEnd(b, n)
  PROVE  /\ i \in DOMAIN B /\ B[i] # Unwritten /\ B[i].type = Tag(b, n).type
         /\ B[i].at = i - ((i - Tag(b, n).offset) % Tag(b, n).typesize)
  <1>1. Fits(Tag(b, n), B) /\ RawType \notin Types
    BY TagAssumption DEF Neat
  <1> QED
    BY <1>1 DEF Fits, TagEnd, Unwritten

LEMMA FillsFree ==
  ASSUME NEW b, Ok(b), NEW B, Neat(b, B), NEW t \in Types, NEW offset \in Nat, Fills(B, t, offset)
  PROVE  Free(b, t, offset)
  <1> SUFFICES ASSUME NEW n \in DOMAIN b.tags.node
               PROVE  /\ TagEnd(b, n) <= offset \/ offset + SizeOf[t] <= Tag(b, n).offset
                      /\ Tag(b, n).offset = offset + SizeOf[t] => Tag(b, n).type # t
    BY DEF Free
  <1> DEFINE o == Tag(b, n).offset
             e == TagEnd(b, n)
             z == SizeOf[t]
  <1>1. o \in Nat /\ e \in Nat /\ o < e /\ z \in Nat \ {0}
    BY TagSizes, TagAssumption DEF Neat
  <1>2. \A i \in Nat : o <= i /\ i < e => i \in DOMAIN B /\ B[i] # Unwritten /\ B[i].type = Tag(b, n).type
    BY CoveredWritten
  <1>3. \A i \in Nat : offset <= i /\ i < offset + z => B[i] = Unwritten
    BY <1>1 DEF Fills, Span
  <1>4. offset + z \in DOMAIN B => B[offset + z].type # t
    BY DEF Fills
  <1> HIDE DEF o, e, z
  <1>5. e <= offset \/ offset + z <= o
    <2>1. CASE o <= offset
      BY <1>1, <1>2, <1>3, <2>1
    <2>2. CASE o > offset
      BY <1>1, <1>2, <1>3, <2>2
    <2> QED
      BY <1>1, <2>1, <2>2
  <1>6. o = offset + z => Tag(b, n).type # t
    BY <1>1, <1>2, <1>4
  <1> QED
    BY <1>5, <1>6 DEF o, e, z

LEMMA CompletePut ==
  ASSUME NEW b, NEW c, NEW B, DOMAIN B = 0 .. (BlockSize - 1), Complete(b, B), NEW t \in Types, NEW offset \in Nat,
         InBounds(t, offset), Ok(b), Ok(c), Filled(b, c, t, offset)
  PROVE  Complete(c, Put(B, t, offset))
  <1> DEFINE C == Put(B, t, offset)
  <1> SUFFICES ASSUME NEW i \in DOMAIN B, C[i] # Unwritten
               PROVE  \E n \in DOMAIN c.tags.node : Tag(c, n).offset <= i /\ i < TagEnd(c, n)
    BY PutIs DEF Complete
  <1>1. i \in Int /\ SizeOf[t] \in Nat
    BY TagAssumption
  <1>2. /\ \A n \in DOMAIN c.tags.node : Tag(c, n).offset \in Nat /\ TagEnd(c, n) \in Nat
        /\ \A n \in DOMAIN b.tags.node : Tag(b, n).offset \in Nat /\ TagEnd(b, n) \in Nat
    BY StartIs
  <1>3. CASE i \in Span(t, offset)
    <2>1. offset <= i /\ i < offset + SizeOf[t]
      BY <1>1, <1>3 DEF Span
    <2>2. PICK n \in DOMAIN c.tags.node : Tag(c, n).offset <= offset /\ offset + SizeOf[t] <= TagEnd(c, n)
      BY DEF Filled
    <2>3. Tag(c, n).offset <= i /\ i < TagEnd(c, n)
      BY <1>1, <1>2, <2>1, <2>2
    <2> QED
      BY <2>3
  <1>4. CASE i \notin Span(t, offset)
    <2>1. B[i] # Unwritten
      BY <1>4, PutIs
    <2>2. PICK n \in DOMAIN b.tags.node : Tag(b, n).offset <= i /\ i < TagEnd(b, n)
      BY <2>1 DEF Complete
    <2>3. n \in DOMAIN c.tags.node /\ Tag(c, n).offset = Tag(b, n).offset /\ TagEnd(b, n) <= TagEnd(c, n)
      BY DEF Filled
    <2>4. Tag(c, n).offset <= i /\ i < TagEnd(c, n)
      BY <1>1, <1>2, <2>2, <2>3
    <2> QED
      BY <2>3, <2>4
  <1> QED
    BY <1>3, <1>4

(* Lookups see every tag while they all are in the tree, and if the newest *)
(* lies behind the others and the write behind it.                         *)
LEMMA SmallNearest ==
  ASSUME NEW b, Ok(b), Ordered(b), Len(b.tags.node) <= 4, NEW offset \in Nat
  PROVE  Nearest(b, DOMAIN b.tags.node, offset, findBelow(b.tags, offset))
  <1>1. Held(b) = DOMAIN b.tags.node
    BY HeldIs DEF Ordered, Ok
  <1> QED
    BY <1>1, LookupNearest DEF Ok

LEMMA NewestNearest ==
  ASSUME NEW b, Ok(b), Ordered(b), Newest(b), NEW offset \in Nat,
         \A n \in DOMAIN b.tags.node : Tag(b, n).offset < offset
  PROVE  Nearest(b, DOMAIN b.tags.node, offset, findBelow(b.tags, offset))
  <1> DEFINE start == findBelow(b.tags, offset)
             new == Len(b.tags.node)
             N == DOMAIN b.tags.node
  <1>1. Nearest(b, Held(b), offset, start) /\ Held(b) \subseteq N
    BY LookupNearest, HeldSome DEF Ok
  <1>2. \A n \in N : Tag(b, n).offset \in Nat
    BY StartIs
  <1> HIDE DEF start
  <1>3. N # {} => new \in Held(b) /\ \A n \in N : Tag(b, n).offset <= Tag(b, new).offset
    BY DEF Newest
  <1> HIDE DEF new
  <1>4. N # {} => start # Null /\ Tag(b, new).offset <= Tag(b, start).offset /\ start \in N
    BY <1>1, <1>2, <1>3 DEF Nearest
  <1>5. \A n \in N : start # Null /\ Tag(b, n).offset <= Tag(b, start).offset
    BY <1>1, <1>2, <1>3, <1>4
  <1>6. Nearest(b, N, offset, start)
    BY <1>1, <1>5 DEF Nearest
  <1> QED
    BY <1>6 DEF start

LEMMA NewestFilled ==
  ASSUME NEW b, Ok(b), NEW c, NEW t, NEW offset \in Nat, Filled(b, c, t, offset), Newest(b),
         \A n \in DOMAIN b.tags.node : Tag(b, n).offset < offset
  PROVE  Newest(c)
  <1>1. \A n \in DOMAIN b.tags.node : Tag(b, n).offset \in Nat /\ Tag(c, n).offset = Tag(b, n).offset
    BY StartIs DEF Filled
  <1>2. CASE /\ DOMAIN c.tags.node = DOMAIN b.tags.node /\ Len(c.tags.node) = Len(b.tags.node)
             /\ Held(c) = Held(b)
    <2>1. DOMAIN b.tags.node # {} => Len(b.tags.node) \in DOMAIN b.tags.node
      BY BlockTyped DEF Ok
    <2> QED
      BY <1>1, <1>2, <2>1 DEF Newest
  <1>3. CASE /\ DOMAIN c.tags.node = DOMAIN b.tags.node \cup {NewTag(b)} /\ Len(c.tags.node) = NewTag(b)
             /\ NewTag(b) \in Held(c) /\ Tag(c, NewTag(b)).offset = offset
    BY <1>1, <1>3 DEF Newest
  <1> QED
    BY <1>2, <1>3 DEF Filled


(***************************************************************************)
(* One write of each kind, and the invariant.                              *)
(***************************************************************************)
LEMMA TidyStep ==
  ASSUME NEW b, Ok(b), NEW B, DOMAIN B = 0 .. (BlockSize - 1), Neat(b, B), NEW t \in Types, NEW offset \in Nat,
         InBounds(t, offset), NEW junk \in Junk, Fills(B, t, offset) \/ Replaces(B, t, offset)
  PROVE  LET c == update_tag_write(b, t, SizeOf[t], offset, junk)
         IN /\ Neat(b, Put(B, t, offset)) /\ Object(Put(B, t, offset), t, offset)
            /\ DOMAIN b.tags.node \subseteq DOMAIN c.tags.node
            /\ c.outcome = "run" => Neat(c, Put(B, t, offset))
  <1> DEFINE C == Put(B, t, offset)
  <1>1. /\ DOMAIN C = DOMAIN B /\ Object(C, t, offset)
        /\ \A i \in DOMAIN B : B[i] # Unwritten => C[i] = B[i]
    BY PutIs
  <1> HIDE DEF C
  <1>2. Neat(b, C)
    BY <1>1, NeatPut
  <1>3. LET c == update_tag_write(b, t, SizeOf[t], offset, junk)
        IN DOMAIN b.tags.node \subseteq DOMAIN c.tags.node /\ (c.outcome = "run" => Neat(c, C))
    BY <1>1, <1>2, UpdateNeat
  <1> QED
    BY <1>1, <1>2, <1>3 DEF C

LEMMA FillStep ==
  ASSUME NEW b, Ok(b), NEW B, DOMAIN B = 0 .. (BlockSize - 1), Neat(b, B), NEW t \in Types, NEW offset \in Nat,
         InBounds(t, offset), NEW junk \in Junk, Fills(B, t, offset), Chained(b), Complete(b, B),
         Nearest(b, DOMAIN b.tags.node, offset, findBelow(b.tags, offset))
  PROVE  LET c == update_tag_write(b, t, SizeOf[t], offset, junk)
         IN Filled(b, c, t, offset) /\ Complete(c, Put(B, t, offset))
  <1> DEFINE C == Put(B, t, offset)
             c == update_tag_write(b, t, SizeOf[t], offset, junk)
  <1>1. Neat(b, C) /\ Object(C, t, offset)
    BY TidyStep
  <1>2. Free(b, t, offset)
    BY FillsFree
  <1>3. Filled(b, c, t, offset)
    <2> HIDE DEF C
    <2> QED
      BY <1>1, <1>2, UpdateFilled
  <1>4. Ok(c)
    BY UpdateOk DEF Written
  <1> HIDE DEF c
  <1>5. Complete(c, C)
    BY <1>3, <1>4, CompletePut
  <1> QED
    BY <1>3, <1>5 DEF c

LEMMA ReplaceStep ==
  ASSUME NEW b, Ok(b), NEW B, DOMAIN B = 0 .. (BlockSize - 1), Neat(b, B), NEW t \in Types, NEW offset \in Nat,
         InBounds(t, offset), NEW junk \in Junk, Replaces(B, t, offset), Chained(b), Complete(b, B),
         Nearest(b, DOMAIN b.tags.node, offset, findBelow(b.tags, offset))
  PROVE  /\ update_tag_write(b, t, SizeOf[t], offset, junk) = b
         /\ Complete(b, Put(B, t, offset))
  <1> DEFINE C == Put(B, t, offset)
  <1>1. Neat(b, C) /\ Object(C, t, offset)
    BY TidyStep
  <1>2. offset \in Span(t, offset)
    BY TagAssumption DEF Span
  <1>3. offset \in DOMAIN B
    BY TagAssumption DEF InBounds
  <1>4. B[offset] # Unwritten
    BY <1>2, TagAssumption DEF Replaces, Unwritten
  <1>5. PICK m \in DOMAIN b.tags.node : Tag(b, m).offset <= offset /\ offset < TagEnd(b, m)
    BY <1>3, <1>4 DEF Complete
  <1>6. Complete(b, C)
    BY PutIs DEF Complete
  <1> HIDE DEF C
  <1>7. update_tag_write(b, t, SizeOf[t], offset, junk) = b
    BY <1>1, <1>5, UpdateAgain
  <1> QED
    BY <1>6, <1>7 DEF C

LEMMA NoTagsOrdered ==
  ASSUME NEW B, DOMAIN B = 0 .. (BlockSize - 1), \A i \in DOMAIN B : B[i] = Unwritten
  PROVE  Neat(NoTags, B) /\ Chained(NoTags) /\ Complete(NoTags, B) /\ Newest(NoTags)
  <1>1. NoTags.tags.node = <<>> /\ NoTags.tags.head = Null /\ DOMAIN NoTags.tags.node = {}
    BY DEF NoTags, EmptyTree
  <1>2. NoTags \in BlockRec /\ \E D : GoodTree(NoTags.tags, D)
    BY NoTagsOk DEF Ok
  <1>3. PICK D : GoodTree(NoTags.tags, D)
    BY <1>2
  <1>4. D[NoTags.tags.head] = {} /\ Held(NoTags) = {}
    BY <1>1, <1>2, <1>3, HeldIs DEF GoodTree, Shape, Linked
  <1>5. Ordered(NoTags)
    BY <1>3, <1>4 DEF Ordered, Sorted
  <1> QED
    BY <1>1, <1>4, <1>5 DEF Neat, Chained, Apart, Complete, Newest

(* A write above all that is written fills unwritten bytes, above all tags.*)
LEMMA AscendingFills ==
  ASSUME TagInv, NEW t \in Types, NEW offset \in Nat, InBounds(t, offset), IsAscending(t, offset), Neat(block, bytes)
  PROVE  /\ Fills(bytes, t, offset)
         /\ \A n \in DOMAIN block.tags.node : Tag(block, n).offset < offset
  <1>1. BlockSize \in Nat /\ SizeOf[t] \in Nat \ {0} /\ DOMAIN bytes = 0 .. (BlockSize - 1) /\ RawType # t
    BY TagAssumption DEF TagInv
  <1>2. \A i \in DOMAIN bytes : i >= offset => bytes[i] = Unwritten
    BY <1>1 DEF IsAscending
  <1>3. \A i \in Span(t, offset) : i \in DOMAIN bytes /\ i >= offset
    BY <1>1 DEF Span, InBounds
  <1>4. offset + SizeOf[t] >= offset
    BY <1>1
  <1>5. Fills(bytes, t, offset)
    BY <1>1, <1>2, <1>3, <1>4 DEF Fills, Unwritten
  <1>6. ASSUME NEW n \in DOMAIN block.tags.node
        PROVE  Tag(block, n).offset < offset
    <2>1. Tag(block, n).offset \in Nat /\ Tag(block, n).offset < TagEnd(block, n)
      BY TagSizes DEF TagInv, Neat
    <2>2. Tag(block, n).offset \in DOMAIN bytes /\ bytes[Tag(block, n).offset] # Unwritten
      BY <2>1, CoveredWritten
    <2> QED
      BY <2>1, <2>2 DEF IsAscending
  <1> QED
    BY <1>5, <1>6


LEMMA WriteOrders ==
  ASSUME OrderInv, NEW t \in Types, NEW offset \in 0 .. (BlockSize + 1), NEW junk \in Junk, Write(t, offset, junk),
         InBounds(t, offset)
  PROVE  OrderInv'
  <1> DEFINE b == block
             c == update_tag_write(block, t, SizeOf[t], offset, junk)
             B == bytes
             C == Put(bytes, t, offset)
             N == DOMAIN block.tags.node
  <1>1. block' = c /\ bytes' = C /\ block.outcome = "run"
    BY DEF Write, Put
  <1>2. /\ history' = IF history = "ascending" /\ IsAscending(t, offset) THEN "ascending"
                      ELSE IF history # "any" /\ IsTidy(t, offset) THEN "tidy"
                      ELSE "any"
    BY DEF Write
  <1>3. offset \in Nat /\ BlockSize \in Nat
    BY TagAssumption
  <1>4. TagInv'
    BY WriteKeeps DEF OrderInv
  <1>5. Ok(b) /\ Ok(c) /\ DOMAIN B = 0 .. (BlockSize - 1)
    BY <1>1, <1>4 DEF OrderInv, TagInv
  <1>6. history # "any" => Neat(b, B)
    BY <1>1 DEF OrderInv
  <1>7. Orderly => Chained(b) /\ Complete(b, B)
    BY <1>1 DEF OrderInv
  <1>8. history = "ascending" => Newest(b)
    BY <1>1 DEF OrderInv
  <1>9. IsTidy(t, offset) => Fills(B, t, offset) \/ Replaces(B, t, offset)
    BY DEF IsTidy, Fills, Replaces
  <1>10. CASE history' = "any"
    BY <1>4, <1>10 DEF OrderInv, Orderly
  <1>11. CASE history' # "any"
    <2>1. history # "any" /\ Neat(b, B)
      BY <1>2, <1>6, <1>11
    <2>2. IsAscending(t, offset) => Fills(B, t, offset) /\ \A n \in N : Tag(b, n).offset < offset
      BY <1>3, <2>1, AscendingFills DEF OrderInv
    <2>3. Fills(B, t, offset) \/ Replaces(B, t, offset)
      BY <1>2, <1>9, <1>11, <2>2
    <2>4. N \subseteq DOMAIN c.tags.node /\ (c.outcome = "run" => Neat(c, C))
      BY <1>3, <1>5, <2>1, <2>3, TidyStep
    <2>5. Len(c.tags.node) <= 4 => Len(b.tags.node) <= 4
      <3>1. b.tags.node \in Seq(NodeRec) /\ c.tags.node \in Seq(NodeRec)
        <4> HIDE DEF c
        <4>1. b.tags \in TreeRec /\ c.tags \in TreeRec
          BY <1>5, BlockTyped DEF Ok
        <4>2. \A u \in TreeRec : u.node \in Seq(NodeRec)
          BY DEF TreeRec
        <4> QED
          BY <4>1, <4>2
      <3> DEFINE p == b.tags.node
                 q == c.tags.node
      <3>2. p \in Seq(NodeRec) /\ q \in Seq(NodeRec) /\ DOMAIN p \subseteq DOMAIN q
        BY <2>4, <3>1
      <3> HIDE DEF p, q
      <3>3. DOMAIN p = 1 .. Len(p) /\ DOMAIN q = 1 .. Len(q) /\ Len(p) \in Nat /\ Len(q) \in Nat
        BY <3>2
      <3>4. Len(p) <= Len(q)
        BY <3>2, <3>3
      <3>5. Len(q) <= 4 => Len(p) <= 4
        BY <3>3, <3>4
      <3> QED
        BY <3>5 DEF p, q
    <2>6. Orderly' => Orderly
      <3>1. history \in {"ascending", "tidy", "any"}
        BY DEF OrderInv
      <3>2. history' = "ascending" => history = "ascending"
        BY <1>2
      <3>3. Orderly' => history' = "ascending" \/ Len(c.tags.node) <= 4
        BY <1>1 DEF Orderly
      <3> HIDE DEF c
      <3> QED
        BY <2>1, <2>5, <3>1, <3>2, <3>3 DEF Orderly
    <2>7. history' = "ascending" => history = "ascending" /\ IsAscending(t, offset)
      BY <1>2
    <2>8. ASSUME Orderly'
          PROVE  /\ c.outcome = "run" /\ Chained(c) /\ Complete(c, C)
                 /\ history' = "ascending" => Newest(c)
      <3>1. Chained(b) /\ Complete(b, B)
        BY <1>7, <2>6, <2>8
      <3>2. Nearest(b, N, offset, findBelow(b.tags, offset))
        <4>1. CASE history' = "ascending"
          BY <1>3, <1>5, <1>8, <2>1, <2>2, <2>7, <4>1, NewestNearest DEF Neat
        <4>2. CASE Len(c.tags.node) <= 4
          BY <1>3, <1>5, <2>1, <2>5, <4>2, SmallNearest DEF Neat
        <4> QED
          BY <1>1, <2>8, <4>1, <4>2 DEF Orderly
      <3>3. CASE Fills(B, t, offset)
        <4>1. Filled(b, c, t, offset) /\ Complete(c, C)
          BY <1>3, <1>5, <2>1, <3>1, <3>2, <3>3, FillStep
        <4>2. Chained(c) /\ c.outcome = "run"
          BY <1>1, <4>1 DEF Filled
        <4>3. ASSUME history' = "ascending"
              PROVE  Newest(c)
          <5> HIDE DEF c
          <5> QED
            BY <1>3, <1>5, <1>8, <2>2, <2>7, <4>1, <4>3, NewestFilled
        <4> QED
          BY <4>1, <4>2, <4>3
      <3>4. CASE ~Fills(B, t, offset)
        <4>1. Replaces(B, t, offset) /\ history' # "ascending"
          BY <2>2, <2>3, <2>7, <3>4
        <4>2. c = b /\ Complete(b, C)
          BY <1>3, <1>5, <2>1, <3>1, <3>2, <4>1, ReplaceStep
        <4> QED
          BY <1>1, <3>1, <4>1, <4>2
      <3> QED
        BY <3>3, <3>4
    <2>9. history' = "ascending" => Orderly'
      BY DEF Orderly
    <2>10. history' \in {"ascending", "tidy", "any"}
      BY <1>2
    <2> HIDE DEF c, C
    <2> QED
      BY <1>1, <1>4, <2>4, <2>8, <2>9, <2>10 DEF OrderInv
  <1> QED
    BY <1>10, <1>11

LEMMA OrderInvHolds == Spec => []OrderInv
  <1>1. Init => OrderInv
    <2> SUFFICES ASSUME Init
                 PROVE  OrderInv
      OBVIOUS
    <2>1. block = NoTags /\ block.outcome = "run"
      BY DEF Init, NoTags
    <2>2. DOMAIN bytes = 0 .. (BlockSize - 1) /\ \A i \in DOMAIN bytes : bytes[i] = Unwritten
      BY DEF Init
    <2>3. TagInv /\ history = "ascending"
      BY <2>1, <2>2, NoTagsOk DEF TagInv, Init
    <2> QED
      BY <2>1, <2>2, <2>3, NoTagsOrdered DEF OrderInv
  <1>2. OrderInv /\ [Next]_vars => OrderInv'
    <2> SUFFICES ASSUME OrderInv, [Next]_vars
                 PROVE  OrderInv'
      OBVIOUS
    <2>1. ASSUME NEW t \in Types, NEW offset \in 0 .. (BlockSize + 1), NEW junk \in Junk, Write(t, offset, junk)
          PROVE  OrderInv'
      <3>1. CASE InBounds(t, offset)
        BY <2>1, <3>1, WriteOrders
      <3>2. CASE ~InBounds(t, offset)
        <4>1. block' = End(block, "exit")
          BY <2>1, <3>2 DEF Write
        <4>2. TagInv'
          BY <2>1, WriteKeeps DEF OrderInv
        <4>3. block'.outcome = "exit"
          BY <4>1 DEF End, OrderInv, TagInv, Ok, BlockRec
        <4>4. history' = history
          BY <2>1, <3>2 DEF Write
        <4> QED
          BY <4>2, <4>3, <4>4 DEF OrderInv
      <3> QED
        BY <3>1, <3>2
    <2>2. CASE Next
      BY <2>1, <2>2 DEF Next
    <2>3. CASE UNCHANGED vars
      <3>1. block' = block /\ bytes' = bytes /\ history' = history
        BY <2>3 DEF vars
      <3>2. Orderly' = Orderly
        BY <3>1 DEF Orderly
      <3> QED
        BY <3>1, <3>2 DEF OrderInv, TagInv
    <2> QED
      BY <2>2, <2>3
  <1> QED
    BY <1>1, <1>2, PTL DEF Spec

(* A block written in ascending order, or tidily with few tags, never      *)
(* makes the interpreter follow a link that was never set, a null link or  *)
(* the link of a deleted tag: writes return, or report a bad write.        *)
THEOREM OrderlyWritesSurvive == Spec => []OrderlySurvives
  <1>1. OrderInv => OrderlySurvives
    BY DEF OrderInv, OrderlySurvives
  <1> QED
    BY <1>1, OrderInvHolds, PTL


(* However many tags a block needs that is written tidily, and whatever    *)
(* nodes the rotations drop, a lookup returns the nearest of the tags that *)
(* the tree holds.                                                         *)
THEOREM TidyLookupsNearest == Spec => [](history # "any" => LookupIsNearest)
  <1>1. ASSUME OrderInv, history # "any"
        PROVE  LookupIsNearest
    <2> DEFINE t == block.tags
               held == InTree(t)
    <2> SUFFICES ASSUME block.outcome = "run", NEW key \in 0 .. BlockSize
                 PROVE  LET lower == {n \in held : Key(t, n) <= key}
                            upper == {n \in held : Key(t, n) >= key}
                            below == findBelow(t, key)
                            above == findAbove(t, key)
                        IN /\ IF lower = {} THEN below = Null
                              ELSE below \in lower /\ \A n \in lower : Key(t, n) <= Key(t, below)
                           /\ IF upper = {} THEN above = Null
                              ELSE above \in upper /\ \A n \in upper : Key(t, n) >= Key(t, above)
      BY DEF LookupIsNearest
    <2>1. block \in BlockRec /\ Ordered(block) /\ key \in Nat
      BY <1>1, TagAssumption DEF OrderInv, TagInv, Ok, Neat
    <2>2. t \in TreeRec /\ \E D : GoodTree(t, D) /\ Sorted(t, D)
      BY <2>1, BlockTyped DEF Ordered
    <2> HIDE DEF t
    <2>3. PICK D : Shape(t, D) /\ Sorted(t, D)
      BY <2>2 DEF GoodTree
    <2>4. held = D[t.head]
      BY <2>2, <2>3, InTreeIs
    <2>5. LET r == findBelow(t, key)
          IN /\ r # Null => r \in held /\ Key(t, r) <= key
             /\ \A x \in held : Key(t, x) <= key => r # Null /\ Key(t, x) <= Key(t, r)
      BY <2>1, <2>2, <2>3, <2>4, FindBelowIs
    <2>6. LET r == findAbove(t, key)
          IN /\ r # Null => r \in held /\ Key(t, r) >= key
             /\ \A x \in held : Key(t, x) >= key => r # Null /\ Key(t, x) >= Key(t, r)
      BY <2>1, <2>2, <2>3, <2>4, FindAboveIs
    <2> HIDE DEF held
    <2>7. LET lower == {n \in held : Key(t, n) <= key}
              below == findBelow(t, key)
          IN IF lower = {} THEN below = Null
             ELSE below \in lower /\ \A n \in lower : Key(t, n) <= Key(t, below)
      BY <2>5, Zenon
    <2>8. LET upper == {n \in held : Key(t, n) >= key}
              above == findAbove(t, key)
          IN IF upper = {} THEN above = Null
             ELSE above \in upper /\ \A n \in upper : Key(t, n) >= Key(t, above)
      BY <2>6, Zenon
    <2> QED
      BY <2>7, <2>8
  <1>2. OrderInv => (history # "any" => LookupIsNearest)
    BY <1>1
  <1> QED
    BY <1>2, OrderInvHolds, PTL

(* The tags from that of n on, by their offsets.                           *)
From(b, n) == {m \in DOMAIN b.tags.node : Tag(b, m).offset >= Tag(b, n).offset}

LEMMA FromNext ==
  ASSUME NEW b, Ok(b), NEW B, Neat(b, B), Chained(b), NEW n \in DOMAIN b.tags.node
  PROVE  /\ Tag(b, n).next = Null => From(b, n) = {n}
         /\ Tag(b, n).next # Null => /\ Tag(b, n).next \in DOMAIN b.tags.node
                                     /\ Tag(b, n).offset < Tag(b, Tag(b, n).next).offset
                                     /\ From(b, n) = {n} \cup From(b, Tag(b, n).next)
  <1> DEFINE N == DOMAIN b.tags.node
             next == Tag(b, n).next
             off(m) == Tag(b, m).offset
  <1>1. \A m \in N : off(m) \in Nat /\ TagEnd(b, m) \in Nat /\ off(m) < TagEnd(b, m)
    BY TagSizes DEF Neat
  <1>2. \A m \in N : m # n => TagEnd(b, m) <= off(n) \/ TagEnd(b, n) <= off(m)
    BY DEF Chained, Apart
  <1>3. \A m \in N : m # n => off(m) # off(n)
    BY <1>1, <1>2
  <1>4. \/ next = Null /\ \A k \in N : off(k) <= off(n)
        \/ /\ next \in N /\ off(n) < off(next)
           /\ \A k \in N : off(k) <= off(n) \/ off(next) <= off(k)
    BY DEF Chained, Follows
  <1>5. Null \notin N /\ n \in N
    BY BlockTyped DEF Ok, Null
  <1>6. From(b, n) = {m \in N : off(m) >= off(n)}
    BY DEF From
  <1>7. From(b, next) = {m \in N : off(m) >= off(next)}
    BY DEF From
  <1> HIDE DEF N, next, off
  <1>8. CASE next = Null
    <2>1. \A m \in N : off(m) >= off(n) <=> m = n
      BY <1>1, <1>3, <1>4, <1>5, <1>8
    <2>2. From(b, n) = {n}
      BY <1>5, <1>6, <2>1
    <2> QED
      BY <1>8, <2>2 DEF next
  <1>9. CASE next # Null
    <2>1. next \in N /\ off(n) < off(next) /\ n \in N
      BY <1>4, <1>9 DEF N
    <2>2. \A m \in N : off(m) >= off(n) <=> (m = n \/ off(m) >= off(next))
      BY <1>1, <1>3, <1>4, <1>9, <2>1
    <2>3. From(b, n) = {n} \cup From(b, next)
      BY <1>6, <1>7, <2>1, <2>2
    <2> QED
      BY <1>9, <2>1, <2>3 DEF next, N, off
  <1> QED
    BY <1>8, <1>9

(* The list runs through all tags.                                         *)
LEMMA ListedIs ==
  ASSUME TagInv, Neat(block, bytes), Chained(block)
  PROVE  Listed(block) = DOMAIN block.tags.node
  <1> DEFINE N == DOMAIN block.tags.node
             off(m) == Tag(block, m).offset
             R == [n \in Links |-> IF n \in {Null, Wild} THEN {} ELSE From(block, n)]
             reach == CHOOSE reach : reach = [n \in Links |->
                        IF n \in {Null, Wild} THEN {} ELSE {n} \cup reach[Tag(block, n).next]]
             rk == [n \in Links |-> IF n \in {Null, Wild} THEN 0 ELSE BlockSize - off(n)]
  <1>1. Ok(block) /\ DOMAIN bytes = 0 .. (BlockSize - 1) /\ BlockSize \in Nat
    BY TagAssumption DEF TagInv
  <1>2. Links = {Null, Wild} \cup N /\ Null \notin N /\ Wild \notin N
    BY <1>1, BlockTyped DEF Links, Ok, Null, Wild
  <1>3. \A n \in N : off(n) \in Nat /\ off(n) < BlockSize
    <2> SUFFICES ASSUME NEW n \in N
                 PROVE  off(n) \in Nat /\ off(n) < BlockSize
      OBVIOUS
    <2>1. off(n) \in Nat /\ off(n) < TagEnd(block, n)
      BY <1>1, TagSizes DEF Neat
    <2>2. off(n) \in DOMAIN bytes
      BY <2>1, CoveredWritten
    <2> QED
      BY <1>1, <2>1, <2>2
  <1>4. ASSUME NEW n \in N
        PROVE  /\ Tag(block, n).next \in Links
               /\ R[n] = {n} \cup R[Tag(block, n).next]
               /\ rk[Tag(block, n).next] < rk[n]
    <2> DEFINE next == Tag(block, n).next
    <2>1. /\ next = Null => From(block, n) = {n}
          /\ next # Null => next \in N /\ off(n) < off(next) /\ From(block, n) = {n} \cup From(block, next)
      BY <1>1, FromNext
    <2>2. n \in Links /\ n \notin {Null, Wild} /\ R[n] = From(block, n)
      BY <1>2
    <2>3. rk[n] = BlockSize - off(n)
      BY <2>2
    <2> HIDE DEF next
    <2>4. CASE next = Null
      <3>1. next \in Links /\ R[next] = {} /\ rk[next] = 0
        BY <1>2, <2>4
      <3> HIDE DEF R, rk, off
      <3> QED
        BY <1>1, <1>3, <2>1, <2>2, <2>3, <2>4, <3>1 DEF next
    <2>5. CASE next # Null
      <3>1. next \in Links /\ R[next] = From(block, next) /\ rk[next] = BlockSize - off(next)
        BY <1>2, <2>1, <2>5
      <3>2. off(n) \in Nat /\ off(next) \in Nat /\ off(n) < off(next)
        BY <1>3, <2>1, <2>5
      <3> HIDE DEF R, rk, off
      <3>3. rk[next] < rk[n]
        BY <1>1, <2>3, <3>1, <3>2
      <3> QED
        BY <2>1, <2>2, <2>5, <3>1, <3>3 DEF next
    <2> QED
      BY <2>4, <2>5
  <1>5. R = [n \in Links |-> IF n \in {Null, Wild} THEN {} ELSE {n} \cup R[Tag(block, n).next]]
    <2>1. \A n \in Links : R[n] = IF n \in {Null, Wild} THEN {} ELSE {n} \cup R[Tag(block, n).next]
      BY <1>2, <1>4
    <2>2. R = [n \in Links |-> R[n]]
      OBVIOUS
    <2> HIDE DEF R
    <2> QED
      BY <2>1, <2>2
  <1>6. reach = [n \in Links |-> IF n \in {Null, Wild} THEN {} ELSE {n} \cup reach[Tag(block, n).next]]
    BY <1>5
  <1>7. Listed(block) = reach[block.firsttag]
    BY DEF Listed
  <1> HIDE DEF reach
  <1> DEFINE Q == {n \in Links : reach[n] = R[n]}
  <1>8. rk \in [Links -> Nat]
    BY <1>1, <1>2, <1>3
  <1>9. \A n \in Links : (\A m \in Links : rk[m] < rk[n] => m \in Q) => n \in Q
    <2> SUFFICES ASSUME NEW n \in Links, \A m \in Links : rk[m] < rk[n] => m \in Q
                 PROVE  reach[n] = R[n]
      OBVIOUS
    <2>1. CASE n \in {Null, Wild}
      BY <1>6, <2>1
    <2>2. CASE n \notin {Null, Wild}
      <3>1. n \in N
        BY <1>2, <2>2
      <3>2. reach[Tag(block, n).next] = R[Tag(block, n).next]
        BY <1>4, <3>1
      <3> HIDE DEF R
      <3> QED
        <4>1. reach[n] = {n} \cup reach[Tag(block, n).next]
          BY <1>6, <2>2
        <4> QED
          BY <1>4, <3>1, <3>2, <4>1
    <2> QED
      BY <2>1, <2>2
  <1>10. \A n \in Links : n \in Q
    <2> HIDE DEF Q, rk
    <2> QED
      BY <1>8, <1>9, RankInduct
  <1>11. block.firsttag \in {Null} \cup N
    BY <1>1 DEF Ok
  <1>12. Listed(block) = R[block.firsttag]
    BY <1>2, <1>7, <1>10, <1>11
  <1>13. CASE block.firsttag = Null
    <2>1. N = {}
      BY <1>13 DEF Chained
    <2> QED
      BY <1>2, <1>12, <1>13, <2>1
  <1>14. CASE block.firsttag # Null
    <2>1. block.firsttag \in N /\ \A k \in N : off(block.firsttag) <= off(k)
      BY <1>11, <1>14 DEF Chained
    <2>2. R[block.firsttag] = From(block, block.firsttag)
      BY <1>2, <2>1
    <2>3. From(block, block.firsttag) = N
      BY <1>3, <2>1 DEF From
    <2> QED
      BY <1>12, <2>2, <2>3
  <1> QED
    BY <1>13, <1>14

(* A block written in ascending order, however many tags it needs, and a   *)
(* block of few tags written tidily, is described by its list of tags:     *)
(* each byte written by one tag, which has the type of the object written  *)
(* and begins a whole number of objects before it; no other byte by any.   *)
THEOREM OrderlyBlocksDescribed == Spec => []OrderlyDescribed
  <1>1. ASSUME OrderInv
        PROVE  OrderlyDescribed
    <2> SUFFICES ASSUME block.outcome = "run", Orderly
                 PROVE  Described
      BY DEF OrderlyDescribed
    <2> DEFINE N == DOMAIN block.tags.node
    <2>1. /\ TagInv /\ Neat(block, bytes) /\ Chained(block) /\ Complete(block, bytes)
      BY <1>1 DEF OrderInv, Orderly
    <2>2. Listed(block) = N
      BY <2>1, ListedIs
    <2> SUFFICES ASSUME NEW i \in DOMAIN bytes
                 PROVE  IF bytes[i] = Unwritten THEN Covers(block, i) = {}
                        ELSE /\ Cardinality(Covers(block, i)) = 1
                             /\ \A n \in Covers(block, i) :
                                  /\ Tag(block, n).type = bytes[i].type
                                  /\ (i - Tag(block, n).offset) % Tag(block, n).typesize = i - bytes[i].at
      BY DEF Described
    <2>3. i \in Nat
      BY <2>1, TagAssumption DEF TagInv
    <2>4. Covers(block, i) = {n \in N : Tag(block, n).offset <= i /\ i < TagEnd(block, n)}
      BY <2>2 DEF Covers
    <2>5. \A n \in Covers(block, i) :
            /\ bytes[i] # Unwritten /\ Tag(block, n).type = bytes[i].type
            /\ bytes[i].at = i - ((i - Tag(block, n).offset) % Tag(block, n).typesize)
      BY <2>1, <2>3, <2>4, CoveredWritten
    <2>6. \A n \in Covers(block, i) :
            /\ Tag(block, n).type = bytes[i].type
            /\ (i - Tag(block, n).offset) % Tag(block, n).typesize = i - bytes[i].at
      <3> SUFFICES ASSUME NEW n \in Covers(block, i)
                   PROVE  (i - Tag(block, n).offset) % Tag(block, n).typesize = i - bytes[i].at
        BY <2>5
      <3> DEFINE x == Tag(block, n)
                 d == i - x.offset
                 r == d % x.typesize
      <3>1. x.offset \in Nat /\ x.typesize \in Nat \ {0}
        BY <2>1, <2>4, StartIs DEF TagInv
      <3>2. r \in Int
        <4> HIDE DEF x
        <4>1. d \in Int
          BY <2>3, <3>1
        <4> HIDE DEF d
        <4> QED
          BY <3>1, <4>1
      <3>3. bytes[i].at = i - r
        BY <2>5
      <3> HIDE DEF r
      <3>4. r = i - bytes[i].at
        BY <2>3, <3>2, <3>3
      <3> QED
        BY <3>4 DEF r
    <2>7. CASE bytes[i] = Unwritten
      BY <2>5, <2>7
    <2>8. CASE bytes[i] # Unwritten
      <3>1. PICK n \in N : Tag(block, n).offset <= i /\ i < TagEnd(block, n)
        BY <2>1, <2>8 DEF Complete
      <3>2. \A m \in N : Tag(block, m).offset \in Nat /\ TagEnd(block, m) \in Nat
        BY <2>1, StartIs DEF TagInv
      <3>3. ASSUME NEW m \in N, Tag(block, m).offset <= i, i < TagEnd(block, m)
            PROVE  m = n
        <4>1. m # n => TagEnd(block, m) <= Tag(block, n).offset \/ TagEnd(block, n) <= Tag(block, m).offset
          BY <2>1 DEF Chained, Apart
        <4> QED
          BY <2>3, <3>1, <3>2, <3>3, <4>1
      <3>4. Covers(block, i) = {n}
        BY <2>4, <3>1, <3>3
      <3>5. Cardinality(Covers(block, i)) = 1
        BY <3>4, FS_Singleton
      <3> QED
        BY <2>6, <2>8, <3>5
    <2> QED
      BY <2>7, <2>8
  <1> QED
    BY <1>1, OrderInvHolds, PTL

=============================================================================
