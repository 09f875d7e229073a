------------------------------- MODULE RbTree -------------------------------
(***************************************************************************)
(* The red-black tree of rbtree.h and rbtree.cpp, in which a memory block  *)
(* looks its tags up by offset.  A tree is a record                        *)
(*   node  the nodes ever allocated; a node is known by its index          *)
(*   head  the root                                                        *)
(*   dead  the nodes deleted                                               *)
(* and every method is an operator on it.  The constructor sets the parent *)
(* link of a node to null and nothing ever assigns it, so the parent of a  *)
(* node, as the methods see it, is null: the loops of insert and           *)
(* balance_blacks that climb the tree end at their first step.             *)
(***************************************************************************)
EXTENDS Integers, Sequences, FiniteSets

Null == 0

sortval(v) == v.offset

(* What a child link and the root can be.                                  *)
ChildLinks(t) == {Null} \cup DOMAIN t.node

Key(t, n) == sortval(t.node[n].value)
IsRed(t, n) == n # Null /\ t.node[n].col

(* child[0] and child[1] of the code.                                      *)
Side(right) == IF right THEN 2 ELSE 1
Child(t, n, right) == t.node[n].child[Side(right)]
SetChild(t, n, right, c) == [t EXCEPT !.node[n].child[Side(right)] = c]
SetCol(t, n, red) == [t EXCEPT !.node[n].col = red]

EmptyTree == [node |-> <<>>, head |-> Null, dead |-> {}]

(* A new node.  Its constructor leaves col as it finds it in memory.       *)
NewNode(t, obj, col) ==
  [t EXCEPT !.node = Append(@, [value |-> obj, col |-> col, child |-> <<Null, Null>>])]

(* Faulty variant: the comparison the wrong way round.                     *)
GoesRight_flipped(t, n, key) == key < Key(t, n)

GoesRight(t, n, key) == Key(t, n) < key

(* The last two nodes on the way down from the root to where key belongs.  *)
Descent(t, key) ==
  LET walk[p \in (DOMAIN t.node) \X ChildLinks(t)] ==
        LET below == Child(t, p[1], GoesRight(t, p[1], key))
        IN IF below = Null THEN [parent |-> p[1], grandparent |-> p[2]] ELSE walk[<<below, p[1]>>]
  IN walk[<<t.head, Null>>]

(* The red child curr of the red node parent lies on the other side of it  *)
(* than parent does of grandparent: curr moves above both.                 *)
RotateTwice(t, curr, parent, grandparent, right) ==
  LET t1 == SetChild(t, parent, right, Child(t, curr, ~right))
      t2 == SetChild(t1, grandparent, ~right, Child(t, curr, right))
      t3 == SetChild(SetChild(t2, curr, ~right, parent), curr, right, grandparent)
  IN [SetCol(SetCol(t3, curr, FALSE), grandparent, TRUE) EXCEPT !.head = curr]

(* Faulty variants: parent keeps its colour; grandparent is not hung below *)
(* parent.                                                                 *)
RotateOnce_uncoloured(t, parent, grandparent, right) ==
  LET t1 == SetChild(t, grandparent, right, Child(t, parent, ~right))
      t2 == SetChild(t1, parent, ~right, grandparent)
  IN [SetCol(t2, grandparent, TRUE) EXCEPT !.head = parent]

RotateOnce_unhung(t, parent, grandparent, right) ==
  LET t1 == SetChild(t, grandparent, right, Child(t, parent, ~right))
  IN [SetCol(SetCol(t1, parent, FALSE), grandparent, TRUE) EXCEPT !.head = parent]

(* It lies on the same side: parent moves above grandparent.  The colour   *)
(* of the new node is never set.                                           *)
RotateOnce(t, parent, grandparent, right) ==
  LET t1 == SetChild(t, grandparent, right, Child(t, parent, ~right))
      t2 == SetChild(t1, parent, ~right, grandparent)
  IN [SetCol(SetCol(t2, parent, FALSE), grandparent, TRUE) EXCEPT !.head = parent]

(* The node new was hung below parent, on this side.  After a rotation the *)
(* top of the rotated nodes becomes the root, whatever was above           *)
(* grandparent.                                                            *)
Rebalance(t, new, parent, grandparent, right) ==
  LET parentright == Child(t, grandparent, TRUE) = parent
      uncle == Child(t, grandparent, ~parentright)
  IN CASE ~IsRed(t, parent) -> SetCol(t, new, TRUE)
       [] IsRed(t, parent) /\ IsRed(t, uncle) ->
            SetCol(SetCol(SetCol(t, new, TRUE), parent, FALSE), uncle, FALSE)
       [] OTHER ->
            IF right # parentright THEN RotateTwice(t, new, parent, grandparent, right)
            ELSE RotateOnce(t, parent, grandparent, right)

InsertBelow(t, new, d, right) ==
  Rebalance(SetChild(t, d.parent, right, new), new, d.parent, d.grandparent, right)

(* The new node is the last of node.                                       *)
insert(t, obj, col) ==
  LET new == Len(t.node) + 1
      d == Descent(t, sortval(obj))
  IN IF t.head = Null THEN [NewNode(t, obj, FALSE) EXCEPT !.head = new]
     ELSE InsertBelow(NewNode(t, obj, col), new, d, GoesRight(t, d.parent, sortval(obj)))

findBelow(t, key) ==
  LET walk[p \in ChildLinks(t) \X ChildLinks(t)] ==
        IF p[1] = Null THEN p[2]
        ELSE IF key = Key(t, p[1]) THEN p[1]
        ELSE IF key > Key(t, p[1]) THEN walk[<<Child(t, p[1], TRUE), p[1]>>]
        ELSE walk[<<Child(t, p[1], FALSE), p[2]>>]
  IN walk[<<t.head, Null>>]

findAbove(t, key) ==
  LET walk[p \in ChildLinks(t) \X ChildLinks(t)] ==
        IF p[1] = Null THEN p[2]
        ELSE IF key = Key(t, p[1]) THEN p[1]
        ELSE IF key < Key(t, p[1]) THEN walk[<<Child(t, p[1], FALSE), p[1]>>]
        ELSE walk[<<Child(t, p[1], TRUE), p[2]>>]
  IN walk[<<t.head, Null>>]

-----------------------------------------------------------------------------
(***************************************************************************)
(* Removal.  What these operators return has the field outcome, "run" or   *)
(* the undefined operation the method has executed.                        *)
(***************************************************************************)

Ran(t, how) == [tree |-> t, outcome |-> how]

(* delete n                                                                *)
Deletes(t, n) ==
  IF n \in t.dead THEN Ran(t, "ub_deleted") ELSE Ran([t EXCEPT !.dead = @ \cup {n}], "run")

(* node has no parent as far as the code can see: nothing below line 174   *)
(* is ever executed.                                                       *)
balance_blacks(t, node, child) ==
  IF IsRed(t, node) THEN Ran(t, "run")
  ELSE IF child = Null THEN Ran(t, "ub_null")
  ELSE Ran(SetCol(t, child, FALSE), "run")

Leftmost(t, n) ==
  LET walk[c \in DOMAIN t.node] ==
        IF Child(t, c, FALSE) = Null THEN c ELSE walk[Child(t, c, FALSE)]
  IN walk[n]

(* The node is deleted but never unlinked; with two children it takes over *)
(* the value of its successor, which is deleted in its place.  With a left *)
(* child only, the pointer that is followed was never set.                 *)
remove(t, n) ==
  IF n \in t.dead THEN Ran(t, "ub_deleted")
  ELSE IF Child(t, n, FALSE) # Null /\ Child(t, n, TRUE) = Null THEN Ran(t, "ub_wild")
  ELSE LET two == Child(t, n, FALSE) # Null
           gone == IF two THEN Leftmost(t, Child(t, n, TRUE)) ELSE n
           moved == IF two THEN [t EXCEPT !.node[n].value = t.node[gone].value] ELSE t
           balanced == balance_blacks(moved, gone, Child(moved, gone, TRUE))
       IN IF balanced.outcome # "run" THEN balanced
          ELSE Deletes(balanced.tree, gone)

-----------------------------------------------------------------------------
(* The nodes below n, n included, and those the tree still holds.          *)
Below(t, n) ==
  LET reach[c \in ChildLinks(t)] ==
        IF c = Null THEN {} ELSE {c} \cup reach[Child(t, c, FALSE)] \cup reach[Child(t, c, TRUE)]
  IN reach[n]

InTree(t) == Below(t, t.head)
=============================================================================
