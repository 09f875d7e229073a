------------------------------- MODULE MemTags -------------------------------
(***************************************************************************)
(* One memory block (mem.h, mem.cpp) that is written object by object, and *)
(* its memory tags.  block is the mem_block with the outcome of the        *)
(* interpreter: "run" while it works, "exit" when it has reported a bad    *)
(* write, and "ub_..." when it has executed an operation undefined in C++. *)
(*                                                                         *)
(* bytes and history are no part of the program: they record what was      *)
(* written, for the properties to compare the tags with.                   *)
(***************************************************************************)
EXTENDS TagList

CONSTANTS
  Types,      (* the C types that are written                              *)
  SizeOf,     (* the size of an object of each type                        *)
  BlockSize,  (* the size of the block                                     *)
  MaxTags     (* for each kind of history, a bound on the tags of a block  *)
              (* before a write                                            *)

ASSUME TagAssumption ==
  /\ RawType \notin Types
  /\ SizeOf \in [Types -> Nat \ {0}]
  /\ BlockSize \in Nat
  /\ MaxTags \in [{"ascending", "tidy", "any"} -> Nat]

VARIABLES block, bytes, history

vars == <<block, bytes, history>>

Outcomes == {"run", "exit", "ub_deleted", "ub_wild", "ub_null"}

-----------------------------------------------------------------------------
(* What was written: for a byte, the type and the start of the last object *)
(* written over it.                                                        *)
Unwritten == [type |-> RawType, at |-> Wild]

Span(t, offset) == offset .. (offset + SizeOf[t] - 1)

(* A write is tidy if it fills unwritten bytes, with no object of its type *)
(* right behind them, or if it replaces an object by one of its type; it   *)
(* is ascending if everything written lies below it.                       *)
IsAscending(t, offset) ==
  \A i \in DOMAIN bytes : bytes[i] # Unwritten => i < offset

IsTidy(t, offset) ==
  \/ /\ \A i \in Span(t, offset) : bytes[i] = Unwritten
     /\ offset + SizeOf[t] \in DOMAIN bytes =>
          bytes[offset + SizeOf[t]].type # t
  \/ \A i \in Span(t, offset) : bytes[i] = [type |-> t, at |-> offset]

Init ==
  /\ block = NoTags
  /\ bytes = [i \in 0 .. (BlockSize - 1) |-> Unwritten]
  /\ history = "ascending"

InBounds(t, offset) == offset <= BlockSize /\ BlockSize - offset >= SizeOf[t]

(* mem_block::write                                                        *)
Write(t, offset, junk) ==
  /\ block.outcome = "run"
  /\ Len(block.tags.node) <= MaxTags[history]
  /\ IF InBounds(t, offset)
     THEN /\ block' = update_tag_write(block, t, SizeOf[t], offset, junk)
          /\ bytes' = [i \in DOMAIN bytes |->
               IF i \in Span(t, offset) THEN [type |-> t, at |-> offset] ELSE bytes[i]]
          /\ history' = IF history = "ascending" /\ IsAscending(t, offset) THEN "ascending"
                        ELSE IF history # "any" /\ IsTidy(t, offset) THEN "tidy"
                        ELSE "any"
     ELSE /\ block' = End(block, "exit")
          /\ UNCHANGED <<bytes, history>>

Next == \E t \in Types, offset \in 0 .. (BlockSize + 1), junk \in Junk : Write(t, offset, junk)

Spec == Init /\ [][Next]_vars

-----------------------------------------------------------------------------
(***************************************************************************)
(* Properties.                                                             *)
(***************************************************************************)

Links == {Null, Wild} \cup DOMAIN block.tags.node

TagType ==
  [offset : Nat, type : Types \cup {RawType}, next : Links, typesize : Nat \ {0}, count : Nat]

(* Type invariant: the links of the tree and of the list stay inside the   *)
(* nodes allocated, and sizes and counts never become negative.            *)
TagsTypeOK ==
  /\ block.outcome \in Outcomes
  /\ block.firsttag \in {Null} \cup DOMAIN block.tags.node
  /\ block.tags.head \in {Null} \cup DOMAIN block.tags.node
  /\ \A n \in DOMAIN block.tags.node :
       /\ Tag(block, n) \in TagType
       /\ block.tags.node[n].col \in BOOLEAN
       /\ block.tags.node[n].child \in ({Null} \cup DOMAIN block.tags.node) \X
                                        ({Null} \cup DOMAIN block.tags.node)

InOrder ==
  \/ history # "any"
  \/ Len(block.tags.node) <= 3 /\ \A n \in DOMAIN block.tags.node : Tag(block, n).count > 0

(* In a block that is written tidily, however many tags it needs and       *)
(* whatever the rotations drop, and in any block of up to three tags that  *)
(* all cover something, however they were cut and moved in place, a lookup *)
(* in the tree returns the nearest tag at or below (above) an offset of    *)
(* those in the tree.  In general it does not: a tag that is cut can move  *)
(* behind another that the code left inside it, and the tree is not        *)
(* reordered.                                                              *)
LookupIsNearest ==
  LET t == block.tags
      held == InTree(t)
  IN (block.outcome = "run" /\ InOrder) =>
       \A key \in 0 .. BlockSize :
         LET lower == {n \in held : Key(t, n) <= key}
             upper == {n \in held : Key(t, n) >= key}
             below == findBelow(t, key)
             above == findAbove(t, key)
         IN /\ IF lower = {} THEN below = Null
               ELSE below \in lower /\ \A n \in lower : Key(t, n) <= Key(t, below)
            /\ IF upper = {} THEN above = Null
               ELSE above \in upper /\ \A n \in upper : Key(t, n) >= Key(t, above)

(* The root is black and no red node has a red child, whatever colour a    *)
(* new node had: insert follows the grandparent of a red parent unchecked. *)
RedsSeparated ==
  LET t == block.tags
  IN \A n \in InTree(t) :
       t.node[n].col =>
         /\ n # t.head
         /\ ~IsRed(t, Child(t, n, FALSE))
         /\ ~IsRed(t, Child(t, n, TRUE))

Listed(b) ==
  LET reach[n \in Links] == IF n \in {Null, Wild} THEN {} ELSE {n} \cup reach[Tag(b, n).next]
  IN reach[b.firsttag]

(* The rotations drop what is above the grandparent, but a block of up to  *)
(* four tags never grows a tree that deep: the tree holds all its tags.    *)
SmallBlocksIndexed ==
  (block.outcome = "run" /\ Len(block.tags.node) <= 4) => InTree(block.tags) = DOMAIN block.tags.node

Covers(b, i) == {n \in Listed(b) : Tag(b, n).offset <= i /\ i < TagEnd(b, n)}

(* The list of tags tells of every byte the type of the object last        *)
(* written over it and the byte's place in the object.                     *)
Described ==
  \A i \in DOMAIN bytes :
    IF bytes[i] = Unwritten THEN Covers(block, i) = {}
    ELSE /\ Cardinality(Covers(block, i)) = 1
         /\ \A n \in Covers(block, i) :
              /\ Tag(block, n).type = bytes[i].type
              /\ (i - Tag(block, n).offset) % Tag(block, n).typesize = i - bytes[i].at

Orderly == history = "ascending" \/ (history = "tidy" /\ Len(block.tags.node) <= 4)

(* A block written in ascending order (a struct, an array initialized      *)
(* front to back), however many tags it needs and whatever of the tree is  *)
(* lost, and a block of few tags written tidily in any order, is described *)
(* by its tags.                                                            *)
OrderlyDescribed == (block.outcome = "run" /\ Orderly) => Described

(* Such writes end in no undefined operation: that takes a write that      *)
(* overlaps an object or joins two runs, or a tag lost from the tree.      *)
OrderlySurvives == Orderly => block.outcome \in {"run", "exit"}

(* After a write that returns, a tag describes the object just written     *)
(* where it lies, even if the write cut other objects or overwrote them.   *)
LastWriteTagged ==
  [][\A i \in DOMAIN bytes :
       (block'.outcome = "run" /\ bytes'[i] # bytes[i]) =>
         \E n \in DOMAIN block'.tags.node :
           /\ Tag(block', n).type = bytes'[i].type
           /\ Tag(block', n).offset <= i
           /\ i < TagEnd(block', n)
           /\ (i - Tag(block', n).offset) % Tag(block', n).typesize = i - bytes'[i].at]_vars

=============================================================================
