------------------------------- MODULE TagList -------------------------------
(***************************************************************************)
(* The memory tags of a block (mem.h, mem.cpp).  A tag says that count     *)
(* objects of one type lie in the block from offset on.  The tags form a   *)
(* list, from firsttag along next, and a red-black tree ordered by offset, *)
(* in which mem_block::write looks up the tag it starts from.              *)
(*                                                                         *)
(* A block is here a record with its tree tags, with firsttag, and with    *)
(* outcome, "run" or the undefined operation that was executed, as in      *)
(* Memory.  The links prev are set but never read and are left out.        *)
(***************************************************************************)
EXTENDS RbTree

CONSTANT RawType  (* the type of bytes left over from an object            *)

(* A pointer that was never set and happens not to be null.                *)
Wild == -1

End(b, how) == [b EXCEPT !.outcome = how]

NoTags == [tags |-> EmptyTree, firsttag |-> Null, outcome |-> "run"]

(* What the memory of new nodes can hold: the colour of the tag written,   *)
(* and the colour and the next link of a tag split off another.            *)
Junk == [col : BOOLEAN, splitcol : BOOLEAN, next : {Null, Wild}]

-----------------------------------------------------------------------------
(* The constructor leaves next as it finds it.                             *)
mem_tag(o, size, t, next) ==
  [offset |-> o, type |-> t, next |-> next,
   typesize |-> IF t = RawType THEN 1 ELSE size,
   count |-> IF t = RawType THEN size ELSE 1]

Tag(b, n) == b.tags.node[n].value
TagEnd(b, n) == Tag(b, n).offset + Tag(b, n).typesize * Tag(b, n).count

(* The tag that the next Insert makes.                                     *)
NewTag(b) == Len(b.tags.node) + 1

SetNext(b, n, next) == [b EXCEPT !.tags.node[n].value.next = next]
SetCount(b, n, k) == [b EXCEPT !.tags.node[n].value.count = k]
Retag(b, n, t, size, k) ==
  [b EXCEPT !.tags.node[n].value = [@ EXCEPT !.type = t, !.typesize = size, !.count = k]]

Insert(b, tag, col) == [b EXCEPT !.tags = insert(@, tag, col)]

-----------------------------------------------------------------------------
(***************************************************************************)
(* deal_with_end: the tags behind a tag that was extended up to endpos.    *)
(* junk is what the memory of new nodes holds.                             *)
(***************************************************************************)

(* The tag affected was merged or overwritten: it leaves the tree, which   *)
(* deletes it or another, and is deleted; then the loop reads its next     *)
(* link.  If remove comes to an end, what follows is undefined.            *)
AfterRemove(how) == IF how = "run" THEN "ub_deleted" ELSE how

DropAffected(b, affected) == End(b, AfterRemove(remove(b.tags, affected).outcome))

(* Faulty variant: the objects hit are counted by rounding down.           *)
CutFront_floor(b, affected, endpos, junk) ==
  LET a == Tag(b, affected)
      firstvalid == (endpos - a.offset) \div a.typesize
      behind == a.offset + firstvalid * a.typesize
      moved == [b EXCEPT !.tags.node[affected].value.offset = endpos]
  IN Retag(moved, affected, RawType, 1, behind - endpos)

(* The front of affected, up to endpos, was overwritten.  The objects that *)
(* were not hit stay; the rest of one that was is raw.  The count of raw   *)
(* bytes is zero if no object is left, and otherwise the tag split off for *)
(* the objects left is raw, one byte for each.                             *)
CutFront(b, affected, endpos, junk) ==
  LET a == Tag(b, affected)
      firstvalid == (endpos - a.offset + a.typesize - 1) \div a.typesize
      behind == a.offset + firstvalid * a.typesize
      newcount == a.count - firstvalid
      moved == [b EXCEPT !.tags.node[affected].value.offset = endpos]
      split == Insert(moved, mem_tag(behind, newcount, RawType, junk.next), junk.splitcol)
  IN IF behind = endpos THEN SetCount(moved, affected, newcount)
     ELSE IF newcount = 0 THEN Retag(moved, affected, RawType, 1, 0)
     ELSE SetNext(Retag(split, affected, RawType, 1, behind - endpos), affected, NewTag(b))

(* Faulty variants: the list ends behind the tag extended; a tag that      *)
(* begins at endpos is merged whatever its type.                           *)
deal_with_end_cutting(b, extended, affected, endpos, junk) == SetNext(b, extended, Null)

deal_with_end_merging(b, extended, affected, endpos, junk) ==
  IF affected \in {Null, Wild} THEN SetNext(b, extended, affected)
  ELSE IF Tag(b, affected).offset > endpos THEN SetNext(b, extended, affected)
  ELSE DropAffected(b, affected)

deal_with_end(b, extended, affected, endpos, junk) ==
  IF affected = Null THEN SetNext(b, extended, Null)
  ELSE IF affected = Wild THEN End(b, "ub_wild")
  ELSE LET a == Tag(b, affected)
       IN CASE a.offset = endpos /\ a.type = Tag(b, extended).type ->
                 DropAffected(SetCount(b, extended, Tag(b, extended).count + a.count), affected)
            [] a.offset = endpos /\ a.type # Tag(b, extended).type -> SetNext(b, extended, affected)
            [] a.offset > endpos -> SetNext(b, extended, affected)
            [] a.offset < endpos /\ TagEnd(b, affected) > endpos ->
                 SetNext(CutFront(b, affected, endpos, junk), extended, affected)
            [] OTHER -> DropAffected(b, affected)

-----------------------------------------------------------------------------
(***************************************************************************)
(* update_tag_write: an object of type t and size size was written at      *)
(* offset.  One operator for each place the write can have relative to     *)
(* start, the tag at or below offset.                                      *)
(***************************************************************************)

(* No tag at or below offset.                                              *)
WriteFirst(b, t, size, offset, junk) ==
  [deal_with_end(Insert(b, mem_tag(offset, size, t, junk.next), junk.col),
                 NewTag(b), b.firsttag, offset + size, junk)
     EXCEPT !.firsttag = NewTag(b)]

(* Faulty variants: the count is left alone; the tag extended is taken for *)
(* the one behind it.                                                      *)
WriteExtending_self(b, start, junk) ==
  deal_with_end(SetCount(b, start, Tag(b, start).count + 1), start, start,
                TagEnd(b, start) + Tag(b, start).typesize, junk)

WriteExtending_uncounted(b, start, junk) ==
  deal_with_end(b, start, Tag(b, start).next, TagEnd(b, start) + Tag(b, start).typesize, junk)

(* Right behind start, of start's type.                                    *)
WriteExtending(b, start, junk) ==
  deal_with_end(SetCount(b, start, Tag(b, start).count + 1), start, Tag(b, start).next,
                TagEnd(b, start) + Tag(b, start).typesize, junk)

(* Behind start.                                                           *)
WriteBehind(b, start, t, size, offset, junk) ==
  SetNext(deal_with_end(Insert(b, mem_tag(offset, size, t, junk.next), junk.col),
                        NewTag(b), Tag(b, start).next, offset + size, junk),
          start, NewTag(b))

(* From the first byte of start on.  If some of start is left, a tag for   *)
(* one object of its type is put behind the object written.                *)
WriteOverFront(b, start, t, size, offset, junk) ==
  LET s == Tag(b, start)
      left == Insert(b, mem_tag(offset + size, s.typesize, s.type, s.next), junk.col)
  IN IF TagEnd(b, start) <= offset + size
     THEN deal_with_end(Retag(b, start, t, size, 1), start, s.next, offset + size, junk)
     ELSE SetNext(Retag(left, start, t, size, 1), start, NewTag(b))

(* A tag for the object written, between front and start_next.             *)
WriteBetween(b, front, start_next, t, size, offset, junk) ==
  deal_with_end(SetNext(Insert(b, mem_tag(offset, size, t, start_next), junk.col), front, NewTag(b)),
                NewTag(b), start_next, offset + size, junk)

(* From inside start on: start keeps the objects in front of the write.    *)
(* If the write cuts one in two its first part gets a raw tag, which is    *)
(* linked behind start before start's next link is read.                   *)
WriteInside(b, start, t, size, offset, junk) ==
  LET s == Tag(b, start)
      lastvalid == (offset - s.offset) \div s.typesize
      cut == s.offset + lastvalid * s.typesize
      kept == SetCount(b, start, lastvalid)
      rawtag == mem_tag(cut, offset - cut, RawType, junk.next)
  IN IF cut = offset THEN WriteBetween(kept, start, s.next, t, size, offset, junk)
     ELSE WriteBetween(SetNext(Insert(kept, rawtag, junk.splitcol), start, NewTag(b)),
                       NewTag(b), NewTag(b), t, size, offset, junk)

WriteAt(b, start, t, size, offset, junk) ==
  LET s == Tag(b, start)
  IN IF start = Null THEN WriteFirst(b, t, size, offset, junk)
     ELSE IF offset = TagEnd(b, start) /\ t = s.type THEN WriteExtending(b, start, junk)
     ELSE IF offset >= TagEnd(b, start) THEN WriteBehind(b, start, t, size, offset, junk)
     ELSE IF (offset - s.offset) % s.typesize = 0 /\ t = s.type THEN b
     ELSE IF offset = s.offset THEN WriteOverFront(b, start, t, size, offset, junk)
     ELSE WriteInside(b, start, t, size, offset, junk)

update_tag_write(b, t, size, offset, junk) ==
  WriteAt(b, findBelow(b.tags, offset), t, size, offset, junk)
=============================================================================
