------------------------------- MODULE Layout -------------------------------
(***************************************************************************)
(* How the values of compound types lie in memory: getSizeOf, newarr,      *)
(* zero_init and from_lvalue (cast.cpp), EmuStruct and the sizes and       *)
(* representations of values (types.h, types.cpp), and the declarations,   *)
(* initializer lists, subscripts and copies that use them (eval.cpp).      *)
(*                                                                         *)
(* A program with one global and one local variable of a type ctype runs   *)
(* on a memory m of blocks of bytes; every block has its tags (TagList).   *)
(* A block is known by its place in m.block, and 0 is the null pointer.    *)
(* The four bytes of an emu_type_id_t are all alike, so a tag is one of    *)
(* the numbers below, four times.                                          *)
(*                                                                         *)
(* Besides the outcomes of Memory and TagList there are                    *)
(*   ub_overrun   bytes were written behind the end of a block             *)
(*   ub_overread  bytes were read behind the end of a block                *)
(***************************************************************************)
EXTENDS TagList

CONSTANTS
  CTypes,    (* the types of the variables                                 *)
  Garbage,   (* what a byte of new memory can hold                         *)
  MaxSteps   (* bound on the statements executed                           *)

VARIABLES ctype, m, global, local, steps, stored

vars == <<ctype, m, global, local, steps, stored>>

ZERO_ID == 0
INVALID_ID == 1
STRUCT_ID == 4
CHAR_ID == 65
INT_ID == 67
PTR_ID == 96
UNINIT_MASK == 128

TagSize == 4
EMU_SIZE_PTR == 16
BLOCK_ID_NULL == 1
BLOCK_ID_INVALID == 2
BLOCK_ID_START == 3
SIZE_MAX == 255

-----------------------------------------------------------------------------
(***************************************************************************)
(* Types: numbers of n bytes, pointers, arrays, structs and unions.        *)
(***************************************************************************)
NumType(n) == [kind |-> "num", n |-> n]
PtrType == [kind |-> "ptr"]
ArrayType(n, elem) == [kind |-> "array", n |-> n, elem |-> elem]
StructType(fields) == [kind |-> "struct", fields |-> fields]
UnionType(fields) == [kind |-> "union", fields |-> fields]

id_from_num_type(ty) == IF ty.n = 1 THEN CHAR_ID ELSE INT_ID

RECURSIVE getSizeOf(_), getSizeOfAll(_)

(* Faulty variant: the tag of a struct is not counted.                     *)
getSizeOf_untagged(ty) ==
  CASE ty.kind = "struct" -> getSizeOfAll(ty.fields)
    [] ty.kind = "num" -> TagSize + ty.n
    [] ty.kind = "ptr" -> EMU_SIZE_PTR
    [] ty.kind = "array" -> ty.n * getSizeOf(ty.elem) + TagSize
    [] ty.kind = "union" -> getSizeOf(ty.fields[1])

getSizeOf(ty) ==
  CASE ty.kind = "num" -> TagSize + ty.n
    [] ty.kind = "ptr" -> EMU_SIZE_PTR
    [] ty.kind = "array" -> ty.n * getSizeOf(ty.elem) + TagSize
    [] ty.kind = "struct" -> TagSize + getSizeOfAll(ty.fields)
    [] ty.kind = "union" ->
         CHOOSE k \in {getSizeOf(ty.fields[i]) : i \in DOMAIN ty.fields} :
           \A i \in DOMAIN ty.fields : getSizeOf(ty.fields[i]) <= k

getSizeOfAll(fields) ==
  IF fields = <<>> THEN 0 ELSE getSizeOf(Head(fields)) + getSizeOfAll(Tail(fields))

-----------------------------------------------------------------------------
(***************************************************************************)
(* Values.  The bytes of a number are kept as they are stored (the module  *)
(* EmuNum is about what they mean), and a pointer to offset 0 of a block   *)
(* names the block, or is Wild when it holds something that is no host     *)
(* address.                                                                *)
(***************************************************************************)
Num(ty, status, tag, val) == [type |-> ty, status |-> status, tag |-> tag, val |-> val]
Ptr(ty, status, tag, id, to) == [type |-> ty, status |-> status, tag |-> tag, id |-> id, to |-> to]
Struct(ty, status, tag, members) ==
  [type |-> ty, status |-> status, tag |-> tag, members |-> members]

IsStruct(v) == "members" \in DOMAIN v
IsPtr(v) == "to" \in DOMAIN v

Repeat(k, x) == [i \in 1..k |-> x]

Literal(ty, v) == Num(ty, "DEFINED", id_from_num_type(ty), Append(Repeat(ty.n - 1, 0), v))
PtrTo(ty, b) == Ptr(ty, "DEFINED", PTR_ID, IF b = Null THEN BLOCK_ID_NULL ELSE b + BLOCK_ID_START - 1, b)
NewStruct(ty, status, members) ==
  Struct(ty, status,
         CASE status = "DEFINED" -> STRUCT_ID
           [] status = "UNINITIALIZED" -> STRUCT_ID + UNINIT_MASK
           [] status = "UNDEFINED" -> INVALID_ID,
         members)

RECURSIVE size(_), sizeAll(_)
size(v) ==
  IF IsStruct(v) THEN TagSize + sizeAll(v.members)
  ELSE IF IsPtr(v) THEN EMU_SIZE_PTR ELSE TagSize + Len(v.val)
sizeAll(vs) == IF vs = <<>> THEN 0 ELSE size(Head(vs)) + sizeAll(Tail(vs))

(* An uninitialized number is filled with the low byte of INVALID_ID; the  *)
(* offset of a pointer that is not is 0.                                   *)
RECURSIVE dump_repr(_), dump_all(_)
dump_repr(v) ==
  IF IsStruct(v) THEN Repeat(TagSize, v.tag) \o dump_all(v.members)
  ELSE LET uninit == v.status = "UNINITIALIZED"
       IN IF IsPtr(v)
          THEN IF uninit
               THEN Repeat(4, PTR_ID + UNINIT_MASK) \o <<BLOCK_ID_INVALID, 0, 0, 0>> \o Repeat(8, SIZE_MAX)
               ELSE Repeat(4, v.tag) \o <<v.id, 0, 0, 0>> \o Repeat(8, 0)
          ELSE IF uninit
               THEN Repeat(4, id_from_num_type(v.type) + UNINIT_MASK) \o Repeat(Len(v.val), INVALID_ID)
               ELSE Repeat(4, v.tag) \o v.val
dump_all(vs) == IF vs = <<>> THEN <<>> ELSE dump_repr(Head(vs)) \o dump_all(Tail(vs))

(* To write a pointer means to follow it to the id of its block.           *)
RECURSIVE HasWild(_)
HasWild(v) ==
  IF IsStruct(v) THEN \E i \in DOMAIN v.members : HasWild(v.members[i])
  ELSE IsPtr(v) /\ v.status = "DEFINED" /\ v.to = Wild

(* cast_to the type the value has.  The status of numbers and pointers is  *)
(* not looked at: what is not defined comes out as defined.                *)
RECURSIVE cast_to(_)
cast_to(v) ==
  IF IsStruct(v)
  THEN NewStruct(v.type, v.status, [i \in DOMAIN v.members |-> cast_to(v.members[i])])
  ELSE IF IsPtr(v) THEN Ptr(v.type, "DEFINED", PTR_ID, v.id, v.to)
  ELSE Num(v.type, "DEFINED", id_from_num_type(v.type), v.val)

-----------------------------------------------------------------------------
(***************************************************************************)
(* Blocks.  An operator that can allocate or fail returns [m, v], the      *)
(* memory behind it and a value.                                           *)
(***************************************************************************)
With(mm, v) == [m |-> mm, v |-> v]
NoValue == PtrTo(PtrType, Null)

(* Faulty variant: a byte fewer is allocated.                              *)
mem_block_short(mm, n, byte) ==
  [mm EXCEPT !.block = Append(@, [size |-> n, data |-> Repeat(n - 1, byte), marks |-> NoTags])]

mem_block(mm, n, byte) ==
  [mm EXCEPT !.block = Append(@, [size |-> n, data |-> Repeat(n, byte), marks |-> NoTags])]

Put(data, off, new) ==
  [i \in DOMAIN data |-> IF i > off /\ i <= off + Len(new) THEN new[i - off] ELSE data[i]]

(* mem_block::write: the bytes, then the tags.                             *)
Written(mm, b, v, off, marks) ==
  IF marks.outcome # "run" THEN End(mm, marks.outcome)
  ELSE [mm EXCEPT !.block[b].data = Put(@, off, dump_repr(v)), !.block[b].marks = marks]

write(mm, b, v, off, junk) ==
  LET blk == mm.block[b]
  IN IF mm.outcome # "run" THEN mm
     ELSE IF off > blk.size \/ blk.size - off < size(v) THEN End(mm, "exit")
     ELSE IF HasWild(v) THEN End(mm, "ub_wild")
     ELSE Written(mm, b, v, off, update_tag_write(blk.marks, v.type, size(v), off, junk))

(* new mem_block(type, value)                                              *)
StoreNew(mm, v, junk) ==
  IF mm.outcome # "run" THEN mm
  ELSE write(mem_block(mm, size(v), 0), Len(mm.block) + 1, v, 0, junk)

(* The status of a struct, from its tag and its members.                   *)
Joined(status, s) ==
  IF s = "UNDEFINED" \/ (status # "UNDEFINED" /\ s # "DEFINED") THEN s ELSE status

NumStatus(tag, val) ==
  CASE tag = INT_ID + UNINIT_MASK -> "UNINITIALIZED"
    [] tag = INT_ID \/ (tag = ZERO_ID /\ \A i \in DOMAIN val : val[i] = 0) -> "DEFINED"
    [] OTHER -> "UNDEFINED"

PtrStatus(mm, tag, id) ==
  CASE tag = PTR_ID + UNINIT_MASK -> "UNINITIALIZED"
    [] tag = PTR_ID /\ id - BLOCK_ID_START + 1 \in DOMAIN mm.block -> "DEFINED"
    [] OTHER -> "UNDEFINED"

StructStatus(tag) ==
  CASE tag = STRUCT_ID + UNINIT_MASK -> "UNINITIALIZED"
    [] tag = STRUCT_ID -> "DEFINED"
    [] OTHER -> "UNDEFINED"

(* The tag at an offset, INVALID_ID for every tag not in use; and the id   *)
(* behind it, 0 for those never given to a block.                          *)
TagAt(data, off) ==
  IF \A i \in 1..TagSize : data[off + i] = data[off + 1] THEN data[off + 1] ELSE INVALID_ID
IdAt(data, off) ==
  IF \A i \in 2..4 : data[off + TagSize + i] = 0 THEN data[off + TagSize + 1] ELSE 0

(* Numbers, and the pointers that pointers and arrays load as.  The check  *)
(* of a number's space leaves out its tag.                                 *)
LoadNum(mm, b, ty, off) ==
  LET blk == mm.block[b]
      val == SubSeq(blk.data, off + TagSize + 1, off + TagSize + ty.n)
      tag == TagAt(blk.data, off)
  IN IF blk.size - off < ty.n THEN With(End(mm, "exit"), NoValue)
     ELSE IF blk.size - off < ty.n + TagSize THEN With(End(mm, "ub_overread"), NoValue)
     ELSE With(mm, Num(ty, NumStatus(tag, val), tag, val))

LoadPtr(mm, b, ty, off) ==
  LET blk == mm.block[b]
      tag == TagAt(blk.data, off)
      id == IdAt(blk.data, off)
      status == PtrStatus(mm, tag, id)
  IN IF blk.size - off < EMU_SIZE_PTR THEN With(End(mm, "exit"), NoValue)
     ELSE With(mm, Ptr(ty, status, tag, id, IF status = "DEFINED" THEN id - BLOCK_ID_START + 1 ELSE Wild))

RECURSIVE WriteAll(_, _, _, _, _, _)
(* The loop of newarr.                                                     *)
WriteAll(mm, b, v, off, end, junk) ==
  IF off >= end THEN mm ELSE WriteAll(write(mm, b, v, off, junk), b, v, off + size(v), end, junk)

RECURSIVE from_lvalue(_, _, _, _, _), Members(_, _, _, _, _, _)

(* An array without a place is a new block full of values made up for its  *)
(* elements, and a pointer to it.                                          *)
newarr(mm, ty, junk) ==
  LET sub == from_lvalue(mm, Null, ty.elem, 0, junk)
      bytes == size(sub.v) * ty.n
      b == Len(sub.m.block) + 1
  IN IF sub.m.outcome # "run" THEN sub
     ELSE With(WriteAll(mem_block(sub.m, bytes, 0), b, sub.v, 0, bytes, junk), PtrTo(ty, b))

(* Faulty variant: the members are read from where the tag is.             *)
LoadStruct_early(mm, b, ty, off, junk) ==
  LET all == Members(mm, b, ty.fields[1], off, Len(ty.fields), junk)
  IN IF all.m.outcome # "run" THEN With(all.m, NoValue)
     ELSE With(all.m, NewStruct(ty, "DEFINED", all.v))

(* EmuStruct::EmuStruct.  The tag is read where the block begins; and the  *)
(* iterator and the offset stay at the first field, which every member is  *)
(* then read as.                                                           *)
LoadStruct(mm, b, ty, off, junk) ==
  LET all == Members(mm, b, ty.fields[1], off + TagSize, Len(ty.fields), junk)
      tag == IF b = Null THEN STRUCT_ID + UNINIT_MASK ELSE TagAt(mm.block[b].data, 0)
  IN IF b # Null /\ mm.block[b].size - off < TagSize THEN With(End(mm, "exit"), NoValue)
     ELSE IF all.m.outcome # "run" THEN With(all.m, NoValue)
     ELSE With(all.m, Struct(ty, Joined(StructStatus(tag), all.v[1].status), tag, all.v))

Members(mm, b, field, off, k, junk) ==
  IF k = 0 THEN With(mm, <<>>)
  ELSE LET first == from_lvalue(mm, b, field, off, junk)
           others == Members(first.m, b, field, off, k - 1, junk)
       IN IF first.m.outcome # "run" THEN first
          ELSE IF others.m.outcome # "run" THEN others
          ELSE With(others.m, <<first.v>> \o others.v)

(* The value of type ty at an offset of a block; made up if b is null.     *)
from_lvalue(mm, b, ty, off, junk) ==
  IF mm.outcome # "run" THEN With(mm, NoValue)
  ELSE IF b # Null /\ off > mm.block[b].size THEN With(End(mm, "exit"), NoValue)
  ELSE CASE ty.kind \in {"struct", "union"} -> LoadStruct(mm, b, ty, off, junk)
         [] ty.kind = "array" -> IF b = Null THEN newarr(mm, ty, junk) ELSE LoadPtr(mm, b, ty, off)
         [] ty.kind = "ptr" ->
              IF b = Null THEN With(mm, Ptr(ty, "UNINITIALIZED", PTR_ID, BLOCK_ID_INVALID, Wild))
              ELSE LoadPtr(mm, b, ty, off)
         [] ty.kind = "num" ->
              IF b = Null THEN With(mm, Num(ty, "UNINITIALIZED", id_from_num_type(ty), Repeat(ty.n, 0)))
              ELSE LoadNum(mm, b, ty, off)

-----------------------------------------------------------------------------
(***************************************************************************)
(* Initializers.                                                           *)
(***************************************************************************)
RECURSIVE zero_init(_)
zero_init(ty) ==
  CASE ty.kind = "num" -> Literal(ty, 0)
    [] ty.kind = "ptr" -> PtrTo(ty, Null)
    [] ty.kind = "array" -> Struct(ty, "DEFINED", ZERO_ID, Repeat(ty.n, zero_init(ty.elem)))
    [] ty.kind = "struct" ->
         Struct(ty, "DEFINED", ZERO_ID, [i \in DOMAIN ty.fields |-> zero_init(ty.fields[i])])
    [] ty.kind = "union" -> zero_init(ty.fields[1])

RECURSIVE InitValue(_, _, _, _), InitElems(_, _, _, _, _, _, _), InitFields(_, _, _, _, _)

(* An initializer: a literal for a number, a null pointer, and for the     *)
(* rest an InitListExpr.  An array's list writes into a new array; if full *)
(* is false the lists name only their first element, and the other members *)
(* of a struct are initialized with zero.                                  *)
InitValue(mm, ty, full, junk) ==
  LET array == from_lvalue(mm, Null, ty, 0, junk)
      elems == InitElems(array.m, array.v.to, ty.elem, 0, IF full THEN ty.n ELSE 1, full, junk)
  IN IF mm.outcome # "run" THEN With(mm, NoValue)
     ELSE CASE ty.kind = "num" -> With(mm, Literal(ty, 1))
            [] ty.kind = "ptr" -> With(mm, PtrTo(ty, Null))
            [] ty.kind = "union" -> With(End(mm, "exit"), NoValue)
            [] ty.kind = "array" ->
                 IF array.m.outcome # "run" THEN array ELSE With(elems, array.v)
            [] ty.kind = "struct" ->
                 LET all == InitFields(mm, ty.fields, TRUE, full, junk)
                 IN IF all.m.outcome # "run" THEN With(all.m, NoValue)
                    ELSE With(all.m, NewStruct(ty, "DEFINED", all.v))

InitElems(mm, b, elem, loc, k, full, junk) ==
  LET curr == InitValue(mm, elem, full, junk)
  IN IF k = 0 \/ mm.outcome # "run" THEN mm
     ELSE InitElems(write(curr.m, b, curr.v, loc, junk), b, elem, loc + size(curr.v), k - 1, full, junk)

InitFields(mm, fields, named, full, junk) ==
  IF fields = <<>> THEN With(mm, <<>>)
  ELSE LET first == IF named THEN InitValue(mm, Head(fields), full, junk)
                    ELSE With(mm, zero_init(Head(fields)))
           others == InitFields(first.m, Tail(fields), named /\ full, full, junk)
       IN IF first.m.outcome # "run" THEN first
          ELSE IF others.m.outcome # "run" THEN others
          ELSE With(others.m, <<first.v>> \o others.v)

-----------------------------------------------------------------------------
(***************************************************************************)
(* The program.  block 1 is the global's.                                  *)
(***************************************************************************)
BlockOf(x) == IF x = "global" THEN global ELSE local

(* SetupVar; the block of a global is not cleared.                         *)
Init ==
  /\ ctype \in CTypes
  /\ \E byte \in Garbage : m = mem_block([block |-> <<>>, outcome |-> "run"], getSizeOf(ctype), byte)
  /\ global = 1
  /\ local = Null
  /\ steps = 0
  /\ stored = <<>>

Step ==
  /\ m.outcome = "run"
  /\ steps < MaxSteps
  /\ steps' = steps + 1

Cast(r) == With(r.m, cast_to(r.v))

(* The value is written without a look at the size of the block, and       *)
(* leaves no tags.                                                         *)
DumpGlobal(r) ==
  IF r.m.outcome # "run" THEN r.m
  ELSE IF size(r.v) > r.m.block[global].size THEN End(r.m, "ub_overrun")
  ELSE [r.m EXCEPT !.block[global].data = Put(@, 0, dump_repr(r.v))]

(* InitializeVar: ctype global = {...};                                    *)
InitializeVar(full, junk) ==
  /\ Step
  /\ steps = 0
  /\ m' = DumpGlobal(Cast(InitValue(m, ctype, full, junk)))
  /\ UNCHANGED <<ctype, global, local, stored>>

(* exec_decl, with the value an initializer or none gives.                 *)
Declares(r, junk) ==
  /\ Step
  /\ local = Null
  /\ m' = StoreNew(r.m, r.v, junk)
  /\ local' = IF m'.outcome = "run" THEN Len(m'.block) ELSE Null
  /\ UNCHANGED <<ctype, global, stored>>

DeclUninit(junk) == Declares(from_lvalue(m, Null, ctype, 0, junk), junk)

(* The initializer is evaluated twice.                                     *)
DeclList(full, junk) ==
  Declares(Cast(InitValue(InitValue(m, ctype, full, junk).m, ctype, full, junk)), junk)

(* ctype local = global;  Loading it twice changes nothing.                *)
DeclCopy(junk) ==
  /\ ctype.kind # "array"
  /\ Declares(Cast(from_lvalue(m, global, ctype, 0, junk)), junk)

(* x = y;                                                                  *)
Assign(x, y, junk) ==
  /\ Step
  /\ ctype.kind # "array"
  /\ x # y /\ local # Null
  /\ m' = LET r == Cast(from_lvalue(m, BlockOf(y), ctype, 0, junk))
           IN write(r.m, BlockOf(x), r.v, 0, junk)
  /\ UNCHANGED <<ctype, global, local, stored>>

(* Offsets are unsigned, of SizeBits bits: a pointer in front of a block   *)
(* has a large one.  A subscript takes them for signed.                    *)
SizeBits == 16

Signed(off) == IF off < 2^(SizeBits - 1) THEN off ELSE off - 2^SizeBits

(* Faulty variant: elements as far apart as their values are long.         *)
PtrAdd_dense(off, k, ty) == (off + k * ty.n) % 2^SizeBits

(* Pointer plus integer.                                                   *)
PtrAdd(off, k, ty) == (off + k * getSizeOf(ty)) % 2^SizeBits

ElemOffset(off, i, ty) == Signed((getSizeOf(ty) * i + off) % 2^SizeBits)

(* (x + k)[i] = v;  An array decays to a pointer to the block of the       *)
(* variable, and not to the block the pointer in that block leads to.      *)
StoreElem(x, k, i, v, junk) ==
  /\ Step
  /\ ctype.kind = "array" /\ ctype.elem.kind = "num"
  /\ BlockOf(x) # Null
  /\ LET off == ElemOffset(PtrAdd(0, k, ctype.elem), i, ctype.elem)
     IN m' = IF off < 0 THEN End(m, "exit") ELSE write(m, BlockOf(x), Literal(ctype.elem, v), off, junk)
  /\ stored' = [e \in DOMAIN stored \cup {<<x, k + i>>} |-> IF e = <<x, k + i>> THEN v ELSE stored[e]]
  /\ UNCHANGED <<ctype, global, local>>

(* sizeof(ctype), whose value is made up and dropped.                      *)
SizeOfExpr(junk) ==
  /\ Step
  /\ m' = from_lvalue(m, Null, ctype, 0, junk).m
  /\ UNCHANGED <<ctype, global, local, stored>>

Next ==
  \E junk \in Junk :
    \/ \E full \in BOOLEAN : InitializeVar(full, junk) \/ DeclList(full, junk)
    \/ DeclUninit(junk)
    \/ DeclCopy(junk)
    \/ SizeOfExpr(junk)
    \/ \E x, y \in {"global", "local"} : Assign(x, y, junk)
    \/ \E x \in {"global", "local"}, k \in -2..2, i \in 0..1, v \in {0, 1} : StoreElem(x, k, i, v, junk)

Spec == Init /\ [][Next]_vars

-----------------------------------------------------------------------------
(***************************************************************************)
(* Properties.                                                             *)
(***************************************************************************)

RECURSIVE Parts(_)
(* The types ty is made of.                                                *)
Parts(ty) ==
  {ty} \cup
    CASE ty.kind = "array" -> Parts(ty.elem)
      [] ty.kind \in {"struct", "union"} -> UNION {Parts(ty.fields[i]) : i \in DOMAIN ty.fields}
      [] OTHER -> {}

HasUnion(ty) == \E p \in Parts(ty) : p.kind = "union"

(* Type invariant: every block holds as many bytes as it is large.         *)
LayoutTypeOK ==
  /\ ctype \in CTypes
  /\ global \in DOMAIN m.block
  /\ local \in {Null} \cup DOMAIN m.block
  /\ steps \in 0..MaxSteps
  /\ \A b \in DOMAIN m.block :
       /\ m.block[b].data \in Seq(0..255)
       /\ Len(m.block[b].data) = m.block[b].size

(* zero_init and getSizeOf agree about the layout of every type: what an   *)
(* implicit initializer writes fits the space SetupVar allocated, and      *)
(* fills it unless the type holds a union.                                 *)
ZeroInitFits ==
  /\ size(zero_init(ctype)) <= getSizeOf(ctype)
  /\ ~HasUnion(ctype) => size(zero_init(ctype)) = getSizeOf(ctype)

(* InitializeVar writes behind the block of a global only for the type     *)
(* that holds an array smaller than the pointer an array's list becomes.   *)
OverrunOnlyBySmallArrays ==
  m.outcome = "ub_overrun" =>
    \E p \in Parts(ctype) : p.kind = "array" /\ getSizeOf(p) < EMU_SIZE_PTR

(* Loading a variable of any type by its name never reads behind its       *)
(* block, though members are read at wrong places and the check of numbers *)
(* is too weak: only unions, which are stored without a tag and loaded as  *)
(* with one, are an exception.                                             *)
OverreadOnlyByUnions == m.outcome = "ub_overread" => HasUnion(ctype)

RECURSIVE IsChain(_)
(* A struct of one field, of which the same holds.                         *)
IsChain(ty) ==
  /\ ty.kind # "union"
  /\ ty.kind = "struct" => Len(ty.fields) = 1 /\ IsChain(ty.fields[1])

RECURSIVE Contents(_)
(* A value without its tags.                                               *)
Contents(v) ==
  IF IsStruct(v) THEN [i \in DOMAIN v.members |-> Contents(v.members[i])]
  ELSE IF IsPtr(v) THEN v.id ELSE v.val

LoadVar(mm, x) == from_lvalue(mm, BlockOf(x), ctype, 0, [next |-> Null])

(* A copy of a variable loads as what the variable held, if its type has   *)
(* one field at most at every level, although the copy is tagged anew; and *)
(* to copy a defined one is no undefined operation.                        *)
CopiesKeepContents ==
  [][\A x, y \in {"global", "local"}, junk \in {[col |-> TRUE, splitcol |-> TRUE, next |-> Null]} :
       (Assign(x, y, junk) /\ IsChain(ctype)) =>
         /\ (LoadVar(m, y).m.outcome = "run" /\ LoadVar(m, y).v.status = "DEFINED")
              => m'.outcome \in {"run", "exit"}
         /\ m'.outcome = "run" =>
              Contents(LoadVar(m', x).v) = Contents(LoadVar(m, y).v)]_vars

(* The tags make a store in an array undefined only if it is out of order: *)
(* in front of an element of a global stored before, or in a local array,  *)
(* whose block is tagged as a whole, behind its first element.             *)
StoresInOrderSurvive ==
  [][\A x \in {"global", "local"}, i \in -2..3 :
       (m'.outcome \notin {"run", "exit"} /\ <<x, i>> \in DOMAIN stored' \ DOMAIN stored)
       => IF x = "global" THEN <<x, i + 1>> \in DOMAIN stored ELSE i > 0]_vars

(* Elements of an array keep what was stored in them, whatever else is     *)
(* stored and with whatever mix of pointer arithmetic and subscript they   *)
(* were reached, even from in front of the array: elements do not overlap, *)
(* an int loads as defined, and a store outside the array is refused.      *)
ElementsReadBack ==
  m.outcome = "run" =>
    \A e \in DOMAIN stored :
      LET r == from_lvalue(m, BlockOf(e[1]), ctype.elem, ElemOffset(0, e[2], ctype.elem), [next |-> Null])
      IN /\ e[2] >= 0
         /\ r.m.outcome = "run"
         /\ r.v.val = Literal(ctype.elem, stored[e]).val
         /\ ctype.elem.n = 4 => r.v.status = "DEFINED"
=============================================================================
