------------------------------ MODULE Pointers ------------------------------
(***************************************************************************)
(* Emulated pointers: how EmuPtr values (types.cpp) are made from names,   *)
(* stored into blocks, loaded back through active_mem, subscripted, and    *)
(* passed to the external functions malloc and free (external.cpp).        *)
(*                                                                         *)
(* Each action is one statement of an emulated program whose variables all *)
(* have type void*; the program is any sequence of these statements that C *)
(* accepts.  A block holds cells, each as large as a stored pointer        *)
(* (EMU_SIZE_PTR); a variable's block has one, a string literal's block    *)
(* one cell of characters.  Pointers point to the start of a block.        *)
(***************************************************************************)
EXTENDS Memory

CONSTANTS
  GlobalVars,  (* a sequence of the names of the global variables *)
  MaxVars      (* bound on the variables on the stack             *)

ASSUME GlobalVarsAssumption ==
  MaxVars \in Nat /\ Len(GlobalVars) = NumGlobals /\ \A k \in 1..NumGlobals : GlobalVars[k] \in Names

(* The arguments of a call of an external function have no name.           *)
ASSUME NoNameAssumption == "" \in Names

(***************************************************************************)
(* A cell is a stored pointer: its tag and the id after it.  "RAW" stands  *)
(* for any bytes that are no pointer tag.                                  *)
(***************************************************************************)
Tags == {"PTR", "PTR_UNINIT", "RAW"}

Cell == [tag : Tags, id : block_id_t]

RawCell == [tag |-> "RAW", id |-> 0]

(***************************************************************************)
(* An EmuPtr: a status and the union u.  With status DEFINED block is the  *)
(* host address of a mem_block, which is identified with the block's id,   *)
(* or Null, or Wild when the address was never that of a block; with       *)
(* another status tag and id are the representation that was read.         *)
(***************************************************************************)
Null == 0
Wild == -1

Defined(b) == [status |-> "DEFINED", block |-> b, tag |-> "PTR", id |-> 0]
NotDefined(s, c) == [status |-> s, block |-> Wild, tag |-> c.tag, id |-> c.id]

(* Faulty variant: the id is taken for an address without the lookup.      *)
EmuPtr_unchecked(m, c) ==
  CASE c.tag = "PTR_UNINIT" -> NotDefined("UNINITIALIZED", c)
    [] c.tag = "PTR" -> Defined(c.id)
    [] OTHER -> NotDefined("UNDEFINED", c)

(* The constructor EmuPtr(const void*, QualType): the id is looked up.     *)
EmuPtr(m, c) ==
  CASE c.tag = "PTR_UNINIT" -> NotDefined("UNINITIALIZED", c)
    [] c.tag = "PTR" /\ c.id \in DOMAIN m.active_mem -> Defined(c.id)
    [] OTHER -> NotDefined("UNDEFINED", c)

(* EmuPtr::cast_to looks at the block and not at the status: the bytes of  *)
(* an undefined or uninitialized representation become a defined address.  *)
cast_to(v) == IF v.status = "DEFINED" THEN v ELSE Defined(Wild)

(* Faulty variant: the mask of uninitialized data is left out.             *)
dump_repr_unmasked(v) ==
  CASE v.status = "DEFINED" ->
         [tag |-> "PTR", id |-> IF v.block = Null THEN BLOCK_ID_NULL ELSE v.block]
    [] v.status = "UNDEFINED" -> [tag |-> v.tag, id |-> v.id]
    [] v.status = "UNINITIALIZED" -> [tag |-> "PTR", id |-> BLOCK_ID_INVALID]

(* EmuPtr::dump_repr.  Of a defined pointer it reads the block's id.       *)
dump_repr(v) ==
  CASE v.status = "DEFINED" ->
         [tag |-> "PTR", id |-> IF v.block = Null THEN BLOCK_ID_NULL ELSE v.block]
    [] v.status = "UNDEFINED" -> [tag |-> v.tag, id |-> v.id]
    [] v.status = "UNINITIALIZED" -> [tag |-> "PTR_UNINIT", id |-> BLOCK_ID_INVALID]

(* What happens when the interpreter follows the host address b.  It is    *)
(* never Null: a null pointer that was stored loads as undefined.          *)
Follow(m, b) ==
  IF b = Wild THEN "ub_wild" ELSE IF b \in DOMAIN m.active_mem THEN "run" ELSE "ub_deleted"

Dumps(m, v) ==
  IF v.status = "DEFINED" /\ v.block # Null THEN Follow(m, v.block) ELSE "run"

-----------------------------------------------------------------------------
(***************************************************************************)
(* Names, loads and stores.                                                *)
(***************************************************************************)

(* eval_lexpr on a name: the stack first, then the file's own variables.   *)
GlobalBlock(name) ==
  BLOCK_ID_START - 1 + (CHOOSE k \in 1..NumGlobals : GlobalVars[k] = name)

IsVisible(m, name) == OnStack(m, name) \/ \E k \in 1..NumGlobals : GlobalVars[k] = name

BlockOf(m, name) == IF OnStack(m, name) THEN StackBlock(m, name) ELSE GlobalBlock(name)

(* Faulty variant: the bound lets a load start at the end of the block.    *)
LoadOutcome_overread(m, b, i) ==
  CASE Follow(m, b) # "run" -> Follow(m, b)
    [] Follow(m, b) = "run" ->
         IF m.active_mem[b].memtype = "FREED" \/ i > m.active_mem[b].size
         THEN "exit" ELSE "run"

(* How from_lvalue ends for a pointer at cell i of block b, and the value. *)
LoadOutcome(m, b, i) ==
  CASE Follow(m, b) # "run" -> Follow(m, b)
    [] Follow(m, b) = "run" ->
         IF \/ m.active_mem[b].memtype = "FREED"
            \/ i > m.active_mem[b].size
            \/ m.active_mem[b].size - i < 1
         THEN "exit" ELSE "run"

(* Behind the end of the data lies host memory that is no pointer.         *)
from_lvalue(m, b, i) ==
  LET data == m.active_mem[b].data
  IN EmuPtr(m, IF i < Len(data) THEN data[i + 1] ELSE RawCell)

(* mem_block::write of pointer v at cell i of block b.  The bounds are     *)
(* checked, the type of the block is not: the data may have been deleted.  *)
write(m, b, i, v) ==
  CASE m.outcome # "run" -> m
    [] m.outcome = "run" /\ Follow(m, b) # "run" -> End(m, Follow(m, b))
    [] m.outcome = "run" /\ Follow(m, b) = "run" ->
         LET blk == m.active_mem[b]
         IN IF i > blk.size \/ blk.size - i < 1 THEN End(m, "exit")
            ELSE IF Dumps(m, v) # "run" THEN End(m, Dumps(m, v))
            ELSE IF blk.memtype = "FREED" THEN End(m, "ub_expired")
            ELSE [m EXCEPT !.active_mem[b].data[i + 1] = dump_repr(v)]

-----------------------------------------------------------------------------
(***************************************************************************)
(* Statements.                                                             *)
(***************************************************************************)

CanDeclare == InBody /\ Cardinality(Positions(mem)) < MaxVars

InScope(name) == InBody /\ IsVisible(mem, name)

(* The rvalue of a variable, and what loading it does to the interpreter.  *)
Loads(m, name) == LoadOutcome(m, BlockOf(m, name), 0)
ValueOf(m, name) == from_lvalue(m, BlockOf(m, name), 0)

(* BO_Assign: the right side is evaluated, cast and written to the left.   *)
Assigned(m, name, v) == write(m, BlockOf(m, name), 0, cast_to(v))

(* void *name;                                                             *)
DeclPtr(name) ==
  /\ CanDeclare
  /\ mem' = add_stack_var(
              mem_block(mem, "STACK", <<dump_repr(NotDefined("UNINITIALIZED", RawCell))>>),
              name, mem.id_counter)

(* void *name = other;  The initializer is cast, then dumped by the        *)
(* constructor of the variable's block.                                    *)
DeclInit(name, other) ==
  /\ CanDeclare /\ InScope(other)
  /\ LET v == cast_to(ValueOf(mem, other))
         m == mem_block(mem, "STACK", <<dump_repr(v)>>)
     IN mem' = CASE Loads(mem, other) # "run" -> End(mem, Loads(mem, other))
                 [] Loads(mem, other) = "run" /\ mem.id_counter = 0 -> m
                 [] Loads(mem, other) = "run" /\ mem.id_counter # 0 ->
                      IF Dumps(mem, v) # "run" THEN End(mem, Dumps(mem, v))
                      ELSE add_stack_var(m, name, mem.id_counter)

(* name = &other;                                                          *)
AssignAddr(name, other) ==
  /\ InScope(name) /\ InScope(other)
  /\ mem' = Assigned(mem, name, Defined(BlockOf(mem, other)))

(* name = 0;                                                               *)
AssignNull(name) ==
  /\ InScope(name)
  /\ mem' = Assigned(mem, name, Defined(Null))

(* name = other;                                                           *)
AssignCopy(name, other) ==
  /\ InScope(name) /\ InScope(other)
  /\ mem' = IF Loads(mem, other) # "run" THEN End(mem, Loads(mem, other))
            ELSE Assigned(mem, name, ValueOf(mem, other))

(* name = "...";  Every evaluation of the literal makes a new block.       *)
AssignString(name) ==
  /\ InScope(name)
  /\ mem' = LET m == mem_block(mem, "STATIC", <<RawCell>>)
            IN IF m.outcome # "run" THEN m ELSE Assigned(m, name, Defined(mem.id_counter))

(* name = base[i];  with the base cast to a pointer to void pointers.  Its *)
(* status is not looked at.                                                *)
LoadIndexed(name, base, i) ==
  /\ InScope(name) /\ InScope(base)
  /\ mem' = LET b == cast_to(ValueOf(mem, base)).block
            IN IF Loads(mem, base) # "run" THEN End(mem, Loads(mem, base))
               ELSE IF LoadOutcome(mem, b, i) # "run" THEN End(mem, LoadOutcome(mem, b, i))
               ELSE Assigned(mem, name, from_lvalue(mem, b, i))

(* base[i] = &other;  with the same cast.  The right side comes first.     *)
StoreIndexed(base, i, other) ==
  /\ InScope(base) /\ InScope(other)
  /\ mem' = IF Loads(mem, base) # "run" THEN End(mem, Loads(mem, base))
            ELSE write(mem, cast_to(ValueOf(mem, base)).block, i,
                       Defined(BlockOf(mem, other)))

-----------------------------------------------------------------------------
(***************************************************************************)
(* Calls of the external functions.  The callee is a builtin: a block for  *)
(* its EmuFunc is allocated at every call.  The argument is passed in a    *)
(* block of its own, as a variable without a name in a new frame.          *)
(***************************************************************************)
Call(m, arg) ==
  LET f == add_stack_frame(mem_block(m, "STATIC", <<>>))
  IN add_stack_var(mem_block(f, "STACK", arg), "", f.id_counter)

(* Faulty variant: the status of the argument is not looked at.            *)
emu_free_unchecked(m) ==
  IF m.outcome # "run" THEN m
  ELSE delete_block(m, from_lvalue(m, Top(m)[1].block, 0).block)

(* emu_free reads its argument back from the frame.                        *)
emu_free(m) ==
  IF m.outcome # "run" THEN m
  ELSE LET arg == from_lvalue(m, Top(m)[1].block, 0)
       IN IF arg.status # "DEFINED" THEN End(m, "exit")
          ELSE delete_block(m, arg.block)

(* free(name);                                                             *)
FreeCall(name) ==
  /\ InScope(name)
  /\ mem' = IF Loads(mem, name) # "run" THEN End(mem, Loads(mem, name))
            ELSE pop_stack_frame(emu_free(Call(mem, <<dump_repr(ValueOf(mem, name))>>)))

(* What the bytes of a heap block may be before they are written: nothing  *)
(* in particular, or a pointer that a deleted block has left there.        *)
Garbage(m) == {RawCell} \cup [tag : {"PTR"}, id : Issued(m)]

(* name = malloc(n);  The argument is a stored unsigned long.  It loads as *)
(* undefined when its tag is that of a long, and the call reports it; with *)
(* the tag of an int, or zero, it loads as a number, here a number of      *)
(* cells.  contents is what the new block's cells are.                     *)
MallocCall(name, isDefined, contents) ==
  /\ InScope(name)
  /\ mem' = LET c == Call(mem, <<>>)
                h == mem_block(c, "HEAP", contents)
            IN IF c.outcome # "run" THEN c
               ELSE IF ~isDefined THEN End(c, "exit")
               ELSE IF h.outcome # "run" THEN h
               ELSE Assigned(pop_stack_frame(h), name, Defined(c.id_counter))

-----------------------------------------------------------------------------
(* Every global is declared with the initializer 0: the null pointer.      *)
PtrInit == mem = Start(<<dump_repr(Defined(Null))>>)

PtrNext ==
  \/ EnterScope
  \/ LeaveScope
  \/ \E x \in Names \ {""} :
       \/ DeclPtr(x)
       \/ AssignNull(x)
       \/ AssignString(x)
       \/ FreeCall(x)
       \/ MallocCall(x, FALSE, <<>>)
       \/ \E g \in Garbage(mem) : MallocCall(x, TRUE, <<g>>)
       \/ \E y \in Names \ {""} :
            \/ DeclInit(x, y)
            \/ AssignAddr(x, y)
            \/ AssignCopy(x, y)
            \/ \E i \in 0..1 : LoadIndexed(x, y, i) \/ StoreIndexed(x, i, y)

PtrSpec == PtrInit /\ [][PtrNext]_mem

-----------------------------------------------------------------------------
(***************************************************************************)
(* Properties.                                                             *)
(***************************************************************************)

Cells(m) ==
  UNION {{m.active_mem[b].data[i] : i \in DOMAIN m.active_mem[b].data} : b \in DOMAIN m.active_mem}

(* Type invariant: blocks hold cells, as many as the block is large unless *)
(* the block has expired, and the memory state is well typed.              *)
PtrTypeOK ==
  /\ MemTypeOK(mem)
  /\ Cells(mem) \subseteq Cell
  /\ \A b \in DOMAIN mem.active_mem :
       \/ mem.active_mem[b].memtype = "FREED"
       \/ Len(mem.active_mem[b].data) = mem.active_mem[b].size

(* Whatever statements run, a stored pointer names the null id or a block  *)
(* that was allocated: dump_repr, the copies made by calls and the reuse   *)
(* of host memory never forge the id of a block still to come.             *)
NoForgedPointers ==
  mem.outcome = "run" =>
    \A c \in Cells(mem) : c.tag = "PTR" => c.id \in Issued(mem) \cup {BLOCK_ID_NULL}

(* A pointer to a heap block stays checkable: freeing the block twice, or  *)
(* a pointer that never was one, ends in the interpreter's own report; the *)
(* id is looked up again when emu_free loads its argument, and the frame   *)
(* and block of the call do not disturb the lookup.                        *)
DoubleFreeDetected ==
  [][\A x \in Names \ {""} :
       (FreeCall(x) /\ Loads(mem, x) = "run" /\ ValueOf(mem, x).status # "DEFINED")
         => mem'.outcome = "exit"]_mem

InScopeBlocks(m) ==
  {VarAt(m, p).block : p \in Positions(m)}
    \cup (BLOCK_ID_START .. (BLOCK_ID_START + NumGlobals - 1))

(* A deleted mem_block object is touched only when the program has passed  *)
(* the address of a variable that is still in scope to free(): pointers    *)
(* reach blocks through active_mem, and only names hold host addresses.    *)
DeletedOnlyThroughNames ==
  [][mem'.outcome = "ub_deleted" => ~(InScopeBlocks(mem) \subseteq DOMAIN mem.active_mem)]_mem

(* Stored bytes become a host address only when the program copies or      *)
(* follows a pointer that was null, uninitialized or dangling: while every *)
(* stored cell loads as defined no statement can forge an address.         *)
WildOnlyFromUndefined ==
  [][mem'.outcome = "ub_wild" =>
       \E c \in Cells(mem) : EmuPtr(mem, c).status # "DEFINED"]_mem

-----------------------------------------------------------------------------
(***************************************************************************)
(* What the Readme says of memory errors, as a property the code violates. *)
(***************************************************************************)

(* "detection [...] in the face of [...] use-after-free, double-free": the *)
(* data of an expired block is never used.  mem_block::write and the       *)
(* destructor do not look at memtype.                                      *)
ExpiredMemoryDetected == mem.outcome # "ub_expired"

=============================================================================
