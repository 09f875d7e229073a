------------------------------- MODULE Memory -------------------------------
(***************************************************************************)
(* The memory subsystem of the interpreter (mem.h, mem.cpp): the memory    *)
(* blocks with their 32-bit ids, the table active_mem, the stack of frames *)
(* of emulated variables (stack_vars) and the index stack_var_map, which   *)
(* gives for every name the stack of positions at which it is declared.    *)
(*                                                                         *)
(* Every function of mem.cpp is an operator from a memory state to the     *)
(* memory state after the call, so that a caller's sequence of calls is    *)
(* the composition of the operators.  The functions that report an error   *)
(* and exit never return: an operator applied to a state that is no longer *)
(* "run" returns that state.                                               *)
(*                                                                         *)
(* outcome is "run" while the interpreter works, "done" once the emulated  *)
(* main has returned, "exit" once an error has been reported, and "ub_..." *)
(* when the interpreter has executed an operation that is undefined in its *)
(* own language, C++:                                                      *)
(*   ub_expired  it used the data of a block that free() has deleted       *)
(*   ub_deleted  it used a mem_block object that has been deleted          *)
(*   ub_wild     it used something that is no host address as one          *)
(*   ub_null     it followed a null pointer                                *)
(***************************************************************************)
EXTENDS Integers, Sequences, FiniteSets

CONSTANTS
  Names,       (* the names of emulated variables, "" (no name) included   *)
  IdSpace,     (* the number of values of block_id_t, 2^32 in the code     *)
  NumGlobals,  (* the blocks allocated before the emulated main starts     *)
  MaxFrames    (* bound on the depth of the stack of frames                *)

BLOCK_ID_NULL == 1
BLOCK_ID_INVALID == 2
BLOCK_ID_START == 3

ASSUME IdSpaceAssumption ==
  /\ IdSpace \in Nat
  /\ NumGlobals \in Nat
  /\ BLOCK_ID_START + NumGlobals < IdSpace

ASSUME MaxFramesAssumption == MaxFrames \in Nat \ {0}

VARIABLE mem

mem_type_t == {"STATIC", "GLOBAL", "STACK", "HEAP", "EXTERN", "INVALID", "FREED"}

Outcomes == {"run", "done", "exit", "ub_expired", "ub_deleted", "ub_wild", "ub_null"}

block_id_t == 0 .. (IdSpace - 1)

End(m, how) == [m EXCEPT !.outcome = how]

-----------------------------------------------------------------------------
(***************************************************************************)
(* Blocks.                                                                 *)
(***************************************************************************)

(* Faulty variants, for the mutants: the wrap of the counter not noticed,  *)
(* and the counter kept in a wider type than block_id_t.                   *)
new_block_id_wrapping(m) == [m EXCEPT !.id_counter = (@ + 1) % IdSpace]

new_block_id_wide(m) ==
  IF m.id_counter = 0 THEN End(m, "exit") ELSE [m EXCEPT !.id_counter = @ + 1]

(* The id a new block receives is the counter's value before the call.     *)
new_block_id(m) ==
  IF m.id_counter = 0 THEN End(m, "exit")
  ELSE [m EXCEPT !.id_counter = (@ + 1) % IdSpace]

Enters(m, b, blk) ==
  [m EXCEPT !.active_mem =
     [c \in DOMAIN m.active_mem \cup {b} |->
        IF c = b THEN blk ELSE m.active_mem[c]]]

(* Faulty variant: the size does not match the allocation.                 *)
mem_block_oversized(m, t, d) ==
  IF m.outcome # "run" THEN m
  ELSE LET n == new_block_id(m)
       IN IF n.outcome # "run" THEN n
          ELSE Enters(n, m.id_counter, [memtype |-> t, size |-> Len(d) + 1, data |-> d])

(* The constructor: a block of type t with contents d joins active_mem.    *)
(* Its size is set once and outlives the data.                             *)
mem_block(m, t, d) ==
  IF m.outcome # "run" THEN m
  ELSE LET n == new_block_id(m)
       IN IF n.outcome # "run" THEN n
          ELSE Enters(n, m.id_counter, [memtype |-> t, size |-> Len(d), data |-> d])

(* The destructor deletes the data, which free() may have deleted before,  *)
(* and the block leaves active_mem.                                        *)
delete_block(m, b) ==
  IF m.outcome # "run" THEN m
  ELSE IF b \notin DOMAIN m.active_mem THEN End(m, "ub_deleted")
  ELSE IF m.active_mem[b].memtype = "FREED" THEN End(m, "ub_expired")
  ELSE [m EXCEPT !.active_mem =
          [c \in DOMAIN m.active_mem \ {b} |-> m.active_mem[c]]]

Freed(blk) == [memtype |-> "FREED", size |-> blk.size, data |-> <<>>]

(* mem_block::free on every block of the set bs: the block stays in        *)
(* active_mem, marked, and its data is deleted.                            *)
free_blocks(m, bs) ==
  IF \E b \in bs : b \notin DOMAIN m.active_mem THEN End(m, "ub_deleted")
  ELSE IF \E b \in bs : m.active_mem[b].memtype = "FREED" THEN End(m, "ub_expired")
  ELSE [m EXCEPT !.active_mem =
          [c \in DOMAIN m.active_mem |->
             IF c \in bs THEN Freed(m.active_mem[c]) ELSE m.active_mem[c]]]

-----------------------------------------------------------------------------
(***************************************************************************)
(* The stack of frames and its index.  A position <<n, i>> counts frames   *)
(* and variables from zero, as the code does.                              *)
(***************************************************************************)

add_stack_frame(m) ==
  IF m.outcome # "run" THEN m
  ELSE [m EXCEPT !.stack_vars = Append(@, <<>>)]

Listed(m, name) ==
  IF name \in DOMAIN m.stack_var_map THEN m.stack_var_map[name] ELSE <<>>

add_stack_var(m, name, b) ==
  IF m.outcome # "run" THEN m
  ELSE LET n == Len(m.stack_vars) - 1
           i == Len(m.stack_vars[n + 1])
       IN [m EXCEPT
             !.stack_vars[n + 1] = Append(@, [name |-> name, block |-> b]),
             !.stack_var_map =
               [k \in DOMAIN m.stack_var_map \cup {name} |->
                  IF k = name THEN Append(Listed(m, name), <<n, i>>)
                  ELSE m.stack_var_map[k]]]

Top(m) == m.stack_vars[Len(m.stack_vars)]

TopBlocks(m) == {Top(m)[i].block : i \in DOMAIN Top(m)}

(* How often the loop of pop_stack_frame pops the list of a name.          *)
PopCount(m, name) == Cardinality({i \in DOMAIN Top(m) : Top(m)[i].name = name})

(* Faulty variant: the lists are popped at the wrong end.                  *)
Unindexed_front(m) ==
  [n \in {k \in DOMAIN m.stack_var_map : Len(m.stack_var_map[k]) > PopCount(m, k)} |->
     SubSeq(m.stack_var_map[n], 1 + PopCount(m, n), Len(m.stack_var_map[n]))]

Unindexed(m) ==
  [n \in {k \in DOMAIN m.stack_var_map : Len(m.stack_var_map[k]) > PopCount(m, k)} |->
     SubSeq(m.stack_var_map[n], 1, Len(m.stack_var_map[n]) - PopCount(m, n))]

(* Faulty variant: the top frame is looked at after it has been popped.    *)
pop_stack_frame_late(m) ==
  IF m.outcome # "run" THEN m
  ELSE LET n == [m EXCEPT !.stack_vars = SubSeq(@, 1, Len(@) - 1),
                          !.stack_var_map = Unindexed(m)]
       IN free_blocks(n, TopBlocks(n))

(* Faulty variant: the blocks of the frame are not freed.                  *)
pop_stack_frame_leaky(m) ==
  IF m.outcome # "run" THEN m
  ELSE [m EXCEPT !.stack_vars = SubSeq(@, 1, Len(@) - 1), !.stack_var_map = Unindexed(m)]

(* The frame leaves, each of its variables is popped from the list of its  *)
(* name, an emptied list is erased, and the variable's block is freed.     *)
pop_stack_frame(m) ==
  IF m.outcome # "run" THEN m
  ELSE free_blocks([m EXCEPT !.stack_vars = SubSeq(@, 1, Len(@) - 1),
                             !.stack_var_map = Unindexed(m)],
                   TopBlocks(m))

(* The variable at a position, and the stack part of eval_lexpr: the most  *)
(* recent position of the name.                                            *)
VarAt(m, pos) == m.stack_vars[pos[1] + 1][pos[2] + 1]

OnStack(m, name) == name \in DOMAIN m.stack_var_map

StackBlock(m, name) ==
  VarAt(m, m.stack_var_map[name][Len(m.stack_var_map[name])]).block

-----------------------------------------------------------------------------
(***************************************************************************)
(* The interpreter's use of the subsystem: blocks and frames come and go   *)
(* in any order that the emulated program chooses.  The globals have been  *)
(* allocated and RunProgram has pushed its frame, which is never popped.   *)
(***************************************************************************)

Start(data) ==
  [id_counter    |-> BLOCK_ID_START + NumGlobals,
   active_mem    |-> [b \in BLOCK_ID_START .. (BLOCK_ID_START + NumGlobals - 1) |->
                        [memtype |-> "GLOBAL", size |-> Len(data), data |-> data]],
   stack_vars    |-> <<(<<>>)>>,
   stack_var_map |-> [n \in {} |-> <<>>],
   outcome       |-> "run"]

Init == mem = Start(<<>>)

(* Statements run inside the body of a function, a frame above the first.  *)
InBody == mem.outcome = "run" /\ Len(mem.stack_vars) > 1

(* A compound statement, a loop, a switch or a call opens a frame.         *)
EnterScope ==
  /\ mem.outcome = "run"
  /\ Len(mem.stack_vars) < MaxFrames
  /\ mem' = add_stack_frame(mem)

LeaveScope ==
  /\ InBody
  /\ mem' = pop_stack_frame(mem)

(* A declaration or a parameter: a block of its own, then the variable.    *)
Declare(name) ==
  /\ InBody
  /\ mem' = add_stack_var(mem_block(mem, "STACK", <<>>), name, mem.id_counter)

(* A block no variable stands for: malloc, a string literal, or newarr.    *)
Allocate(t) ==
  /\ InBody
  /\ mem' = mem_block(mem, t, <<>>)

(* emu_free deletes whatever block an active id names.                     *)
Release(b) ==
  /\ InBody
  /\ b \in DOMAIN mem.active_mem
  /\ mem' = delete_block(mem, b)

Next ==
  \/ EnterScope
  \/ LeaveScope
  \/ \E name \in Names : Declare(name)
  \/ \E t \in {"HEAP", "STATIC", "STACK"} : Allocate(t)
  \/ \E b \in block_id_t : Release(b)

Spec == Init /\ [][Next]_mem

-----------------------------------------------------------------------------
(***************************************************************************)
(* Properties.                                                             *)
(***************************************************************************)

(* The ids that new_block_id has handed out: the counter wraps to zero     *)
(* when the last one is gone.                                              *)
Issued(m) ==
  BLOCK_ID_START .. (IF m.id_counter = 0 THEN IdSpace - 1 ELSE m.id_counter - 1)

Positions(m) ==
  UNION {{<<f - 1, i - 1>> : i \in DOMAIN m.stack_vars[f]} : f \in DOMAIN m.stack_vars}

(* Frames first, then the variables of a frame.                            *)
Before(p, q) == p[1] < q[1] \/ (p[1] = q[1] /\ p[2] < q[2])

VarType == [name : Names, block : block_id_t]

MemTypeOK(m) ==
  /\ DOMAIN m = {"id_counter", "active_mem", "stack_vars", "stack_var_map", "outcome"}
  /\ m.id_counter \in block_id_t
  /\ DOMAIN m.active_mem \subseteq block_id_t
  /\ \A b \in DOMAIN m.active_mem :
       /\ m.active_mem[b].memtype \in mem_type_t
       /\ m.active_mem[b].size \in Nat
  /\ m.stack_vars \in Seq(Seq(VarType))
  /\ DOMAIN m.stack_var_map \subseteq Names
  /\ \A n \in DOMAIN m.stack_var_map : m.stack_var_map[n] \in Seq(Nat \X Nat)
  /\ m.outcome \in Outcomes

(* Type invariant of the memory state kept by mem.cpp.                     *)
TypeOK == MemTypeOK(mem)

IndexIsSound(m) ==
  \A n \in DOMAIN m.stack_var_map :
    /\ m.stack_var_map[n] # <<>>
    /\ \A k \in DOMAIN m.stack_var_map[n] :
         /\ m.stack_var_map[n][k] \in Positions(m)
         /\ VarAt(m, m.stack_var_map[n][k]).name = n

IndexIsComplete(m) ==
  \A p \in Positions(m) :
    \E k \in DOMAIN Listed(m, VarAt(m, p).name) : Listed(m, VarAt(m, p).name)[k] = p

IndexIsOrdered(m) ==
  \A n \in DOMAIN m.stack_var_map : \A j, k \in DOMAIN m.stack_var_map[n] :
    j < k => Before(m.stack_var_map[n][j], m.stack_var_map[n][k])

StackIndexOK(m) == IndexIsSound(m) /\ IndexIsComplete(m) /\ IndexIsOrdered(m)

(* add_stack_var and pop_stack_frame keep stack_var_map in step with       *)
(* stack_vars: a name's list holds exactly the positions at which the name *)
(* is declared, innermost last, and a name that is declared nowhere has no *)
(* list.  eval_lexpr takes the last element of a list without a check.     *)
StackIndex == StackIndexOK(mem)

OwnershipOK(m) ==
  /\ DOMAIN m.active_mem \subseteq Issued(m)
  /\ \A p \in Positions(m) :
       /\ VarAt(m, p).block \in Issued(m)
       /\ VarAt(m, p).block \in DOMAIN m.active_mem =>
            m.active_mem[VarAt(m, p).block].memtype = "STACK"
  /\ \A p, q \in Positions(m) : VarAt(m, p).block = VarAt(m, q).block => p = q

(* A variable in scope has a block that no other variable has, and that    *)
(* block is never marked freed while the variable is in scope: leaving a   *)
(* scope expires the blocks of that scope and no others.  Only a block     *)
(* that was deleted through free() can be missing.                         *)
InScopeBlocksLive == mem.outcome = "run" => OwnershipOK(mem)

(* mem_block::free marks a block once: no scope exit frees a block twice,  *)
(* so deleted data is touched only when free() is given an expired block,  *)
(* and a deleted block object only when free() was given the block of a    *)
(* variable that is still in scope.                                        *)
ScopeExitFreesOnce ==
  [][LeaveScope => mem'.outcome # "ub_expired" /\
       (mem'.outcome = "ub_deleted" => ~(TopBlocks(mem) \subseteq DOMAIN mem.active_mem))]_mem

(* Ids are never reused: the id of a deleted block names no block again,   *)
(* even when the counter has wrapped, and an expired block is never active *)
(* again.  A stored pointer can therefore not come to mean another block.  *)
NoResurrection ==
  [][\A b \in Issued(mem) :
       /\ b \in Issued(mem')
       /\ b \notin DOMAIN mem.active_mem => b \notin DOMAIN mem'.active_mem
       /\ (b \in DOMAIN mem.active_mem /\ b \in DOMAIN mem'.active_mem) =>
            (mem.active_mem[b].memtype = "FREED" => mem'.active_mem[b].memtype = "FREED")]_mem

(***************************************************************************)
(* The refinement: seen through stack_var_map, the frames are nested       *)
(* scopes.  The environment of the k outermost frames gives a name the     *)
(* block at the last of its listed positions in those frames.              *)
(***************************************************************************)
Visible(m, n, k) == {j \in DOMAIN Listed(m, n) : Listed(m, n)[j][1] < k}

Env(m, k) ==
  [n \in Names |->
     IF Visible(m, n, k) = {} THEN 0
     ELSE LET last == CHOOSE j \in Visible(m, n, k) : \A i \in Visible(m, n, k) : i <= j
          IN VarAt(m, Listed(m, n)[last]).block]

Scopes == INSTANCE ScopeStack WITH
            envs <- [k \in DOMAIN mem.stack_vars |-> Env(mem, k)],
            Blocks <- block_id_t, None <- 0

(* The frames and their index implement block scopes: whatever is pushed,  *)
(* declared and popped, names resolve as the nesting of the frames says,   *)
(* and a popped frame leaves the bindings of the frames below it intact.   *)
ImplementsScopes == Scopes!Spec

=============================================================================
