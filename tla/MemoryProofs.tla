---------------------------- MODULE MemoryProofs ----------------------------
(***************************************************************************)
(* Proofs about Memory for every set of names, every size of the id space  *)
(* and every depth of the stack.                                           *)
(***************************************************************************)
EXTENDS Memory, TLAPS, FiniteSetTheorems, SequenceTheorems

(* The front of a sequence, and a sequence with one more element.          *)
LEMMA PrefixType ==
  ASSUME NEW S, NEW q \in Seq(S), NEW k \in Nat, k <= Len(q)
  PROVE  SubSeq(q, 1, k) \in Seq(S)
  OBVIOUS

(* Appending an element of S to a sequence over S.                         *)
LEMMA AppendType ==
  ASSUME NEW S, NEW q \in Seq(S), NEW e \in S
  PROVE  Append(q, e) \in Seq(S)
  OBVIOUS

(***************************************************************************)
(* Types: every operation takes a well-typed state to a well-typed state.  *)
(***************************************************************************)

(* err_exit and undefined behaviour change only how the run has ended.     *)
LEMMA EndType ==
  ASSUME NEW m, MemTypeOK(m), NEW how \in Outcomes
  PROVE  MemTypeOK(End(m, how))
  BY DEF MemTypeOK, End

(* new_block_id steps the counter within block_id_t, or exits.             *)
LEMMA NewIdType ==
  ASSUME NEW m, MemTypeOK(m)
  PROVE  MemTypeOK(new_block_id(m))
  <1>1. CASE m.id_counter = 0
    BY <1>1, EndType DEF new_block_id, Outcomes
  <1>2. CASE m.id_counter # 0
    <2>1. (m.id_counter + 1) % IdSpace \in block_id_t
      BY IdSpaceAssumption DEF MemTypeOK, block_id_t, BLOCK_ID_START
    <2> QED
      BY <1>2, <2>1 DEF new_block_id, MemTypeOK
  <1> QED
    BY <1>1, <1>2

(* The constructor of mem_block.                                           *)
LEMMA BlockType ==
  ASSUME NEW m, MemTypeOK(m), NEW t \in mem_type_t, NEW d, Len(d) \in Nat
  PROVE  MemTypeOK(mem_block(m, t, d))
  <1> DEFINE n == new_block_id(m)
  <1>1. MemTypeOK(n)
    BY NewIdType
  <1>2. CASE m.outcome = "run" /\ n.outcome = "run"
    <2> DEFINE blk == [memtype |-> t, size |-> Len(d), data |-> d]
    <2>1. m.id_counter \in block_id_t
      BY DEF MemTypeOK
    <2>2. MemTypeOK(Enters(n, m.id_counter, blk))
      BY <1>1, <2>1 DEF MemTypeOK, Enters
    <2> QED
      BY <1>2, <2>2 DEF mem_block
  <1> QED
    BY <1>1, <1>2 DEF mem_block

(* The destructor of mem_block.                                            *)
LEMMA DeleteType ==
  ASSUME NEW m, MemTypeOK(m), NEW b
  PROVE  MemTypeOK(delete_block(m, b))
  <1>1. MemTypeOK(End(m, "ub_deleted")) /\ MemTypeOK(End(m, "ub_expired"))
    BY EndType DEF Outcomes
  <1>2. MemTypeOK([m EXCEPT !.active_mem =
                     [c \in DOMAIN m.active_mem \ {b} |-> m.active_mem[c]]])
    BY DEF MemTypeOK
  <1> QED
    BY <1>1, <1>2 DEF delete_block

(* mem_block::free on the blocks of a frame.                               *)
LEMMA FreeType ==
  ASSUME NEW m, MemTypeOK(m), NEW bs
  PROVE  MemTypeOK(free_blocks(m, bs))
  <1>1. MemTypeOK(End(m, "ub_deleted")) /\ MemTypeOK(End(m, "ub_expired"))
    BY EndType DEF Outcomes
  <1>2. MemTypeOK([m EXCEPT !.active_mem =
                     [c \in DOMAIN m.active_mem |->
                        IF c \in bs THEN Freed(m.active_mem[c]) ELSE m.active_mem[c]]])
    BY DEF MemTypeOK, Freed, mem_type_t
  <1> QED
    BY <1>1, <1>2 DEF free_blocks

(* A new frame has no variables.                                           *)
LEMMA FrameType ==
  ASSUME NEW m, MemTypeOK(m)
  PROVE  MemTypeOK(add_stack_frame(m))
  <1>1. Append(m.stack_vars, <<>>) \in Seq(Seq(VarType))
    BY DEF MemTypeOK
  <1> QED
    BY <1>1 DEF MemTypeOK, add_stack_frame

(* A new variable and its position.                                        *)
LEMMA VarsType ==
  ASSUME NEW m, MemTypeOK(m), Len(m.stack_vars) > 0,
         NEW name \in Names, NEW b \in block_id_t
  PROVE  MemTypeOK(add_stack_var(m, name, b))
  <1> SUFFICES ASSUME m.outcome = "run"
               PROVE  MemTypeOK(add_stack_var(m, name, b))
    BY DEF add_stack_var
  <1> DEFINE n == Len(m.stack_vars) - 1
             i == Len(m.stack_vars[n + 1])
             v == [name |-> name, block |-> b]
             s == [m.stack_vars EXCEPT ![n + 1] = Append(@, v)]
             x == [k \in DOMAIN m.stack_var_map \cup {name} |->
                     IF k = name THEN Append(Listed(m, name), <<n, i>>)
                     ELSE m.stack_var_map[k]]
  <1>1. m.stack_vars \in Seq(Seq(VarType)) /\ v \in VarType
    BY DEF MemTypeOK, VarType
  <1>2. n \in Nat /\ i \in Nat
    BY <1>1
  <1>3. s \in Seq(Seq(VarType))
    BY <1>1, <1>2
  <1>4. \A k \in DOMAIN x : x[k] \in Seq(Nat \X Nat)
    <2>1. <<n, i>> \in Nat \X Nat
      BY <1>2
    <2>2. Listed(m, name) \in Seq(Nat \X Nat)
      BY DEF MemTypeOK, Listed
    <2>3. Append(Listed(m, name), <<n, i>>) \in Seq(Nat \X Nat)
      BY <2>1, <2>2, AppendType
    <2> QED
      BY <2>3 DEF MemTypeOK
  <1>5. add_stack_var(m, name, b) = [m EXCEPT !.stack_vars = s, !.stack_var_map = x]
    BY DEF add_stack_var, MemTypeOK
  <1>6. DOMAIN x \subseteq Names
    BY DEF MemTypeOK
  <1> HIDE DEF s, x
  <1> QED
    BY <1>3, <1>4, <1>5, <1>6 DEF MemTypeOK

(* The number of pops of a name's list is a number.                        *)
LEMMA PopCountType ==
  ASSUME NEW m, MemTypeOK(m), Len(m.stack_vars) > 0, NEW name
  PROVE  PopCount(m, name) \in Nat
  <1>1. Top(m) \in Seq(VarType)
    BY DEF Top, MemTypeOK
  <1>2. IsFiniteSet(1 .. Len(Top(m)))
    BY <1>1, FS_Interval
  <1>3. IsFiniteSet({i \in DOMAIN Top(m) : Top(m)[i].name = name})
    BY <1>1, <1>2, FS_Subset
  <1> QED
    BY <1>3, FS_CardinalityType DEF PopCount

(* The frame and its entries in the index leave.                           *)
LEMMA PopType ==
  ASSUME NEW m, MemTypeOK(m), Len(m.stack_vars) > 0
  PROVE  MemTypeOK(pop_stack_frame(m))
  <1> DEFINE s == SubSeq(m.stack_vars, 1, Len(m.stack_vars) - 1)
             p == [m EXCEPT !.stack_vars = SubSeq(@, 1, Len(@) - 1),
                            !.stack_var_map = Unindexed(m)]
  <1>1. s \in Seq(Seq(VarType))
    BY DEF MemTypeOK
  <1>2. DOMAIN Unindexed(m) \subseteq DOMAIN m.stack_var_map
    BY DEF Unindexed
  <1>3. ASSUME NEW k \in DOMAIN Unindexed(m)
        PROVE  Unindexed(m)[k] \in Seq(Nat \X Nat)
    <2>1. m.stack_var_map[k] \in Seq(Nat \X Nat)
      BY <1>2, <1>3 DEF MemTypeOK
    <2>2. PopCount(m, k) \in Nat
      BY PopCountType
    <2>3. Len(m.stack_var_map[k]) > PopCount(m, k)
      BY <1>3 DEF Unindexed
    <2>4. SubSeq(m.stack_var_map[k], 1, Len(m.stack_var_map[k]) - PopCount(m, k))
            \in Seq(Nat \X Nat)
      <3>1. Len(m.stack_var_map[k]) - PopCount(m, k) \in Nat
        <4>1. Len(m.stack_var_map[k]) \in Nat
          BY <2>1, LenProperties
        <4> QED
          BY <2>2, <2>3, <4>1
      <3>2. Len(m.stack_var_map[k]) - PopCount(m, k) <= Len(m.stack_var_map[k])
        BY <2>2, <2>1, LenProperties
      <3> QED
        BY <2>1, <3>1, <3>2, PrefixType
    <2> QED
      BY <1>3, <2>4 DEF Unindexed
  <1>4. p = [m EXCEPT !.stack_vars = s, !.stack_var_map = Unindexed(m)]
    BY DEF MemTypeOK
  <1>5. MemTypeOK(p)
    <2> HIDE DEF s
    <2> QED
      BY <1>1, <1>2, <1>3, <1>4 DEF MemTypeOK
  <1> QED
    BY <1>5, FreeType DEF pop_stack_frame

(* Every operation that changes the memory state keeps its type: Spec      *)
(* implies that TypeOK always holds.                                       *)
THEOREM TypeCorrect == Spec => []TypeOK
  <1>1. Init => TypeOK
    <2> SUFFICES ASSUME Init PROVE TypeOK
      OBVIOUS
    <2>1. DOMAIN mem.active_mem \subseteq block_id_t
      BY IdSpaceAssumption DEF Init, Start, block_id_t, BLOCK_ID_START
    <2>2. mem.stack_vars \in Seq(Seq(VarType))
      BY DEF Init, Start
    <2>3. mem.id_counter \in block_id_t
      BY IdSpaceAssumption DEF Init, Start, block_id_t, BLOCK_ID_START
    <2>4. \A b \in DOMAIN mem.active_mem :
            mem.active_mem[b].memtype \in mem_type_t /\ mem.active_mem[b].size \in Nat
      BY DEF Init, Start, mem_type_t
    <2> QED
      BY <2>1, <2>2, <2>3, <2>4 DEF TypeOK, MemTypeOK, Init, Start, Outcomes
  <1>2. TypeOK /\ [Next]_mem => TypeOK'
    <2> SUFFICES ASSUME MemTypeOK(mem), [Next]_mem
                 PROVE  MemTypeOK(mem')
      BY DEF TypeOK
    <2>1. CASE EnterScope
      BY <2>1, FrameType DEF EnterScope
    <2>2. CASE LeaveScope
      <3>1. Len(mem.stack_vars) > 0
        BY <2>2 DEF LeaveScope, InBody, MemTypeOK
      <3> QED
        BY <2>2, <3>1, PopType DEF LeaveScope
    <2>3. ASSUME NEW name \in Names, Declare(name)
          PROVE  MemTypeOK(mem')
      <3> DEFINE m == mem_block(mem, "STACK", <<>>)
      <3>1. MemTypeOK(m)
        BY BlockType DEF mem_type_t
      <3>2. m.stack_vars = mem.stack_vars
        BY DEF mem_block, new_block_id, End, Enters, MemTypeOK
      <3>3. Len(m.stack_vars) > 0
        BY <2>3, <3>2 DEF Declare, InBody, MemTypeOK
      <3>4. mem.id_counter \in block_id_t
        BY DEF MemTypeOK
      <3> HIDE DEF m
      <3>5. MemTypeOK(add_stack_var(m, name, mem.id_counter))
        BY <2>3, <3>1, <3>3, <3>4, VarsType
      <3> QED
        BY <2>3, <3>5 DEF Declare, m
    <2>4. ASSUME NEW t \in {"HEAP", "STATIC", "STACK"}, Allocate(t)
          PROVE  MemTypeOK(mem')
      BY <2>4, BlockType DEF Allocate, mem_type_t
    <2>5. ASSUME NEW b \in block_id_t, Release(b)
          PROVE  MemTypeOK(mem')
      BY <2>5, DeleteType DEF Release
    <2>6. CASE UNCHANGED mem
      BY <2>6
    <2> QED
      BY <2>1, <2>2, <2>3, <2>4, <2>5, <2>6 DEF Next
  <1> QED
    BY <1>1, <1>2, PTL DEF Spec

(***************************************************************************)
(* Ids and ownership.  InScopeBlocksLive is inductive once the type of the *)
(* state and the range of the counter are known: the counter is never one  *)
(* of the reserved ids, so that it is the least id that was not issued.    *)
(***************************************************************************)
CounterOK(m) == m.id_counter = 0 \/ m.id_counter >= BLOCK_ID_START

IInv == TypeOK /\ CounterOK(mem) /\ InScopeBlocksLive

(* OwnershipOK in terms of frames and indices in place of positions.       *)
Owned(m) ==
  /\ DOMAIN m.active_mem \subseteq Issued(m)
  /\ \A f \in DOMAIN m.stack_vars : \A i \in DOMAIN m.stack_vars[f] :
       /\ m.stack_vars[f][i].block \in Issued(m)
       /\ m.stack_vars[f][i].block \in DOMAIN m.active_mem =>
            m.active_mem[m.stack_vars[f][i].block].memtype = "STACK"
  /\ \A f, g \in DOMAIN m.stack_vars :
       \A i \in DOMAIN m.stack_vars[f], j \in DOMAIN m.stack_vars[g] :
         m.stack_vars[f][i].block = m.stack_vars[g][j].block => f = g /\ i = j

(* A position is a frame and an index, both counted from zero.             *)
LEMMA PositionOf ==
  ASSUME NEW m, MemTypeOK(m)
  PROVE  /\ \A p \in Positions(m) : \E f \in DOMAIN m.stack_vars :
              \E i \in DOMAIN m.stack_vars[f] :
                p = <<f - 1, i - 1>> /\ VarAt(m, p) = m.stack_vars[f][i]
         /\ \A f \in DOMAIN m.stack_vars : \A i \in DOMAIN m.stack_vars[f] :
              <<f - 1, i - 1>> \in Positions(m)
                /\ VarAt(m, <<f - 1, i - 1>>) = m.stack_vars[f][i]
  <1>1. ASSUME NEW f \in DOMAIN m.stack_vars, NEW i \in DOMAIN m.stack_vars[f]
        PROVE  VarAt(m, <<f - 1, i - 1>>) = m.stack_vars[f][i]
    <2>1. m.stack_vars \in Seq(Seq(VarType))
      BY DEF MemTypeOK
    <2>2. f \in Int /\ i \in Int
      BY <2>1
    <2>3. f - 1 + 1 = f /\ i - 1 + 1 = i
      BY <2>2
    <2> QED
      BY <2>3 DEF VarAt
  <1>2. ASSUME NEW f \in DOMAIN m.stack_vars, NEW i \in DOMAIN m.stack_vars[f]
        PROVE  <<f - 1, i - 1>> \in Positions(m)
    BY DEF Positions
  <1>3. ASSUME NEW p \in Positions(m)
        PROVE  \E f \in DOMAIN m.stack_vars : \E i \in DOMAIN m.stack_vars[f] :
                 p = <<f - 1, i - 1>>
    BY DEF Positions
  <1> QED
    BY <1>1, <1>2, <1>3

(* The pointwise form of the ownership invariant is the one the runs       *)
(* check.                                                                  *)
LEMMA OwnedIsOwnership ==
  ASSUME NEW m, MemTypeOK(m)
  PROVE  Owned(m) <=> OwnershipOK(m)
  <1>0. m.stack_vars \in Seq(Seq(VarType))
    BY DEF MemTypeOK
  <1>1. ASSUME Owned(m) PROVE OwnershipOK(m)
    <2>1. ASSUME NEW p \in Positions(m), NEW q \in Positions(m),
                 VarAt(m, p).block = VarAt(m, q).block
          PROVE  p = q
      BY <1>1, <2>1, PositionOf DEF Owned
    <2>2. ASSUME NEW p \in Positions(m)
          PROVE  /\ VarAt(m, p).block \in Issued(m)
                 /\ VarAt(m, p).block \in DOMAIN m.active_mem =>
                      m.active_mem[VarAt(m, p).block].memtype = "STACK"
      BY <1>1, PositionOf DEF Owned
    <2> QED
      BY <1>1, <2>1, <2>2 DEF Owned, OwnershipOK
  <1>2. ASSUME OwnershipOK(m) PROVE Owned(m)
    <2>1. ASSUME NEW f \in DOMAIN m.stack_vars, NEW g \in DOMAIN m.stack_vars,
                 NEW i \in DOMAIN m.stack_vars[f], NEW j \in DOMAIN m.stack_vars[g],
                 m.stack_vars[f][i].block = m.stack_vars[g][j].block
          PROVE  f = g /\ i = j
      <3> DEFINE p == <<f - 1, i - 1>>
                 q == <<g - 1, j - 1>>
      <3>0. /\ p \in Positions(m) /\ VarAt(m, p) = m.stack_vars[f][i]
            /\ q \in Positions(m) /\ VarAt(m, q) = m.stack_vars[g][j]
        BY PositionOf
      <3> HIDE DEF p, q
      <3>1. p = q
        BY <1>2, <2>1, <3>0 DEF OwnershipOK
      <3>2. f - 1 = g - 1 /\ i - 1 = j - 1
        BY <3>1 DEF p, q
      <3>3. f \in Int /\ g \in Int /\ i \in Int /\ j \in Int
        BY <1>0
      <3> QED
        BY <3>2, <3>3
    <2>2. ASSUME NEW f \in DOMAIN m.stack_vars, NEW i \in DOMAIN m.stack_vars[f]
          PROVE  /\ m.stack_vars[f][i].block \in Issued(m)
                 /\ m.stack_vars[f][i].block \in DOMAIN m.active_mem =>
                      m.active_mem[m.stack_vars[f][i].block].memtype = "STACK"
      <3> DEFINE p == <<f - 1, i - 1>>
      <3>1. p \in Positions(m) /\ VarAt(m, p) = m.stack_vars[f][i]
        BY PositionOf
      <3> HIDE DEF p
      <3> QED
        BY <1>2, <3>1 DEF OwnershipOK
    <2> QED
      BY <1>2, <2>1, <2>2 DEF Owned, OwnershipOK
  <1> QED
    BY <1>1, <1>2

(* new_block_id issues one more id, the counter's, and no other.           *)
LEMMA IssuesOne ==
  ASSUME NEW m, MemTypeOK(m), CounterOK(m), m.id_counter # 0
  PROVE  /\ CounterOK(new_block_id(m))
         /\ Issued(new_block_id(m)) = Issued(m) \cup {m.id_counter}
         /\ m.id_counter \notin Issued(m)
  <1> DEFINE c == m.id_counter
  <1>1. c \in Nat /\ c >= 3 /\ c < IdSpace /\ IdSpace \in Nat
    BY IdSpaceAssumption DEF MemTypeOK, block_id_t, CounterOK, BLOCK_ID_START
  <1>2. new_block_id(m).id_counter = (c + 1) % IdSpace
    BY DEF new_block_id, MemTypeOK
  <1>3. IF c = IdSpace - 1 THEN (c + 1) % IdSpace = 0 ELSE (c + 1) % IdSpace = c + 1
    BY <1>1
  <1> HIDE DEF c
  <1>4. Issued(m) = 3 .. (c - 1)
    BY <1>1 DEF Issued, BLOCK_ID_START, c
  <1>5. Issued(new_block_id(m)) = 3 .. c
    BY <1>1, <1>2, <1>3 DEF Issued, BLOCK_ID_START
  <1>6. CounterOK(new_block_id(m))
    BY <1>1, <1>2, <1>3 DEF CounterOK, BLOCK_ID_START
  <1> QED
    BY <1>1, <1>4, <1>5, <1>6 DEF c

(* What the constructor of mem_block leaves behind.                        *)
LEMMA BlockEffect ==
  ASSUME NEW m, MemTypeOK(m), CounterOK(m), m.outcome = "run", m.id_counter # 0,
         NEW t, NEW d
  PROVE  LET n == mem_block(m, t, d)
         IN /\ n.outcome = "run"
            /\ n.stack_vars = m.stack_vars
            /\ CounterOK(n)
            /\ Issued(n) = Issued(m) \cup {m.id_counter}
            /\ m.id_counter \notin Issued(m)
            /\ DOMAIN n.active_mem = DOMAIN m.active_mem \cup {m.id_counter}
            /\ n.active_mem[m.id_counter].memtype = t
            /\ \A b \in DOMAIN m.active_mem :
                 b # m.id_counter => n.active_mem[b] = m.active_mem[b]
  <1> DEFINE k == new_block_id(m)
             blk == [memtype |-> t, size |-> Len(d), data |-> d]
             n == mem_block(m, t, d)
  <1>1. /\ DOMAIN k = DOMAIN m /\ k.outcome = "run"
        /\ k.stack_vars = m.stack_vars /\ k.active_mem = m.active_mem
    BY DEF new_block_id, MemTypeOK
  <1>2. n = Enters(k, m.id_counter, blk)
    BY <1>1 DEF mem_block
  <1>3. /\ n.id_counter = k.id_counter
        /\ n.outcome = "run"
        /\ n.stack_vars = m.stack_vars
        /\ n.active_mem = [c \in DOMAIN m.active_mem \cup {m.id_counter} |->
                             IF c = m.id_counter THEN blk ELSE m.active_mem[c]]
    <2> HIDE DEF k, n, blk
    <2> QED
      BY <1>1, <1>2 DEF Enters, MemTypeOK
  <1>4. CounterOK(n) /\ Issued(n) = Issued(k)
    BY <1>3, IssuesOne DEF CounterOK, Issued
  <1> QED
    BY <1>3, <1>4, IssuesOne

(* A new block belongs to no variable.                                     *)
LEMMA BlockOwned ==
  ASSUME NEW m, MemTypeOK(m), CounterOK(m), m.outcome = "run", m.id_counter # 0,
         Owned(m), NEW t, NEW d
  PROVE  Owned(mem_block(m, t, d))
  <1> DEFINE n == mem_block(m, t, d)
  <1>1. /\ n.stack_vars = m.stack_vars
        /\ Issued(n) = Issued(m) \cup {m.id_counter}
        /\ m.id_counter \notin Issued(m)
        /\ DOMAIN n.active_mem = DOMAIN m.active_mem \cup {m.id_counter}
        /\ \A b \in DOMAIN m.active_mem :
             b # m.id_counter => n.active_mem[b] = m.active_mem[b]
    BY BlockEffect
  <1> HIDE DEF n
  <1>2. Owned(n)
    BY <1>1 DEF Owned
  <1> QED
    BY <1>2 DEF n

(* A variable that gets an issued block of type STACK which no other       *)
(* variable has.                                                           *)
LEMMA VarOwned ==
  ASSUME NEW m, MemTypeOK(m), Owned(m), Len(m.stack_vars) > 0,
         NEW name, NEW b \in Issued(m),
         b \in DOMAIN m.active_mem => m.active_mem[b].memtype = "STACK",
         \A f \in DOMAIN m.stack_vars : \A i \in DOMAIN m.stack_vars[f] :
           m.stack_vars[f][i].block # b
  PROVE  Owned(add_stack_var(m, name, b))
  <1> SUFFICES ASSUME m.outcome = "run"
               PROVE  Owned(add_stack_var(m, name, b))
    BY DEF add_stack_var
  <1> DEFINE n == add_stack_var(m, name, b)
             e == Len(m.stack_vars)
             v == [name |-> name, block |-> b]
             s == [m.stack_vars EXCEPT ![e] = Append(@, v)]
  <1>1. m.stack_vars \in Seq(Seq(VarType)) /\ e \in Nat /\ e \in DOMAIN m.stack_vars
    BY DEF MemTypeOK
  <1>2. e - 1 + 1 = e
    BY <1>1
  <1>3. /\ n.stack_vars = s /\ n.active_mem = m.active_mem
        /\ n.id_counter = m.id_counter
    BY <1>2 DEF add_stack_var, MemTypeOK
  <1>4. DOMAIN s = DOMAIN m.stack_vars
    OBVIOUS
  <1>5. \A f \in DOMAIN s : f # e => s[f] = m.stack_vars[f]
    OBVIOUS
  <1>6. s[e] = Append(m.stack_vars[e], v)
    BY <1>1
  <1>7. m.stack_vars[e] \in Seq(VarType)
    BY <1>1
  <1> DEFINE l == Len(m.stack_vars[e])
  <1>8. /\ DOMAIN s[e] = DOMAIN m.stack_vars[e] \cup {l + 1}
        /\ l + 1 \notin DOMAIN m.stack_vars[e]
        /\ s[e][l + 1].block = b
        /\ \A i \in DOMAIN m.stack_vars[e] : s[e][i] = m.stack_vars[e][i]
    BY <1>6, <1>7
  <1>9. \A f \in DOMAIN s : \A i \in DOMAIN s[f] :
          \/ f = e /\ i = l + 1 /\ s[f][i].block = b
          \/ i \in DOMAIN m.stack_vars[f] /\ s[f][i] = m.stack_vars[f][i]
    BY <1>5, <1>8
  <1>10. Issued(n) = Issued(m)
    BY <1>3 DEF Issued
  <1> HIDE DEF n, s, l, e
  <1>11. Owned(n)
    <2>1. DOMAIN n.active_mem \subseteq Issued(n)
      BY <1>3, <1>10 DEF Owned
    <2>2. ASSUME NEW f \in DOMAIN s, NEW i \in DOMAIN s[f]
          PROVE  /\ s[f][i].block \in Issued(m)
                 /\ s[f][i].block \in DOMAIN m.active_mem =>
                      m.active_mem[s[f][i].block].memtype = "STACK"
      BY <1>4, <1>9 DEF Owned
    <2>3. ASSUME NEW f \in DOMAIN s, NEW g \in DOMAIN s,
                 NEW i \in DOMAIN s[f], NEW j \in DOMAIN s[g],
                 s[f][i].block = s[g][j].block
          PROVE  f = g /\ i = j
      BY <1>4, <1>9, <2>3 DEF Owned
    <2> QED
      BY <1>3, <1>10, <2>1, <2>2, <2>3 DEF Owned
  <1> QED
    BY <1>11 DEF n

(* A frame without variables.                                              *)
LEMMA FrameOwned ==
  ASSUME NEW m, MemTypeOK(m), Owned(m)
  PROVE  Owned(add_stack_frame(m))
  <1> SUFFICES ASSUME m.outcome = "run" PROVE Owned(add_stack_frame(m))
    BY DEF add_stack_frame
  <1> DEFINE n == add_stack_frame(m)
             s == Append(m.stack_vars, <<>>)
  <1>1. n.stack_vars = s /\ n.active_mem = m.active_mem /\ n.id_counter = m.id_counter
    BY DEF add_stack_frame, MemTypeOK
  <1>2. m.stack_vars \in Seq(Seq(VarType))
    BY DEF MemTypeOK
  <1>3. \A f \in DOMAIN s : \A i \in DOMAIN s[f] :
          f \in DOMAIN m.stack_vars /\ s[f] = m.stack_vars[f]
    BY <1>2
  <1>4. Issued(n) = Issued(m)
    BY <1>1 DEF Issued
  <1> HIDE DEF n, s
  <1>5. Owned(n)
    BY <1>1, <1>3, <1>4 DEF Owned
  <1> QED
    BY <1>5 DEF n

(* Deleting a block takes nothing from the others.                         *)
LEMMA DeleteOwned ==
  ASSUME NEW m, MemTypeOK(m), Owned(m), NEW b, delete_block(m, b).outcome = "run"
  PROVE  Owned(delete_block(m, b))
  <1> DEFINE n == delete_block(m, b)
             a == [c \in DOMAIN m.active_mem \ {b} |-> m.active_mem[c]]
  <1>1. m.outcome = "run"
    BY DEF delete_block
  <1>2. n = [m EXCEPT !.active_mem = a]
    BY <1>1 DEF delete_block, End, MemTypeOK
  <1>3. n.active_mem = a /\ n.stack_vars = m.stack_vars /\ n.id_counter = m.id_counter
    BY <1>2 DEF MemTypeOK
  <1>4. Issued(n) = Issued(m)
    BY <1>3 DEF Issued
  <1>5. DOMAIN a \subseteq DOMAIN m.active_mem /\ \A c \in DOMAIN a : a[c] = m.active_mem[c]
    OBVIOUS
  <1> HIDE DEF n, a
  <1>6. Owned(n)
    BY <1>3, <1>4, <1>5 DEF Owned
  <1> QED
    BY <1>6 DEF n

(* Leaving a scope: none of its blocks had expired before, and the blocks  *)
(* that expire belong to no variable of the frames that stay.              *)
LEMMA PopNotExpired ==
  ASSUME NEW m, MemTypeOK(m), Owned(m), m.outcome = "run", Len(m.stack_vars) > 0
  PROVE  /\ \A b \in TopBlocks(m) :
              b \in DOMAIN m.active_mem => m.active_mem[b].memtype = "STACK"
         /\ LET n == pop_stack_frame(m)
            IN IF TopBlocks(m) \subseteq DOMAIN m.active_mem
               THEN /\ n.outcome = "run"
                    /\ n.id_counter = m.id_counter
                    /\ n.stack_vars = SubSeq(m.stack_vars, 1, Len(m.stack_vars) - 1)
                    /\ n.active_mem = [c \in DOMAIN m.active_mem |->
                         IF c \in TopBlocks(m) THEN Freed(m.active_mem[c])
                         ELSE m.active_mem[c]]
               ELSE /\ n.outcome = "ub_deleted"
                    /\ n.id_counter = m.id_counter
                    /\ n.active_mem = m.active_mem
  <1> DEFINE p == [m EXCEPT !.stack_vars = SubSeq(@, 1, Len(@) - 1),
                            !.stack_var_map = Unindexed(m)]
             n == pop_stack_frame(m)
             T == TopBlocks(m)
  <1>1. ASSUME NEW b \in TopBlocks(m), b \in DOMAIN m.active_mem
        PROVE  m.active_mem[b].memtype = "STACK"
    <2>1. Len(m.stack_vars) \in DOMAIN m.stack_vars
      BY DEF MemTypeOK
    <2> QED
      BY <1>1, <2>1 DEF TopBlocks, Top, Owned
  <1>2. /\ DOMAIN p = DOMAIN m
        /\ p.active_mem = m.active_mem /\ p.id_counter = m.id_counter
        /\ p.stack_vars = SubSeq(m.stack_vars, 1, Len(m.stack_vars) - 1)
        /\ p.outcome = "run"
    BY DEF MemTypeOK
  <1>3. n = free_blocks(p, T)
    BY DEF pop_stack_frame
  <1>4. \A b \in T : b \in DOMAIN m.active_mem => m.active_mem[b].memtype # "FREED"
    BY <1>1
  <1> HIDE DEF p, T, n
  <1>5. CASE T \subseteq DOMAIN m.active_mem
    <2> DEFINE a == [c \in DOMAIN m.active_mem |->
                       IF c \in T THEN Freed(m.active_mem[c]) ELSE m.active_mem[c]]
    <2>1. n = [p EXCEPT !.active_mem = a]
      BY <1>2, <1>3, <1>4, <1>5 DEF free_blocks
    <2> HIDE DEF a
    <2>2. n.active_mem = a /\ n.id_counter = p.id_counter
            /\ n.stack_vars = p.stack_vars /\ n.outcome = p.outcome
      BY <1>2, <2>1 DEF MemTypeOK
    <2> QED
      BY <1>1, <1>2, <1>5, <2>2 DEF a, n, T
  <1>6. CASE ~(T \subseteq DOMAIN m.active_mem)
    <2>1. n = End(p, "ub_deleted")
      BY <1>2, <1>3, <1>6 DEF free_blocks
    <2>2. n.active_mem = m.active_mem /\ n.id_counter = m.id_counter
            /\ n.outcome = "ub_deleted"
      BY <1>2, <2>1 DEF MemTypeOK, End
    <2> QED
      BY <1>1, <1>6, <2>2 DEF n, T
  <1> QED
    BY <1>5, <1>6

(* pop_stack_frame deletes exactly the blocks of the frame it drops.       *)
LEMMA PopOwned ==
  ASSUME NEW m, MemTypeOK(m), Owned(m), m.outcome = "run", Len(m.stack_vars) > 0,
         TopBlocks(m) \subseteq DOMAIN m.active_mem
  PROVE  Owned(pop_stack_frame(m))
  <1> DEFINE n == pop_stack_frame(m)
             e == Len(m.stack_vars)
             s == SubSeq(m.stack_vars, 1, e - 1)
  <1>1. /\ n.id_counter = m.id_counter
        /\ n.stack_vars = s
        /\ n.active_mem = [c \in DOMAIN m.active_mem |->
             IF c \in TopBlocks(m) THEN Freed(m.active_mem[c]) ELSE m.active_mem[c]]
    BY PopNotExpired
  <1>2. m.stack_vars \in Seq(Seq(VarType)) /\ e \in Nat /\ e \in DOMAIN m.stack_vars
    BY DEF MemTypeOK
  <1>3. /\ DOMAIN s \subseteq DOMAIN m.stack_vars
        /\ e \notin DOMAIN s
        /\ \A f \in DOMAIN s : s[f] = m.stack_vars[f]
    BY <1>2
  <1>4. \A f \in DOMAIN s : \A i \in DOMAIN s[f] : s[f][i].block \notin TopBlocks(m)
    <2> SUFFICES ASSUME NEW f \in DOMAIN s, NEW i \in DOMAIN s[f],
                        s[f][i].block \in TopBlocks(m)
                 PROVE  FALSE
      OBVIOUS
    <2>1. PICK j \in DOMAIN m.stack_vars[e] : s[f][i].block = m.stack_vars[e][j].block
      BY DEF TopBlocks, Top
    <2> HIDE DEF s, e
    <2>2. /\ f \in DOMAIN m.stack_vars /\ i \in DOMAIN m.stack_vars[f]
          /\ m.stack_vars[f][i].block = m.stack_vars[e][j].block
      BY <1>3, <2>1
    <2>3. f = e
      BY <1>2, <2>2 DEF Owned
    <2> QED
      BY <1>3, <2>3
  <1>5. Issued(n) = Issued(m)
    BY <1>1 DEF Issued
  <1> HIDE DEF n, s, e
  <1>6. Owned(n)
    <2>1. DOMAIN n.active_mem \subseteq Issued(n)
      BY <1>1, <1>5 DEF Owned
    <2>2. ASSUME NEW f \in DOMAIN s, NEW i \in DOMAIN s[f]
          PROVE  /\ s[f][i].block \in Issued(n)
                 /\ s[f][i].block \in DOMAIN n.active_mem =>
                      n.active_mem[s[f][i].block].memtype = "STACK"
      BY <1>1, <1>3, <1>4, <1>5 DEF Owned
    <2>3. ASSUME NEW f \in DOMAIN s, NEW g \in DOMAIN s,
                 NEW i \in DOMAIN s[f], NEW j \in DOMAIN s[g],
                 s[f][i].block = s[g][j].block
          PROVE  f = g /\ i = j
      BY <1>3, <2>3 DEF Owned
    <2> QED
      BY <1>1, <2>1, <2>2, <2>3 DEF Owned
  <1> QED
    BY <1>6 DEF n

(* When the constructor has run out of ids it exits, and changes nothing   *)
(* else.                                                                   *)
LEMMA BlockExits ==
  ASSUME NEW m, MemTypeOK(m), m.outcome = "run", m.id_counter = 0, NEW t, NEW d
  PROVE  mem_block(m, t, d) = End(m, "exit") /\ End(m, "exit").outcome = "exit"
  BY DEF mem_block, new_block_id, End, MemTypeOK

(* The state after a declaration.                                          *)
LEMMA DeclareEffect ==
  ASSUME NEW m, MemTypeOK(m), CounterOK(m), Owned(m), m.outcome = "run",
         Len(m.stack_vars) > 0, m.id_counter # 0, NEW name \in Names
  PROVE  LET k == mem_block(m, "STACK", <<>>)
             n == add_stack_var(k, name, m.id_counter)
         IN /\ Owned(n)
            /\ CounterOK(n)
            /\ n.id_counter = k.id_counter
            /\ n.active_mem = k.active_mem
  <1> DEFINE k == mem_block(m, "STACK", <<>>)
             n == add_stack_var(k, name, m.id_counter)
  <1>1. /\ k.outcome = "run"
        /\ k.stack_vars = m.stack_vars
        /\ CounterOK(k)
        /\ Issued(k) = Issued(m) \cup {m.id_counter}
        /\ m.id_counter \notin Issued(m)
        /\ k.active_mem[m.id_counter].memtype = "STACK"
    BY BlockEffect
  <1>2. MemTypeOK(k) /\ Owned(k)
    BY BlockType, BlockOwned DEF mem_type_t
  <1>3. \A f \in DOMAIN m.stack_vars : \A i \in DOMAIN m.stack_vars[f] :
          m.stack_vars[f][i].block # m.id_counter
    BY <1>1 DEF Owned
  <1> HIDE DEF k
  <1>4. Owned(n)
    BY <1>1, <1>2, <1>3, VarOwned
  <1>5. n.id_counter = k.id_counter /\ n.active_mem = k.active_mem
    BY <1>1, <1>2 DEF add_stack_var, MemTypeOK
  <1> HIDE DEF n
  <1>6. CounterOK(n)
    BY <1>1, <1>5 DEF CounterOK
  <1> QED
    BY <1>4, <1>5, <1>6 DEF n, k

(* add_stack_var after an exit changes nothing.                            *)
LEMMA DeclareExits ==
  ASSUME NEW m, MemTypeOK(m), m.outcome = "run", m.id_counter = 0, NEW name, NEW b
  PROVE  add_stack_var(mem_block(m, "STACK", <<>>), name, b) = End(m, "exit")
  BY BlockExits DEF add_stack_var

(* Ending the program touches neither the counter nor the blocks.          *)
LEMMA EndCounter ==
  ASSUME NEW m, MemTypeOK(m), NEW how
  PROVE  /\ End(m, how).outcome = how
         /\ End(m, how).id_counter = m.id_counter
         /\ End(m, how).active_mem = m.active_mem
  BY DEF End, MemTypeOK

(* The strengthened invariant: types, the counter, and ownership.          *)
THEOREM IInvHolds == Spec => []IInv
  <1>1. Init => CounterOK(mem) /\ InScopeBlocksLive
    <2> SUFFICES ASSUME Init PROVE CounterOK(mem) /\ InScopeBlocksLive
      OBVIOUS
    <2>1. mem.id_counter = 3 + NumGlobals /\ NumGlobals \in Nat
      BY IdSpaceAssumption DEF Init, Start, BLOCK_ID_START
    <2>2. DOMAIN mem.active_mem = 3 .. (3 + NumGlobals - 1)
      BY DEF Init, Start, BLOCK_ID_START
    <2>3. Issued(mem) = 3 .. (3 + NumGlobals - 1)
      BY <2>1 DEF Issued, BLOCK_ID_START
    <2>4. Positions(mem) = {}
      BY DEF Positions, Init, Start
    <2> QED
      BY <2>1, <2>2, <2>3, <2>4
      DEF CounterOK, BLOCK_ID_START, InScopeBlocksLive, OwnershipOK
  <1>2. TypeOK /\ TypeOK' /\ CounterOK(mem) /\ InScopeBlocksLive /\ [Next]_mem
          => CounterOK(mem)' /\ InScopeBlocksLive'
    <2> SUFFICES ASSUME TypeOK, TypeOK', CounterOK(mem), InScopeBlocksLive, [Next]_mem
                 PROVE  CounterOK(mem') /\ (mem'.outcome = "run" => Owned(mem'))
      BY OwnedIsOwnership DEF InScopeBlocksLive, TypeOK
    <2>0. MemTypeOK(mem) /\ MemTypeOK(mem')
      BY DEF TypeOK
    <2>1. mem.outcome = "run" => Owned(mem)
      BY <2>0, OwnedIsOwnership DEF InScopeBlocksLive
    <2>2. InBody => Len(mem.stack_vars) > 0 /\ mem.outcome = "run"
      BY <2>0 DEF InBody, MemTypeOK
    <2>3. CASE EnterScope
      <3>1. mem'.id_counter = mem.id_counter
        BY <2>0, <2>3 DEF EnterScope, add_stack_frame, MemTypeOK
      <3> QED
        BY <2>0, <2>1, <2>3, <3>1, FrameOwned DEF EnterScope, CounterOK
    <2>4. CASE LeaveScope
      <3>1. mem'.id_counter = mem.id_counter
        BY <2>0, <2>1, <2>2, <2>4, PopNotExpired DEF LeaveScope
      <3>2. mem'.outcome = "run" => TopBlocks(mem) \subseteq DOMAIN mem.active_mem
        BY <2>0, <2>1, <2>2, <2>4, PopNotExpired DEF LeaveScope
      <3>3. mem'.outcome = "run" => Owned(mem')
        BY <2>0, <2>1, <2>2, <2>4, <3>2, PopOwned DEF LeaveScope
      <3> QED
        BY <3>1, <3>3 DEF CounterOK
    <2>5. ASSUME NEW name \in Names, Declare(name)
          PROVE  CounterOK(mem') /\ (mem'.outcome = "run" => Owned(mem'))
      <3>1. CASE mem.id_counter = 0
        BY <2>0, <2>2, <2>5, <3>1, DeclareExits, EndCounter DEF Declare, CounterOK
      <3>2. CASE mem.id_counter # 0
        BY <2>0, <2>1, <2>2, <2>5, <3>2, DeclareEffect DEF Declare
      <3> QED
        BY <3>1, <3>2
    <2>6. ASSUME NEW t \in {"HEAP", "STATIC", "STACK"}, Allocate(t)
          PROVE  CounterOK(mem') /\ (mem'.outcome = "run" => Owned(mem'))
      <3>1. CASE mem.id_counter = 0
        BY <2>0, <2>2, <2>6, <3>1, BlockExits, EndCounter DEF Allocate, CounterOK
      <3>2. CASE mem.id_counter # 0
        BY <2>0, <2>1, <2>2, <2>6, <3>2, BlockEffect, BlockOwned DEF Allocate
      <3> QED
        BY <3>1, <3>2
    <2>7. ASSUME NEW b \in block_id_t, Release(b)
          PROVE  CounterOK(mem') /\ (mem'.outcome = "run" => Owned(mem'))
      <3>1. mem'.id_counter = mem.id_counter
        BY <2>0, <2>7 DEF Release, delete_block, End, MemTypeOK
      <3> QED
        BY <2>0, <2>1, <2>2, <2>7, <3>1, DeleteOwned DEF Release, CounterOK
    <2>8. CASE UNCHANGED mem
      BY <2>1, <2>8
    <2> QED
      BY <2>3, <2>4, <2>5, <2>6, <2>7, <2>8 DEF Next
  <1> QED
    BY <1>1, <1>2, TypeCorrect, PTL DEF Spec, IInv

(* The blocks of the variables in scope stay theirs and stay alive, in     *)
(* every program, however deep its scopes and however many its blocks.     *)
THEOREM ScopesOwnTheirBlocks == Spec => []InScopeBlocksLive
  BY IInvHolds, PTL DEF IInv

(* Scope exit never touches deleted data: pop_stack_frame frees the block  *)
(* of a variable once, and fails only if free() has deleted the block.     *)
THEOREM ScopeExitSafe == Spec => ScopeExitFreesOnce
  <1>1. IInv => (LeaveScope => mem'.outcome # "ub_expired" /\
                   (mem'.outcome = "ub_deleted" => ~(TopBlocks(mem) \subseteq DOMAIN mem.active_mem)))
    <2> SUFFICES ASSUME IInv, LeaveScope
                 PROVE  mem'.outcome # "ub_expired" /\
                   (mem'.outcome = "ub_deleted" => ~(TopBlocks(mem) \subseteq DOMAIN mem.active_mem))
      OBVIOUS
    <2>1. MemTypeOK(mem) /\ mem.outcome = "run" /\ Len(mem.stack_vars) > 0
      BY DEF IInv, TypeOK, LeaveScope, InBody, MemTypeOK
    <2>2. Owned(mem)
      BY <2>1, OwnedIsOwnership DEF IInv, InScopeBlocksLive
    <2> QED
      BY <2>1, <2>2, PopNotExpired DEF LeaveScope
  <1> QED
    BY <1>1, IInvHolds, PTL DEF ScopeExitFreesOnce

(***************************************************************************)
(* Ids are never reused.                                                   *)
(***************************************************************************)

(* What NoResurrection says of a step from m to n.                         *)
Keeps(m, n) ==
  \A b \in Issued(m) :
    /\ b \in Issued(n)
    /\ b \notin DOMAIN m.active_mem => b \notin DOMAIN n.active_mem
    /\ (b \in DOMAIN m.active_mem /\ b \in DOMAIN n.active_mem) =>
         (m.active_mem[b].memtype = "FREED" => n.active_mem[b].memtype = "FREED")

(* A step that changes neither the counter nor active_mem.                 *)
LEMMA KeepsSame ==
  ASSUME NEW m, NEW n, n.id_counter = m.id_counter, n.active_mem = m.active_mem
  PROVE  Keeps(m, n)
  BY DEF Keeps, Issued

(* A new block has an id that was not issued.                              *)
LEMMA KeepsBlock ==
  ASSUME NEW m, MemTypeOK(m), CounterOK(m), m.outcome = "run", NEW t, NEW d
  PROVE  Keeps(m, mem_block(m, t, d))
  <1>1. CASE m.id_counter = 0
    BY <1>1, BlockExits, EndCounter, KeepsSame
  <1>2. CASE m.id_counter # 0
    <2> DEFINE n == mem_block(m, t, d)
    <2>1. /\ Issued(n) = Issued(m) \cup {m.id_counter}
          /\ m.id_counter \notin Issued(m)
          /\ DOMAIN n.active_mem = DOMAIN m.active_mem \cup {m.id_counter}
          /\ \A b \in DOMAIN m.active_mem :
               b # m.id_counter => n.active_mem[b] = m.active_mem[b]
      BY <1>2, BlockEffect
    <2> HIDE DEF n
    <2>2. Keeps(m, n)
      BY <2>1 DEF Keeps
    <2> QED
      BY <2>2 DEF n
  <1> QED
    BY <1>1, <1>2

(* A pointer that was stored can never come to mean another block: the id  *)
(* of a deleted block stays unused and an expired block stays expired, for *)
(* any size of the id space and also after the counter has wrapped.        *)
THEOREM IdsNeverReused == Spec => NoResurrection
  <1>1. IInv /\ [Next]_mem => Keeps(mem, mem')
    <2> SUFFICES ASSUME IInv, [Next]_mem PROVE Keeps(mem, mem')
      OBVIOUS
    <2>0. MemTypeOK(mem) /\ CounterOK(mem)
      BY DEF IInv, TypeOK
    <2>1. mem.outcome = "run" => Owned(mem)
      BY <2>0, OwnedIsOwnership DEF IInv, InScopeBlocksLive
    <2>2. InBody => Len(mem.stack_vars) > 0 /\ mem.outcome = "run"
      BY <2>0 DEF InBody, MemTypeOK
    <2>3. CASE EnterScope
      <3>1. mem'.id_counter = mem.id_counter /\ mem'.active_mem = mem.active_mem
        BY <2>0, <2>3 DEF EnterScope, add_stack_frame, MemTypeOK
      <3> QED
        BY <3>1, KeepsSame
    <2>4. CASE LeaveScope
      <3> DEFINE T == TopBlocks(mem)
      <3>1. CASE T \subseteq DOMAIN mem.active_mem
        <4>1. /\ mem'.id_counter = mem.id_counter
              /\ mem'.active_mem = [c \in DOMAIN mem.active_mem |->
                   IF c \in T THEN Freed(mem.active_mem[c]) ELSE mem.active_mem[c]]
          BY <2>0, <2>1, <2>2, <2>4, <3>1, PopNotExpired DEF LeaveScope
        <4> HIDE DEF T
        <4>2. Issued(mem') = Issued(mem)
          BY <4>1 DEF Issued
        <4> QED
          BY <4>1, <4>2 DEF Keeps, Freed
      <3>2. CASE ~(T \subseteq DOMAIN mem.active_mem)
        <4>1. mem'.id_counter = mem.id_counter /\ mem'.active_mem = mem.active_mem
          BY <2>0, <2>1, <2>2, <2>4, <3>2, PopNotExpired DEF LeaveScope
        <4> QED
          BY <4>1, KeepsSame
      <3> QED
        BY <3>1, <3>2
    <2>5. ASSUME NEW name \in Names, Declare(name)
          PROVE  Keeps(mem, mem')
      <3> DEFINE k == mem_block(mem, "STACK", <<>>)
      <3>1. CASE mem.id_counter = 0
        BY <2>0, <2>2, <2>5, <3>1, DeclareExits, EndCounter, KeepsSame DEF Declare
      <3>2. CASE mem.id_counter # 0
        <4>1. mem'.id_counter = k.id_counter /\ mem'.active_mem = k.active_mem
          BY <2>0, <2>1, <2>2, <2>5, <3>2, DeclareEffect DEF Declare
        <4>2. Keeps(mem, k)
          BY <2>0, <2>2, <2>5, KeepsBlock DEF Declare
        <4> HIDE DEF k
        <4> QED
          BY <4>1, <4>2 DEF Keeps, Issued
      <3> QED
        BY <3>1, <3>2
    <2>6. ASSUME NEW t \in {"HEAP", "STATIC", "STACK"}, Allocate(t)
          PROVE  Keeps(mem, mem')
      BY <2>0, <2>2, <2>6, KeepsBlock DEF Allocate
    <2>7. ASSUME NEW b \in block_id_t, Release(b)
          PROVE  Keeps(mem, mem')
      <3> DEFINE a == [c \in DOMAIN mem.active_mem \ {b} |-> mem.active_mem[c]]
      <3>1. mem'.id_counter = mem.id_counter /\ mem'.active_mem \in {mem.active_mem, a}
        BY <2>0, <2>7 DEF Release, delete_block, End, MemTypeOK
      <3>2. Issued(mem') = Issued(mem)
        BY <3>1 DEF Issued
      <3> QED
        BY <3>1, <3>2 DEF Keeps
    <2>8. CASE UNCHANGED mem
      BY <2>8, KeepsSame
    <2> QED
      BY <2>3, <2>4, <2>5, <2>6, <2>7, <2>8 DEF Next
  <1>2. Keeps(mem, mem') =>
          [\A b \in Issued(mem) :
             /\ b \in Issued(mem')
             /\ b \notin DOMAIN mem.active_mem => b \notin DOMAIN mem'.active_mem
             /\ (b \in DOMAIN mem.active_mem /\ b \in DOMAIN mem'.active_mem) =>
                  (mem.active_mem[b].memtype = "FREED" => mem'.active_mem[b].memtype = "FREED")]_mem
    BY DEF Keeps
  <1> QED
    BY <1>1, <1>2, IInvHolds, PTL DEF Spec, NoResurrection

=============================================================================
