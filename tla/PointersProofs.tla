--------------------------- MODULE PointersProofs ---------------------------
(***************************************************************************)
(* Proofs about Pointers for every set of names and globals, every size of *)
(* the id space and every program: what is stored is well typed, a stored  *)
(* pointer is never forged, and each kind of undefined behaviour needs the *)
(* misuse that the action properties name.                                 *)
(***************************************************************************)
EXTENDS Pointers, IndexProofs

(***************************************************************************)
(* The inductive invariant.  To the memory subsystem's own invariant it    *)
(* adds what the blocks hold: cells, as many as the block is large, in     *)
(* which a pointer names the null id or an id that was issued.             *)
(***************************************************************************)
CellOK(m, c) ==
  c \in Cell /\ (c.tag = "PTR" => c.id \in Issued(m) \cup {BLOCK_ID_NULL})

BlockOK(blk) ==
  /\ DOMAIN blk = {"memtype", "size", "data"}
  /\ blk.data \in Seq(Cell)
  /\ blk.memtype = "FREED" \/ Len(blk.data) = blk.size

DataOK(m) ==
  \A b \in DOMAIN m.active_mem :
    /\ BlockOK(m.active_mem[b])
    /\ \A i \in DOMAIN m.active_mem[b].data : CellOK(m, m.active_mem[b].data[i])

GlobalsIssued(m) == BLOCK_ID_START .. (BLOCK_ID_START + NumGlobals - 1) \subseteq Issued(m)

Good(m) ==
  /\ MemTypeOK(m) /\ CounterOK(m)
  /\ Indexed(m) /\ Owned(m) /\ Len(m.stack_vars) > 0
  /\ DataOK(m) /\ GlobalsIssued(m)

PInv == Good(mem)

(* Ids that have been issued stay issued, so that cells stay good.         *)
LEMMA CellsStayOK ==
  ASSUME NEW m, NEW n, Issued(m) \subseteq Issued(n), NEW c, CellOK(m, c)
  PROVE  CellOK(n, c)
  BY DEF CellOK

(* An id that was handed out is neither the null nor the wild id.          *)
LEMMA IssuedRange ==
  ASSUME NEW m, MemTypeOK(m), CounterOK(m), NEW b \in Issued(m)
  PROVE  b \in block_id_t /\ b >= BLOCK_ID_START /\ b # Null /\ b # Wild
  <1>1. m.id_counter \in block_id_t /\ IdSpace \in Nat
    BY IdSpaceAssumption DEF MemTypeOK
  <1>2. b \in Nat /\ b >= 3 /\ b <= IdSpace - 1
    BY <1>1 DEF Issued, block_id_t, BLOCK_ID_START, CounterOK
  <1> QED
    BY <1>1, <1>2 DEF block_id_t, BLOCK_ID_START, Null, Wild

(***************************************************************************)
(* The operations of the memory subsystem keep the invariant.              *)
(***************************************************************************)

(* How the run ends is no part of it.                                      *)
LEMMA EndGood ==
  ASSUME NEW m, Good(m), NEW how \in Outcomes
  PROVE  Good(End(m, how))
  <1> DEFINE n == End(m, how)
  <1>1. MemTypeOK(m)
    BY DEF Good
  <1>2. MemTypeOK(n)
    BY <1>1, EndType
  <1>3. /\ n.id_counter = m.id_counter /\ n.active_mem = m.active_mem
        /\ n.stack_vars = m.stack_vars /\ n.stack_var_map = m.stack_var_map
    BY <1>1 DEF End, MemTypeOK
  <1> HIDE DEF n
  <1>4. Issued(n) = Issued(m)
    BY <1>3 DEF Issued
  <1>5. Indexed(n)
    BY <1>3, SameIndexed DEF Good
  <1>6. Owned(n)
    BY <1>3, <1>4 DEF Good, Owned
  <1>7. DataOK(n)
    BY <1>3, <1>4 DEF Good, DataOK, CellOK
  <1>8. Good(n)
    BY <1>2, <1>3, <1>4, <1>5, <1>6, <1>7 DEF Good, CounterOK, GlobalsIssued
  <1> QED
    BY <1>8 DEF n

(* A new block with good contents.                                         *)
LEMMA BlockGood ==
  ASSUME NEW m, Good(m), NEW t \in mem_type_t, NEW d \in Seq(Cell),
         \A i \in DOMAIN d : CellOK(m, d[i])
  PROVE  /\ Good(mem_block(m, t, d))
         /\ Issued(m) \subseteq Issued(mem_block(m, t, d))
         /\ mem_block(m, t, d).stack_vars = m.stack_vars
         /\ mem_block(m, t, d).stack_var_map = m.stack_var_map
  <1> DEFINE n == mem_block(m, t, d)
  <1>0. MemTypeOK(m) /\ CounterOK(m) /\ Indexed(m) /\ Owned(m) /\ Len(m.stack_vars) > 0
    BY DEF Good
  <1>1. n.stack_vars = m.stack_vars /\ n.stack_var_map = m.stack_var_map
    BY <1>0, BlockSameStack
  <1>2. CASE m.outcome # "run"
    BY <1>1, <1>2 DEF mem_block
  <1>3. CASE m.outcome = "run" /\ m.id_counter = 0
    <2>1. n = End(m, "exit")
      BY <1>0, <1>3, BlockExits
    <2>2. Issued(n) = Issued(m)
      BY <1>0, <2>1 DEF Issued, End, MemTypeOK
    <2> QED
      BY <1>1, <2>1, <2>2, EndGood DEF Outcomes
  <1>4. CASE m.outcome = "run" /\ m.id_counter # 0
    <2> DEFINE c == m.id_counter
               blk == [memtype |-> t, size |-> Len(d), data |-> d]
    <2>1. /\ CounterOK(n)
          /\ Issued(n) = Issued(m) \cup {c}
          /\ c \notin Issued(m)
          /\ DOMAIN n.active_mem = DOMAIN m.active_mem \cup {c}
          /\ \A b \in DOMAIN m.active_mem : b # c => n.active_mem[b] = m.active_mem[b]
      BY <1>0, <1>4, BlockEffect
    <2>2. n.active_mem[c] = blk
      BY <1>0, <1>4 DEF mem_block, new_block_id, Enters, MemTypeOK
    <2>3. MemTypeOK(n)
      BY <1>0, BlockType, LenProperties
    <2>4. Owned(n)
      BY <1>0, <1>4, BlockOwned
    <2>5. Indexed(n)
      BY <1>0, <1>1, SameIndexed
    <2> HIDE DEF n, c
    <2>6. BlockOK(blk)
      BY DEF BlockOK
    <2>7. \A e : CellOK(m, e) => CellOK(n, e)
      BY <2>1, CellsStayOK
    <2>8. DataOK(n)
      <3> SUFFICES ASSUME NEW b \in DOMAIN n.active_mem
                   PROVE  /\ BlockOK(n.active_mem[b])
                          /\ \A i \in DOMAIN n.active_mem[b].data :
                               CellOK(n, n.active_mem[b].data[i])
        BY DEF DataOK
      <3>1. CASE b = c
        BY <2>2, <2>6, <2>7, <3>1
      <3>2. CASE b # c
        BY <2>1, <2>7, <3>2 DEF Good, DataOK
      <3> QED
        BY <3>1, <3>2
    <2>9. GlobalsIssued(n)
      BY <2>1 DEF Good, GlobalsIssued
    <2>10. Good(n) /\ Issued(m) \subseteq Issued(n)
      BY <1>0, <1>1, <2>1, <2>3, <2>4, <2>5, <2>8, <2>9 DEF Good
    <2> QED
      BY <1>1, <2>10 DEF n
  <1> QED
    BY <1>2, <1>3, <1>4

(* A new frame.                                                            *)
LEMMA FrameGood ==
  ASSUME NEW m, Good(m)
  PROVE  Good(add_stack_frame(m)) /\ Issued(add_stack_frame(m)) = Issued(m)
  <1> DEFINE n == add_stack_frame(m)
  <1>1. MemTypeOK(m) /\ Indexed(m) /\ Owned(m) /\ Len(m.stack_vars) > 0
    BY DEF Good
  <1>2. CASE m.outcome # "run"
    BY <1>2 DEF add_stack_frame
  <1>3. CASE m.outcome = "run"
    <2>1. MemTypeOK(n) /\ Indexed(n) /\ Owned(n)
      BY <1>1, <1>3, FrameType, FrameIndexed, FrameOwned
    <2>2. /\ n.id_counter = m.id_counter /\ n.active_mem = m.active_mem
          /\ n.stack_vars = Append(m.stack_vars, <<>>)
      BY <1>1, <1>3 DEF add_stack_frame, MemTypeOK
    <2> HIDE DEF n
    <2>3. Len(n.stack_vars) > 0
      BY <1>1, <2>2 DEF MemTypeOK
    <2>4. Issued(n) = Issued(m)
      BY <2>2 DEF Issued
    <2>5. DataOK(n)
      BY <2>2, <2>4 DEF Good, DataOK, CellOK
    <2>6. Good(n)
      BY <2>1, <2>2, <2>3, <2>4, <2>5 DEF Good, CounterOK, GlobalsIssued
    <2> QED
      BY <2>4, <2>6 DEF n
  <1> QED
    BY <1>2, <1>3

(* A new variable in a block of its own.                                   *)
LEMMA DeclareGood ==
  ASSUME NEW m, Good(m), NEW name \in Names, NEW d \in Seq(Cell),
         \A i \in DOMAIN d : CellOK(m, d[i])
  PROVE  LET n == add_stack_var(mem_block(m, "STACK", d), name, m.id_counter)
         IN /\ Good(n)
            /\ Issued(m) \subseteq Issued(n)
            /\ Len(n.stack_vars) = Len(m.stack_vars)
  <1> DEFINE k == mem_block(m, "STACK", d)
             b == m.id_counter
             n == add_stack_var(k, name, b)
  <1>0. MemTypeOK(m) /\ CounterOK(m) /\ Owned(m) /\ Len(m.stack_vars) > 0
    BY DEF Good
  <1>1. Good(k) /\ Issued(m) \subseteq Issued(k) /\ k.stack_vars = m.stack_vars
    BY BlockGood DEF mem_type_t
  <1>2. CASE k.outcome # "run"
    BY <1>1, <1>2 DEF add_stack_var
  <1>3. CASE k.outcome = "run"
    <2>1. m.outcome = "run" /\ b # 0
      <3>1. m.outcome = "run"
        BY <1>3 DEF mem_block
      <3>2. b # 0
        BY <1>0, <1>3, <3>1, BlockExits
      <3> QED
        BY <3>1, <3>2
    <2>2. /\ Issued(k) = Issued(m) \cup {b}
          /\ b \notin Issued(m)
          /\ k.active_mem[b].memtype = "STACK"
      BY <1>0, <2>1, BlockEffect
    <2> HIDE DEF k
    <2>3. MemTypeOK(k) /\ Indexed(k) /\ Owned(k) /\ Len(k.stack_vars) > 0
      BY <1>1 DEF Good
    <2>4. b \in block_id_t
      BY <1>0 DEF MemTypeOK
    <2>5. MemTypeOK(n) /\ Indexed(n)
      BY <1>3, <2>3, <2>4, VarsType, VarIndexed
    <2>6. \A f \in DOMAIN k.stack_vars : \A i \in DOMAIN k.stack_vars[f] :
            k.stack_vars[f][i].block # b
      BY <1>0, <1>1, <2>2 DEF Owned
    <2>7. Owned(n)
      BY <2>2, <2>3, <2>6, VarOwned
    <2>8. n.id_counter = k.id_counter /\ n.active_mem = k.active_mem
      BY <1>3, <2>3 DEF add_stack_var, MemTypeOK
    <2>9. Len(n.stack_vars) = Len(k.stack_vars)
      BY <1>3, <2>3 DEF add_stack_var, MemTypeOK
    <2> HIDE DEF n
    <2>10. Issued(n) = Issued(k)
      BY <2>8 DEF Issued
    <2>11. Good(n)
      BY <1>1, <2>3, <2>5, <2>7, <2>8, <2>9, <2>10
      DEF Good, CounterOK, DataOK, CellOK, GlobalsIssued
    <2> QED
      BY <1>1, <2>9, <2>10, <2>11 DEF n, k
  <1> QED
    BY <1>2, <1>3

(* Leaving a frame, whether or not its blocks can be freed.                *)
LEMMA PopGood ==
  ASSUME NEW m, Good(m), m.outcome = "run" => Len(m.stack_vars) > 1
  PROVE  Good(pop_stack_frame(m))
  <1> DEFINE n == pop_stack_frame(m)
             e == Len(m.stack_vars)
  <1>0. MemTypeOK(m) /\ CounterOK(m) /\ Indexed(m) /\ Owned(m) /\ Len(m.stack_vars) > 0
    BY DEF Good
  <1>1. CASE m.outcome # "run"
    BY <1>1 DEF pop_stack_frame
  <1>2. CASE m.outcome = "run"
    <2>1. /\ n.stack_vars = SubSeq(m.stack_vars, 1, e - 1)
          /\ n.stack_var_map = Unindexed(m)
      BY <1>0, <1>2, PopEffect
    <2>2. MemTypeOK(n) /\ Indexed(n)
      BY <1>0, <2>1, PopType, PopIndexed
    <2>3. m.stack_vars \in Seq(Seq(VarType)) /\ e \in Nat /\ e > 1
      BY <1>0, <1>2 DEF MemTypeOK
    <2>4. n.id_counter = m.id_counter
      BY <1>0, <1>2, PopNotExpired
    <2>5. Issued(n) = Issued(m)
      BY <2>4 DEF Issued
    <2>6. Len(n.stack_vars) > 0
      BY <2>1, <2>3
    <2>7. CASE TopBlocks(m) \subseteq DOMAIN m.active_mem
      <3>1. n.active_mem = [c \in DOMAIN m.active_mem |->
              IF c \in TopBlocks(m) THEN Freed(m.active_mem[c]) ELSE m.active_mem[c]]
        BY <1>0, <1>2, <2>7, PopNotExpired
      <3>2. Owned(n)
        BY <1>0, <1>2, <2>7, PopOwned
      <3> HIDE DEF n
      <3>3. \A blk : BlockOK(Freed(blk)) /\ DOMAIN Freed(blk).data = {}
        BY DEF BlockOK, Freed
      <3>4. DataOK(n)
        BY <2>5, <3>1, <3>3 DEF Good, DataOK, CellOK
      <3>5. Good(n)
        BY <1>0, <2>2, <2>4, <2>5, <2>6, <3>2, <3>4 DEF Good, CounterOK, GlobalsIssued
      <3> QED
        BY <3>5 DEF n
    <2>8. CASE ~(TopBlocks(m) \subseteq DOMAIN m.active_mem)
      <3>1. n.active_mem = m.active_mem
        BY <1>0, <1>2, <2>8, PopNotExpired
      <3> HIDE DEF n
      <3>2. \A f \in DOMAIN n.stack_vars :
              f \in DOMAIN m.stack_vars /\ n.stack_vars[f] = m.stack_vars[f]
        BY <2>1, <2>3
      <3>3. Owned(n)
        BY <1>0, <2>5, <3>1, <3>2 DEF Owned
      <3>4. DataOK(n)
        BY <2>5, <3>1 DEF Good, DataOK, CellOK
      <3>5. Good(n)
        BY <1>0, <2>2, <2>4, <2>5, <2>6, <3>3, <3>4 DEF Good, CounterOK, GlobalsIssued
      <3> QED
        BY <3>5 DEF n
    <2> QED
      BY <2>7, <2>8
  <1> QED
    BY <1>1, <1>2

(* Deleting a block.                                                       *)
LEMMA DeleteGood ==
  ASSUME NEW m, Good(m), NEW b
  PROVE  /\ Good(delete_block(m, b))
         /\ delete_block(m, b).stack_vars = m.stack_vars
  <1> DEFINE n == delete_block(m, b)
  <1>0. MemTypeOK(m) /\ CounterOK(m) /\ Indexed(m) /\ Owned(m) /\ Len(m.stack_vars) > 0
    BY DEF Good
  <1>1. n.stack_vars = m.stack_vars /\ n.stack_var_map = m.stack_var_map
    BY <1>0, DeleteSameStack
  <1>2. CASE n.outcome = "run"
    <2>1. m.outcome = "run"
      BY <1>2 DEF delete_block
    <2>2. n = [m EXCEPT !.active_mem = [c \in DOMAIN m.active_mem \ {b} |-> m.active_mem[c]]]
      BY <1>0, <1>2, <2>1 DEF delete_block, End, MemTypeOK
    <2>3. /\ n.id_counter = m.id_counter
          /\ DOMAIN n.active_mem \subseteq DOMAIN m.active_mem
          /\ \A c \in DOMAIN n.active_mem : n.active_mem[c] = m.active_mem[c]
      BY <1>0, <2>2 DEF MemTypeOK
    <2>4. MemTypeOK(n) /\ Owned(n)
      BY <1>0, <1>2, DeleteType, DeleteOwned
    <2>5. Indexed(n)
      BY <1>0, <1>1, SameIndexed
    <2> HIDE DEF n
    <2>6. Issued(n) = Issued(m)
      BY <2>3 DEF Issued
    <2>7. DataOK(n)
      BY <2>3, <2>6 DEF Good, DataOK, CellOK
    <2>8. Good(n)
      BY <1>0, <1>1, <2>3, <2>4, <2>5, <2>6, <2>7 DEF Good, CounterOK, GlobalsIssued
    <2> QED
      BY <1>1, <2>8 DEF n
  <1>3. CASE n.outcome # "run"
    <2>1. n \in {m, End(m, "ub_deleted"), End(m, "ub_expired")}
      <3>1. CASE m.outcome # "run"
        BY <3>1 DEF delete_block
      <3>2. CASE m.outcome = "run" /\ b \in DOMAIN m.active_mem /\ m.active_mem[b].memtype # "FREED"
        <4>1. n = [m EXCEPT !.active_mem = [c \in DOMAIN m.active_mem \ {b} |-> m.active_mem[c]]]
          BY <3>2 DEF delete_block
        <4>2. n.outcome = "run"
          BY <1>0, <3>2, <4>1 DEF MemTypeOK
        <4> QED
          BY <1>3, <4>2
      <3>3. CASE m.outcome = "run" /\ ~(b \in DOMAIN m.active_mem /\ m.active_mem[b].memtype # "FREED")
        BY <3>3 DEF delete_block
      <3> QED
        BY <3>1, <3>2, <3>3
    <2> QED
      BY <1>1, <2>1, EndGood DEF Outcomes
  <1> QED
    BY <1>2, <1>3

(***************************************************************************)
(* Values and stores.                                                      *)
(***************************************************************************)

(* What following a pointer says about its block.                          *)
LEMMA FollowCases ==
  ASSUME NEW m, NEW b
  PROVE  /\ Follow(m, b) \in {"run", "ub_wild", "ub_deleted"}
         /\ Follow(m, b) = "run" => b \in DOMAIN m.active_mem
         /\ Follow(m, b) = "ub_wild" => b = Wild
         /\ Follow(m, b) = "ub_deleted" => b \notin DOMAIN m.active_mem /\ b # Wild
  BY DEF Follow

(* mem_block::write stops the interpreter or stores one cell into a block  *)
(* that has room for it; what it stores of a defined pointer is the null   *)
(* id or that of a block it has followed.                                  *)
Stores(m, b, i, v, n) ==
  /\ m.outcome = "run"
  /\ b \in DOMAIN m.active_mem
  /\ i < m.active_mem[b].size
  /\ m.active_mem[b].memtype # "FREED"
  /\ v.block = Null \/ v.block \in DOMAIN m.active_mem
  /\ n = [m EXCEPT !.active_mem[b].data[i + 1] = dump_repr(v)]

Stops(m, b, v, how) ==
  /\ how \in {"exit", "ub_expired", "ub_wild", "ub_deleted"}
  /\ how = "ub_wild" => b = Wild \/ v.block = Wild
  /\ how = "ub_deleted" =>
       \/ b \notin DOMAIN m.active_mem /\ b # Wild
       \/ v.block \notin DOMAIN m.active_mem \cup {Null, Wild}

(* A write does nothing after the end, ends the program, or stores one     *)
(* value into a live block.                                                *)
LEMMA WriteCases ==
  ASSUME NEW m, Good(m), NEW b, NEW i \in Nat, NEW v, v.status = "DEFINED",
         NEW n, n = write(m, b, i, v)
  PROVE  \/ m.outcome # "run" /\ n = m
         \/ \E how \in Outcomes : Stops(m, b, v, how) /\ n = End(m, how)
         \/ Stores(m, b, i, v, n)
  <1>1. CASE m.outcome # "run"
    BY <1>1 DEF write
  <1>2. CASE m.outcome = "run" /\ Follow(m, b) # "run"
    <2>1. n = End(m, Follow(m, b))
      BY <1>2 DEF write
    <2>2. Stops(m, b, v, Follow(m, b)) /\ Follow(m, b) \in Outcomes
      BY <1>2, FollowCases DEF Stops, Outcomes
    <2> QED
      BY <2>1, <2>2
  <1>3. CASE m.outcome = "run" /\ Follow(m, b) = "run"
    <2> DEFINE blk == m.active_mem[b]
               s == [m EXCEPT !.active_mem[b].data[i + 1] = dump_repr(v)]
    <2>1. b \in DOMAIN m.active_mem
      BY <1>3, FollowCases
    <2>2. blk.size \in Nat
      BY <2>1 DEF Good, MemTypeOK
    <2>3. n = IF i > blk.size \/ blk.size - i < 1 THEN End(m, "exit")
              ELSE IF Dumps(m, v) # "run" THEN End(m, Dumps(m, v))
              ELSE IF blk.memtype = "FREED" THEN End(m, "ub_expired")
              ELSE s
      BY <1>3 DEF write
    <2>4. Dumps(m, v) = IF v.block # Null THEN Follow(m, v.block) ELSE "run"
      BY DEF Dumps
    <2> HIDE DEF blk, s
    <2>5. CASE i > blk.size \/ blk.size - i < 1
      BY <2>3, <2>5 DEF Stops, Outcomes
    <2>6. CASE ~(i > blk.size \/ blk.size - i < 1) /\ Dumps(m, v) # "run"
      <3>1. n = End(m, Dumps(m, v))
        BY <2>3, <2>6
      <3>2. Dumps(m, v) = Follow(m, v.block) /\ v.block # Null
        BY <2>4, <2>6
      <3>3. Stops(m, b, v, Follow(m, v.block)) /\ Follow(m, v.block) \in Outcomes
        BY <2>6, <3>2, FollowCases DEF Stops, Outcomes
      <3> QED
        BY <3>1, <3>2, <3>3
    <2>7. CASE /\ ~(i > blk.size \/ blk.size - i < 1) /\ Dumps(m, v) = "run"
               /\ blk.memtype = "FREED"
      BY <2>3, <2>7 DEF Stops, Outcomes
    <2>8. CASE /\ ~(i > blk.size \/ blk.size - i < 1) /\ Dumps(m, v) = "run"
               /\ blk.memtype # "FREED"
      <3>1. n = s
        BY <2>3, <2>8
      <3>2. i < blk.size
        BY <2>2, <2>8
      <3>3. v.block = Null \/ v.block \in DOMAIN m.active_mem
        BY <2>4, <2>8, FollowCases
      <3> QED
        BY <1>3, <2>1, <2>8, <3>1, <3>2, <3>3 DEF Stores, s, blk
    <2> QED
      BY <2>5, <2>6, <2>7, <2>8
  <1> QED
    BY <1>1, <1>2, <1>3

(* A store into a block.                                                   *)
LEMMA StoreGood ==
  ASSUME NEW m, Good(m), NEW b \in DOMAIN m.active_mem, NEW i \in Nat,
         i < m.active_mem[b].size, m.active_mem[b].memtype # "FREED",
         NEW c, CellOK(m, c), NEW n, n = [m EXCEPT !.active_mem[b].data[i + 1] = c]
  PROVE  Good(n)
  <1> DEFINE d == [m.active_mem[b].data EXCEPT ![i + 1] = c]
             blk == [m.active_mem[b] EXCEPT !.data = d]
             a == [m.active_mem EXCEPT ![b] = blk]
  <1>0. MemTypeOK(m) /\ CounterOK(m) /\ Indexed(m) /\ Owned(m) /\ Len(m.stack_vars) > 0
    BY DEF Good
  <1>1. n = [m EXCEPT !.active_mem = a]
    OBVIOUS
  <1>2. /\ m.active_mem[b].data \in Seq(Cell)
        /\ Len(m.active_mem[b].data) = m.active_mem[b].size
        /\ DOMAIN m.active_mem[b] = {"memtype", "size", "data"}
        /\ \A j \in DOMAIN m.active_mem[b].data : CellOK(m, m.active_mem[b].data[j])
    BY DEF Good, DataOK, BlockOK
  <1>3. m.active_mem[b].size \in Nat
    BY <1>0 DEF MemTypeOK
  <1>4. c \in Cell
    BY DEF CellOK
  <1>5. /\ d \in Seq(Cell) /\ Len(d) = Len(m.active_mem[b].data)
        /\ \A j \in DOMAIN d : CellOK(m, d[j])
    BY <1>2, <1>3, <1>4
  <1> HIDE DEF d
  <1>6. /\ DOMAIN blk = {"memtype", "size", "data"}
        /\ blk.data = d /\ blk.size = m.active_mem[b].size
        /\ blk.memtype = m.active_mem[b].memtype
    BY <1>2
  <1> HIDE DEF blk
  <1>7. /\ DOMAIN a = DOMAIN m.active_mem /\ a[b] = blk
        /\ \A x \in DOMAIN a : x # b => a[x] = m.active_mem[x]
    OBVIOUS
  <1> HIDE DEF a
  <1>8. /\ n.active_mem = a /\ n.id_counter = m.id_counter /\ DOMAIN n = DOMAIN m
        /\ n.stack_vars = m.stack_vars /\ n.stack_var_map = m.stack_var_map
        /\ n.outcome = m.outcome
    BY <1>0, <1>1 DEF MemTypeOK
  <1>9. Issued(n) = Issued(m)
    BY <1>8 DEF Issued
  <1>10. \A x \in DOMAIN a : a[x].memtype = m.active_mem[x].memtype /\ a[x].size = m.active_mem[x].size
    BY <1>6, <1>7
  <1>11. MemTypeOK(n)
    BY <1>0, <1>7, <1>8, <1>10 DEF MemTypeOK
  <1>12. Owned(n)
    <2>1. DOMAIN a \subseteq Issued(m)
      BY <1>0, <1>7 DEF Owned
    <2>2. ASSUME NEW f \in DOMAIN m.stack_vars, NEW k \in DOMAIN m.stack_vars[f]
          PROVE  LET x == m.stack_vars[f][k].block
                 IN x \in Issued(m) /\ (x \in DOMAIN a => a[x].memtype = "STACK")
      BY <1>0, <1>7, <1>10 DEF Owned
    <2>3. n.active_mem = a /\ n.stack_vars = m.stack_vars
      BY <1>8
    <2> QED
      BY <1>0, <1>9, <2>1, <2>2, <2>3 DEF Owned
  <1>13. Indexed(n)
    BY <1>0, <1>8, SameIndexed
  <1>14. DataOK(n)
    <2> SUFFICES ASSUME NEW x \in DOMAIN a
                 PROVE  BlockOK(a[x]) /\ \A j \in DOMAIN a[x].data : CellOK(m, a[x].data[j])
      <3>1. \A z : CellOK(n, z) <=> CellOK(m, z)
        BY <1>9 DEF CellOK
      <3> QED
        BY <1>8, <3>1 DEF DataOK
    <2>1. CASE x = b
      BY <1>2, <1>5, <1>6, <1>7, <2>1 DEF BlockOK
    <2>2. CASE x # b
      BY <1>7, <2>2 DEF Good, DataOK
    <2> QED
      BY <2>1, <2>2
  <1> QED
    BY <1>0, <1>8, <1>9, <1>11, <1>12, <1>13, <1>14 DEF Good, CounterOK, GlobalsIssued

(* The null id, or that of a block.                                        *)
LEMMA DumpDefined ==
  ASSUME NEW m, Good(m), NEW v, v.status = "DEFINED",
         v.block = Null \/ v.block \in DOMAIN m.active_mem
  PROVE  CellOK(m, dump_repr(v))
  <1> DEFINE id == IF v.block = Null THEN BLOCK_ID_NULL ELSE v.block
  <1>1. dump_repr(v) = [tag |-> "PTR", id |-> id]
    BY DEF dump_repr
  <1>2. v.block \in DOMAIN m.active_mem => v.block \in Issued(m)
    BY DEF Good, Owned
  <1>3. id \in Issued(m) \cup {BLOCK_ID_NULL}
    BY <1>2
  <1>4. id \in block_id_t
    <2>1. BLOCK_ID_NULL \in block_id_t
      BY IdSpaceAssumption DEF BLOCK_ID_NULL, block_id_t, BLOCK_ID_START
    <2> QED
      BY <1>3, <2>1, IssuedRange DEF Good
  <1> HIDE DEF id
  <1> QED
    BY <1>1, <1>3, <1>4 DEF CellOK, Cell, Tags

(* A write keeps the invariant, whether it stores or stops.                *)
LEMMA WriteGood ==
  ASSUME NEW m, Good(m), NEW b, NEW i \in Nat, NEW v, v.status = "DEFINED"
  PROVE  Good(write(m, b, i, v))
  <1> DEFINE n == write(m, b, i, v)
  <1>1. \/ m.outcome # "run" /\ n = m
        \/ \E how \in Outcomes : Stops(m, b, v, how) /\ n = End(m, how)
        \/ Stores(m, b, i, v, n)
    BY WriteCases
  <1> HIDE DEF n
  <1>2. ASSUME Stores(m, b, i, v, n) PROVE Good(n)
    <2>1. CellOK(m, dump_repr(v))
      BY <1>2, DumpDefined DEF Stores
    <2> QED
      BY <1>2, <2>1, StoreGood DEF Stores
  <1>3. \A how \in Outcomes : Good(End(m, how))
    BY EndGood
  <1>4. Good(n)
    BY <1>1, <1>2, <1>3
  <1> QED
    BY <1>4 DEF n

(***************************************************************************)
(* Names and loads.                                                        *)
(***************************************************************************)

(* A visible name denotes the block of a variable on the stack, or of a    *)
(* global: an issued block.                                                *)
LEMMA NameBlock ==
  ASSUME NEW m, Good(m), NEW name \in Names, IsVisible(m, name)
  PROVE  BlockOf(m, name) \in InScopeBlocks(m)
  <1>0. MemTypeOK(m) /\ Indexed(m)
    BY DEF Good
  <1>1. CASE OnStack(m, name)
    <2> DEFINE q == m.stack_var_map[name]
               p == q[Len(q)]
    <2>1. q = Listed(m, name) /\ q # <<>>
      BY <1>0, <1>1 DEF OnStack, Listed, Indexed, NoEmptyLists
    <2>2. q \in Seq(Nat \X Nat)
      BY <1>0, <2>1, ListedType
    <2>3. Len(q) \in DOMAIN q
      BY <2>1, <2>2
    <2>4. p \in Nat \X Nat
      BY <2>2, <2>3
    <2>5. Holds(m, p, name)
      BY <1>0, <2>1, <2>3 DEF Indexed, Sound
    <2>6. p \in Positions(m)
      BY <1>0, <2>4, <2>5, HoldsIsPosition
    <2>7. BlockOf(m, name) = VarAt(m, p).block
      BY <1>1 DEF BlockOf, StackBlock
    <2> HIDE DEF p
    <2> QED
      BY <2>6, <2>7 DEF InScopeBlocks
  <1>2. CASE ~OnStack(m, name)
    <2> DEFINE g == CHOOSE k \in 1 .. NumGlobals : GlobalVars[k] = name
    <2>1. \E k \in 1 .. NumGlobals : GlobalVars[k] = name
      BY <1>2 DEF IsVisible
    <2>2. g \in 1 .. NumGlobals
      BY <2>1
    <2>3. BlockOf(m, name) = BLOCK_ID_START - 1 + g
      BY <1>2 DEF BlockOf, GlobalBlock
    <2> HIDE DEF g
    <2>4. BLOCK_ID_START - 1 + g \in BLOCK_ID_START .. (BLOCK_ID_START + NumGlobals - 1)
      BY <2>2, IdSpaceAssumption DEF BLOCK_ID_START
    <2> QED
      BY <2>3, <2>4 DEF InScopeBlocks
  <1> QED
    BY <1>1, <1>2

(* Every block in scope has an id that was handed out.                     *)
LEMMA ScopeIssued ==
  ASSUME NEW m, Good(m)
  PROVE  InScopeBlocks(m) \subseteq Issued(m)
  <1>1. \A p \in Positions(m) : VarAt(m, p).block \in Issued(m)
    BY PositionOf DEF Good, Owned
  <1>2. BLOCK_ID_START .. (BLOCK_ID_START + NumGlobals - 1) \subseteq Issued(m)
    BY DEF Good, GlobalsIssued
  <1> QED
    BY <1>1, <1>2 DEF InScopeBlocks

(* A visible name never denotes the wild block.                            *)
LEMMA NameNotWild ==
  ASSUME NEW m, Good(m), NEW name \in Names, IsVisible(m, name)
  PROVE  BlockOf(m, name) # Wild
  <1>1. BlockOf(m, name) \in Issued(m)
    BY NameBlock, ScopeIssued
  <1> QED
    BY <1>1, IssuedRange DEF Good

(* How from_lvalue ends.                                                   *)
LEMMA LoadCases ==
  ASSUME NEW m, NEW b, NEW i
  PROVE  /\ LoadOutcome(m, b, i) \in Outcomes
         /\ LoadOutcome(m, b, i) = "ub_wild" => b = Wild
         /\ LoadOutcome(m, b, i) = "ub_deleted" => b \notin DOMAIN m.active_mem /\ b # Wild
  <1>1. CASE Follow(m, b) # "run"
    BY <1>1, FollowCases DEF LoadOutcome, Outcomes
  <1>2. CASE Follow(m, b) = "run"
    <2>1. LoadOutcome(m, b, i) \in {"exit", "run"}
      BY <1>2 DEF LoadOutcome
    <2> QED
      BY <2>1 DEF Outcomes
  <1> QED
    BY <1>1, <1>2

(* A load that does not stop the interpreter reads a cell of a block.      *)
LEMMA LoadsCell ==
  ASSUME NEW m, Good(m), NEW b, NEW i \in Nat, LoadOutcome(m, b, i) = "run"
  PROVE  \E c \in Cells(m) : CellOK(m, c) /\ from_lvalue(m, b, i) = EmuPtr(m, c)
  <1> DEFINE d == m.active_mem[b].data
             c == d[i + 1]
  <1>1. Follow(m, b) = "run"
    BY DEF LoadOutcome
  <1>2. b \in DOMAIN m.active_mem
    BY <1>1, FollowCases
  <1>3. /\ m.active_mem[b].memtype # "FREED" /\ ~(i > m.active_mem[b].size)
        /\ ~(m.active_mem[b].size - i < 1)
    BY <1>1 DEF LoadOutcome
  <1>4. m.active_mem[b].size \in Nat
    BY <1>2 DEF Good, MemTypeOK
  <1>5. d \in Seq(Cell) /\ Len(d) = m.active_mem[b].size
    BY <1>2, <1>3 DEF Good, DataOK, BlockOK
  <1>6. i < Len(d)
    BY <1>3, <1>4, <1>5
  <1>7. i + 1 \in DOMAIN d
    BY <1>4, <1>5, <1>6
  <1>8. c \in Cells(m)
    BY <1>2, <1>7 DEF Cells
  <1>9. CellOK(m, c)
    BY <1>2, <1>7 DEF Good, DataOK
  <1>10. from_lvalue(m, b, i) = EmuPtr(m, c)
    BY <1>6 DEF from_lvalue
  <1> HIDE DEF c
  <1> QED
    BY <1>8, <1>9, <1>10

(* The three kinds of values the constructor EmuPtr makes of a cell.       *)
LEMMA EmuPtrCases ==
  ASSUME NEW m, NEW c
  PROVE  \/ /\ EmuPtr(m, c) = Defined(c.id) /\ EmuPtr(m, c).status = "DEFINED"
            /\ EmuPtr(m, c).block = c.id
            /\ c.tag = "PTR" /\ c.id \in DOMAIN m.active_mem
         \/ /\ EmuPtr(m, c) = NotDefined("UNDEFINED", c) /\ EmuPtr(m, c).status = "UNDEFINED"
            /\ c.tag # "PTR_UNINIT" /\ (c.tag = "PTR" => c.id \notin DOMAIN m.active_mem)
         \/ /\ EmuPtr(m, c) = NotDefined("UNINITIALIZED", c)
            /\ EmuPtr(m, c).status = "UNINITIALIZED"
            /\ c.tag = "PTR_UNINIT"
  BY DEF EmuPtr, Defined, NotDefined

(* What a call stores of the value it passes is good again.                *)
LEMMA DumpGood ==
  ASSUME NEW m, Good(m), NEW c, CellOK(m, c)
  PROVE  CellOK(m, dump_repr(EmuPtr(m, c)))
  <1>1. CASE EmuPtr(m, c).status = "DEFINED"
    <2>1. EmuPtr(m, c).block \in DOMAIN m.active_mem
      BY <1>1, EmuPtrCases
    <2> QED
      BY <1>1, <2>1, DumpDefined
  <1>2. CASE EmuPtr(m, c) = NotDefined("UNDEFINED", c)
    <2>1. dump_repr(EmuPtr(m, c)) = [tag |-> c.tag, id |-> c.id]
      BY <1>2 DEF NotDefined, dump_repr
    <2>2. c = [tag |-> c.tag, id |-> c.id]
      BY DEF CellOK, Cell
    <2> QED
      BY <2>1, <2>2
  <1>3. CASE EmuPtr(m, c) = NotDefined("UNINITIALIZED", c)
    <2>1. dump_repr(EmuPtr(m, c)) = [tag |-> "PTR_UNINIT", id |-> BLOCK_ID_INVALID]
      BY <1>3 DEF NotDefined, dump_repr
    <2>2. BLOCK_ID_INVALID \in block_id_t
      BY IdSpaceAssumption DEF block_id_t, BLOCK_ID_INVALID, BLOCK_ID_START
    <2> QED
      BY <2>1, <2>2 DEF CellOK, Cell, Tags
  <1> QED
    BY <1>1, <1>2, <1>3, EmuPtrCases

(* A cast pointer is a defined value.                                      *)
LEMMA CastDefined ==
  ASSUME NEW v
  PROVE  cast_to(v).status = "DEFINED"
  BY DEF cast_to, Defined

(* One cell makes a block of good contents.                                *)
LEMMA OneCell ==
  ASSUME NEW m, NEW c, CellOK(m, c)
  PROVE  <<c>> \in Seq(Cell) /\ \A i \in DOMAIN <<c>> : CellOK(m, <<c>>[i])
  <1>1. c \in Cell
    BY DEF CellOK
  <1> QED
    BY <1>1

(***************************************************************************)
(* The call of an external function.                                       *)
(***************************************************************************)

(* A call that returns has allocated the callee's block f and the          *)
(* argument's block a, both new, and has pushed a frame with the one       *)
(* variable without a name; the rest of the memory state is as before.     *)
Entered(m, arg, c, f, a) ==
  /\ m.outcome = "run"
  /\ f \notin Issued(m) /\ a \notin Issued(m) /\ a # f
  /\ DOMAIN c.active_mem = DOMAIN m.active_mem \cup {f, a}
  /\ \A b \in DOMAIN m.active_mem : c.active_mem[b] = m.active_mem[b]
  /\ c.active_mem[a] = [memtype |-> "STACK", size |-> Len(arg), data |-> arg]
  /\ Len(c.stack_vars) = Len(m.stack_vars) + 1
  /\ \A e \in DOMAIN m.stack_vars : c.stack_vars[e] = m.stack_vars[e]
  /\ DOMAIN Top(c) = {1} /\ Top(c)[1].block = a

(* The argument of free() is stored before the call and good there.        *)
LEMMA CallGood ==
  ASSUME NEW m, Good(m), NEW arg \in Seq(Cell), \A i \in DOMAIN arg : CellOK(m, arg[i]),
         NEW c, c = Call(m, arg)
  PROVE  /\ Good(c)
         /\ Issued(m) \subseteq Issued(c)
         /\ c.outcome = "run" => \E f, a : Entered(m, arg, c, f, a)
         /\ m.outcome = "run" => c.outcome \in {"run", "exit"}
  <1> DEFINE k == mem_block(m, "STATIC", <<>>)
             f == add_stack_frame(k)
             l == mem_block(f, "STACK", arg)
             a == f.id_counter
  <1>0. c = add_stack_var(l, "", a)
    BY DEF Call
  <1>1. <<>> \in Seq(Cell) /\ \A i \in DOMAIN <<>> : CellOK(m, <<>>[i])
    OBVIOUS
  <1>2. Good(k) /\ Issued(m) \subseteq Issued(k) /\ k.stack_vars = m.stack_vars
    BY <1>1, BlockGood DEF mem_type_t
  <1> HIDE DEF k
  <1>3. Good(f) /\ Issued(f) = Issued(k)
    BY <1>2, FrameGood
  <1> HIDE DEF f
  <1>4. \A i \in DOMAIN arg : CellOK(f, arg[i])
    BY <1>2, <1>3, CellsStayOK
  <1>5. Good(c) /\ Issued(f) \subseteq Issued(c) /\ Len(c.stack_vars) = Len(f.stack_vars)
    <2> DEFINE name == ""
    <2>1. name \in Names
      BY NoNameAssumption
    <2>2. c = add_stack_var(mem_block(f, "STACK", arg), name, f.id_counter)
      BY <1>0
    <2> HIDE DEF name, l, a
    <2> QED
      BY <1>3, <1>4, <2>1, <2>2, DeclareGood
  <1>6. MemTypeOK(m) /\ CounterOK(m) /\ MemTypeOK(f) /\ CounterOK(f) /\ Len(f.stack_vars) > 0
    BY <1>3 DEF Good
  <1>7. MemTypeOK(k)
    BY <1>2 DEF Good
  <1>8. f.outcome = k.outcome
    BY <1>7 DEF f, add_stack_frame, MemTypeOK
  <1>9. MemTypeOK(l)
    BY <1>6, BlockType, LenProperties DEF mem_type_t
  <1>10. c.outcome = l.outcome
    BY <1>0, <1>9 DEF add_stack_var, MemTypeOK
  <1>11. ASSUME c.outcome = "run"
         PROVE  Entered(m, arg, c, m.id_counter, a)
    <2>1. l.outcome = "run" /\ f.outcome = "run" /\ k.outcome = "run" /\ m.outcome = "run"
      BY <1>8, <1>10, <1>11 DEF mem_block, k
    <2>2. m.id_counter # 0 /\ a # 0
      <3>1. m.id_counter # 0
        BY <1>6, <2>1, BlockExits DEF k
      <3>2. a # 0
        BY <1>6, <2>1, BlockExits
      <3> QED
        BY <3>1, <3>2
    <2>3. /\ Issued(k) = Issued(m) \cup {m.id_counter}
          /\ m.id_counter \notin Issued(m)
          /\ DOMAIN k.active_mem = DOMAIN m.active_mem \cup {m.id_counter}
          /\ \A b \in DOMAIN m.active_mem : b # m.id_counter => k.active_mem[b] = m.active_mem[b]
      BY <1>6, <2>1, <2>2, BlockEffect DEF k
    <2>4. /\ a \notin Issued(f)
          /\ DOMAIN l.active_mem = DOMAIN f.active_mem \cup {a}
          /\ \A b \in DOMAIN f.active_mem : b # a => l.active_mem[b] = f.active_mem[b]
          /\ l.stack_vars = f.stack_vars
      BY <1>6, <2>1, <2>2, BlockEffect
    <2>5. l.active_mem[a] = [memtype |-> "STACK", size |-> Len(arg), data |-> arg]
      BY <1>6, <2>1, <2>2 DEF mem_block, new_block_id, Enters, MemTypeOK
    <2>6. f.active_mem = k.active_mem /\ f.stack_vars = Append(k.stack_vars, <<>>)
      BY <1>7, <2>1 DEF f, add_stack_frame, MemTypeOK
    <2> HIDE DEF l, a
    <2>7. c.active_mem = l.active_mem
      BY <1>0, <1>9, <2>1 DEF add_stack_var, MemTypeOK
    <2>8. DOMAIN m.active_mem \subseteq Issued(m)
      BY DEF Good, Owned
    <2>9. \A b \in DOMAIN m.active_mem : b # m.id_counter /\ b # a
      BY <1>2, <1>3, <2>3, <2>4, <2>8
    <2>10. /\ Len(c.stack_vars) = Len(m.stack_vars) + 1
           /\ \A e \in DOMAIN m.stack_vars : c.stack_vars[e] = m.stack_vars[e]
           /\ DOMAIN Top(c) = {1} /\ Top(c)[1].block = a
      <3> DEFINE s == l.stack_vars
                 e == Len(m.stack_vars) + 1
      <3>1. m.stack_vars \in Seq(Seq(VarType)) /\ c.stack_vars \in Seq(Seq(VarType))
        BY <1>5, <1>6 DEF Good, MemTypeOK
      <3>2. s = Append(m.stack_vars, <<>>)
        BY <1>2, <2>4, <2>6
      <3>3. /\ Len(s) = e /\ e \in Nat /\ DOMAIN s = 1 .. e /\ s[e] = <<>>
            /\ \A i \in DOMAIN m.stack_vars : s[i] = m.stack_vars[i] /\ i # e /\ i \in 1 .. e
        BY <3>1, <3>2
      <3> HIDE DEF s, e
      <3>4. Len(l.stack_vars) = e /\ Len(l.stack_vars[Len(l.stack_vars)]) = 0 /\ e > 0
        BY <3>1, <3>3 DEF s, e
      <3>5. Added(l, c, "", a, e, 0)
        BY <1>0, <1>9, <2>1, <3>4, NoNameAssumption, VarEffect
      <3>6. /\ DOMAIN c.stack_vars = 1 .. e /\ DOMAIN c.stack_vars[e] = 1 .. (0 + 1)
            /\ c.stack_vars[e][0 + 1] = [name |-> "", block |-> a]
            /\ \A i \in 1 .. e : i # e => c.stack_vars[i] = s[i]
        BY <3>3, <3>5 DEF Added, s
      <3>7. Len(c.stack_vars) = e
        BY <1>5, <2>4, <3>3 DEF s
      <3>8. Top(c) = c.stack_vars[e]
        BY <3>7 DEF Top
      <3>9. 1 .. (0 + 1) = {1} /\ 0 + 1 = 1
        OBVIOUS
      <3>10. DOMAIN Top(c) = {1} /\ Top(c)[1].block = a
        <4>1. DOMAIN Top(c) = {1}
          BY <3>6, <3>8, <3>9, Zenon
        <4>2. Top(c)[1] = [name |-> "", block |-> a]
          BY <3>6, <3>8, <3>9, Zenon
        <4>3. [name |-> "", block |-> a].block = a
          OBVIOUS
        <4> QED
          BY <4>1, <4>2, <4>3, Zenon
      <3>11. \A i \in DOMAIN m.stack_vars : c.stack_vars[i] = m.stack_vars[i]
        BY <3>3, <3>6
      <3> QED
        BY <3>7, <3>10, <3>11 DEF e
    <2> QED
      BY <1>3, <2>1, <2>3, <2>4, <2>5, <2>6, <2>7, <2>9, <2>10 DEF Entered
  <1>12. ASSUME m.outcome = "run"
         PROVE  c.outcome \in {"run", "exit"}
    <2>1. k.outcome \in {"run", "exit"}
      BY <1>6, <1>12, BlockExits, BlockEffect DEF k
    <2>2. f.outcome = "run" => l.outcome \in {"run", "exit"}
      BY <1>6, BlockExits, BlockEffect
    <2>3. f.outcome # "run" => l = f
      BY DEF mem_block
    <2> QED
      BY <1>8, <1>10, <2>1, <2>2, <2>3
  <1> QED
    BY <1>2, <1>3, <1>5, <1>11, <1>12

(* The rvalue of a name that loads.                                        *)
LEMMA LoadsName ==
  ASSUME NEW m, Good(m), NEW name, Loads(m, name) = "run"
  PROVE  \E c \in Cells(m) : CellOK(m, c) /\ ValueOf(m, name) = EmuPtr(m, c)
  BY LoadsCell DEF Loads, ValueOf

(* An assignment, whatever the value.                                      *)
LEMMA AssignGood ==
  ASSUME NEW m, Good(m), NEW name, NEW v
  PROVE  Good(Assigned(m, name, v))
  BY WriteGood, CastDefined DEF Assigned

(* An uninitialized pointer, the bytes of a literal, and what a heap block *)
(* may hold.                                                               *)
LEMMA CellsMade ==
  ASSUME NEW m, Good(m)
  PROVE  /\ CellOK(m, dump_repr(NotDefined("UNINITIALIZED", RawCell)))
         /\ CellOK(m, RawCell)
         /\ \A g \in Garbage(m) : CellOK(m, g)
  <1>1. 0 \in block_id_t /\ BLOCK_ID_INVALID \in block_id_t
    BY IdSpaceAssumption DEF block_id_t, BLOCK_ID_INVALID, BLOCK_ID_START
  <1>2. dump_repr(NotDefined("UNINITIALIZED", RawCell))
          = [tag |-> "PTR_UNINIT", id |-> BLOCK_ID_INVALID]
    BY DEF dump_repr, NotDefined
  <1>3. CellOK(m, [tag |-> "PTR_UNINIT", id |-> BLOCK_ID_INVALID])
    BY <1>1 DEF CellOK, Cell, Tags
  <1>4. CellOK(m, RawCell)
    BY <1>1 DEF CellOK, Cell, Tags, RawCell
  <1>5. ASSUME NEW g \in [tag : {"PTR"}, id : Issued(m)]
        PROVE  CellOK(m, g)
    <2>1. g.tag = "PTR" /\ g.id \in Issued(m) /\ g = [tag |-> g.tag, id |-> g.id]
      OBVIOUS
    <2>2. g.id \in block_id_t
      BY <2>1, IssuedRange DEF Good
    <2> QED
      BY <2>1, <2>2 DEF CellOK, Cell, Tags
  <1> QED
    BY <1>2, <1>3, <1>4, <1>5 DEF Garbage

(* emu_free keeps the invariant and the frames.                            *)
LEMMA FreeGood ==
  ASSUME NEW m, Good(m)
  PROVE  Good(emu_free(m)) /\ emu_free(m).stack_vars = m.stack_vars
  <1> DEFINE arg == from_lvalue(m, Top(m)[1].block, 0)
  <1>1. Good(End(m, "exit")) /\ End(m, "exit").stack_vars = m.stack_vars
    <2>1. End(m, "exit").stack_vars = m.stack_vars
      BY DEF End, Good, MemTypeOK
    <2> QED
      BY <2>1, EndGood DEF Outcomes
  <1>2. Good(delete_block(m, arg.block)) /\ delete_block(m, arg.block).stack_vars = m.stack_vars
    BY DeleteGood
  <1> HIDE DEF arg
  <1>3. emu_free(m) \in {m, End(m, "exit"), delete_block(m, arg.block)}
    BY DEF emu_free, arg
  <1> QED
    BY <1>1, <1>2, <1>3

(* A declaration with a pointer initializer keeps the invariant.           *)
LEMMA DeclInitGood ==
  ASSUME NEW m, Good(m), NEW name \in Names, NEW other,
         Loads(m, other) = "run", m.id_counter # 0,
         NEW v, v = cast_to(ValueOf(m, other)), Dumps(m, v) = "run"
  PROVE  Good(add_stack_var(mem_block(m, "STACK", <<dump_repr(v)>>), name, m.id_counter))
  <1>1. v.status = "DEFINED"
    BY CastDefined
  <1>2. v.block = Null \/ v.block \in DOMAIN m.active_mem
    BY <1>1, FollowCases DEF Dumps
  <1>3. CellOK(m, dump_repr(v))
    BY <1>1, <1>2, DumpDefined
  <1> DEFINE d == <<dump_repr(v)>>
  <1>4. d \in Seq(Cell) /\ \A i \in DOMAIN d : CellOK(m, d[i])
    BY <1>3, OneCell
  <1> HIDE DEF d
  <1>5. Good(add_stack_var(mem_block(m, "STACK", d), name, m.id_counter))
    BY <1>4, DeclareGood
  <1> QED
    BY <1>5 DEF d

(* A call of free keeps the invariant, from the frame of its argument to   *)
(* the pop of that frame.                                                  *)
LEMMA FreeCallGood ==
  ASSUME NEW m, Good(m), NEW name, Loads(m, name) = "run"
  PROVE  Good(pop_stack_frame(emu_free(Call(m, <<dump_repr(ValueOf(m, name))>>))))
  <1> DEFINE d == <<dump_repr(ValueOf(m, name))>>
             c == Call(m, d)
             n == emu_free(c)
  <1>1. CellOK(m, dump_repr(ValueOf(m, name)))
    BY LoadsName, DumpGood
  <1>2. d \in Seq(Cell) /\ \A i \in DOMAIN d : CellOK(m, d[i])
    BY <1>1, OneCell
  <1> HIDE DEF d
  <1>3. Good(c) /\ (c.outcome = "run" => \E f, a : Entered(m, d, c, f, a))
    BY <1>2, CallGood
  <1> HIDE DEF c
  <1>4. Good(n) /\ n.stack_vars = c.stack_vars
    BY <1>3, FreeGood
  <1>5. n.outcome = "run" => c.outcome = "run"
    BY DEF emu_free
  <1> HIDE DEF n
  <1>6. Len(m.stack_vars) \in Nat /\ Len(m.stack_vars) > 0
    BY LenProperties DEF Good, MemTypeOK
  <1>7. n.outcome = "run" => Len(n.stack_vars) > 1
    BY <1>3, <1>4, <1>5, <1>6 DEF Entered
  <1>8. Good(pop_stack_frame(n))
    BY <1>4, <1>7, PopGood
  <1> QED
    BY <1>8 DEF n, c, d

(* A call of malloc keeps the invariant at every point it can stop at.     *)
LEMMA MallocGood ==
  ASSUME NEW m, Good(m), NEW name, NEW isDefined \in BOOLEAN,
         NEW contents \in Seq(Cell), \A i \in DOMAIN contents : CellOK(m, contents[i]),
         NEW c, c = Call(m, <<>>), NEW h, h = mem_block(c, "HEAP", contents)
  PROVE  /\ Good(c) /\ Good(h) /\ Good(End(c, "exit"))
         /\ h.stack_vars = c.stack_vars
         /\ h.outcome = "run" => /\ c.outcome = "run"
                                 /\ Good(pop_stack_frame(h))
  <1>1. <<>> \in Seq(Cell) /\ \A i \in DOMAIN <<>> : CellOK(m, <<>>[i])
    OBVIOUS
  <1>2. /\ Good(c) /\ Issued(m) \subseteq Issued(c)
        /\ c.outcome = "run" => \E f, a : Entered(m, <<>>, c, f, a)
    BY <1>1, CallGood
  <1>3. \A i \in DOMAIN contents : CellOK(c, contents[i])
    BY <1>2, CellsStayOK
  <1>4. Good(h) /\ h.stack_vars = c.stack_vars
    BY <1>2, <1>3, BlockGood DEF mem_type_t
  <1>5. h.outcome = "run" => c.outcome = "run"
    BY DEF mem_block
  <1>6. Len(m.stack_vars) \in Nat /\ Len(m.stack_vars) > 0
    BY LenProperties DEF Good, MemTypeOK
  <1>7. h.outcome = "run" => Len(h.stack_vars) > 1
    BY <1>2, <1>4, <1>5, <1>6 DEF Entered
  <1>8. Good(pop_stack_frame(h))
    BY <1>4, <1>7, PopGood
  <1>9. Good(End(c, "exit"))
    BY <1>2, EndGood DEF Outcomes
  <1> QED
    BY <1>2, <1>4, <1>5, <1>8, <1>9

(* Every statement keeps the invariant.                                    *)
LEMMA StepGood ==
  ASSUME PInv, PtrNext
  PROVE  PInv'
  <1>0. Good(mem) /\ Len(mem.stack_vars) > 0
    BY DEF PInv, Good
  <1>1. \A how \in Outcomes : Good(End(mem, how))
    BY <1>0, EndGood
  <1>2. \A x : Loads(mem, x) \in Outcomes
    BY LoadCases DEF Loads
  <1> SUFFICES Good(mem')
    BY DEF PInv
  <1>3. CASE EnterScope
    BY <1>0, <1>3, FrameGood DEF EnterScope
  <1>4. CASE LeaveScope
    BY <1>0, <1>4, PopGood DEF LeaveScope, InBody
  <1>5. ASSUME NEW x \in Names, DeclPtr(x)
        PROVE  Good(mem')
    <2> DEFINE d == <<dump_repr(NotDefined("UNINITIALIZED", RawCell))>>
    <2>1. d \in Seq(Cell) /\ \A i \in DOMAIN d : CellOK(mem, d[i])
      BY <1>0, CellsMade, OneCell
    <2>2. mem' = add_stack_var(mem_block(mem, "STACK", d), x, mem.id_counter)
      BY <1>5 DEF DeclPtr
    <2> HIDE DEF d
    <2> QED
      BY <1>0, <2>1, <2>2, DeclareGood
  <1>6. ASSUME NEW x, AssignNull(x)
        PROVE  Good(mem')
    BY <1>0, <1>6, AssignGood DEF AssignNull
  <1>7. ASSUME NEW x, AssignString(x)
        PROVE  Good(mem')
    <2> DEFINE d == <<RawCell>>
               m == mem_block(mem, "STATIC", d)
    <2>1. d \in Seq(Cell) /\ \A i \in DOMAIN d : CellOK(mem, d[i])
      BY <1>0, CellsMade, OneCell
    <2>2. mem' = IF m.outcome # "run" THEN m ELSE Assigned(m, x, Defined(mem.id_counter))
      BY <1>7 DEF AssignString
    <2> HIDE DEF d
    <2>3. Good(m)
      BY <1>0, <2>1, BlockGood DEF mem_type_t
    <2> HIDE DEF m
    <2> QED
      BY <2>2, <2>3, AssignGood
  <1>8. ASSUME NEW x, FreeCall(x)
        PROVE  Good(mem')
    <2> DEFINE n == pop_stack_frame(emu_free(Call(mem, <<dump_repr(ValueOf(mem, x))>>)))
    <2>1. mem' = IF Loads(mem, x) # "run" THEN End(mem, Loads(mem, x)) ELSE n
      BY <1>8 DEF FreeCall
    <2>2. Loads(mem, x) = "run" => Good(n)
      BY <1>0, FreeCallGood
    <2> HIDE DEF n
    <2> QED
      BY <1>1, <1>2, <2>1, <2>2
  <1>9. ASSUME NEW x, NEW isDefined \in BOOLEAN, NEW d \in Seq(Cell),
               \A i \in DOMAIN d : CellOK(mem, d[i]), MallocCall(x, isDefined, d)
        PROVE  Good(mem')
    <2> DEFINE c == Call(mem, <<>>)
               h == mem_block(c, "HEAP", d)
    <2>1. mem' = IF c.outcome # "run" THEN c
                 ELSE IF ~isDefined THEN End(c, "exit")
                 ELSE IF h.outcome # "run" THEN h
                 ELSE Assigned(pop_stack_frame(h), x, Defined(c.id_counter))
      BY <1>9 DEF MallocCall
    <2>2. /\ Good(c) /\ Good(h) /\ Good(End(c, "exit"))
          /\ h.outcome = "run" => Good(pop_stack_frame(h))
      BY <1>0, <1>9, MallocGood
    <2> HIDE DEF c, h
    <2>3. h.outcome = "run" => Good(Assigned(pop_stack_frame(h), x, Defined(c.id_counter)))
      BY <2>2, AssignGood
    <2> QED
      BY <2>1, <2>2, <2>3
  <1>10. ASSUME NEW x \in Names, NEW y, DeclInit(x, y)
         PROVE  Good(mem')
    <2> DEFINE v == cast_to(ValueOf(mem, y))
               m == mem_block(mem, "STACK", <<dump_repr(v)>>)
    <2>1. CASE Loads(mem, y) # "run"
      BY <1>1, <1>2, <1>10, <2>1 DEF DeclInit
    <2>2. CASE Loads(mem, y) = "run" /\ mem.id_counter = 0
      <3>1. mem' = m /\ mem.outcome = "run"
        BY <1>10, <2>2 DEF DeclInit, CanDeclare, InBody
      <3>2. m = End(mem, "exit")
        BY <1>0, <2>2, <3>1, BlockExits DEF Good
      <3> HIDE DEF m
      <3> QED
        BY <1>1, <3>1, <3>2 DEF Outcomes
    <2>3. CASE Loads(mem, y) = "run" /\ mem.id_counter # 0
      <3>1. mem' = IF Dumps(mem, v) # "run" THEN End(mem, Dumps(mem, v))
                   ELSE add_stack_var(m, x, mem.id_counter)
        BY <1>10, <2>3 DEF DeclInit
      <3>2. Dumps(mem, v) \in Outcomes
        BY FollowCases DEF Dumps, Outcomes
      <3>3. Dumps(mem, v) = "run" => Good(add_stack_var(m, x, mem.id_counter))
        BY <1>0, <2>3, DeclInitGood
      <3> HIDE DEF m, v
      <3> QED
        BY <1>1, <3>1, <3>2, <3>3
    <2> QED
      BY <2>1, <2>2, <2>3
  <1>11. ASSUME NEW x, NEW y, AssignAddr(x, y)
         PROVE  Good(mem')
    BY <1>0, <1>11, AssignGood DEF AssignAddr
  <1>12. ASSUME NEW x, NEW y, AssignCopy(x, y)
         PROVE  Good(mem')
    BY <1>0, <1>1, <1>2, <1>12, AssignGood DEF AssignCopy
  <1>13. ASSUME NEW x, NEW y, NEW i, LoadIndexed(x, y, i)
         PROVE  Good(mem')
    <2> DEFINE b == cast_to(ValueOf(mem, y)).block
    <2>1. mem' = IF Loads(mem, y) # "run" THEN End(mem, Loads(mem, y))
                 ELSE IF LoadOutcome(mem, b, i) # "run" THEN End(mem, LoadOutcome(mem, b, i))
                 ELSE Assigned(mem, x, from_lvalue(mem, b, i))
      BY <1>13 DEF LoadIndexed
    <2>2. LoadOutcome(mem, b, i) \in Outcomes
      BY LoadCases
    <2>3. Good(Assigned(mem, x, from_lvalue(mem, b, i)))
      BY <1>0, AssignGood
    <2> HIDE DEF b
    <2> QED
      BY <1>1, <1>2, <2>1, <2>2, <2>3
  <1>14. ASSUME NEW x, NEW y, NEW i \in 0 .. 1, StoreIndexed(x, i, y)
         PROVE  Good(mem')
    <2> DEFINE b == cast_to(ValueOf(mem, x)).block
               v == Defined(BlockOf(mem, y))
    <2>1. mem' = IF Loads(mem, x) # "run" THEN End(mem, Loads(mem, x)) ELSE write(mem, b, i, v)
      BY <1>14 DEF StoreIndexed
    <2>2. v.status = "DEFINED"
      BY DEF Defined
    <2> HIDE DEF b, v
    <2>3. Good(write(mem, b, i, v))
      BY <1>0, <2>2, WriteGood
    <2> QED
      BY <1>1, <1>2, <2>1, <2>3
  <1>15. <<>> \in Seq(Cell) /\ \A i \in DOMAIN <<>> : CellOK(mem, <<>>[i])
    OBVIOUS
  <1>16. \A g \in Garbage(mem) : <<g>> \in Seq(Cell) /\ \A i \in DOMAIN <<g>> : CellOK(mem, <<g>>[i])
    BY <1>0, CellsMade, OneCell
  <1>17. ASSUME NEW x, MallocCall(x, FALSE, <<>>)
         PROVE  Good(mem')
    BY <1>9, <1>15, <1>17
  <1>18. ASSUME NEW x, NEW g \in Garbage(mem), MallocCall(x, TRUE, <<g>>)
         PROVE  Good(mem')
    <2> DEFINE d == <<g>>
    <2>1. d \in Seq(Cell) /\ \A i \in DOMAIN d : CellOK(mem, d[i])
      BY <1>16
    <2>2. MallocCall(x, TRUE, d)
      BY <1>18
    <2> HIDE DEF d
    <2> QED
      BY <1>9, <2>1, <2>2
  <1> QED
    BY <1>3, <1>4, <1>5, <1>6, <1>7, <1>8, <1>10, <1>11, <1>12, <1>13, <1>14, <1>17, <1>18
    DEF PtrNext

(* The state after RunProgram has set up the globals.                      *)
LEMMA StartGood ==
  ASSUME PtrInit
  PROVE  PInv
  <1> DEFINE c == [tag |-> "PTR", id |-> BLOCK_ID_NULL]
             d == <<c>>
             blk == [memtype |-> "GLOBAL", size |-> Len(d), data |-> d]
             G == BLOCK_ID_START .. (BLOCK_ID_START + NumGlobals - 1)
  <1>1. dump_repr(Defined(Null)) = c
    BY DEF dump_repr, Defined
  <1>2. CellOK(mem, c)
    BY IdSpaceAssumption DEF CellOK, Cell, Tags, block_id_t, BLOCK_ID_NULL, BLOCK_ID_START
  <1>3. d \in Seq(Cell) /\ \A i \in DOMAIN d : CellOK(mem, d[i])
    BY <1>2, OneCell
  <1> HIDE DEF c
  <1>4. mem = Start(d)
    BY <1>1 DEF PtrInit
  <1> HIDE DEF d
  <1>5. BlockOK(blk) /\ blk.memtype \in mem_type_t /\ blk.size \in Nat
    BY <1>3, LenProperties DEF BlockOK, mem_type_t
  <1>6. /\ DOMAIN mem = {"id_counter", "active_mem", "stack_vars", "stack_var_map", "outcome"}
        /\ mem.id_counter = BLOCK_ID_START + NumGlobals
        /\ mem.stack_vars = <<(<<>>)>> /\ DOMAIN mem.stack_var_map = {}
        /\ mem.outcome = "run"
    BY <1>4 DEF Start
  <1>7. DOMAIN mem.active_mem = G /\ \A b \in G : mem.active_mem[b] = blk
    BY <1>4 DEF Start
  <1> HIDE DEF G
  <1>8. \A b \in DOMAIN mem.active_mem :
          /\ mem.active_mem[b].memtype \in mem_type_t
          /\ mem.active_mem[b].size \in Nat
    BY <1>5, <1>7
  <1>9. DataOK(mem)
    BY <1>3, <1>5, <1>7 DEF DataOK
  <1> HIDE DEF blk
  <1>10. mem.id_counter \in block_id_t /\ CounterOK(mem) /\ G \subseteq block_id_t
    BY <1>6, IdSpaceAssumption DEF G, block_id_t, CounterOK, BLOCK_ID_START
  <1>11. Issued(mem) = G
    BY <1>6, IdSpaceAssumption DEF G, Issued, BLOCK_ID_START
  <1>12. mem.stack_vars \in Seq(Seq(VarType)) /\ Len(mem.stack_vars) = 1
    BY <1>6
  <1>13. MemTypeOK(mem)
    BY <1>6, <1>7, <1>8, <1>10, <1>12 DEF MemTypeOK, Outcomes
  <1>14. \A f \in DOMAIN mem.stack_vars : DOMAIN mem.stack_vars[f] = {}
    BY <1>6
  <1>15. Owned(mem)
    BY <1>7, <1>11, <1>14 DEF Owned
  <1>16. Indexed(mem)
    <2>1. Positions(mem) = {}
      BY <1>14 DEF Positions
    <2>2. StackIndexOK(mem)
      BY <1>6, <2>1 DEF StackIndexOK, IndexIsSound, IndexIsComplete, IndexIsOrdered
    <2> QED
      BY <1>13, <2>2, IndexedIsStackIndex
  <1> QED
    BY <1>9, <1>10, <1>11, <1>12, <1>13, <1>15, <1>16 DEF PInv, Good, GlobalsIssued, G

(* The inductive invariant holds in every program of these statements.     *)
THEOREM PInvHolds == PtrSpec => []PInv
  <1>1. PtrInit => PInv
    BY StartGood
  <1>2. PInv /\ [PtrNext]_mem => PInv'
    <2>1. ASSUME PInv, UNCHANGED mem
          PROVE  PInv'
      BY <2>1 DEF PInv
    <2> QED
      BY <2>1, StepGood
  <1> QED
    BY <1>1, <1>2, PTL DEF PtrSpec

(* What blocks hold is well typed: cells, as many as the block is large    *)
(* until it expires (mem_block::write stays inside the block).             *)
THEOREM PointersTypeCorrect == PtrSpec => []PtrTypeOK
  <1>1. PInv => PtrTypeOK
    <2> SUFFICES ASSUME PInv PROVE PtrTypeOK
      OBVIOUS
    <2>1. MemTypeOK(mem) /\ DataOK(mem)
      BY DEF PInv, Good
    <2>2. \A c \in Cells(mem) : c \in Cell
      BY <2>1 DEF Cells, DataOK, CellOK
    <2> QED
      BY <2>1, <2>2 DEF PtrTypeOK, DataOK, BlockOK
  <1> QED
    BY <1>1, PInvHolds, PTL

(* A stored pointer names the null id or an allocated block: EmuPtr's      *)
(* dump_repr, calls and reused host memory never forge an id to come.      *)
THEOREM PointersNeverForged == PtrSpec => []NoForgedPointers
  <1>1. PInv => NoForgedPointers
    BY DEF PInv, Good, NoForgedPointers, Cells, DataOK, CellOK
  <1> QED
    BY <1>1, PInvHolds, PTL

(* The memory subsystem's invariants hold in programs with pointers too:   *)
(* names resolve, and variables own their blocks, whatever free() is given.*)
THEOREM PointersKeepMemory == PtrSpec => [](StackIndex /\ InScopeBlocksLive)
  <1>1. PInv => StackIndex /\ InScopeBlocksLive
    BY IndexedIsStackIndex, OwnedIsOwnership DEF PInv, Good, StackIndex, InScopeBlocksLive
  <1> QED
    BY <1>1, PInvHolds, PTL

(***************************************************************************)
(* The action properties.                                                  *)
(***************************************************************************)

(* What the argument of a call holds is what was stored for it.            *)
LEMMA ArgumentLoads ==
  ASSUME NEW m, Good(m), NEW e, CellOK(m, e), NEW c, Good(c), Issued(m) \subseteq Issued(c),
         NEW f, NEW a, Entered(m, <<e>>, c, f, a)
  PROVE  /\ from_lvalue(c, Top(c)[1].block, 0) = EmuPtr(c, e)
         /\ e.tag = "PTR" => e.id # a /\ e.id # f
  <1>1. c.active_mem[a].data = <<e>> /\ Top(c)[1].block = a
    BY DEF Entered
  <1>2. from_lvalue(c, a, 0) = EmuPtr(c, e)
    <2>1. 0 < Len(<<e>>) /\ <<e>>[0 + 1] = e
      OBVIOUS
    <2> QED
      BY <1>1, <2>1 DEF from_lvalue
  <1>3. a \in Issued(c) /\ f \in Issued(c)
    BY DEF Good, Owned, Entered
  <1>4. a # BLOCK_ID_NULL /\ f # BLOCK_ID_NULL
    BY <1>3, IssuedRange DEF Good, BLOCK_ID_NULL, BLOCK_ID_START, block_id_t
  <1>5. e.tag = "PTR" => e.id # a /\ e.id # f
    BY <1>4 DEF CellOK, Entered
  <1> QED
    BY <1>1, <1>2, <1>5

(* free() of a dangling pointer, a null pointer or no pointer at all ends  *)
(* in the report of emu_free: the id that was looked up when the argument  *)
(* was evaluated is looked up again, and names no new block.               *)
LEMMA FreeReports ==
  ASSUME NEW m, Good(m), m.outcome = "run", NEW name, Loads(m, name) = "run",
         ValueOf(m, name).status # "DEFINED"
  PROVE  pop_stack_frame(emu_free(Call(m, <<dump_repr(ValueOf(m, name))>>))).outcome = "exit"
  <1> DEFINE e == dump_repr(ValueOf(m, name))
             d == <<e>>
             c == Call(m, d)
             n == emu_free(c)
  <1>1. PICK s \in Cells(m) : CellOK(m, s) /\ ValueOf(m, name) = EmuPtr(m, s)
    BY LoadsName
  <1>2. CellOK(m, e)
    BY <1>1, DumpGood
  <1>3. d \in Seq(Cell) /\ \A i \in DOMAIN d : CellOK(m, d[i])
    BY <1>2, OneCell
  <1>4. e.tag # "PTR" \/ e.id \notin DOMAIN m.active_mem
    <2>1. CASE ValueOf(m, name) = NotDefined("UNDEFINED", s)
      <3>1. e.tag = s.tag /\ e.id = s.id
        BY <2>1 DEF dump_repr, NotDefined
      <3>2. s.tag = "PTR" => s.id \notin DOMAIN m.active_mem
        BY <1>1, EmuPtrCases
      <3> QED
        BY <3>1, <3>2
    <2>2. CASE ValueOf(m, name) = NotDefined("UNINITIALIZED", s)
      BY <2>2 DEF dump_repr, NotDefined
    <2> QED
      BY <1>1, <2>1, <2>2, EmuPtrCases
  <1> HIDE DEF e, d
  <1>5. /\ Good(c) /\ Issued(m) \subseteq Issued(c)
        /\ c.outcome = "run" => \E f, a : Entered(m, d, c, f, a)
        /\ c.outcome \in {"run", "exit"}
    BY <1>3, CallGood
  <1> HIDE DEF c
  <1>6. n.outcome = "exit"
    <2>1. CASE c.outcome # "run"
      BY <1>5, <2>1 DEF emu_free
    <2>2. CASE c.outcome = "run"
      <3>1. PICK f, a : Entered(m, <<e>>, c, f, a)
        BY <1>5, <2>2 DEF d
      <3>2. /\ from_lvalue(c, Top(c)[1].block, 0) = EmuPtr(c, e)
            /\ e.tag = "PTR" => e.id # a /\ e.id # f
        BY <1>2, <1>5, <3>1, ArgumentLoads
      <3>3. e.tag # "PTR" \/ e.id \notin DOMAIN c.active_mem
        BY <1>4, <3>1, <3>2 DEF Entered
      <3>4. EmuPtr(c, e).status # "DEFINED"
        BY <3>3, EmuPtrCases
      <3>5. n = End(c, "exit")
        BY <2>2, <3>2, <3>4 DEF emu_free
      <3> QED
        BY <1>5, <3>5, EndCounter DEF Good
    <2> QED
      BY <2>1, <2>2
  <1> HIDE DEF n
  <1>7. pop_stack_frame(n) = n
    BY <1>6 DEF pop_stack_frame
  <1> QED
    BY <1>6, <1>7 DEF n, c, d, e

(* emu_free reports every pointer that does not load as defined.           *)
THEOREM DoubleFreesReported == PtrSpec => DoubleFreeDetected
  <1>1. PInv /\ [PtrNext]_mem =>
          [\A x \in Names \ {""} :
             (FreeCall(x) /\ Loads(mem, x) = "run" /\ ValueOf(mem, x).status # "DEFINED")
               => mem'.outcome = "exit"]_mem
    <2> SUFFICES ASSUME PInv, NEW x, FreeCall(x), Loads(mem, x) = "run",
                        ValueOf(mem, x).status # "DEFINED"
                 PROVE  mem'.outcome = "exit"
      OBVIOUS
    <2>1. mem.outcome = "run"
      BY DEF FreeCall, InScope, InBody
    <2>2. mem' = pop_stack_frame(emu_free(Call(mem, <<dump_repr(ValueOf(mem, x))>>)))
      BY DEF FreeCall
    <2> QED
      BY <2>1, <2>2, FreeReports DEF PInv
  <1> QED
    BY <1>1, PInvHolds, PTL DEF PtrSpec, DoubleFreeDetected

(* The misuses that the two properties about undefined behaviour name.     *)
AllDefined(m) == \A c \in Cells(m) : EmuPtr(m, c).status = "DEFINED"

NamesLive(m) == InScopeBlocks(m) \subseteq DOMAIN m.active_mem

(* How a statement that starts in m may end.                               *)
Clean(m, how) ==
  /\ how = "ub_wild" => ~AllDefined(m)
  /\ how = "ub_deleted" => ~NamesLive(m)

(* The host addresses a statement can come by: that of a block, that of a  *)
(* name, or bytes that were read from a cell that is no defined pointer.   *)
Known(m, b) ==
  \/ b \in DOMAIN m.active_mem
  \/ b \in InScopeBlocks(m)
  \/ b = Wild /\ ~AllDefined(m)

(* Following a known address ends cleanly.                                 *)
LEMMA KnownFollows ==
  ASSUME NEW m, Good(m), NEW b, Known(m, b)
  PROVE  /\ b = Wild => ~AllDefined(m)
         /\ b \notin DOMAIN m.active_mem /\ b # Wild => ~NamesLive(m)
  <1>1. b \in DOMAIN m.active_mem => b # Wild
    BY IssuedRange DEF Good, Owned
  <1>2. b \in InScopeBlocks(m) => b # Wild
    BY ScopeIssued, IssuedRange DEF Good
  <1> QED
    BY <1>1, <1>2 DEF Known, NamesLive

(* A load through a known address ends cleanly.                            *)
LEMMA LoadClean ==
  ASSUME NEW m, Good(m), NEW b, Known(m, b), NEW i
  PROVE  Clean(m, LoadOutcome(m, b, i))
  BY KnownFollows, LoadCases DEF Clean

(* A write through a known address ends cleanly when the pointer it stores *)
(* is null or known.                                                       *)
LEMMA WriteClean ==
  ASSUME NEW m, Good(m), m.outcome = "run", NEW b, Known(m, b), NEW i \in Nat,
         NEW v, v.status = "DEFINED", v.block = Null \/ Known(m, v.block)
  PROVE  Clean(m, write(m, b, i, v).outcome)
  <1> DEFINE n == write(m, b, i, v)
  <1>1. \/ \E how \in Outcomes : Stops(m, b, v, how) /\ n = End(m, how)
        \/ Stores(m, b, i, v, n)
    BY WriteCases
  <1> HIDE DEF n
  <1>2. ASSUME NEW how, Stops(m, b, v, how)
        PROVE  Clean(m, how)
    <2>1. /\ b = Wild => ~AllDefined(m)
          /\ b \notin DOMAIN m.active_mem /\ b # Wild => ~NamesLive(m)
      BY KnownFollows
    <2>2. v.block # Null =>
            /\ v.block = Wild => ~AllDefined(m)
            /\ v.block \notin DOMAIN m.active_mem /\ v.block # Wild => ~NamesLive(m)
      BY KnownFollows
    <2>3. Null # Wild
      BY DEF Null, Wild
    <2> QED
      BY <1>2, <2>1, <2>2, <2>3 DEF Stops, Clean
  <1>3. \A how : End(m, how).outcome = how
    BY EndCounter DEF Good
  <1>4. Stores(m, b, i, v, n) => n.outcome = "run"
    BY DEF Stores, Good, MemTypeOK
  <1>5. Clean(m, "run")
    BY DEF Clean
  <1>6. Clean(m, n.outcome)
    BY <1>1, <1>2, <1>3, <1>4, <1>5
  <1> QED
    BY <1>6 DEF n

(* The addresses of names, and of the values that are loaded.              *)
LEMMA NameKnown ==
  ASSUME NEW m, Good(m), NEW name \in Names, IsVisible(m, name)
  PROVE  Known(m, BlockOf(m, name))
  BY NameBlock DEF Known

(* A pointer that a load yields is known.                                  *)
LEMMA ValueKnown ==
  ASSUME NEW m, Good(m), NEW b, NEW i \in Nat, LoadOutcome(m, b, i) = "run"
  PROVE  Known(m, cast_to(from_lvalue(m, b, i)).block)
  <1>1. PICK c \in Cells(m) : CellOK(m, c) /\ from_lvalue(m, b, i) = EmuPtr(m, c)
    BY LoadsCell
  <1>2. CASE EmuPtr(m, c).status = "DEFINED"
    <2>1. EmuPtr(m, c).block \in DOMAIN m.active_mem
      BY <1>2, EmuPtrCases
    <2> QED
      BY <1>1, <1>2, <2>1 DEF cast_to, Known
  <1>3. CASE EmuPtr(m, c).status # "DEFINED"
    <2>1. ~AllDefined(m)
      BY <1>3 DEF AllDefined
    <2>2. cast_to(from_lvalue(m, b, i)).block = Wild
      BY <1>1, <1>3 DEF cast_to, Defined
    <2> QED
      BY <2>1, <2>2 DEF Known
  <1> QED
    BY <1>2, <1>3

(* A name keeps its meaning while the frames stay as they are.             *)
LEMMA SameScope ==
  ASSUME NEW m, Good(m), NEW n, Good(n), n.stack_vars = m.stack_vars,
         NEW name \in Names, IsVisible(m, name)
  PROVE  /\ IsVisible(n, name)
         /\ InScopeBlocks(n) = InScopeBlocks(m)
  <1>1. Positions(n) = Positions(m) /\ \A p : VarAt(n, p) = VarAt(m, p)
    BY DEF Positions, VarAt
  <1>2. InScopeBlocks(n) = InScopeBlocks(m)
    BY <1>1 DEF InScopeBlocks
  <1>3. StackIndexOK(m) /\ StackIndexOK(n) /\ MemTypeOK(m) /\ MemTypeOK(n)
    BY IndexedIsStackIndex DEF Good
  <1>4. ASSUME OnStack(m, name)
        PROVE  OnStack(n, name)
    <2> DEFINE q == m.stack_var_map[name]
    <2>1. q \in Seq(Nat \X Nat) /\ q # <<>>
      BY <1>3, <1>4 DEF OnStack, MemTypeOK, StackIndexOK, IndexIsSound
    <2>2. 1 \in DOMAIN q
      BY <2>1
    <2>3. q[1] \in Positions(m) /\ VarAt(m, q[1]).name = name
      BY <1>3, <1>4, <2>2 DEF OnStack, StackIndexOK, IndexIsSound
    <2> HIDE DEF q
    <2>4. \E k \in DOMAIN Listed(n, name) : Listed(n, name)[k] = q[1]
      BY <1>1, <1>3, <2>3 DEF StackIndexOK, IndexIsComplete
    <2>5. DOMAIN <<>> = {}
      OBVIOUS
    <2> QED
      BY <2>4, <2>5 DEF Listed, OnStack
  <1> QED
    BY <1>2, <1>4 DEF IsVisible

(* The assignment of the address of a block made by the same statement.    *)
LEMMA FreshClean ==
  ASSUME NEW m, Good(m), NEW n, Good(n), n.outcome = "run", n.stack_vars = m.stack_vars,
         DOMAIN m.active_mem \subseteq DOMAIN n.active_mem,
         NEW name \in Names, IsVisible(m, name), NEW b \in DOMAIN n.active_mem
  PROVE  Clean(m, Assigned(n, name, Defined(b)).outcome)
  <1> DEFINE v == Defined(b)
             l == BlockOf(n, name)
             w == write(n, l, 0, v)
  <1>1. cast_to(v) = v /\ v.status = "DEFINED" /\ v.block = b
    BY DEF cast_to, Defined
  <1>2. Assigned(n, name, v) = w
    BY <1>1 DEF Assigned
  <1>3. l \in InScopeBlocks(m)
    BY SameScope, NameBlock
  <1>4. l # Wild /\ b # Wild
    BY <1>3, ScopeIssued, IssuedRange DEF Good, Owned
  <1> HIDE DEF v, l
  <1>5. \/ \E how \in Outcomes : Stops(n, l, v, how) /\ w = End(n, how)
        \/ Stores(n, l, 0, v, w)
    BY <1>1, WriteCases
  <1> HIDE DEF w
  <1>6. ASSUME NEW how, Stops(n, l, v, how)
        PROVE  Clean(m, how)
    BY <1>1, <1>3, <1>4, <1>6 DEF Stops, Clean, NamesLive
  <1>7. \A how : End(n, how).outcome = how
    BY EndCounter DEF Good
  <1>8. Stores(n, l, 0, v, w) => w.outcome = "run"
    BY DEF Stores, Good, MemTypeOK
  <1>9. Clean(m, "run")
    BY DEF Clean
  <1>10. Clean(m, w.outcome)
    BY <1>5, <1>6, <1>7, <1>8, <1>9
  <1> QED
    BY <1>2, <1>10 DEF v

(* The frames below that of the call.                                      *)
LEMMA FrontSame ==
  ASSUME NEW S, NEW s \in Seq(S), NEW r \in Seq(S), Len(s) = Len(r) + 1,
         \A i \in DOMAIN r : s[i] = r[i]
  PROVE  SubSeq(s, 1, Len(s) - 1) = r
  <1> DEFINE q == SubSeq(s, 1, Len(s) - 1)
  <1>1. Len(s) - 1 = Len(r) /\ Len(r) \in Nat
    OBVIOUS
  <1>2. q \in Seq(S) /\ Len(q) = Len(r)
    BY <1>1
  <1>3. \A i \in 1 .. Len(q) : q[i] = r[i]
    BY <1>1, <1>2
  <1> HIDE DEF q
  <1>4. q = r
    BY <1>2, <1>3, SeqEqual
  <1> QED
    BY <1>4 DEF q

(* The frame of a call has one block.                                      *)
LEMMA CallTop ==
  ASSUME NEW m, NEW arg, NEW c, NEW f, NEW a, Entered(m, arg, c, f, a),
         NEW n, n.stack_vars = c.stack_vars
  PROVE  TopBlocks(n) = {a}
  <1>1. Top(n) = Top(c)
    BY DEF Top
  <1>2. DOMAIN Top(n) = {1} /\ Top(n)[1].block = a
    BY <1>1 DEF Entered
  <1> QED
    BY <1>2 DEF TopBlocks

(* free() of a name that loads touches no deleted block object: the block  *)
(* it deletes is not that of its own argument, which is then popped.       *)
LEMMA FreeCallClean ==
  ASSUME NEW m, Good(m), m.outcome = "run", NEW name, Loads(m, name) = "run"
  PROVE  pop_stack_frame(emu_free(Call(m, <<dump_repr(ValueOf(m, name))>>))).outcome
           \in {"run", "exit", "ub_expired"}
  <1> DEFINE e == dump_repr(ValueOf(m, name))
             d == <<e>>
             c == Call(m, d)
             n == emu_free(c)
  <1>1. CellOK(m, e)
    BY LoadsName, DumpGood
  <1>2. d \in Seq(Cell) /\ \A i \in DOMAIN d : CellOK(m, d[i])
    BY <1>1, OneCell
  <1> HIDE DEF e, d
  <1>3. /\ Good(c) /\ Issued(m) \subseteq Issued(c)
        /\ c.outcome = "run" => \E f, a : Entered(m, d, c, f, a)
        /\ c.outcome \in {"run", "exit"}
    BY <1>2, CallGood
  <1> HIDE DEF c
  <1>4. Good(n) /\ n.stack_vars = c.stack_vars
    BY <1>3, FreeGood
  <1>5. ASSUME c.outcome = "run"
        PROVE  /\ n.outcome \in {"run", "exit", "ub_expired"}
               /\ n.outcome = "run" => TopBlocks(n) \subseteq DOMAIN n.active_mem
    <2>1. PICK f, a : Entered(m, <<e>>, c, f, a)
      BY <1>3, <1>5 DEF d
    <2>2. /\ from_lvalue(c, Top(c)[1].block, 0) = EmuPtr(c, e)
          /\ e.tag = "PTR" => e.id # a
      BY <1>1, <1>3, <2>1, ArgumentLoads
    <2>3. MemTypeOK(c)
      BY <1>3 DEF Good
    <2>4. CASE EmuPtr(c, e).status # "DEFINED"
      <3>1. n = End(c, "exit")
        BY <1>5, <2>2, <2>4 DEF emu_free
      <3> QED
        BY <2>3, <3>1, EndCounter
    <2>5. CASE EmuPtr(c, e).status = "DEFINED"
      <3>1. /\ EmuPtr(c, e).block = e.id /\ e.tag = "PTR"
            /\ e.id \in DOMAIN c.active_mem
        BY <2>5, EmuPtrCases
      <3>2. n = delete_block(c, e.id)
        BY <1>5, <2>2, <2>5, <3>1 DEF emu_free
      <3>3. CASE c.active_mem[e.id].memtype = "FREED"
        <4>1. n = End(c, "ub_expired")
          BY <1>5, <3>1, <3>2, <3>3 DEF delete_block
        <4> QED
          BY <2>3, <4>1, EndCounter
      <3>4. CASE c.active_mem[e.id].memtype # "FREED"
        <4>1. n = [c EXCEPT !.active_mem = [b \in DOMAIN c.active_mem \ {e.id} |-> c.active_mem[b]]]
          BY <1>5, <3>1, <3>2, <3>4 DEF delete_block
        <4>2. n.outcome = "run" /\ DOMAIN n.active_mem = DOMAIN c.active_mem \ {e.id}
          BY <1>5, <2>3, <4>1 DEF MemTypeOK
        <4>3. TopBlocks(n) = {a}
          BY <1>4, <2>1, CallTop
        <4>4. a \in DOMAIN c.active_mem
          BY <2>1 DEF Entered
        <4> QED
          BY <2>2, <3>1, <4>2, <4>3, <4>4
      <3> QED
        BY <3>3, <3>4
    <2> QED
      BY <2>4, <2>5
  <1>6. c.outcome # "run" => n = c
    BY DEF emu_free
  <1> HIDE DEF n
  <1>7. CASE n.outcome # "run"
    <2>1. pop_stack_frame(n) = n
      BY <1>7 DEF pop_stack_frame
    <2> QED
      BY <1>3, <1>5, <1>6, <2>1 DEF n, c, d, e
  <1>8. CASE n.outcome = "run"
    <2>1. TopBlocks(n) \subseteq DOMAIN n.active_mem
      BY <1>5, <1>6, <1>8
    <2>2. pop_stack_frame(n).outcome = "run"
      BY <1>4, <1>8, <2>1, PopNotExpired DEF Good
    <2> QED
      BY <2>2 DEF n, c, d, e
  <1> QED
    BY <1>7, <1>8

(* malloc() returns to the frames of its caller.                           *)
LEMMA MallocClean ==
  ASSUME NEW m, Good(m), m.outcome = "run", NEW name \in Names, IsVisible(m, name),
         NEW contents \in Seq(Cell), \A i \in DOMAIN contents : CellOK(m, contents[i]),
         NEW c, c = Call(m, <<>>), NEW h, h = mem_block(c, "HEAP", contents),
         c.outcome = "run", h.outcome = "run"
  PROVE  Clean(m, Assigned(pop_stack_frame(h), name, Defined(c.id_counter)).outcome)
  <1> DEFINE n == pop_stack_frame(h)
  <1>1. <<>> \in Seq(Cell) /\ \A i \in DOMAIN <<>> : CellOK(m, <<>>[i])
    OBVIOUS
  <1>2. PICK f, a : Entered(m, <<>>, c, f, a)
    BY <1>1, CallGood
  <1>3. Good(c) /\ Good(h) /\ Good(n) /\ h.stack_vars = c.stack_vars
    BY MallocGood
  <1>4. c.id_counter # 0
    BY <1>3, BlockExits DEF Good
  <1>5. DOMAIN h.active_mem = DOMAIN c.active_mem \cup {c.id_counter}
    BY <1>3, <1>4, BlockEffect DEF Good
  <1>6. TopBlocks(h) = {a} /\ a \in DOMAIN h.active_mem
    BY <1>2, <1>3, <1>5, CallTop DEF Entered
  <1>7. /\ n.outcome = "run"
        /\ n.stack_vars = SubSeq(h.stack_vars, 1, Len(h.stack_vars) - 1)
        /\ n.active_mem = [b \in DOMAIN h.active_mem |->
             IF b \in TopBlocks(h) THEN Freed(h.active_mem[b]) ELSE h.active_mem[b]]
    BY <1>3, <1>6, PopNotExpired DEF Good
  <1>8. m.stack_vars \in Seq(Seq(VarType)) /\ h.stack_vars \in Seq(Seq(VarType))
    BY <1>3 DEF Good, MemTypeOK
  <1>9. n.stack_vars = m.stack_vars
    <2>1. /\ Len(h.stack_vars) = Len(m.stack_vars) + 1
          /\ \A i \in DOMAIN m.stack_vars : h.stack_vars[i] = m.stack_vars[i]
      BY <1>2, <1>3 DEF Entered
    <2>2. SubSeq(h.stack_vars, 1, Len(h.stack_vars) - 1) = m.stack_vars
      BY <1>8, <2>1, FrontSame
    <2> QED
      BY <1>7, <2>2
  <1> HIDE DEF n
  <1>10. DOMAIN n.active_mem = DOMAIN h.active_mem
    BY <1>7
  <1>11. DOMAIN m.active_mem \subseteq DOMAIN n.active_mem /\ c.id_counter \in DOMAIN n.active_mem
    BY <1>2, <1>5, <1>10 DEF Entered
  <1>12. Clean(m, Assigned(n, name, Defined(c.id_counter)).outcome)
    BY <1>3, <1>7, <1>9, <1>11, FreshClean
  <1> QED
    BY <1>12 DEF n

(* Every statement ends cleanly.                                           *)
LEMMA StepClean ==
  ASSUME PInv, PtrNext
  PROVE  Clean(mem, mem'.outcome)
  <1>0. Good(mem) /\ MemTypeOK(mem)
    BY DEF PInv, Good
  <1>1. \A how : End(mem, how).outcome = how
    BY <1>0, EndCounter
  <1>2. Clean(mem, "run") /\ Clean(mem, "exit") /\ Clean(mem, "ub_expired")
    BY DEF Clean
  <1>3. \A x \in Names : IsVisible(mem, x) =>
          Known(mem, BlockOf(mem, x)) /\ Clean(mem, Loads(mem, x))
    BY <1>0, NameKnown, LoadClean DEF Loads
  <1>4. \A x : Loads(mem, x) = "run" => Known(mem, cast_to(ValueOf(mem, x)).block)
    BY <1>0, ValueKnown DEF Loads, ValueOf
  <1>5. ASSUME NEW x \in Names, IsVisible(mem, x), mem.outcome = "run",
               NEW v, cast_to(v).block = Null \/ Known(mem, cast_to(v).block)
        PROVE  Clean(mem, Assigned(mem, x, v).outcome)
    BY <1>0, <1>3, <1>5, CastDefined, WriteClean DEF Assigned
  <1>6. \A b : cast_to(Defined(b)).block = b /\ Defined(b).block = b /\ Defined(b).status = "DEFINED"
    BY DEF cast_to, Defined
  <1>7. \A x : InScope(x) => mem.outcome = "run" /\ IsVisible(mem, x)
    BY DEF InScope, InBody
  <1>8. CASE EnterScope
    BY <1>0, <1>2, <1>8 DEF EnterScope, add_stack_frame, MemTypeOK
  <1>9. CASE LeaveScope
    <2>1. mem.outcome = "run" /\ mem' = pop_stack_frame(mem)
      BY <1>9 DEF LeaveScope, InBody
    <2>2. mem.stack_vars \in Seq(Seq(VarType)) /\ Len(mem.stack_vars) > 0
      BY <1>0 DEF Good, MemTypeOK
    <2>3. Len(mem.stack_vars) \in DOMAIN mem.stack_vars
      BY <2>2
    <2>4. TopBlocks(mem) \subseteq InScopeBlocks(mem)
      <3> SUFFICES ASSUME NEW i \in DOMAIN Top(mem)
                   PROVE  Top(mem)[i].block \in InScopeBlocks(mem)
        BY DEF TopBlocks
      <3> DEFINE p == <<Len(mem.stack_vars) - 1, i - 1>>
      <3>1. p \in Positions(mem) /\ VarAt(mem, p) = Top(mem)[i]
        BY <1>0, <2>3, PositionOf DEF Top
      <3> HIDE DEF p
      <3> QED
        BY <3>1 DEF InScopeBlocks
    <2>5. IF TopBlocks(mem) \subseteq DOMAIN mem.active_mem
          THEN mem'.outcome = "run" ELSE mem'.outcome = "ub_deleted"
      BY <1>0, <2>1, <2>2, PopNotExpired DEF Good
    <2> QED
      BY <2>4, <2>5 DEF Clean, NamesLive
  <1>10. ASSUME NEW x, NEW d, NEW m, m = mem_block(mem, "STACK", d), mem.outcome = "run",
                mem' = add_stack_var(m, x, mem.id_counter), Len(d) \in Nat
         PROVE  Clean(mem, mem'.outcome)
    <2>1. MemTypeOK(m)
      BY <1>0, <1>10, BlockType DEF mem_type_t
    <2>2. mem'.outcome = m.outcome
      BY <1>10, <2>1 DEF add_stack_var, MemTypeOK
    <2>3. m.outcome \in {"run", "exit"}
      BY <1>0, <1>10, BlockExits, BlockEffect DEF Good
    <2> QED
      BY <1>2, <2>2, <2>3
  <1>11. \A e : Len(<<e>>) \in Nat
    OBVIOUS
  <1>12. ASSUME NEW x, DeclPtr(x)
         PROVE  Clean(mem, mem'.outcome)
    BY <1>10, <1>11, <1>12 DEF DeclPtr, CanDeclare, InBody
  <1>13. ASSUME NEW x \in Names, AssignNull(x)
         PROVE  Clean(mem, mem'.outcome)
    BY <1>5, <1>6, <1>7, <1>13 DEF AssignNull
  <1>14. ASSUME NEW x \in Names, AssignString(x)
         PROVE  Clean(mem, mem'.outcome)
    <2> DEFINE d == <<RawCell>>
               m == mem_block(mem, "STATIC", d)
    <2>1. mem' = IF m.outcome # "run" THEN m ELSE Assigned(m, x, Defined(mem.id_counter))
      BY <1>14 DEF AssignString
    <2>2. mem.outcome = "run" /\ IsVisible(mem, x)
      BY <1>7, <1>14 DEF AssignString
    <2>3. d \in Seq(Cell) /\ \A i \in DOMAIN d : CellOK(mem, d[i])
      BY <1>0, CellsMade, OneCell
    <2> HIDE DEF d
    <2>4. Good(m) /\ m.stack_vars = mem.stack_vars
      BY <1>0, <2>3, BlockGood DEF mem_type_t
    <2>5. CASE mem.id_counter = 0
      <3>1. m.outcome = "exit"
        BY <1>0, <2>2, <2>5, BlockExits
      <3> QED
        BY <1>2, <2>1, <3>1
    <2>6. CASE mem.id_counter # 0
      <3>1. m.outcome = "run" /\ DOMAIN m.active_mem = DOMAIN mem.active_mem \cup {mem.id_counter}
        BY <1>0, <2>2, <2>6, BlockEffect DEF Good
      <3> HIDE DEF m
      <3>2. Clean(mem, Assigned(m, x, Defined(mem.id_counter)).outcome)
        BY <1>0, <2>2, <2>4, <3>1, FreshClean
      <3> QED
        BY <2>1, <3>1, <3>2
    <2> QED
      BY <2>5, <2>6
  <1>15. ASSUME NEW x \in Names, FreeCall(x)
         PROVE  Clean(mem, mem'.outcome)
    <2> DEFINE n == pop_stack_frame(emu_free(Call(mem, <<dump_repr(ValueOf(mem, x))>>)))
    <2>1. mem' = IF Loads(mem, x) # "run" THEN End(mem, Loads(mem, x)) ELSE n
      BY <1>15 DEF FreeCall
    <2>2. mem.outcome = "run" /\ IsVisible(mem, x)
      BY <1>7, <1>15 DEF FreeCall
    <2>3. Loads(mem, x) = "run" => n.outcome \in {"run", "exit", "ub_expired"}
      BY <1>0, <2>2, FreeCallClean
    <2> HIDE DEF n
    <2> QED
      BY <1>1, <1>2, <1>3, <2>1, <2>2, <2>3
  <1>16. ASSUME NEW x \in Names, NEW isDefined \in BOOLEAN, NEW d \in Seq(Cell),
                \A i \in DOMAIN d : CellOK(mem, d[i]), MallocCall(x, isDefined, d)
         PROVE  Clean(mem, mem'.outcome)
    <2> DEFINE c == Call(mem, <<>>)
               h == mem_block(c, "HEAP", d)
               n == Assigned(pop_stack_frame(h), x, Defined(c.id_counter))
    <2>1. mem' = IF c.outcome # "run" THEN c
                 ELSE IF ~isDefined THEN End(c, "exit")
                 ELSE IF h.outcome # "run" THEN h ELSE n
      BY <1>16 DEF MallocCall
    <2>2. mem.outcome = "run" /\ IsVisible(mem, x)
      BY <1>7, <1>16 DEF MallocCall
    <2>3. <<>> \in Seq(Cell) /\ \A i \in DOMAIN <<>> : CellOK(mem, <<>>[i])
      OBVIOUS
    <2>4. Good(c) /\ c.outcome \in {"run", "exit"}
      BY <1>0, <2>2, <2>3, CallGood
    <2>5. c.outcome = "run" /\ h.outcome = "run" => Clean(mem, n.outcome)
      BY <1>0, <1>16, <2>2, MallocClean
    <2> HIDE DEF n, c
    <2>6. c.outcome = "run" => h.outcome \in {"run", "exit"}
      BY <2>4, BlockExits, BlockEffect DEF Good
    <2> HIDE DEF h
    <2>7. End(c, "exit").outcome = "exit"
      BY <2>4, EndCounter DEF Good
    <2> QED
      BY <1>2, <2>1, <2>4, <2>5, <2>6, <2>7
  <1>17. ASSUME NEW x, NEW y \in Names, DeclInit(x, y)
         PROVE  Clean(mem, mem'.outcome)
    <2> DEFINE v == cast_to(ValueOf(mem, y))
               m == mem_block(mem, "STACK", <<dump_repr(v)>>)
    <2>0. mem.outcome = "run" /\ IsVisible(mem, y)
      BY <1>7, <1>17 DEF DeclInit
    <2>1. CASE Loads(mem, y) # "run"
      BY <1>1, <1>3, <1>17, <2>0, <2>1 DEF DeclInit
    <2>2. CASE Loads(mem, y) = "run" /\ mem.id_counter = 0
      <3>1. mem' = m
        BY <1>17, <2>2 DEF DeclInit
      <3>2. m.outcome = "exit"
        BY <1>0, <2>0, <2>2, BlockExits
      <3> HIDE DEF m
      <3> QED
        BY <1>2, <3>1, <3>2
    <2>3. CASE Loads(mem, y) = "run" /\ mem.id_counter # 0
      <3>1. mem' = IF Dumps(mem, v) # "run" THEN End(mem, Dumps(mem, v))
                   ELSE add_stack_var(m, x, mem.id_counter)
        BY <1>17, <2>3 DEF DeclInit
      <3>2. Known(mem, v.block)
        BY <1>4, <2>3
      <3>3. Clean(mem, Dumps(mem, v))
        BY <1>0, <1>2, <3>2, KnownFollows, FollowCases DEF Dumps, Clean
      <3>4. CASE Dumps(mem, v) # "run"
        <4> HIDE DEF v, m
        <4> QED
          BY <1>1, <3>1, <3>3, <3>4
      <3>5. CASE Dumps(mem, v) = "run"
        BY <1>10, <1>11, <2>0, <3>1, <3>5
      <3> QED
        BY <3>4, <3>5
    <2> QED
      BY <2>1, <2>2, <2>3
  <1>18. ASSUME NEW x \in Names, NEW y \in Names, AssignAddr(x, y)
         PROVE  Clean(mem, mem'.outcome)
    BY <1>3, <1>5, <1>6, <1>7, <1>18 DEF AssignAddr
  <1>19. ASSUME NEW x \in Names, NEW y \in Names, AssignCopy(x, y)
         PROVE  Clean(mem, mem'.outcome)
    <2>1. CASE Loads(mem, y) # "run"
      BY <1>1, <1>3, <1>7, <1>19, <2>1 DEF AssignCopy
    <2>2. CASE Loads(mem, y) = "run"
      BY <1>4, <1>5, <1>7, <1>19, <2>2 DEF AssignCopy
    <2> QED
      BY <2>1, <2>2
  <1>20. ASSUME NEW x \in Names, NEW y \in Names, NEW i \in 0 .. 1, LoadIndexed(x, y, i)
         PROVE  Clean(mem, mem'.outcome)
    <2> DEFINE b == cast_to(ValueOf(mem, y)).block
    <2>1. mem' = IF Loads(mem, y) # "run" THEN End(mem, Loads(mem, y))
                 ELSE IF LoadOutcome(mem, b, i) # "run" THEN End(mem, LoadOutcome(mem, b, i))
                 ELSE Assigned(mem, x, from_lvalue(mem, b, i))
      BY <1>20 DEF LoadIndexed
    <2>2. mem.outcome = "run" /\ IsVisible(mem, x) /\ IsVisible(mem, y)
      BY <1>7, <1>20 DEF LoadIndexed
    <2>3. Loads(mem, y) = "run" => Known(mem, b)
      BY <1>4
    <2> HIDE DEF b
    <2>4. Loads(mem, y) = "run" => Clean(mem, LoadOutcome(mem, b, i))
      BY <1>0, <2>3, LoadClean
    <2>5. LoadOutcome(mem, b, i) = "run" => Clean(mem, Assigned(mem, x, from_lvalue(mem, b, i)).outcome)
      BY <1>0, <1>5, <2>2, ValueKnown
    <2> QED
      BY <1>1, <1>3, <2>1, <2>2, <2>4, <2>5
  <1>21. ASSUME NEW x \in Names, NEW y \in Names, NEW i \in 0 .. 1, StoreIndexed(x, i, y)
         PROVE  Clean(mem, mem'.outcome)
    <2> DEFINE b == cast_to(ValueOf(mem, x)).block
               v == Defined(BlockOf(mem, y))
    <2>1. mem' = IF Loads(mem, x) # "run" THEN End(mem, Loads(mem, x)) ELSE write(mem, b, i, v)
      BY <1>21 DEF StoreIndexed
    <2>2. mem.outcome = "run" /\ IsVisible(mem, x) /\ IsVisible(mem, y)
      BY <1>7, <1>21 DEF StoreIndexed
    <2>3. v.status = "DEFINED" /\ Known(mem, v.block)
      BY <1>3, <1>6, <2>2
    <2>4. Loads(mem, x) = "run" => Known(mem, b)
      BY <1>4
    <2> HIDE DEF b, v
    <2>5. Loads(mem, x) = "run" => Clean(mem, write(mem, b, i, v).outcome)
      BY <1>0, <2>2, <2>3, <2>4, WriteClean
    <2> QED
      BY <1>1, <1>3, <2>1, <2>2, <2>5
  <1>22. <<>> \in Seq(Cell) /\ \A i \in DOMAIN <<>> : CellOK(mem, <<>>[i])
    OBVIOUS
  <1>23. \A g \in Garbage(mem) : <<g>> \in Seq(Cell) /\ \A i \in DOMAIN <<g>> : CellOK(mem, <<g>>[i])
    BY <1>0, CellsMade, OneCell
  <1>24. ASSUME NEW x \in Names, MallocCall(x, FALSE, <<>>)
         PROVE  Clean(mem, mem'.outcome)
    BY <1>16, <1>22, <1>24
  <1>25. ASSUME NEW x \in Names, NEW g \in Garbage(mem), MallocCall(x, TRUE, <<g>>)
         PROVE  Clean(mem, mem'.outcome)
    <2> DEFINE d == <<g>>
    <2>1. d \in Seq(Cell) /\ \A i \in DOMAIN d : CellOK(mem, d[i])
      BY <1>23
    <2>2. MallocCall(x, TRUE, d)
      BY <1>25
    <2> HIDE DEF d
    <2> QED
      BY <1>16, <2>1, <2>2
  <1> QED
    BY <1>8, <1>9, <1>12, <1>13, <1>14, <1>15, <1>17, <1>18, <1>19, <1>20, <1>21, <1>24, <1>25
    DEF PtrNext

(* A host address that never was one comes from a stored cell that does    *)
(* not load as a defined pointer, and from nothing else.                   *)
THEOREM WildNeedsUndefined == PtrSpec => WildOnlyFromUndefined
  <1>1. PInv /\ [PtrNext]_mem =>
          [mem'.outcome = "ub_wild" =>
             \E c \in Cells(mem) : EmuPtr(mem, c).status # "DEFINED"]_mem
    BY StepClean DEF Clean, AllDefined
  <1> QED
    BY <1>1, PInvHolds, PTL DEF PtrSpec, WildOnlyFromUndefined

(* A deleted mem_block object is touched only when free() was given the    *)
(* block of a variable that is still in scope.                             *)
THEOREM DeletedNeedsFreedName == PtrSpec => DeletedOnlyThroughNames
  <1>1. PInv /\ [PtrNext]_mem =>
          [mem'.outcome = "ub_deleted" =>
             ~(InScopeBlocks(mem) \subseteq DOMAIN mem.active_mem)]_mem
    BY StepClean DEF Clean, NamesLive
  <1> QED
    BY <1>1, PInvHolds, PTL DEF PtrSpec, DeletedOnlyThroughNames

=============================================================================
