---------------------------- MODULE StartupProofs ----------------------------
(***************************************************************************)
(* Proofs about Startup for every program that C accepts, of any number of *)
(* files and declarations, and for every number of block and function ids. *)
(*                                                                         *)
(* The tables are parameters of the definitions here, so that a lemma can  *)
(* speak of them before and after a step: F is files, m is mem, L is       *)
(* local_vars, G is global_vars and fs is global_functions.                *)
(***************************************************************************)
EXTENDS Startup, MemoryProofs

(* The memory: as in MemoryProofs, and no block was ever deleted.          *)
SMem(m) ==
  /\ MemTypeOK(m) /\ CounterOK(m)
  /\ DOMAIN m.active_mem \subseteq Issued(m)
  /\ \A b \in DOMAIN m.active_mem : DOMAIN m.active_mem[b] = {"memtype", "size", "data"}

(* A block that holds a function's id, and that id.                        *)
Keyed(m, b) == m.active_mem[b].memtype \in {"INVALID", "STATIC"} /\ m.active_mem[b].data # <<>>
FidOf(m, b) == m.active_mem[b].data[1]

Has(F, s, n, kind) == \E k \in DOMAIN F[s] : F[s][k].name = n /\ F[s][k].kind = kind

(* File s defines n with external linkage.                                 *)
Exports(F, s, n) ==
  \E k \in DOMAIN F[s] : F[s][k].name = n /\ F[s][k].external /\ IsDefinition(F[s][k])

(***************************************************************************)
(* What an entry of a file's table can be: the block of a function that    *)
(* the file defines, of a variable that it defines, or of a function that  *)
(* no file defines.                                                        *)
(***************************************************************************)
FunEntry(F, m, fs, s, n, b) ==
  Has(F, s, n, "def") /\ Keyed(m, b) /\ FidOf(m, b) \in DOMAIN fs /\ fs[FidOf(m, b)] = s

VarEntry(F, m, s, n, b) == Has(F, s, n, "var") /\ m.active_mem[b].memtype = "GLOBAL"

ExternEntry(F, m, s, n, b) ==
  /\ ~Has(F, s, n, "def") /\ ~Has(F, s, n, "var")
  /\ \A t \in DOMAIN F : ~Exports(F, t, n)
  /\ m.active_mem[b].memtype \in {"EXTERN", "STATIC"} /\ m.active_mem[b].data = <<>>

Entry(F, m, fs, s, n, b) ==
  /\ b \in DOMAIN m.active_mem
  /\ FunEntry(F, m, fs, s, n, b) \/ VarEntry(F, m, s, n, b) \/ ExternEntry(F, m, s, n, b)

Entries(F, m, L, fs) ==
  \A s \in DOMAIN F : \A n \in DOMAIN L[s] : Entry(F, m, fs, s, n, L[s][n])

(* No two names share a block.                                             *)
Apart(F, L) ==
  \A s, t \in DOMAIN F : \A n \in DOMAIN L[s], q \in DOMAIN L[t] :
    L[s][n] = L[t][q] => s = t /\ n = q

(* global_vars leads to files that define the name, and knows every name   *)
(* of external linkage that its file has bound.                            *)
Linkage(F, L, G) ==
  /\ \A n \in DOMAIN G : G[n] \in DOMAIN F /\ n \in DOMAIN L[G[n]] /\ Exports(F, G[n], n)
  /\ \A s \in DOMAIN F : \A n \in DOMAIN L[s] : Exports(F, s, n) => n \in DOMAIN G

TablesOK(F, m, L, G, fs) ==
  /\ DOMAIN L = DOMAIN F
  /\ Entries(F, m, L, fs) /\ Apart(F, L) /\ Linkage(F, L, G)

(* The counter of function ids is past all ids given out, or has wrapped.  *)
FidsOK(m, c, fs) ==
  /\ c \in 0 .. (FidSpace - 1)
  /\ c = 0 \/ c >= NUM_EXTERNAL_FUNCTIONS
  /\ \A f \in DOMAIN fs : f \in Nat /\ f >= NUM_EXTERNAL_FUNCTIONS /\ (c = 0 \/ f < c)
  /\ \A b \in DOMAIN m.active_mem : Keyed(m, b) => FidOf(m, b) \in DOMAIN fs
  /\ \A a, b \in DOMAIN m.active_mem :
       (Keyed(m, a) /\ Keyed(m, b) /\ FidOf(m, a) = FidOf(m, b)) => a = b

(***************************************************************************)
(* How far main() has come: which declarations the loops have passed, and  *)
(* what is then true of their names.                                       *)
(***************************************************************************)
Res(L, G, s, n) ==
  IF n \in DOMAIN L[s] THEN L[s][n]
  ELSE IF n \in DOMAIN G THEN L[G[n]][n] ELSE NullBlock

PcOK(F, p) ==
  /\ DOMAIN p = {"phase", "file", "k"}
  /\ p.phase \in {"store", "check", "setup", "init", "run"}
  /\ p.file \in DOMAIN F
  /\ p.k \in 1 .. (Len(F[p.file]) + 1)

DoneStore(p, s, k) == p.phase # "store" \/ s < p.file \/ (s = p.file /\ k < p.k)

DoneSetup(p, s, k) ==
  \/ p.phase = "run"
  \/ p.phase \in {"setup", "init"} /\ s < p.file
  \/ p.phase = "setup" /\ s = p.file /\ k < p.k
  \/ p.phase = "init" /\ s = p.file

DoneInit(p, s, k) ==
  \/ p.phase = "run"
  \/ p.phase \in {"setup", "init"} /\ s < p.file
  \/ p.phase = "init" /\ s = p.file /\ k < p.k

Stored(F, p, L) ==
  \A s \in DOMAIN F : \A k \in DOMAIN F[s] :
    (DoneStore(p, s, k) /\ F[s][k].kind = "def") => F[s][k].name \in DOMAIN L[s]

Allocated(F, p, L) ==
  \A s \in DOMAIN F : \A k \in DOMAIN F[s] :
    (DoneSetup(p, s, k) /\ F[s][k].kind = "var") => F[s][k].name \in DOMAIN L[s]

IsShown(m, b) == b # NullBlock /\ m.active_mem[b].memtype # "INVALID"

Shown(F, p, m, L, G) ==
  \A s \in DOMAIN F : \A k \in DOMAIN F[s] :
    (DoneSetup(p, s, k) /\ IsFunction(F[s][k])) => IsShown(m, Res(L, G, s, F[s][k].name))

Initialized(F, p, m, L) ==
  \A s \in DOMAIN F : \A k \in DOMAIN F[s] :
    (DoneInit(p, s, k) /\ F[s][k].kind = "var" /\ F[s][k].init = "0")
      => m.active_mem[L[s][F[s][k].name]].data = <<Constant>>

Progress(F, p, m, L, G) ==
  Stored(F, p, L) /\ Allocated(F, p, L) /\ Shown(F, p, m, L, G) /\ Initialized(F, p, m, L)

(* The inductive invariant.  An error exit can leave a declaration passed  *)
(* that has no block.                                                      *)
SInv ==
  /\ files \in Programs
  /\ PcOK(files, pc)
  /\ main_source \in {0} \cup DOMAIN files
  /\ SMem(mem)
  /\ FidsOK(mem, fid_counter, global_functions)
  /\ TablesOK(files, mem, local_vars, global_vars, global_functions)
  /\ mem.outcome # "exit" => Progress(files, pc, mem, local_vars, global_vars)

-----------------------------------------------------------------------------
(***************************************************************************)
(* The memory.                                                             *)
(***************************************************************************)

(* A new block has an id that no block had, and leaves the others alone.   *)
LEMMA NewBlock ==
  ASSUME NEW m, SMem(m), m.outcome = "run", m.id_counter # 0,
         NEW t \in mem_type_t, NEW d, Len(d) \in Nat,
         NEW n, n = mem_block(m, t, d)
  PROVE  /\ SMem(n) /\ n.outcome = "run"
         /\ m.id_counter \notin DOMAIN m.active_mem
         /\ DOMAIN n.active_mem = DOMAIN m.active_mem \cup {m.id_counter}
         /\ n.active_mem[m.id_counter].memtype = t
         /\ n.active_mem[m.id_counter].data = d
         /\ \A b \in DOMAIN m.active_mem : n.active_mem[b] = m.active_mem[b]
  <1> DEFINE c == m.id_counter
             blk == [memtype |-> t, size |-> Len(d), data |-> d]
  <1>1. MemTypeOK(m) /\ CounterOK(m) /\ DOMAIN m.active_mem \subseteq Issued(m)
    BY DEF SMem
  <1>2. /\ n.outcome = "run" /\ CounterOK(n)
        /\ Issued(n) = Issued(m) \cup {c} /\ c \notin Issued(m)
        /\ DOMAIN n.active_mem = DOMAIN m.active_mem \cup {c}
        /\ \A b \in DOMAIN m.active_mem : b # c => n.active_mem[b] = m.active_mem[b]
    BY <1>1, BlockEffect
  <1>3. MemTypeOK(n)
    BY <1>1, BlockType
  <1>4. n.active_mem[c] = blk
    BY <1>1 DEF mem_block, new_block_id, Enters, MemTypeOK
  <1>5. blk.memtype = t /\ blk.data = d /\ DOMAIN blk = {"memtype", "size", "data"}
    OBVIOUS
  <1> HIDE DEF c, blk
  <1>6. c \notin DOMAIN m.active_mem
    BY <1>1, <1>2
  <1>7. \A b \in DOMAIN m.active_mem : n.active_mem[b] = m.active_mem[b]
    BY <1>2, <1>6
  <1>8. \A b \in DOMAIN n.active_mem : DOMAIN n.active_mem[b] = {"memtype", "size", "data"}
    BY <1>2, <1>4, <1>5, <1>7 DEF SMem
  <1>9. SMem(n)
    BY <1>1, <1>2, <1>3, <1>8 DEF SMem
  <1> QED
    BY <1>2, <1>4, <1>5, <1>6, <1>7, <1>9 DEF c

(* Ending the program changes nothing but the outcome.                     *)
LEMMA EndMem ==
  ASSUME NEW m, SMem(m), NEW how \in Outcomes, NEW n, n = End(m, how)
  PROVE  SMem(n) /\ n.outcome = how /\ n.active_mem = m.active_mem
  <1>1. MemTypeOK(n)
    BY EndType DEF SMem
  <1>2. n.outcome = how /\ n.id_counter = m.id_counter /\ n.active_mem = m.active_mem
    BY EndCounter DEF SMem
  <1> QED
    BY <1>1, <1>2 DEF SMem, CounterOK, Issued

(* An update of one field of a block.                                      *)
LEMMA UnhideMem ==
  ASSUME NEW m, SMem(m), NEW b \in DOMAIN m.active_mem,
         NEW n, n = [m EXCEPT !.active_mem[b].memtype = "STATIC"]
  PROVE  /\ SMem(n) /\ n.outcome = m.outcome
         /\ DOMAIN n.active_mem = DOMAIN m.active_mem
         /\ n.active_mem[b].memtype = "STATIC" /\ n.active_mem[b].data = m.active_mem[b].data
         /\ \A c \in DOMAIN m.active_mem : c # b => n.active_mem[c] = m.active_mem[c]
  <1>1. /\ DOMAIN n = DOMAIN m /\ n.outcome = m.outcome /\ n.id_counter = m.id_counter
        /\ n.stack_vars = m.stack_vars /\ n.stack_var_map = m.stack_var_map
        /\ n.active_mem = [m.active_mem EXCEPT ![b].memtype = "STATIC"]
    BY DEF SMem, MemTypeOK
  <1>2. /\ DOMAIN n.active_mem = DOMAIN m.active_mem
        /\ n.active_mem[b] = [m.active_mem[b] EXCEPT !.memtype = "STATIC"]
        /\ \A c \in DOMAIN m.active_mem : c # b => n.active_mem[c] = m.active_mem[c]
    BY <1>1
  <1>3. DOMAIN m.active_mem[b] = {"memtype", "size", "data"}
    BY DEF SMem
  <1>4. /\ DOMAIN n.active_mem[b] = {"memtype", "size", "data"}
        /\ n.active_mem[b].memtype = "STATIC"
        /\ n.active_mem[b].size = m.active_mem[b].size
        /\ n.active_mem[b].data = m.active_mem[b].data
    BY <1>2, <1>3
  <1>5. MemTypeOK(n)
    BY <1>1, <1>2, <1>4 DEF SMem, MemTypeOK, mem_type_t
  <1>6. SMem(n)
    BY <1>1, <1>2, <1>4, <1>5 DEF SMem, CounterOK, Issued
  <1> QED
    BY <1>1, <1>2, <1>4, <1>6

(* The same for the data of a block.                                       *)
LEMMA WriteMem ==
  ASSUME NEW m, SMem(m), NEW b \in DOMAIN m.active_mem, NEW d,
         NEW n, n = [m EXCEPT !.active_mem[b].data = d]
  PROVE  /\ SMem(n) /\ n.outcome = m.outcome
         /\ DOMAIN n.active_mem = DOMAIN m.active_mem
         /\ n.active_mem[b].memtype = m.active_mem[b].memtype /\ n.active_mem[b].data = d
         /\ \A c \in DOMAIN m.active_mem : c # b => n.active_mem[c] = m.active_mem[c]
  <1>1. /\ DOMAIN n = DOMAIN m /\ n.outcome = m.outcome /\ n.id_counter = m.id_counter
        /\ n.stack_vars = m.stack_vars /\ n.stack_var_map = m.stack_var_map
        /\ n.active_mem = [m.active_mem EXCEPT ![b].data = d]
    BY DEF SMem, MemTypeOK
  <1>2. /\ DOMAIN n.active_mem = DOMAIN m.active_mem
        /\ n.active_mem[b] = [m.active_mem[b] EXCEPT !.data = d]
        /\ \A c \in DOMAIN m.active_mem : c # b => n.active_mem[c] = m.active_mem[c]
    BY <1>1
  <1>3. DOMAIN m.active_mem[b] = {"memtype", "size", "data"}
    BY DEF SMem
  <1>4. /\ DOMAIN n.active_mem[b] = {"memtype", "size", "data"}
        /\ n.active_mem[b].memtype = m.active_mem[b].memtype
        /\ n.active_mem[b].size = m.active_mem[b].size
        /\ n.active_mem[b].data = d
    BY <1>2, <1>3
  <1>5. MemTypeOK(n)
    BY <1>1, <1>2, <1>4 DEF SMem, MemTypeOK
  <1>6. SMem(n)
    BY <1>1, <1>2, <1>4, <1>5 DEF SMem, CounterOK, Issued
  <1> QED
    BY <1>1, <1>2, <1>4, <1>6

-----------------------------------------------------------------------------
(***************************************************************************)
(* The tables.                                                             *)
(***************************************************************************)

(* What no step of the start-up does to a block that is there.             *)
Grows(m, n) ==
  \A b \in DOMAIN m.active_mem :
    /\ b \in DOMAIN n.active_mem
    /\ Keyed(n, b) <=> Keyed(m, b)
    /\ Keyed(m, b) => FidOf(n, b) = FidOf(m, b)
    /\ m.active_mem[b].memtype = "GLOBAL" => n.active_mem[b].memtype = "GLOBAL"
    /\ (m.active_mem[b].memtype \in {"EXTERN", "STATIC"} /\ m.active_mem[b].data = <<>>)
         => (n.active_mem[b].memtype \in {"EXTERN", "STATIC"} /\ n.active_mem[b].data = <<>>)
    /\ m.active_mem[b].memtype # "INVALID" => n.active_mem[b].memtype # "INVALID"

(* Insert in the table of a file, and in a table.                          *)
Extended(L, L2, s, name, b) ==
  /\ DOMAIN L2 = DOMAIN L
  /\ \A t \in DOMAIN L : t # s => L2[t] = L[t]
  /\ DOMAIN L2[s] = DOMAIN L[s] \cup {name}
  /\ \A q \in DOMAIN L[s] : L2[s][q] = L[s][q]
  /\ name \notin DOMAIN L[s] => L2[s][name] = b

Added(G, G2, k, v) ==
  /\ DOMAIN G2 = DOMAIN G \cup {k}
  /\ \A q \in DOMAIN G : G2[q] = G[q]
  /\ k \notin DOMAIN G => G2[k] = v

Within(fs, fs2) == \A f \in DOMAIN fs : f \in DOMAIN fs2 /\ fs2[f] = fs[f]

(* map.insert never changes an entry.                                      *)
LEMMA InsertAdds ==
  ASSUME NEW G, NEW k, NEW v, NEW G2, G2 = Insert(G, k, v)
  PROVE  Added(G, G2, k, v) /\ Within(G, G2)
  BY DEF Insert, Added, Within

(* The same in the table of a file.                                        *)
LEMMA InsertExtends ==
  ASSUME NEW L, NEW s \in DOMAIN L, NEW name, NEW b,
         NEW L2, L2 = [L EXCEPT ![s] = Insert(@, name, b)]
  PROVE  Extended(L, L2, s, name, b)
  <1> DEFINE T == Insert(L[s], name, b)
  <1>1. Added(L[s], T, name, b)
    BY InsertAdds
  <1> HIDE DEF T
  <1>2. L2 = [L EXCEPT ![s] = T]
    BY DEF T
  <1>3. DOMAIN L2 = DOMAIN L /\ L2[s] = T /\ \A t \in DOMAIN L : t # s => L2[t] = L[t]
    BY <1>2
  <1> QED
    BY <1>1, <1>3 DEF Added, Extended

(* An entry stays what it is.                                              *)
LEMMA EntryStays ==
  ASSUME NEW F, NEW m, NEW n, Grows(m, n), NEW fs, NEW fs2, Within(fs, fs2),
         NEW s, NEW q, NEW b, Entry(F, m, fs, s, q, b)
  PROVE  Entry(F, n, fs2, s, q, b)
  <1>1. b \in DOMAIN m.active_mem /\ b \in DOMAIN n.active_mem
    BY DEF Entry, Grows
  <1>2. CASE FunEntry(F, m, fs, s, q, b)
    BY <1>1, <1>2 DEF FunEntry, Grows, Within, Entry
  <1>3. CASE VarEntry(F, m, s, q, b)
    BY <1>1, <1>3 DEF VarEntry, Grows, Entry
  <1>4. CASE ExternEntry(F, m, s, q, b)
    BY <1>1, <1>4 DEF ExternEntry, Grows, Entry
  <1> QED
    BY <1>2, <1>3, <1>4 DEF Entry

(* Steps that bind no name keep the tables right.                          *)
LEMMA TablesStay ==
  ASSUME NEW F, NEW m, NEW L, NEW G, NEW fs, TablesOK(F, m, L, G, fs),
         NEW n, Grows(m, n), NEW fs2, Within(fs, fs2)
  PROVE  TablesOK(F, n, L, G, fs2)
  BY EntryStays DEF TablesOK, Entries

(* A name is bound: the table of the file refers to the new block, unless  *)
(* it had an entry, and global_vars to the file, if the name is external.  *)
LEMMA TablesBound ==
  ASSUME NEW F, NEW m, NEW L, NEW G, NEW fs, TablesOK(F, m, L, G, fs),
         NEW n, Grows(m, n), NEW fs2, Within(fs, fs2),
         NEW s \in DOMAIN F, NEW name, NEW b, b \notin DOMAIN m.active_mem,
         name \notin DOMAIN L[s] => Entry(F, n, fs2, s, name, b),
         NEW L2, Extended(L, L2, s, name, b),
         NEW G2, IF Exports(F, s, name) THEN Added(G, G2, name, s) ELSE G2 = G
  PROVE  TablesOK(F, n, L2, G2, fs2)
  <1>1. /\ DOMAIN L = DOMAIN F /\ DOMAIN L2 = DOMAIN F
        /\ Entries(F, m, L, fs) /\ Apart(F, L) /\ Linkage(F, L, G)
    BY DEF TablesOK, Extended
  <1>2. \A t \in DOMAIN F : \A q \in DOMAIN L2[t] :
          \/ q \in DOMAIN L[t] /\ L2[t][q] = L[t][q]
          \/ t = s /\ q = name /\ name \notin DOMAIN L[s] /\ L2[t][q] = b
    BY <1>1 DEF Extended
  <1>3. \A t \in DOMAIN F : \A q \in DOMAIN L[t] : q \in DOMAIN L2[t] /\ L2[t][q] = L[t][q]
    BY <1>1 DEF Extended
  <1>4. \A t \in DOMAIN F : \A q \in DOMAIN L[t] : Entry(F, n, fs2, t, q, L[t][q])
    BY <1>1, EntryStays DEF Entries
  <1>5. Entries(F, n, L2, fs2)
    BY <1>2, <1>4 DEF Entries
  <1>6. \A t \in DOMAIN F : \A q \in DOMAIN L[t] : L[t][q] # b
    BY <1>1 DEF Entries, Entry
  <1>7. Apart(F, L2)
    BY <1>1, <1>2, <1>6 DEF Apart
  <1>8. \A q \in DOMAIN G2 : \/ q \in DOMAIN G /\ G2[q] = G[q]
                             \/ q = name /\ G2[q] = s /\ Exports(F, s, name)
    BY DEF Added
  <1>9. DOMAIN G \subseteq DOMAIN G2 /\ (Exports(F, s, name) => name \in DOMAIN G2)
    BY DEF Added
  <1>10. name \in DOMAIN L2[s]
    BY DEF Extended
  <1>11. Linkage(F, L2, G2)
    BY <1>1, <1>2, <1>3, <1>8, <1>9, <1>10 DEF Linkage
  <1> QED
    BY <1>1, <1>5, <1>7, <1>11 DEF TablesOK

(* What a file means by a name changes only when the file binds the name.  *)
LEMMA ResStays ==
  ASSUME NEW F, NEW L, NEW G, DOMAIN L = DOMAIN F, Linkage(F, L, G),
         NEW s \in DOMAIN F, NEW name, NEW b,
         NEW L2, Extended(L, L2, s, name, b),
         NEW G2, Added(G, G2, name, s) \/ G2 = G,
         NEW t \in DOMAIN F, NEW q, Res(L, G, t, q) # NullBlock,
         t = s /\ q = name => q \in DOMAIN L[t]
  PROVE  Res(L2, G2, t, q) = Res(L, G, t, q)
  <1>1. \A u \in DOMAIN F : \A r \in DOMAIN L[u] : r \in DOMAIN L2[u] /\ L2[u][r] = L[u][r]
    BY DEF Extended
  <1>2. \A r \in DOMAIN G : r \in DOMAIN G2 /\ G2[r] = G[r]
    BY DEF Added
  <1>3. q \in DOMAIN L2[t] <=> q \in DOMAIN L[t]
    BY DEF Extended
  <1>4. CASE q \in DOMAIN L[t]
    BY <1>1, <1>3, <1>4 DEF Res
  <1>5. CASE q \notin DOMAIN L[t] /\ q \in DOMAIN G
    <2>1. G[q] \in DOMAIN F /\ q \in DOMAIN L[G[q]]
      BY <1>5 DEF Linkage
    <2>2. L2[G2[q]][q] = L[G[q]][q]
      BY <1>1, <1>2, <1>5, <2>1
    <2> QED
      BY <1>2, <1>3, <1>5, <2>2 DEF Res
  <1>6. q \in DOMAIN L[t] \/ q \in DOMAIN G
    BY DEF Res
  <1> QED
    BY <1>4, <1>5, <1>6

(* A name that is found is found in a table, as an entry of the file that  *)
(* has the name there.                                                     *)
LEMMA ResEntry ==
  ASSUME NEW F, NEW m, NEW L, NEW G, NEW fs, TablesOK(F, m, L, G, fs),
         NEW s \in DOMAIN F, NEW q, Res(L, G, s, q) # NullBlock
  PROVE  \E t \in DOMAIN F :
           /\ q \in DOMAIN L[t] /\ Res(L, G, s, q) = L[t][q]
           /\ Entry(F, m, fs, t, q, L[t][q])
           /\ t = s \/ (q \notin DOMAIN L[s] /\ Exports(F, t, q))
  <1>1. CASE q \in DOMAIN L[s]
    BY <1>1 DEF Res, TablesOK, Entries
  <1>2. CASE q \notin DOMAIN L[s]
    <2>1. q \in DOMAIN G /\ Res(L, G, s, q) = L[G[q]][q]
      BY <1>2 DEF Res
    <2>2. G[q] \in DOMAIN F /\ q \in DOMAIN L[G[q]] /\ Exports(F, G[q], q)
      BY <2>1 DEF TablesOK, Linkage
    <2>3. Entry(F, m, fs, G[q], q, L[G[q]][q])
      BY <2>2 DEF TablesOK, Entries
    <2> QED
      BY <1>2, <2>1, <2>2, <2>3
  <1> QED
    BY <1>1, <1>2

(* Blocks are never block 0.                                               *)
LEMMA BlockNotNull ==
  ASSUME NEW m, SMem(m), NEW b \in DOMAIN m.active_mem
  PROVE  b # NullBlock
  BY IdSpaceAssumption DEF SMem, Issued, NullBlock, BLOCK_ID_START, MemTypeOK, block_id_t

-----------------------------------------------------------------------------
(***************************************************************************)
(* Function ids.                                                           *)
(***************************************************************************)

(* Steps that define no function keep the ids right.                       *)
LEMMA FidsStay ==
  ASSUME NEW m, NEW c, NEW fs, FidsOK(m, c, fs), NEW n, Grows(m, n),
         \A b \in DOMAIN n.active_mem : b \notin DOMAIN m.active_mem => ~Keyed(n, b)
  PROVE  FidsOK(n, c, fs)
  <1>1. \A b \in DOMAIN n.active_mem :
          Keyed(n, b) => b \in DOMAIN m.active_mem /\ Keyed(m, b) /\ FidOf(n, b) = FidOf(m, b)
    BY DEF Grows
  <1> QED
    BY <1>1 DEF FidsOK

(* The next id is new, up to the last one: then the counter is 0.          *)
LEMMA FidsNext ==
  ASSUME NEW m, NEW c, NEW fs, FidsOK(m, c, fs), c # 0, NEW s
  PROVE  /\ c \notin DOMAIN fs
         /\ FidsOK(m, (c + 1) % FidSpace, Insert(fs, c, s))
  <1> DEFINE e == (c + 1) % FidSpace
             fs2 == Insert(fs, c, s)
  <1>1. c \in Nat /\ c >= NUM_EXTERNAL_FUNCTIONS /\ c < FidSpace /\ FidSpace \in Nat
    BY FidSpaceAssumption DEF FidsOK
  <1>2. e = IF c + 1 = FidSpace THEN 0 ELSE c + 1
    BY <1>1
  <1>3. DOMAIN fs2 = DOMAIN fs \cup {c}
    BY DEF Insert
  <1>4. \A f \in DOMAIN fs : f \in Nat /\ f >= NUM_EXTERNAL_FUNCTIONS /\ f < c
    BY DEF FidsOK
  <1>5. c \notin DOMAIN fs
    BY <1>1, <1>4
  <1> HIDE DEF e, fs2
  <1>6. \A f \in DOMAIN fs2 : f \in Nat /\ f >= NUM_EXTERNAL_FUNCTIONS /\ (e = 0 \/ f < e)
    BY <1>1, <1>2, <1>3, <1>4 DEF NUM_EXTERNAL_FUNCTIONS
  <1>7. e \in 0 .. (FidSpace - 1) /\ (e = 0 \/ e >= NUM_EXTERNAL_FUNCTIONS)
    BY <1>1, <1>2 DEF NUM_EXTERNAL_FUNCTIONS
  <1>8. FidsOK(m, e, fs2)
    BY <1>3, <1>6, <1>7 DEF FidsOK
  <1> QED
    BY <1>5, <1>8 DEF e, fs2

(* The block of a new function holds an id that no other block holds.      *)
LEMMA FidsNew ==
  ASSUME NEW m, NEW c, NEW fs, FidsOK(m, c, fs), c # 0, NEW s,
         NEW n, Grows(m, n), NEW b, b \notin DOMAIN m.active_mem,
         DOMAIN n.active_mem = DOMAIN m.active_mem \cup {b},
         n.active_mem[b].data = <<c>>
  PROVE  FidsOK(n, (c + 1) % FidSpace, Insert(fs, c, s))
  <1> DEFINE e == (c + 1) % FidSpace
             fs2 == Insert(fs, c, s)
  <1>1. c \notin DOMAIN fs /\ FidsOK(m, e, fs2)
    BY FidsNext
  <1>2. DOMAIN fs2 = DOMAIN fs \cup {c}
    BY DEF Insert
  <1>3. FidOf(n, b) = c
    BY DEF FidOf
  <1> HIDE DEF e, fs2
  <1>4. \A a \in DOMAIN m.active_mem : Keyed(n, a) =>
          Keyed(m, a) /\ FidOf(n, a) = FidOf(m, a) /\ FidOf(m, a) \in DOMAIN fs
    BY DEF Grows, FidsOK
  <1>5. \A a \in DOMAIN n.active_mem : Keyed(n, a) => FidOf(n, a) \in DOMAIN fs2
    BY <1>2, <1>3, <1>4
  <1>6. \A a, d \in DOMAIN n.active_mem :
          (Keyed(n, a) /\ Keyed(n, d) /\ FidOf(n, a) = FidOf(n, d)) => a = d
    <2>1. \A a, d \in DOMAIN m.active_mem :
            (Keyed(n, a) /\ Keyed(n, d) /\ FidOf(n, a) = FidOf(n, d)) => a = d
      BY <1>4 DEF FidsOK
    <2>2. \A a \in DOMAIN m.active_mem : Keyed(n, a) => FidOf(n, a) # c
      BY <1>1, <1>4
    <2> QED
      BY <1>3, <2>1, <2>2
  <1>7. FidsOK(n, e, fs2)
    BY <1>1, <1>5, <1>6 DEF FidsOK
  <1> QED
    BY <1>7 DEF e, fs2

-----------------------------------------------------------------------------
(***************************************************************************)
(* Programs.                                                               *)
(***************************************************************************)

(* The declarations of a program.                                          *)
LEMMA DeclFacts ==
  ASSUME NEW F, Accepted(F), NEW s \in DOMAIN F
  PROVE  /\ Len(F) \in Nat /\ Len(F) > 0 /\ DOMAIN F = 1 .. Len(F)
         /\ Len(F[s]) \in Nat /\ DOMAIN F[s] = 1 .. Len(F[s])
         /\ \A k \in DOMAIN F[s] :
              /\ F[s][k].kind \in {"def", "decl", "var", "extern"}
              /\ F[s][k].external \in BOOLEAN
  <1>1. F \in Seq(Seq(DeclType)) /\ Len(F) > 0
    BY DEF Accepted
  <1>2. Len(F) \in Nat /\ DOMAIN F = 1 .. Len(F) /\ F[s] \in Seq(DeclType)
    BY <1>1
  <1>3. Len(F[s]) \in Nat /\ DOMAIN F[s] = 1 .. Len(F[s]) /\ \A k \in DOMAIN F[s] : F[s][k] \in DeclType
    BY <1>2
  <1> QED
    BY <1>1, <1>2, <1>3 DEF DeclType

(* In a file, a name is a function or a variable, with one linkage.        *)
LEMMA SameFile ==
  ASSUME NEW F, Accepted(F), NEW s \in DOMAIN F, NEW j \in DOMAIN F[s], NEW k \in DOMAIN F[s],
         F[s][j].name = F[s][k].name
  PROVE  /\ IsFunction(F[s][j]) <=> IsFunction(F[s][k])
         /\ F[s][j].external <=> F[s][k].external
  BY DEF Accepted, Agree

(* A function is no variable of its file.                                  *)
LEMMA FunctionNotVar ==
  ASSUME NEW F, Accepted(F), NEW s \in DOMAIN F, NEW k \in DOMAIN F[s], IsFunction(F[s][k])
  PROVE  ~Has(F, s, F[s][k].name, "var")
  BY SameFile DEF Has, IsFunction

(* A variable is no function of its file.                                  *)
LEMMA VarNotFunction ==
  ASSUME NEW F, Accepted(F), NEW s \in DOMAIN F, NEW k \in DOMAIN F[s], F[s][k].kind = "var"
  PROVE  ~Has(F, s, F[s][k].name, "def")
  BY SameFile DEF Has, IsFunction

(* A definition exports its name if it is external.                        *)
LEMMA ExportsExternal ==
  ASSUME NEW F, Accepted(F), NEW s \in DOMAIN F, NEW k \in DOMAIN F[s], IsDefinition(F[s][k])
  PROVE  Exports(F, s, F[s][k].name) <=> F[s][k].external
  BY SameFile DEF Exports

(* Only one file exports a name.                                           *)
LEMMA OneExporter ==
  ASSUME NEW F, Accepted(F), NEW s \in DOMAIN F, NEW t \in DOMAIN F, NEW n,
         Exports(F, s, n), Exports(F, t, n)
  PROVE  s = t
  BY DEF Exports, Accepted, Agree

(* A name that a file only declares is external.                           *)
LEMMA OnlyDeclared ==
  ASSUME NEW F, Accepted(F), NEW s \in DOMAIN F, NEW k \in DOMAIN F[s],
         ~Has(F, s, F[s][k].name, "def"), ~Has(F, s, F[s][k].name, "var")
  PROVE  F[s][k].external
  <1>1. F[s][k].external \/ \E j \in DOMAIN F[s] : F[s][j].name = F[s][k].name /\ IsDefinition(F[s][j])
    BY Zenon DEF Accepted
  <1>2. \A j \in DOMAIN F[s] : ~(F[s][j].name = F[s][k].name /\ IsDefinition(F[s][j]))
    BY DEF Has, IsDefinition
  <1> QED
    BY <1>1, <1>2, Zenon

(* What a file declares and another defines is a function in both or none. *)
LEMMA SameKind ==
  ASSUME NEW F, Accepted(F), NEW s \in DOMAIN F, NEW k \in DOMAIN F[s], F[s][k].external,
         NEW t \in DOMAIN F, Exports(F, t, F[s][k].name)
  PROVE  Has(F, t, F[s][k].name, IF IsFunction(F[s][k]) THEN "def" ELSE "var")
  <1>1. PICK j \in DOMAIN F[t] :
          F[t][j].name = F[s][k].name /\ F[t][j].external /\ IsDefinition(F[t][j])
    BY DEF Exports
  <1>2. IsFunction(F[s][k]) <=> IsFunction(F[t][j])
    BY <1>1 DEF Accepted, Agree
  <1> QED
    BY <1>1, <1>2 DEF Has, IsFunction, IsDefinition

-----------------------------------------------------------------------------
(***************************************************************************)
(* What a step does to the blocks that are there.                          *)
(***************************************************************************)
SameData(m, n) == \A b \in DOMAIN m.active_mem : n.active_mem[b].data = m.active_mem[b].data

(* Nothing, when it makes a new block or ends the program.                 *)
LEMMA GrowsNew ==
  ASSUME NEW m, NEW n, DOMAIN m.active_mem \subseteq DOMAIN n.active_mem,
         \A b \in DOMAIN m.active_mem : n.active_mem[b] = m.active_mem[b]
  PROVE  Grows(m, n) /\ SameData(m, n)
  BY DEF Grows, SameData, Keyed, FidOf

(* It unhides the block of a function, whose id stays.                     *)
LEMMA GrowsUnhide ==
  ASSUME NEW m, SMem(m), NEW b \in DOMAIN m.active_mem,
         Keyed(m, b) \/ (m.active_mem[b].memtype \in {"EXTERN", "STATIC"} /\ m.active_mem[b].data = <<>>),
         NEW n, n = [m EXCEPT !.active_mem[b].memtype = "STATIC"]
  PROVE  Grows(m, n) /\ SameData(m, n)
  <1>1. /\ DOMAIN n.active_mem = DOMAIN m.active_mem
        /\ n.active_mem[b].memtype = "STATIC" /\ n.active_mem[b].data = m.active_mem[b].data
        /\ \A c \in DOMAIN m.active_mem : c # b => n.active_mem[c] = m.active_mem[c]
    BY UnhideMem
  <1> QED
    BY <1>1 DEF Grows, SameData, Keyed, FidOf

(* It writes to the block of a variable.                                   *)
LEMMA GrowsWrite ==
  ASSUME NEW m, SMem(m), NEW b \in DOMAIN m.active_mem, m.active_mem[b].memtype = "GLOBAL",
         NEW d, NEW n, n = [m EXCEPT !.active_mem[b].data = d]
  PROVE  Grows(m, n)
  <1>1. /\ DOMAIN n.active_mem = DOMAIN m.active_mem
        /\ n.active_mem[b].memtype = m.active_mem[b].memtype
        /\ \A c \in DOMAIN m.active_mem : c # b => n.active_mem[c] = m.active_mem[c]
    BY WriteMem
  <1> QED
    BY <1>1 DEF Grows, Keyed, FidOf

(* What a declaration of a function finds is the block of a function.      *)
LEMMA FoundFunction ==
  ASSUME NEW F, Accepted(F), NEW m, NEW L, NEW G, NEW fs, TablesOK(F, m, L, G, fs),
         NEW s \in DOMAIN F, NEW k \in DOMAIN F[s], IsFunction(F[s][k]),
         Has(F, s, F[s][k].name, "def") => F[s][k].name \in DOMAIN L[s],
         NEW b, b = Res(L, G, s, F[s][k].name), b # NullBlock
  PROVE  /\ b \in DOMAIN m.active_mem
         /\ \/ Keyed(m, b) /\ FidOf(m, b) \in DOMAIN fs
            \/ m.active_mem[b].memtype \in {"EXTERN", "STATIC"} /\ m.active_mem[b].data = <<>>
  <1> DEFINE q == F[s][k].name
  <1>1. PICK t \in DOMAIN F :
          /\ b = L[t][q] /\ Entry(F, m, fs, t, q, b)
          /\ t = s \/ (q \notin DOMAIN L[s] /\ Exports(F, t, q))
    BY ResEntry
  <1>2. ~Has(F, t, q, "var")
    <2>1. CASE t = s
      BY <2>1, FunctionNotVar
    <2>2. CASE q \notin DOMAIN L[s] /\ Exports(F, t, q)
      <3>1. ~Has(F, s, q, "def") /\ ~Has(F, s, q, "var")
        BY <2>2, FunctionNotVar
      <3>2. F[s][k].external
        BY <3>1, OnlyDeclared
      <3>3. Has(F, t, q, "def")
        BY <2>2, <3>2, SameKind
      <3>4. PICK j \in DOMAIN F[t] : F[t][j].name = q /\ F[t][j].kind = "def"
        BY <3>3 DEF Has
      <3> QED
        BY <3>4, FunctionNotVar DEF IsFunction
    <2> QED
      BY <1>1, <2>1, <2>2
  <1> QED
    BY <1>1, <1>2 DEF Entry, FunEntry, VarEntry, ExternEntry

-----------------------------------------------------------------------------
(***************************************************************************)
(* The loops.                                                              *)
(***************************************************************************)

(* Advance passes one declaration.                                         *)
LEMMA AdvanceDone ==
  ASSUME NEW F, Accepted(F), NEW p, PcOK(F, p), p.k \in DOMAIN F[p.file],
         NEW r, r = [p EXCEPT !.k = @ + 1]
  PROVE  /\ PcOK(F, r)
         /\ r.phase = p.phase
         /\ \A s \in DOMAIN F : \A k \in DOMAIN F[s] :
              /\ DoneStore(r, s, k) => DoneStore(p, s, k) \/ (p.phase = "store" /\ s = p.file /\ k = p.k)
              /\ DoneSetup(r, s, k) => DoneSetup(p, s, k) \/ (p.phase = "setup" /\ s = p.file /\ k = p.k)
              /\ DoneInit(r, s, k) => DoneInit(p, s, k) \/ (p.phase = "init" /\ s = p.file /\ k = p.k)
  <1>1. DOMAIN p = {"phase", "file", "k"} /\ p.file \in DOMAIN F
    BY DEF PcOK
  <1>2. DOMAIN r = {"phase", "file", "k"} /\ r.phase = p.phase /\ r.file = p.file /\ r.k = p.k + 1
    BY <1>1
  <1>3. p.k \in 1 .. Len(F[p.file]) /\ Len(F[p.file]) \in Nat
    BY <1>1, DeclFacts
  <1>4. PcOK(F, r)
    BY <1>2, <1>3 DEF PcOK
  <1>5. \A s \in DOMAIN F : \A k \in DOMAIN F[s] : k \in Nat /\ (k < p.k + 1 => k < p.k \/ k = p.k)
    BY <1>3, DeclFacts
  <1> QED
    BY <1>2, <1>4, <1>5 DEF DoneStore, DoneSetup, DoneInit

(* What a step that binds or writes owes to the declarations passed.       *)
Passes(F, p, n, L, G) ==
  LET d == F[p.file][p.k]
  IN /\ p.phase = "store" /\ d.kind = "def" => d.name \in DOMAIN L[p.file]
     /\ p.phase = "setup" /\ d.kind = "var" => d.name \in DOMAIN L[p.file]
     /\ p.phase = "setup" /\ IsFunction(d) => IsShown(n, Res(L, G, p.file, d.name))
     /\ p.phase = "init" /\ d.kind = "var" /\ d.init = "0" =>
          n.active_mem[L[p.file][d.name]].data = <<Constant>>

BindingsStay(F, L, L2) ==
  \A s \in DOMAIN F : \A q \in DOMAIN L[s] : q \in DOMAIN L2[s] /\ L2[s][q] = L[s][q]

ShownStay(F, p, m, n, L, L2, G, G2) ==
  \A s \in DOMAIN F : \A k \in DOMAIN F[s] :
    (DoneSetup(p, s, k) /\ IsFunction(F[s][k]) /\ IsShown(m, Res(L, G, s, F[s][k].name)))
      => IsShown(n, Res(L2, G2, s, F[s][k].name))

ValuesStay(F, p, m, n, L) ==
  \A s \in DOMAIN F : \A k \in DOMAIN F[s] :
    (DoneInit(p, s, k) /\ F[s][k].kind = "var" /\ F[s][k].init = "0")
      => n.active_mem[L[s][F[s][k].name]].data = m.active_mem[L[s][F[s][k].name]].data

(* A step at a declaration keeps up the progress.                          *)
LEMMA ProgressPasses ==
  ASSUME NEW F, Accepted(F), NEW p, PcOK(F, p), p.k \in DOMAIN F[p.file],
         NEW r, r = [p EXCEPT !.k = @ + 1],
         NEW m, NEW L, NEW G, Progress(F, p, m, L, G),
         NEW n, NEW L2, NEW G2, BindingsStay(F, L, L2),
         ShownStay(F, p, m, n, L, L2, G, G2), ValuesStay(F, p, m, n, L),
         Passes(F, p, n, L2, G2)
  PROVE  Progress(F, r, n, L2, G2)
  <1>1. \A s \in DOMAIN F : \A k \in DOMAIN F[s] :
          /\ DoneStore(r, s, k) => DoneStore(p, s, k) \/ (p.phase = "store" /\ s = p.file /\ k = p.k)
          /\ DoneSetup(r, s, k) => DoneSetup(p, s, k) \/ (p.phase = "setup" /\ s = p.file /\ k = p.k)
          /\ DoneInit(r, s, k) => DoneInit(p, s, k) \/ (p.phase = "init" /\ s = p.file /\ k = p.k)
    BY AdvanceDone
  <1>2. Stored(F, r, L2)
    BY <1>1 DEF Stored, Progress, BindingsStay, Passes
  <1>3. Allocated(F, r, L2)
    BY <1>1 DEF Allocated, Progress, BindingsStay, Passes
  <1>4. Shown(F, r, n, L2, G2)
    BY <1>1 DEF Shown, Progress, ShownStay, Passes
  <1>5. Initialized(F, r, n, L2)
    <2>1. \A s \in DOMAIN F : \A k \in DOMAIN F[s] : DoneInit(p, s, k) => DoneSetup(p, s, k)
      BY DEF DoneInit, DoneSetup
    <2>2. \A s \in DOMAIN F : \A k \in DOMAIN F[s] : (DoneInit(p, s, k) /\ F[s][k].kind = "var") =>
            L2[s][F[s][k].name] = L[s][F[s][k].name]
      BY <2>1 DEF Progress, Allocated, BindingsStay
    <2>3. \A s \in DOMAIN F : \A k \in DOMAIN F[s] :
            (DoneInit(p, s, k) /\ F[s][k].kind = "var" /\ F[s][k].init = "0")
              => n.active_mem[L2[s][F[s][k].name]].data = <<Constant>>
      BY <2>2 DEF Progress, Initialized, ValuesStay
    <2> QED
      BY <1>1, <2>3 DEF Initialized, Passes
  <1> QED
    BY <1>2, <1>3, <1>4, <1>5 DEF Progress

(* A step that passes no declaration keeps up the progress.                *)
LEMMA ProgressStays ==
  ASSUME NEW F, NEW p, NEW r, NEW m, NEW L, NEW G, Progress(F, p, m, L, G),
         \A s \in DOMAIN F : \A k \in DOMAIN F[s] :
           /\ DoneStore(r, s, k) => DoneStore(p, s, k)
           /\ DoneSetup(r, s, k) => DoneSetup(p, s, k)
           /\ DoneInit(r, s, k) => DoneInit(p, s, k),
         NEW n, n.active_mem = m.active_mem
  PROVE  Progress(F, r, n, L, G)
  BY DEF Progress, Stored, Allocated, Shown, IsShown, Initialized

(* What was shown stays so when no name is bound.                          *)
LEMMA ShownUnbound ==
  ASSUME NEW F, NEW p, NEW m, NEW L, NEW G, NEW fs, TablesOK(F, m, L, G, fs), NEW n, Grows(m, n)
  PROVE  ShownStay(F, p, m, n, L, L, G, G)
  <1> SUFFICES ASSUME NEW s \in DOMAIN F, NEW k \in DOMAIN F[s], IsShown(m, Res(L, G, s, F[s][k].name))
               PROVE  IsShown(n, Res(L, G, s, F[s][k].name))
    BY DEF ShownStay
  <1> DEFINE b == Res(L, G, s, F[s][k].name)
  <1>1. b # NullBlock /\ m.active_mem[b].memtype # "INVALID"
    BY DEF IsShown
  <1>2. b \in DOMAIN m.active_mem
    BY <1>1, ResEntry DEF Entry
  <1> HIDE DEF b
  <1>3. IsShown(n, b)
    BY <1>1, <1>2 DEF Grows, IsShown
  <1> QED
    BY <1>3 DEF b

(* What was shown stays so when a name is bound that was not shown.        *)
LEMMA ShownBound ==
  ASSUME NEW F, NEW p, NEW m, NEW L, NEW G, NEW fs, TablesOK(F, m, L, G, fs), NEW n, Grows(m, n),
         NEW s \in DOMAIN F, NEW name, NEW c, NEW L2, Extended(L, L2, s, name, c),
         NEW G2, Added(G, G2, name, s) \/ G2 = G,
         \A k \in DOMAIN F[s] :
           (DoneSetup(p, s, k) /\ IsFunction(F[s][k]) /\ F[s][k].name = name
              /\ Res(L, G, s, name) # NullBlock) => name \in DOMAIN L[s]
  PROVE  ShownStay(F, p, m, n, L, L2, G, G2)
  <1> SUFFICES ASSUME NEW t \in DOMAIN F, NEW k \in DOMAIN F[t], DoneSetup(p, t, k),
                      IsFunction(F[t][k]), IsShown(m, Res(L, G, t, F[t][k].name))
               PROVE  IsShown(n, Res(L2, G2, t, F[t][k].name))
    BY DEF ShownStay
  <1>1. IsShown(n, Res(L, G, t, F[t][k].name))
    BY ShownUnbound DEF ShownStay
  <1>2. DOMAIN L = DOMAIN F /\ Linkage(F, L, G)
    BY DEF TablesOK
  <1>3. Res(L, G, t, F[t][k].name) # NullBlock
    BY DEF IsShown
  <1>4. Res(L2, G2, t, F[t][k].name) = Res(L, G, t, F[t][k].name)
    BY <1>2, <1>3, ResStays
  <1> QED
    BY <1>1, <1>4

(* Initial values stay when no data changes.                               *)
LEMMA ValuesSame ==
  ASSUME NEW F, NEW p, NEW m, NEW L, NEW G, NEW fs, TablesOK(F, m, L, G, fs),
         Allocated(F, p, L), NEW n, SameData(m, n)
  PROVE  ValuesStay(F, p, m, n, L)
  <1>1. \A s \in DOMAIN F : \A k \in DOMAIN F[s] : DoneInit(p, s, k) => DoneSetup(p, s, k)
    BY DEF DoneInit, DoneSetup
  <1>2. \A s \in DOMAIN F : \A k \in DOMAIN F[s] : (DoneInit(p, s, k) /\ F[s][k].kind = "var") =>
          L[s][F[s][k].name] \in DOMAIN m.active_mem
    BY <1>1 DEF Allocated, TablesOK, Entries, Entry
  <1> QED
    BY <1>2 DEF ValuesStay, SameData

-----------------------------------------------------------------------------
(***************************************************************************)
(* The steps.                                                              *)
(***************************************************************************)

(* Resolve, on the tables.                                                 *)
LEMMA ResolveIsRes ==
  ASSUME NEW s, NEW n
  PROVE  Resolve(s, n) = Res(local_vars, global_vars, s, n)
  BY DEF Resolve, Res

(* Where a step at a declaration starts from.                              *)
Here(phase) ==
  /\ Accepted(files) /\ PcOK(files, pc)
  /\ pc.file \in DOMAIN files /\ pc.k \in DOMAIN files[pc.file] /\ pc.phase = phase
  /\ decl = files[pc.file][pc.k] /\ decl.kind \in {"def", "decl", "var", "extern"}
  /\ mem.outcome = "run"
  /\ SMem(mem) /\ FidsOK(mem, fid_counter, global_functions)
  /\ TablesOK(files, mem, local_vars, global_vars, global_functions)
  /\ Progress(files, pc, mem, local_vars, global_vars)

(* The loops are at such a declaration.                                    *)
LEMMA StartsHere ==
  ASSUME SInv, NEW phase, AtDecl(phase)
  PROVE  Here(phase)
  <1>1. Accepted(files) /\ pc.file \in DOMAIN files
    BY ProgramsAssumption DEF SInv, PcOK
  <1>2. pc.k \in DOMAIN files[pc.file] /\ pc.phase = phase /\ mem.outcome = "run"
    BY DEF AtDecl
  <1>3. decl = files[pc.file][pc.k] /\ decl.kind \in {"def", "decl", "var", "extern"}
    BY <1>1, <1>2, DeclFacts DEF decl
  <1> QED
    BY <1>1, <1>2, <1>3 DEF Here, SInv

(* A step that ends the program.                                           *)
LEMMA ExitKeeps ==
  ASSUME SInv, mem' = End(mem, "exit"), files' = files, PcOK(files, pc'),
         main_source' \in {0} \cup DOMAIN files,
         local_vars' = local_vars, global_vars' = global_vars,
         Within(global_functions, global_functions'),
         FidsOK(mem, fid_counter', global_functions')
  PROVE  SInv'
  <1>1. SMem(mem') /\ mem'.outcome = "exit" /\ mem'.active_mem = mem.active_mem
    BY EndMem DEF SInv, Outcomes
  <1>2. Grows(mem, mem')
    BY <1>1, GrowsNew
  <1>3. FidsOK(mem', fid_counter', global_functions')
    BY <1>1, <1>2, FidsStay
  <1>4. TablesOK(files, mem', local_vars, global_vars, global_functions')
    BY <1>2, TablesStay DEF SInv
  <1> QED
    BY <1>1, <1>3, <1>4 DEF SInv

(* A step at a declaration that goes on.                                   *)
LEMMA PassKeeps ==
  ASSUME SInv, NEW phase, Here(phase), Advance,
         SMem(mem'), FidsOK(mem', fid_counter', global_functions'),
         TablesOK(files, mem', local_vars', global_vars', global_functions'),
         main_source' \in {0} \cup DOMAIN files,
         BindingsStay(files, local_vars, local_vars'),
         ShownStay(files, pc, mem, mem', local_vars, local_vars', global_vars, global_vars'),
         ValuesStay(files, pc, mem, mem', local_vars),
         Passes(files, pc, mem', local_vars', global_vars')
  PROVE  SInv'
  <1>1. pc' = [pc EXCEPT !.k = @ + 1] /\ files' = files
    BY DEF Advance
  <1>2. PcOK(files, pc')
    BY <1>1, AdvanceDone DEF Here
  <1>3. Progress(files, pc', mem', local_vars', global_vars')
    BY <1>1, ProgressPasses DEF Here
  <1> QED
    BY <1>1, <1>2, <1>3 DEF SInv

(* The tables after Bind.                                                  *)
LEMMA BindEffect ==
  ASSUME NEW phase, Here(phase), NEW n, NEW external \in BOOLEAN, Bind(n, external), n.outcome = "run"
  PROVE  /\ mem' = n
         /\ Extended(local_vars, local_vars', pc.file, decl.name, mem.id_counter)
         /\ IF external THEN Added(global_vars, global_vars', decl.name, pc.file)
            ELSE global_vars' = global_vars
         /\ BindingsStay(files, local_vars, local_vars')
  <1>1. /\ mem' = n
        /\ local_vars' = [local_vars EXCEPT ![pc.file] = Insert(@, decl.name, mem.id_counter)]
        /\ global_vars' = IF external THEN Insert(global_vars, decl.name, pc.file) ELSE global_vars
    BY DEF Bind
  <1>2. pc.file \in DOMAIN local_vars /\ DOMAIN local_vars = DOMAIN files
    BY DEF Here, TablesOK
  <1>3. Extended(local_vars, local_vars', pc.file, decl.name, mem.id_counter)
    BY <1>1, <1>2, InsertExtends
  <1>4. IF external THEN Added(global_vars, global_vars', decl.name, pc.file)
        ELSE global_vars' = global_vars
    BY <1>1, InsertAdds
  <1>5. BindingsStay(files, local_vars, local_vars')
    BY <1>2, <1>3 DEF Extended, BindingsStay
  <1> QED
    BY <1>1, <1>3, <1>4, <1>5

(* When no block is left, Bind ends the program.                           *)
LEMMA BindExits ==
  ASSUME NEW phase, Here(phase), mem.id_counter = 0, NEW t, NEW d, NEW external,
         Bind(mem_block(mem, t, d), external)
  PROVE  mem' = End(mem, "exit") /\ local_vars' = local_vars /\ global_vars' = global_vars
  <1>1. mem_block(mem, t, d) = End(mem, "exit") /\ End(mem, "exit").outcome = "exit"
    BY BlockExits DEF Here, SMem
  <1> QED
    BY <1>1 DEF Bind

(* A new block for a name of the file.                                     *)
LEMMA BindKeeps ==
  ASSUME SInv, NEW phase \in {"store", "setup"}, Here(phase), Advance, mem.id_counter # 0,
         NEW t \in mem_type_t, NEW d, Len(d) \in Nat, NEW external \in BOOLEAN,
         Bind(mem_block(mem, t, d), external),
         external <=> Exports(files, pc.file, decl.name),
         main_source' \in {0} \cup DOMAIN files,
         Within(global_functions, global_functions'),
         FidsOK(mem', fid_counter', global_functions'),
         decl.name \notin DOMAIN local_vars[pc.file] =>
           Entry(files, mem', global_functions', pc.file, decl.name, mem.id_counter),
         phase = "setup" => (\A k \in DOMAIN files[pc.file] :
           (IsFunction(files[pc.file][k]) /\ files[pc.file][k].name = decl.name)
             => Res(local_vars, global_vars, pc.file, decl.name) = NullBlock),
         (phase = "setup" /\ IsFunction(decl)) =>
           decl.name \notin DOMAIN local_vars[pc.file] /\ t # "INVALID"
  PROVE  SInv'
  <1> DEFINE n == mem_block(mem, t, d)
             b == mem.id_counter
             name == decl.name
             s == pc.file
  <1>1. /\ SMem(n) /\ n.outcome = "run" /\ b \notin DOMAIN mem.active_mem
        /\ DOMAIN n.active_mem = DOMAIN mem.active_mem \cup {b}
        /\ n.active_mem[b].memtype = t
        /\ \A c \in DOMAIN mem.active_mem : n.active_mem[c] = mem.active_mem[c]
    BY NewBlock DEF Here
  <1> HIDE DEF n
  <1>2. /\ mem' = n
        /\ Extended(local_vars, local_vars', s, name, b)
        /\ IF external THEN Added(global_vars, global_vars', name, s)
           ELSE global_vars' = global_vars
        /\ BindingsStay(files, local_vars, local_vars')
    BY <1>1, BindEffect DEF n
  <1>3. Grows(mem, mem') /\ SameData(mem, mem')
    BY <1>1, <1>2, GrowsNew
  <1>4. TablesOK(files, mem', local_vars', global_vars', global_functions')
    <2>1. IF Exports(files, s, name) THEN Added(global_vars, global_vars', name, s)
          ELSE global_vars' = global_vars
      BY <1>2
    <2>2. name \notin DOMAIN local_vars[s] => Entry(files, mem', global_functions', s, name, b)
      OBVIOUS
    <2>3. s \in DOMAIN files /\ TablesOK(files, mem, local_vars, global_vars, global_functions)
      BY DEF Here
    <2> HIDE DEF s, name, b
    <2> QED
      BY <1>1, <1>2, <1>3, <2>1, <2>2, <2>3, TablesBound
  <1>5. ShownStay(files, pc, mem, mem', local_vars, local_vars', global_vars, global_vars')
    <2>1. \A k \in DOMAIN files[s] :
            (DoneSetup(pc, s, k) /\ IsFunction(files[s][k]) /\ files[s][k].name = name
               /\ Res(local_vars, global_vars, s, name) # NullBlock) => name \in DOMAIN local_vars[s]
      <3>1. phase = "store" => \A k : ~DoneSetup(pc, s, k)
        BY DEF DoneSetup, Here
      <3> QED
        BY <3>1
    <2> QED
      BY <1>2, <1>3, <2>1, ShownBound DEF Here
  <1>6. ValuesStay(files, pc, mem, mem', local_vars)
    BY <1>3, ValuesSame DEF Here, Progress
  <1>7. Passes(files, pc, mem', local_vars', global_vars')
    <2>1. name \in DOMAIN local_vars'[s]
      BY <1>2 DEF Extended
    <2>2. ASSUME phase = "setup", IsFunction(decl)
          PROVE  IsShown(mem', Res(local_vars', global_vars', s, name))
      <3>1. Res(local_vars', global_vars', s, name) = b
        BY <1>2, <2>1, <2>2 DEF Res, Extended
      <3>2. b # NullBlock
        BY DEF NullBlock
      <3> QED
        BY <1>1, <1>2, <2>2, <3>1, <3>2 DEF IsShown
    <2> QED
      BY <2>1, <2>2 DEF Passes, Here
  <1> QED
    BY <1>1, <1>2, <1>4, <1>5, <1>6, <1>7, PassKeeps

(* A declaration that the current loop has nothing to do for.              *)
LEMMA SkipKeeps ==
  ASSUME SInv, NEW phase, Here(phase), Advance, UNCHANGED <<mem, tables>>,
         Passes(files, pc, mem, local_vars, global_vars)
  PROVE  SInv'
  <1>1. /\ mem' = mem /\ fid_counter' = fid_counter /\ global_functions' = global_functions
        /\ local_vars' = local_vars /\ global_vars' = global_vars /\ main_source' = main_source
    BY DEF tables
  <1>2. Grows(mem, mem) /\ SameData(mem, mem)
    BY GrowsNew
  <1>3. BindingsStay(files, local_vars, local_vars')
    BY <1>1 DEF BindingsStay
  <1>4. ShownStay(files, pc, mem, mem', local_vars, local_vars', global_vars, global_vars')
    BY <1>1 DEF ShownStay
  <1>5. ValuesStay(files, pc, mem, mem', local_vars)
    BY <1>1 DEF ValuesStay
  <1> QED
    BY <1>1, <1>3, <1>4, <1>5, PassKeeps DEF Here, SInv

(* StoreFuncImpl                                                           *)
LEMMA StoreKeeps ==
  ASSUME SInv, StoreFuncImpl
  PROVE  SInv'
  <1> DEFINE b == mem.id_counter
             f == fid_counter
             d == <<f>>
             n == mem_block(mem, "INVALID", d)
  <1>1. Here("store")
    BY StartsHere DEF StoreFuncImpl
  <1>2. /\ Advance /\ f # 0 /\ fid_counter' = (f + 1) % FidSpace
        /\ Bind(n, decl.external)
        /\ global_functions' = Insert(global_functions, f, pc.file)
        /\ decl.kind = "def" /\ decl.name \notin DOMAIN local_vars[pc.file]
    BY DEF StoreFuncImpl, new_fid, Unstored
  <1>3. main_source' \in {0} \cup DOMAIN files
    BY <1>1 DEF StoreFuncImpl, SInv, Here
  <1>4. Within(global_functions, global_functions') /\ Added(global_functions, global_functions', f, pc.file)
    BY <1>2, InsertAdds
  <1>5. f \notin DOMAIN global_functions /\ FidsOK(mem, fid_counter', global_functions')
    BY <1>1, <1>2, FidsNext DEF Here
  <1>6. d # <<>> /\ d[1] = f /\ Len(d) \in Nat
    OBVIOUS
  <1> HIDE DEF d
  <1>7. CASE mem.id_counter = 0
    <2>1. mem' = End(mem, "exit") /\ local_vars' = local_vars /\ global_vars' = global_vars
      BY <1>1, <1>2, <1>7, BindExits
    <2>2. files' = files /\ PcOK(files, pc')
      BY <1>1, <1>2, AdvanceDone DEF Advance, Here
    <2> QED
      BY <1>3, <1>4, <1>5, <2>1, <2>2, ExitKeeps
  <1>8. CASE mem.id_counter # 0
    <2>1. /\ b \notin DOMAIN mem.active_mem /\ n.outcome = "run"
          /\ DOMAIN n.active_mem = DOMAIN mem.active_mem \cup {b}
          /\ n.active_mem[b].memtype = "INVALID" /\ n.active_mem[b].data = d
          /\ \A c \in DOMAIN mem.active_mem : n.active_mem[c] = mem.active_mem[c]
      BY <1>1, <1>6, <1>8, NewBlock DEF Here, mem_type_t
    <2>2. mem' = n
      BY <1>2, <2>1 DEF Bind
    <2>3. Grows(mem, mem')
      BY <2>1, <2>2, GrowsNew
    <2> HIDE DEF n
    <2>4. FidsOK(mem', fid_counter', global_functions')
      BY <1>1, <1>2, <2>1, <2>2, <2>3, FidsNew DEF Here, d
    <2>5. Has(files, pc.file, decl.name, "def")
      BY <1>1, <1>2 DEF Has, Here
    <2>6. Keyed(mem', b) /\ FidOf(mem', b) = f
      BY <1>6, <2>1, <2>2 DEF Keyed, FidOf
    <2>7. f \in DOMAIN global_functions' /\ global_functions'[f] = pc.file
      BY <1>4, <1>5 DEF Added
    <2>8. b \in DOMAIN mem'.active_mem
      BY <2>1, <2>2
    <2>9. Entry(files, mem', global_functions', pc.file, decl.name, b)
      BY <2>5, <2>6, <2>7, <2>8 DEF Entry, FunEntry
    <2>10. /\ decl.external \in BOOLEAN
           /\ decl.external <=> Exports(files, pc.file, decl.name)
      BY <1>1, <1>2, DeclFacts, ExportsExternal DEF Here, IsDefinition
    <2>11. "INVALID" \in mem_type_t /\ "store" # "setup"
      BY DEF mem_type_t
    <2> QED
      BY <1>1, <1>2, <1>3, <1>4, <1>6, <1>8, <2>4, <2>9, <2>10, <2>11, BindKeeps DEF n
  <1> QED
    BY <1>7, <1>8

(* What StoreFuncImpl has nothing to do for.                               *)
LEMMA StoreNothingKeeps ==
  ASSUME SInv, StoreNothing
  PROVE  SInv'
  <1>1. Here("store")
    BY StartsHere DEF StoreNothing
  <1>2. Advance /\ UNCHANGED <<mem, tables>> /\ (decl.kind = "def" => decl.name \in DOMAIN local_vars[pc.file])
    BY DEF StoreNothing, Unstored
  <1>3. Passes(files, pc, mem, local_vars, global_vars)
    BY <1>1, <1>2 DEF Passes, Here
  <1> QED
    BY <1>1, <1>2, <1>3, SkipKeeps

(* The function ids are used up.                                           *)
LEMMA TooManyKeeps ==
  ASSUME SInv, TooManyFunctions
  PROVE  SInv'
  <1>1. /\ mem' = End(mem, "exit") /\ files' = files /\ pc' = pc
        /\ fid_counter' = fid_counter /\ global_functions' = global_functions
        /\ local_vars' = local_vars /\ global_vars' = global_vars /\ main_source' = main_source
    BY DEF TooManyFunctions, tables
  <1>2. Within(global_functions, global_functions')
    BY <1>1 DEF Within
  <1> QED
    BY <1>1, <1>2, ExitKeeps DEF SInv

(* The loops go on to the next file or phase.                              *)
LEMMA PhaseKeeps ==
  ASSUME SInv, UNCHANGED <<files, tables>>, mem' = mem, PcOK(files, pc'),
         \A s \in DOMAIN files : \A k \in DOMAIN files[s] :
           /\ DoneStore(pc', s, k) => DoneStore(pc, s, k)
           /\ DoneSetup(pc', s, k) => DoneSetup(pc, s, k)
           /\ DoneInit(pc', s, k) => DoneInit(pc, s, k)
  PROVE  SInv'
  <1>1. /\ files' = files /\ fid_counter' = fid_counter /\ global_functions' = global_functions
        /\ local_vars' = local_vars /\ global_vars' = global_vars /\ main_source' = main_source
    BY DEF tables
  <1>2. mem.outcome # "exit" => Progress(files, pc', mem, local_vars, global_vars)
    BY ProgressStays DEF SInv
  <1> QED
    BY <1>1, <1>2 DEF SInv

(* A new phase starts at the first declaration of a file.                  *)
LEMMA NextPhasePc ==
  ASSUME Accepted(files), NEW phase \in {"store", "check", "setup", "init", "run"},
         NEW file \in DOMAIN files, NextPhase(phase, file)
  PROVE  PcOK(files, pc') /\ pc'.phase = phase /\ pc'.file = file /\ pc'.k = 1
  <1>1. pc' = [phase |-> phase, file |-> file, k |-> 1]
    BY DEF NextPhase
  <1>2. /\ DOMAIN pc' = {"phase", "file", "k"}
        /\ pc'.phase = phase /\ pc'.file = file /\ pc'.k = 1
    BY <1>1
  <1>3. 1 \in 1 .. (Len(files[file]) + 1)
    BY DeclFacts
  <1> QED
    BY <1>2, <1>3 DEF PcOK

(* The loops.                                                              *)
LEMMA LoopKeeps ==
  ASSUME SInv, Loop
  PROVE  SInv'
  <1> DEFINE i == pc.file
             N == Len(files)
  <1>1. Accepted(files) /\ pc.file \in DOMAIN files /\ pc.k \in 1 .. (Len(files[pc.file]) + 1)
    BY ProgramsAssumption DEF SInv, PcOK
  <1>2. /\ N \in Nat /\ i \in 1 .. N /\ DOMAIN files = 1 .. N
        /\ Len(files[i]) \in Nat /\ DOMAIN files[i] = 1 .. Len(files[i])
    BY <1>1, DeclFacts
  <1>3. \A k \in DOMAIN files[i] : k < pc.k
    BY <1>1, <1>2 DEF Loop
  <1>4. \A s \in DOMAIN files : \A k \in DOMAIN files[s] : s \in 1 .. N /\ k \in Nat /\ ~(k < 1)
    <2> SUFFICES ASSUME NEW s \in DOMAIN files, NEW k \in DOMAIN files[s]
                 PROVE  s \in 1 .. N /\ k \in Nat /\ ~(k < 1)
      OBVIOUS
    <2>1. Len(files[s]) \in Nat /\ DOMAIN files[s] = 1 .. Len(files[s])
      BY <1>1, DeclFacts
    <2> QED
      BY <1>2, <2>1
  <1>5. UNCHANGED <<files, tables>> /\ mem' = mem
    BY DEF Loop
  <1>6. CASE pc.phase = "store"
    <2>1. \/ i < N /\ NextPhase("store", i + 1)
          \/ i = N /\ NextPhase("check", 1)
      BY <1>2, <1>6 DEF Loop
    <2>2. CASE i < N /\ NextPhase("store", i + 1)
      <3>1. i + 1 \in DOMAIN files
        BY <1>2, <2>2
      <3>2. PcOK(files, pc') /\ pc'.phase = "store" /\ pc'.file = i + 1 /\ pc'.k = 1
        BY <1>1, <2>2, <3>1, NextPhasePc
      <3>3. \A s \in DOMAIN files : s < i + 1 => s < i \/ s = i
        BY <1>2
      <3>4. \A s \in DOMAIN files : \A k \in DOMAIN files[s] :
              /\ DoneStore(pc', s, k) => DoneStore(pc, s, k)
              /\ ~DoneSetup(pc', s, k) /\ ~DoneInit(pc', s, k)
        BY <1>3, <1>4, <1>6, <3>2, <3>3 DEF DoneStore, DoneSetup, DoneInit
      <3> QED
        BY <1>5, <3>2, <3>4, PhaseKeeps
    <2>3. CASE i = N /\ NextPhase("check", 1)
      <3>1. 1 \in DOMAIN files
        BY <1>2
      <3>2. PcOK(files, pc') /\ pc'.phase = "check" /\ pc'.file = 1 /\ pc'.k = 1
        BY <1>1, <2>3, <3>1, NextPhasePc
      <3>3. \A s \in DOMAIN files : s < i \/ s = i
        BY <1>2, <2>3
      <3>4. \A s \in DOMAIN files : \A k \in DOMAIN files[s] :
              /\ DoneStore(pc', s, k) => DoneStore(pc, s, k)
              /\ ~DoneSetup(pc', s, k) /\ ~DoneInit(pc', s, k)
        BY <1>3, <1>6, <3>2, <3>3 DEF DoneStore, DoneSetup, DoneInit
      <3> QED
        BY <1>5, <3>2, <3>4, PhaseKeeps
    <2> QED
      BY <2>1, <2>2, <2>3
  <1>7. CASE pc.phase = "setup"
    <2>1. NextPhase("init", i)
      BY <1>7 DEF Loop
    <2>2. PcOK(files, pc') /\ pc'.phase = "init" /\ pc'.file = i /\ pc'.k = 1
      BY <1>1, <2>1, NextPhasePc
    <2>3. \A s \in DOMAIN files : \A k \in DOMAIN files[s] :
            /\ DoneStore(pc', s, k) => DoneStore(pc, s, k)
            /\ DoneSetup(pc', s, k) => DoneSetup(pc, s, k)
            /\ DoneInit(pc', s, k) => DoneInit(pc, s, k)
      BY <1>3, <1>4, <1>7, <2>2 DEF DoneStore, DoneSetup, DoneInit
    <2> QED
      BY <1>5, <2>2, <2>3, PhaseKeeps
  <1>8. CASE pc.phase = "init"
    <2>1. \/ i < N /\ NextPhase("setup", i + 1)
          \/ i = N /\ NextPhase("run", 1)
      BY <1>2, <1>8 DEF Loop
    <2>2. CASE i < N /\ NextPhase("setup", i + 1)
      <3>1. i + 1 \in DOMAIN files
        BY <1>2, <2>2
      <3>2. PcOK(files, pc') /\ pc'.phase = "setup" /\ pc'.file = i + 1 /\ pc'.k = 1
        BY <1>1, <2>2, <3>1, NextPhasePc
      <3>3. \A s \in DOMAIN files : s < i + 1 => s < i \/ s = i
        BY <1>2
      <3>4. \A s \in DOMAIN files : \A k \in DOMAIN files[s] :
              /\ DoneStore(pc', s, k) => DoneStore(pc, s, k)
              /\ DoneSetup(pc', s, k) => DoneSetup(pc, s, k)
              /\ DoneInit(pc', s, k) => DoneInit(pc, s, k)
        BY <1>3, <1>4, <1>8, <3>2, <3>3 DEF DoneStore, DoneSetup, DoneInit
      <3> QED
        BY <1>5, <3>2, <3>4, PhaseKeeps
    <2>3. CASE i = N /\ NextPhase("run", 1)
      <3>1. 1 \in DOMAIN files
        BY <1>2
      <3>2. PcOK(files, pc') /\ pc'.phase = "run" /\ pc'.file = 1 /\ pc'.k = 1
        BY <1>1, <2>3, <3>1, NextPhasePc
      <3>3. \A s \in DOMAIN files : s < i \/ s = i
        BY <1>2, <2>3
      <3>4. \A s \in DOMAIN files : \A k \in DOMAIN files[s] :
              /\ DoneStore(pc', s, k) => DoneStore(pc, s, k)
              /\ DoneSetup(pc', s, k) => DoneSetup(pc, s, k)
              /\ DoneInit(pc', s, k) => DoneInit(pc, s, k)
        BY <1>3, <1>8, <3>2, <3>3 DEF DoneStore, DoneSetup, DoneInit
      <3> QED
        BY <1>5, <3>2, <3>4, PhaseKeeps
    <2> QED
      BY <2>1, <2>2, <2>3
  <1> QED
    BY <1>6, <1>7, <1>8 DEF Loop

(* main() goes on only if there is a main.                                 *)
LEMMA CheckKeeps ==
  ASSUME SInv, CheckMain
  PROVE  SInv'
  <1>1. Accepted(files) /\ pc.phase = "check"
    BY ProgramsAssumption DEF SInv, CheckMain
  <1>2. UNCHANGED <<files, tables>>
    BY DEF CheckMain
  <1>3. CASE main_source = 0
    <2>1. /\ mem' = End(mem, "exit") /\ files' = files /\ pc' = pc
          /\ fid_counter' = fid_counter /\ global_functions' = global_functions
          /\ local_vars' = local_vars /\ global_vars' = global_vars /\ main_source' = main_source
      BY <1>3 DEF CheckMain, tables
    <2>2. Within(global_functions, global_functions')
      BY <2>1 DEF Within
    <2> QED
      BY <2>1, <2>2, ExitKeeps DEF SInv
  <1>4. CASE main_source # 0
    <2>1. mem' = mem /\ NextPhase("setup", 1)
      BY <1>4 DEF CheckMain
    <2>2. 1 \in DOMAIN files
      <3>1. pc.file \in DOMAIN files
        BY DEF SInv, PcOK
      <3> QED
        BY <1>1, <3>1, DeclFacts
    <2>3. PcOK(files, pc') /\ pc'.phase = "setup" /\ pc'.file = 1 /\ pc'.k = 1
      BY <1>1, <2>1, <2>2, NextPhasePc
    <2>4. \A s \in DOMAIN files : \A k \in DOMAIN files[s] : s \in Nat /\ k \in Nat /\ ~(s < 1) /\ ~(k < 1)
      BY <1>1, DeclFacts
    <2>5. \A s \in DOMAIN files : \A k \in DOMAIN files[s] :
            DoneStore(pc, s, k) /\ ~DoneSetup(pc', s, k) /\ ~DoneInit(pc', s, k)
      BY <1>1, <2>3, <2>4 DEF DoneStore, DoneSetup, DoneInit
    <2> QED
      BY <1>2, <2>1, <2>3, <2>5, PhaseKeeps
  <1> QED
    BY <1>3, <1>4

(* RunProgram ends the start-up.                                           *)
LEMMA FindMainKeeps ==
  ASSUME SInv, FindMain
  PROVE  SInv'
  <1>1. /\ files' = files /\ pc' = pc
        /\ fid_counter' = fid_counter /\ global_functions' = global_functions
        /\ local_vars' = local_vars /\ global_vars' = global_vars /\ main_source' = main_source
    BY DEF FindMain, tables
  <1>2. mem.outcome = "run" /\ \E how \in {"done", "exit"} : mem' = End(mem, how)
    BY DEF FindMain
  <1>3. SMem(mem') /\ mem'.active_mem = mem.active_mem
    BY <1>2, EndMem DEF SInv, Outcomes
  <1>4. Grows(mem, mem')
    BY <1>3, GrowsNew
  <1>5. FidsOK(mem', fid_counter', global_functions')
    BY <1>1, <1>3, <1>4, FidsStay DEF SInv
  <1>6. TablesOK(files, mem', local_vars, global_vars, global_functions)
    <2>1. Within(global_functions, global_functions)
      BY DEF Within
    <2> QED
      BY <1>4, <2>1, TablesStay DEF SInv
  <1>7. Progress(files, pc, mem', local_vars, global_vars)
    <2>1. Progress(files, pc, mem, local_vars, global_vars)
      BY <1>2 DEF SInv
    <2> QED
      BY <1>3, <2>1, ProgressStays
  <1> QED
    BY <1>1, <1>3, <1>5, <1>6, <1>7 DEF SInv

(* A declaration of a function that no file defines.                       *)
LEMMA UndefinedFacts ==
  ASSUME Here("setup"), IsFunction(decl),
         Res(local_vars, global_vars, pc.file, decl.name) = NullBlock
  PROVE  /\ decl.name \notin DOMAIN local_vars[pc.file]
         /\ ~Has(files, pc.file, decl.name, "def") /\ ~Has(files, pc.file, decl.name, "var")
         /\ \A t \in DOMAIN files : ~Exports(files, t, decl.name)
  <1> DEFINE s == pc.file
             name == decl.name
             L == local_vars
             G == global_vars
  <1>1. /\ Accepted(files) /\ s \in DOMAIN files /\ pc.k \in DOMAIN files[s] /\ decl = files[s][pc.k]
        /\ SMem(mem) /\ Stored(files, pc, L) /\ pc.phase = "setup"
        /\ Entries(files, mem, L, global_functions) /\ Linkage(files, L, G)
    BY DEF Here, TablesOK, Progress
  <1>2. \A t \in DOMAIN files : \A q \in DOMAIN L[t] : L[t][q] # NullBlock
    BY <1>1, BlockNotNull DEF Entries, Entry
  <1>3. name \notin DOMAIN L[s]
    BY <1>1, <1>2 DEF Res
  <1>4. \A t \in DOMAIN files : Has(files, t, name, "def") => name \in DOMAIN L[t]
    BY <1>1 DEF Stored, DoneStore, Has
  <1>5. ~Has(files, s, name, "def") /\ ~Has(files, s, name, "var")
    BY <1>1, <1>3, <1>4, FunctionNotVar
  <1>6. ASSUME NEW t \in DOMAIN files, Exports(files, t, name)
        PROVE  FALSE
    <2>1. decl.external
      BY <1>1, <1>5, OnlyDeclared
    <2>2. Has(files, t, name, "def")
      BY <1>1, <1>6, <2>1, SameKind
    <2>3. name \in DOMAIN G
      BY <1>1, <1>4, <1>6, <2>2 DEF Linkage
    <2>4. Res(L, G, s, name) = L[G[name]][name]
      BY <1>3, <2>3 DEF Res
    <2>5. G[name] \in DOMAIN files /\ name \in DOMAIN L[G[name]]
      BY <1>1, <2>3 DEF Linkage
    <2> QED
      BY <1>2, <2>4, <2>5
  <1> QED
    BY <1>3, <1>5, <1>6

(* Such a declaration gets a block of its own.                             *)
LEMMA UndefinedKeeps ==
  ASSUME SInv, Here("setup"), IsFunction(decl), Advance, Undefined,
         Res(local_vars, global_vars, pc.file, decl.name) = NullBlock
  PROVE  SInv'
  <1> DEFINE b == mem.id_counter
  <1>1. PICK d : d = <<>> /\ Len(d) \in Nat
    OBVIOUS
  <1> DEFINE n == mem_block(mem, "EXTERN", d)
  <1>2. /\ Bind(n, FALSE) /\ fid_counter' = fid_counter
        /\ global_functions' = global_functions /\ main_source' = main_source
    BY <1>1 DEF Undefined
  <1>3. Within(global_functions, global_functions')
    BY <1>2 DEF Within
  <1>4. main_source' \in {0} \cup DOMAIN files /\ FidsOK(mem, fid_counter', global_functions')
    BY <1>2 DEF SInv
  <1>5. CASE mem.id_counter = 0
    <2>1. mem' = End(mem, "exit") /\ local_vars' = local_vars /\ global_vars' = global_vars
      BY <1>2, <1>5, BindExits
    <2>2. files' = files /\ PcOK(files, pc')
      BY AdvanceDone DEF Advance, Here
    <2> QED
      BY <1>3, <1>4, <2>1, <2>2, ExitKeeps
  <1>6. CASE mem.id_counter # 0
    <2>1. /\ b \notin DOMAIN mem.active_mem /\ n.outcome = "run"
          /\ DOMAIN n.active_mem = DOMAIN mem.active_mem \cup {b}
          /\ n.active_mem[b].memtype = "EXTERN" /\ n.active_mem[b].data = d
          /\ \A c \in DOMAIN mem.active_mem : n.active_mem[c] = mem.active_mem[c]
      BY <1>1, <1>6, NewBlock DEF Here, mem_type_t
    <2>2. mem' = n
      BY <1>2, <2>1 DEF Bind
    <2>3. Grows(mem, mem')
      BY <2>1, <2>2, GrowsNew
    <2> HIDE DEF n
    <2>4. ~Keyed(mem', b)
      BY <2>1, <2>2 DEF Keyed
    <2>5. FidsOK(mem', fid_counter', global_functions')
      BY <1>4, <2>1, <2>2, <2>3, <2>4, FidsStay
    <2>6. /\ decl.name \notin DOMAIN local_vars[pc.file]
          /\ ~Has(files, pc.file, decl.name, "def") /\ ~Has(files, pc.file, decl.name, "var")
          /\ \A t \in DOMAIN files : ~Exports(files, t, decl.name)
      BY UndefinedFacts
    <2>7. Entry(files, mem', global_functions', pc.file, decl.name, b)
      BY <1>1, <2>1, <2>2, <2>6 DEF Entry, ExternEntry
    <2>8. FALSE <=> Exports(files, pc.file, decl.name)
      BY <2>6 DEF Here
    <2>9. "EXTERN" \in mem_type_t /\ "EXTERN" # "INVALID" /\ FALSE \in BOOLEAN /\ "setup" \in {"store", "setup"}
      BY DEF mem_type_t
    <2> QED
      BY <1>1, <1>2, <1>3, <1>4, <1>6, <2>5, <2>6, <2>7, <2>8, <2>9, BindKeeps DEF n
  <1> QED
    BY <1>5, <1>6

(* SetupFunc                                                               *)
LEMMA SetupFuncKeeps ==
  ASSUME SInv, Here("setup"), IsFunction(decl), Advance, SetupFunc
  PROVE  SInv'
  <1> DEFINE b == Res(local_vars, global_vars, pc.file, decl.name)
  <1>1. get_nonstack_var(decl.name) = b
    BY ResolveIsRes DEF get_nonstack_var
  <1>2. CASE b = NullBlock
    BY <1>1, <1>2, UndefinedKeeps DEF SetupFunc
  <1>3. CASE b # NullBlock
    <2>1. Has(files, pc.file, decl.name, "def") => decl.name \in DOMAIN local_vars[pc.file]
      BY DEF Here, Progress, Stored, DoneStore, Has
    <2>2. /\ b \in DOMAIN mem.active_mem
          /\ \/ Keyed(mem, b) /\ FidOf(mem, b) \in DOMAIN global_functions
             \/ mem.active_mem[b].memtype \in {"EXTERN", "STATIC"} /\ mem.active_mem[b].data = <<>>
      BY <1>3, <2>1, FoundFunction DEF Here
    <2>3. /\ IF mem.active_mem[b].data = <<>> THEN mem' \in {mem, Unhide(b)}
             ELSE mem' = IF FidOf(mem, b) \in DOMAIN global_functions THEN Unhide(b) ELSE mem
          /\ UNCHANGED tables
      BY <1>1, <1>3 DEF SetupFunc, FidOf
    <2>4. \/ mem' = Unhide(b)
          \/ mem' = mem /\ mem.active_mem[b].memtype # "INVALID"
      BY <2>2, <2>3 DEF Keyed
    <2> HIDE DEF b
    <2>5. SMem(mem) /\ TablesOK(files, mem, local_vars, global_vars, global_functions)
      BY DEF Here
    <2>6. /\ SMem(mem') /\ Grows(mem, mem') /\ SameData(mem, mem')
          /\ DOMAIN mem'.active_mem = DOMAIN mem.active_mem
          /\ mem'.active_mem[b].memtype # "INVALID"
      <3>1. CASE mem' = mem /\ mem.active_mem[b].memtype # "INVALID"
        BY <2>5, <3>1, GrowsNew
      <3>2. CASE mem' = Unhide(b)
        <4>1. mem' = [mem EXCEPT !.active_mem[b].memtype = "STATIC"]
          BY <3>2 DEF Unhide
        <4> QED
          BY <2>2, <2>5, <4>1, UnhideMem, GrowsUnhide
      <3> QED
        BY <2>4, <3>1, <3>2
    <2>7. /\ fid_counter' = fid_counter /\ global_functions' = global_functions
          /\ local_vars' = local_vars /\ global_vars' = global_vars /\ main_source' = main_source
      BY <2>3 DEF tables
    <2>8. FidsOK(mem', fid_counter', global_functions')
      BY <2>6, <2>7, FidsStay DEF Here
    <2>9. TablesOK(files, mem', local_vars', global_vars', global_functions')
      <3>1. Within(global_functions, global_functions)
        BY DEF Within
      <3> QED
        BY <2>5, <2>6, <2>7, <3>1, TablesStay
    <2>10. BindingsStay(files, local_vars, local_vars')
      BY <2>7 DEF BindingsStay
    <2>11. ShownStay(files, pc, mem, mem', local_vars, local_vars', global_vars, global_vars')
      BY <2>5, <2>6, <2>7, ShownUnbound
    <2>12. ValuesStay(files, pc, mem, mem', local_vars)
      BY <2>5, <2>6, ValuesSame DEF Here, Progress
    <2>13. IsShown(mem', Res(local_vars', global_vars', pc.file, decl.name))
      BY <1>3, <2>6, <2>7 DEF IsShown, b
    <2>14. Passes(files, pc, mem', local_vars', global_vars')
      BY <2>13 DEF Passes, Here, IsFunction
    <2>15. main_source' \in {0} \cup DOMAIN files
      BY <2>7 DEF SInv
    <2> QED
      BY <2>6, <2>8, <2>9, <2>10, <2>11, <2>12, <2>14, <2>15, PassKeeps
  <1> QED
    BY <1>2, <1>3

(* Contents of one number.                                                 *)
LEMMA OneNumber ==
  ASSUME NEW x
  PROVE  \E d : d = <<x>> /\ Len(d) \in Nat
  <1>1. Len(<<x>>) \in Nat
    OBVIOUS
  <1> QED
    BY <1>1

(* SetupGlobal                                                             *)
LEMMA SetupGlobalKeeps ==
  ASSUME SInv, Here("setup"), decl.kind = "var", Advance, SetupGlobal
  PROVE  SInv'
  <1> DEFINE b == mem.id_counter
  <1>1. PICK d : d = <<Garbage>> /\ Len(d) \in Nat
    BY OneNumber
  <1> DEFINE n == mem_block(mem, "GLOBAL", d)
  <1>2. /\ Bind(n, decl.external) /\ fid_counter' = fid_counter
        /\ global_functions' = global_functions /\ main_source' = main_source
    BY <1>1 DEF SetupGlobal
  <1>3. Within(global_functions, global_functions')
    BY <1>2 DEF Within
  <1>4. main_source' \in {0} \cup DOMAIN files /\ FidsOK(mem, fid_counter', global_functions')
    BY <1>2 DEF SInv
  <1>5. CASE mem.id_counter = 0
    <2>1. mem' = End(mem, "exit") /\ local_vars' = local_vars /\ global_vars' = global_vars
      BY <1>2, <1>5, BindExits
    <2>2. files' = files /\ PcOK(files, pc')
      BY AdvanceDone DEF Advance, Here
    <2> QED
      BY <1>3, <1>4, <2>1, <2>2, ExitKeeps
  <1>6. CASE mem.id_counter # 0
    <2>1. /\ b \notin DOMAIN mem.active_mem /\ n.outcome = "run"
          /\ DOMAIN n.active_mem = DOMAIN mem.active_mem \cup {b}
          /\ n.active_mem[b].memtype = "GLOBAL"
          /\ \A c \in DOMAIN mem.active_mem : n.active_mem[c] = mem.active_mem[c]
      BY <1>1, <1>6, NewBlock DEF Here, mem_type_t
    <2>2. mem' = n
      BY <1>2, <2>1 DEF Bind
    <2>3. Grows(mem, mem')
      BY <2>1, <2>2, GrowsNew
    <2> HIDE DEF n
    <2>4. ~Keyed(mem', b)
      BY <2>1, <2>2 DEF Keyed
    <2>5. FidsOK(mem', fid_counter', global_functions')
      BY <1>4, <2>1, <2>2, <2>3, <2>4, FidsStay
    <2>6. Has(files, pc.file, decl.name, "var")
      BY DEF Has, Here
    <2>7. Entry(files, mem', global_functions', pc.file, decl.name, b)
      BY <2>1, <2>2, <2>6 DEF Entry, VarEntry
    <2>8. /\ decl.external \in BOOLEAN
          /\ decl.external <=> Exports(files, pc.file, decl.name)
      BY DeclFacts, ExportsExternal DEF Here, IsDefinition
    <2>9. /\ ~IsFunction(decl)
          /\ \A k \in DOMAIN files[pc.file] : files[pc.file][k].name = decl.name => ~IsFunction(files[pc.file][k])
      BY SameFile DEF Here, IsFunction
    <2>10. "GLOBAL" \in mem_type_t /\ "setup" \in {"store", "setup"}
      BY DEF mem_type_t
    <2> QED
      BY <1>1, <1>2, <1>3, <1>4, <1>6, <2>5, <2>7, <2>8, <2>9, <2>10, BindKeeps DEF n
  <1> QED
    BY <1>5, <1>6

(* SetupVar                                                                *)
LEMMA SetupKeeps ==
  ASSUME SInv, SetupVar
  PROVE  SInv'
  <1>1. Here("setup") /\ Advance
    BY StartsHere DEF SetupVar
  <1>2. CASE decl.kind \in {"def", "decl"}
    BY <1>1, <1>2, SetupFuncKeeps DEF SetupVar, IsFunction
  <1>3. CASE decl.kind = "var"
    BY <1>1, <1>3, SetupGlobalKeeps DEF SetupVar
  <1>4. CASE decl.kind = "extern"
    <2>1. UNCHANGED <<mem, tables>>
      BY <1>4 DEF SetupVar
    <2>2. Passes(files, pc, mem, local_vars, global_vars)
      BY <1>1, <1>4 DEF Passes, Here, IsFunction
    <2> QED
      BY <1>1, <2>1, <2>2, SkipKeeps
  <1> QED
    BY <1>1, <1>2, <1>3, <1>4 DEF Here

(* InitializeVar                                                           *)
LEMMA InitializeKeeps ==
  ASSUME SInv, InitializeVar
  PROVE  SInv'
  <1> DEFINE s == pc.file
             name == decl.name
             b == local_vars[s][name]
  <1>1. Here("init") /\ Advance /\ UNCHANGED tables
    BY StartsHere DEF InitializeVar
  <1>2. /\ Accepted(files) /\ s \in DOMAIN files /\ pc.k \in DOMAIN files[s] /\ decl = files[s][pc.k]
        /\ pc.phase = "init" /\ s \in Int /\ pc.k \in Int
        /\ SMem(mem) /\ TablesOK(files, mem, local_vars, global_vars, global_functions)
    BY <1>1, DeclFacts DEF Here
  <1>3. CASE decl.kind # "var" \/ decl.init = ""
    <2>1. UNCHANGED <<mem, tables>>
      BY <1>1, <1>3 DEF InitializeVar
    <2>2. ~(decl.kind = "var" /\ decl.init = "0")
      BY <1>3
    <2>3. Passes(files, pc, mem, local_vars, global_vars)
      BY <1>2, <2>2 DEF Passes
    <2> QED
      BY <1>1, <2>1, <2>3, SkipKeeps
  <1>4. CASE decl.kind = "var" /\ decl.init # ""
    <2> DEFINE v == <<InitialValue(decl.init)>>
    <2>1. mem' = [mem EXCEPT !.active_mem[b].data = v]
      BY <1>4 DEF InitializeVar
    <2>2. decl.init = "0" => v = <<Constant>>
      BY DEF InitialValue
    <2> HIDE DEF v
    <2>3. \A t \in DOMAIN files : \A k \in DOMAIN files[t] :
            (DoneInit(pc, t, k) \/ t = s) /\ files[t][k].kind = "var" =>
              files[t][k].name \in DOMAIN local_vars[t]
      BY <1>1, <1>2 DEF Here, Progress, Allocated, DoneSetup, DoneInit
    <2>4. name \in DOMAIN local_vars[s]
      BY <1>2, <1>4, <2>3
    <2>5. b \in DOMAIN mem.active_mem /\ mem.active_mem[b].memtype = "GLOBAL"
      <3>1. Entry(files, mem, global_functions, s, name, b)
        BY <1>2, <2>4 DEF TablesOK, Entries
      <3>2. ~Has(files, s, name, "def") /\ Has(files, s, name, "var")
        BY <1>2, <1>4, VarNotFunction DEF Has
      <3> QED
        BY <3>1, <3>2 DEF Entry, FunEntry, VarEntry, ExternEntry
    <2>6. /\ fid_counter' = fid_counter /\ global_functions' = global_functions
          /\ local_vars' = local_vars /\ global_vars' = global_vars /\ main_source' = main_source
      BY <1>1 DEF tables
    <2>7. /\ \A t \in DOMAIN files : \A q \in DOMAIN local_vars[t] :
               local_vars[t][q] \in DOMAIN mem.active_mem
                 /\ (local_vars[t][q] = b => t = s /\ q = name)
      BY <1>2, <2>4 DEF TablesOK, Entries, Entry, Apart
    <2> HIDE DEF b
    <2>8. /\ SMem(mem') /\ Grows(mem, mem')
          /\ DOMAIN mem'.active_mem = DOMAIN mem.active_mem
          /\ mem'.active_mem[b].data = v
          /\ \A c \in DOMAIN mem.active_mem : c # b => mem'.active_mem[c] = mem.active_mem[c]
      <3>1. Grows(mem, mem')
        BY <1>2, <2>1, <2>5, GrowsWrite
      <3> QED
        BY <1>2, <2>1, <2>5, <3>1, WriteMem
    <2>9. FidsOK(mem', fid_counter', global_functions')
      BY <1>1, <2>6, <2>8, FidsStay DEF Here
    <2>10. TablesOK(files, mem', local_vars', global_vars', global_functions')
      <3>1. Within(global_functions, global_functions)
        BY DEF Within
      <3> QED
        BY <1>2, <2>6, <2>8, <3>1, TablesStay
    <2>11. BindingsStay(files, local_vars, local_vars')
      BY <2>6 DEF BindingsStay
    <2>12. ShownStay(files, pc, mem, mem', local_vars, local_vars', global_vars, global_vars')
      BY <1>2, <2>6, <2>8, ShownUnbound
    <2>13. ValuesStay(files, pc, mem, mem', local_vars)
      <3> SUFFICES ASSUME NEW t \in DOMAIN files, NEW k \in DOMAIN files[t], DoneInit(pc, t, k),
                          files[t][k].kind = "var", files[t][k].init = "0"
                   PROVE  mem'.active_mem[local_vars[t][files[t][k].name]].data
                            = mem.active_mem[local_vars[t][files[t][k].name]].data
        BY DEF ValuesStay
      <3>1. files[t][k].name \in DOMAIN local_vars[t]
        BY <2>3
      <3>2. ASSUME t = s, files[t][k].name = name
            PROVE  FALSE
        <4>1. files[s][k].init # "" /\ files[s][pc.k].init # ""
          BY <1>2, <1>4, <3>2
        <4>2. k = pc.k
          BY <1>2, <3>2, <4>1 DEF Accepted
        <4>3. ~DoneInit(pc, s, pc.k)
          BY <1>2 DEF DoneInit
        <4> QED
          BY <3>2, <4>2, <4>3
      <3>3. local_vars[t][files[t][k].name] # b
        BY <2>7, <3>1, <3>2
      <3> QED
        BY <2>7, <2>8, <3>1, <3>3
    <2>14. Passes(files, pc, mem', local_vars', global_vars')
      BY <1>2, <2>2, <2>6, <2>8 DEF Passes, b
    <2>15. main_source' \in {0} \cup DOMAIN files
      BY <2>6 DEF SInv
    <2> QED
      BY <1>1, <2>8, <2>9, <2>10, <2>11, <2>12, <2>13, <2>14, <2>15, PassKeeps
  <1> QED
    BY <1>3, <1>4

(* main() starts with empty tables.                                        *)
LEMMA StartupGood ==
  ASSUME StartupInit
  PROVE  SInv
  <1> DEFINE B == BLOCK_ID_START .. (BLOCK_ID_START + NumGlobals - 1)
  <1>1. PICK d : d = <<>> /\ Len(d) \in Nat
    OBVIOUS
  <1> DEFINE blk == [memtype |-> "GLOBAL", size |-> Len(d), data |-> d]
  <1>2. /\ DOMAIN mem = {"id_counter", "active_mem", "stack_vars", "stack_var_map", "outcome"}
        /\ mem.id_counter = BLOCK_ID_START + NumGlobals
        /\ mem.stack_vars = <<>> /\ DOMAIN mem.stack_var_map = {}
        /\ mem.outcome = "run"
        /\ DOMAIN mem.active_mem = B /\ \A b \in B : mem.active_mem[b] = blk
    BY <1>1 DEF StartupInit, Start
  <1>3. /\ blk.memtype = "GLOBAL" /\ blk.memtype \in mem_type_t /\ blk.size \in Nat
        /\ DOMAIN blk = {"memtype", "size", "data"}
    BY <1>1 DEF mem_type_t
  <1> HIDE DEF B, blk
  <1>4. mem.id_counter \in block_id_t /\ CounterOK(mem) /\ B \subseteq block_id_t
    BY <1>2, IdSpaceAssumption DEF B, block_id_t, CounterOK, BLOCK_ID_START
  <1>5. Issued(mem) = B
    BY <1>2, IdSpaceAssumption DEF B, Issued, BLOCK_ID_START
  <1>6. <<>> \in Seq(Seq(VarType))
    OBVIOUS
  <1>7. MemTypeOK(mem)
    BY <1>2, <1>3, <1>4, <1>6 DEF MemTypeOK, Outcomes
  <1>8. SMem(mem)
    BY <1>2, <1>3, <1>4, <1>5, <1>7 DEF SMem
  <1>9. files \in Programs /\ Accepted(files) /\ 1 \in DOMAIN files
    <2>1. files \in Programs /\ Accepted(files)
      BY ProgramsAssumption DEF StartupInit
    <2>2. Len(files) > 0 /\ files \in Seq(Seq(DeclType))
      BY <2>1 DEF Accepted
    <2>3. 1 \in 1 .. Len(files) /\ DOMAIN files = 1 .. Len(files)
      BY <2>2
    <2> QED
      BY <2>1, <2>3
  <1>10. /\ DOMAIN pc = {"phase", "file", "k"} /\ pc.phase = "store" /\ pc.file = 1 /\ pc.k = 1
    BY DEF StartupInit
  <1>11. PcOK(files, pc)
    <2>1. 1 \in 1 .. (Len(files[1]) + 1)
      BY <1>9, DeclFacts
    <2> QED
      BY <1>9, <1>10, <2>1 DEF PcOK
  <1>12. /\ DOMAIN global_functions = {} /\ DOMAIN global_vars = {} /\ main_source = 0
         /\ fid_counter = NUM_EXTERNAL_FUNCTIONS
         /\ DOMAIN local_vars = DOMAIN files /\ \A s \in DOMAIN files : DOMAIN local_vars[s] = {}
    BY DEF StartupInit
  <1>13. TablesOK(files, mem, local_vars, global_vars, global_functions)
    BY <1>12 DEF TablesOK, Entries, Apart, Linkage
  <1>14. \A b \in DOMAIN mem.active_mem : ~Keyed(mem, b)
    BY <1>2, <1>3 DEF Keyed
  <1>15. FidsOK(mem, fid_counter, global_functions)
    BY <1>12, <1>14, FidSpaceAssumption DEF FidsOK, NUM_EXTERNAL_FUNCTIONS
  <1>16. \A s \in DOMAIN files : \A k \in DOMAIN files[s] :
           ~DoneStore(pc, s, k) /\ ~DoneSetup(pc, s, k) /\ ~DoneInit(pc, s, k)
    <2>1. \A s \in DOMAIN files : \A k \in DOMAIN files[s] : ~(s < 1) /\ ~(k < 1)
      BY <1>9, DeclFacts
    <2> QED
      BY <1>10, <2>1 DEF DoneStore, DoneSetup, DoneInit
  <1>17. Progress(files, pc, mem, local_vars, global_vars)
    BY <1>16 DEF Progress, Stored, Allocated, Shown, Initialized
  <1> QED
    BY <1>8, <1>9, <1>11, <1>12, <1>13, <1>15, <1>17 DEF SInv

-----------------------------------------------------------------------------
(***************************************************************************)
(* The theorems.                                                           *)
(***************************************************************************)

(* The inductive invariant holds in the start-up of every program.         *)
THEOREM SInvHolds == StartupSpec => []SInv
  <1>1. StartupInit => SInv
    BY StartupGood
  <1>2. SInv /\ [StartupNext]_vars => SInv'
    <2> SUFFICES ASSUME SInv, [StartupNext]_vars PROVE SInv'
      OBVIOUS
    <2>1. CASE StartupNext
      BY <2>1, StoreKeeps, StoreNothingKeeps, TooManyKeeps, CheckKeeps, SetupKeeps,
         InitializeKeeps, LoopKeeps, FindMainKeeps DEF StartupNext
    <2>2. CASE UNCHANGED vars
      BY <2>2 DEF vars, tables, SInv
    <2> QED
      BY <2>1, <2>2
  <1> QED
    BY <1>1, <1>2, PTL DEF StartupSpec

(* Type correctness: the tables hold blocks that exist, and files that     *)
(* exist, also after an error exit in the middle of a declaration.         *)
THEOREM StartupTypeCorrect == StartupSpec => []StartupTypeOK
  <1>1. SInv => StartupTypeOK
    <2> SUFFICES ASSUME SInv PROVE StartupTypeOK
      OBVIOUS
    <2>1. mem.id_counter \in block_id_t /\ fid_counter \in 0 .. (FidSpace - 1)
      BY DEF SInv, SMem, MemTypeOK, FidsOK
    <2>2. main_source \in {0} \cup DOMAIN files
      BY DEF SInv
    <2>3. \A s \in DOMAIN files : \A n \in DOMAIN local_vars[s] :
            local_vars[s][n] \in DOMAIN mem.active_mem
      BY DEF SInv, TablesOK, Entries, Entry
    <2>4. \A n \in DOMAIN global_vars : n \in DOMAIN local_vars[global_vars[n]]
      BY DEF SInv, TablesOK, Linkage
    <2> QED
      BY <2>1, <2>2, <2>3, <2>4 DEF StartupTypeOK
  <1> QED
    BY <1>1, SInvHolds, PTL

(* No two functions of a program ever have the same id, whatever was       *)
(* initialized in between and however often functions are declared: the    *)
(* counter stops before it would give an id again, and neither an address  *)
(* nor a constant in a variable's block can pass for the id of a function. *)
THEOREM FunctionIdsStayUnique == StartupSpec => []FunctionIdsUnique
  <1>1. SInv => FunctionIdsUnique
    <2> SUFFICES ASSUME SInv, NEW s \in DOMAIN files, NEW n \in DOMAIN local_vars[s],
                        HoldsFid(local_vars[s][n])
                 PROVE  LET b == local_vars[s][n]
                            fid == mem.active_mem[b].data[1]
                        IN /\ fid >= NUM_EXTERNAL_FUNCTIONS
                           /\ global_functions[fid] = s
                           /\ \A c \in DOMAIN mem.active_mem :
                                (HoldsFid(c) /\ mem.active_mem[c].data[1] = fid) => c = b
      BY DEF FunctionIdsUnique
    <2> DEFINE b == local_vars[s][n]
    <2>1. Entry(files, mem, global_functions, s, n, b)
          /\ FidsOK(mem, fid_counter, global_functions)
      BY DEF SInv, TablesOK, Entries
    <2> HIDE DEF b
    <2>2. \A c : HoldsFid(c) <=> Keyed(mem, c)
      BY DEF HoldsFid, Keyed
    <2>3. Keyed(mem, b)
      BY <2>2 DEF b
    <2>4. b \in DOMAIN mem.active_mem /\ FunEntry(files, mem, global_functions, s, n, b)
      BY <2>1, <2>3 DEF Entry, VarEntry, ExternEntry, Keyed
    <2>5. FidOf(mem, b) \in DOMAIN global_functions /\ global_functions[FidOf(mem, b)] = s
      BY <2>4 DEF FunEntry
    <2>6. FidOf(mem, b) >= NUM_EXTERNAL_FUNCTIONS
      BY <2>1, <2>5 DEF FidsOK
    <2>7. \A c \in DOMAIN mem.active_mem : (HoldsFid(c) /\ FidOf(mem, c) = FidOf(mem, b)) => c = b
      BY <2>1, <2>2, <2>3, <2>4 DEF FidsOK
    <2> QED
      BY <2>5, <2>6, <2>7 DEF FidOf, b
  <1> QED
    BY <1>1, SInvHolds, PTL

(* A file that defines n exports it if and only if it is one of the files  *)
(* that the properties name.                                               *)
LEMMA DefiningExports ==
  ASSUME NEW n, NEW s \in DOMAIN files
  PROVE  s \in DefiningFiles(n) <=> Exports(files, s, n)
  BY DEF DefiningFiles, Exports, IsDefinition

(* Once all files are set up, a file that does not define a name reaches   *)
(* the block of the file that exports it.                                  *)
LEMMA LinksThrough ==
  ASSUME SInv, pc.phase = "run", mem.outcome # "exit",
         NEW s \in DOMAIN files, NEW n, ~HasOwn(s, n), NEW t \in DOMAIN files, Exports(files, t, n)
  PROVE  /\ Resolve(s, n) = local_vars[t][n] /\ n \in DOMAIN local_vars[t]
         /\ Entry(files, mem, global_functions, t, n, local_vars[t][n])
  <1>1. /\ Accepted(files) /\ Stored(files, pc, local_vars) /\ Allocated(files, pc, local_vars)
        /\ Entries(files, mem, local_vars, global_functions) /\ Linkage(files, local_vars, global_vars)
    BY ProgramsAssumption DEF SInv, TablesOK, Progress
  <1>2. n \in DOMAIN local_vars[t]
    BY <1>1 DEF Stored, Allocated, DoneStore, DoneSetup, Exports, IsDefinition
  <1>3. n \in DOMAIN global_vars
    BY <1>1, <1>2 DEF Linkage
  <1>4. global_vars[n] = t
    BY <1>1, <1>3, OneExporter DEF Linkage
  <1>5. n \notin DOMAIN local_vars[s]
    <2>1. ~Has(files, s, n, "def") /\ ~Has(files, s, n, "var")
      BY DEF HasOwn, Has
    <2> QED
      BY <1>1, <2>1 DEF Entries, Entry, FunEntry, VarEntry, ExternEntry
  <1>6. Resolve(s, n) = local_vars[t][n]
    BY <1>3, <1>4, <1>5, ResolveIsRes DEF Res
  <1> QED
    BY <1>1, <1>2, <1>6 DEF Entries

(* Linking, for any number of files in any order: a declaration leads to   *)
(* the one definition, and the definition is visible.                      *)
THEOREM DeclarationsLink == StartupSpec => []DeclarationsFindDefinition
  <1>1. SInv => DeclarationsFindDefinition
    <2> SUFFICES ASSUME SInv, pc.phase = "run", mem.outcome # "exit",
                        NEW s \in DOMAIN files, NEW n \in DeclaredNames(s),
                        ~HasOwn(s, n), DefiningFiles(n) # {}
                 PROVE  /\ \E d \in DefiningFiles(n) : Resolve(s, n) = local_vars[d][n]
                        /\ mem.active_mem[Resolve(s, n)].memtype # "INVALID"
      BY DEF DeclarationsFindDefinition
    <2>1. PICK t \in DOMAIN files : t \in DefiningFiles(n) /\ Exports(files, t, n)
      BY DefiningExports DEF DefiningFiles
    <2>2. /\ Resolve(s, n) = local_vars[t][n]
          /\ Entry(files, mem, global_functions, t, n, local_vars[t][n])
      BY <2>1, LinksThrough
    <2>3. PICK k \in DOMAIN files[s] : files[s][k].name = n
      BY DEF DeclaredNames
    <2>4. Accepted(files) /\ Shown(files, pc, mem, local_vars, global_vars)
      BY ProgramsAssumption DEF SInv, Progress
    <2>5. mem.active_mem[Resolve(s, n)].memtype # "INVALID"
      <3>1. CASE IsFunction(files[s][k])
        BY <2>3, <2>4, <3>1, ResolveIsRes DEF Shown, DoneSetup, IsShown
      <3>2. CASE ~IsFunction(files[s][k])
        <4>1. ~Has(files, s, n, "def") /\ ~Has(files, s, n, "var")
          BY DEF HasOwn, Has
        <4>2. files[s][k].external
          BY <2>3, <2>4, <4>1, OnlyDeclared
        <4>3. Has(files, t, n, "var")
          BY <2>1, <2>3, <2>4, <3>2, <4>2, SameKind
        <4>4. ~Has(files, t, n, "def")
          BY <2>4, <4>3, VarNotFunction DEF Has
        <4> QED
          BY <2>1, <2>2, <4>4 DEF Entry, FunEntry, VarEntry, ExternEntry
      <3> QED
        BY <3>1, <3>2
    <2> QED
      BY <2>1, <2>2, <2>5
  <1> QED
    BY <1>1, SInvHolds, PTL

(* An initialized global has its value in every file that sees it when     *)
(* main starts, for any number of files, declarations and initializers.    *)
THEOREM InitializersAlwaysReach == StartupSpec => []InitializersReach
  <1>1. SInv => InitializersReach
    <2> SUFFICES ASSUME SInv, pc.phase = "run", mem.outcome # "exit",
                        NEW s \in DOMAIN files, NEW k \in DOMAIN files[s],
                        files[s][k].kind = "var", files[s][k].init = "0",
                        NEW t \in (IF files[s][k].external THEN DOMAIN files ELSE {s}),
                        t = s \/ ~HasOwn(t, files[s][k].name)
                 PROVE  mem.active_mem[Resolve(t, files[s][k].name)].data = <<Constant>>
      BY DEF InitializersReach
    <2> DEFINE n == files[s][k].name
    <2>1. /\ Accepted(files) /\ Initialized(files, pc, mem, local_vars) /\ Allocated(files, pc, local_vars)
      BY ProgramsAssumption DEF SInv, Progress
    <2>2. mem.active_mem[local_vars[s][n]].data = <<Constant>> /\ n \in DOMAIN local_vars[s]
      BY <2>1 DEF Initialized, Allocated, DoneInit, DoneSetup
    <2>3. Resolve(t, n) = local_vars[s][n]
      <3>1. CASE t = s
        BY <2>2, <3>1, ResolveIsRes DEF Res
      <3>2. CASE t # s
        <4>1. files[s][k].external /\ t \in DOMAIN files /\ ~HasOwn(t, n)
          BY <3>2
        <4>2. Exports(files, s, n)
          BY <4>1 DEF Exports, IsDefinition
        <4> QED
          BY <4>1, <4>2, LinksThrough
      <3> QED
        BY <3>1, <3>2
    <2> QED
      BY <2>2, <2>3
  <1> QED
    BY <1>1, SInvHolds, PTL

=============================================================================
