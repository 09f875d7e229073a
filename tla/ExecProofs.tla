----------------------------- MODULE ExecProofs -----------------------------
(***************************************************************************)
(* Proofs about Exec for every program the parser accepts, every number of *)
(* iterations and every depth of calls: the control stack is well formed,  *)
(* every statement and call leaves the frames as it found them, and        *)
(* curr_source is always the file of the function that runs.               *)
(***************************************************************************)
EXTENDS Exec, IndexProofs

Sources == {Funcs[f].source : f \in DOMAIN Funcs}

(* The activations of exec_stmt, eval_rexpr, calls and RunProgram.         *)
StmtActs == [kind : {"stmt"}, node : DOMAIN Stmts, pc : Int, n : Nat, depth : Nat]

ExprActs == [kind : {"expr"}, e : Exprs, depth : Nat]

CallActs ==
  {a \in [kind : {"call"}, fn : DOMAIN Funcs \cup {VaStart}, e : Exprs, k : Nat,
          pc : {"eval", "bind", "body"}, save : Sources, depth : Nat] :
     /\ a.k <= Len(a.e.args)
     /\ a.fn = VaStart => a.pc = "eval"
     /\ a.pc = "bind" => a.k < Len(a.e.args)}

RunActs == [kind : {"run"}, fn : Mains, depth : {0}]

Acts == StmtActs \cup ExprActs \cup CallActs \cup RunActs

(* The frames an activation has pushed and not popped yet.                 *)
Framing == {"compound", "for", "switch"}

Frames(a) ==
  IF \/ a.kind \in {"call", "run"}
     \/ a.kind = "stmt" /\ a.pc # 0 /\ Stmts[a.node].kind \in Framing
  THEN 1 ELSE 0

(* The file src is that of the innermost running function among the first  *)
(* k activations of c.                                                     *)
SourceAt(c, k, src) ==
  \E j \in 1..k : /\ IsRunning(c[j])
                  /\ \A i \in (j + 1)..k : ~IsRunning(c[i])
                  /\ src = Funcs[c[j].fn].source

(* The inductive invariant of the control stack c, over depth frames, in   *)
(* the file src: each activation starts where the frames of the one below  *)
(* end, and a call has saved the file of the function it returns to.       *)
Linked(c) ==
  \A k \in 2..Len(c) :
    /\ c[k].kind # "run"
    /\ c[k].kind = "expr" => k = Len(c)
    /\ c[k].depth = c[k - 1].depth + Frames(c[k - 1])
    /\ c[k].kind = "call" => SourceAt(c, k - 1, c[k].save)

CtlInv(c, depth, src) ==
  /\ c \in Seq(Acts) /\ Len(c) > 0
  /\ c[1].kind = "run"
  /\ Linked(c)
  /\ depth = c[Len(c)].depth + Frames(c[Len(c)])
  /\ SourceAt(c, Len(c), src)

(* The kinds tell the activations apart.                                   *)
LEMMA ActKinds ==
  ASSUME NEW a \in Acts
  PROVE  /\ a.kind = "stmt" => a \in StmtActs
         /\ a.kind = "expr" => a \in ExprActs
         /\ a.kind = "call" => a \in CallActs
         /\ a.kind = "run" => a \in RunActs
         /\ a.depth \in Nat /\ Frames(a) \in {0, 1}
         /\ a.kind \in {"stmt", "expr", "call", "run"}
  <1>1. a \in CallActs => a.kind = "call" /\ a.depth \in Nat
    BY DEF CallActs
  <1>2. a \in StmtActs => a.kind = "stmt" /\ a.depth \in Nat
    BY DEF StmtActs
  <1>3. a \in ExprActs => a.kind = "expr" /\ a.depth \in Nat
    BY DEF ExprActs
  <1>4. a \in RunActs => a.kind = "run" /\ a.depth \in Nat
    BY DEF RunActs
  <1>5. Frames(a) \in {0, 1}
    BY DEF Frames
  <1> QED
    BY <1>1, <1>2, <1>3, <1>4, <1>5 DEF Acts

(* The file depends only on the activations looked at.                     *)
LEMMA SourceSame ==
  ASSUME NEW c, NEW d, NEW k \in Nat, \A i \in 1..k : d[i] = c[i],
         NEW src, SourceAt(c, k, src)
  PROVE  SourceAt(d, k, src)
  BY DEF SourceAt

(* An activation on top that runs no function changes nothing.             *)
LEMMA SourceUp ==
  ASSUME NEW c, NEW k \in Nat, NEW src, SourceAt(c, k, src), ~IsRunning(c[k + 1])
  PROVE  SourceAt(c, k + 1, src)
  <1>1. PICK j \in 1..k : /\ IsRunning(c[j])
                          /\ \A i \in (j + 1)..k : ~IsRunning(c[i])
                          /\ src = Funcs[c[j].fn].source
    BY DEF SourceAt
  <1>2. \A i \in (j + 1)..(k + 1) : i = k + 1 \/ i \in (j + 1)..k
    OBVIOUS
  <1>3. j \in 1..(k + 1) /\ \A i \in (j + 1)..(k + 1) : ~IsRunning(c[i])
    BY <1>1, <1>2
  <1> QED
    BY <1>1, <1>3 DEF SourceAt

(* Leaving an activation that runs no body keeps the source of the one     *)
(* below.                                                                  *)
LEMMA SourceDown ==
  ASSUME NEW c, NEW k \in Nat, NEW src, SourceAt(c, k + 1, src), ~IsRunning(c[k + 1])
  PROVE  SourceAt(c, k, src)
  <1>1. PICK j \in 1..(k + 1) : /\ IsRunning(c[j])
                                /\ \A i \in (j + 1)..(k + 1) : ~IsRunning(c[i])
                                /\ src = Funcs[c[j].fn].source
    BY DEF SourceAt
  <1>2. j # k + 1
    BY <1>1
  <1>3. j \in 1..k /\ \A i \in (j + 1)..k : i \in (j + 1)..(k + 1)
    BY <1>2
  <1> QED
    BY <1>1, <1>3 DEF SourceAt

(* The function that runs on top.                                          *)
LEMMA SourceTop ==
  ASSUME NEW c, NEW k \in Nat, k > 0, IsRunning(c[k])
  PROVE  \A src : SourceAt(c, k, src) <=> src = Funcs[c[k].fn].source
  <1>1. \A i \in (k + 1)..k : FALSE
    OBVIOUS
  <1>2. SourceAt(c, k, Funcs[c[k].fn].source)
    BY <1>1 DEF SourceAt
  <1>3. ASSUME NEW src, SourceAt(c, k, src)
        PROVE  src = Funcs[c[k].fn].source
    <2>1. PICK j \in 1..k : /\ IsRunning(c[j])
                            /\ \A i \in (j + 1)..k : ~IsRunning(c[i])
                            /\ src = Funcs[c[j].fn].source
      BY <1>3 DEF SourceAt
    <2>2. j = k
      BY <2>1
    <2> QED
      BY <2>1, <2>2
  <1> QED
    BY <1>2, <1>3

(***************************************************************************)
(* The three ways in which the control stack changes.                      *)
(***************************************************************************)

(* The top activation goes on: d is c with t on top.                       *)
Replaced(c, d, t) ==
  /\ d \in Seq(Acts) /\ Len(d) = Len(c) /\ d[Len(c)] = t
  /\ \A k \in 1..Len(c) : k # Len(c) => d[k] = c[k]

(* The top activation may advance in place: the stack below keeps its      *)
(* shape, and the source changes only when the body of a function starts.  *)
LEMMA ReplaceKeeps ==
  ASSUME NEW c, NEW depth, NEW src, CtlInv(c, depth, src), Len(c) > 1,
         NEW d, NEW t, Replaced(c, d, t),
         t.kind # "run", t.depth = c[Len(c)].depth, ~IsRunning(c[Len(c)]),
         t.kind = "call" => SourceAt(c, Len(c) - 1, t.save),
         NEW src2, IF IsRunning(t) THEN src2 = Funcs[t.fn].source ELSE src2 = src
  PROVE  CtlInv(d, t.depth + Frames(t), src2)
  <1> DEFINE n == Len(c)
  <1>0. c \in Seq(Acts)
    BY DEF CtlInv
  <1>1. n \in Nat /\ n > 1 /\ n - 1 \in Nat /\ (n - 1) + 1 = n
    BY <1>0
  <1>2. /\ d \in Seq(Acts) /\ Len(d) = n /\ d[n] = t
        /\ \A k \in 1..n : k # n => d[k] = c[k]
    BY DEF Replaced
  <1>3. /\ c[1].kind = "run" /\ SourceAt(c, n, src)
        /\ \A k \in 2..n : /\ c[k].kind # "run"
                           /\ c[k].kind = "expr" => k = n
                           /\ c[k].depth = c[k - 1].depth + Frames(c[k - 1])
                           /\ c[k].kind = "call" => SourceAt(c, k - 1, c[k].save)
    BY DEF CtlInv, Linked
  <1> HIDE DEF n
  <1>4. \A k \in Nat : k < n => \A s : SourceAt(c, k, s) => SourceAt(d, k, s)
    <2> SUFFICES ASSUME NEW k \in Nat, k < n, NEW s, SourceAt(c, k, s)
                 PROVE  SourceAt(d, k, s)
      OBVIOUS
    <2>1. \A i \in 1..k : d[i] = c[i]
      BY <1>1, <1>2
    <2> QED
      BY <2>1, SourceSame
  <1>5. Linked(d)
    <2> SUFFICES ASSUME NEW k \in 2..n
                 PROVE  /\ d[k].kind # "run"
                        /\ d[k].kind = "expr" => k = n
                        /\ d[k].depth = d[k - 1].depth + Frames(d[k - 1])
                        /\ d[k].kind = "call" => SourceAt(d, k - 1, d[k].save)
      BY <1>2 DEF Linked
    <2>1. k - 1 \in 1..n /\ k - 1 # n /\ k - 1 \in Nat /\ k - 1 < n /\ k \in 1..n
      BY <1>1
    <2>2. d[k - 1] = c[k - 1]
      BY <1>2, <2>1
    <2>3. CASE k = n
      <3>1. d[k] = t /\ t.depth = c[k].depth
        BY <1>2, <2>3 DEF n
      <3>2. t.kind = "call" => SourceAt(d, k - 1, t.save)
        BY <1>4, <2>1, <2>3 DEF n
      <3> QED
        BY <1>3, <2>2, <2>3, <3>1, <3>2
    <2>4. CASE k # n
      <3>1. d[k] = c[k]
        BY <1>2, <2>1, <2>4
      <3>2. c[k].kind = "call" => SourceAt(d, k - 1, c[k].save)
        BY <1>3, <1>4, <2>1
      <3> QED
        BY <1>3, <2>2, <2>4, <3>1, <3>2
    <2> QED
      BY <2>3, <2>4
  <1>6. SourceAt(d, n, src2)
    <2>1. CASE IsRunning(t)
      BY <1>1, <1>2, <2>1, SourceTop
    <2>2. CASE ~IsRunning(t)
      <3>1. SourceAt(c, (n - 1) + 1, src) /\ ~IsRunning(c[(n - 1) + 1])
        BY <1>1, <1>3 DEF n
      <3>2. SourceAt(c, n - 1, src)
        BY <1>1, <3>1, SourceDown
      <3>3. SourceAt(d, n - 1, src2)
        BY <1>1, <1>4, <2>2, <3>2
      <3>4. ~IsRunning(d[(n - 1) + 1])
        BY <1>1, <1>2, <2>2
      <3>5. SourceAt(d, (n - 1) + 1, src2)
        BY <1>1, <3>3, <3>4, SourceUp
      <3> QED
        BY <1>1, <3>5
    <2> QED
      BY <2>1, <2>2
  <1>7. d[1].kind = "run"
    BY <1>1, <1>2, <1>3
  <1>8. Len(d) > 0 /\ d[Len(d)] = t
    BY <1>1, <1>2
  <1> QED
    BY <1>2, <1>5, <1>6, <1>7, <1>8 DEF CtlInv

(* A statement or an expression is started.                                *)
LEMMA PushKeeps ==
  ASSUME NEW c, NEW depth, NEW src, CtlInv(c, depth, src), c[Len(c)].kind # "expr",
         NEW u \in Acts, u.kind \in {"stmt", "expr"}, Frames(u) = 0, u.depth = depth
  PROVE  CtlInv(Append(c, u), depth, src)
  <1> DEFINE n == Len(c)
             d == Append(c, u)
  <1>0. c \in Seq(Acts) /\ c[1].kind = "run" /\ SourceAt(c, n, src)
    BY DEF CtlInv
  <1>1. n \in Nat /\ n > 0
    BY <1>0 DEF CtlInv
  <1>2. /\ d \in Seq(Acts) /\ Len(d) = n + 1 /\ d[n + 1] = u
        /\ \A k \in 1..n : d[k] = c[k]
    BY <1>0
  <1>3. \A k \in 2..n : /\ c[k].kind # "run"
                        /\ c[k].kind = "expr" => k = n
                        /\ c[k].depth = c[k - 1].depth + Frames(c[k - 1])
                        /\ c[k].kind = "call" => SourceAt(c, k - 1, c[k].save)
    BY DEF CtlInv, Linked
  <1>4. depth = c[n].depth + Frames(c[n]) /\ c[n].kind # "expr"
    BY DEF CtlInv
  <1> HIDE DEF n, d
  <1>5. \A k \in Nat : k <= n => \A s : SourceAt(c, k, s) => SourceAt(d, k, s)
    <2> SUFFICES ASSUME NEW k \in Nat, k <= n, NEW s, SourceAt(c, k, s)
                 PROVE  SourceAt(d, k, s)
      OBVIOUS
    <2>1. \A i \in 1..k : d[i] = c[i]
      BY <1>1, <1>2
    <2> QED
      BY <2>1, SourceSame
  <1>6. Linked(d)
    <2> SUFFICES ASSUME NEW k \in 2..(n + 1)
                 PROVE  /\ d[k].kind # "run"
                        /\ d[k].kind = "expr" => k = n + 1
                        /\ d[k].depth = d[k - 1].depth + Frames(d[k - 1])
                        /\ d[k].kind = "call" => SourceAt(d, k - 1, d[k].save)
      BY <1>2 DEF Linked
    <2>1. k - 1 \in 1..n /\ k - 1 \in Nat /\ k - 1 <= n
      BY <1>1
    <2>2. d[k - 1] = c[k - 1]
      BY <1>2, <2>1
    <2>3. CASE k = n + 1
      <3>1. k - 1 = n
        BY <1>1, <2>3
      <3> QED
        BY <1>2, <1>4, <2>2, <2>3, <3>1
    <2>4. CASE k # n + 1
      <3>1. k \in 2..n /\ k \in 1..n
        BY <1>1, <2>4
      <3>2. d[k] = c[k] /\ c[k].kind # "expr"
        BY <1>2, <1>3, <1>4, <3>1
      <3>3. c[k].kind = "call" => SourceAt(d, k - 1, c[k].save)
        BY <1>3, <1>5, <2>1, <3>1
      <3> QED
        BY <1>3, <2>2, <3>1, <3>2, <3>3
    <2> QED
      BY <2>3, <2>4
  <1>7. SourceAt(d, n + 1, src)
    <2>1. SourceAt(d, n, src)
      BY <1>0, <1>1, <1>5
    <2>2. ~IsRunning(d[n + 1])
      BY <1>2 DEF IsRunning
    <2> QED
      BY <1>1, <2>1, <2>2, SourceUp
  <1>8. d[1].kind = "run"
    BY <1>0, <1>1, <1>2
  <1>9. depth = d[n + 1].depth + Frames(d[n + 1])
    <2>1. u.depth \in Nat
      BY ActKinds
    <2> QED
      BY <1>2, <2>1
  <1>10. Len(d) > 0
    BY <1>1, <1>2
  <1>11. CtlInv(d, depth, src)
    BY <1>2, <1>6, <1>7, <1>8, <1>9, <1>10 DEF CtlInv
  <1> QED
    BY <1>11 DEF d

(* The top activation ends.                                                *)
LEMMA PopKeeps ==
  ASSUME NEW c, NEW depth, NEW src, CtlInv(c, depth, src), Len(c) > 1,
         NEW src2, IF IsRunning(c[Len(c)]) THEN src2 = c[Len(c)].save ELSE src2 = src
  PROVE  CtlInv(Front(c), c[Len(c)].depth, src2)
  <1> DEFINE n == Len(c)
             d == Front(c)
  <1>0. c \in Seq(Acts) /\ c[1].kind = "run" /\ SourceAt(c, n, src)
    BY DEF CtlInv
  <1>1. n \in Nat /\ n > 1 /\ n - 1 \in Nat /\ (n - 1) + 1 = n
    BY <1>0
  <1>2. /\ d \in Seq(Acts) /\ Len(d) = n - 1
        /\ \A k \in 1..(n - 1) : d[k] = c[k]
    BY <1>0, <1>1 DEF Front
  <1>3. \A k \in 2..n : /\ c[k].kind # "run"
                        /\ c[k].kind = "expr" => k = n
                        /\ c[k].depth = c[k - 1].depth + Frames(c[k - 1])
                        /\ c[k].kind = "call" => SourceAt(c, k - 1, c[k].save)
    BY DEF CtlInv, Linked
  <1> HIDE DEF n, d
  <1>4. \A k \in Nat : k <= n - 1 => \A s : SourceAt(c, k, s) => SourceAt(d, k, s)
    <2> SUFFICES ASSUME NEW k \in Nat, k <= n - 1, NEW s, SourceAt(c, k, s)
                 PROVE  SourceAt(d, k, s)
      OBVIOUS
    <2>1. \A i \in 1..k : d[i] = c[i]
      BY <1>1, <1>2
    <2> QED
      BY <2>1, SourceSame
  <1>5. Linked(d)
    <2> SUFFICES ASSUME NEW k \in 2..(n - 1)
                 PROVE  /\ d[k].kind # "run"
                        /\ d[k].kind = "expr" => k = n - 1
                        /\ d[k].depth = d[k - 1].depth + Frames(d[k - 1])
                        /\ d[k].kind = "call" => SourceAt(d, k - 1, d[k].save)
      BY <1>2 DEF Linked
    <2>1. /\ k - 1 \in 1..(n - 1) /\ k - 1 \in Nat /\ k - 1 <= n - 1
          /\ k \in 2..n /\ k \in 1..(n - 1)
      BY <1>1
    <2>2. d[k - 1] = c[k - 1] /\ d[k] = c[k]
      BY <1>2, <2>1
    <2>3. c[k].kind = "call" => SourceAt(d, k - 1, c[k].save)
      BY <1>3, <1>4, <2>1
    <2>4. c[k].kind # "expr"
      BY <1>1, <1>3, <2>1
    <2> QED
      BY <1>3, <2>1, <2>2, <2>3, <2>4
  <1>6. n \in 2..n /\ n - 1 \in 1..(n - 1) /\ 1 \in 1..(n - 1)
    BY <1>1
  <1>7. SourceAt(c, n - 1, src2)
    <2>1. CASE IsRunning(c[n])
      <3>1. c[n].kind = "call"
        BY <1>3, <1>6, <2>1 DEF IsRunning
      <3> QED
        BY <1>3, <1>6, <2>1, <3>1 DEF n
    <2>2. CASE ~IsRunning(c[n])
      <3>1. SourceAt(c, (n - 1) + 1, src) /\ ~IsRunning(c[(n - 1) + 1])
        BY <1>0, <1>1, <2>2
      <3>2. SourceAt(c, n - 1, src)
        BY <1>1, <3>1, SourceDown
      <3> QED
        BY <2>2, <3>2 DEF n
    <2> QED
      BY <2>1, <2>2
  <1>8. SourceAt(d, n - 1, src2)
    BY <1>1, <1>4, <1>7
  <1>9. c[n].depth = d[n - 1].depth + Frames(d[n - 1]) /\ d[1].kind = "run"
    BY <1>0, <1>2, <1>3, <1>6
  <1>10. Len(d) > 0
    BY <1>1, <1>2
  <1>11. CtlInv(d, c[n].depth, src2)
    BY <1>2, <1>5, <1>8, <1>9, <1>10 DEF CtlInv
  <1> QED
    BY <1>11 DEF d, n

(***************************************************************************)
(* The memory state: the invariants of the memory subsystem, and blocks    *)
(* with their three parts.  The operations that Exec uses keep it.         *)
(***************************************************************************)
Shaped(m) == \A b \in DOMAIN m.active_mem : DOMAIN m.active_mem[b] = {"memtype", "size", "data"}

VarsLive(m) ==
  \A f \in DOMAIN m.stack_vars : \A i \in DOMAIN m.stack_vars[f] :
    m.stack_vars[f][i].block \in DOMAIN m.active_mem

Sane(m) ==
  /\ MemTypeOK(m) /\ CounterOK(m)
  /\ Indexed(m) /\ Owned(m) /\ Len(m.stack_vars) > 0
  /\ Shaped(m) /\ VarsLive(m)

(* What LocalsExpire needs of a state: a block of the stack is that of a   *)
(* variable in scope or holds the elements of an array, and RunProgram's   *)
(* own frame has no variable.                                              *)
IsVar(m, b) ==
  \E f \in DOMAIN m.stack_vars : \E i \in DOMAIN m.stack_vars[f] : m.stack_vars[f][i].block = b

IsElements(blk) == blk.data = Elements(blk.size)

Tidy(m) ==
  /\ \A b \in DOMAIN m.active_mem :
       m.active_mem[b].memtype = "STACK" => IsElements(m.active_mem[b]) \/ IsVar(m, b)
  /\ DOMAIN m.stack_vars[1] = {}

(* The end of the run.                                                     *)
LEMMA EndSane ==
  ASSUME NEW m, Sane(m), NEW how \in Outcomes
  PROVE  /\ Sane(End(m, how))
         /\ End(m, how).stack_vars = m.stack_vars
         /\ End(m, how).outcome = how
         /\ End(m, how).active_mem = m.active_mem
         /\ Tidy(m) => Tidy(End(m, how))
  <1> DEFINE n == End(m, how)
  <1>1. MemTypeOK(m)
    BY DEF Sane
  <1>2. MemTypeOK(n)
    BY <1>1, EndType
  <1>3. /\ n.id_counter = m.id_counter /\ n.active_mem = m.active_mem
        /\ n.stack_vars = m.stack_vars /\ n.stack_var_map = m.stack_var_map
        /\ n.outcome = how
    BY <1>1 DEF End, MemTypeOK
  <1> HIDE DEF n
  <1>4. Indexed(n)
    BY <1>3, SameIndexed DEF Sane
  <1>5. Owned(n)
    BY <1>3 DEF Sane, Owned, Issued
  <1>6. Sane(n)
    BY <1>2, <1>3, <1>4, <1>5 DEF Sane, CounterOK, Shaped, VarsLive
  <1>7. Tidy(m) => Tidy(n)
    BY <1>3 DEF Tidy, IsVar
  <1> QED
    BY <1>3, <1>6, <1>7 DEF n

(* A new block: what it holds, and that the other blocks stay.             *)
LEMMA BlockSane ==
  ASSUME NEW m, Sane(m), NEW t \in mem_type_t, NEW d, Len(d) \in Nat,
         NEW n, n = mem_block(m, t, d)
  PROVE  /\ Sane(n)
         /\ n.stack_vars = m.stack_vars /\ n.stack_var_map = m.stack_var_map
         /\ n.outcome # "run" => n.active_mem = m.active_mem
         /\ m.outcome # "done" => n.outcome # "done"
         /\ n.outcome = "run" =>
              /\ m.outcome = "run"
              /\ m.id_counter \notin Issued(m) /\ m.id_counter \in Issued(n)
              /\ DOMAIN n.active_mem = DOMAIN m.active_mem \cup {m.id_counter}
              /\ n.active_mem[m.id_counter] = [memtype |-> t, size |-> Len(d), data |-> d]
              /\ \A b \in DOMAIN m.active_mem :
                   b # m.id_counter /\ n.active_mem[b] = m.active_mem[b]
  <1>0. MemTypeOK(m) /\ CounterOK(m) /\ Indexed(m) /\ Owned(m) /\ Len(m.stack_vars) > 0
    BY DEF Sane
  <1>1. n.stack_vars = m.stack_vars /\ n.stack_var_map = m.stack_var_map
    BY <1>0, BlockSameStack
  <1>2. CASE m.outcome # "run"
    BY <1>1, <1>2 DEF mem_block
  <1>3. CASE m.outcome = "run" /\ m.id_counter = 0
    <2>1. n = End(m, "exit")
      BY <1>0, <1>3, BlockExits
    <2>2. Sane(n) /\ n.outcome = "exit" /\ n.active_mem = m.active_mem
      BY <2>1, EndSane DEF Outcomes
    <2> QED
      BY <1>1, <1>3, <2>2
  <1>4. CASE m.outcome = "run" /\ m.id_counter # 0
    <2> DEFINE c == m.id_counter
               blk == [memtype |-> t, size |-> Len(d), data |-> d]
    <2>1. /\ n.outcome = "run"
          /\ CounterOK(n)
          /\ Issued(n) = Issued(m) \cup {c}
          /\ c \notin Issued(m)
          /\ DOMAIN n.active_mem = DOMAIN m.active_mem \cup {c}
          /\ \A b \in DOMAIN m.active_mem : b # c => n.active_mem[b] = m.active_mem[b]
      BY <1>0, <1>4, BlockEffect
    <2>2. n.active_mem[c] = blk
      BY <1>0, <1>4 DEF mem_block, new_block_id, Enters, MemTypeOK
    <2>3. MemTypeOK(n)
      BY <1>0, BlockType
    <2>4. Owned(n)
      BY <1>0, <1>4, BlockOwned
    <2>5. Indexed(n)
      BY <1>0, <1>1, SameIndexed
    <2>6. \A b \in DOMAIN m.active_mem : b # c
      BY <1>0, <2>1 DEF Owned
    <2> HIDE DEF c
    <2>7. DOMAIN blk = {"memtype", "size", "data"}
      OBVIOUS
    <2>8. Shaped(n)
      BY <2>1, <2>2, <2>6, <2>7 DEF Sane, Shaped
    <2>9. VarsLive(n)
      BY <1>1, <2>1 DEF Sane, VarsLive
    <2>10. Sane(n)
      BY <1>0, <1>1, <2>1, <2>3, <2>4, <2>5, <2>8, <2>9 DEF Sane
    <2> QED
      BY <1>1, <1>4, <2>1, <2>2, <2>6, <2>10 DEF c
  <1> QED
    BY <1>2, <1>3, <1>4

(* A new frame.                                                            *)
LEMMA FrameSane ==
  ASSUME NEW m, Sane(m), m.outcome = "run", NEW n, n = add_stack_frame(m)
  PROVE  /\ Sane(n)
         /\ n.outcome = "run" /\ n.active_mem = m.active_mem
         /\ Len(n.stack_vars) = Len(m.stack_vars) + 1
         /\ Top(n) = <<>>
         /\ Tidy(m) => Tidy(n)
  <1>1. MemTypeOK(m) /\ Indexed(m) /\ Owned(m)
    BY DEF Sane
  <1>2. MemTypeOK(n) /\ Indexed(n) /\ Owned(n)
    BY <1>1, FrameType, FrameIndexed, FrameOwned
  <1>3. /\ n.id_counter = m.id_counter /\ n.active_mem = m.active_mem
        /\ n.stack_vars = Append(m.stack_vars, <<>>) /\ n.outcome = "run"
    BY <1>1 DEF add_stack_frame, MemTypeOK
  <1>4. m.stack_vars \in Seq(Seq(VarType)) /\ Len(m.stack_vars) > 0
    BY <1>1 DEF MemTypeOK, Sane
  <1>5. Len(n.stack_vars) = Len(m.stack_vars) + 1 /\ Len(n.stack_vars) > 0
    BY <1>3, <1>4
  <1>6. /\ \A f \in DOMAIN n.stack_vars :
             f \in DOMAIN m.stack_vars \/ DOMAIN n.stack_vars[f] = {}
        /\ \A f \in DOMAIN m.stack_vars :
             f \in DOMAIN n.stack_vars /\ n.stack_vars[f] = m.stack_vars[f]
        /\ 1 \in DOMAIN m.stack_vars
    <2>1. /\ DOMAIN n.stack_vars = DOMAIN m.stack_vars \cup {Len(m.stack_vars) + 1}
          /\ \A f \in DOMAIN m.stack_vars : n.stack_vars[f] = m.stack_vars[f]
          /\ DOMAIN n.stack_vars[Len(m.stack_vars) + 1] = {}
      BY <1>1, FrameEffect
    <2> QED
      BY <1>4, <2>1
  <1>7. VarsLive(n)
    BY <1>3, <1>6 DEF Sane, VarsLive
  <1>8. Tidy(m) => Tidy(n)
    BY <1>3, <1>6 DEF Tidy, IsVar
  <1>9. Sane(n)
    BY <1>2, <1>3, <1>5, <1>7 DEF Sane, CounterOK, Shaped
  <1>10. Top(n) = <<>>
    BY <1>3, <1>4, <1>5 DEF Top
  <1> QED
    BY <1>3, <1>5, <1>8, <1>9, <1>10

(* A new variable, with a block of its own.                                *)
LEMMA BoundSane ==
  ASSUME NEW m, Sane(m), NEW name \in Names, NEW d, Len(d) \in Nat,
         NEW n, n = Bound(m, name, d)
  PROVE  /\ Sane(n)
         /\ Len(n.stack_vars) = Len(m.stack_vars)
         /\ Tidy(m) /\ Len(m.stack_vars) > 1 => Tidy(n)
         /\ m.outcome # "done" => n.outcome # "done"
         /\ n.outcome = "run" =>
              /\ Added(m, n, name, m.id_counter, Len(m.stack_vars), Len(Top(m)))
              /\ \A b \in DOMAIN m.active_mem :
                   b \in DOMAIN n.active_mem /\ n.active_mem[b] = m.active_mem[b]
              /\ m.id_counter \in DOMAIN n.active_mem
              /\ n.active_mem[m.id_counter].data = d
  <1> DEFINE k == mem_block(m, "STACK", d)
             b == m.id_counter
             blk == [memtype |-> "STACK", size |-> Len(d), data |-> d]
  <1>0. MemTypeOK(m) /\ CounterOK(m) /\ Owned(m) /\ Len(m.stack_vars) > 0
    BY DEF Sane
  <1>1. n = add_stack_var(k, name, b)
    BY DEF Bound
  <1>2. /\ Sane(k)
        /\ k.stack_vars = m.stack_vars /\ k.stack_var_map = m.stack_var_map
        /\ k.outcome # "run" => k.active_mem = m.active_mem
        /\ m.outcome # "done" => k.outcome # "done"
        /\ k.outcome = "run" =>
             /\ b \notin Issued(m) /\ b \in Issued(k)
             /\ DOMAIN k.active_mem = DOMAIN m.active_mem \cup {b}
             /\ k.active_mem[b] = blk
             /\ \A c \in DOMAIN m.active_mem :
                  c # b /\ k.active_mem[c] = m.active_mem[c]
    BY BlockSane DEF mem_type_t
  <1>3. blk.memtype = "STACK" /\ blk.data = d
    OBVIOUS
  <1> HIDE DEF k, blk
  <1>4. CASE k.outcome # "run"
    <2>1. n = k
      BY <1>1, <1>4 DEF add_stack_var
    <2>2. Tidy(m) => Tidy(n)
      BY <1>2, <1>4, <2>1 DEF Tidy, IsVar
    <2> QED
      BY <1>2, <1>4, <2>1, <2>2
  <1>5. CASE k.outcome = "run"
    <2>1. MemTypeOK(k) /\ Indexed(k) /\ Owned(k) /\ Len(k.stack_vars) > 0
      BY <1>2 DEF Sane
    <2>2. b \in block_id_t
      BY <1>0 DEF MemTypeOK
    <2>3. MemTypeOK(n) /\ Indexed(n)
      BY <1>1, <1>5, <2>1, <2>2, VarsType, VarIndexed
    <2>4. \A f \in DOMAIN k.stack_vars : \A i \in DOMAIN k.stack_vars[f] :
            k.stack_vars[f][i].block # b
      BY <1>0, <1>2, <1>5 DEF Owned
    <2>5. Owned(n)
      BY <1>1, <1>2, <1>3, <1>5, <2>1, <2>4, VarOwned
    <2>6. /\ n.id_counter = k.id_counter /\ n.active_mem = k.active_mem
          /\ n.outcome = "run"
      BY <1>1, <1>5, <2>1 DEF add_stack_var, MemTypeOK
    <2> DEFINE e == Len(m.stack_vars)
               l == Len(Top(m))
    <2>7. Added(k, n, name, b, e, l)
      <3>1. Added(k, n, name, b, Len(k.stack_vars), Len(k.stack_vars[Len(k.stack_vars)]))
        BY <1>1, <1>5, <2>1, VarEffect
      <3> QED
        BY <1>2, <3>1 DEF Top
    <2>8. Added(m, n, name, b, e, l)
      BY <1>2, <2>7 DEF Added, Listed
    <2>9. Len(n.stack_vars) = e /\ e \in Nat /\ e > 0
      <3>1. m.stack_vars \in Seq(Seq(VarType)) /\ n.stack_vars \in Seq(Seq(VarType))
        BY <1>0, <2>3 DEF MemTypeOK
      <3>2. DOMAIN n.stack_vars = DOMAIN m.stack_vars
        BY <2>8 DEF Added
      <3> QED
        BY <1>0, <3>1, <3>2
    <2> HIDE DEF b, e, l
    <2>10. \A f \in DOMAIN n.stack_vars : \A i \in DOMAIN n.stack_vars[f] :
             \/ /\ f \in DOMAIN m.stack_vars /\ i \in DOMAIN m.stack_vars[f]
                /\ n.stack_vars[f][i] = m.stack_vars[f][i]
             \/ f = e /\ n.stack_vars[f][i] = [name |-> name, block |-> b]
      <3>1. \A i \in 1 .. (l + 1) : i \in 1 .. l \/ i = l + 1
        BY <2>8 DEF Added
      <3> QED
        BY <2>8, <3>1 DEF Added
    <2>11. VarsLive(n)
      <3>1. [name |-> name, block |-> b].block = b
        OBVIOUS
      <3> QED
        BY <1>2, <1>5, <2>6, <2>10, <3>1 DEF Sane, VarsLive
    <2>12. \A f \in DOMAIN m.stack_vars : \A i \in DOMAIN m.stack_vars[f] :
             /\ f \in DOMAIN n.stack_vars /\ i \in DOMAIN n.stack_vars[f]
             /\ n.stack_vars[f][i] = m.stack_vars[f][i]
      <3>1. \A i \in 1 .. l : i \in 1 .. (l + 1)
        BY <2>8 DEF Added
      <3> QED
        BY <2>8, <3>1 DEF Added
    <2>13. IsVar(n, b)
      <3>1. e \in DOMAIN n.stack_vars /\ l + 1 \in DOMAIN n.stack_vars[e]
        <4>1. l + 1 \in 1 .. (l + 1)
          BY <2>8 DEF Added
        <4> QED
          BY <2>8, <4>1 DEF Added
      <3>2. n.stack_vars[e][l + 1].block = b
        BY <2>8 DEF Added
      <3> QED
        BY <3>1, <3>2 DEF IsVar
    <2>14. ASSUME Tidy(m), e > 1 PROVE Tidy(n)
      <3>1. \A c : IsVar(m, c) => IsVar(n, c)
        BY <2>12 DEF IsVar
      <3>2. n.stack_vars[1] = m.stack_vars[1]
        <4>1. m.stack_vars \in Seq(Seq(VarType))
          BY <1>0 DEF MemTypeOK
        <4>2. 1 \in DOMAIN m.stack_vars /\ 1 # e
          BY <1>0, <2>9, <2>14, <4>1
        <4> QED
          BY <2>8, <4>2 DEF Added
      <3> QED
        BY <1>2, <1>5, <2>6, <2>13, <2>14, <3>1, <3>2 DEF Tidy
    <2>15. Sane(n)
      <3>1. Len(n.stack_vars) > 0
        BY <2>9
      <3> QED
        BY <1>2, <2>3, <2>5, <2>6, <2>11, <3>1 DEF Sane, CounterOK, Shaped
    <2> QED
      BY <1>2, <1>3, <1>5, <2>6, <2>8, <2>9, <2>14, <2>15 DEF b, e, l
  <1> QED
    BY <1>4, <1>5

(* The end of a scope: all its blocks can be freed.                        *)
LEMMA PopSane ==
  ASSUME NEW m, Sane(m), m.outcome = "run", Len(m.stack_vars) > 1,
         NEW n, n = pop_stack_frame(m)
  PROVE  /\ Sane(n)
         /\ Len(n.stack_vars) = Len(m.stack_vars) - 1
         /\ n.outcome = "run"
         /\ Tidy(m) => Tidy(n)
  <1> DEFINE e == Len(m.stack_vars)
  <1>0. MemTypeOK(m) /\ CounterOK(m) /\ Indexed(m) /\ Owned(m) /\ e > 0
    BY DEF Sane
  <1>1. m.stack_vars \in Seq(Seq(VarType)) /\ e \in Nat /\ e > 1 /\ e \in DOMAIN m.stack_vars
    BY <1>0 DEF MemTypeOK
  <1>2. n.stack_vars = SubSeq(m.stack_vars, 1, e - 1) /\ n.stack_var_map = Unindexed(m)
    BY <1>0, PopEffect
  <1>3. MemTypeOK(n) /\ Indexed(n)
    BY <1>0, <1>2, PopType, PopIndexed
  <1>4. TopBlocks(m) \subseteq DOMAIN m.active_mem
    BY <1>1 DEF TopBlocks, Top, Sane, VarsLive
  <1>5. Owned(n)
    BY <1>0, <1>4, PopOwned
  <1>6. /\ n.outcome = "run" /\ n.id_counter = m.id_counter
        /\ n.active_mem = [c \in DOMAIN m.active_mem |->
             IF c \in TopBlocks(m) THEN Freed(m.active_mem[c]) ELSE m.active_mem[c]]
    BY <1>0, <1>4, PopNotExpired
  <1>7. /\ Len(n.stack_vars) = e - 1 /\ Len(n.stack_vars) > 0
        /\ \A f \in DOMAIN n.stack_vars :
             f \in DOMAIN m.stack_vars /\ n.stack_vars[f] = m.stack_vars[f]
        /\ \A f \in DOMAIN m.stack_vars : f = e \/ f \in DOMAIN n.stack_vars
        /\ 1 \in DOMAIN n.stack_vars
    BY <1>1, <1>2
  <1> HIDE DEF e
  <1>8. \A blk : DOMAIN Freed(blk) = {"memtype", "size", "data"} /\ Freed(blk).memtype = "FREED"
    BY DEF Freed
  <1>9. Shaped(n)
    BY <1>6, <1>8 DEF Sane, Shaped
  <1>10. VarsLive(n)
    BY <1>6, <1>7 DEF Sane, VarsLive
  <1>11. Sane(n)
    BY <1>0, <1>3, <1>5, <1>6, <1>7, <1>9, <1>10 DEF Sane, CounterOK
  <1>12. ASSUME Tidy(m) PROVE Tidy(n)
    <2>1. \A b : IsVar(m, b) => b \in TopBlocks(m) \/ IsVar(n, b)
      BY <1>7 DEF IsVar, TopBlocks, Top, e
    <2>2. ASSUME NEW b \in DOMAIN n.active_mem, n.active_mem[b].memtype = "STACK"
          PROVE  IsElements(n.active_mem[b]) \/ IsVar(n, b)
      <3>1. b \in DOMAIN m.active_mem /\ b \notin TopBlocks(m)
        BY <1>6, <1>8, <2>2
      <3>2. n.active_mem[b] = m.active_mem[b]
        BY <1>6, <3>1
      <3> QED
        BY <1>12, <2>1, <2>2, <3>1, <3>2 DEF Tidy
    <2> QED
      BY <1>7, <1>12, <2>2 DEF Tidy
  <1> QED
    BY <1>6, <1>7, <1>11, <1>12 DEF e

(* A write to the data of a block, if there is such a block.               *)
Written(m, b, x) == [m EXCEPT !.active_mem[b].data = x]

(* Writing the bytes of a block changes no frame and no name.              *)
LEMMA WriteSane ==
  ASSUME NEW m, Sane(m), NEW b, NEW x,
         NEW n, n = Written(m, b, x)
  PROVE  /\ Sane(n)
         /\ n.stack_vars = m.stack_vars /\ n.outcome = m.outcome
         /\ Tidy(m) /\ IsVar(m, b) => Tidy(n)
  <1> DEFINE a == [m.active_mem EXCEPT ![b].data = x]
  <1>0. MemTypeOK(m) /\ Shaped(m)
    BY DEF Sane
  <1>1. /\ n.active_mem = a /\ DOMAIN n = DOMAIN m
        /\ n.id_counter = m.id_counter /\ n.stack_vars = m.stack_vars
        /\ n.stack_var_map = m.stack_var_map /\ n.outcome = m.outcome
    BY <1>0 DEF MemTypeOK, Written
  <1>2. DOMAIN a = DOMAIN m.active_mem /\ \A c \in DOMAIN a : c # b => a[c] = m.active_mem[c]
    OBVIOUS
  <1>3. ASSUME b \in DOMAIN a
        PROVE  /\ a[b].memtype = m.active_mem[b].memtype /\ a[b].size = m.active_mem[b].size
               /\ DOMAIN a[b] = DOMAIN m.active_mem[b]
    <2>1. a[b] = [m.active_mem[b] EXCEPT !.data = x]
      BY <1>3
    <2>2. DOMAIN m.active_mem[b] = {"memtype", "size", "data"}
      BY <1>0, <1>2, <1>3 DEF Shaped
    <2> QED
      BY <2>1, <2>2
  <1> HIDE DEF a
  <1>4. \A c \in DOMAIN a : a[c].memtype = m.active_mem[c].memtype /\ a[c].size = m.active_mem[c].size
                            /\ DOMAIN a[c] = DOMAIN m.active_mem[c]
    BY <1>2, <1>3
  <1>5. MemTypeOK(n)
    BY <1>0, <1>1, <1>2, <1>4 DEF MemTypeOK
  <1>6. Indexed(n)
    BY <1>1, SameIndexed DEF Sane
  <1>7. Owned(n)
    BY <1>1, <1>2, <1>4 DEF Sane, Owned, Issued
  <1>8. Shaped(n) /\ VarsLive(n)
    BY <1>1, <1>2, <1>4 DEF Sane, Shaped, VarsLive
  <1>9. Sane(n)
    BY <1>1, <1>5, <1>6, <1>7, <1>8 DEF Sane, CounterOK
  <1>10. Tidy(m) /\ IsVar(m, b) => Tidy(n)
    BY <1>1, <1>2, <1>4 DEF Tidy, IsVar
  <1> QED
    BY <1>1, <1>9, <1>10

(***************************************************************************)
(* The bottom of the control stack: above RunProgram lies the body of main *)
(* and every other activation runs within the frame that body has pushed.  *)
(* An activation that has started another is past its first step, and a    *)
(* call of va_start starts none.                                           *)
(***************************************************************************)
Rooted(c) ==
  /\ Len(c) >= 2 => c[2].kind = "stmt" /\ Stmts[c[2].node].kind = "compound"
  /\ \A k \in 2..(Len(c) - 1) : /\ c[k].kind = "stmt" => c[k].pc # 0
                                /\ c[k].kind = "call" => c[k].fn # VaStart
  /\ \A k \in 3..Len(c) : c[k].depth >= 2

(* The top activation goes on.                                             *)
LEMMA ReplaceRooted ==
  ASSUME NEW c \in Seq(Acts), Rooted(c), Len(c) > 1, NEW d, NEW t, Replaced(c, d, t),
         t.depth = c[Len(c)].depth,
         c[Len(c)].kind = "stmt" => t.kind = "stmt" /\ t.node = c[Len(c)].node
  PROVE  Rooted(d)
  <1> DEFINE n == Len(c)
  <1>1. n \in Nat /\ n > 1
    OBVIOUS
  <1>2. Len(d) = n /\ d[n] = t /\ \A k \in 1..n : k # n => d[k] = c[k]
    BY DEF Replaced
  <1>3. t.depth = c[n].depth /\ (c[n].kind = "stmt" => t.kind = "stmt" /\ t.node = c[n].node)
    OBVIOUS
  <1>4. /\ n >= 2 => c[2].kind = "stmt" /\ Stmts[c[2].node].kind = "compound"
        /\ \A k \in 2..(n - 1) : /\ c[k].kind = "stmt" => c[k].pc # 0
                                 /\ c[k].kind = "call" => c[k].fn # VaStart
        /\ \A k \in 3..n : c[k].depth >= 2
    BY DEF Rooted
  <1> HIDE DEF n
  <1>5. d[2].kind = "stmt" /\ Stmts[d[2].node].kind = "compound"
    <2>1. CASE n = 2
      BY <1>1, <1>2, <1>3, <1>4, <2>1
    <2>2. CASE n # 2
      <3>1. 2 \in 1..n /\ n >= 2
        BY <1>1
      <3> QED
        BY <1>2, <1>4, <2>2, <3>1
    <2> QED
      BY <2>1, <2>2
  <1>6. \A k \in 2..(n - 1) : d[k] = c[k]
    BY <1>1, <1>2
  <1>7. \A k \in 3..n : d[k].depth >= 2
    <2>1. \A k \in 3..n : k \in 1..n
      BY <1>1
    <2> QED
      BY <1>2, <1>3, <1>4, <2>1
  <1> QED
    BY <1>2, <1>4, <1>5, <1>6, <1>7 DEF Rooted

(* Something is started on top.                                            *)
LEMMA PushRooted ==
  ASSUME NEW c, NEW depth, NEW src, CtlInv(c, depth, src), Rooted(c), Len(c) > 1,
         c[Len(c)].kind = "stmt" => c[Len(c)].pc # 0,
         c[Len(c)].kind = "call" => c[Len(c)].fn # VaStart,
         NEW u \in Acts, u.depth = depth
  PROVE  Rooted(Append(c, u))
  <1> DEFINE n == Len(c)
             d == Append(c, u)
  <1>0. c \in Seq(Acts)
    BY DEF CtlInv
  <1>1. n \in Nat /\ n > 1
    BY <1>0
  <1>2. Len(d) = n + 1 /\ d[n + 1] = u /\ \A k \in 1..n : d[k] = c[k]
    BY <1>0
  <1>3. /\ c[n].kind = "stmt" => c[n].pc # 0
        /\ c[n].kind = "call" => c[n].fn # VaStart
    OBVIOUS
  <1>4. /\ n >= 2 => c[2].kind = "stmt" /\ Stmts[c[2].node].kind = "compound"
        /\ \A k \in 2..(n - 1) : /\ c[k].kind = "stmt" => c[k].pc # 0
                                 /\ c[k].kind = "call" => c[k].fn # VaStart
        /\ \A k \in 3..n : c[k].depth >= 2
    BY DEF Rooted
  <1>5. /\ depth = c[n].depth + Frames(c[n])
        /\ \A k \in 2..n : c[k].depth = c[k - 1].depth + Frames(c[k - 1])
        /\ c[1].kind = "run"
    BY DEF CtlInv, Linked
  <1>6. \A k \in 1..n : c[k] \in Acts
    BY <1>0
  <1> HIDE DEF n, d
  <1>7. \A k \in 1..n : /\ c[k].depth \in Nat /\ Frames(c[k]) \in {0, 1}
                        /\ c[k].kind = "run" => c[k] \in RunActs
    BY <1>6, ActKinds
  <1>8. n \in 1..n /\ 1 \in 1..n /\ 2 \in 2..n
    BY <1>1
  <1>9. depth >= 2
    <2>1. CASE n = 2
      <3>1. c[1].depth = 0 /\ Frames(c[1]) = 1
        BY <1>5, <1>7, <1>8 DEF RunActs, Frames
      <3>2. Frames(c[2]) = 1
        BY <1>3, <1>4, <2>1 DEF Frames, Framing
      <3>3. c[2].depth = c[2 - 1].depth + Frames(c[2 - 1]) /\ 2 - 1 = 1
        BY <1>5, <1>8
      <3> QED
        BY <1>5, <2>1, <3>1, <3>2, <3>3
    <2>2. CASE n # 2
      <3>1. n \in 3..n
        BY <1>1, <2>2
      <3> QED
        BY <1>4, <1>5, <1>7, <1>8, <3>1
    <2> QED
      BY <2>1, <2>2
  <1>10. d[2] = c[2] /\ n >= 2
    BY <1>1, <1>2
  <1>11. \A k \in 2..n : /\ d[k].kind = "stmt" => d[k].pc # 0
                         /\ d[k].kind = "call" => d[k].fn # VaStart
    <2>1. \A k \in 2..n : k \in 1..n /\ (k = n \/ k \in 2..(n - 1))
      BY <1>1
    <2> QED
      BY <1>2, <1>3, <1>4, <2>1
  <1>12. \A k \in 3..(n + 1) : d[k].depth >= 2
    <2>1. \A k \in 3..(n + 1) : k = n + 1 \/ (k \in 3..n /\ k \in 1..n)
      BY <1>1
    <2> QED
      BY <1>2, <1>4, <1>9, <2>1
  <1>13. (n + 1) - 1 = n
    BY <1>1
  <1>14. Rooted(d)
    BY <1>2, <1>4, <1>10, <1>11, <1>12, <1>13 DEF Rooted
  <1> QED
    BY <1>14 DEF d

(* The top activation ends.                                                *)
LEMMA PopRooted ==
  ASSUME NEW c \in Seq(Acts), Rooted(c), Len(c) > 1
  PROVE  Rooted(Front(c))
  <1> DEFINE n == Len(c)
             d == Front(c)
  <1>1. n \in Nat /\ n > 1
    OBVIOUS
  <1>2. Len(d) = n - 1 /\ \A k \in 1..(n - 1) : d[k] = c[k]
    BY <1>1 DEF Front
  <1>3. /\ n >= 2 => c[2].kind = "stmt" /\ Stmts[c[2].node].kind = "compound"
        /\ \A k \in 2..(n - 1) : /\ c[k].kind = "stmt" => c[k].pc # 0
                                 /\ c[k].kind = "call" => c[k].fn # VaStart
        /\ \A k \in 3..n : c[k].depth >= 2
    BY DEF Rooted
  <1> HIDE DEF n, d
  <1>4. n - 1 >= 2 => 2 \in 1..(n - 1) /\ n >= 2
    BY <1>1
  <1>5. \A k \in 2..((n - 1) - 1) : k \in 2..(n - 1) /\ k \in 1..(n - 1)
    BY <1>1
  <1>6. \A k \in 3..(n - 1) : k \in 3..n /\ k \in 1..(n - 1)
    BY <1>1
  <1>7. Rooted(d)
    BY <1>2, <1>3, <1>4, <1>5, <1>6 DEF Rooted
  <1> QED
    BY <1>7 DEF d

(***************************************************************************)
(* The inductive invariant.                                                *)
(***************************************************************************)

(* Data that is a position of the stack: a tag, a frame and an index.      *)
IsPosition(m, d) ==
  /\ d = <<"STACKPOS", d[2], d[3]>>
  /\ d[2] \in Nat /\ d[3] \in Nat
  /\ d[2] + 1 \in DOMAIN m.stack_vars
  /\ d[3] + 1 \in DOMAIN m.stack_vars[d[2] + 1]

(* The frame of a call of va_start has a variable for each argument so far *)
(* and the first holds a position.                                         *)
VaReady(a, m) ==
  (m.outcome = "run" /\ a.kind = "call" /\ a.fn = VaStart) =>
    /\ DOMAIN Top(m) = 1..a.k
    /\ a.k > 0 => IsPosition(m, m.active_mem[Top(m)[1].block].data)

EInv ==
  /\ Sane(mem) /\ Tidy(mem)
  /\ ret \in Results
  /\ CtlInv(ctl, Len(mem.stack_vars), curr_source) /\ Rooted(ctl)
  /\ VaReady(act, mem)
  /\ mem.outcome = "done" => Len(ctl) = 1

(* What the invariant says of the top activation.                          *)
LEMMA TopFacts ==
  ASSUME EInv
  PROVE  /\ ctl \in Seq(Acts) /\ Len(ctl) \in Nat /\ Len(ctl) > 0
         /\ act \in Acts /\ act.depth \in Nat
         /\ Len(mem.stack_vars) = act.depth + Frames(act)
         /\ act.kind = "stmt" => act \in StmtActs
         /\ act.kind = "expr" => act \in ExprActs
         /\ act.kind = "call" => act \in CallActs
         /\ act.kind # "run" <=> Len(ctl) > 1
         /\ act.kind # "run" => act.depth > 0
         /\ act.kind \in {"expr", "call"} => act.depth > 1
         /\ act.kind = "stmt" => act.depth > 1 \/ Stmts[act.node].kind = "compound"
  <1> DEFINE n == Len(ctl)
  <1>1. ctl \in Seq(Acts) /\ n \in Nat /\ n > 0
    BY DEF EInv, CtlInv
  <1>2. \A k \in 1..n : ctl[k] \in Acts
    BY <1>1
  <1>3. \A k \in 1..n : /\ ctl[k].depth \in Nat /\ Frames(ctl[k]) \in {0, 1}
                        /\ ctl[k].kind = "run" => ctl[k] \in RunActs
    BY <1>2, ActKinds
  <1>4. n \in 1..n /\ 1 \in 1..n
    BY <1>1
  <1>5. /\ ctl[1].kind = "run"
        /\ \A k \in 2..n : /\ ctl[k].kind # "run"
                           /\ ctl[k].depth = ctl[k - 1].depth + Frames(ctl[k - 1])
        /\ Len(mem.stack_vars) = ctl[n].depth + Frames(ctl[n])
    BY DEF EInv, CtlInv, Linked
  <1>6. /\ n >= 2 => ctl[2].kind = "stmt" /\ Stmts[ctl[2].node].kind = "compound"
        /\ \A k \in 3..n : ctl[k].depth >= 2
    BY DEF EInv, Rooted
  <1>7. act = ctl[n]
    BY DEF act
  <1> HIDE DEF n
  <1>8. ctl[1].depth = 0 /\ Frames(ctl[1]) = 1
    BY <1>3, <1>4, <1>5 DEF RunActs, Frames
  <1>9. ctl[n].kind # "run" <=> n > 1
    <2>1. n > 1 => n \in 2..n
      BY <1>1
    <2>2. ~(n > 1) => n = 1
      BY <1>1
    <2> QED
      BY <1>5, <2>1, <2>2
  <1>10. ASSUME n > 1
         PROVE  /\ ctl[n].depth > 0
                /\ ctl[n].depth > 1 \/ (ctl[n].kind = "stmt" /\ Stmts[ctl[n].node].kind = "compound")
    <2>1. CASE n = 2
      <3>1. 2 \in 2..n /\ 2 - 1 = 1
        BY <2>1
      <3>2. ctl[2].depth = ctl[2 - 1].depth + Frames(ctl[2 - 1])
        BY <1>5, <3>1
      <3> QED
        BY <1>6, <1>8, <2>1, <3>1, <3>2
    <2>2. CASE n # 2
      <3>1. n \in 3..n
        BY <1>1, <1>10, <2>2
      <3>2. ctl[n].depth >= 2 /\ ctl[n].depth \in Nat
        BY <1>3, <1>4, <1>6, <3>1
      <3> QED
        BY <3>2
    <2> QED
      BY <2>1, <2>2
  <1>11. /\ ctl[n].kind = "stmt" => ctl[n] \in StmtActs
         /\ ctl[n].kind = "expr" => ctl[n] \in ExprActs
         /\ ctl[n].kind = "call" => ctl[n] \in CallActs
    BY <1>2, <1>4, ActKinds
  <1> QED
    BY <1>1, <1>2, <1>3, <1>4, <1>5, <1>7, <1>9, <1>10, <1>11 DEF n

(* An update of the last element.                                          *)
LEMMA ReplacesTop ==
  ASSUME NEW c \in Seq(Acts), Len(c) > 0, NEW t \in Acts
  PROVE  Replaced(c, [c EXCEPT ![Len(c)] = t], t)
  <1> DEFINE d == [c EXCEPT ![Len(c)] = t]
  <1>1. d \in Seq(Acts) /\ Len(d) = Len(c) /\ d[Len(c)] = t
    OBVIOUS
  <1>2. \A k \in 1..Len(c) : k # Len(c) => d[k] = c[k]
    OBVIOUS
  <1> QED
    BY <1>1, <1>2 DEF Replaced

(* The file of the caller is that of the innermost running function below. *)
LEMMA CallerSource ==
  ASSUME NEW c, NEW depth, NEW src, CtlInv(c, depth, src), Len(c) > 1,
         ~IsRunning(c[Len(c)])
  PROVE  SourceAt(c, Len(c) - 1, src)
  <1> DEFINE n == Len(c)
  <1>1. n \in Nat /\ n - 1 \in Nat /\ (n - 1) + 1 = n
    BY DEF CtlInv
  <1>2. SourceAt(c, (n - 1) + 1, src) /\ ~IsRunning(c[(n - 1) + 1])
    BY <1>1 DEF CtlInv
  <1> HIDE DEF n
  <1>3. SourceAt(c, n - 1, src)
    BY <1>1, <1>2, SourceDown
  <1> QED
    BY <1>3 DEF n

(* The frames a statement has open from its second step on.                *)
Opens(kind) == IF kind \in Framing THEN 1 ELSE 0

(* A statement goes on.                                                    *)
Onward(a, pc, n) == [kind |-> "stmt", node |-> a.node, pc |-> pc, n |-> n, depth |-> a.depth]

(* A statement that moves past its entry has opened its scope, and the     *)
(* activations below it are as before.                                     *)
LEMMA StmtGoesOn ==
  ASSUME EInv, act.kind = "stmt", NEW pc \in Int, pc # 0, NEW n \in Nat,
         NEW d, d = [ctl EXCEPT ![Len(ctl)] = Onward(act, pc, n)]
  PROVE  /\ CtlInv(d, act.depth + Opens(stmt.kind), curr_source) /\ Rooted(d)
         /\ Len(d) = Len(ctl) /\ d[Len(d)] = Onward(act, pc, n)
  <1> DEFINE t == Onward(act, pc, n)
  <1>0. ctl \in Seq(Acts) /\ Len(ctl) > 1 /\ Len(ctl) > 0 /\ act \in StmtActs
    BY TopFacts
  <1>1. t \in StmtActs /\ t \in Acts
    BY <1>0 DEF Onward, StmtActs, Acts
  <1>2. Replaced(ctl, d, t)
    BY <1>0, <1>1, ReplacesTop
  <1>3. t.kind = "stmt" /\ t.node = act.node /\ t.depth = act.depth /\ t.pc = pc
    BY DEF Onward
  <1> HIDE DEF t
  <1>4. Frames(t) = Opens(stmt.kind)
    BY <1>3 DEF Frames, Opens, stmt
  <1>5. ~IsRunning(act) /\ ~IsRunning(t)
    BY <1>3 DEF IsRunning
  <1>6. CtlInv(d, t.depth + Frames(t), curr_source)
    BY <1>0, <1>2, <1>3, <1>5, ReplaceKeeps DEF EInv, act
  <1>7. Rooted(d)
    BY <1>0, <1>2, <1>3, ReplaceRooted DEF EInv, act
  <1>8. Len(d) = Len(ctl) /\ d[Len(d)] = t
    BY <1>2 DEF Replaced
  <1> QED
    BY <1>3, <1>4, <1>6, <1>7, <1>8 DEF t

(* Moved advances the program counter of a statement and nothing else.     *)
LEMMA MovedStmt ==
  ASSUME EInv, act.kind = "stmt", NEW pc
  PROVE  Moved(pc) = [ctl EXCEPT ![Len(ctl)] = Onward(act, pc, act.n)]
  <1>1. act \in StmtActs
    BY TopFacts
  <1>2. [act EXCEPT !.pc = pc] = Onward(act, pc, act.n)
    BY <1>1 DEF StmtActs, Onward
  <1>3. Moved(pc) = [ctl EXCEPT ![Len(ctl)] = [act EXCEPT !.pc = pc]]
    BY DEF Moved, act
  <1> QED
    BY <1>2, <1>3

(***************************************************************************)
(* The ways in which a step ends keep the invariant, and an activation     *)
(* that ends leaves the frames as it found them.                           *)
(***************************************************************************)
Kept == EInv' /\ (Len(ctl') < Len(ctl) => Len(mem'.stack_vars) = act.depth)

(* The run stops, with an error or because main has returned.              *)
LEMMA StopKeeps ==
  ASSUME EInv, NEW how \in Outcomes \ {"run"}, how = "done" => act.kind = "run", Stop(how)
  PROVE  Kept
  <1>1. /\ mem' = End(mem, how) /\ ctl' = ctl /\ ret' = ret /\ curr_source' = curr_source
        /\ act' = act
    BY DEF Stop, act
  <1>2. Sane(mem') /\ Tidy(mem') /\ mem'.stack_vars = mem.stack_vars /\ mem'.outcome = how
    BY <1>1, EndSane DEF EInv
  <1>3. VaReady(act', mem')
    BY <1>2 DEF VaReady
  <1>4. how = "done" => Len(ctl) = 1
    <2>1. /\ Len(ctl) \in Nat /\ Len(ctl) > 0
          /\ how = "done" => ~(Len(ctl) > 1)
      BY TopFacts
    <2> QED
      BY <2>1
  <1>5. ~(Len(ctl') < Len(ctl))
    BY <1>1, TopFacts
  <1> QED
    BY <1>1, <1>2, <1>3, <1>4, <1>5 DEF EInv, Kept

(* A step that ends the program keeps the invariant.                       *)
LEMMA StopWithoutKeeps ==
  ASSUME EInv, NEW r, StopWithout(r)
  PROVE  Kept
  <1>1. CASE r = "null"
    <2>1. Stop("ub_null")
      BY <1>1 DEF StopWithout
    <2> QED
      BY <2>1, StopKeeps DEF Outcomes
  <1>2. CASE r # "null"
    <2>1. Stop("ub_wild")
      BY <1>2 DEF StopWithout
    <2> QED
      BY <2>1, StopKeeps DEF Outcomes
  <1> QED
    BY <1>1, <1>2

(* An activation u is started above the control stack d.                   *)
LEMMA PushesKept ==
  ASSUME EInv, mem.outcome = "run", Sane(mem'), Tidy(mem'), mem'.outcome # "done", ret' \in Results,
         NEW d, CtlInv(d, Len(mem'.stack_vars), curr_source'), Rooted(d),
         Len(d) = Len(ctl), act.kind # "run",
         d[Len(d)].kind # "expr",
         d[Len(d)].kind = "stmt" => d[Len(d)].pc # 0,
         d[Len(d)].kind = "call" => d[Len(d)].fn # VaStart,
         NEW u \in Acts, u.kind \in {"stmt", "expr"}, Frames(u) = 0,
         u.depth = Len(mem'.stack_vars),
         ctl' = Append(d, u)
  PROVE  Kept
  <1>1. CtlInv(ctl', Len(mem'.stack_vars), curr_source')
    BY PushKeeps
  <1>2. Len(ctl) > 1 /\ Len(ctl) \in Nat
    BY TopFacts
  <1>3. Rooted(ctl')
    BY <1>2, PushRooted
  <1>4. d \in Seq(Acts)
    BY DEF CtlInv
  <1>5. Len(ctl') = Len(ctl) + 1 /\ ctl'[Len(ctl')] = u
    BY <1>4
  <1>6. act' = u
    BY <1>5 DEF act
  <1>7. VaReady(act', mem')
    BY <1>6 DEF VaReady
  <1>8. ~(Len(ctl') < Len(ctl))
    BY <1>2, <1>5
  <1> QED
    BY <1>1, <1>3, <1>7, <1>8 DEF EInv, Kept

(* A new activation of exec_stmt or eval_rexpr.                            *)
LEMMA NewActs ==
  ASSUME NEW m, Sane(m)
  PROVE  /\ \A node \in DOMAIN Stmts :
              /\ Activation(node, m) \in Acts /\ Activation(node, m).kind = "stmt"
              /\ Activation(node, m).depth = Len(m.stack_vars) /\ Frames(Activation(node, m)) = 0
         /\ \A e \in Exprs : LET u == [kind |-> "expr", e |-> e, depth |-> Len(m.stack_vars)]
                             IN u \in Acts /\ u.kind = "expr" /\ u.depth = Len(m.stack_vars)
                                  /\ Frames(u) = 0
  <1>1. Len(m.stack_vars) \in Nat
    BY DEF Sane, MemTypeOK
  <1>2. ASSUME NEW node \in DOMAIN Stmts
        PROVE  /\ Activation(node, m) \in Acts /\ Activation(node, m).kind = "stmt"
               /\ Activation(node, m).depth = Len(m.stack_vars) /\ Frames(Activation(node, m)) = 0
    <2>1. Activation(node, m) \in StmtActs
      BY <1>1 DEF Activation, StmtActs
    <2>2. /\ Activation(node, m).kind = "stmt" /\ Activation(node, m).pc = 0
          /\ Activation(node, m).depth = Len(m.stack_vars)
      BY DEF Activation
    <2> QED
      BY <2>1, <2>2 DEF Frames, Acts
  <1>3. ASSUME NEW e \in Exprs, NEW u, u = [kind |-> "expr", e |-> e, depth |-> Len(m.stack_vars)]
        PROVE  u \in Acts /\ u.kind = "expr" /\ u.depth = Len(m.stack_vars) /\ Frames(u) = 0
    <2>1. u \in ExprActs /\ u.kind = "expr" /\ u.depth = Len(m.stack_vars)
      BY <1>1, <1>3 DEF ExprActs
    <2> QED
      BY <2>1 DEF Frames, Acts
  <1> QED
    BY <1>2, <1>3

(* A statement executes one of its statements.                             *)
LEMMA RunKeeps ==
  ASSUME EInv, mem.outcome = "run", act.kind = "stmt", NEW pc \in Int, pc # 0,
         NEW node \in DOMAIN Stmts, Run(node, pc),
         Sane(mem'), Tidy(mem'), mem'.outcome # "done",
         Len(mem'.stack_vars) = act.depth + Opens(stmt.kind)
  PROVE  Kept
  <1> DEFINE d == Moved(pc)
             u == Activation(node, mem')
             t == Onward(act, pc, act.n)
  <1>1. ctl' = Append(d, u) /\ ret' = "null" /\ curr_source' = curr_source
    BY DEF Run
  <1>2. act.n \in Nat
    BY TopFacts DEF StmtActs
  <1>3. /\ CtlInv(d, Len(mem'.stack_vars), curr_source') /\ Rooted(d)
        /\ Len(d) = Len(ctl) /\ d[Len(d)] = t
    BY <1>1, <1>2, MovedStmt, StmtGoesOn
  <1>4. u \in Acts /\ u.kind = "stmt" /\ u.depth = Len(mem'.stack_vars) /\ Frames(u) = 0
    BY NewActs
  <1>5. t.kind = "stmt" /\ t.pc = pc
    BY DEF Onward
  <1>6. ret' \in Results
    BY <1>1 DEF Results
  <1> HIDE DEF d, u, t
  <1> QED
    BY <1>1, <1>3, <1>4, <1>5, <1>6, PushesKept

(* A statement evaluates an expression.                                    *)
LEMMA EvaluateKeeps ==
  ASSUME EInv, mem.outcome = "run", act.kind = "stmt", NEW pc \in Int, pc # 0,
         NEW e \in Exprs, Evaluate(e, pc),
         Sane(mem'), Tidy(mem'), mem'.outcome # "done",
         Len(mem'.stack_vars) = act.depth + Opens(stmt.kind)
  PROVE  Kept
  <1> DEFINE d == Moved(pc)
             u == [kind |-> "expr", e |-> e, depth |-> Len(mem'.stack_vars)]
             t == Onward(act, pc, act.n)
  <1>1. ctl' = Append(d, u) /\ ret' = ret /\ curr_source' = curr_source
    BY DEF Evaluate
  <1>2. act.n \in Nat
    BY TopFacts DEF StmtActs
  <1>3. /\ CtlInv(d, Len(mem'.stack_vars), curr_source') /\ Rooted(d)
        /\ Len(d) = Len(ctl) /\ d[Len(d)] = t
    BY <1>1, <1>2, MovedStmt, StmtGoesOn
  <1>4. u \in Acts /\ u.kind = "expr" /\ u.depth = Len(mem'.stack_vars) /\ Frames(u) = 0
    BY NewActs
  <1>5. t.kind = "stmt" /\ t.pc = pc
    BY DEF Onward
  <1>6. ret' \in Results
    BY <1>1 DEF EInv
  <1> HIDE DEF d, u, t
  <1> QED
    BY <1>1, <1>3, <1>4, <1>5, <1>6, PushesKept

(* The top activation ends.                                                *)
LEMMA PopsKept ==
  ASSUME EInv, mem.outcome = "run", act.kind # "run",
         Sane(mem'), Tidy(mem'), mem'.outcome # "done", ret' \in Results,
         Len(mem'.stack_vars) = act.depth,
         ctl' = Front(ctl),
         IF IsRunning(act) THEN curr_source' = act.save ELSE curr_source' = curr_source
  PROVE  Kept
  <1> DEFINE n == Len(ctl)
  <1>1. ctl \in Seq(Acts) /\ n \in Nat /\ n > 1
    BY TopFacts
  <1>2. CtlInv(ctl', Len(mem'.stack_vars), curr_source')
    BY <1>1, PopKeeps DEF EInv, act
  <1>3. Rooted(ctl')
    BY <1>1, PopRooted DEF EInv
  <1>4. Len(ctl') = n - 1 /\ act' = ctl[n - 1]
    BY <1>1 DEF Front, act
  <1>5. VaReady(act', mem')
    <2>1. n - 1 = 1 \/ n - 1 \in 2..(n - 1)
      <3>1. n \in Nat /\ n > 1
        BY <1>1
      <3> HIDE DEF n
      <3> QED
        BY <3>1
    <2>2. n - 1 \in 2..(n - 1) => (ctl[n - 1].kind = "call" => ctl[n - 1].fn # VaStart)
      BY DEF EInv, Rooted
    <2>3. ctl[1].kind = "run"
      BY DEF EInv, CtlInv
    <2> QED
      BY <1>4, <2>1, <2>2, <2>3 DEF VaReady
  <1> QED
    BY <1>2, <1>3, <1>5 DEF EInv, Kept

(* A statement or expression that returns with its frame closed keeps the  *)
(* invariant.                                                              *)
LEMMA FinishKeeps ==
  ASSUME EInv, mem.outcome = "run", act.kind \in {"stmt", "expr"},
         Sane(mem'), Tidy(mem'), mem'.outcome # "done",
         Len(mem'.stack_vars) = act.depth, NEW r \in Results, Finish(r)
  PROVE  Kept
  <1>1. ~IsRunning(act)
    BY DEF IsRunning
  <1> QED
    BY <1>1, PopsKept DEF Finish

(* A statement opens a frame or chooses where to continue.                 *)
LEMMA MoveKeeps ==
  ASSUME EInv, mem.outcome = "run", act.kind = "stmt", NEW pc \in Int, pc # 0,
         ctl' = Moved(pc), ret' \in Results, curr_source' = curr_source,
         Sane(mem'), Tidy(mem'), mem'.outcome # "done",
         Len(mem'.stack_vars) = act.depth + Opens(stmt.kind)
  PROVE  Kept
  <1> DEFINE t == Onward(act, pc, act.n)
  <1>1. act.n \in Nat
    BY TopFacts DEF StmtActs
  <1>2. /\ CtlInv(ctl', Len(mem'.stack_vars), curr_source') /\ Rooted(ctl')
        /\ Len(ctl') = Len(ctl) /\ ctl'[Len(ctl')] = t
    BY <1>1, MovedStmt, StmtGoesOn
  <1>3. t.kind = "stmt"
    BY DEF Onward
  <1> HIDE DEF t
  <1>4. VaReady(act', mem')
    BY <1>2, <1>3 DEF VaReady, act
  <1>5. ~(Len(ctl') < Len(ctl))
    BY <1>2, TopFacts
  <1> QED
    BY <1>2, <1>4, <1>5 DEF EInv, Kept

(* How many frames there are at a statement.                               *)
LEMMA StmtFrames ==
  ASSUME EInv, act.kind = "stmt"
  PROVE  /\ stmt.kind \notin Framing => Len(mem.stack_vars) = act.depth /\ Opens(stmt.kind) = 0
         /\ act.pc = 0 => Len(mem.stack_vars) = act.depth
         /\ stmt.kind \in Framing => Opens(stmt.kind) = 1
         /\ stmt.kind \in Framing /\ act.pc # 0 =>
              Len(mem.stack_vars) = act.depth + 1 /\ Len(mem.stack_vars) > 1
         /\ act.depth = act.depth + 0
         /\ act.node \in DOMAIN Stmts /\ act.pc \in Int /\ act.n \in Nat
         /\ act.depth \in Nat
  <1>1. /\ Len(mem.stack_vars) = act.depth + Frames(act) /\ act.depth \in Nat /\ act.depth > 0
        /\ act \in StmtActs
    BY TopFacts
  <1>2. Frames(act) = IF act.pc # 0 /\ stmt.kind \in Framing THEN 1 ELSE 0
    BY DEF Frames, stmt
  <1>3. act.node \in DOMAIN Stmts /\ act.pc \in Int /\ act.n \in Nat
    BY <1>1 DEF StmtActs
  <1> QED
    BY <1>1, <1>2, <1>3 DEF Opens

(* The end of a statement with a frame.                                    *)
LEMMA FinishFrameKeeps ==
  ASSUME EInv, mem.outcome = "run", act.kind = "stmt", act.pc # 0, stmt.kind \in Framing,
         NEW r \in Results, FinishFrame(r)
  PROVE  Kept
  <1>1. Len(mem.stack_vars) = act.depth + 1 /\ Len(mem.stack_vars) > 1 /\ act.depth \in Nat
    BY StmtFrames
  <1>2. mem' = pop_stack_frame(mem) /\ Finish(r)
    BY DEF FinishFrame
  <1>3. /\ Sane(mem') /\ Tidy(mem') /\ mem'.outcome = "run"
        /\ Len(mem'.stack_vars) = Len(mem.stack_vars) - 1
    BY <1>1, <1>2, PopSane DEF EInv
  <1>4. Len(mem'.stack_vars) = act.depth
    BY <1>1, <1>3
  <1> QED
    BY <1>2, <1>3, <1>4, FinishKeeps

(* A statement opens its frame.                                            *)
LEMMA OpensFrame ==
  ASSUME EInv, mem.outcome = "run", act.kind = "stmt", act.pc = 0, stmt.kind \in Framing,
         mem' = add_stack_frame(mem)
  PROVE  /\ Sane(mem') /\ Tidy(mem') /\ mem'.outcome # "done"
         /\ Len(mem'.stack_vars) = act.depth + Opens(stmt.kind)
  <1>1. /\ Sane(mem') /\ Tidy(mem') /\ mem'.outcome = "run"
        /\ Len(mem'.stack_vars) = Len(mem.stack_vars) + 1
    BY FrameSane DEF EInv
  <1> QED
    BY <1>1, StmtFrames

(* A statement leaves the memory alone.                                    *)
LEMMA SameMemory ==
  ASSUME EInv, mem.outcome = "run", act.kind = "stmt", act.pc # 0 \/ stmt.kind \notin Framing,
         mem' = mem
  PROVE  /\ Sane(mem') /\ Tidy(mem') /\ mem'.outcome # "done"
         /\ Len(mem'.stack_vars) = act.depth + Opens(stmt.kind)
         /\ stmt.kind \notin Framing => Len(mem'.stack_vars) = act.depth
  <1>1. Len(mem.stack_vars) = act.depth + Opens(stmt.kind)
    BY StmtFrames
  <1> QED
    BY <1>1, StmtFrames DEF EInv

(* A nonempty set of positions of a sequence has a first element.          *)
LEMMA FirstOf ==
  ASSUME NEW n \in Nat, NEW ks \in SUBSET (1 .. n), ks # {}
  PROVE  First(ks) \in ks
  <1> DEFINE K == {j \in 1 .. n : \A i \in ks : j <= i}
             c == Cardinality(K)
  <1>1. \A j \in K : \A k \in 1 .. n : k < j => k \in K
    OBVIOUS
  <1>2. c \in 0 .. n /\ K = 1 .. c
    BY <1>1, LowerSet
  <1>3. \A j : j \in K <=> j \in 1 .. n /\ \A i \in ks : j <= i
    OBVIOUS
  <1> HIDE DEF K, c
  <1>4. PICK i0 \in ks : i0 \in 1 .. n
    OBVIOUS
  <1>5. c \in Nat /\ \A j : j \in K <=> j \in 1 .. c
    BY <1>2
  <1>6. c \in ks /\ \A j \in ks : c <= j
    <2>1. 1 \in K
      BY <1>3, <1>4
    <2>2. c \in 1 .. c /\ c + 1 \notin 1 .. c
      BY <1>5, <2>1
    <2>3. \A j \in ks : c <= j
      BY <1>3, <1>5, <2>2
    <2>4. c \in ks
      <3> SUFFICES ASSUME c \notin ks PROVE FALSE
        OBVIOUS
      <3>1. \A i \in ks : c + 1 <= i
        BY <1>5, <2>3
      <3>2. c + 1 \in 1 .. n
        BY <1>4, <1>5, <3>1
      <3> QED
        BY <1>3, <1>5, <2>2, <3>1, <3>2
    <2> QED
      BY <2>3, <2>4
  <1>7. \E k \in ks : \A j \in ks : k <= j
    BY <1>6
  <1> QED
    BY <1>7 DEF First

(* The parts of the statement on top.                                      *)
LEMMA StmtParts ==
  ASSUME EInv, act.kind = "stmt"
  PROVE  /\ stmt.e \in Exprs /\ stmt.inc \in Exprs
         /\ Len(stmt.kids) \in Nat
         /\ DOMAIN stmt.kids = 1 .. Len(stmt.kids)
         /\ \A k \in DOMAIN stmt.kids : stmt.kids[k] \in DOMAIN Stmts
         /\ stmt.kind \in {"if", "case", "default"} => stmt.kids[1] \in DOMAIN Stmts
         /\ stmt.kind = "if" /\ Len(stmt.kids) # 1 => stmt.kids[2] \in DOMAIN Stmts
         /\ stmt.kind = "for" => stmt.kids[1] \in DOMAIN Stmts /\ stmt.kids[2] \in DOMAIN Stmts
         /\ stmt.kind = "decl" => stmt.name \in Names /\ stmt.size \in Nat /\ stmt.elems \in Nat
  <1>1. act.node \in DOMAIN Stmts
    BY StmtFrames
  <1>2. /\ stmt.e \in Exprs /\ stmt.inc \in Exprs
        /\ stmt.kids \in Seq(DOMAIN Stmts)
        /\ stmt.kind \in {"if", "case", "default"} => Len(stmt.kids) > 0
        /\ stmt.kind = "for" => Len(stmt.kids) = 2
        /\ stmt.kind = "decl" => stmt.name \in Names /\ stmt.size \in Nat /\ stmt.elems \in Nat
    BY <1>1, SyntaxAssumption DEF stmt
  <1>3. /\ Len(stmt.kids) \in Nat /\ DOMAIN stmt.kids = 1 .. Len(stmt.kids)
        /\ \A k \in DOMAIN stmt.kids : stmt.kids[k] \in DOMAIN Stmts
    BY <1>2
  <1>4. \A l \in Nat : /\ l > 0 => 1 \in 1 .. l
                       /\ l > 0 /\ l # 1 => 2 \in 1 .. l
                       /\ l = 2 => 1 \in 1 .. l /\ 2 \in 1 .. l
    OBVIOUS
  <1>5. /\ Len(stmt.kids) > 0 => stmt.kids[1] \in DOMAIN Stmts
        /\ Len(stmt.kids) > 0 /\ Len(stmt.kids) # 1 => stmt.kids[2] \in DOMAIN Stmts
        /\ Len(stmt.kids) = 2 => stmt.kids[1] \in DOMAIN Stmts /\ stmt.kids[2] \in DOMAIN Stmts
    <2> DEFINE ks == stmt.kids
               l == Len(ks)
    <2>1. l \in Nat /\ \A k \in 1 .. l : ks[k] \in DOMAIN Stmts
      BY <1>3
    <2> HIDE DEF ks, l
    <2>2. /\ l > 0 => ks[1] \in DOMAIN Stmts
          /\ l > 0 /\ l # 1 => ks[2] \in DOMAIN Stmts
          /\ l = 2 => ks[1] \in DOMAIN Stmts /\ ks[2] \in DOMAIN Stmts
      BY <1>4, <2>1
    <2> QED
      BY <2>2 DEF ks, l
  <1> QED
    BY <1>2, <1>3, <1>5, Zenon

(* Compound statements.                                                    *)
LEMMA CompoundKeeps ==
  ASSUME EInv, CompoundEnter \/ CompoundNext \/ CompoundLeave
  PROVE  Kept
  <1>1. CASE CompoundEnter
    <2>1. mem.outcome = "run" /\ act.kind = "stmt" /\ act.pc = 0 /\ stmt.kind \in Framing
      BY <1>1 DEF CompoundEnter, At, Of, Framing
    <2>2. /\ mem' = add_stack_frame(mem) /\ ctl' = Moved(1) /\ ret' \in Results
          /\ curr_source' = curr_source
      BY <1>1 DEF CompoundEnter, Results
    <2> QED
      BY <2>1, <2>2, OpensFrame, MoveKeeps
  <1>2. CASE CompoundNext
    <2>1. /\ mem.outcome = "run" /\ act.kind = "stmt" /\ act.pc \in DOMAIN stmt.kids
          /\ mem' = mem /\ Run(stmt.kids[act.pc], act.pc + 1)
      BY <1>2 DEF CompoundNext, AtKid, Of
    <2>2. act.pc # 0 /\ act.pc + 1 \in Int /\ act.pc + 1 # 0 /\ stmt.kids[act.pc] \in DOMAIN Stmts
      BY <2>1, StmtParts
    <2> QED
      BY <2>1, <2>2, SameMemory, RunKeeps
  <1>3. CASE CompoundLeave
    <2>1. /\ mem.outcome = "run" /\ act.kind = "stmt" /\ act.pc # 0 /\ stmt.kind \in Framing
          /\ FinishFrame(ret)
      BY <1>3 DEF CompoundLeave, AtEnd, Of, Framing
    <2> QED
      BY <2>1, FinishFrameKeeps DEF EInv
  <1> QED
    BY <1>1, <1>2, <1>3

(* Expression statements, returns and ifs.                                 *)
LEMMA SimpleKeeps ==
  ASSUME EInv, EvalExpr \/ Expr \/ Return \/ If
  PROVE  Kept
  <1>1. CASE EvalExpr
    <2>1. /\ mem.outcome = "run" /\ act.kind = "stmt" /\ stmt.kind \notin Framing
          /\ mem' = mem /\ Evaluate(stmt.e, 1)
      BY <1>1 DEF EvalExpr, At, Of, Framing
    <2> QED
      BY <2>1, StmtParts, SameMemory, EvaluateKeeps
  <1>2. CASE Expr \/ Return
    <2>1. /\ mem.outcome = "run" /\ act.kind = "stmt" /\ stmt.kind \notin Framing
          /\ mem' = mem /\ \E r \in Results : Finish(r)
      BY <1>2 DEF Expr, Return, At, Of, Framing, EInv, Results
    <2> QED
      BY <2>1, SameMemory, FinishKeeps
  <1>3. CASE If
    <2>1. /\ mem.outcome = "run" /\ act.kind = "stmt" /\ stmt.kind = "if"
          /\ stmt.kind \notin Framing
      BY <1>3 DEF If, At, Of, Framing
    <2>2. CASE ret # "value"
      BY <1>3, <2>2, StopWithoutKeeps DEF If
    <2>3. CASE ret = "value"
      <3>1. /\ mem' = mem
            /\ \/ Run(stmt.kids[1], 2)
               \/ Len(stmt.kids) = 1 /\ Finish("null")
               \/ Len(stmt.kids) # 1 /\ Run(stmt.kids[2], 2)
        BY <1>3, <2>3 DEF If
      <3>2. CASE Run(stmt.kids[1], 2)
        BY <2>1, <3>1, <3>2, StmtParts, SameMemory, RunKeeps
      <3>3. CASE Finish("null")
        BY <2>1, <3>1, <3>3, SameMemory, FinishKeeps DEF Results
      <3>4. CASE Len(stmt.kids) # 1 /\ Run(stmt.kids[2], 2)
        BY <2>1, <3>1, <3>4, StmtParts, SameMemory, RunKeeps
      <3> QED
        BY <3>1, <3>2, <3>3, <3>4
    <2> QED
      BY <2>2, <2>3
  <1> QED
    BY <1>1, <1>2, <1>3

(* For loops.                                                              *)
LEMMA ForKeeps ==
  ASSUME EInv, ForEnter \/ ForCond \/ ForTest \/ ForBody
  PROVE  Kept
  <1>1. CASE ForEnter
    <2>1. /\ mem.outcome = "run" /\ act.kind = "stmt" /\ act.pc = 0 /\ stmt.kind = "for"
          /\ stmt.kind \in Framing /\ mem' = add_stack_frame(mem) /\ Run(stmt.kids[1], 1)
      BY <1>1 DEF ForEnter, At, Of, Framing
    <2> QED
      BY <2>1, StmtParts, OpensFrame, RunKeeps
  <1>2. CASE ForCond
    <2>1. /\ mem.outcome = "run" /\ act.kind = "stmt" /\ act.pc # 0
          /\ mem' = mem /\ Evaluate(stmt.e, 2)
      BY <1>2 DEF ForCond, At, Of
    <2> QED
      BY <2>1, StmtParts, SameMemory, EvaluateKeeps
  <1>3. CASE ForTest
    <2>1. /\ mem.outcome = "run" /\ act.kind = "stmt" /\ stmt.kind = "for"
          /\ stmt.kind \in Framing /\ act.pc # 0
      BY <1>3 DEF ForTest, At, Of, Framing
    <2>2. CASE ret # "value"
      BY <1>3, <2>2, StopWithoutKeeps DEF ForTest
    <2>3. CASE FinishFrame("null")
      BY <2>1, <2>3, FinishFrameKeeps DEF Results
    <2>4. CASE ret = "value" /\ ~FinishFrame("null")
      <3> DEFINE t == Onward(act, 3, act.n + 1)
                 d == [ctl EXCEPT ![Len(ctl)] = t]
                 u == Activation(stmt.kids[2], mem)
      <3>1. /\ mem' = mem /\ ret' = "null" /\ curr_source' = curr_source
            /\ ctl' = Append([ctl EXCEPT ![Len(ctl)].pc = 3, ![Len(ctl)].n = @ + 1], u)
        BY <1>3, <2>4 DEF ForTest
      <3>2. act \in StmtActs /\ act.n \in Nat /\ ctl \in Seq(Acts) /\ Len(ctl) > 0
        BY <2>1, TopFacts, StmtFrames
      <3>3. [ctl EXCEPT ![Len(ctl)].pc = 3, ![Len(ctl)].n = @ + 1] = d
        <4>0. [act EXCEPT !.pc = 3] = Onward(act, 3, act.n)
          BY <3>2 DEF StmtActs, Onward
        <4>1. [Onward(act, 3, act.n) EXCEPT !.n = @ + 1] = t
          BY DEF Onward
        <4>2. Len(ctl) \in DOMAIN ctl
          BY <3>2
        <4>3. [ctl EXCEPT ![Len(ctl)].pc = 3, ![Len(ctl)].n = @ + 1] =
              [ctl EXCEPT ![Len(ctl)] = [[act EXCEPT !.pc = 3] EXCEPT !.n = @ + 1]]
          BY <4>2 DEF act
        <4> QED
          BY <4>0, <4>1, <4>3
      <3>4. PICK pc \in Int, n \in Nat : pc # 0 /\ t = Onward(act, pc, n)
        BY <3>2
      <3>5. /\ CtlInv(d, act.depth + Opens(stmt.kind), curr_source) /\ Rooted(d)
            /\ Len(d) = Len(ctl) /\ d[Len(d)] = t
        <4> HIDE DEF t
        <4> QED
          BY <2>1, <3>4, StmtGoesOn
      <3>6. /\ Sane(mem') /\ Tidy(mem') /\ mem'.outcome # "done"
            /\ Len(mem'.stack_vars) = act.depth + Opens(stmt.kind)
        BY <2>1, <3>1, SameMemory
      <3>7. stmt.kids[2] \in DOMAIN Stmts
        BY <2>1, StmtParts
      <3>8. u \in Acts /\ u.kind = "stmt" /\ u.depth = Len(mem'.stack_vars) /\ Frames(u) = 0
        BY <3>1, <3>6, <3>7, NewActs
      <3>9. t.kind = "stmt" /\ t.pc = 3
        BY DEF Onward
      <3>10. ret' \in Results
        BY <3>1 DEF Results
      <3>11. ctl' = Append(d, u)
        BY <3>1, <3>3
      <3>12. CtlInv(d, Len(mem'.stack_vars), curr_source')
        BY <3>1, <3>5, <3>6
      <3> HIDE DEF d, t, u
      <3> QED
        BY <2>1, <3>5, <3>6, <3>8, <3>9, <3>10, <3>11, <3>12, PushesKept
    <2> QED
      BY <1>3, <2>2, <2>3, <2>4 DEF ForTest
  <1>4. CASE ForBody
    <2>1. /\ mem.outcome = "run" /\ act.kind = "stmt" /\ stmt.kind = "for"
          /\ stmt.kind \in Framing /\ act.pc # 0
      BY <1>4 DEF ForBody, At, Of, Framing
    <2>2. CASE ret = "null"
      BY <1>4, <2>1, <2>2, StmtParts, SameMemory, EvaluateKeeps DEF ForBody
    <2>3. CASE ret # "null"
      BY <1>4, <2>1, <2>3, FinishFrameKeeps DEF ForBody, EInv
    <2> QED
      BY <2>2, <2>3
  <1> QED
    BY <1>1, <1>2, <1>3, <1>4

(* Switches.                                                               *)
LEMMA SwitchKeeps ==
  ASSUME EInv, SwitchEnter \/ SwitchTest \/ SwitchNext \/ SwitchLeave
  PROVE  Kept
  <1>1. CASE SwitchEnter
    <2>1. /\ mem.outcome = "run" /\ act.kind = "stmt" /\ act.pc = 0 /\ stmt.kind \in Framing
          /\ mem' = add_stack_frame(mem) /\ Evaluate(stmt.e, -1)
      BY <1>1 DEF SwitchEnter, At, Of, Framing
    <2>2. -1 \in Int /\ -1 # 0
      OBVIOUS
    <2> QED
      BY <2>1, <2>2, StmtParts, OpensFrame, EvaluateKeeps
  <1>2. CASE SwitchTest
    <2>1. /\ mem.outcome = "run" /\ act.kind = "stmt" /\ act.pc # 0
      BY <1>2 DEF SwitchTest, At, Of
    <2>2. CASE ret # "value"
      BY <1>2, <2>2, StopWithoutKeeps DEF SwitchTest
    <2>3. CASE ret = "value"
      <3>1. PICK v : ctl' = Moved(IF CaseAt(v) # {} THEN First(CaseAt(v))
                                  ELSE IF DefaultAt # {} THEN First(DefaultAt)
                                  ELSE Len(stmt.kids) + 1)
        BY <1>2, <2>3 DEF SwitchTest
      <3>2. ret' \in Results /\ mem' = mem /\ curr_source' = curr_source
        BY <1>2, <2>3 DEF SwitchTest, Results
      <3>3. Len(stmt.kids) \in Nat /\ DOMAIN stmt.kids = 1 .. Len(stmt.kids)
        BY <2>1, StmtParts
      <3>4. /\ CaseAt(v) # {} => First(CaseAt(v)) \in 1 .. Len(stmt.kids)
            /\ DefaultAt # {} => First(DefaultAt) \in 1 .. Len(stmt.kids)
        <4>1. CaseAt(v) \in SUBSET (1 .. Len(stmt.kids))
          BY <3>3 DEF CaseAt
        <4>2. DefaultAt \in SUBSET (1 .. Len(stmt.kids))
          BY <3>3 DEF DefaultAt
        <4> QED
          BY <3>3, <4>1, <4>2, FirstOf
      <3>5. PICK pc \in Int : pc # 0 /\ ctl' = Moved(pc)
        <4>1. \A l \in Nat : /\ l + 1 \in Int /\ l + 1 # 0
                             /\ \A k \in 1 .. l : k \in Int /\ k # 0
          OBVIOUS
        <4>2. CASE CaseAt(v) # {}
          BY <3>1, <3>3, <3>4, <4>1, <4>2, Zenon
        <4>3. CASE CaseAt(v) = {} /\ DefaultAt # {}
          BY <3>1, <3>3, <3>4, <4>1, <4>3, Zenon
        <4>4. CASE CaseAt(v) = {} /\ DefaultAt = {}
          BY <3>1, <3>3, <4>1, <4>4, Zenon
        <4> QED
          BY <4>2, <4>3, <4>4
      <3> QED
        BY <2>1, <3>2, <3>5, SameMemory, MoveKeeps
    <2> QED
      BY <2>2, <2>3
  <1>3. CASE SwitchNext
    <2>1. /\ mem.outcome = "run" /\ act.kind = "stmt" /\ act.pc \in DOMAIN stmt.kids
          /\ mem' = mem /\ Run(stmt.kids[act.pc], act.pc + 1)
      BY <1>3 DEF SwitchNext, AtKid, Of
    <2>2. act.pc # 0 /\ act.pc + 1 \in Int /\ act.pc + 1 # 0 /\ stmt.kids[act.pc] \in DOMAIN Stmts
      BY <2>1, StmtParts
    <2> QED
      BY <2>1, <2>2, SameMemory, RunKeeps
  <1>4. CASE SwitchLeave
    <2>1. /\ mem.outcome = "run" /\ act.kind = "stmt" /\ act.pc # 0 /\ stmt.kind \in Framing
          /\ \E r \in Results : FinishFrame(r)
      BY <1>4 DEF SwitchLeave, AtEnd, Of, Framing, EInv, Results
    <2> QED
      BY <2>1, FinishFrameKeeps
  <1> QED
    BY <1>1, <1>2, <1>3, <1>4

(* Labels, breaks, and what is left of the statements.                     *)
LEMMA OtherKeeps ==
  ASSUME EInv, SwitchCase \/ PassOn \/ Break \/ Null \/ MissingStmt \/ Unhandled
  PROVE  Kept
  <1>1. CASE SwitchCase
    <2>1. /\ mem.outcome = "run" /\ act.kind = "stmt" /\ stmt.kind \notin Framing
          /\ stmt.kind \in {"if", "case", "default"}
          /\ mem' = mem /\ Run(stmt.kids[1], 1)
      BY <1>1 DEF SwitchCase, Labelled, At, Of, Framing
    <2> QED
      BY <2>1, StmtParts, SameMemory, RunKeeps
  <1>2. CASE PassOn \/ Break \/ Null
    <2>1. /\ mem.outcome = "run" /\ act.kind = "stmt" /\ stmt.kind \notin Framing
          /\ mem' = mem /\ \E r \in Results : Finish(r)
      BY <1>2 DEF PassOn, Break, Null, Labelled, At, Of, Framing, EInv, Results
    <2> QED
      BY <2>1, SameMemory, FinishKeeps
  <1>3. CASE MissingStmt \/ Unhandled
    <2>1. \E how \in Outcomes \ {"run", "done"} : Stop(how)
      BY <1>3 DEF MissingStmt, Unhandled, Outcomes
    <2> QED
      BY <2>1, StopKeeps
  <1> QED
    BY <1>1, <1>2, <1>3

(* The contents of new blocks.                                             *)
LEMMA Contents ==
  ASSUME NEW size \in Nat
  PROVE  Len(Words(size)) \in Nat /\ Len(Elements(size)) = size
  BY DEF Words, Elements

(* The elements of a local array.                                          *)
LEMMA NewarrKeeps ==
  ASSUME EInv, mem.outcome = "run", act.kind = "stmt", stmt.kind = "decl",
         NEW n, n = newarr(mem)
  PROVE  Sane(n) /\ Tidy(n) /\ n.stack_vars = mem.stack_vars /\ n.outcome # "done"
  <1>1. CASE stmt.elems = 0
    BY <1>1 DEF newarr, EInv
  <1>2. CASE stmt.elems # 0
    <2> DEFINE d == Elements(stmt.elems)
               b == mem.id_counter
               blk == [memtype |-> "STACK", size |-> Len(d), data |-> d]
    <2>1. stmt.elems \in Nat
      BY StmtParts
    <2>2. Len(d) = stmt.elems /\ Len(d) \in Nat
      BY <2>1, Contents
    <2>3. n = mem_block(mem, "STACK", d)
      BY <1>2 DEF newarr
    <2>4. blk.size = Len(d) /\ blk.data = d
      OBVIOUS
    <2>5. IsElements(blk)
      BY <2>2, <2>4 DEF IsElements
    <2>6. "STACK" \in mem_type_t
      BY DEF mem_type_t
    <2> HIDE DEF d
    <2>7. /\ Sane(n)
          /\ n.stack_vars = mem.stack_vars
          /\ n.outcome # "run" => n.active_mem = mem.active_mem
          /\ n.outcome # "done"
          /\ n.outcome = "run" =>
               /\ DOMAIN n.active_mem = DOMAIN mem.active_mem \cup {b}
               /\ n.active_mem[b] = blk
               /\ \A c \in DOMAIN mem.active_mem : n.active_mem[c] = mem.active_mem[c]
      BY <2>2, <2>3, <2>6, BlockSane DEF EInv
    <2> HIDE DEF b, blk
    <2>8. \A c : IsVar(mem, c) => IsVar(n, c)
      BY <2>7 DEF IsVar
    <2>9. Tidy(mem)
      BY DEF EInv
    <2>10. Tidy(n)
      BY <2>5, <2>7, <2>8, <2>9 DEF Tidy
    <2> QED
      BY <2>7, <2>10
  <1> QED
    BY <1>1, <1>2

(* Declarations.                                                           *)
LEMMA DeclKeeps ==
  ASSUME EInv, DeclInit \/ Decl
  PROVE  Kept
  <1>1. CASE DeclInit
    <2>1. /\ mem.outcome = "run" /\ act.kind = "stmt" /\ stmt.kind \notin Framing /\ mem' = mem
          /\ Evaluate(stmt.e, 1) \/ Evaluate(stmt.e, 2) \/ Evaluate(stmt.e, 3)
      BY <1>1 DEF DeclInit, At, Of, Framing
    <2>2. PICK pc \in Int : pc # 0 /\ Evaluate(stmt.e, pc)
      BY <2>1
    <2> QED
      BY <2>1, <2>2, StmtParts, SameMemory, EvaluateKeeps
  <1>2. CASE Decl
    <2>1. mem.outcome = "run" /\ act.kind = "stmt" /\ stmt.kind = "decl" /\ stmt.kind \notin Framing
      BY <1>2 DEF Decl, At, Of, Framing
    <2>2. \/ StopWithout(ret) \/ Stop("ub_wild")
          \/ mem' = Bound(newarr(mem), stmt.name, Words(stmt.size)) /\ Finish("null")
      BY <1>2 DEF Decl
    <2>3. CASE StopWithout(ret)
      BY <2>3, StopWithoutKeeps
    <2>4. CASE Stop("ub_wild")
      BY <2>4, StopKeeps DEF Outcomes
    <2>5. CASE mem' = Bound(newarr(mem), stmt.name, Words(stmt.size)) /\ Finish("null")
      <3> DEFINE n == newarr(mem)
                 d == Words(stmt.size)
      <3>1. Sane(n) /\ Tidy(n) /\ n.stack_vars = mem.stack_vars /\ n.outcome # "done"
        BY <2>1, NewarrKeeps
      <3>2. Len(mem.stack_vars) = act.depth /\ act.depth > 1
        BY <2>1, StmtFrames, TopFacts DEF stmt
      <3>3. stmt.name \in Names /\ Len(d) \in Nat
        BY <2>1, StmtParts, Contents
      <3>4. mem' = Bound(n, stmt.name, d)
        BY <2>5
      <3> HIDE DEF n, d
      <3>5. /\ Sane(mem') /\ Tidy(mem') /\ mem'.outcome # "done"
            /\ Len(mem'.stack_vars) = Len(n.stack_vars)
        BY <3>1, <3>2, <3>3, <3>4, BoundSane
      <3> QED
        BY <2>1, <2>5, <3>1, <3>2, <3>5, FinishKeeps DEF Results
    <2> QED
      BY <2>2, <2>3, <2>4, <2>5
  <1> QED
    BY <1>1, <1>2

(***************************************************************************)
(* Expressions and calls.                                                  *)
(***************************************************************************)

(* A running function has a body, and the current file is that of one.     *)
LEMMA SourceKnown ==
  ASSUME NEW c \in Seq(Acts), NEW k \in 1 .. Len(c), NEW src, SourceAt(c, k, src)
  PROVE  src \in Sources
  <1>1. PICK j \in 1 .. k : IsRunning(c[j]) /\ src = Funcs[c[j].fn].source
    BY DEF SourceAt
  <1>2. c[j] \in Acts
    BY <1>1
  <1>3. c[j].fn \in DOMAIN Funcs
    <2>1. CASE c[j].kind = "run"
      <3>1. c[j] \in RunActs
        BY <1>2, <2>1, ActKinds
      <3> QED
        BY <3>1, ProgramAssumption DEF RunActs
    <2>2. CASE c[j].kind = "call" /\ c[j].pc = "body"
      <3>1. c[j] \in CallActs
        BY <1>2, <2>2, ActKinds
      <3> QED
        BY <2>2, <3>1 DEF CallActs
    <2> QED
      BY <1>1, <2>1, <2>2 DEF IsRunning
  <1> QED
    BY <1>1, <1>3 DEF Sources

(* Constants, variables and missing expressions.                           *)
LEMMA ValueKeeps ==
  ASSUME EInv, Value \/ Absent
  PROVE  Kept
  <1>1. CASE Value
    <2>1. mem.outcome = "run" /\ act.kind = "expr" /\ mem' = mem /\ Finish("value")
      BY <1>1 DEF Value, AtExpr
    <2>2. Len(mem.stack_vars) = act.depth + Frames(act) /\ act.depth \in Nat
      BY TopFacts
    <2>3. Frames(act) = 0
      BY <2>1 DEF Frames
    <2>4. Len(mem'.stack_vars) = act.depth
      BY <2>1, <2>2, <2>3
    <2> QED
      BY <2>1, <2>4, FinishKeeps DEF EInv, Results
  <1>2. CASE Absent
    BY <1>2, StopKeeps DEF Absent, Outcomes
  <1> QED
    BY <1>1, <1>2

(* The start of a call.                                                    *)
LEMMA CallExprKeeps ==
  ASSUME EInv, CallExpr
  PROVE  Kept
  <1>1. mem.outcome = "run" /\ act.kind = "expr"
    BY DEF CallExpr, AtExpr
  <1>2. CASE Stop("exit")
    BY <1>2, StopKeeps DEF Outcomes
  <1>3. CASE ~Stop("exit")
    <2> DEFINE n == Len(ctl)
               t == [kind |-> "call", fn |-> act.e.name, e |-> act.e, k |-> 0, pc |-> "eval",
                     save |-> curr_source, depth |-> act.depth]
    <2>1. /\ act.e.name \in DOMAIN Funcs \cup {VaStart}
          /\ mem' = add_stack_frame(mem) /\ ctl' = Append(Front(ctl), t)
          /\ ret' = ret /\ curr_source' = curr_source
      BY <1>3 DEF CallExpr
    <2>2. /\ ctl \in Seq(Acts) /\ n \in Nat /\ n > 1 /\ act \in ExprActs /\ act.depth \in Nat
          /\ Len(mem.stack_vars) = act.depth + Frames(act)
      BY <1>1, TopFacts
    <2>3. curr_source \in Sources
      <3>1. n \in 1 .. n
        BY <2>2
      <3> QED
        BY <2>2, <3>1, SourceKnown DEF EInv, CtlInv
    <2>4. t \in CallActs
      <3>1. act.e \in Exprs
        BY <2>2 DEF ExprActs
      <3>2. act.e.args \in Seq(Exprs)
        BY <3>1, SyntaxAssumption
      <3>3. 0 <= Len(act.e.args)
        BY <3>2
      <3> QED
        BY <2>1, <2>2, <2>3, <3>1, <3>3 DEF CallActs
    <2>5. t \in Acts
      BY <2>4 DEF Acts
    <2>6. t.kind = "call" /\ t.depth = act.depth /\ t.save = curr_source /\ t.pc = "eval" /\ t.k = 0
      OBVIOUS
    <2> HIDE DEF t
    <2>7. Replaced(ctl, ctl', t)
      <3>1. /\ Front(ctl) \in Seq(Acts) /\ Len(Front(ctl)) = n - 1
            /\ \A k \in 1 .. (n - 1) : Front(ctl)[k] = ctl[k]
        BY <2>2 DEF Front
      <3> DEFINE f == Front(ctl)
      <3> HIDE DEF f
      <3>2. /\ f \in Seq(Acts) /\ Len(f) = n - 1 /\ ctl' = Append(f, t)
            /\ \A k \in 1 .. (n - 1) : f[k] = ctl[k]
        BY <2>1, <3>1 DEF f
      <3>3. n \in Nat /\ n > 1
        BY <2>2
      <3> HIDE DEF n
      <3>4. /\ ctl' \in Seq(Acts) /\ Len(ctl') = (n - 1) + 1 /\ ctl'[(n - 1) + 1] = t
            /\ \A k \in 1 .. (n - 1) : ctl'[k] = f[k]
        BY <2>5, <3>2
      <3>5. (n - 1) + 1 = n /\ \A k \in 1 .. n : k # n => k \in 1 .. (n - 1)
        BY <3>3
      <3> QED
        BY <3>2, <3>4, <3>5 DEF Replaced, n
    <2>8. ~IsRunning(act) /\ ~IsRunning(t)
      BY <1>1, <2>6 DEF IsRunning
    <2>9. SourceAt(ctl, n - 1, t.save)
      BY <2>2, <2>6, <2>8, CallerSource DEF EInv, act
    <2>10. CtlInv(ctl', t.depth + Frames(t), curr_source')
      BY <2>1, <2>2, <2>6, <2>7, <2>8, <2>9, ReplaceKeeps DEF EInv, act
    <2>11. Rooted(ctl')
      BY <1>1, <2>2, <2>6, <2>7, ReplaceRooted DEF EInv, act
    <2>12. /\ Sane(mem') /\ Tidy(mem') /\ mem'.outcome = "run"
           /\ Len(mem'.stack_vars) = Len(mem.stack_vars) + 1 /\ Top(mem') = <<>>
      BY <1>1, <2>1, FrameSane DEF EInv
    <2>13. Frames(act) = 0 /\ Frames(t) = 1
      BY <1>1, <2>6 DEF Frames
    <2>14. Len(mem'.stack_vars) = t.depth + Frames(t)
      BY <2>2, <2>6, <2>12, <2>13
    <2>15. act' = t /\ Len(ctl') = n
      BY <2>7 DEF Replaced, act
    <2>16. VaReady(act', mem')
      <3>1. DOMAIN <<>> = {} /\ 1 .. 0 = {}
        OBVIOUS
      <3>2. DOMAIN Top(mem') = 1 .. t.k
        BY <2>6, <2>12, <3>1
      <3> QED
        BY <2>6, <2>15, <3>2 DEF VaReady
    <2>17. ~(Len(ctl') < Len(ctl))
      BY <2>2, <2>15
    <2> QED
      BY <2>1, <2>10, <2>11, <2>12, <2>14, <2>16, <2>17 DEF EInv, Kept
  <1> QED
    BY <1>2, <1>3

(* A call goes on.                                                         *)
CallAt(a, k, pc) ==
  [kind |-> "call", fn |-> a.fn, e |-> a.e, k |-> k, pc |-> pc, save |-> a.save, depth |-> a.depth]

(* A call advances in place with its frame open, and takes the source of   *)
(* the callee only when its body starts.                                   *)
LEMMA CallGoesOn ==
  ASSUME EInv, act.kind = "call", act.pc # "body",
         NEW k, NEW pc, CallAt(act, k, pc) \in CallActs,
         NEW d, d = [ctl EXCEPT ![Len(ctl)] = CallAt(act, k, pc)],
         NEW src, IF pc = "body" THEN src = Funcs[act.fn].source ELSE src = curr_source
  PROVE  /\ CtlInv(d, act.depth + 1, src) /\ Rooted(d)
         /\ Len(d) = Len(ctl) /\ d[Len(d)] = CallAt(act, k, pc)
  <1> DEFINE t == CallAt(act, k, pc)
             n == Len(ctl)
  <1>0. ctl \in Seq(Acts) /\ n \in Nat /\ n > 1 /\ n > 0
    BY TopFacts
  <1>1. t \in Acts
    BY DEF Acts
  <1>2. Replaced(ctl, d, t)
    BY <1>0, <1>1, ReplacesTop
  <1>3. /\ t.kind = "call" /\ t.fn = act.fn /\ t.depth = act.depth /\ t.pc = pc
        /\ t.save = act.save
    BY DEF CallAt
  <1> HIDE DEF t
  <1>4. Frames(t) = 1
    BY <1>3 DEF Frames
  <1>5. ~IsRunning(act) /\ (IsRunning(t) <=> pc = "body")
    BY <1>3 DEF IsRunning
  <1>6. SourceAt(ctl, n - 1, t.save)
    <2>1. n \in 2 .. n
      BY <1>0
    <2>2. ctl[n].kind = "call" => SourceAt(ctl, n - 1, ctl[n].save)
      BY <2>1 DEF EInv, CtlInv, Linked
    <2> QED
      BY <1>3, <2>2 DEF act
  <1>7. CtlInv(d, t.depth + Frames(t), src)
    BY <1>0, <1>2, <1>3, <1>5, <1>6, ReplaceKeeps DEF EInv, act
  <1>8. Rooted(d)
    BY <1>0, <1>2, <1>3, ReplaceRooted DEF EInv, act
  <1>9. Len(d) = Len(ctl) /\ d[Len(d)] = t
    BY <1>2 DEF Replaced
  <1> QED
    BY <1>3, <1>4, <1>7, <1>8, <1>9 DEF t

(* What the invariant says of a call on top.                               *)
LEMMA CallFacts ==
  ASSUME EInv, act.kind = "call"
  PROVE  /\ act.depth \in Nat /\ act.depth > 1
         /\ Len(mem.stack_vars) = act.depth + 1 /\ Len(mem.stack_vars) > 1
         /\ act.e \in Exprs /\ act.e.args \in Seq(Exprs) /\ Len(act.e.args) \in Nat
         /\ act.k \in Nat /\ act.k <= Len(act.e.args)
         /\ act.pc = "bind" => act.k < Len(act.e.args)
         /\ act.fn = VaStart => act.pc = "eval"
         /\ act.fn # VaStart => act.fn \in DOMAIN Funcs
         /\ act.pc \in {"eval", "bind", "body"} /\ act.save \in Sources
         /\ act.fn \in DOMAIN Funcs \cup {VaStart}
         /\ act.k < Len(act.e.args) => NextArg \in Exprs
  <1>1. /\ act \in CallActs /\ act.depth \in Nat /\ act.depth > 1
        /\ Len(mem.stack_vars) = act.depth + Frames(act)
    BY TopFacts
  <1>2. Frames(act) = 1
    BY DEF Frames
  <1>3. Len(mem.stack_vars) = act.depth + 1 /\ Len(mem.stack_vars) > 1
    BY <1>1, <1>2
  <1>4. /\ act.e \in Exprs /\ act.k \in Nat /\ act.k <= Len(act.e.args)
        /\ act.pc = "bind" => act.k < Len(act.e.args)
        /\ act.fn = VaStart => act.pc = "eval"
        /\ act.fn # VaStart => act.fn \in DOMAIN Funcs
        /\ act.pc \in {"eval", "bind", "body"} /\ act.save \in Sources
        /\ act.fn \in DOMAIN Funcs \cup {VaStart}
    BY <1>1 DEF CallActs
  <1>5. act.e.args \in Seq(Exprs)
    BY <1>4, SyntaxAssumption
  <1>6. Len(act.e.args) \in Nat /\ \A i \in 1 .. Len(act.e.args) : act.e.args[i] \in Exprs
    BY <1>5
  <1>7. act.k < Len(act.e.args) => act.k + 1 \in 1 .. Len(act.e.args)
    BY <1>4, <1>6
  <1> QED
    BY <1>1, <1>3, <1>4, <1>5, <1>6, <1>7 DEF NextArg

(* The activation after a step of a call.                                  *)
LEMMA CallTypes ==
  ASSUME EInv, act.kind = "call", NEW k \in Nat, k <= Len(act.e.args),
         NEW pc \in {"eval", "bind", "body"}, pc = "bind" => k < Len(act.e.args),
         act.fn = VaStart => pc = "eval"
  PROVE  CallAt(act, k, pc) \in CallActs
  <1>1. /\ act.e \in Exprs /\ act.save \in Sources /\ act.depth \in Nat
        /\ act.fn \in DOMAIN Funcs \cup {VaStart}
    BY CallFacts
  <1> DEFINE t == CallAt(act, k, pc)
  <1>2. t \in [kind : {"call"}, fn : DOMAIN Funcs \cup {VaStart}, e : Exprs, k : Nat,
               pc : {"eval", "bind", "body"}, save : Sources, depth : Nat]
    BY <1>1 DEF CallAt
  <1>3. t.k = k /\ t.e = act.e /\ t.fn = act.fn /\ t.pc = pc
    BY DEF CallAt
  <1> HIDE DEF t
  <1>4. t \in CallActs
    BY <1>2, <1>3 DEF CallActs
  <1> QED
    BY <1>4 DEF t

(* Moved advances the program counter of a call and nothing else.          *)
LEMMA MovedCall ==
  ASSUME EInv, act.kind = "call", NEW pc
  PROVE  Moved(pc) = [ctl EXCEPT ![Len(ctl)] = CallAt(act, act.k, pc)]
  <1>1. act \in CallActs
    BY TopFacts
  <1>2. [act EXCEPT !.pc = pc] = CallAt(act, act.k, pc)
    BY <1>1 DEF CallActs, CallAt
  <1>3. Moved(pc) = [ctl EXCEPT ![Len(ctl)] = [act EXCEPT !.pc = pc]]
    BY DEF Moved, act
  <1> QED
    BY <1>2, <1>3

(* An argument is evaluated.                                               *)
LEMMA CallArgKeeps ==
  ASSUME EInv, CallArg
  PROVE  Kept
  <1> DEFINE d == Moved("bind")
             u == [kind |-> "expr", e |-> NextArg, depth |-> Len(mem'.stack_vars)]
             t == CallAt(act, act.k, "bind")
  <1>1. /\ mem.outcome = "run" /\ act.kind = "call" /\ act.pc = "eval" /\ act.fn # VaStart
        /\ ~AllBound /\ mem' = mem
        /\ ctl' = Append(d, u) /\ ret' = ret /\ curr_source' = curr_source
    BY DEF CallArg, AtCall, Evaluate
  <1>2. /\ act.k \in Nat /\ act.k <= Len(act.e.args) /\ Len(act.e.args) \in Nat
        /\ Len(mem.stack_vars) = act.depth + 1
        /\ act.k < Len(act.e.args) => NextArg \in Exprs
    BY <1>1, CallFacts
  <1>3. act.k < Len(act.e.args)
    BY <1>1, <1>2 DEF AllBound
  <1>4. t \in CallActs
    BY <1>1, <1>2, <1>3, CallTypes
  <1>5. /\ CtlInv(d, act.depth + 1, curr_source) /\ Rooted(d)
        /\ Len(d) = Len(ctl) /\ d[Len(d)] = t
    BY <1>1, <1>4, MovedCall, CallGoesOn
  <1>6. Sane(mem') /\ Tidy(mem') /\ mem'.outcome # "done" /\ ret' \in Results
    BY <1>1 DEF EInv
  <1>7. u \in Acts /\ u.kind = "expr" /\ u.depth = Len(mem'.stack_vars) /\ Frames(u) = 0
    BY <1>2, <1>3, <1>6, NewActs
  <1>8. t.kind = "call" /\ t.fn = act.fn
    BY DEF CallAt
  <1>9. CtlInv(d, Len(mem'.stack_vars), curr_source')
    BY <1>1, <1>2, <1>5
  <1> HIDE DEF d, u, t
  <1> QED
    BY <1>1, <1>5, <1>6, <1>7, <1>8, <1>9, PushesKept

(* The body of the function is entered, in the file of the function.       *)
LEMMA CallBodyKeeps ==
  ASSUME EInv, CallBody
  PROVE  Kept
  <1> DEFINE d == Moved("body")
             u == Activation(Funcs[act.fn].body, mem)
             t == CallAt(act, act.k, "body")
  <1>1. /\ mem.outcome = "run" /\ act.kind = "call" /\ act.pc = "eval" /\ act.fn # VaStart
        /\ mem' = mem /\ ctl' = Append(d, u) /\ ret' = "null"
        /\ curr_source' = Funcs[act.fn].source
    BY DEF CallBody, AtCall
  <1>2. /\ act.k \in Nat /\ act.k <= Len(act.e.args)
        /\ Len(mem.stack_vars) = act.depth + 1 /\ act.fn \in DOMAIN Funcs
    BY <1>1, CallFacts
  <1>3. t \in CallActs
    BY <1>1, <1>2, CallTypes
  <1>4. /\ CtlInv(d, act.depth + 1, curr_source') /\ Rooted(d)
        /\ Len(d) = Len(ctl) /\ d[Len(d)] = t
    BY <1>1, <1>3, MovedCall, CallGoesOn
  <1>5. Sane(mem') /\ Tidy(mem') /\ mem'.outcome # "done" /\ ret' \in Results
    BY <1>1 DEF EInv, Results
  <1>6. Funcs[act.fn].body \in DOMAIN Stmts
    BY <1>2, ProgramAssumption
  <1>7. u \in Acts /\ u.kind = "stmt" /\ u.depth = Len(mem'.stack_vars) /\ Frames(u) = 0
    BY <1>1, <1>5, <1>6, NewActs
  <1>8. t.kind = "call" /\ t.fn = act.fn
    BY DEF CallAt
  <1>9. CtlInv(d, Len(mem'.stack_vars), curr_source')
    BY <1>1, <1>2, <1>4
  <1> HIDE DEF d, u, t
  <1> QED
    BY <1>1, <1>4, <1>5, <1>7, <1>8, <1>9, PushesKept

(* The call returns.                                                       *)
LEMMA CallReturnKeeps ==
  ASSUME EInv, CallReturn
  PROVE  Kept
  <1>1. /\ mem.outcome = "run" /\ act.kind = "call" /\ act.pc = "body"
        /\ mem' = pop_stack_frame(mem) /\ ctl' = Front(ctl)
        /\ curr_source' = act.save /\ ret' = ret
    BY DEF CallReturn, AtCall
  <1>2. act.depth \in Nat /\ Len(mem.stack_vars) = act.depth + 1 /\ Len(mem.stack_vars) > 1
    BY <1>1, CallFacts
  <1>3. /\ Sane(mem') /\ Tidy(mem') /\ mem'.outcome = "run"
        /\ Len(mem'.stack_vars) = Len(mem.stack_vars) - 1
    BY <1>1, <1>2, PopSane DEF EInv
  <1>4. Len(mem'.stack_vars) = act.depth
    BY <1>2, <1>3
  <1>5. IsRunning(act)
    BY <1>1 DEF IsRunning
  <1> QED
    BY <1>1, <1>3, <1>4, <1>5, PopsKept DEF EInv

(* An argument is bound.                                                   *)
LEMMA BindKeeps ==
  ASSUME EInv, mem.outcome = "run", act.kind = "call", act.pc # "body", act.k < Len(act.e.args),
         NEW name \in Names, NEW data, Len(data) \in Nat, BindArg(name, data),
         VaReady(CallAt(act, act.k + 1, "eval"), mem')
  PROVE  Kept
  <1> DEFINE t == CallAt(act, act.k + 1, "eval")
  <1>1. /\ mem' = Bound(mem, name, data)
        /\ ctl' = [ctl EXCEPT ![Len(ctl)].k = @ + 1, ![Len(ctl)].pc = "eval"]
        /\ ret' = ret /\ curr_source' = curr_source
    BY DEF BindArg
  <1>2. /\ act.k \in Nat /\ Len(act.e.args) \in Nat
        /\ Len(mem.stack_vars) = act.depth + 1 /\ Len(mem.stack_vars) > 1
    BY CallFacts
  <1>3. act.k + 1 \in Nat /\ act.k + 1 <= Len(act.e.args)
    BY <1>2
  <1>4. t \in CallActs
    BY <1>3, CallTypes
  <1>5. ctl' = [ctl EXCEPT ![Len(ctl)] = t]
    <2>1. ctl \in Seq(Acts) /\ Len(ctl) > 0 /\ act \in CallActs
      BY TopFacts
    <2>2. Len(ctl) \in DOMAIN ctl
      BY <2>1
    <2>3. [act EXCEPT !.k = @ + 1] = CallAt(act, act.k + 1, act.pc)
      BY <2>1 DEF CallActs, CallAt
    <2>4. [CallAt(act, act.k + 1, act.pc) EXCEPT !.pc = "eval"] = t
      BY DEF CallAt
    <2>5. ctl' = [ctl EXCEPT ![Len(ctl)] = [[act EXCEPT !.k = @ + 1] EXCEPT !.pc = "eval"]]
      BY <1>1, <2>2 DEF act
    <2> QED
      BY <2>3, <2>4, <2>5
  <1>6. /\ CtlInv(ctl', act.depth + 1, curr_source) /\ Rooted(ctl')
        /\ Len(ctl') = Len(ctl) /\ ctl'[Len(ctl')] = t
    BY <1>4, <1>5, CallGoesOn
  <1>7. /\ Sane(mem') /\ Tidy(mem') /\ mem'.outcome # "done"
        /\ Len(mem'.stack_vars) = Len(mem.stack_vars)
    BY <1>1, <1>2, BoundSane DEF EInv
  <1>8. VaReady(act', mem')
    BY <1>6 DEF act
  <1>9. ~(Len(ctl') < Len(ctl))
    BY <1>6, TopFacts
  <1>10. CtlInv(ctl', Len(mem'.stack_vars), curr_source')
    BY <1>1, <1>2, <1>6, <1>7
  <1> QED
    BY <1>1, <1>6, <1>7, <1>8, <1>9, <1>10 DEF EInv, Kept

(* A parameter, or an argument behind the last one.                        *)
LEMMA CallBindKeeps ==
  ASSUME EInv, CallBind
  PROVE  Kept
  <1>1. mem.outcome = "run" /\ act.kind = "call" /\ act.pc = "bind"
    BY DEF CallBind, AtCall
  <1>2. CASE ret # "value"
    BY <1>2, StopWithoutKeeps DEF CallBind
  <1>3. CASE ret = "value"
    <2> DEFINE name == ParamName(act.fn, act.k + 1)
               t == CallAt(act, act.k + 1, "eval")
    <2>1. BindArg(name, Words(2))
      BY <1>3 DEF CallBind
    <2>2. act.k < Len(act.e.args) /\ act.fn # VaStart /\ act.fn \in DOMAIN Funcs /\ act.k \in Nat
      BY <1>1, CallFacts
    <2>3. name \in Names
      <3>1. Funcs[act.fn].params \in Seq(Names) /\ "" \in Names
        BY <2>2, ProgramAssumption
      <3>2. \A q \in Seq(Names), i \in Nat : i + 1 <= Len(q) => q[i + 1] \in Names
        OBVIOUS
      <3> QED
        BY <2>2, <3>1, <3>2 DEF ParamName
    <2>4. VaReady(t, mem')
      <3>1. t.fn = act.fn
        BY DEF CallAt
      <3> QED
        BY <2>2, <3>1 DEF VaReady
    <2>5. Len(Words(2)) \in Nat
      BY Contents
    <2> HIDE DEF name, t
    <2> QED
      BY <1>1, <2>1, <2>2, <2>3, <2>4, <2>5, BindKeeps DEF t
  <1> QED
    BY <1>2, <1>3

(***************************************************************************)
(* __builtin_va_start: what it is given is a position of the stack, and    *)
(* what it writes to is the block of a variable.                           *)
(***************************************************************************)

(* Positions stay when a variable is added.                                *)
LEMMA PositionStays ==
  ASSUME NEW m, NEW n, NEW name, NEW b, NEW e, NEW l, Added(m, n, name, b, e, l),
         NEW d, IsPosition(m, d)
  PROVE  IsPosition(n, d)
  <1>1. l \in Nat
    BY DEF Added
  <1>2. \A i \in 1 .. l : i \in 1 .. (l + 1)
    BY <1>1
  <1>3. \A f \in DOMAIN m.stack_vars :
          f \in DOMAIN n.stack_vars /\ DOMAIN m.stack_vars[f] \subseteq DOMAIN n.stack_vars[f]
    BY <1>2 DEF Added
  <1> QED
    BY <1>3 DEF IsPosition

(* The innermost position of a name on the stack.                          *)
LEMMA StackPosIsPosition ==
  ASSUME EInv, NEW name, OnStack(mem, name)
  PROVE  IsPosition(mem, StackPos(name)) /\ Len(StackPos(name)) \in Nat
  <1> DEFINE q == mem.stack_var_map[name]
             p == q[Len(q)]
  <1>1. MemTypeOK(mem) /\ Indexed(mem)
    BY DEF EInv, Sane
  <1>2. name \in Names /\ q \in Seq(Nat \X Nat) /\ q # <<>>
    BY <1>1 DEF MemTypeOK, OnStack, Indexed, NoEmptyLists
  <1>3. Len(q) \in DOMAIN q
    BY <1>2
  <1>4. Listed(mem, name) = q
    BY DEF Listed, OnStack
  <1>5. Holds(mem, p, name)
    BY <1>1, <1>2, <1>3, <1>4 DEF Indexed, Sound
  <1>6. p \in Nat \X Nat
    BY <1>2, <1>3
  <1>7. StackPos(name) = <<"STACKPOS">> \o p
    BY DEF StackPos, Last
  <1> HIDE DEF p
  <1>8. PICK x \in Nat, y \in Nat : p = <<x, y>>
    BY <1>6
  <1>9. StackPos(name) = <<"STACKPOS", x, y>>
    <2> DEFINE S == {"STACKPOS"} \cup Nat
               a == <<"STACKPOS">>
               c == <<x, y>>
               r == <<"STACKPOS", x, y>>
    <2>1. a \in Seq(S) /\ c \in Seq(S) /\ r \in Seq(S)
      OBVIOUS
    <2>2. Len(a) = 1 /\ Len(c) = 2 /\ Len(r) = 3
      OBVIOUS
    <2>3. a[1] = "STACKPOS" /\ c[1] = x /\ c[2] = y /\ r[1] = "STACKPOS" /\ r[2] = x /\ r[3] = y
      OBVIOUS
    <2> HIDE DEF S, a, c, r
    <2>4. /\ a \o c \in Seq(S) /\ Len(a \o c) = Len(a) + Len(c)
          /\ \A i \in 1 .. Len(a) + Len(c) :
               (a \o c)[i] = IF i <= Len(a) THEN a[i] ELSE c[i - Len(a)]
      BY <2>1, ConcatProperties
    <2> DEFINE z == a \o c
    <2>5. /\ z \in Seq(S) /\ Len(z) = 1 + 2
          /\ \A i \in 1 .. (1 + 2) : z[i] = IF i <= 1 THEN a[i] ELSE c[i - 1]
      BY <2>2, <2>4
    <2> HIDE DEF z
    <2>6. Len(z) = 3 /\ z[1] = a[1] /\ z[2] = c[1] /\ z[3] = c[2]
      BY <2>5
    <2>7. \A i \in 1 .. Len(z) : z[i] = r[i]
      <3>1. \A i \in 1 .. 3 : i = 1 \/ i = 2 \/ i = 3
        OBVIOUS
      <3> QED
        BY <2>3, <2>6, <3>1
    <2>8. a \o c = r
      <3>1. z = r
        BY <2>1, <2>2, <2>5, <2>6, <2>7, SeqEqual
      <3> QED
        BY <3>1 DEF z
    <2> QED
      BY <1>7, <1>8, <2>8 DEF a, c, r
  <1>10. p[1] = x /\ p[2] = y
    BY <1>8
  <1>11. /\ StackPos(name)[2] = x /\ StackPos(name)[3] = y
         /\ Len(StackPos(name)) = 3
    BY <1>9
  <1>12. x + 1 \in DOMAIN mem.stack_vars /\ y + 1 \in DOMAIN mem.stack_vars[x + 1]
    BY <1>5, <1>10 DEF Holds
  <1> QED
    BY <1>9, <1>11, <1>12 DEF IsPosition

(* An argument of va_start.                                                *)
LEMMA VaArgKeeps ==
  ASSUME EInv, VaArg
  PROVE  Kept
  <1>1. mem.outcome = "run" /\ act.kind = "call" /\ act.pc = "eval" /\ act.fn = VaStart /\ ~AllBound
    BY DEF VaArg, AtCall
  <1>2. CASE Stop("exit")
    BY <1>2, StopKeeps DEF Outcomes
  <1>3. CASE ~Stop("exit")
    <2> DEFINE d == StackPos(NextArg.name)
               t == CallAt(act, act.k + 1, "eval")
               e == Len(mem.stack_vars)
               b == mem.id_counter
    <2>1. OnStack(mem, NextArg.name) /\ BindArg("", d)
      BY <1>3 DEF VaArg
    <2>2. /\ act.k \in Nat /\ act.k <= Len(act.e.args) /\ Len(act.e.args) \in Nat
          /\ e > 1
      BY <1>1, CallFacts
    <2>3. act.k < Len(act.e.args)
      BY <1>1, <2>2 DEF AllBound
    <2>4. IsPosition(mem, d) /\ Len(d) \in Nat
      BY <2>1, StackPosIsPosition
    <2>5. "" \in Names
      BY ProgramAssumption
    <2> HIDE DEF d
    <2>6. mem' = Bound(mem, "", d)
      BY <2>1 DEF BindArg
    <2>7. /\ DOMAIN Top(mem) = 1 .. act.k
          /\ act.k > 0 => IsPosition(mem, mem.active_mem[Top(mem)[1].block].data)
      BY <1>1 DEF EInv, VaReady
    <2>8. ASSUME mem'.outcome = "run"
          PROVE  /\ DOMAIN Top(mem') = 1 .. (act.k + 1)
                 /\ IsPosition(mem', mem'.active_mem[Top(mem')[1].block].data)
      <3>1. /\ Len(mem'.stack_vars) = e
            /\ Added(mem, mem', "", b, e, Len(Top(mem)))
            /\ \A c \in DOMAIN mem.active_mem : mem'.active_mem[c] = mem.active_mem[c]
            /\ mem'.active_mem[b].data = d
        <4>1. Sane(mem)
          BY DEF EInv
        <4> DEFINE name == ""
        <4>2. name \in Names /\ mem' = Bound(mem, name, d)
          BY <2>5, <2>6
        <4> HIDE DEF name
        <4>3. /\ Len(mem'.stack_vars) = e
              /\ Added(mem, mem', name, b, e, Len(Top(mem)))
              /\ \A c \in DOMAIN mem.active_mem : mem'.active_mem[c] = mem.active_mem[c]
              /\ mem'.active_mem[b].data = d
          BY <2>4, <2>8, <4>1, <4>2, BoundSane
        <4> QED
          BY <4>3 DEF name
      <3>2. mem.stack_vars \in Seq(Seq(VarType)) /\ e > 0
        BY <2>2 DEF EInv, Sane, MemTypeOK
      <3>3. Top(mem) \in Seq(VarType) /\ e \in DOMAIN mem.stack_vars
        BY <3>2 DEF Top
      <3>4. Len(Top(mem)) = act.k
        BY <2>2, <2>7, <3>3
      <3>5. Added(mem, mem', "", b, e, act.k)
        BY <3>1, <3>4
      <3>6. Top(mem) = mem.stack_vars[e] /\ Top(mem') = mem'.stack_vars[e]
        BY <3>1 DEF Top
      <3> HIDE DEF e, b
      <3>7. /\ DOMAIN Top(mem') = 1 .. (act.k + 1)
            /\ Top(mem')[act.k + 1] = [name |-> "", block |-> b]
            /\ \A i \in DOMAIN Top(mem) : Top(mem')[i] = Top(mem)[i]
        BY <3>5, <3>6 DEF Added
      <3>8. CASE act.k = 0
        <4>0. act.k + 1 = 1
          BY <3>8
        <4>1. Top(mem')[1].block = b
          <5>1. Top(mem')[1] = [name |-> "", block |-> b]
            BY <3>7, <4>0, Zenon
          <5>2. [name |-> "", block |-> b].block = b
            BY Zenon
          <5> QED
            BY <5>1, <5>2, Zenon
        <4>2. IsPosition(mem', d)
          BY <2>4, <3>5, PositionStays
        <4> QED
          BY <3>1, <3>7, <4>1, <4>2
      <3>9. CASE act.k # 0
        <4>1. 1 \in DOMAIN Top(mem) /\ act.k > 0
          BY <2>2, <2>7, <3>9
        <4>2. Top(mem')[1] = Top(mem)[1]
          BY <3>7, <4>1
        <4>3. Top(mem)[1].block \in DOMAIN mem.active_mem
          BY <3>3, <3>6, <4>1 DEF EInv, Sane, VarsLive
        <4>4. IsPosition(mem', mem.active_mem[Top(mem)[1].block].data)
          BY <2>7, <3>5, <4>1, PositionStays
        <4> QED
          BY <3>1, <3>7, <4>2, <4>3, <4>4
      <3> QED
        BY <3>8, <3>9
    <2>9. VaReady(t, mem')
      <3>1. t.k = act.k + 1
        BY DEF CallAt
      <3> QED
        BY <2>8, <3>1 DEF VaReady
    <2> QED
      BY <1>1, <2>1, <2>3, <2>4, <2>5, <2>9, BindKeeps
  <1> QED
    BY <1>2, <1>3

(* The variable at the first position is written, and the frame is left.   *)
LEMMA VaStartKeeps ==
  ASSUME EInv, emu_va_start
  PROVE  Kept
  <1>1. mem.outcome = "run" /\ act.kind = "call" /\ act.pc = "eval" /\ act.fn = VaStart
    BY DEF emu_va_start, AtCall
  <1>2. CASE Stop("exit")
    BY <1>2, StopKeeps DEF Outcomes
  <1>3. CASE ~Stop("exit")
    <2> DEFINE x == VaData(2) \o SubSeq(mem.active_mem[VaTarget].data, EMU_SIZE_STACKPOS + 1,
                                        Len(mem.active_mem[VaTarget].data))
               w == [mem EXCEPT !.active_mem[VaTarget].data = x]
    <2>1. /\ ~(act.k < 2) /\ mem' = pop_stack_frame(w)
          /\ ctl' = Front(ctl) /\ ret' = "value" /\ curr_source' = curr_source
      BY <1>3 DEF emu_va_start, Finish
    <2>2. /\ act.k \in Nat /\ act.depth \in Nat
          /\ Len(mem.stack_vars) = act.depth + 1 /\ Len(mem.stack_vars) > 1
      BY <1>1, CallFacts
    <2>3. act.k > 0
      BY <2>1, <2>2
    <2>4. IsPosition(mem, VaData(1))
      BY <1>1, <2>3 DEF EInv, VaReady, VaData
    <2>5. IsVar(mem, VaTarget)
      <3> DEFINE d == VaData(1)
      <3> HIDE DEF d
      <3>1. PICK i \in Nat, j \in Nat : /\ d = <<"STACKPOS", i, j>>
                                        /\ i + 1 \in DOMAIN mem.stack_vars
                                        /\ j + 1 \in DOMAIN mem.stack_vars[i + 1]
        BY <2>4 DEF IsPosition, d
      <3>2. Tail(d)[1] = i /\ Tail(d)[2] = j
        BY <3>1
      <3>3. VaTarget = mem.stack_vars[i + 1][j + 1].block
        BY <3>2 DEF VaTarget, VarAt, d
      <3> QED
        BY <3>1, <3>3 DEF IsVar
    <2> HIDE DEF x
    <2>6. Sane(w) /\ Tidy(w) /\ w.stack_vars = mem.stack_vars /\ w.outcome = "run"
      <3> DEFINE tgt == VaTarget
      <3>1. Sane(mem) /\ Tidy(mem) /\ IsVar(mem, tgt)
        BY <2>5 DEF EInv
      <3>2. w = Written(mem, tgt, x)
        BY DEF Written
      <3> HIDE DEF w, tgt
      <3>3. /\ Sane(w) /\ w.stack_vars = mem.stack_vars /\ w.outcome = mem.outcome
            /\ Tidy(mem) /\ IsVar(mem, tgt) => Tidy(w)
        BY <3>1, <3>2, WriteSane
      <3> QED
        BY <1>1, <3>1, <3>3
    <2> HIDE DEF w
    <2>7. /\ Sane(mem') /\ Tidy(mem') /\ mem'.outcome = "run"
          /\ Len(mem'.stack_vars) = Len(w.stack_vars) - 1
      BY <2>1, <2>2, <2>6, PopSane
    <2>8. Len(mem'.stack_vars) = act.depth
      BY <2>2, <2>6, <2>7
    <2>9. ~IsRunning(act)
      BY <1>1 DEF IsRunning
    <2>10. ret' \in Results
      BY <2>1 DEF Results
    <2> QED
      BY <1>1, <2>1, <2>7, <2>8, <2>9, <2>10, PopsKept
  <1> QED
    BY <1>2, <1>3

(***************************************************************************)
(* The specification.                                                      *)
(***************************************************************************)

(* RunProgram has pushed its frame and the globals are allocated.          *)
LEMMA StartSane ==
  ASSUME NEW d, Len(d) \in Nat, mem = Start(d)
  PROVE  Sane(mem) /\ Tidy(mem) /\ Len(mem.stack_vars) = 1 /\ mem.outcome = "run"
  <1> DEFINE G == BLOCK_ID_START .. (BLOCK_ID_START + NumGlobals - 1)
             blk == [memtype |-> "GLOBAL", size |-> Len(d), data |-> d]
  <1>1. /\ DOMAIN mem = {"id_counter", "active_mem", "stack_vars", "stack_var_map", "outcome"}
        /\ mem.id_counter = BLOCK_ID_START + NumGlobals
        /\ mem.stack_vars = <<(<<>>)>> /\ DOMAIN mem.stack_var_map = {}
        /\ mem.outcome = "run"
    BY DEF Start
  <1>2. DOMAIN mem.active_mem = G /\ \A b \in G : mem.active_mem[b] = blk
    BY DEF Start
  <1>3. /\ blk.memtype = "GLOBAL" /\ blk.memtype \in mem_type_t /\ blk.size \in Nat
        /\ DOMAIN blk = {"memtype", "size", "data"}
    BY DEF mem_type_t
  <1> HIDE DEF G, blk
  <1>4. mem.id_counter \in block_id_t /\ CounterOK(mem) /\ G \subseteq block_id_t
    BY <1>1, IdSpaceAssumption DEF G, block_id_t, CounterOK, BLOCK_ID_START
  <1>5. Issued(mem) = G
    BY <1>1, IdSpaceAssumption DEF G, Issued, BLOCK_ID_START
  <1>6. mem.stack_vars \in Seq(Seq(VarType)) /\ Len(mem.stack_vars) = 1
    BY <1>1
  <1>7. MemTypeOK(mem)
    BY <1>1, <1>2, <1>3, <1>4, <1>6 DEF MemTypeOK, Outcomes
  <1>8. \A f \in DOMAIN mem.stack_vars : DOMAIN mem.stack_vars[f] = {}
    BY <1>1
  <1>9. Owned(mem)
    BY <1>2, <1>5, <1>8 DEF Owned
  <1>10. \A n : DOMAIN Listed(mem, n) = {}
    BY <1>1 DEF Listed
  <1>11. Indexed(mem)
    BY <1>1, <1>8, <1>10 DEF Indexed, NoEmptyLists, Sound, Complete, Ordered
  <1>12. Shaped(mem) /\ VarsLive(mem)
    BY <1>2, <1>3, <1>8 DEF Shaped, VarsLive
  <1>13. Sane(mem)
    BY <1>4, <1>6, <1>7, <1>9, <1>11, <1>12 DEF Sane
  <1>14. DOMAIN mem.stack_vars[1] = {}
    BY <1>6, <1>8
  <1>15. Tidy(mem)
    BY <1>2, <1>3, <1>14 DEF Tidy
  <1> QED
    BY <1>1, <1>6, <1>13, <1>15

(* The program starts with RunProgram and the body of main.                *)
LEMMA InitGood ==
  ASSUME ExecInit
  PROVE  EInv
  <1>1. mem = Start(<<>>) /\ ret = "null"
    BY DEF ExecInit
  <1>2. Sane(mem) /\ Tidy(mem) /\ Len(mem.stack_vars) = 1 /\ mem.outcome = "run"
    <2>1. PICK d : d = <<>> /\ Len(d) = 0
      OBVIOUS
    <2> QED
      BY <1>1, <2>1, StartSane
  <1>3. PICK f \in Mains :
          /\ ctl = <<[kind |-> "run", fn |-> f, depth |-> 0], Activation(Funcs[f].body, mem)>>
          /\ curr_source = Funcs[f].source
    BY DEF ExecInit
  <1> DEFINE r == [kind |-> "run", fn |-> f, depth |-> 0]
             u == Activation(Funcs[f].body, mem)
  <1>4. /\ Funcs[f].body \in DOMAIN Stmts
        /\ Stmts[Funcs[f].body].kind = "compound"
    BY ProgramAssumption
  <1>5. r \in RunActs /\ r.kind = "run" /\ r.depth = 0 /\ r.fn = f
    BY DEF RunActs
  <1>6. u \in Acts /\ u.kind = "stmt" /\ u.depth = 1 /\ Frames(u) = 0 /\ u.node = Funcs[f].body
    <2>1. u.node = Funcs[f].body
      BY DEF Activation
    <2> QED
      BY <1>2, <1>4, <2>1, NewActs
  <1> HIDE DEF r, u
  <1>7. r \in Acts /\ Frames(r) = 1 /\ IsRunning(r) /\ ~IsRunning(u)
    BY <1>5, <1>6 DEF Acts, Frames, IsRunning
  <1>8. ctl = <<r, u>>
    BY <1>3 DEF r, u
  <1>9. ctl \in Seq(Acts) /\ Len(ctl) = 2 /\ ctl[1] = r /\ ctl[2] = u
    BY <1>6, <1>7, <1>8
  <1>10. SourceAt(ctl, 1, curr_source)
    BY <1>3, <1>5, <1>7, <1>9, SourceTop
  <1>11. SourceAt(ctl, 1 + 1, curr_source)
    <2>1. ~IsRunning(ctl[1 + 1])
      BY <1>7, <1>9
    <2> QED
      BY <1>10, <2>1, SourceUp
  <1>12. \A k \in 2 .. 2 : k = 2 /\ k - 1 = 1
    OBVIOUS
  <1>13. Linked(ctl)
    BY <1>5, <1>6, <1>7, <1>9, <1>12 DEF Linked
  <1>14. CtlInv(ctl, 1, curr_source)
    BY <1>5, <1>6, <1>9, <1>11, <1>13 DEF CtlInv
  <1>15. Rooted(ctl)
    BY <1>4, <1>6, <1>9 DEF Rooted
  <1>16. act = u
    BY <1>9 DEF act
  <1>17. VaReady(act, mem)
    BY <1>6, <1>16 DEF VaReady
  <1> QED
    BY <1>1, <1>2, <1>14, <1>15, <1>17 DEF EInv, Results

(* Every step keeps the invariant and restores the frames.                 *)
LEMMA StepKeeps ==
  ASSUME EInv, ExecNext
  PROVE  Kept
  <1>1. CASE RunEnd
    <2>1. CASE ret = "value"
      BY <1>1, <2>1, StopKeeps DEF RunEnd, Outcomes
    <2>2. CASE ret # "value"
      BY <1>1, <2>2, StopWithoutKeeps DEF RunEnd
    <2> QED
      BY <2>1, <2>2
  <1>2. CASE ~RunEnd
    BY <1>2, ValueKeeps, CallExprKeeps, CallArgKeeps, CallBindKeeps, CallBodyKeeps, CallReturnKeeps,
       VaArgKeeps, VaStartKeeps, CompoundKeeps, DeclKeeps, SimpleKeeps, ForKeeps, SwitchKeeps,
       OtherKeeps
    DEF ExecNext
  <1> QED
    BY <1>1, <1>2

(* The inductive invariant of execution.                                   *)
THEOREM EInvHolds == ExecSpec => []EInv
  <1>1. ExecInit => EInv
    BY InitGood
  <1>2. EInv /\ [ExecNext]_vars => EInv'
    <2>1. ASSUME EInv, UNCHANGED vars
          PROVE  EInv'
      BY <2>1 DEF EInv, vars, act
    <2> QED
      BY <2>1, StepKeeps DEF Kept
  <1> QED
    BY <1>1, <1>2, PTL DEF ExecSpec

(* The control stack is well formed: RunProgram at the bottom, known       *)
(* statements and functions above it, and an expression only on top.       *)
THEOREM ExecTypeCorrect == ExecSpec => []ExecTypeOK
  <1>1. EInv => ExecTypeOK
    <2> SUFFICES ASSUME EInv PROVE ExecTypeOK
      OBVIOUS
    <2>1. MemTypeOK(mem) /\ ret \in Results /\ ctl[1].kind = "run" /\ ctl \in Seq(Acts) /\ Linked(ctl)
      BY DEF EInv, Sane, CtlInv
    <2>2. ASSUME NEW k \in 2..Len(ctl)
          PROVE  \/ ctl[k].kind = "stmt" /\ ctl[k].node \in DOMAIN Stmts
                 \/ ctl[k].kind = "expr" /\ k = Len(ctl)
                 \/ ctl[k].kind = "call" /\ ctl[k].k \in 0..Len(ctl[k].e.args)
      <3>1. ctl[k] \in Acts /\ ctl[k].kind # "run" /\ (ctl[k].kind = "expr" => k = Len(ctl))
        BY <2>1 DEF Linked
      <3>2. CASE ctl[k].kind = "stmt"
        BY <3>1, <3>2, ActKinds DEF StmtActs
      <3>3. CASE ctl[k].kind = "call"
        <4>1. ctl[k] \in CallActs
          BY <3>1, <3>3, ActKinds
        <4>2. ctl[k].k \in Nat /\ ctl[k].k <= Len(ctl[k].e.args) /\ ctl[k].e \in Exprs
          BY <4>1 DEF CallActs
        <4>3. ctl[k].e.args \in Seq(Exprs)
          BY <4>2, SyntaxAssumption
        <4>4. Len(ctl[k].e.args) \in Nat
          BY <4>3
        <4>5. ctl[k].k \in 0..Len(ctl[k].e.args)
          BY <4>2, <4>4
        <4> QED
          BY <3>3, <4>5
      <3> QED
        BY <3>1, <3>2, <3>3, ActKinds
    <2> QED
      BY <2>1, <2>2 DEF ExecTypeOK
  <1> QED
    BY <1>1, EInvHolds, PTL

(* curr_source is the file of the function that runs, at every depth of    *)
(* calls and however the calls before have ended: the value that a call    *)
(* saved is still the caller's when it returns.                            *)
THEOREM SourceAlwaysFollows == ExecSpec => []SourceFollowsCalls
  <1>1. EInv => SourceFollowsCalls
    <2> SUFFICES ASSUME EInv PROVE SourceFollowsCalls
      OBVIOUS
    <2> DEFINE n == Len(ctl)
               I == {i \in 1 .. n : IsRunning(ctl[i])}
    <2>1. SourceAt(ctl, n, curr_source) /\ n \in Nat
      BY TopFacts DEF EInv, CtlInv
    <2>2. PICK j \in 1 .. n : /\ IsRunning(ctl[j])
                              /\ \A i \in (j + 1) .. n : ~IsRunning(ctl[i])
                              /\ curr_source = Funcs[ctl[j].fn].source
      BY <2>1 DEF SourceAt
    <2>3. j \in I /\ \A i \in I : j >= i
      <3>1. \A i \in 1 .. n : i > j => i \in (j + 1) .. n
        BY <2>1
      <3>2. \A i \in I : ~(i > j)
        BY <2>2, <3>1
      <3>3. \A i \in 1 .. n : ~(i > j) => j >= i
        BY <2>1
      <3> QED
        BY <2>2, <3>2, <3>3
    <2>4. \A i \in I : i \in Int
      BY <2>1
    <2>5. SelectLastInSeq(ctl, IsRunning) = Max(I)
      BY <2>3 DEF SelectLastInSeq
    <2> HIDE DEF I
    <2>6. \A i \in I : (\A y \in I : i >= y) => i = j
      BY <2>3, <2>4
    <2>7. Max(I) = j
      BY <2>3, <2>6 DEF Max
    <2> QED
      BY <2>2, <2>5, <2>7 DEF SourceFollowsCalls, Running
  <1> QED
    BY <1>1, EInvHolds, PTL

(* However a statement or a call ends, the stack of frames is as deep as   *)
(* when it began: no return or break forgets a pop or pops twice.          *)
THEOREM FramesAlwaysRestored == ExecSpec => FramesRestored
  <1>1. EInv /\ [ExecNext]_vars =>
          [(Len(ctl') < Len(ctl)) => Len(mem'.stack_vars) = act.depth]_vars
    BY StepKeeps DEF Kept
  <1> QED
    BY <1>1, EInvHolds, PTL DEF ExecSpec, FramesRestored

(* When main has returned every block of a parameter or local variable has *)
(* expired, and only the elements of local arrays are left of the stack.   *)
THEOREM LocalsAlwaysExpire == ExecSpec => []LocalsExpire
  <1>1. EInv => LocalsExpire
    <2> SUFFICES ASSUME EInv, mem.outcome = "done",
                        NEW b \in DOMAIN mem.active_mem, mem.active_mem[b].memtype = "STACK"
                 PROVE  mem.active_mem[b].data = Elements(mem.active_mem[b].size)
      BY DEF LocalsExpire
    <2>1. Len(ctl) = 1 /\ Tidy(mem) /\ MemTypeOK(mem)
      BY DEF EInv, Sane
    <2>2. act.kind = "run" /\ act \in Acts /\ Len(mem.stack_vars) = act.depth + Frames(act)
      BY <2>1, TopFacts
    <2>3. act.depth = 0 /\ Frames(act) = 1
      BY <2>2, ActKinds DEF RunActs, Frames
    <2>4. Len(mem.stack_vars) = 1
      BY <2>2, <2>3
    <2>5. mem.stack_vars \in Seq(Seq(VarType))
      BY <2>1 DEF MemTypeOK
    <2>6. \A f \in DOMAIN mem.stack_vars : f = 1
      BY <2>4, <2>5
    <2>7. ~IsVar(mem, b)
      BY <2>1, <2>6 DEF Tidy, IsVar
    <2> QED
      BY <2>1, <2>7 DEF Tidy, IsElements
  <1> QED
    BY <1>1, EInvHolds, PTL

(* The invariants of the memory subsystem hold throughout a program, in    *)
(* which every variable in scope has a block that is neither deleted nor   *)
(* expired, so that no scope exit ends in undefined behaviour.             *)
THEOREM ExecKeepsMemory == ExecSpec => [](StackIndex /\ InScopeBlocksLive /\ VarsLive(mem))
  <1>1. EInv => StackIndex /\ InScopeBlocksLive /\ VarsLive(mem)
    BY IndexedIsStackIndex, OwnedIsOwnership DEF EInv, Sane, StackIndex, InScopeBlocksLive
  <1> QED
    BY <1>1, EInvHolds, PTL

=============================================================================
