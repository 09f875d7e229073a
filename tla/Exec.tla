-------------------------------- MODULE Exec --------------------------------
(***************************************************************************)
(* The execution subsystem (eval.cpp): exec_stmt walks the statements of   *)
(* an emulated program, opens and closes frames of the memory subsystem,   *)
(* calls functions, and reports how each statement ended by a pointer that *)
(* is null, BREAK_POINTER or a value.                                      *)
(*                                                                         *)
(* The recursion of exec_stmt and eval_rexpr is a stack of activations,    *)
(* each with the point it has reached.  Values are left out: the outcome   *)
(* of a condition is any, and a loop runs at most MaxIter times.  An       *)
(* expression is a constant, a variable, a call with expressions for its   *)
(* arguments, or missing where the syntax allows that.  A variable is the  *)
(* function's own (a parameter or a local) or one of file scope.           *)
(***************************************************************************)
EXTENDS Memory, SequencesExt

CONSTANTS
  Stmts,    (* the syntax tree: for each statement its kind and its parts   *)
  Exprs,    (* the expressions in it, with the expressions in them          *)
  Funcs,    (* the functions with a body: [body, params, source]            *)
  Mains,    (* the functions that may be the program's main                 *)
  MaxIter   (* bound on the iterations of a loop                            *)

ASSUME ProgramAssumption ==
  /\ MaxIter \in Nat
  /\ Mains \subseteq DOMAIN Funcs
  /\ \A f \in DOMAIN Funcs :
       /\ Funcs[f].body \in DOMAIN Stmts
       /\ Stmts[Funcs[f].body].kind = "compound"
       /\ Funcs[f].params \in Seq(Names)
  /\ "" \in Names

(* The parts of statements and expressions, as the parser makes them.      *)
ASSUME SyntaxAssumption ==
  /\ \A s \in DOMAIN Stmts :
       /\ Stmts[s].kids \in Seq(DOMAIN Stmts)
       /\ Stmts[s].e \in Exprs /\ Stmts[s].inc \in Exprs
       /\ Stmts[s].kind \in {"if", "case", "default"} => Len(Stmts[s].kids) > 0
       /\ Stmts[s].kind = "for" => Len(Stmts[s].kids) = 2
       /\ Stmts[s].kind = "decl" =>
            Stmts[s].name \in Names /\ Stmts[s].size \in Nat /\ Stmts[s].elems \in Nat
  /\ \A e \in Exprs : e.args \in Seq(Exprs)

VARIABLES
  ctl,         (* the activations of RunProgram, exec_stmt and calls        *)
  ret,         (* what the last exec_stmt or call to end has returned       *)
  curr_source  (* the file whose variables eval_lexpr looks up              *)

vars == <<mem, ctl, ret, curr_source>>

Results == {"null", "break", "value"}

-----------------------------------------------------------------------------
act == ctl[Len(ctl)]
stmt == Stmts[act.node]

(* The top activation is a statement of this kind, and has come to pc.     *)
Of(kind) == mem.outcome = "run" /\ act.kind = "stmt" /\ stmt.kind = kind

At(kind, pc) == Of(kind) /\ act.pc = pc

(* The statement goes through its kids and has come to one of them, or it  *)
(* has come to the end or to one that returned something.                  *)
AtKid(kind) == Of(kind) /\ act.pc \in DOMAIN stmt.kids /\ ret = "null"

AtEnd(kind) == Of(kind) /\ act.pc > 0 /\ (act.pc = Len(stmt.kids) + 1 \/ ret # "null")

(* The top activation is an expression of this kind, or a call.            *)
AtExpr(op) == mem.outcome = "run" /\ act.kind = "expr" /\ act.e.op = op

AtCall(pc) == mem.outcome = "run" /\ act.kind = "call" /\ act.pc = pc

(* An activation remembers how deep the stack of frames was when it began. *)
Activation(node, m) ==
  [kind |-> "stmt", node |-> node, pc |-> 0, n |-> 0, depth |-> Len(m.stack_vars)]

Moved(pc) == [ctl EXCEPT ![Len(ctl)].pc = pc]

(* The activation continues at pc when the statement node has ended.       *)
Run(node, pc) ==
  /\ ctl' = Append(Moved(pc), Activation(node, mem'))
  /\ ret' = "null"
  /\ UNCHANGED curr_source

(* The activation continues at pc when eval_rexpr(e) has returned.         *)
Evaluate(e, pc) ==
  /\ ctl' = Append(Moved(pc), [kind |-> "expr", e |-> e, depth |-> Len(mem'.stack_vars)])
  /\ UNCHANGED <<ret, curr_source>>

Finish(r) == ctl' = Front(ctl) /\ ret' = r /\ UNCHANGED curr_source

FinishFrame(r) == mem' = pop_stack_frame(mem) /\ Finish(r)

Stop(how) == mem' = End(mem, how) /\ UNCHANGED <<ctl, ret, curr_source>>

(* A value is needed where the pointer r may be null or BREAK_POINTER.     *)
StopWithout(r) == Stop(IF r = "null" THEN "ub_null" ELSE "ub_wild")

-----------------------------------------------------------------------------
(***************************************************************************)
(* eval_rexpr.  Contents of blocks are counted in words of four bytes; of  *)
(* a word only what it is a part of is kept.                               *)
(***************************************************************************)
Words(size) == [i \in 1..size |-> "value"]

Elements(size) == [i \in 1..size |-> "element"]

Bound(m, name, data) == add_stack_var(mem_block(m, "STACK", data), name, m.id_counter)

Value == (AtExpr("const") \/ AtExpr("var")) /\ UNCHANGED mem /\ Finish("value")

(* A return, or the condition or increment of a for, that is not there.    *)
Absent == AtExpr("missing") /\ Stop("ub_null")

(***************************************************************************)
(* Calls.  The callee's name is looked up as any name is, so that it may   *)
(* denote a variable; a function without a body has a block of type        *)
(* EXTERN.  The frame is pushed before the arguments are evaluated.  The   *)
(* activation counts in k the arguments that are bound, and comes to pc    *)
(* "eval", "bind" and "body".                                              *)
(***************************************************************************)
VaStart == "__builtin_va_start"

CallExpr ==
  /\ AtExpr("call")
  /\ IF OnStack(mem, act.e.name) \/ act.e.name \notin DOMAIN Funcs \cup {VaStart} THEN Stop("exit")
     ELSE /\ mem' = add_stack_frame(mem)
          /\ ctl' = Append(Front(ctl), [kind |-> "call", fn |-> act.e.name, e |-> act.e, k |-> 0,
                                        pc |-> "eval", save |-> curr_source, depth |-> act.depth])
          /\ UNCHANGED <<ret, curr_source>>

AllBound == act.k = Len(act.e.args)

NextArg == act.e.args[act.k + 1]

(* The next argument is bound.                                             *)
BindArg(name, data) ==
  /\ mem' = Bound(mem, name, data)
  /\ ctl' = [ctl EXCEPT ![Len(ctl)].k = @ + 1, ![Len(ctl)].pc = "eval"]
  /\ UNCHANGED <<ret, curr_source>>

CallArg == AtCall("eval") /\ act.fn # VaStart /\ ~AllBound /\ UNCHANGED mem /\ Evaluate(NextArg, "bind")

(* Faulty variant: no parameter has a name.                                *)
ParamName_none(f, k) == ""

(* Arguments behind the last parameter have no name.                       *)
ParamName(f, k) == IF k <= Len(Funcs[f].params) THEN Funcs[f].params[k] ELSE ""

CallBind ==
  /\ AtCall("bind")
  /\ IF ret # "value" THEN StopWithout(ret) ELSE BindArg(ParamName(act.fn, act.k + 1), Words(2))

CallBody ==
  /\ AtCall("eval") /\ act.fn # VaStart /\ AllBound
  /\ UNCHANGED mem
  /\ ctl' = Append(Moved("body"), Activation(Funcs[act.fn].body, mem))
  /\ ret' = "null"
  /\ curr_source' = Funcs[act.fn].source

(* Faulty variant: the file of the caller is not restored.                 *)
CallReturn_kept == AtCall("body") /\ FinishFrame(ret)

CallReturn ==
  /\ AtCall("body")
  /\ mem' = pop_stack_frame(mem)
  /\ ctl' = Front(ctl)
  /\ curr_source' = act.save
  /\ UNCHANGED ret

(***************************************************************************)
(* __builtin_va_start gets the stack positions of the variables its        *)
(* arguments name, each as an EmuStackPos in a block of its own, and       *)
(* stores the second into the variable at the first.                       *)
(***************************************************************************)
EMU_SIZE_STACKPOS == 3

(* Faulty variant: the outermost variable of the name.                     *)
StackPos_outer(name) == <<"STACKPOS">> \o Head(mem.stack_var_map[name])

StackPos(name) == <<"STACKPOS">> \o Last(mem.stack_var_map[name])

VaArg ==
  /\ AtCall("eval") /\ act.fn = VaStart /\ ~AllBound
  /\ IF NextArg.op # "var" \/ ~OnStack(mem, NextArg.name) THEN Stop("exit")
     ELSE BindArg("", StackPos(NextArg.name))

(* The contents of the block of the i-th variable of the call's frame.     *)
VaData(i) == mem.active_mem[Top(mem)[i].block].data

VaTarget == VarAt(mem, Tail(VaData(1))).block

emu_va_start ==
  /\ AtCall("eval") /\ act.fn = VaStart /\ AllBound
  /\ IF act.k < 2 \/ mem.active_mem[VaTarget].size < EMU_SIZE_STACKPOS THEN Stop("exit")
     ELSE /\ mem' = pop_stack_frame([mem EXCEPT !.active_mem[VaTarget].data =
                       VaData(2) \o SubSeq(@, EMU_SIZE_STACKPOS + 1, Len(@))])
          /\ Finish("value")

-----------------------------------------------------------------------------
(***************************************************************************)
(* exec_stmt.                                                              *)
(***************************************************************************)
CompoundEnter ==
  /\ At("compound", 0)
  /\ mem' = add_stack_frame(mem)
  /\ ctl' = Moved(1)
  /\ ret' = "null"
  /\ UNCHANGED curr_source

CompoundNext ==
  /\ AtKid("compound")
  /\ UNCHANGED mem
  /\ Run(stmt.kids[act.pc], act.pc + 1)

(* Faulty variant: a return or a break leaves the frame behind.            *)
CompoundLeave_early ==
  /\ AtEnd("compound")
  /\ IF ret = "null" THEN FinishFrame(ret) ELSE UNCHANGED mem /\ Finish(ret)

CompoundLeave ==
  /\ AtEnd("compound")
  /\ FinishFrame(ret)

(* exec_decl evaluates an initializer twice, casts the second value and    *)
(* deletes the first, which at pc 3 was BREAK_POINTER.  The value of an    *)
(* array is a pointer to a block that newarr makes for its elements, and   *)
(* for which there is no variable.                                         *)
newarr(m) == IF stmt.elems = 0 THEN m ELSE mem_block(m, "STACK", Elements(stmt.elems))

DeclInit ==
  /\ UNCHANGED mem
  /\ \/ At("decl", 0) /\ stmt.e.op # "missing" /\ Evaluate(stmt.e, 1)
     \/ At("decl", 1) /\ Evaluate(stmt.e, IF ret = "break" THEN 3 ELSE 2)

Decl ==
  /\ \/ At("decl", 0) /\ stmt.e.op = "missing"
     \/ Of("decl") /\ act.pc > 1
  /\ IF act.pc > 1 /\ ret # "value" THEN StopWithout(ret)
     ELSE IF act.pc = 3 THEN Stop("ub_wild")
     ELSE mem' = Bound(newarr(mem), stmt.name, Words(stmt.size)) /\ Finish("null")

(* The expression of an expression statement, a return or an if.           *)
EvalExpr == \E kind \in {"expr", "return", "if"} : At(kind, 0) /\ UNCHANGED mem /\ Evaluate(stmt.e, 1)

(* What an expression returns is dropped.                                  *)
Expr == At("expr", 1) /\ UNCHANGED mem /\ Finish("null")

(* A return statement passes on what a call returned.                      *)
Return == At("return", 1) /\ UNCHANGED mem /\ Finish(ret)

(* The kids of an if are the then branch and perhaps the else branch.      *)
If ==
  /\ At("if", 1)
  /\ IF ret # "value" THEN StopWithout(ret)
     ELSE /\ UNCHANGED mem
          /\ \/ Run(stmt.kids[1], 2)
             \/ IF Len(stmt.kids) = 1 THEN Finish("null") ELSE Run(stmt.kids[2], 2)

(* The kids of a for are the first statement and the body.                 *)
ForEnter == At("for", 0) /\ mem' = add_stack_frame(mem) /\ Run(stmt.kids[1], 1)

(* The first statement is a declaration or an expression: it returns null. *)
ForCond == At("for", 1) /\ UNCHANGED mem /\ Evaluate(stmt.e, 2)

ForTest ==
  /\ At("for", 2)
  /\ IF ret # "value" THEN StopWithout(ret)
     ELSE \/ FinishFrame("null")
          \/ /\ act.n < MaxIter
             /\ UNCHANGED mem
             /\ ctl' = Append([ctl EXCEPT ![Len(ctl)].pc = 3, ![Len(ctl)].n = @ + 1],
                              Activation(stmt.kids[2], mem))
             /\ ret' = "null"
             /\ UNCHANGED curr_source

(* Only a null result continues the loop: a break ends it and is returned. *)
ForBody ==
  /\ At("for", 3)
  /\ IF ret = "null" THEN UNCHANGED mem /\ Evaluate(stmt.inc, 1) ELSE FinishFrame(ret)

(***************************************************************************)
(* A switch runs its kids from the first case with the value v, or else    *)
(* from the default.  Only its direct kids are looked at.                  *)
(***************************************************************************)
CaseAt(v) == {k \in DOMAIN stmt.kids : Stmts[stmt.kids[k]].kind = "case" /\ Stmts[stmt.kids[k]].name = v}

DefaultAt == {k \in DOMAIN stmt.kids : Stmts[stmt.kids[k]].kind = "default"}

First(ks) == CHOOSE k \in ks : \A j \in ks : k <= j

SwitchEnter == At("switch", 0) /\ mem' = add_stack_frame(mem) /\ Evaluate(stmt.e, -1)

SwitchTest ==
  /\ At("switch", -1)
  /\ IF ret # "value" THEN StopWithout(ret)
     ELSE /\ \E v \in {Stmts[stmt.kids[k]].name : k \in DOMAIN stmt.kids} :
               ctl' = Moved(IF CaseAt(v) # {} THEN First(CaseAt(v))
                            ELSE IF DefaultAt # {} THEN First(DefaultAt) ELSE Len(stmt.kids) + 1)
          /\ ret' = "null"
          /\ UNCHANGED <<mem, curr_source>>

SwitchNext ==
  /\ AtKid("switch")
  /\ UNCHANGED mem
  /\ Run(stmt.kids[act.pc], act.pc + 1)

(* Faulty variant: only the last kid ends the switch.                      *)
SwitchLeave_last ==
  /\ Of("switch") /\ act.pc = Len(stmt.kids) + 1
  /\ FinishFrame(IF ret = "break" THEN "null" ELSE ret)

SwitchLeave ==
  /\ AtEnd("switch")
  /\ FinishFrame(IF ret = "break" THEN "null" ELSE ret)

Labelled == {"case", "default"}

SwitchCase == \E kind \in Labelled : At(kind, 0) /\ UNCHANGED mem /\ Run(stmt.kids[1], 1)

(* If and SwitchCase return what their statement returned.                 *)
PassOn ==
  /\ At("if", 2) \/ \E kind \in Labelled : At(kind, 1)
  /\ UNCHANGED mem
  /\ Finish(ret)

Break == At("break", 0) /\ UNCHANGED mem /\ Finish("break")

Null == At("null", 0) /\ UNCHANGED mem /\ Finish("null")

(* A for without a first statement executes a null pointer.                *)
MissingStmt == At("missing", 0) /\ Stop("ub_null")

(* while, do, goto and continue are not handled.                           *)
Unhandled == At("unhandled", 0) /\ Stop("exit")

-----------------------------------------------------------------------------
(***************************************************************************)
(* RunProgram pushes a frame, executes the body of main and casts what it  *)
(* returned, whatever that is, for do_exit.                                *)
(***************************************************************************)
ExecInit ==
  /\ mem = Start(<<>>)
  /\ ret = "null"
  /\ \E f \in Mains :
       /\ ctl = <<[kind |-> "run", fn |-> f, depth |-> 0], Activation(Funcs[f].body, mem)>>
       /\ curr_source = Funcs[f].source

RunEnd ==
  /\ mem.outcome = "run"
  /\ act.kind = "run"
  /\ IF ret = "value" THEN Stop("done") ELSE StopWithout(ret)

ExecNext ==
  \/ Value \/ Absent \/ CallExpr \/ CallArg \/ CallBind \/ CallBody \/ CallReturn
  \/ VaArg \/ emu_va_start
  \/ CompoundEnter \/ CompoundNext \/ CompoundLeave
  \/ DeclInit \/ Decl \/ EvalExpr \/ Expr \/ Return \/ If
  \/ ForEnter \/ ForCond \/ ForTest \/ ForBody
  \/ SwitchEnter \/ SwitchTest \/ SwitchNext \/ SwitchLeave \/ SwitchCase \/ PassOn
  \/ Break \/ Null \/ MissingStmt \/ Unhandled \/ RunEnd

(* The interpreter is one thread that never waits.                         *)
ExecSpec == ExecInit /\ [][ExecNext]_vars /\ WF_vars(ExecNext)

-----------------------------------------------------------------------------
(***************************************************************************)
(* Properties.                                                             *)
(***************************************************************************)

(* Type invariant: the memory state is well typed and the control stack    *)
(* ends in activations of known statements and functions.                  *)
ExecTypeOK ==
  /\ MemTypeOK(mem)
  /\ ret \in Results
  /\ ctl[1].kind = "run"
  /\ \A k \in 2..Len(ctl) :
       \/ ctl[k].kind = "stmt" /\ ctl[k].node \in DOMAIN Stmts
       \/ ctl[k].kind = "expr" /\ k = Len(ctl)
       \/ ctl[k].kind = "call" /\ ctl[k].k \in 0..Len(ctl[k].e.args)

(* However a statement or a call ends, by reaching its end, by a return or *)
(* a break from within, at any depth of loops, switches and calls, the     *)
(* stack of frames is as deep as when it began.                            *)
FramesRestored ==
  [][(Len(ctl') < Len(ctl)) => Len(mem'.stack_vars) = act.depth]_vars

(* While a function's statements run, curr_source is the function's file:  *)
(* calls set it and every return restores it.                              *)
IsRunning(c) == c.kind = "run" \/ (c.kind = "call" /\ c.pc = "body")

Running == ctl[SelectLastInSeq(ctl, IsRunning)]

SourceFollowsCalls == curr_source = Funcs[Running.fn].source

(* stack_var_map serves all active calls at once.  Still a name that a     *)
(* function declares itself never denotes a variable of one of its         *)
(* callers, and it denotes a variable of a function it is about to call    *)
(* only in an argument behind one bound to a parameter of the same name.   *)
ReadsOwn == mem.outcome = "run" /\ act.kind = "expr" /\ act.e.op = "var" /\ act.e.own

FoundLevel == Last(mem.stack_var_map[act.e.name])[1]

(* The calls whose arguments the running function is evaluating.           *)
Pending == {c \in Range(ctl) : c.kind = "call" /\ c.pc # "body" /\ c.depth >= Running.depth}

NamesBound(c) == {ParamName(c.fn, j) : j \in 1..c.k}

OwnNamesStayLocal ==
  ReadsOwn =>
    /\ OnStack(mem, act.e.name)
    /\ FoundLevel >= Running.depth
    /\ \A c \in Pending : FoundLevel >= c.depth => \E d \in Pending : act.e.name \in NamesBound(d)

(* What va_start stores is a position, not a block.  While the va_list is  *)
(* in scope that position is the one of a named variable of the same call, *)
(* however many frames have come and gone in between.                      *)
VaListsStayInCall ==
  mem.outcome = "run" => \A p \in Positions(mem) :
    LET v == VarAt(mem, p)
        d == mem.active_mem[v.block].data
    IN (v.name # "" /\ d # Words(Len(d))) =>
         /\ <<d[2], d[3]>> \in Positions(mem)
         /\ VarAt(mem, <<d[2], d[3]>>).name # ""
         /\ \A k \in DOMAIN ctl : ctl[k].kind = "call" => (ctl[k].depth <= d[2] <=> ctl[k].depth <= p[1])

(* When main has returned, the block of every parameter and local variable *)
(* of the run has expired: no path through the statements forgets one.     *)
(* Only the elements of local arrays stay, which no frame knows of.        *)
LocalsExpire ==
  mem.outcome = "done" =>
    \A b \in DOMAIN mem.active_mem :
      mem.active_mem[b].memtype = "STACK" => mem.active_mem[b].data = Elements(mem.active_mem[b].size)

(* A program whose loops end is executed to an end: exec_stmt is never     *)
(* without a next step, whatever the conditions were.                      *)
Terminates == <>(mem.outcome # "run")

-----------------------------------------------------------------------------
(***************************************************************************)
(* What the repository says of execution, as a property the code violates. *)
(***************************************************************************)

(* "null if it just ended with no return call": a function that ran no     *)
(* return statement gives null.  A break that ends a for loop is passed on *)
(* through every enclosing statement and ends the function.                *)
BreakEndsOnlyItsLoop ==
  [][AtCall("body") => ret # "break"]_vars
=============================================================================
