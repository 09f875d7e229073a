------------------------------- MODULE MCExec -------------------------------
(***************************************************************************)
(* Exec on small syntax trees.  main: nested blocks with shadowing, a loop *)
(* with a return inside, a switch with a break inside a nested block, and  *)
(* calls into another file in a declaration, an argument and a return.     *)
(* main_odd: a call in a condition, a break that ends a function, calls    *)
(* that return nothing, statements without their parts, faulty uses of     *)
(* va_start.                                                               *)
(***************************************************************************)
EXTENDS Exec

Expression(op, name, own, args) == [op |-> op, name |-> name, own |-> own, args |-> args]
NoExpr == Expression("missing", "", FALSE, <<>>)
Const == Expression("const", "", FALSE, <<>>)
Own(name) == Expression("var", name, TRUE, <<>>)
Shared(name) == Expression("var", name, FALSE, <<>>)
CallOf(f, args) == Expression("call", f, FALSE, args)

(* An int has two words, the tag and the number; a va_list is an array of  *)
(* one struct of thirteen words, and its variable a pointer of four.       *)
Node(kind, kids, name, e) ==
  [kind |-> kind, kids |-> kids, name |-> name, e |-> e, inc |-> e,
   size |-> IF name = "ap" THEN 4 ELSE 2, elems |-> IF name = "ap" THEN 13 ELSE 0]
Block(kids) == Node("compound", kids, "", NoExpr)
DeclOf(name, e) == Node("decl", <<>>, name, e)
ExprOf(e) == Node("expr", <<>>, "", e)
ReturnOf(e) == Node("return", <<>>, "", e)
IfOf(e, kids) == Node("if", kids, "", e)

MCStmts == [
  use_x       |-> ExprOf(Own("x")),
  use_s       |-> ExprOf(Shared("s")),
  decl_x      |-> DeclOf("x", NoExpr),
  decl_y      |-> DeclOf("y", CallOf("f", <<Own("x")>>)),
  decl_z      |-> DeclOf("y", CallOf("loop", <<>>)),
  decl_ap     |-> DeclOf("ap", NoExpr),
  ret         |-> ReturnOf(Const),
  ret_x       |-> ReturnOf(Own("x")),
  ret_g       |-> ReturnOf(CallOf("g", <<Own("y"), CallOf("id", <<Own("x")>>), Const>>)),
  ret_void    |-> ReturnOf(NoExpr),
  call_swap   |-> ExprOf(CallOf("g", <<Own("y"), Own("x")>>)),
  call_z      |-> ExprOf(CallOf("id", <<CallOf("loop", <<>>)>>)),
  call_loop   |-> ExprOf(CallOf("loop", <<>>)),
  call_extern |-> ExprOf(CallOf("puts", <<Own("x")>>)),
  call_var    |-> ExprOf(CallOf("x", <<>>)),
  start       |-> ExprOf(CallOf(VaStart, <<Own("ap"), Own("x")>>)),
  start_int   |-> ExprOf(CallOf(VaStart, <<Own("x"), Own("x")>>)),
  start_few   |-> ExprOf(CallOf(VaStart, <<Own("ap")>>)),
  start_const |-> ExprOf(CallOf(VaStart, <<Own("ap"), Const>>)),
  brk         |-> Node("break", <<>>, "", NoExpr),
  none        |-> Node("null", <<>>, "", NoExpr),
  missing     |-> Node("missing", <<>>, "", NoExpr),
  goto        |-> Node("unhandled", <<>>, "", NoExpr),
  inner       |-> Block(<<"decl_x", "use_x", "if_brk">>),
  if_brk      |-> IfOf(Own("x"), <<"brk">>),
  if_ret      |-> IfOf(Own("x"), <<"ret", "none">>),
  if_loop     |-> IfOf(CallOf("loop", <<>>), <<"ret">>),
  case_1      |-> Node("case", <<"inner">>, "1", NoExpr),
  case_2      |-> Node("case", <<"use_x">>, "2", NoExpr),
  other       |-> Node("default", <<"if_ret">>, "3", NoExpr),
  switch      |-> Node("switch", <<"case_1", "case_2", "other", "brk">>, "", Own("x")),
  switch_loop |-> Node("switch", <<"case_2">>, "", CallOf("loop", <<>>)),
  loop_body   |-> Block(<<"decl_x", "switch", "if_ret">>),
  for         |-> Node("for", <<"decl_x", "loop_body">>, "", Own("x")),
  for_brk     |-> Node("for", <<"decl_x", "if_brk">>, "", Own("x")),
  for_loop    |-> Node("for", <<"use_x", "none">>, "", CallOf("loop", <<>>)),
  for_ever    |-> Node("for", <<"missing", "none">>, "", NoExpr),
  f_body      |-> Block(<<"use_x", "use_s", "for", "ret_x">>),
  id_body     |-> Block(<<"ret_x">>),
  g_body      |-> Block(<<"decl_ap", "start", "inner", "ret_x">>),
  loop_body2  |-> Block(<<"decl_x", "for_brk", "if_ret">>),
  main_body   |-> Block(<<"decl_x", "decl_y", "call_swap", "ret_g">>),
  any_1       |-> Node("case", <<"if_loop">>, "1", NoExpr),
  any_2       |-> Node("case", <<"decl_z">>, "2", NoExpr),
  any_3       |-> Node("case", <<"call_z">>, "3", NoExpr),
  any_4       |-> Node("case", <<"ret_void">>, "4", NoExpr),
  any_5       |-> Node("case", <<"call_extern">>, "5", NoExpr),
  any_6       |-> Node("case", <<"goto">>, "6", NoExpr),
  any_7       |-> Node("case", <<"for_ever">>, "7", NoExpr),
  any_8       |-> Node("case", <<"call_var">>, "8", NoExpr),
  any_9       |-> Node("case", <<"start_int">>, "9", NoExpr),
  any_10      |-> Node("case", <<"start_few">>, "10", NoExpr),
  any_11      |-> Node("case", <<"start_const">>, "11", NoExpr),
  any_12      |-> Node("case", <<"for_loop">>, "12", NoExpr),
  any_13      |-> Node("case", <<"switch_loop">>, "13", NoExpr),
  any         |-> Node("switch", <<"any_1", "brk", "any_2", "brk", "any_3", "brk", "any_4", "any_5",
                                   "any_6", "any_7", "any_8", "any_9", "any_10", "any_11",
                                   "any_12", "brk", "any_13">>, "", Own("x")),
  odd_body    |-> Block(<<"decl_x", "decl_ap", "any", "ret">>),
  brk_body    |-> Block(<<"call_loop", "ret">>),
  end_body    |-> Block(<<"decl_x", "use_x">>)]

MCFuncs == [
  f         |-> [body |-> "f_body", params |-> <<"x">>, source |-> 2],
  g         |-> [body |-> "g_body", params |-> <<"x", "y">>, source |-> 2],
  id        |-> [body |-> "id_body", params |-> <<"x">>, source |-> 1],
  loop      |-> [body |-> "loop_body2", params |-> <<>>, source |-> 1],
  main      |-> [body |-> "main_body", params |-> <<>>, source |-> 1],
  main_odd  |-> [body |-> "odd_body", params |-> <<>>, source |-> 1],
  main_brk  |-> [body |-> "brk_body", params |-> <<>>, source |-> 1],
  main_end  |-> [body |-> "end_body", params |-> <<>>, source |-> 1]]

Parts(es) == UNION {Range(e.args) : e \in es}

MCExprs ==
  LET whole == {MCStmts[s].e : s \in DOMAIN MCStmts}
  IN whole \cup Parts(whole) \cup Parts(Parts(whole))

MCNames == {"", "x", "y", "ap"}
=============================================================================
