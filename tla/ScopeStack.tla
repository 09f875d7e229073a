----------------------------- MODULE ScopeStack -----------------------------
(***************************************************************************)
(* What the stack of frames promises to the evaluator: block scopes.  An   *)
(* environment gives every name the block it denotes, or None.  A scope    *)
(* starts with the bindings of the scope around it, a declaration rebinds  *)
(* one name in the innermost scope, to a block no visible name denotes,    *)
(* and leaving the scope restores every binding that was visible before.   *)
(***************************************************************************)
EXTENDS Integers, Sequences

CONSTANTS
  Names,   (* the names that can be declared          *)
  Blocks,  (* the blocks a name can denote            *)
  None     (* what a name denotes that is not in scope *)

VARIABLE envs  (* the environments of the open scopes, innermost last *)

Innermost == envs[Len(envs)]

Init == envs = <<[n \in Names |-> None]>>

Enter == envs' = Append(envs, Innermost)

Bind(n, b) ==
  /\ \A k \in DOMAIN envs : \A o \in Names : envs[k][o] # b
  /\ envs' = [envs EXCEPT ![Len(envs)][n] = b]

Leave ==
  /\ Len(envs) > 1
  /\ envs' = SubSeq(envs, 1, Len(envs) - 1)

Next == Enter \/ Leave \/ \E n \in Names, b \in Blocks \ {None} : Bind(n, b)

Spec == Init /\ [][Next]_envs

=============================================================================
