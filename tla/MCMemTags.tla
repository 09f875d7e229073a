------------------------------ MODULE MCMemTags ------------------------------
(***************************************************************************)
(* Memory tags on a small instance: two types, the larger of which can be  *)
(* cut in two, and a block with room for enough tags to make the tree      *)
(* rotate below its root.                                                  *)
(***************************************************************************)
EXTENDS MemTags, TLC

CONSTANTS small, large

MCTypes == {small, large}
MCSizeOf == (small :> 1 @@ large :> 2)
MCMaxTags == [ascending |-> 6, tidy |-> 6, any |-> 3]
=============================================================================
