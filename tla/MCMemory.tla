------------------------------ MODULE MCMemory ------------------------------
(***************************************************************************)
(* Memory on a small instance: one name and the empty one, an id space of  *)
(* four blocks in which the counter wraps, four frames.                    *)
(***************************************************************************)
EXTENDS Memory

CONSTANT x

MCNames == {x, ""}
=============================================================================
