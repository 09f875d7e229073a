----------------------------- MODULE MCPointers -----------------------------
(***************************************************************************)
(* Pointers on a small instance: one global, one local name, and enough    *)
(* ids for the longest calls before the counter wraps.                     *)
(***************************************************************************)
EXTENDS Pointers

CONSTANTS g, p

MCNames == {g, p, ""}
MCGlobalVars == <<g>>
=============================================================================
