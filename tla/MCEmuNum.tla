------------------------------ MODULE MCEmuNum ------------------------------
(***************************************************************************)
(* EmuNum with bytes of two bits: an int and a long have four bits, a long *)
(* long eight.  The ratios are those of the code.                          *)
(***************************************************************************)
EXTENDS EmuNum

CONSTANTS i, j, ch, ci

MCBits ==
  [n \in num_type_t |->
     CASE n = "BOOL" -> 1
       [] n \in {"CHAR", "UCHAR"} -> 2
       [] n \in {"SHORT", "USHORT"} -> 2
       [] n \in {"INT", "UINT", "LONG", "ULONG"} -> 4
       [] n \in {"LONGLONG", "ULONGLONG"} -> 8]

(* Two ints.                                                               *)
IntVars == {i, j}
IntTypes == [x \in IntVars |-> "INT"]

(* An int and two chars.                                                   *)
MixedVars == {i, ch, ci}
MixedTypes == [x \in MixedVars |-> IF x = i THEN "INT" ELSE "CHAR"]

Sample == {0, 1, 7}
MixedSample == {0, 7}

Host == {0, 9}
=============================================================================
