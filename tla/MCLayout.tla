------------------------------ MODULE MCLayout ------------------------------
(***************************************************************************)
(* Layout on small types: numbers of one and four bytes, pointers, arrays  *)
(* around the size of a pointer, and structs and unions of one or two of   *)
(* these, nested once.                                                     *)
(***************************************************************************)
EXTENDS Layout

char == NumType(1)
int == NumType(4)
Scalars == {char, int, PtrType}
Arrays == {ArrayType(1, int), ArrayType(2, char), ArrayType(2, int), ArrayType(3, int), ArrayType(2, PtrType)}
Fields == Scalars \cup {ArrayType(1, int), ArrayType(2, int), StructType(<<int>>), UnionType(<<int, char>>)}
Structs == {StructType(<<f>>) : f \in Fields} \cup {StructType(<<f, g>>) : f, g \in Fields}
Unions == {UnionType(<<f, g>>) : f, g \in Scalars}

MCCTypes ==
  Scalars \cup Arrays \cup Structs \cup Unions
    \cup {ArrayType(2, t) : t \in {StructType(<<char, int>>), StructType(<<int, char>>), ArrayType(2, int)}}

MCGarbage == {0, 205}
=============================================================================
