------------------------------- MODULE EmuNum -------------------------------
(***************************************************************************)
(* Emulated integers (types.h, types.cpp, cast.cpp and the arithmetic part *)
(* of eval.cpp): how an EmuNum is stored behind a type tag, loaded back,   *)
(* cast, compared and computed with, and what becomes of its status.       *)
(*                                                                         *)
(* Each action is one statement of an emulated program over a fixed set of *)
(* integer variables.  The widths are constants: the code's are 1, 8, 16,  *)
(* 32, 32 and 64 bits in bytes of 8, and 4 bytes of tag.                   *)
(*                                                                         *)
(* An EmuNum built from a status alone has an APInt that was never set.    *)
(* Its value is host garbage: the parameter g of the statement.            *)
(***************************************************************************)
EXTENDS Integers, Sequences

CONSTANTS
  Vars,              (* the integer variables of the emulated program       *)
  TypeOf,            (* the declared num_type_t of each variable            *)
  bits_in_num_type,  (* the width of each num_type_t                        *)
  ByteBits,          (* the bits of a byte                                  *)
  TagBytes,          (* the bytes of a tag                                  *)
  Literals,          (* the integer literals of the program                 *)
  Garbage            (* the values an APInt that was never set may have     *)

SignedTypes == {"CHAR", "SHORT", "INT", "LONG", "LONGLONG"}

num_type_t == SignedTypes \cup {"BOOL", "UCHAR", "USHORT", "UINT", "ULONG", "ULONGLONG"}

ASSUME WidthsAssumption ==
  /\ bits_in_num_type \in [num_type_t -> Nat \ {0}]
  /\ TypeOf \in [Vars -> num_type_t]
  /\ ByteBits \in Nat \ {0}
  /\ TagBytes \in Nat
  /\ Literals \subseteq 0 .. (2 ^ (bits_in_num_type["INT"] - 1) - 1)
  /\ Garbage \subseteq Nat

VARIABLES
  store,    (* for each variable, its block: a tag and the bytes after it   *)
  outcome,  (* "run", or "exit" after a reported error                      *)
  meant     (* auxiliary: the value C defines for the variable, if any      *)

vars == <<store, outcome, meant>>

-----------------------------------------------------------------------------
(***************************************************************************)
(* The tables of types.h.                                                  *)
(***************************************************************************)
Base == 2 ^ ByteBits
Modulus(t) == 2 ^ bits_in_num_type[t]
Half(t) == 2 ^ (bits_in_num_type[t] - 1)

bytes_in_num_type(t) == (bits_in_num_type[t] + ByteBits - 1) \div ByteBits

is_num_type_signed(t) == t \in SignedTypes

(* Signed and unsigned types share an id.                                  *)
id_from_num_type(t) ==
  CASE t = "BOOL" -> "BOOL_ID"
    [] t \in {"CHAR", "UCHAR"} -> "CHAR_ID"
    [] t \in {"SHORT", "USHORT"} -> "SHORT_ID"
    [] t \in {"INT", "UINT"} -> "INT_ID"
    [] t \in {"LONG", "ULONG"} -> "LONG_ID"
    [] t \in {"LONGLONG", "ULONGLONG"} -> "LONGLONG_ID"

Tag(id) == [id |-> id, uninit |-> FALSE]
UninitTag(t) == [id |-> id_from_num_type(t), uninit |-> TRUE]
ZeroTag == Tag("ZERO_ID")

(***************************************************************************)
(* The constructors.  val is the unsigned value of the APInt.              *)
(***************************************************************************)
Num(t, v) ==
  [type |-> t, status |-> "DEFINED", tag |-> Tag(id_from_num_type(t)), val |-> v % Modulus(t)]

NumStatus(t, s, g) ==
  [type |-> t, status |-> s, tag |-> Tag(id_from_num_type(t)), val |-> g]

(* The value of big-endian bytes; the first of fewer bits is masked.       *)
BytesValue(t, bytes) ==
  LET n == bytes_in_num_type(t)
      f[k \in 0..n] == IF k = 0 THEN 0 ELSE Base * f[k - 1] + bytes[k]
  IN f[n] % Modulus(t)

(* The constructor from memory.  Whatever the type, the tag is compared    *)
(* with the tag of an int.                                                 *)
EmuNum(t, tag, bytes) ==
  LET v == BytesValue(t, bytes)
  IN [type |-> t, tag |-> tag, val |-> v,
      status |-> CASE tag = UninitTag("INT") -> "UNINITIALIZED"
                   [] tag = Tag("INT_ID") \/ (tag = ZeroTag /\ v = 0) -> "DEFINED"
                   [] OTHER -> "UNDEFINED"]

(* Faulty variant: the higher bytes are not masked away.                   *)
ByteOf_unmasked(v, k, n) == v \div 2 ^ (ByteBits * (n - k))

(* The k-th of n big-endian bytes of v: v is shifted right once for each   *)
(* byte behind it.                                                         *)
ByteOf(v, k, n) == (v \div 2 ^ (ByteBits * (n - k))) % Base

(* Faulty variant: the tag of the type in place of the tag that was read.  *)
dump_repr_retagged(v) ==
  LET n == bytes_in_num_type(v.type)
  IN IF v.status = "UNINITIALIZED"
     THEN [tag |-> UninitTag(v.type), bytes |-> [k \in 1..n |-> 1]]
     ELSE [tag |-> Tag(id_from_num_type(v.type)), bytes |-> [k \in 1..n |-> ByteOf(v.val, k, n)]]

(* Uninitialized numbers are filled with the low byte of INVALID_ID.       *)
dump_repr(v) ==
  LET n == bytes_in_num_type(v.type)
  IN IF v.status = "UNINITIALIZED"
     THEN [tag |-> UninitTag(v.type), bytes |-> [k \in 1..n |-> 1]]
     ELSE [tag |-> v.tag, bytes |-> [k \in 1..n |-> ByteOf(v.val, k, n)]]

(* Faulty variant: the tag of the operand is kept.                         *)
cast_to_tagged(v, t, g) == [Num(t, v.val) EXCEPT !.tag = v.tag]

(* The status is not looked at, and the value is not sign-extended.        *)
cast_to(v, t, g) ==
  IF is_num_type_signed(v.type) /\ ~is_num_type_signed(t)
  THEN NumStatus(t, "UNDEFINED", g)
  ELSE Num(t, v.val)

-----------------------------------------------------------------------------
(***************************************************************************)
(* Arithmetic.  get_gen_kind insists on operands of one type.              *)
(***************************************************************************)
ToSigned(v, half) == IF v >= half THEN v - 2 * half ELSE v

(* Division that truncates, as APInt::sdiv does.                           *)
Quotient(a, b) ==
  LET mag(x) == IF x < 0 THEN -x ELSE x
      q == mag(a) \div mag(b)
  IN IF (a < 0) = (b < 0) THEN q ELSE -q

Bit(v, k) == (v \div 2 ^ k) % 2

(* The number with the given bits, from the lowest.                        *)
FromBits(n, bit) ==
  LET f[k \in 0..n] == IF k = 0 THEN 0 ELSE f[k - 1] + 2 ^ (k - 1) * bit[k - 1]
  IN f[n]

_and(a, b, n) == FromBits(n, [k \in 0..(n - 1) |-> Bit(a, k) * Bit(b, k)])

_or(a, b, n) ==
  FromBits(n, [k \in 0..(n - 1) |-> IF Bit(a, k) + Bit(b, k) > 0 THEN 1 ELSE 0])

Ops == {"add", "sub", "mul", "div", "or", "and"}

Result(op, t, a, b) ==
  CASE op = "add" -> a + b
    [] op = "sub" -> a - b
    [] op = "mul" -> a * b
    [] op = "or" -> _or(a, b, bits_in_num_type[t])
    [] op = "and" -> _and(a, b, bits_in_num_type[t])
    [] op = "div" -> IF is_num_type_signed(t)
                     THEN Quotient(ToSigned(a, Half(t)), ToSigned(b, Half(t)))
                     ELSE a \div b

Arith(op, a, b, g) ==
  LET s == {a.status, b.status}
  IN CASE "UNDEFINED" \in s -> NumStatus(a.type, "UNDEFINED", g)
       [] "UNDEFINED" \notin s /\ "UNINITIALIZED" \in s -> NumStatus(a.type, "UNINITIALIZED", g)
       [] s = {"DEFINED"} -> IF op = "div" /\ b.val = 0 THEN NumStatus(a.type, "UNDEFINED", g)
                             ELSE Num(a.type, Result(op, a.type, a.val, b.val))

lnot(a, g) ==
  IF a.status # "DEFINED" THEN NumStatus(a.type, a.status, g)
  ELSE Num(a.type, IF a.val = 0 THEN 1 ELSE 0)

neg(a, g) ==
  IF a.status # "DEFINED" THEN NumStatus(a.type, a.status, g) ELSE Num(a.type, -a.val)

(***************************************************************************)
(* Comparisons of ints, by the signs of the operands: half is the first    *)
(* value with the sign bit.                                                *)
(***************************************************************************)
Relations == {"LT", "GT", "LE", "GE", "EQ", "NE"}

Holds(op, a, b) ==
  CASE op = "LT" -> a < b [] op = "GT" -> a > b
    [] op = "LE" -> a <= b [] op = "GE" -> a >= b
    [] op = "EQ" -> a = b [] op = "NE" -> a # b

isNegative(v, half) == v >= half

(* Faulty variant: the case of a negative right operand is left out.       *)
Compare_unsigned(op, l, r, half) ==
  IF isNegative(l, half) THEN Holds(op, ToSigned(l, half), ToSigned(r, half))
  ELSE Holds(op, l, r)

Compare(op, l, r, half) ==
  IF isNegative(l, half) THEN Holds(op, ToSigned(l, half), ToSigned(r, half))
  ELSE IF isNegative(r, half) THEN op \in {"GT", "GE", "NE"}
  ELSE Holds(op, l, r)

-----------------------------------------------------------------------------
(***************************************************************************)
(* What C defines: the set of the one value, or the empty set where it     *)
(* defines nothing (uninitialized data, a result out of range, division by *)
(* zero).                                                                  *)
(***************************************************************************)
InRange(v, t) ==
  IF is_num_type_signed(t) THEN v \in (-Half(t)) .. (Half(t) - 1) ELSE v \in 0 .. (Modulus(t) - 1)

MeantAs(vs, t) == {v \in vs : InRange(v, t)}

MeantResult(op, t, as, bs) ==
  MeantAs(
    {CASE op = "add" -> p[1] + p[2]
       [] op = "sub" -> p[1] - p[2]
       [] op = "mul" -> p[1] * p[2]
       [] op = "div" -> Quotient(p[1], p[2])
       [] op \in {"or", "and"} ->
            ToSigned(Result(op, t, p[1] % Modulus(t), p[2] % Modulus(t)), Half(t))
     : p \in as \X (IF op = "div" THEN bs \ {0} ELSE bs)}, t)

-----------------------------------------------------------------------------
(***************************************************************************)
(* Loads, stores and the statements.                                       *)
(***************************************************************************)

(* The rvalue of a variable.                                               *)
Load(x) == EmuNum(TypeOf[x], store[x].tag, store[x].bytes)

(* from_lvalue at the block of y with type t: the bound does not count the *)
(* tag, so that the last bytes may lie behind the block.                   *)
Readable(y, t) == TagBytes + bytes_in_num_type(TypeOf[y]) >= bytes_in_num_type(t)

LoadAs(y, t, g) ==
  LET n == bytes_in_num_type(t)
  IN EmuNum(t, store[y].tag,
            [k \in 1..n |-> IF k <= Len(store[y].bytes) THEN store[y].bytes[k] ELSE ByteOf(g, k, n)])

(* The tree that Clang builds for x = e; casts e to the type of x if it    *)
(* has another; BO_Assign then casts once more, and writes.                *)
Converted(v, t, g) == IF v.type = t THEN v ELSE cast_to(v, t, g)

Assign(x, v, m, g) ==
  /\ store' = [store EXCEPT ![x] = dump_repr(cast_to(Converted(v, TypeOf[x], g), TypeOf[x], g))]
  /\ meant' = [meant EXCEPT ![x] = MeantAs(m, TypeOf[x])]
  /\ UNCHANGED outcome

Exit == outcome' = "exit" /\ UNCHANGED <<store, meant>>

Running == outcome = "run"

(* T x;                                                                    *)
DeclUninit(x) ==
  /\ Running
  /\ store' = [store EXCEPT ![x] = dump_repr(NumStatus(TypeOf[x], "UNINITIALIZED", 0))]
  /\ meant' = [meant EXCEPT ![x] = {}]
  /\ UNCHANGED outcome

(* x = n;                                                                  *)
AssignLit(x, n, g) == Running /\ Assign(x, Num("INT", n), {n}, g)

(* x = y;                                                                  *)
AssignVar(x, y, g) == Running /\ Assign(x, Load(y), meant[y], g)

(* The types that the promotions of C leave alone.                         *)
Promoted(t) == t \in {"INT", "UINT", "LONG", "ULONG", "LONGLONG", "ULONGLONG"}

(* x = -y;                                                                 *)
AssignNeg(x, y, g) ==
  /\ Running
  /\ Promoted(TypeOf[y])
  /\ Assign(x, neg(Load(y), g), MeantAs({-v : v \in meant[y]}, TypeOf[y]), g)

(* x = !y;  C gives the result type int, the interpreter that of y.        *)
AssignLNot(x, y, g) ==
  /\ Running
  /\ Promoted(TypeOf[y])
  /\ Assign(x, lnot(Load(y), g), {IF v = 0 THEN 1 ELSE 0 : v \in meant[y]}, g)

(* x = y op z;                                                             *)
AssignOp(x, op, y, z, g) ==
  /\ Running
  /\ Promoted(TypeOf[y]) /\ TypeOf[y] = TypeOf[z]
  /\ Assign(x, Arith(op, Load(y), Load(z), g), MeantResult(op, TypeOf[y], meant[y], meant[z]), g)

(* x = y op z;  for a comparison.  Only ints can be compared.              *)
AssignCompare(x, op, y, z, g) ==
  /\ Running
  /\ Promoted(TypeOf[y]) /\ TypeOf[y] = TypeOf[z]
  /\ IF TypeOf[y] # "INT" THEN Exit
     ELSE Assign(x, Num("INT", IF Compare(op, Load(y).val, Load(z).val, Half("INT")) THEN 1 ELSE 0),
                 {IF Holds(op, p[1], p[2]) THEN 1 ELSE 0 : p \in meant[y] \X meant[z]}, g)

(* x += y; and x -= y;  The result is written without a cast.              *)
AddAssign(x, op, y, g) ==
  /\ Running
  /\ op \in {"add", "sub"}
  /\ IF TypeOf[x] # "INT" \/ TypeOf[y] # "INT" THEN Exit
     ELSE /\ store' = [store EXCEPT ![x] = dump_repr(Arith(op, Load(x), Load(y), g))]
          /\ meant' = [meant EXCEPT ![x] = MeantResult(op, "INT", meant[x], meant[y])]
          /\ UNCHANGED outcome

(* A call passes y to a parameter x of the same type: no cast.             *)
PassArg(x, y) ==
  /\ Running
  /\ TypeOf[x] = TypeOf[y]
  /\ store' = [store EXCEPT ![x] = dump_repr(Load(y))]
  /\ meant' = [meant EXCEPT ![x] = meant[y]]
  /\ UNCHANGED outcome

(* x = p[0];  where p is the address of y cast to a pointer to x's type.   *)
Reinterpret(x, y, g) ==
  /\ Running
  /\ TypeOf[x] # TypeOf[y]
  /\ IF Readable(y, TypeOf[x]) THEN Assign(x, LoadAs(y, TypeOf[x], g), {}, g) ELSE Exit

-----------------------------------------------------------------------------
(* A variable starts as a global without initializer, in host memory that  *)
(* happens to be zero, or as an uninitialized local.                       *)
Init ==
  /\ outcome = "run"
  /\ \E globals \in SUBSET Vars :
       /\ store = [x \in Vars |->
                     IF x \in globals
                     THEN [tag |-> ZeroTag, bytes |-> [k \in 1..bytes_in_num_type(TypeOf[x]) |-> 0]]
                     ELSE dump_repr(NumStatus(TypeOf[x], "UNINITIALIZED", 0))]
       /\ meant = [x \in Vars |-> IF x \in globals THEN {0} ELSE {}]

Next ==
  \E x, y \in Vars, g \in Garbage :
    \/ DeclUninit(x)
    \/ \E n \in Literals : AssignLit(x, n, g)
    \/ AssignVar(x, y, g)
    \/ AssignNeg(x, y, g)
    \/ AssignLNot(x, y, g)
    \/ \E z \in Vars, op \in Ops : AssignOp(x, op, y, z, g)
    \/ \E z \in Vars, op \in Relations : AssignCompare(x, op, y, z, g)
    \/ \E op \in {"add", "sub"} : AddAssign(x, op, y, g)
    \/ PassArg(x, y)
    \/ Reinterpret(x, y, g)

Spec == Init /\ [][Next]_vars

-----------------------------------------------------------------------------
(***************************************************************************)
(* Properties.                                                             *)
(***************************************************************************)
Tags == [id : {"ZERO_ID", "BOOL_ID", "CHAR_ID", "SHORT_ID", "INT_ID", "LONG_ID", "LONGLONG_ID"},
         uninit : BOOLEAN]

(* Type invariant: a block holds a tag and the bytes of its type.          *)
TypeOK ==
  /\ outcome \in {"run", "exit"}
  /\ \A x \in Vars :
       /\ store[x].tag \in Tags
       /\ store[x].bytes \in [1..bytes_in_num_type(TypeOf[x]) -> 0 .. (Base - 1)]
       /\ \A v \in meant[x] : InRange(v, TypeOf[x])

(* As long as C defines the value of an int, the bytes that assignments,   *)
(* arithmetic, comparisons and calls have left in its block are that value *)
(* in two's complement, big-endian, under a tag with which it is never     *)
(* taken for undefined.  In the instance every variable is an int: the     *)
(* other types do not keep their values.                                   *)
ValuesMatchC ==
  \A x \in Vars : \A v \in meant[x] :
    Load(x).val = v % Modulus(TypeOf[x]) /\ Load(x).status = "DEFINED"

(* A parameter is what was passed: loading y, dumping the value without a  *)
(* cast and loading the parameter gives the same status, tag and value,    *)
(* also when y is uninitialized or was never an int.                       *)
ArgsKeepRepresentation ==
  [][\A x, y \in Vars : (x # y /\ PassArg(x, y)) => Load(x)' = Load(y)]_vars

(* The tag in a block is the tag of the declared type, or the zero tag of  *)
(* memory never written: neither casts, nor loads through a pointer of     *)
(* another type, nor calls ever put a foreign tag into a variable.         *)
TagsAreTruthful ==
  \A x \in Vars : store[x].tag.id \in {id_from_num_type(TypeOf[x]), "ZERO_ID"}

-----------------------------------------------------------------------------
(***************************************************************************)
(* What the Readme says of the type subsystem, as a property the code      *)
(* violates.                                                               *)
(***************************************************************************)

(* "propagates the undefined status through performed operations": the     *)
(* result of an operation on a value that is not defined is not defined.   *)
(* cast_to drops the status, and an undefined int is stored with the tag   *)
(* of a defined one.                                                       *)
UndefinedPropagates ==
  [][\A x, y, z \in Vars, op \in Ops, g \in Garbage :
       (AssignOp(x, op, y, z, g) /\ {Load(y).status, Load(z).status} # {"DEFINED"})
         => Load(x)'.status # "DEFINED"]_vars

=============================================================================
