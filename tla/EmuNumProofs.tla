---------------------------- MODULE EmuNumProofs ----------------------------
(***************************************************************************)
(* Proofs about EmuNum for every width of the types, every set of          *)
(* variables and every content of host memory.                             *)
(***************************************************************************)
EXTENDS EmuNum, NumberFacts

(* The comparisons of eval.cpp, which go by the signs of their operands    *)
(* and read a relation with a negative right operand off a table, are the  *)
(* relations on the signed values, for every width.                        *)
THEOREM CompareIsSigned ==
  ASSUME NEW half \in Nat \ {0}, NEW l \in 0 .. (2 * half - 1), NEW r \in 0 .. (2 * half - 1),
         NEW op \in Relations
  PROVE  Compare(op, l, r, half) <=> Holds(op, ToSigned(l, half), ToSigned(r, half))
  <1>1. CASE l >= half
    BY <1>1 DEF Compare, isNegative
  <1>2. CASE l < half /\ r >= half
    <2>1. ToSigned(l, half) = l /\ ToSigned(r, half) = r - 2 * half
      BY <1>2 DEF ToSigned
    <2>2. r - 2 * half < l /\ r - 2 * half \in Int /\ l \in Int
      BY <1>2
    <2>3. Compare(op, l, r, half) <=> op \in {"GT", "GE", "NE"}
      BY <1>2 DEF Compare, isNegative
    <2> DEFINE a == r - 2 * half
    <2> HIDE DEF a
    <2>4. a < l /\ a \in Int /\ l \in Int
      BY <2>2 DEF a
    <2>5. Holds(op, l, a) <=> op \in {"GT", "GE", "NE"}
      <3>1. CASE op = "LT"
        BY <2>4, <3>1 DEF Holds
      <3>2. CASE op = "GT"
        BY <2>4, <3>2 DEF Holds
      <3>3. CASE op = "LE"
        BY <2>4, <3>3 DEF Holds
      <3>4. CASE op = "GE"
        BY <2>4, <3>4 DEF Holds
      <3>5. CASE op = "EQ"
        BY <2>4, <3>5 DEF Holds
      <3>6. CASE op = "NE"
        BY <2>4, <3>6 DEF Holds
      <3> QED
        BY <3>1, <3>2, <3>3, <3>4, <3>5, <3>6 DEF Relations
    <2> QED
      BY <2>1, <2>3, <2>5 DEF a
  <1>3. CASE l < half /\ r < half
    BY <1>3 DEF Compare, isNegative, ToSigned
  <1> QED
    BY <1>1, <1>2, <1>3

(***************************************************************************)
(* Tags.                                                                   *)
(***************************************************************************)
Own(t, tag) == tag.id \in {id_from_num_type(t), "ZERO_ID"}

(* The inductive form of TagsAreTruthful says that store has a block for   *)
(* every variable, and no other.                                           *)
IInv == DOMAIN store = Vars /\ TagsAreTruthful

(* What is dumped after a cast carries the tag of the type cast to.        *)
LEMMA CastTag ==
  ASSUME NEW v, NEW t, NEW g
  PROVE  Own(t, dump_repr(cast_to(v, t, g)).tag)
  BY DEF Own, dump_repr, cast_to, Num, NumStatus, Tag, UninitTag

(* What arithmetic on numbers of type t gives is dumped with the tag of t. *)
LEMMA ArithTag ==
  ASSUME NEW op, NEW a, NEW b, NEW g,
         a.status \in {"DEFINED", "UNDEFINED", "UNINITIALIZED"},
         b.status \in {"DEFINED", "UNDEFINED", "UNINITIALIZED"}
  PROVE  Own(a.type, dump_repr(Arith(op, a, b, g)).tag)
  <1>1. \/ \E s : Arith(op, a, b, g) = NumStatus(a.type, s, g)
        \/ \E v : Arith(op, a, b, g) = Num(a.type, v)
    BY DEF Arith
  <1> QED
    BY <1>1 DEF Own, dump_repr, Num, NumStatus, Tag, UninitTag

(* What is loaded from a block with a tag of t is dumped with a tag of t.  *)
LEMMA LoadTag ==
  ASSUME NEW t, NEW tag, NEW bytes, Own(t, tag)
  PROVE  Own(t, dump_repr(EmuNum(t, tag, bytes)).tag)
  BY DEF Own, dump_repr, EmuNum, UninitTag

(* Reading a variable gives one of the three statuses and its declared     *)
(* type.                                                                   *)
LEMMA LoadStatus ==
  ASSUME NEW x
  PROVE  /\ Load(x).status \in {"DEFINED", "UNDEFINED", "UNINITIALIZED"}
         /\ Load(x).type = TypeOf[x]
  BY DEF Load, EmuNum

(* One block is overwritten with a tag of its variable's type.             *)
LEMMA Overwritten ==
  ASSUME IInv, NEW x \in Vars, NEW d, Own(TypeOf[x], d.tag),
         store' = [store EXCEPT ![x] = d]
  PROVE  IInv'
  BY DEF IInv, TagsAreTruthful, Own

(* An assignment leaves every stored tag truthful.                         *)
LEMMA AssignTag ==
  ASSUME IInv, NEW x \in Vars, NEW v, NEW m, NEW g, Assign(x, v, m, g)
  PROVE  IInv'
  BY CastTag, Overwritten DEF Assign

(* A step that writes no variable keeps the invariant.                     *)
LEMMA SameStore ==
  ASSUME IInv, store' = store
  PROVE  IInv'
  BY DEF IInv, TagsAreTruthful

(* No chain of assignments, casts, calls and loads through pointers of     *)
(* another type puts a foreign tag into the block of a variable.           *)
THEOREM TagsTruthful == Spec => []TagsAreTruthful
  <1>1. Init => IInv
    BY DEF Init, IInv, TagsAreTruthful, dump_repr, NumStatus, UninitTag, ZeroTag, Tag
  <1>2. IInv /\ [Next]_vars => IInv'
    <2> SUFFICES ASSUME IInv, [Next]_vars PROVE IInv'
      OBVIOUS
    <2>1. ASSUME NEW x \in Vars, DeclUninit(x)
          PROVE  IInv'
      <3>1. Own(TypeOf[x], dump_repr(NumStatus(TypeOf[x], "UNINITIALIZED", 0)).tag)
        BY DEF Own, dump_repr, NumStatus, UninitTag
      <3> QED
        BY <2>1, <3>1, Overwritten DEF DeclUninit
    <2>2. ASSUME NEW x \in Vars, NEW g, NEW n, AssignLit(x, n, g)
          PROVE  IInv'
      BY <2>2, AssignTag DEF AssignLit
    <2>3. ASSUME NEW x \in Vars, NEW y \in Vars, NEW g,
                 AssignVar(x, y, g) \/ AssignNeg(x, y, g) \/ AssignLNot(x, y, g)
          PROVE  IInv'
      BY <2>3, AssignTag DEF AssignVar, AssignNeg, AssignLNot
    <2>4. ASSUME NEW x \in Vars, NEW y \in Vars, NEW z \in Vars, NEW op, NEW g,
                 AssignOp(x, op, y, z, g)
          PROVE  IInv'
      BY <2>4, AssignTag DEF AssignOp
    <2>5. ASSUME NEW x \in Vars, NEW y \in Vars, NEW z \in Vars, NEW op, NEW g,
                 AssignCompare(x, op, y, z, g)
          PROVE  IInv'
      BY <2>5, AssignTag, SameStore DEF AssignCompare, Exit
    <2>6. ASSUME NEW x \in Vars, NEW y \in Vars, NEW op, NEW g, AddAssign(x, op, y, g)
          PROVE  IInv'
      <3> DEFINE d == dump_repr(Arith(op, Load(x), Load(y), g))
      <3>1. Own(TypeOf[x], d.tag)
        BY LoadStatus, ArithTag
      <3>2. store' = store \/ store' = [store EXCEPT ![x] = d]
        BY <2>6 DEF AddAssign, Exit
      <3> HIDE DEF d
      <3> QED
        BY <3>1, <3>2, Overwritten, SameStore
    <2>7. ASSUME NEW x \in Vars, NEW y \in Vars, PassArg(x, y)
          PROVE  IInv'
      <3>1. Own(TypeOf[y], store[y].tag)
        BY DEF IInv, TagsAreTruthful, Own
      <3>2. Own(TypeOf[y], dump_repr(Load(y)).tag)
        BY <3>1, LoadTag DEF Load
      <3> QED
        BY <2>7, <3>2, Overwritten DEF PassArg
    <2>8. ASSUME NEW x \in Vars, NEW y \in Vars, NEW g, Reinterpret(x, y, g)
          PROVE  IInv'
      BY <2>8, AssignTag, SameStore DEF Reinterpret, Exit
    <2>9. CASE UNCHANGED vars
      BY <2>9, SameStore DEF vars
    <2> QED
      BY <2>1, <2>2, <2>3, <2>4, <2>5, <2>6, <2>7, <2>8, <2>9 DEF Next
  <1>3. IInv => TagsAreTruthful
    BY DEF IInv
  <1> QED
    BY <1>1, <1>2, <1>3, PTL DEF Spec

-----------------------------------------------------------------------------
(***************************************************************************)
(* Bytes.                                                                  *)
(***************************************************************************)
Statuses == {"DEFINED", "UNDEFINED", "UNINITIALIZED"}

(* What is behind the tag of a block of type t.                            *)
Bytes(t) == [1 .. bytes_in_num_type(t) -> 0 .. (Base - 1)]

(* The widths give bytes of at least two values, moduli of at least two,   *)
(* and halves of them.                                                     *)
LEMMA Widths ==
  ASSUME NEW t \in num_type_t
  PROVE  /\ Base \in Nat \ {0, 1}
         /\ Modulus(t) \in Nat \ {0}
         /\ Half(t) \in Nat \ {0}
         /\ Modulus(t) = 2 * Half(t)
         /\ bytes_in_num_type(t) \in Nat
         /\ ByteBits * bytes_in_num_type(t) \in Nat
         /\ ByteBits * bytes_in_num_type(t) >= bits_in_num_type[t]
  <1> DEFINE w == bits_in_num_type[t]
             n == bytes_in_num_type(t)
  <1>1. w \in Nat \ {0} /\ ByteBits \in Nat \ {0}
    BY WidthsAssumption
  <1>2. \A k \in Nat \ {0} : 2 ^ k = 2 * 2 ^ (k - 1) /\ 2 ^ (k - 1) \in Nat \ {0}
    <2> SUFFICES ASSUME NEW k \in Nat \ {0}
                 PROVE  2 ^ k = 2 * 2 ^ (k - 1) /\ 2 ^ (k - 1) \in Nat \ {0}
      OBVIOUS
    <2>1. k - 1 \in Nat /\ (k - 1) + 1 = k
      OBVIOUS
    <2> QED
      BY <2>1, PowSucc, PowPos
  <1>3. Base \in Nat \ {0, 1}
    <2>1. Base = 2 * 2 ^ (ByteBits - 1) /\ 2 ^ (ByteBits - 1) \in Nat \ {0}
      BY <1>1, <1>2 DEF Base
    <2> QED
      BY <2>1
  <1>4. Half(t) \in Nat \ {0} /\ Modulus(t) = 2 * Half(t)
    BY <1>1, <1>2 DEF Half, Modulus
  <1>5. Modulus(t) \in Nat \ {0}
    BY <1>4
  <1>6. n \in Int /\ ByteBits * n \in Int /\ ByteBits * n >= w
    <2>1. w + ByteBits - 1 \in Int
      BY <1>1
    <2>2. /\ n \in Int
          /\ (w + ByteBits - 1) % ByteBits \in 0 .. (ByteBits - 1)
          /\ w + ByteBits - 1 = ByteBits * n + ((w + ByteBits - 1) % ByteBits)
      BY <1>1, <2>1, DivMod DEF bytes_in_num_type
    <2> DEFINE r == (w + ByteBits - 1) % ByteBits
               p == ByteBits * n
    <2>3. p \in Int
      BY <1>1, <2>2
    <2>4. w + ByteBits - 1 = p + r /\ r \in 0 .. (ByteBits - 1)
      BY <2>2
    <2> HIDE DEF n, r, p, w
    <2>5. p >= w
      BY <1>1, <2>3, <2>4
    <2> QED
      BY <2>2, <2>3, <2>5 DEF p
  <1>7. n >= 0
    <2>1. ByteBits * n > 0
      BY <1>1, <1>6
    <2>2. n <= -1 => ByteBits * n <= -ByteBits
      BY <1>1, <1>6, Multiple
    <2> QED
      BY <1>1, <1>6, <2>1, <2>2
  <1>8. n \in Nat /\ ByteBits * n \in Nat
    BY <1>1, <1>6, <1>7
  <1> QED
    BY <1>3, <1>4, <1>5, <1>6, <1>8

(* The constructor from memory adds up the bytes, from the first on.       *)
LEMMA BytesSum ==
  ASSUME NEW t \in num_type_t, NEW bytes,
         \A k \in 1 .. bytes_in_num_type(t) : bytes[k] \in Int
  PROVE  \E f \in [0 .. bytes_in_num_type(t) -> Int] :
           /\ f[0] = 0
           /\ \A k \in 1 .. bytes_in_num_type(t) : f[k] = Base * f[k - 1] + bytes[k]
           /\ BytesValue(t, bytes) = f[bytes_in_num_type(t)] % Modulus(t)
  <1> DEFINE n == bytes_in_num_type(t)
             f[k \in 0 .. n] == IF k = 0 THEN 0 ELSE Base * f[k - 1] + bytes[k]
  <1>1. n \in Nat /\ Base \in Int
    BY Widths
  <1>2. BytesValue(t, bytes) = f[n] % Modulus(t)
    BY DEF BytesValue
  <1>3. PICK g \in [0 .. n -> Int] : g[0] = 0 /\ \A k \in 1 .. n : g[k] = Base * g[k - 1] + bytes[k]
    <2> HIDE DEF n, f
    <2>1. Terms(n, bytes)
      BY <1>1 DEF n, Terms
    <2>2. \E g \in [0 .. n -> Int] : Summing(g, n, Base, bytes)
      BY <1>1, <2>1, SumExists
    <2> QED
      BY <2>2 DEF Summing
  <1>4. g = [k \in 0 .. n |-> IF k = 0 THEN 0 ELSE Base * g[k - 1] + bytes[k]]
    <2> HIDE DEF n, f
    <2>1. ASSUME NEW k \in 0 .. n
          PROVE  g[k] = IF k = 0 THEN 0 ELSE Base * g[k - 1] + bytes[k]
      <3>1. k = 0 \/ k \in 1 .. n
        BY <1>1
      <3> QED
        BY <1>3, <3>1
    <2> QED
      BY <1>3, <2>1
  <1>5. f = [k \in 0 .. n |-> IF k = 0 THEN 0 ELSE Base * f[k - 1] + bytes[k]]
    <2> HIDE DEF n
    <2> QED
      BY <1>4 DEF f
  <1> HIDE DEF f, n
  <1>6. /\ f[0] = 0
        /\ \A k \in 1 .. n : f[k] = Base * f[k - 1] + bytes[k]
    <2>1. 0 \in 0 .. n /\ \A k \in 1 .. n : k \in 0 .. n /\ k # 0
      BY <1>1
    <2>2. \A k \in 0 .. n : f[k] = IF k = 0 THEN 0 ELSE Base * f[k - 1] + bytes[k]
      BY <1>5
    <2> QED
      BY <2>1, <2>2
  <1>7. f \in [0 .. n -> Int]
    <2> DEFINE S == {k \in 0 .. n : f[k] \in Int}
    <2>1. 0 \in S
      BY <1>1, <1>6
    <2>2. ASSUME NEW k \in 0 .. (n - 1), k \in S
          PROVE  k + 1 \in S
      <3>1. k + 1 \in 1 .. n /\ k + 1 \in 0 .. n /\ (k + 1) - 1 = k
        BY <1>1
      <3>2. f[k + 1] = Base * f[k] + bytes[k + 1]
        BY <1>6, <3>1
      <3>3. f[k] \in Int /\ bytes[k + 1] \in Int
        BY <2>2, <3>1 DEF n
      <3> QED
        BY <1>1, <3>1, <3>2, <3>3
    <2>3. \A k \in 0 .. n : k \in S
      <3> HIDE DEF S
      <3> QED
        BY <1>1, <2>1, <2>2, UpTo
    <2>4. \A k \in 0 .. n : f[k] \in Int
      BY <2>3
    <2> QED
      BY <1>5, <2>4
  <1> QED
    BY <1>2, <1>6, <1>7 DEF n

(* Each byte that is written is a byte.                                    *)
LEMMA ByteOfType ==
  ASSUME NEW t \in num_type_t, NEW v \in Nat, NEW n \in Nat, NEW k \in 1 .. n
  PROVE  ByteOf(v, k, n) \in 0 .. (Base - 1)
  <1> DEFINE e == ByteBits * (n - k)
             d == 2 ^ e
  <1>1. e \in Nat
    <2>1. ByteBits \in Nat /\ n - k \in Nat
      BY WidthsAssumption
    <2> QED
      BY <2>1
  <1>2. d \in Nat \ {0}
    BY <1>1, PowPos
  <1>3. v \div d \in Int
    <2> HIDE DEF d
    <2> QED
      BY <1>2
  <1>4. Base \in Nat \ {0}
    BY Widths
  <1>5. (v \div d) % Base \in 0 .. (Base - 1)
    <2> HIDE DEF d
    <2> QED
      BY <1>3, <1>4, DivMod
  <1> QED
    BY <1>5 DEF ByteOf

(* A number that fits its type is read back from the bytes written for it: *)
(* what is read of the first k bytes is the number without the others.     *)
LEMMA BytesRoundTrip ==
  ASSUME NEW t \in num_type_t, NEW v \in 0 .. (Modulus(t) - 1), NEW bytes,
         \A k \in 1 .. bytes_in_num_type(t) : bytes[k] = ByteOf(v, k, bytes_in_num_type(t))
  PROVE  BytesValue(t, bytes) = v
  <1> DEFINE n == bytes_in_num_type(t)
             D(k) == 2 ^ (ByteBits * (n - k))
  <1>1. n \in Nat /\ Base \in Nat \ {0} /\ Modulus(t) \in Nat \ {0} /\ ByteBits \in Nat \ {0}
    BY Widths, WidthsAssumption
  <1>2. v \in Nat
    BY <1>1
  <1>3. \A k \in 1 .. n : bytes[k] = ByteOf(v, k, n) /\ bytes[k] \in Int
    <2> SUFFICES ASSUME NEW k \in 1 .. n
                 PROVE  bytes[k] = ByteOf(v, k, n) /\ bytes[k] \in Int
      OBVIOUS
    <2>1. bytes[k] = ByteOf(v, k, n)
      OBVIOUS
    <2>2. ByteOf(v, k, n) \in 0 .. (Base - 1)
      BY <1>1, <1>2, ByteOfType
    <2> QED
      BY <1>1, <2>1, <2>2
  <1>4. PICK f \in [0 .. n -> Int] :
               /\ f[0] = 0
               /\ \A k \in 1 .. n : f[k] = Base * f[k - 1] + bytes[k]
               /\ BytesValue(t, bytes) = f[n] % Modulus(t)
    BY <1>3, BytesSum
  <1>5. ASSUME NEW k \in 0 .. n
        PROVE  ByteBits * (n - k) \in Nat /\ D(k) \in Nat \ {0}
    <2>1. n - k \in Nat
      BY <1>1
    <2>2. ByteBits * (n - k) \in Nat
      BY <1>1, <2>1
    <2> QED
      BY <2>2, PowPos
  <1> DEFINE S == {k \in 0 .. n : f[k] = v \div D(k)}
  <1>6. 0 \in S
    <2> DEFINE w == bits_in_num_type[t]
               p == ByteBits * n
    <2>1. w \in Nat /\ p \in Nat /\ p >= w
      BY Widths, WidthsAssumption
    <2>2. p - w \in Nat /\ w + (p - w) = p
      BY <2>1
    <2>3. 2 ^ p = 2 ^ w * 2 ^ (p - w) /\ 2 ^ w \in Nat \ {0} /\ 2 ^ (p - w) \in Nat \ {0}
      BY <2>1, <2>2, PowAdd, PowPos
    <2>4. 2 ^ p >= 2 ^ w /\ 2 ^ p \in Int
      BY <2>3, Multiple
    <2>5. v < 2 ^ w
      BY <1>1 DEF Modulus
    <2>6. n - 0 = n
      BY <1>1
    <2>7. D(0) = 2 ^ p
      BY <2>6
    <2>8. v < D(0) /\ D(0) \in Nat \ {0}
      BY <1>2, <2>3, <2>4, <2>5, <2>7
    <2>9. v \div D(0) = 0
      <3> HIDE DEF D
      <3> QED
        BY <1>2, <2>8
    <2> QED
      BY <1>1, <1>4, <2>9
  <1>7. ASSUME NEW k \in 0 .. (n - 1), k \in S
        PROVE  k + 1 \in S
    <2>1. k \in 0 .. n /\ k + 1 \in 0 .. n /\ k + 1 \in 1 .. n /\ (k + 1) - 1 = k
      BY <1>1
    <2>2. D(k) = D(k + 1) * Base
      <3>1. ByteBits * (n - k) = ByteBits * (n - (k + 1)) + ByteBits
        <4>1. \A i \in Int : ByteBits * (i + 1) = ByteBits * i + ByteBits
          BY <1>1
        <4>2. n - (k + 1) \in Int /\ (n - (k + 1)) + 1 = n - k
          BY <1>1
        <4> QED
          BY <4>1, <4>2
      <3>2. ByteBits * (n - (k + 1)) \in Nat
        BY <1>5, <2>1
      <3> QED
        BY <1>1, <3>1, <3>2, PowAdd DEF Base
    <2>3. D(k) \in Nat \ {0} /\ D(k + 1) \in Nat \ {0}
      BY <1>5, <2>1
    <2>4. f[k] = v \div D(k)
      BY <1>7
    <2>5. f[k + 1] = Base * f[k] + bytes[k + 1]
      BY <1>4, <2>1
    <2>6. bytes[k + 1] = (v \div D(k + 1)) % Base
      BY <1>3, <2>1 DEF ByteOf
    <2> DEFINE q == v \div D(k + 1)
    <2> HIDE DEF D
    <2>7. q \in Int
      BY <1>2, <2>3
    <2>8. v \div D(k) = q \div Base
      <3> DEFINE a == D(k + 1)
      <3>1. a \in Nat \ {0}
        BY <2>3
      <3> HIDE DEF a
      <3>2. (v \div a) \div Base = v \div (a * Base)
        BY <1>1, <1>2, <3>1, DivDiv
      <3> QED
        BY <2>2, <3>2 DEF a
    <2> HIDE DEF q
    <2>9. q = Base * (q \div Base) + (q % Base)
      BY <1>1, <2>7, DivMod
    <2>10. f[k + 1] = q
      BY <2>4, <2>5, <2>6, <2>8, <2>9 DEF q
    <2> QED
      BY <2>1, <2>10 DEF q
  <1>8. n \in S
    <2> HIDE DEF S
    <2>1. \A k \in 0 .. n : k \in S
      BY <1>1, <1>6, <1>7, UpTo
    <2> QED
      BY <1>1, <2>1
  <1>9. f[n] = v
    <2>1. n - n = 0 /\ ByteBits * 0 = 0
      BY <1>1
    <2>2. D(n) = 1
      BY <2>1, PowZero
    <2>3. f[n] = v \div D(n)
      BY <1>8
    <2>4. v \div 1 = v
      BY <1>2
    <2> QED
      BY <2>2, <2>3, <2>4
  <1> QED
    BY <1>1, <1>4, <1>9, ModSmall

-----------------------------------------------------------------------------
(***************************************************************************)
(* Well-formed numbers and blocks.                                         *)
(***************************************************************************)

(* A number of type t, as the constructors build it: whatever has the tag  *)
(* of an uninitialized int has that status.                                *)
Emu(t, v) ==
  /\ v.type = t
  /\ v.status \in Statuses
  /\ v.tag \in Tags
  /\ v.val \in Nat
  /\ v.tag = UninitTag("INT") => v.status = "UNINITIALIZED"

(* A block of type t: an uninitialized int is filled with ones.            *)
Block(t, d) ==
  /\ d.tag \in Tags
  /\ d.bytes \in Bytes(t)
  /\ d.tag = UninitTag("INT") => \A k \in 1 .. bytes_in_num_type(t) : d.bytes[k] = 1

(* The tags that constructors and dump_repr make.                          *)
LEMMA TagsMade ==
  ASSUME NEW t \in num_type_t
  PROVE  /\ Tag(id_from_num_type(t)) \in Tags /\ Tag(id_from_num_type(t)) # UninitTag("INT")
         /\ UninitTag(t) \in Tags
         /\ ZeroTag \in Tags /\ ZeroTag # UninitTag("INT")
  <1>1. id_from_num_type(t) \in {"BOOL_ID", "CHAR_ID", "SHORT_ID", "INT_ID", "LONG_ID", "LONGLONG_ID"}
    BY DEF num_type_t, SignedTypes, id_from_num_type
  <1>2. Tag(id_from_num_type(t)).uninit = FALSE /\ ZeroTag.uninit = FALSE /\ UninitTag("INT").uninit = TRUE
    BY DEF Tag, ZeroTag, UninitTag
  <1>3. Tag(id_from_num_type(t)) # UninitTag("INT") /\ ZeroTag # UninitTag("INT")
    BY <1>2
  <1>4. Tag(id_from_num_type(t)) \in Tags /\ UninitTag(t) \in Tags /\ ZeroTag \in Tags
    BY <1>1 DEF Tag, UninitTag, ZeroTag, Tags
  <1> QED
    BY <1>3, <1>4

(* The constructor from a value.                                           *)
LEMMA NumEmu ==
  ASSUME NEW t \in num_type_t, NEW i \in Int
  PROVE  Emu(t, Num(t, i)) /\ Num(t, i).val \in 0 .. (Modulus(t) - 1)
  <1>1. i % Modulus(t) \in 0 .. (Modulus(t) - 1) /\ Modulus(t) \in Nat
    BY Widths, DivMod
  <1>2. i % Modulus(t) \in Nat
    BY <1>1
  <1> QED
    BY <1>1, <1>2, TagsMade DEF Emu, Num, Statuses

(* The constructor from a status, whatever host memory holds.              *)
LEMMA NumStatusEmu ==
  ASSUME NEW t \in num_type_t, NEW s \in Statuses, NEW g \in Nat
  PROVE  Emu(t, NumStatus(t, s, g))
  BY TagsMade DEF Emu, NumStatus

(* The constructor from memory.                                            *)
LEMMA EmuNumEmu ==
  ASSUME NEW t \in num_type_t, NEW tag \in Tags, NEW bytes,
         \A k \in 1 .. bytes_in_num_type(t) : bytes[k] \in Int
  PROVE  Emu(t, EmuNum(t, tag, bytes)) /\ EmuNum(t, tag, bytes).val \in 0 .. (Modulus(t) - 1)
  <1> DEFINE n == bytes_in_num_type(t)
             v == BytesValue(t, bytes)
  <1>1. PICK f \in [0 .. n -> Int] : v = f[n] % Modulus(t)
    BY BytesSum
  <1>2. f[n] \in Int
    BY <1>1, Widths
  <1>3. v \in 0 .. (Modulus(t) - 1) /\ v \in Nat
    <2>1. Modulus(t) \in Nat \ {0}
      BY Widths
    <2> HIDE DEF v
    <2>2. v \in 0 .. (Modulus(t) - 1)
      BY <1>1, <1>2, <2>1, DivMod
    <2> QED
      BY <2>1, <2>2
  <1> HIDE DEF v
  <1>4. EmuNum(t, tag, bytes).val = v /\ EmuNum(t, tag, bytes).type = t /\ EmuNum(t, tag, bytes).tag = tag
    BY DEF EmuNum, v
  <1>5. EmuNum(t, tag, bytes).status \in Statuses
    BY DEF EmuNum, Statuses
  <1>6. tag = UninitTag("INT") => EmuNum(t, tag, bytes).status = "UNINITIALIZED"
    <2>1. tag = UninitTag("INT") => tag # Tag("INT_ID") /\ tag # ZeroTag
      BY DEF UninitTag, Tag, ZeroTag
    <2> QED
      BY <2>1 DEF EmuNum
  <1> QED
    BY <1>3, <1>4, <1>5, <1>6 DEF Emu

(* What is written for a number is a block of its type.                    *)
LEMMA DumpBlock ==
  ASSUME NEW t \in num_type_t, NEW v, Emu(t, v)
  PROVE  Block(t, dump_repr(v))
  <1> DEFINE n == bytes_in_num_type(t)
  <1>1. n \in Nat /\ 1 \in 0 .. (Base - 1)
    BY Widths
  <1>2. v.type = t /\ v.val \in Nat /\ v.tag \in Tags
    BY DEF Emu
  <1>3. CASE v.status = "UNINITIALIZED"
    <2>1. dump_repr(v).tag = UninitTag(t) /\ dump_repr(v).bytes = [k \in 1 .. n |-> 1]
      BY <1>2, <1>3 DEF dump_repr
    <2>2. [k \in 1 .. n |-> 1] \in Bytes(t)
      BY <1>1 DEF Bytes
    <2> QED
      BY <2>1, <2>2, TagsMade DEF Block
  <1>4. CASE v.status # "UNINITIALIZED"
    <2>1. dump_repr(v).tag = v.tag /\ dump_repr(v).bytes = [k \in 1 .. n |-> ByteOf(v.val, k, n)]
      BY <1>2, <1>4 DEF dump_repr
    <2>2. \A k \in 1 .. n : ByteOf(v.val, k, n) \in 0 .. (Base - 1)
      BY <1>1, <1>2, ByteOfType
    <2>3. [k \in 1 .. n |-> ByteOf(v.val, k, n)] \in Bytes(t)
      BY <2>2 DEF Bytes
    <2>4. v.tag # UninitTag("INT")
      BY <1>4 DEF Emu
    <2> QED
      BY <1>2, <2>1, <2>3, <2>4 DEF Block
  <1> QED
    BY <1>3, <1>4

(* A number that fits its type is read back as it was written.             *)
LEMMA DumpRoundTrip ==
  ASSUME NEW t \in num_type_t, NEW v, Emu(t, v), v.status # "UNINITIALIZED",
         v.val \in 0 .. (Modulus(t) - 1)
  PROVE  /\ dump_repr(v).tag = v.tag
         /\ BytesValue(t, dump_repr(v).bytes) = v.val
  <1> DEFINE n == bytes_in_num_type(t)
             bytes == dump_repr(v).bytes
  <1>1. dump_repr(v).tag = v.tag /\ bytes = [k \in 1 .. n |-> ByteOf(v.val, k, n)]
    BY DEF dump_repr, Emu
  <1>2. \A k \in 1 .. n : bytes[k] = ByteOf(v.val, k, n)
    BY <1>1
  <1> HIDE DEF bytes
  <1>3. BytesValue(t, bytes) = v.val
    BY <1>2, BytesRoundTrip
  <1> QED
    BY <1>1, <1>3 DEF bytes

-----------------------------------------------------------------------------
(***************************************************************************)
(* Operators on numbers give numbers.                                      *)
(***************************************************************************)

(* Bitwise operators give integers.                                        *)
LEMMA FromBitsInt ==
  ASSUME NEW n \in Nat, NEW bit, \A k \in 0 .. (n - 1) : bit[k] \in Int
  PROVE  FromBits(n, bit) \in Int
  <1> DEFINE f[k \in 0 .. n] == IF k = 0 THEN 0 ELSE f[k - 1] + 2 ^ (k - 1) * bit[k - 1]
             b == [k \in 1 .. n |-> 2 ^ (k - 1) * bit[k - 1]]
  <1>1. FromBits(n, bit) = f[n]
    BY DEF FromBits
  <1>2. \A k \in 1 .. n : b[k] = 2 ^ (k - 1) * bit[k - 1] /\ b[k] \in Int
    <2> SUFFICES ASSUME NEW k \in 1 .. n
                 PROVE  2 ^ (k - 1) * bit[k - 1] \in Int
      OBVIOUS
    <2>1. k - 1 \in Nat /\ k - 1 \in 0 .. (n - 1)
      OBVIOUS
    <2>2. 2 ^ (k - 1) \in Int /\ bit[k - 1] \in Int
      BY <2>1, PowPos
    <2> QED
      BY <2>2
  <1> HIDE DEF b, f
  <1>3. PICK g \in [0 .. n -> Int] : g[0] = 0 /\ \A k \in 1 .. n : g[k] = 1 * g[k - 1] + b[k]
    <2> DEFINE c == 1
    <2>1. Terms(n, b) /\ c \in Int
      BY <1>2 DEF Terms
    <2> HIDE DEF c
    <2>2. \E g \in [0 .. n -> Int] : Summing(g, n, c, b)
      BY <2>1, SumExists
    <2> QED
      BY <2>2 DEF c, Summing
  <1>4. g = [k \in 0 .. n |-> IF k = 0 THEN 0 ELSE g[k - 1] + 2 ^ (k - 1) * bit[k - 1]]
    <2>1. ASSUME NEW k \in 0 .. n
          PROVE  g[k] = IF k = 0 THEN 0 ELSE g[k - 1] + 2 ^ (k - 1) * bit[k - 1]
      <3>1. CASE k = 0
        BY <1>3, <3>1
      <3>2. CASE k # 0
        <4>1. k \in 1 .. n /\ k - 1 \in 0 .. n
          BY <3>2
        <4>2. g[k - 1] \in Int
          BY <4>1
        <4>3. 1 * g[k - 1] = g[k - 1]
          BY <4>2
        <4> QED
          BY <1>2, <1>3, <3>2, <4>1, <4>3
      <3> QED
        BY <3>1, <3>2
    <2> QED
      BY <2>1
  <1>5. f = [k \in 0 .. n |-> IF k = 0 THEN 0 ELSE f[k - 1] + 2 ^ (k - 1) * bit[k - 1]]
    BY <1>4 DEF f
  <1>6. f[0] = 0 /\ \A k \in 1 .. n : f[k] = f[k - 1] + b[k]
    <2>1. \A k \in 0 .. n : f[k] = IF k = 0 THEN 0 ELSE f[k - 1] + 2 ^ (k - 1) * bit[k - 1]
      BY <1>5
    <2>2. 0 \in 0 .. n /\ \A k \in 1 .. n : k \in 0 .. n /\ k # 0
      OBVIOUS
    <2> QED
      BY <1>2, <2>1, <2>2
  <1> DEFINE S == {k \in 0 .. n : f[k] \in Int}
  <1>7. 0 \in S
    BY <1>6
  <1>8. ASSUME NEW k \in 0 .. (n - 1), k \in S
        PROVE  k + 1 \in S
    <2>1. k + 1 \in 1 .. n /\ k + 1 \in 0 .. n /\ (k + 1) - 1 = k
      OBVIOUS
    <2>2. f[k + 1] = f[k] + b[k + 1] /\ b[k + 1] \in Int
      BY <1>2, <1>6, <2>1
    <2> QED
      BY <1>8, <2>1, <2>2
  <1>9. n \in S
    <2> HIDE DEF S
    <2>1. \A k \in 0 .. n : k \in S
      BY <1>7, <1>8, UpTo
    <2> QED
      BY <2>1
  <1> QED
    BY <1>1, <1>9

(* A bit of a number is 0 or 1.                                            *)
LEMMA BitInt ==
  ASSUME NEW v \in Int, NEW k \in Nat
  PROVE  Bit(v, k) \in 0 .. 1
  <1>1. 2 ^ k \in Nat \ {0}
    BY PowPos
  <1>2. v \div 2 ^ k \in Int
    BY <1>1, DivMod
  <1> DEFINE q == v \div 2 ^ k
  <1> HIDE DEF q
  <1>3. q % 2 \in 0 .. 1
    BY <1>2 DEF q
  <1> QED
    BY <1>3 DEF Bit, q

(* Truncating division gives an integer.                                   *)
LEMMA QuotientInt ==
  ASSUME NEW a \in Int, NEW b \in Int \ {0}
  PROVE  Quotient(a, b) \in Int
  <1> DEFINE mag(x) == IF x < 0 THEN -x ELSE x
             q == mag(a) \div mag(b)
  <1>1. mag(a) \in Int /\ mag(b) \in Nat \ {0}
    OBVIOUS
  <1>2. q \in Int
    <2> HIDE DEF mag
    <2> QED
      BY <1>1, DivMod
  <1>3. Quotient(a, b) = q \/ Quotient(a, b) = -q
    BY DEF Quotient
  <1> HIDE DEF q
  <1> QED
    BY <1>2, <1>3

(* Every operator gives an integer.                                        *)
LEMMA ResultInt ==
  ASSUME NEW op \in Ops, NEW t \in num_type_t, NEW a \in Int, NEW b \in Nat,
         op = "div" => b # 0 /\ ToSigned(b, Half(t)) # 0
  PROVE  Result(op, t, a, b) \in Int
  <1> DEFINE n == bits_in_num_type[t]
  <1>1. n \in Nat
    BY WidthsAssumption
  <1>2. CASE op \in {"add", "sub", "mul"}
    BY <1>2 DEF Result
  <1>3. CASE op = "or"
    <2> DEFINE bit == [k \in 0 .. (n - 1) |-> IF Bit(a, k) + Bit(b, k) > 0 THEN 1 ELSE 0]
    <2>1. \A k \in 0 .. (n - 1) : bit[k] \in Int
      OBVIOUS
    <2>2. FromBits(n, bit) \in Int
      <3> HIDE DEF bit
      <3> QED
        BY <1>1, <2>1, FromBitsInt
    <2> QED
      BY <1>3, <2>2 DEF Result, _or
  <1>4. CASE op = "and"
    <2> DEFINE bit == [k \in 0 .. (n - 1) |-> Bit(a, k) * Bit(b, k)]
    <2>1. \A k \in 0 .. (n - 1) : bit[k] \in Int
      <3> SUFFICES ASSUME NEW k \in 0 .. (n - 1)
                   PROVE  Bit(a, k) * Bit(b, k) \in Int
        OBVIOUS
      <3>1. Bit(a, k) \in Int /\ Bit(b, k) \in Int
        BY BitInt
      <3> QED
        BY <3>1
    <2>2. FromBits(n, bit) \in Int
      <3> HIDE DEF bit
      <3> QED
        BY <1>1, <2>1, FromBitsInt
    <2> QED
      BY <1>4, <2>2 DEF Result, _and
  <1>5. CASE op = "div"
    <2>1. Half(t) \in Int
      BY Widths
    <2>2. ToSigned(a, Half(t)) \in Int /\ ToSigned(b, Half(t)) \in Int \ {0}
      BY <1>5, <2>1 DEF ToSigned
    <2>3. Quotient(ToSigned(a, Half(t)), ToSigned(b, Half(t))) \in Int
      BY <2>2, QuotientInt
    <2>4. b > 0 => a \div b \in Int
      BY DivMod
    <2> QED
      BY <1>5, <2>3, <2>4 DEF Result
  <1> QED
    BY <1>2, <1>3, <1>4, <1>5 DEF Ops

(* A cast gives a number of the type cast to.                              *)
LEMMA CastEmu ==
  ASSUME NEW t \in num_type_t, NEW v, v.val \in Int, NEW g \in Nat
  PROVE  Emu(t, cast_to(v, t, g))
  BY NumEmu, NumStatusEmu DEF cast_to, Statuses

(* What BO_Assign writes for a number is a number of the variable's type.  *)
LEMMA ConvertedEmu ==
  ASSUME NEW t \in num_type_t, NEW v, v.val \in Nat, NEW g \in Nat
  PROVE  Emu(t, cast_to(Converted(v, t, g), t, g))
  <1>1. Converted(v, t, g).val \in Int
    BY CastEmu DEF Converted, Emu
  <1> QED
    BY <1>1, CastEmu

(* Arithmetic gives a number of the type of its operands.                  *)
LEMMA ArithEmu ==
  ASSUME NEW op \in Ops, NEW t \in num_type_t, NEW a, NEW b, NEW g \in Nat,
         Emu(t, a), Emu(t, b), b.val \in 0 .. (Modulus(t) - 1)
  PROVE  Emu(t, Arith(op, a, b, g))
  <1>1. a.type = t /\ a.val \in Nat /\ b.val \in Nat /\ a.status \in Statuses /\ b.status \in Statuses
    BY DEF Emu
  <1>2. CASE a.status # "DEFINED" \/ b.status # "DEFINED" \/ (op = "div" /\ b.val = 0)
    <2>1. \E s \in Statuses : Arith(op, a, b, g) = NumStatus(t, s, g)
      BY <1>1, <1>2 DEF Arith, Statuses
    <2> QED
      BY <2>1, NumStatusEmu
  <1>3. CASE a.status = "DEFINED" /\ b.status = "DEFINED" /\ ~(op = "div" /\ b.val = 0)
    <2>1. Arith(op, a, b, g) = Num(t, Result(op, t, a.val, b.val))
      BY <1>1, <1>3 DEF Arith
    <2>2. op = "div" => b.val # 0 /\ ToSigned(b.val, Half(t)) # 0
      <3>1. b.val # 0 => ToSigned(b.val, Half(t)) # 0
        <4>1. Half(t) \in Int /\ Modulus(t) = 2 * Half(t)
          BY Widths
        <4> DEFINE w == b.val
        <4>2. w \in Nat /\ w < 2 * Half(t)
          BY <1>1, <4>1
        <4> HIDE DEF w
        <4>3. w # 0 => ToSigned(w, Half(t)) # 0
          BY <4>1, <4>2 DEF ToSigned
        <4> QED
          BY <4>3 DEF w
      <3> QED
        BY <1>3, <3>1
    <2>3. Result(op, t, a.val, b.val) \in Int
      BY <1>1, <2>2, ResultInt
    <2> QED
      BY <2>1, <2>3, NumEmu
  <1> QED
    BY <1>2, <1>3

(* The unary operators give numbers of the type of their operand.          *)
LEMMA UnaryEmu ==
  ASSUME NEW t \in num_type_t, NEW a, NEW g \in Nat, Emu(t, a)
  PROVE  Emu(t, neg(a, g)) /\ Emu(t, lnot(a, g))
  <1>1. a.type = t /\ a.val \in Nat /\ a.status \in Statuses
    BY DEF Emu
  <1>2. -a.val \in Int /\ (IF a.val = 0 THEN 1 ELSE 0) \in Int
    BY <1>1
  <1> QED
    BY <1>1, <1>2, NumEmu, NumStatusEmu DEF neg, lnot

-----------------------------------------------------------------------------
(***************************************************************************)
(* The type invariant.  What makes it inductive, and the copies of calls   *)
(* faithful, is that every block is one that dump_repr or the start of the *)
(* program has written for its type.                                       *)
(***************************************************************************)
NInv ==
  /\ IInv
  /\ outcome \in {"run", "exit"}
  /\ DOMAIN meant = Vars
  /\ \A x \in Vars : Block(TypeOf[x], store[x])
  /\ \A x \in Vars : \A v \in meant[x] : InRange(v, TypeOf[x])

(* A variable holds a number of its type, which fits.                      *)
LEMMA LoadEmu ==
  ASSUME NInv, NEW x \in Vars
  PROVE  /\ TypeOf[x] \in num_type_t
         /\ Emu(TypeOf[x], Load(x))
         /\ Load(x).val \in 0 .. (Modulus(TypeOf[x]) - 1)
         /\ Load(x).val \in Nat
  <1> DEFINE t == TypeOf[x]
             n == bytes_in_num_type(t)
  <1>1. t \in num_type_t
    BY WidthsAssumption
  <1>2. store[x].tag \in Tags /\ store[x].bytes \in [1 .. n -> 0 .. (Base - 1)]
    BY DEF NInv, Block, Bytes
  <1>3. Base \in Int
    BY <1>1, Widths
  <1>4. \A k \in 1 .. n : store[x].bytes[k] \in Int
    <2> DEFINE b == store[x].bytes
    <2>1. b \in [1 .. n -> 0 .. (Base - 1)] /\ 0 .. (Base - 1) \subseteq Int
      BY <1>2, <1>3
    <2> HIDE DEF b, n
    <2>2. \A k \in 1 .. n : b[k] \in Int
      BY <2>1
    <2> QED
      BY <2>2 DEF b
  <1>5. Emu(t, Load(x)) /\ Load(x).val \in 0 .. (Modulus(t) - 1)
    BY <1>1, <1>2, <1>4, EmuNumEmu DEF Load
  <1> QED
    BY <1>1, <1>5 DEF Emu

(* One variable is written.                                                *)
LEMMA WrittenBlock ==
  ASSUME NInv, IInv', NEW x \in Vars, NEW d, NEW m, Block(TypeOf[x], d),
         \A v \in m : InRange(v, TypeOf[x]),
         store' = [store EXCEPT ![x] = d], meant' = [meant EXCEPT ![x] = m], outcome' = outcome
  PROVE  NInv'
  <1>1. \A y \in Vars : store'[y] = IF y = x THEN d ELSE store[y]
    BY DEF NInv, IInv
  <1>2. \A y \in Vars : meant'[y] = IF y = x THEN m ELSE meant[y]
    BY DEF NInv
  <1>3. \A y \in Vars : Block(TypeOf[y], store'[y])
    BY <1>1 DEF NInv
  <1>4. \A y \in Vars : \A v \in meant'[y] : InRange(v, TypeOf[y])
    BY <1>2 DEF NInv
  <1>5. DOMAIN meant' = Vars
    BY DEF NInv
  <1> QED
    BY <1>3, <1>4, <1>5 DEF NInv

(* An assignment writes a block of the variable's type.                    *)
LEMMA AssignBlock ==
  ASSUME NInv, NEW x \in Vars, NEW v, v.val \in Nat, NEW m, NEW g \in Nat, Assign(x, v, m, g)
  PROVE  NInv'
  <1> DEFINE d == dump_repr(cast_to(Converted(v, TypeOf[x], g), TypeOf[x], g))
  <1>1. TypeOf[x] \in num_type_t
    BY WidthsAssumption
  <1>2. Block(TypeOf[x], d)
    BY <1>1, ConvertedEmu, DumpBlock
  <1>3. IInv'
    BY AssignTag DEF NInv
  <1>4. \A i \in MeantAs(m, TypeOf[x]) : InRange(i, TypeOf[x])
    BY DEF MeantAs
  <1> HIDE DEF d
  <1>5. /\ store' = [store EXCEPT ![x] = d]
        /\ meant' = [meant EXCEPT ![x] = MeantAs(m, TypeOf[x])]
        /\ outcome' = outcome
    BY DEF Assign, d
  <1> QED
    BY <1>2, <1>3, <1>4, <1>5, WrittenBlock

(* A step that ends the run or changes nothing keeps the invariant.        *)
LEMMA SameBlocks ==
  ASSUME NInv, store' = store, meant' = meant, outcome' \in {"run", "exit"}
  PROVE  NInv'
  BY SameStore DEF NInv

(* What is read through a pointer of another type is a number: the bytes   *)
(* of the block, and bytes of host memory behind it.                       *)
LEMMA LoadAsNat ==
  ASSUME NInv, NEW y \in Vars, NEW t \in num_type_t, NEW g \in Nat
  PROVE  LoadAs(y, t, g).val \in Nat
  <1> DEFINE n == bytes_in_num_type(t)
             m == bytes_in_num_type(TypeOf[y])
             b == store[y].bytes
             c == [k \in 1 .. n |-> IF k <= Len(b) THEN b[k] ELSE ByteOf(g, k, n)]
  <1>1. n \in Nat /\ m \in Nat /\ Base \in Int
    BY WidthsAssumption, Widths
  <1>2. store[y].tag \in Tags /\ b \in [1 .. m -> 0 .. (Base - 1)]
    BY DEF NInv, Block, Bytes
  <1>3. Len(b) = m
    <2> HIDE DEF b, m
    <2> QED
      BY <1>1, <1>2
  <1>4. ASSUME NEW k \in 1 .. n
        PROVE  c[k] \in Int
    <2>1. CASE k <= m
      <3>1. k \in 1 .. m
        BY <1>1, <2>1
      <3>2. b[k] \in Int
        <4> HIDE DEF b, m
        <4> QED
          BY <1>1, <1>2, <3>1
      <3> QED
        BY <1>3, <2>1, <3>2
    <2>2. CASE ~(k <= m)
      <3>1. ByteOf(g, k, n) \in 0 .. (Base - 1)
        BY <1>1, ByteOfType
      <3>2. ByteOf(g, k, n) \in Int
        BY <1>1, <3>1
      <3> QED
        BY <1>3, <2>2, <3>2
    <2> QED
      BY <2>1, <2>2
  <1>5. LoadAs(y, t, g) = EmuNum(t, store[y].tag, c)
    BY DEF LoadAs
  <1> HIDE DEF c
  <1>6. Emu(t, EmuNum(t, store[y].tag, c))
    BY <1>2, <1>4, EmuNumEmu
  <1> QED
    BY <1>5, <1>6 DEF Emu

(* The start of the program.                                               *)
LEMMA NInvInit == Init => NInv
  <1> SUFFICES ASSUME Init
               PROVE  NInv
    OBVIOUS
  <1>1. IInv
    BY DEF Init, IInv, TagsAreTruthful, dump_repr, NumStatus, UninitTag, ZeroTag, Tag
  <1>2. PICK globals \in SUBSET Vars :
               /\ store = [x \in Vars |->
                     IF x \in globals
                     THEN [tag |-> ZeroTag, bytes |-> [k \in 1..bytes_in_num_type(TypeOf[x]) |-> 0]]
                     ELSE dump_repr(NumStatus(TypeOf[x], "UNINITIALIZED", 0))]
               /\ meant = [x \in Vars |-> IF x \in globals THEN {0} ELSE {}]
    BY DEF Init
  <1>3. ASSUME NEW x \in Vars
        PROVE  /\ Block(TypeOf[x], store[x])
               /\ \A v \in meant[x] : InRange(v, TypeOf[x])
    <2> DEFINE t == TypeOf[x]
               z == [k \in 1..bytes_in_num_type(t) |-> 0]
    <2>1. t \in num_type_t
      BY WidthsAssumption
    <2>2. Base \in Nat \ {0} /\ Half(t) \in Nat \ {0} /\ Modulus(t) \in Nat \ {0}
      BY <2>1, Widths
    <2>3. CASE x \in globals
      <3>1. store[x].tag = ZeroTag /\ store[x].bytes = z /\ meant[x] = {0}
        BY <1>2, <2>3
      <3>2. z \in Bytes(t)
        BY <2>2 DEF Bytes
      <3>3. InRange(0, t)
        BY <2>2 DEF InRange
      <3>4. Block(t, store[x])
        <4> HIDE DEF z, t
        <4> QED
          BY <2>1, <3>1, <3>2, TagsMade DEF Block
      <3> QED
        BY <3>1, <3>3, <3>4
    <2>4. CASE x \notin globals
      <3>1. Emu(t, NumStatus(t, "UNINITIALIZED", 0))
        BY <2>1, NumStatusEmu DEF Statuses
      <3>2. Block(t, dump_repr(NumStatus(t, "UNINITIALIZED", 0)))
        BY <2>1, <3>1, DumpBlock
      <3> QED
        BY <1>2, <2>4, <3>2
    <2> QED
      BY <2>3, <2>4
  <1>4. DOMAIN meant = Vars /\ outcome = "run"
    BY <1>2 DEF Init
  <1> QED
    BY <1>1, <1>3, <1>4 DEF NInv

(* Every step keeps the invariant.                                         *)
LEMMA NInvNext == NInv /\ [Next]_vars => NInv'
  <1> SUFFICES ASSUME NInv, [Next]_vars
               PROVE  NInv'
    OBVIOUS
  <1>1. \A x \in Vars : TypeOf[x] \in num_type_t
    BY WidthsAssumption
  <1>2. \A g \in Garbage : g \in Nat
    BY WidthsAssumption
  <1>3. \A y \in Vars : Emu(TypeOf[y], Load(y)) /\ Load(y).val \in Nat
    BY LoadEmu
  <1>4. ASSUME NEW x \in Vars, DeclUninit(x)
        PROVE  NInv'
    <2> DEFINE d == dump_repr(NumStatus(TypeOf[x], "UNINITIALIZED", 0))
               m == {}
    <2>1. Emu(TypeOf[x], NumStatus(TypeOf[x], "UNINITIALIZED", 0))
      BY <1>1, NumStatusEmu DEF Statuses
    <2>2. Block(TypeOf[x], d)
      BY <1>1, <2>1, DumpBlock
    <2>3. Own(TypeOf[x], d.tag)
      BY DEF Own, dump_repr, NumStatus, UninitTag
    <2>4. \A v \in m : InRange(v, TypeOf[x])
      OBVIOUS
    <2> HIDE DEF d, m
    <2>5. store' = [store EXCEPT ![x] = d] /\ meant' = [meant EXCEPT ![x] = m] /\ outcome' = outcome
      BY <1>4 DEF DeclUninit, d, m
    <2>6. IInv'
      BY <2>3, <2>5, Overwritten DEF NInv
    <2> QED
      BY <2>2, <2>4, <2>5, <2>6, WrittenBlock
  <1>5. ASSUME NEW x \in Vars, NEW g \in Garbage, NEW n \in Literals, AssignLit(x, n, g)
        PROVE  NInv'
    <2>1. "INT" \in num_type_t /\ n \in Int
      BY WidthsAssumption DEF num_type_t, SignedTypes
    <2>2. Num("INT", n).val \in Nat
      BY <2>1, NumEmu DEF Emu
    <2> QED
      BY <1>2, <1>5, <2>2, AssignBlock DEF AssignLit
  <1>6. ASSUME NEW x \in Vars, NEW y \in Vars, NEW g \in Garbage,
               AssignVar(x, y, g) \/ AssignNeg(x, y, g) \/ AssignLNot(x, y, g)
        PROVE  NInv'
    <2>1. neg(Load(y), g).val \in Nat /\ lnot(Load(y), g).val \in Nat
      BY <1>1, <1>2, <1>3, UnaryEmu DEF Emu
    <2> QED
      BY <1>2, <1>3, <1>6, <2>1, AssignBlock DEF AssignVar, AssignNeg, AssignLNot
  <1>7. ASSUME NEW x \in Vars, NEW y \in Vars, NEW z \in Vars, NEW op \in Ops, NEW g \in Garbage,
               AssignOp(x, op, y, z, g)
        PROVE  NInv'
    <2>1. TypeOf[y] = TypeOf[z]
      BY <1>7 DEF AssignOp
    <2>2. Emu(TypeOf[y], Arith(op, Load(y), Load(z), g))
      BY <1>1, <1>2, <2>1, LoadEmu, ArithEmu
    <2>3. Arith(op, Load(y), Load(z), g).val \in Nat
      BY <2>2 DEF Emu
    <2> QED
      BY <1>2, <1>7, <2>3, AssignBlock DEF AssignOp
  <1>8. ASSUME NEW x \in Vars, NEW y \in Vars, NEW z \in Vars, NEW op, NEW g \in Garbage,
               AssignCompare(x, op, y, z, g)
        PROVE  NInv'
    <2>1. CASE TypeOf[y] # "INT"
      BY <1>8, <2>1, SameBlocks DEF AssignCompare, Exit
    <2>2. CASE TypeOf[y] = "INT"
      <3> DEFINE i == IF Compare(op, Load(y).val, Load(z).val, Half("INT")) THEN 1 ELSE 0
      <3>1. "INT" \in num_type_t /\ i \in Int
        BY DEF num_type_t, SignedTypes
      <3>2. \E m : Assign(x, Num("INT", i), m, g)
        BY <1>8, <2>2 DEF AssignCompare
      <3> HIDE DEF i
      <3>3. Num("INT", i).val \in Nat
        BY <3>1, NumEmu DEF Emu
      <3> QED
        BY <1>2, <3>2, <3>3, AssignBlock
    <2> QED
      BY <2>1, <2>2
  <1>9. ASSUME NEW x \in Vars, NEW y \in Vars, NEW op \in {"add", "sub"}, NEW g \in Garbage,
               AddAssign(x, op, y, g)
        PROVE  NInv'
    <2>1. CASE TypeOf[x] # "INT" \/ TypeOf[y] # "INT"
      BY <1>9, <2>1, SameBlocks DEF AddAssign, Exit
    <2>2. CASE TypeOf[x] = "INT" /\ TypeOf[y] = "INT"
      <3> DEFINE d == dump_repr(Arith(op, Load(x), Load(y), g))
                 m == MeantResult(op, "INT", meant[x], meant[y])
      <3>1. Emu("INT", Arith(op, Load(x), Load(y), g))
        <4>1. op \in Ops
          BY DEF Ops
        <4> QED
          BY <1>1, <1>2, <2>2, <4>1, LoadEmu, ArithEmu
      <3>2. Block(TypeOf[x], d)
        BY <1>1, <2>2, <3>1, DumpBlock
      <3>3. Own(TypeOf[x], d.tag)
        BY LoadStatus, ArithTag
      <3>4. \A v \in m : InRange(v, TypeOf[x])
        BY <2>2 DEF MeantResult, MeantAs
      <3>5. store' = [store EXCEPT ![x] = d] /\ meant' = [meant EXCEPT ![x] = m] /\ outcome' = outcome
        BY <1>9, <2>2 DEF AddAssign
      <3> HIDE DEF d, m
      <3>6. IInv'
        BY <3>3, <3>5, Overwritten DEF NInv
      <3> QED
        BY <3>2, <3>4, <3>5, <3>6, WrittenBlock
    <2> QED
      BY <2>1, <2>2
  <1>10. ASSUME NEW x \in Vars, NEW y \in Vars, PassArg(x, y)
         PROVE  NInv'
    <2> DEFINE d == dump_repr(Load(y))
    <2>1. TypeOf[x] = TypeOf[y]
      BY <1>10 DEF PassArg
    <2>2. Block(TypeOf[x], d)
      BY <1>1, <1>3, <2>1, DumpBlock
    <2>3. Own(TypeOf[x], d.tag)
      <3>1. Own(TypeOf[y], store[y].tag)
        BY DEF NInv, IInv, TagsAreTruthful, Own
      <3> QED
        BY <2>1, <3>1, LoadTag DEF Load
    <2>4. \A v \in meant[y] : InRange(v, TypeOf[x])
      BY <2>1 DEF NInv
    <2> HIDE DEF d
    <2>5. store' = [store EXCEPT ![x] = d] /\ meant' = [meant EXCEPT ![x] = meant[y]] /\ outcome' = outcome
      BY <1>10 DEF PassArg, d
    <2>6. IInv'
      BY <2>3, <2>5, Overwritten DEF NInv
    <2> QED
      BY <2>2, <2>4, <2>5, <2>6, WrittenBlock
  <1>11. ASSUME NEW x \in Vars, NEW y \in Vars, NEW g \in Garbage, Reinterpret(x, y, g)
         PROVE  NInv'
    <2>1. LoadAs(y, TypeOf[x], g).val \in Nat
      BY <1>1, <1>2, LoadAsNat
    <2>2. Assign(x, LoadAs(y, TypeOf[x], g), {}, g) \/ Exit
      BY <1>11 DEF Reinterpret
    <2>3. CASE Exit
      BY <2>3, SameBlocks DEF Exit
    <2>4. CASE Assign(x, LoadAs(y, TypeOf[x], g), {}, g)
      BY <1>2, <2>1, <2>4, AssignBlock
    <2> QED
      BY <2>2, <2>3, <2>4
  <1>12. CASE UNCHANGED vars
    BY <1>12, SameBlocks DEF vars, NInv
  <1> QED
    BY <1>4, <1>5, <1>6, <1>7, <1>8, <1>9, <1>10, <1>11, <1>12 DEF Next

(* In every reachable state the blocks are well-formed.                    *)
LEMMA NInvHolds == Spec => []NInv
  BY NInvInit, NInvNext, PTL DEF Spec

(* The type invariant of the numbers, for every width.                     *)
THEOREM NumbersTypeCorrect == Spec => []TypeOK
  <1>1. NInv => TypeOK
    BY DEF NInv, TypeOK, Block, Bytes
  <1> QED
    BY <1>1, NInvHolds, PTL

(* A parameter is what was passed: a load gives a number that fits, which  *)
(* is read back from its bytes; and an uninitialized int is filled again   *)
(* with what filled it before.                                             *)
LEMMA PassedSame ==
  ASSUME NInv, NEW x \in Vars, NEW y \in Vars, PassArg(x, y)
  PROVE  Load(x)' = Load(y)
  <1> DEFINE t == TypeOf[y]
             v == Load(y)
             d == dump_repr(v)
             n == bytes_in_num_type(t)
  <1>1. t \in num_type_t /\ Emu(t, v) /\ v.val \in 0 .. (Modulus(t) - 1)
    BY LoadEmu
  <1>2. Load(x)' = EmuNum(t, d.tag, d.bytes)
    <2>1. TypeOf[x] = t /\ store' = [store EXCEPT ![x] = d]
      BY DEF PassArg
    <2>2. DOMAIN store = Vars
      BY DEF NInv, IInv
    <2> HIDE DEF d, t
    <2>3. store'[x] = d
      BY <2>1, <2>2
    <2> QED
      BY <2>1, <2>3 DEF Load
  <1>3. v = EmuNum(t, store[y].tag, store[y].bytes) /\ v.tag = store[y].tag
        /\ v.val = BytesValue(t, store[y].bytes)
    BY DEF Load, EmuNum
  <1>4. CASE v.status = "UNINITIALIZED"
    <2>1. store[y].tag = UninitTag("INT")
      BY <1>4 DEF Load, EmuNum
    <2>2. Own(t, store[y].tag)
      BY DEF NInv, IInv, TagsAreTruthful, Own
    <2>3. d.tag = UninitTag(t) /\ d.bytes = [k \in 1 .. n |-> 1]
      BY <1>1, <1>4 DEF dump_repr, Emu
    <2>4. UninitTag(t) = UninitTag("INT")
      <3>1. store[y].tag.id = id_from_num_type("INT")
        BY <2>1 DEF UninitTag
      <3>2. id_from_num_type("INT") # "ZERO_ID"
        BY DEF id_from_num_type
      <3>3. id_from_num_type(t) = id_from_num_type("INT")
        BY <2>2, <3>1, <3>2 DEF Own
      <3> QED
        BY <3>3 DEF UninitTag
    <2>5. store[y].bytes = [k \in 1 .. n |-> 1]
      <3> DEFINE b == store[y].bytes
      <3>1. b \in [1 .. n -> 0 .. (Base - 1)] /\ \A k \in 1 .. n : b[k] = 1
        BY <2>1 DEF NInv, Block, Bytes
      <3> HIDE DEF b, n
      <3>2. b = [k \in 1 .. n |-> 1]
        BY <3>1
      <3> QED
        BY <3>2 DEF b
    <2> HIDE DEF d, v, n, t
    <2>6. Load(x)' = v
      BY <1>2, <1>3, <2>1, <2>3, <2>4, <2>5
    <2> QED
      BY <2>6 DEF v
  <1>5. CASE v.status # "UNINITIALIZED"
    <2>1. d.tag = v.tag /\ BytesValue(t, d.bytes) = v.val
      BY <1>1, <1>5, DumpRoundTrip
    <2>2. EmuNum(t, d.tag, d.bytes) = EmuNum(t, store[y].tag, store[y].bytes)
      <3> HIDE DEF d, v, t
      <3> QED
        BY <1>3, <2>1 DEF EmuNum
    <2> QED
      BY <1>2, <1>3, <2>2
  <1> QED
    BY <1>4, <1>5

(* A parameter is what was passed, for every type, every width and every   *)
(* content of the block, initialized or not.                               *)
THEOREM ArgumentsArePassed == Spec => ArgsKeepRepresentation
  <1> DEFINE Kept == \A x, y \in Vars : (x # y /\ PassArg(x, y)) => Load(x)' = Load(y)
  <1>1. NInv /\ [Next]_vars => [Kept]_vars
    BY PassedSame
  <1>2. Spec => [][Kept]_vars
    <2> HIDE DEF Kept
    <2> QED
      BY <1>1, NInvHolds, PTL DEF Spec
  <1> QED
    BY <1>2 DEF ArgsKeepRepresentation

-----------------------------------------------------------------------------
(***************************************************************************)
(* The values of ints.                                                     *)
(***************************************************************************)

(* A number in the range of an int is the signed reading of its remainder, *)
(* which is zero only for zero.                                            *)
LEMMA SignedReading ==
  ASSUME NEW i, InRange(i, "INT")
  PROVE  /\ i \in Int
         /\ i % Modulus("INT") \in 0 .. (Modulus("INT") - 1)
         /\ ToSigned(i % Modulus("INT"), Half("INT")) = i
         /\ i % Modulus("INT") = 0 <=> i = 0
  <1> DEFINE M == Modulus("INT")
             h == Half("INT")
  <1>1. M \in Nat \ {0} /\ h \in Nat \ {0} /\ M = 2 * h
    BY Widths DEF num_type_t, SignedTypes
  <1>2. i \in (-h) .. (h - 1)
    BY DEF InRange, is_num_type_signed, SignedTypes
  <1> HIDE DEF M, h
  <1>3. i \in Int
    BY <1>1, <1>2
  <1>4. CASE i >= 0
    <2>1. i \in 0 .. (M - 1)
      BY <1>1, <1>2, <1>3, <1>4
    <2>2. i % M = i
      BY <1>1, <2>1, ModSmall
    <2>3. ToSigned(i, h) = i
      BY <1>1, <1>2, <1>3 DEF ToSigned
    <2> QED
      BY <1>3, <2>1, <2>2, <2>3 DEF M, h
  <1>5. CASE i < 0
    <2>1. i + M \in 0 .. (M - 1) /\ i + M >= h /\ i + M # 0 /\ i + M - 2 * h = i
      BY <1>1, <1>2, <1>3, <1>5
    <2>2. (i + M) % M = i + M
      BY <1>1, <2>1, ModSmall
    <2>3. (i + M * 1) % M = i % M
      <3>1. \A k \in Int : (i + M * k) % M = i % M
        BY <1>1, <1>3, ModShift
      <3> QED
        BY <3>1
    <2>4. M * 1 = M
      BY <1>1
    <2>5. i % M = i + M
      BY <2>2, <2>3, <2>4
    <2>6. ToSigned(i + M, h) = i
      BY <1>1, <1>3, <2>1 DEF ToSigned
    <2> QED
      BY <1>3, <1>5, <2>1, <2>5, <2>6 DEF M, h
  <1> QED
    BY <1>1, <1>3, <1>4, <1>5

(* The number v stands for the value in m, if there is one.                *)
Means(v, m) == \A i \in m : v.status = "DEFINED" /\ v.val = i % Modulus("INT")

(* The signed reading of an integer differs by a multiple of the modulus.  *)
LEMMA ToSignedMod ==
  ASSUME NEW R \in Int
  PROVE  ToSigned(R, Half("INT")) \in Int /\ ToSigned(R, Half("INT")) % Modulus("INT") = R % Modulus("INT")
  <1> DEFINE M == Modulus("INT")
             h == Half("INT")
  <1>1. M \in Nat \ {0} /\ h \in Nat \ {0} /\ M = 2 * h
    BY Widths DEF num_type_t, SignedTypes
  <1> HIDE DEF M, h
  <1>2. ToSigned(R, h) = R \/ ToSigned(R, h) = R + M * (-1)
    BY <1>1 DEF ToSigned
  <1>3. \A k \in Int : (R + M * k) % M = R % M
    BY <1>1, ModShift
  <1>4. (R + M * (-1)) % M = R % M /\ R + M * (-1) \in Int
    BY <1>1, <1>3
  <1> QED
    BY <1>2, <1>4 DEF M, h

(* What C defines for an operator on ints, before the look at the range.   *)
Exact(op, i, j) ==
  CASE op = "add" -> i + j
    [] op = "sub" -> i - j
    [] op = "mul" -> i * j
    [] op = "div" -> Quotient(i, j)
    [] op \in {"or", "and"} ->
         ToSigned(Result(op, "INT", i % Modulus("INT"), j % Modulus("INT")), Half("INT"))

(* On ints that stand for what C means, the operators compute what C       *)
(* defines, modulo the width.                                              *)
LEMMA ResultMeans ==
  ASSUME NEW op \in Ops, NEW i, NEW j, InRange(i, "INT"), InRange(j, "INT"), op = "div" => j # 0,
         NEW r, r = Exact(op, i, j)
  PROVE  /\ Result(op, "INT", i % Modulus("INT"), j % Modulus("INT")) \in Int
         /\ Result(op, "INT", i % Modulus("INT"), j % Modulus("INT")) % Modulus("INT")
              = r % Modulus("INT")
  <1> DEFINE M == Modulus("INT")
             h == Half("INT")
             a == i % M
             b == j % M
             R == Result(op, "INT", a, b)
  <1>1. M \in Nat \ {0} /\ h \in Nat \ {0} /\ "INT" \in num_type_t
    BY Widths DEF num_type_t, SignedTypes
  <1>2. i \in Int /\ a \in 0 .. (M - 1) /\ ToSigned(a, h) = i
    BY SignedReading
  <1>3. j \in Int /\ b \in 0 .. (M - 1) /\ ToSigned(b, h) = j /\ (b = 0 <=> j = 0)
    BY SignedReading
  <1>4. a \in Nat /\ b \in Nat
    BY <1>1, <1>2, <1>3
  <1>5. R \in Int
    <2> HIDE DEF a, b, M
    <2>1. op = "div" => b # 0 /\ ToSigned(b, Half("INT")) # 0
      BY <1>3
    <2> QED
      BY <1>1, <1>4, <2>1, ResultInt
  <1>6. CASE op = "add"
    <2>1. R = a + b /\ r = i + j
      BY <1>6 DEF Result, Exact
    <2>2. (a + b) % M = (i + j) % M
      <3> HIDE DEF M
      <3> QED
        BY <1>1, <1>2, <1>3, ModAdd
    <2> QED
      BY <1>5, <2>1, <2>2
  <1>7. CASE op = "sub"
    <2>1. R = a - b /\ r = i - j
      BY <1>7 DEF Result, Exact
    <2>2. (a - b) % M = (i - j) % M
      <3> HIDE DEF M
      <3> QED
        BY <1>1, <1>2, <1>3, ModAdd
    <2> QED
      BY <1>5, <2>1, <2>2
  <1>8. CASE op = "mul"
    <2>1. R = a * b /\ r = i * j
      BY <1>8 DEF Result, Exact
    <2>2. (a * b) % M = (i * j) % M
      <3> HIDE DEF M
      <3> QED
        BY <1>1, <1>2, <1>3, ModMul
    <2> QED
      BY <1>5, <2>1, <2>2
  <1>9. CASE op = "div"
    <2>1. R = Quotient(ToSigned(a, h), ToSigned(b, h)) /\ r = Quotient(i, j)
      BY <1>9 DEF Result, Exact, is_num_type_signed, SignedTypes
    <2>2. R = r
      BY <1>2, <1>3, <2>1
    <2> QED
      BY <1>5, <2>2
  <1>10. CASE op \in {"or", "and"}
    <2>1. r = ToSigned(R, h)
      BY <1>10 DEF Exact
    <2> HIDE DEF R
    <2>2. ToSigned(R, h) % M = R % M
      BY <1>5, ToSignedMod
    <2>3. R \in Int /\ R % M = r % M
      BY <1>5, <2>1, <2>2
    <2> QED
      BY <2>3 DEF R
  <1> QED
    BY <1>6, <1>7, <1>8, <1>9, <1>10 DEF Ops

(* Arithmetic on ints.                                                     *)
LEMMA ArithMeans ==
  ASSUME NEW op \in Ops, NEW a, NEW b, NEW g, NEW as, NEW bs, a.type = "INT",
         Means(a, as), Means(b, bs),
         \A i \in as : InRange(i, "INT"), \A j \in bs : InRange(j, "INT")
  PROVE  Means(Arith(op, a, b, g), MeantResult(op, "INT", as, bs))
  <1> SUFFICES ASSUME NEW r \in MeantResult(op, "INT", as, bs)
               PROVE  /\ Arith(op, a, b, g).status = "DEFINED"
                      /\ Arith(op, a, b, g).val = r % Modulus("INT")
    BY DEF Means
  <1> DEFINE M == Modulus("INT")
  <1>1. PICK p \in as \X (IF op = "div" THEN bs \ {0} ELSE bs) : r = Exact(op, p[1], p[2])
    BY DEF MeantResult, MeantAs, Exact
  <1>2. PICK i \in as, j \in bs : r = Exact(op, i, j) /\ (op = "div" => j # 0)
    <2>1. p[1] \in as /\ p[2] \in (IF op = "div" THEN bs \ {0} ELSE bs)
      BY <1>1
    <2> QED
      BY <1>1, <2>1
  <1>3. InRange(i, "INT") /\ InRange(j, "INT")
    OBVIOUS
  <1>4. a.status = "DEFINED" /\ b.status = "DEFINED" /\ a.val = i % M /\ b.val = j % M
    BY DEF Means
  <1>5. Result(op, "INT", i % M, j % M) % M = r % M
    BY <1>2, <1>3, ResultMeans
  <1>6. op = "div" => b.val # 0
    BY <1>2, <1>3, <1>4, SignedReading
  <1>7. Arith(op, a, b, g) = Num("INT", Result(op, "INT", i % M, j % M))
    BY <1>4, <1>6 DEF Arith
  <1> QED
    BY <1>5, <1>7 DEF Num

(* What is dumped for a number with the tag of an int is read back as what *)
(* it stands for.                                                          *)
LEMMA DumpMeans ==
  ASSUME NEW v, Emu("INT", v), v.tag = Tag("INT_ID"), NEW m, Means(v, m),
         \A i \in m : InRange(i, "INT")
  PROVE  Means(EmuNum("INT", dump_repr(v).tag, dump_repr(v).bytes), m)
  <1> SUFFICES ASSUME NEW i \in m
               PROVE  LET w == EmuNum("INT", dump_repr(v).tag, dump_repr(v).bytes)
                      IN  w.status = "DEFINED" /\ w.val = i % Modulus("INT")
    BY DEF Means
  <1>1. v.status = "DEFINED" /\ v.val = i % Modulus("INT")
    BY DEF Means
  <1>2. v.val \in 0 .. (Modulus("INT") - 1)
    BY <1>1, SignedReading
  <1>3. dump_repr(v).tag = Tag("INT_ID") /\ BytesValue("INT", dump_repr(v).bytes) = v.val
    <2>1. "INT" \in num_type_t /\ v.status # "UNINITIALIZED"
      BY <1>1 DEF num_type_t, SignedTypes
    <2> QED
      BY <1>2, <2>1, DumpRoundTrip
  <1>4. Tag("INT_ID") # UninitTag("INT")
    BY DEF Tag, UninitTag
  <1> QED
    BY <1>1, <1>3, <1>4 DEF EmuNum

(* The instance about values: every variable is an int.                    *)
AllInts == \A x \in Vars : TypeOf[x] = "INT"

VInv == NInv /\ ValuesMatchC

(* The statement of ValuesMatchC by what numbers stand for.                *)
LEMMA MatchIsMeans ==
  ASSUME AllInts
  PROVE  ValuesMatchC <=> \A x \in Vars : Means(Load(x), meant[x])
  BY DEF AllInts, ValuesMatchC, Means

(* One variable is written, with a block that is read as what is meant.    *)
LEMMA WrittenMeans ==
  ASSUME AllInts, VInv, NEW x \in Vars, NEW d, NEW m, Means(EmuNum("INT", d.tag, d.bytes), m),
         store' = [store EXCEPT ![x] = d], meant' = [meant EXCEPT ![x] = m]
  PROVE  ValuesMatchC'
  <1>1. \A y \in Vars : store'[y] = IF y = x THEN d ELSE store[y]
    BY DEF VInv, NInv, IInv
  <1>2. \A y \in Vars : meant'[y] = IF y = x THEN m ELSE meant[y]
    BY DEF VInv, NInv
  <1> SUFFICES ASSUME NEW y \in Vars, NEW i \in meant'[y]
               PROVE  Load(y)'.val = i % Modulus(TypeOf[y]) /\ Load(y)'.status = "DEFINED"
    BY DEF ValuesMatchC
  <1>3. CASE y = x
    <2>1. Load(y)' = EmuNum("INT", d.tag, d.bytes) /\ i \in m /\ TypeOf[y] = "INT"
      BY <1>1, <1>2, <1>3 DEF Load, AllInts
    <2> QED
      BY <2>1 DEF Means
  <1>4. CASE y # x
    <2>1. Load(y)' = Load(y) /\ i \in meant[y]
      BY <1>1, <1>2, <1>4 DEF Load
    <2> QED
      BY <2>1 DEF VInv, ValuesMatchC
  <1> QED
    BY <1>3, <1>4

(* Assigning an int that stands for what C means.                          *)
LEMMA AssignMeans ==
  ASSUME AllInts, VInv, NEW x \in Vars, NEW v, NEW m, NEW g, Assign(x, v, m, g),
         v.type = "INT", v.val \in Nat, Means(v, m)
  PROVE  ValuesMatchC'
  <1> DEFINE w == Num("INT", v.val)
             d == dump_repr(w)
             k == MeantAs(m, "INT")
             M == Modulus("INT")
  <1>1. TypeOf[x] = "INT" /\ "INT" \in num_type_t /\ M \in Nat \ {0}
    BY Widths DEF AllInts, num_type_t, SignedTypes
  <1>2. cast_to(Converted(v, "INT", g), "INT", g) = w
    BY DEF Converted, cast_to, is_num_type_signed, SignedTypes
  <1>3. store' = [store EXCEPT ![x] = d] /\ meant' = [meant EXCEPT ![x] = k]
    BY <1>1, <1>2 DEF Assign
  <1>4. \A i \in k : i \in m /\ InRange(i, "INT")
    BY DEF MeantAs
  <1>5. Means(w, k)
    <2> SUFFICES ASSUME NEW i \in k
                 PROVE  v.val % M = i % M
      BY DEF Means, Num
    <2>1. v.val = i % M /\ i \in Int
      BY <1>4, SignedReading DEF Means
    <2> HIDE DEF M
    <2> QED
      BY <1>1, <2>1, ModTwice
  <1>6. Emu("INT", w) /\ w.tag = Tag("INT_ID")
    <2>1. w.tag = Tag("INT_ID")
      BY DEF Num, id_from_num_type
    <2> QED
      BY <1>1, <2>1, NumEmu
  <1> HIDE DEF w, k
  <1>7. Means(EmuNum("INT", d.tag, d.bytes), k)
    BY <1>4, <1>5, <1>6, DumpMeans
  <1> HIDE DEF d
  <1> QED
    BY <1>3, <1>7, WrittenMeans

(* Globals start as zero.                                                  *)
LEMMA MatchInit ==
  ASSUME AllInts, Init
  PROVE  ValuesMatchC
  <1>1. PICK globals \in SUBSET Vars :
               /\ store = [x \in Vars |->
                     IF x \in globals
                     THEN [tag |-> ZeroTag, bytes |-> [k \in 1..bytes_in_num_type(TypeOf[x]) |-> 0]]
                     ELSE dump_repr(NumStatus(TypeOf[x], "UNINITIALIZED", 0))]
               /\ meant = [x \in Vars |-> IF x \in globals THEN {0} ELSE {}]
    BY DEF Init
  <1> SUFFICES ASSUME NEW x \in Vars, NEW i \in meant[x]
               PROVE  Load(x).val = i % Modulus(TypeOf[x]) /\ Load(x).status = "DEFINED"
    BY DEF ValuesMatchC
  <1> DEFINE n == bytes_in_num_type("INT")
             z == [k \in 1 .. n |-> 0]
  <1>2. TypeOf[x] = "INT" /\ "INT" \in num_type_t
    BY DEF AllInts, num_type_t, SignedTypes
  <1>3. i = 0 /\ store[x].tag = ZeroTag /\ store[x].bytes = z
    BY <1>1, <1>2
  <1>4. n \in Nat /\ Base \in Nat \ {0} /\ Modulus("INT") \in Nat \ {0} /\ ByteBits \in Nat
    BY <1>2, Widths, WidthsAssumption
  <1>5. \A k \in 1 .. n : z[k] = ByteOf(0, k, n)
    <2> SUFFICES ASSUME NEW k \in 1 .. n
                 PROVE  ByteOf(0, k, n) = 0
      OBVIOUS
    <2> DEFINE e == ByteBits * (n - k)
               p == 2 ^ e
    <2>1. n - k \in Nat
      BY <1>4
    <2>2. e \in Nat
      BY <1>4, <2>1
    <2>3. p \in Nat \ {0}
      BY <2>2, PowPos
    <2>4. (0 \div p) % Base = 0
      <3> HIDE DEF p
      <3>1. 0 \div p = 0
        BY <2>3
      <3> QED
        BY <1>4, <3>1
    <2> QED
      BY <2>4 DEF ByteOf
  <1>6. BytesValue("INT", z) = 0
    <2> DEFINE zero == 0
    <2>1. zero \in 0 .. (Modulus("INT") - 1) /\ \A k \in 1 .. n : z[k] = ByteOf(zero, k, n)
      BY <1>4, <1>5
    <2> HIDE DEF zero, z
    <2>2. BytesValue("INT", z) = zero
      BY <1>2, <2>1, BytesRoundTrip
    <2> QED
      BY <2>2 DEF zero
  <1>7. 0 % Modulus("INT") = 0
    BY <1>4
  <1>8. ZeroTag # UninitTag("INT")
    BY DEF ZeroTag, UninitTag, Tag
  <1> HIDE DEF z
  <1>9. Load(x) = EmuNum("INT", ZeroTag, z)
    BY <1>2, <1>3 DEF Load
  <1> QED
    BY <1>2, <1>3, <1>6, <1>7, <1>8, <1>9 DEF EmuNum

(* Negation and logical negation.                                          *)
LEMMA UnaryMeans ==
  ASSUME NEW a, a.type = "INT", NEW as, Means(a, as), \A i \in as : InRange(i, "INT"), NEW g
  PROVE  /\ Means(neg(a, g), {-i : i \in as})
         /\ Means(lnot(a, g), {IF i = 0 THEN 1 ELSE 0 : i \in as})
  <1> DEFINE M == Modulus("INT")
  <1>1. M \in Nat \ {0}
    BY Widths DEF num_type_t, SignedTypes
  <1>2. ASSUME NEW i \in as
        PROVE  /\ neg(a, g).status = "DEFINED" /\ neg(a, g).val = (-i) % M
               /\ lnot(a, g).status = "DEFINED" /\ lnot(a, g).val = (IF i = 0 THEN 1 ELSE 0) % M
    <2>1. a.status = "DEFINED" /\ a.val = i % M
      BY DEF Means
    <2>2. i \in Int /\ (i % M = 0 <=> i = 0)
      BY SignedReading
    <2>3. (-(i % M)) % M = (-i) % M
      <3> HIDE DEF M
      <3> QED
        BY <1>1, <2>2, ModNeg
    <2>4. neg(a, g) = Num("INT", -(i % M)) /\ lnot(a, g) = Num("INT", IF i = 0 THEN 1 ELSE 0)
      BY <2>1, <2>2 DEF neg, lnot
    <2> QED
      BY <2>3, <2>4 DEF Num
  <1> QED
    BY <1>2 DEF Means

(* Every step of a program over ints leaves what C defines in the blocks.  *)
LEMMA MatchNext ==
  ASSUME AllInts, VInv, Next
  PROVE  ValuesMatchC'
  <1>1. \A y \in Vars : /\ TypeOf[y] = "INT" /\ Load(y).type = "INT" /\ Load(y).val \in Nat
                        /\ Emu("INT", Load(y)) /\ Load(y).val \in 0 .. (Modulus("INT") - 1)
    BY LoadEmu, LoadStatus DEF AllInts, VInv
  <1>2. \A y \in Vars : Means(Load(y), meant[y])
    BY MatchIsMeans DEF VInv
  <1>3. \A y \in Vars : \A i \in meant[y] : InRange(i, "INT")
    BY <1>1 DEF VInv, NInv
  <1>4. "INT" \in num_type_t /\ \A g \in Garbage : g \in Nat
    BY WidthsAssumption DEF num_type_t, SignedTypes
  <1>5. ASSUME NEW x \in Vars, DeclUninit(x)
        PROVE  ValuesMatchC'
    <2> DEFINE d == dump_repr(NumStatus(TypeOf[x], "UNINITIALIZED", 0))
               m == {}
    <2>1. store' = [store EXCEPT ![x] = d] /\ meant' = [meant EXCEPT ![x] = m]
      BY <1>5 DEF DeclUninit
    <2>2. Means(EmuNum("INT", d.tag, d.bytes), m)
      BY DEF Means
    <2> HIDE DEF d, m
    <2> QED
      BY <2>1, <2>2, WrittenMeans
  <1>6. ASSUME NEW x \in Vars, NEW g \in Garbage, NEW n \in Literals, AssignLit(x, n, g)
        PROVE  ValuesMatchC'
    <2> DEFINE v == Num("INT", n)
               m == {n}
    <2>1. n \in Int
      BY WidthsAssumption
    <2>2. v.type = "INT" /\ v.val \in Nat
      BY <1>4, <2>1, NumEmu DEF Emu
    <2>3. Means(v, m)
      BY DEF Means, Num
    <2>4. Assign(x, v, m, g)
      BY <1>6 DEF AssignLit
    <2> HIDE DEF v, m
    <2> QED
      BY <2>2, <2>3, <2>4, AssignMeans
  <1>7. ASSUME NEW x \in Vars, NEW y \in Vars, NEW g \in Garbage, AssignVar(x, y, g)
        PROVE  ValuesMatchC'
    BY <1>1, <1>2, <1>7, AssignMeans DEF AssignVar
  <1>8. ASSUME NEW x \in Vars, NEW y \in Vars, NEW g \in Garbage, AssignNeg(x, y, g)
        PROVE  ValuesMatchC'
    <2> DEFINE v == neg(Load(y), g)
               k == {-i : i \in meant[y]}
               m == MeantAs(k, TypeOf[y])
    <2>1. Means(v, k)
      BY <1>1, <1>2, <1>3, UnaryMeans
    <2>2. Means(v, m)
      <3> HIDE DEF v, k
      <3> QED
        BY <2>1 DEF Means, MeantAs
    <2>3. v.type = "INT" /\ v.val \in Nat
      BY <1>1, <1>4, UnaryEmu DEF Emu
    <2>4. Assign(x, v, m, g)
      BY <1>8 DEF AssignNeg
    <2> HIDE DEF v, m
    <2> QED
      BY <2>2, <2>3, <2>4, AssignMeans
  <1>9. ASSUME NEW x \in Vars, NEW y \in Vars, NEW g \in Garbage, AssignLNot(x, y, g)
        PROVE  ValuesMatchC'
    <2> DEFINE v == lnot(Load(y), g)
               m == {IF i = 0 THEN 1 ELSE 0 : i \in meant[y]}
    <2>1. Means(v, m)
      BY <1>1, <1>2, <1>3, UnaryMeans
    <2>2. v.type = "INT" /\ v.val \in Nat
      BY <1>1, <1>4, UnaryEmu DEF Emu
    <2>3. Assign(x, v, m, g)
      BY <1>9 DEF AssignLNot
    <2> HIDE DEF v, m
    <2> QED
      BY <2>1, <2>2, <2>3, AssignMeans
  <1>10. ASSUME NEW x \in Vars, NEW y \in Vars, NEW z \in Vars, NEW op \in Ops, NEW g \in Garbage,
                AssignOp(x, op, y, z, g)
         PROVE  ValuesMatchC'
    <2> DEFINE v == Arith(op, Load(y), Load(z), g)
               m == MeantResult(op, "INT", meant[y], meant[z])
    <2>1. Means(v, m)
      BY <1>1, <1>2, <1>3, ArithMeans
    <2>2. v.type = "INT" /\ v.val \in Nat
      BY <1>1, <1>4, ArithEmu DEF Emu
    <2>3. Assign(x, v, m, g)
      BY <1>1, <1>10 DEF AssignOp
    <2> HIDE DEF v, m
    <2> QED
      BY <2>1, <2>2, <2>3, AssignMeans
  <1>11. ASSUME NEW x \in Vars, NEW y \in Vars, NEW z \in Vars, NEW op \in Relations,
                NEW g \in Garbage, AssignCompare(x, op, y, z, g)
         PROVE  ValuesMatchC'
    <2> DEFINE c == Compare(op, Load(y).val, Load(z).val, Half("INT"))
               v == Num("INT", IF c THEN 1 ELSE 0)
               m == {IF Holds(op, p[1], p[2]) THEN 1 ELSE 0 : p \in meant[y] \X meant[z]}
    <2>1. Assign(x, v, m, g)
      BY <1>1, <1>11 DEF AssignCompare
    <2>2. ASSUME NEW i \in meant[y], NEW j \in meant[z]
          PROVE  c <=> Holds(op, i, j)
      <3> DEFINE M == Modulus("INT")
                 h == Half("INT")
      <3>1. Load(y).val = i % M /\ Load(z).val = j % M
        BY <1>2 DEF Means
      <3>2. i % M \in 0 .. (M - 1) /\ j % M \in 0 .. (M - 1)
            /\ ToSigned(i % M, h) = i /\ ToSigned(j % M, h) = j
        BY <1>3, SignedReading
      <3>3. h \in Nat \ {0} /\ M = 2 * h
        BY <1>4, Widths
      <3>4. Compare(op, i % M, j % M, h) <=> Holds(op, ToSigned(i % M, h), ToSigned(j % M, h))
        <4> HIDE DEF h
        <4> QED
          BY <3>2, <3>3, CompareIsSigned
      <3> QED
        BY <3>1, <3>2, <3>4
    <2>3. Means(v, m)
      <3> SUFFICES ASSUME NEW p \in meant[y] \X meant[z]
                   PROVE  v.status = "DEFINED"
                          /\ v.val = (IF Holds(op, p[1], p[2]) THEN 1 ELSE 0) % Modulus("INT")
        BY DEF Means
      <3>1. p[1] \in meant[y] /\ p[2] \in meant[z]
        OBVIOUS
      <3>2. c <=> Holds(op, p[1], p[2])
        BY <2>2, <3>1
      <3> HIDE DEF c
      <3> QED
        BY <3>2 DEF Num
    <2>4. v.type = "INT" /\ v.val \in Nat
      <3>1. (IF c THEN 1 ELSE 0) \in Int
        OBVIOUS
      <3> QED
        BY <1>4, <3>1, NumEmu DEF Emu
    <2> HIDE DEF v, m
    <2> QED
      BY <2>1, <2>3, <2>4, AssignMeans
  <1>12. ASSUME NEW x \in Vars, NEW y \in Vars, NEW op \in {"add", "sub"}, NEW g \in Garbage,
                AddAssign(x, op, y, g)
         PROVE  ValuesMatchC'
    <2> DEFINE v == Arith(op, Load(x), Load(y), g)
               d == dump_repr(v)
               m == MeantResult(op, "INT", meant[x], meant[y])
    <2>1. op \in Ops
      BY DEF Ops
    <2>2. Means(v, m)
      BY <1>1, <1>2, <1>3, <2>1, ArithMeans
    <2>3. Emu("INT", v)
      BY <1>1, <1>4, <2>1, ArithEmu
    <2>4. v.tag = Tag("INT_ID")
      <3>1. \/ \E s : v = NumStatus("INT", s, g)
            \/ \E i : v = Num("INT", i)
        BY <1>1, LoadStatus DEF Arith
      <3> HIDE DEF v
      <3> QED
        BY <3>1 DEF Num, NumStatus, id_from_num_type
    <2>5. \A i \in m : InRange(i, "INT")
      BY DEF MeantResult, MeantAs
    <2>6. store' = [store EXCEPT ![x] = d] /\ meant' = [meant EXCEPT ![x] = m]
      BY <1>1, <1>12 DEF AddAssign
    <2> HIDE DEF v, m
    <2>7. Means(EmuNum("INT", d.tag, d.bytes), m)
      BY <2>2, <2>3, <2>4, <2>5, DumpMeans
    <2> HIDE DEF d
    <2> QED
      BY <2>6, <2>7, WrittenMeans
  <1>13. ASSUME NEW x \in Vars, NEW y \in Vars, PassArg(x, y)
         PROVE  ValuesMatchC'
    <2> DEFINE d == dump_repr(Load(y))
               m == meant[y]
    <2>1. store' = [store EXCEPT ![x] = d] /\ meant' = [meant EXCEPT ![x] = m]
      BY <1>13 DEF PassArg
    <2>2. Load(x)' = Load(y)
      BY <1>13, PassedSame DEF VInv
    <2>3. Load(x)' = EmuNum("INT", d.tag, d.bytes)
      <3>1. DOMAIN store = Vars
        BY DEF VInv, NInv, IInv
      <3> HIDE DEF d
      <3>2. store'[x] = d
        BY <2>1, <3>1
      <3> QED
        BY <1>1, <3>2 DEF Load
    <2>4. Means(EmuNum("INT", d.tag, d.bytes), m)
      BY <1>2, <2>2, <2>3
    <2> HIDE DEF d, m
    <2> QED
      BY <2>1, <2>4, WrittenMeans
  <1>14. ASSUME NEW x \in Vars, NEW y \in Vars, NEW g, Reinterpret(x, y, g)
         PROVE  ValuesMatchC'
    BY <1>1, <1>14 DEF Reinterpret
  <1> QED
    BY <1>5, <1>6, <1>7, <1>8, <1>9, <1>10, <1>11, <1>12, <1>13, <1>14 DEF Next

(* In programs over ints of any width, the bytes in the block of a         *)
(* variable are the value that C defines for it, in two's complement, and  *)
(* are read as defined: through assignments, arithmetic, comparisons,      *)
(* compound assignments and calls.                                         *)
THEOREM IntsMatchC ==
  ASSUME AllInts
  PROVE  Spec => []ValuesMatchC
  <1>1. Init => VInv
    BY NInvInit, MatchInit DEF VInv
  <1>2. VInv /\ [Next]_vars => VInv'
    <2> SUFFICES ASSUME VInv, [Next]_vars
                 PROVE  VInv'
      OBVIOUS
    <2>1. NInv'
      BY NInvNext DEF VInv
    <2>2. CASE Next
      BY <2>1, <2>2, MatchNext DEF VInv
    <2>3. CASE UNCHANGED vars
      BY <2>1, <2>3 DEF VInv, vars, ValuesMatchC, Load
    <2> QED
      BY <2>2, <2>3
  <1>3. VInv => ValuesMatchC
    BY DEF VInv
  <1> QED
    BY <1>1, <1>2, <1>3, PTL DEF Spec

=============================================================================
