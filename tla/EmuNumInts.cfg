CONSTANTS
  i = i
  j = j
  ch = ch
  ci = ci
  Vars <- IntVars
  TypeOf <- IntTypes
  bits_in_num_type <- MCBits
  ByteBits = 2
  TagBytes = 2
  Literals <- Sample
  Garbage <- Host
SPECIFICATION Spec
INVARIANTS TypeOK 
