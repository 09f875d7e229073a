CONSTANTS
  i = i
  j = j
  ch = ch
  ci = ci
  Vars <- MixedVars
  TypeOf <- MixedTypes
  bits_in_num_type <- MCBits
  ByteBits = 2
  TagBytes = 2
  Literals <- MixedSample
  Garbage <- Host
SPECIFICATION Spec
 
PROPERTY ArgsKeepRepresentation
CHECK_DEADLOCK FALSE
