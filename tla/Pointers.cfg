CONSTANTS
  g = g
  p = p
  Names <- MCNames
  GlobalVars <- MCGlobalVars
  IdSpace = 9
  NumGlobals = 1
  MaxFrames = 3
  MaxVars = 1
SPECIFICATION PtrSpec
INVARIANTS PtrTypeOK NoForgedPointers
PROPERTIES DoubleFreeDetected DeletedOnlyThroughNames WildOnlyFromUndefined
CHECK_DEADLOCK FALSE
