CONSTANTS
  g = g
  p = p
  Names <- MCNames
  GlobalVars <- MCGlobalVars
  IdSpace = 9
  NumGlobals = 1
  MaxFrames = 3
  MaxVars = 1
SPECIFICATION PtrSpec
INVARIANT ExpiredMemoryDetected
CHECK_DEADLOCK FALSE
