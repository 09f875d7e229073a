CONSTANTS
  Names <- MCNames
  Programs <- MCPrograms
  MaxDecls = 3
  IdSpace = 8
  NumGlobals = 0
  MaxFrames = 1
  FidSpace = 5
SPECIFICATION StartupSpec
PROPERTIES InitializersSeeAllGlobals
CHECK_DEADLOCK FALSE
