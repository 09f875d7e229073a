CONSTANTS
  Names <- MCNames
  Programs <- MCPrograms
  MaxDecls = 3
  IdSpace = 8
  NumGlobals = 0
  MaxFrames = 1
  FidSpace = 5
SPECIFICATION StartupSpec
INVARIANTS StartupTypeOK DeclarationsFindDefinition FunctionIdsUnique 
CHECK_DEADLOCK FALSE
