CONSTANTS
  x = x
  Names <- MCNames
  IdSpace = 7
  NumGlobals = 0
  MaxFrames = 4
SPECIFICATION Spec
INVARIANTS TypeOK StackIndex InScopeBlocksLive
PROPERTIES ScopeExitFreesOnce NoResurrection ImplementsScopes
CHECK_DEADLOCK FALSE
