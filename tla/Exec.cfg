CONSTANTS
  Names <- MCNames
  IdSpace = 32
  NumGlobals = 1
  MaxFrames = 12
  Stmts <- MCStmts
  Exprs <- MCExprs
  Funcs <- MCFuncs
  Mains = {"main", "main_odd", "main_end"}
  MaxIter = 3
SPECIFICATION ExecSpec
INVARIANTS ExecTypeOK SourceFollowsCalls LocalsExpire OwnNamesStayLocal VaListsStayInCall
PROPERTIES FramesRestored Terminates
CHECK_DEADLOCK FALSE
