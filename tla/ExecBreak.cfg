CONSTANTS
  Names <- MCNames
  IdSpace = 32
  NumGlobals = 1
  MaxFrames = 12
  Stmts <- MCStmts
  Exprs <- MCExprs
  Funcs <- MCFuncs
  Mains = {"main_brk"}
  MaxIter = 2
SPECIFICATION ExecSpec
PROPERTY BreakEndsOnlyItsLoop
CHECK_DEADLOCK FALSE
