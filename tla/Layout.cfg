CONSTANTS
  RawType = RawBytes
  CTypes <- MCCTypes
  Garbage <- MCGarbage
  MaxSteps = 4
SPECIFICATION Spec
INVARIANTS LayoutTypeOK ZeroInitFits OverrunOnlyBySmallArrays OverreadOnlyByUnions 
PROPERTIES  StoresInOrderSurvive
CHECK_DEADLOCK FALSE
