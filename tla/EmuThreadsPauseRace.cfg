CONSTANTS
  MainOps = {"reset"}
  IpcOps = {}
  MaxOps = 2
  StepFrames = 2
  SelfQuit = FALSE
  Breakpoints = FALSE
SPECIFICATION Spec
INVARIANTS WaitedTouchIsExclusive
CHECK_DEADLOCK FALSE
