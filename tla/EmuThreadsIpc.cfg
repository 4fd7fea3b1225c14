CONSTANTS
  MainOps = {"reset", "close"}
  IpcOps = {"reset", "step"}
  MaxOps = 2
  StepFrames = 2
  SelfQuit = FALSE
  Breakpoints = FALSE
SPECIFICATION Spec
PROPERTIES StepRunsExactly  
CHECK_DEADLOCK FALSE
