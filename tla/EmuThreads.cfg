CONSTANTS
  MainOps = {"reset", "rebuild", "restyle", "pause", "run", "close", "decline"}
  IpcOps = {"pause", "run", "snapshot", "quit"}
  MaxOps = 2
  StepFrames = 2
  SelfQuit = TRUE
  Breakpoints = TRUE
SPECIFICATION Spec
INVARIANTS AtMostOneLateFrame
PROPERTIES RenderNeverStuck
CHECK_DEADLOCK FALSE
