CONSTANTS
  CrtcType = 0
  HccMod = 5
  RaMod = 4
  VccMod = 4
  FullWidth = 3
  LineMod = 24
  SlMod = 4
  Period = 3
  Half = 2
  Modes = {m0, m1}
  Plus = FALSE
  BootRegs <- MCBootRegs
  BootMode = m0
  Vals <- MCWidthVals
  PriLines = {0}
  MaxWrites = 1
SPECIFICATION Spec
INVARIANTS CacheIsFresh
