CONSTANTS
  CrtcType = 3
  HccMod = 5
  RaMod = 4
  VccMod = 4
  FullWidth = 3
  LineMod = 24
  SlMod = 4
  Period = 3
  Half = 2
  Modes = {m0, m1}
  Plus = TRUE
  BootRegs <- MCBootRegs
  BootMode = m0
  Vals <- MCVals
  PriLines = {0, 2}
  MaxWrites = 1
SPECIFICATION Spec
INVARIANTS CacheIsFresh TiersAgree SpanIsExact
PROPERTIES InterruptsApart FrameRestarts
