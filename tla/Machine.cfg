SPECIFICATION Spec
CONSTANTS
  Instrs <- MCInstrs
  SkewInstrs <- MCSkewInstrs
  HaltHops = {1, 5}
  Channels = {0}
  Program <- MCProgram
  MaxLoops = 1
  KnockBytes = {0, 1}
  LockSeq <- MCLockSeq
  MaxAhead = 1
  Starts = {0}
  Tapes <- MCTapes
  PulseMod = 3
  LastAddr = 1
  MemAt = {0}
  IoAt = {1}
  MaxExec = 1
  MaxList = 2
  MaxEdits = 2
  Operands = {9, 153}
  RamConfigs = {0, 2}
  RamBanks = {1}
  RamExts = {0, 1}
  RomSelects = {0, 130}
  CartLowers = {2}
  CartSizes = {0, 3}
  ExpansionLens = {0, 9}
  SavedRegs <- MCSavedRegs
INVARIANTS EnginesAgree ChipsRight CacheCoherent PagesExist ArithmeticRight
PROPERTIES NoRetrip 
