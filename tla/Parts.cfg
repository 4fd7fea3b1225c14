SPECIFICATION Spec
CONSTANTS
  Pre <- MCPre
  EnvMax = 1
  Bytes = {0, 11, 13, 255}
  RegOf <- MCRegOf
  PeriodOf <- MCPeriodOf
  Reset = 0
  NmiHold = 2
  Pattern <- MCPattern
  SectorBytes = 1
  Sectors <- MCSectors
  CountMod = 2
  MaxVersion = 1
  FifoMax = 2
  MaxMove = 1
  PadButtons = {"up", "left", "fire"}
  Devices = {"d", "e", "f"}
  ResetFrames = 2
  Dsk = {d1, d2}
  Ipf = {i1}
  Scp = {s1}
  Bad = {i1, d2}
  Refused = {s1}
  Hosts = {ui_thread, ipc_thread}
  NoFile = NoFile
  MaxOps = 2
  MaxWrites = 1
  MaxUnits = 3
  RingSlots = 3
  MaxPending = 3
  Typed <- MCTyped
  FileNames = {"a", "b"}
  FileSizes = {0, 3, 9}
  DirSlots = 3
  NBlocks = 6
  Reach = 4
  PerExtent = 2
  BlockBytes = 4
  RecordBytes = 2
  MaxPuts = 2
  EnvTop = 3
  MaxTime = 2
  Args <- MCArgs
  UiPaths = {"p", "q"}
  MruMax = 2
  DialogPaths = {"p"}
  MaxToasts = 2
  TapeBlocks = 2
  RomSlots = {1}
  LayoutNames = {"l"}
  MaxHistory = 2
  MaxDialogs = 1
  MaxOptionEdits = 1
  ArchiveDisks = 2
  TermSize = 3
  MaxTyped = 3
  MaxClicks = 2
  FileLines <- MCFileLines
  MaxIniLines = 3
  MaxSaves = 2
  Clock = 3
  SymNames = {"n", "m"}
  SymLast = 1
  ListLast = 3
  InsnSizes = {1, 3}
  Pokes <- MCPokes
  TraceSizes = {1, 2, 3}
  MaxTrace = 4
  MemSize = 3
  RomCells = {2}
  RomByte = 5
  FillBytes = {5, 7}
  SkipMax = 1
  MaxHits = 2
  Patterns <- MCPatterns
  TextGlobs <- MCTextGlobs
  Texts_ <- MCTexts_
  PaintModes = {0, 1, 2}
  PaintColors = {0, 9}
  HexWidths = {2, 3}
  HexTexts <- MCHexTexts
  DevFiles = {"a"}
  Tracks <- MCTracks
  Ahead = 2
  MaxEdits_ = 1
INVARIANTS PointsIntoBuffer BoardsRight FilesRight UiRight 
 
VIEW BenchView
CHECK_DEADLOCK FALSE
