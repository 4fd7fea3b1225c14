SPECIFICATION Spec
CONSTANTS
  Streams <- MCStreams
  Drivers = {"xonxoff", "enq", "deaf"}
  FifoSize = 1
  InBuf = 2
  RespSize = 2
  EnqMax = 2
  XoffBelow = 1
  XonAbove = 1
  MaxSegs = 1
  Backends = {"plotter", "null", "file"}
  MaxObjs = 2
  MaxInput = 2
  RingSize = 1
  Programs <- MCPrograms
  SdFiles <- MCSdFiles
  SdDirs <- MCSdDirs
  Slots = {1, 2}
  BindTries = 2
  MaxPort = 82
  TakenPorts = {}
  UserPort = 82
  Served <- MCServed
  Managed <- MCManaged
  WebPaths <- MCWebPaths
  Keys = {"a"}
  Modes = {"Direct", "BufferedUntilRead", "Min2Frames"}
  Texts <- MCTexts
  ScanTimeout = 2
  MaxRecorded = 2
  IpcCommands <- MCIpcCommands
  RomBoardSlots = {2}
  MaxImages = 2
  MaxEvents = 2
  MaxLines = 1
  Intervals = {0, 2}
INVARIANTS SerialRight  KeysRight ClientRight
 
CHECK_DEADLOCK FALSE
