SPECIFICATION SessionSpec
CONSTANTS
  FileLines = {}
  MaxIniLines = 0
  MaxSaves = 3
  Clock = 0
PROPERTIES ProtectionEnds
CHECK_DEADLOCK FALSE
