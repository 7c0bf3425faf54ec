SPECIFICATION ReadSpec
CONSTANTS
  Nibble = 3
  SectorSize = 4
  SectorsPerCluster = 2
  FatSector = 1
  DataSector = 5
  Chain <- MCChain
  EndMark = 70
  StopValues = {0, 90}
  OtherValues = {4, 70}
  MaxReadPos = 9
  MaxSize = 11
  MaxItems = 2
PROPERTY FatStreamInTable
CHECK_DEADLOCK FALSE
