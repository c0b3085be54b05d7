SPECIFICATION Spec
CONSTANTS
  BufferSize = 2
  QueueMax = 2
  ConsoleMax = 4
  HistoryLimit = 2
  Lines <- MCLines
  Ancestry <- MCAncestry
  Direct <- MCDirect
  Source <- MCSource
  Own = "app"
  Threshold = 20
  Streams = {"s1", "s2"}
  NoStream = NoStream
  Filters <- MCFilters
  Configs <- MCConfigs
  NoConfig = NoConfig
  ReloadTicks = 2
  MaxRecords = 3
  MaxDay = 2
INVARIANTS
  TypeOK
  RecordsOnce
  OffMeansOff
  OneSeam
PROPERTIES
  CatchesUp
CHECK_DEADLOCK FALSE
