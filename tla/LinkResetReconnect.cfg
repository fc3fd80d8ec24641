SPECIFICATION Spec
CONSTANTS
  factory = factory
  custom = custom
  first = first
  second = second
  Configs = {custom}
  FactoryEmpty = FactoryEmpty
  FirstImages <- NoImage
  SampleValues = {7, 1005}
  MaxSequence = 2
  BankCount = 2
  ChunkCount = 1
  CacheCapacity = 3
  CdcQueueCapacity = 4
  Syncs = {first}
  AttemptLimit = 2
  MaxRequestId = 9
  MaxSessions = 2
  PowerCanFail = FALSE
  OtherIds = {3, 5}
  Others = {"reset"}
  Erased = Erased
  Garbled = Garbled
  Nil = Nil
CHECK_DEADLOCK FALSE
PROPERTIES
  ConnectFindsActive
