SPECIFICATION Spec
CONSTANTS
  factory = factory
  custom = custom
  first = first
  second = second
  Configs = {factory, custom}
  FactoryEmpty = FactoryEmpty
  FirstImages <- NoImage
  SampleValues = {7, 1005}
  MaxSequence = 2
  BankCount = 2
  ChunkCount = 2
  CacheCapacity = 2
  CdcQueueCapacity = 4
  Syncs = {first}
  AttemptLimit = 3
  MaxRequestId = 14
  MaxSessions = 1
  PowerCanFail = FALSE
  OtherIds = {}
  Others = {}
  Erased = Erased
  Garbled = Garbled
  Nil = Nil
CHECK_DEADLOCK FALSE
SYMMETRY EitherConfig
INVARIANTS
  SynchronizedIsLive
