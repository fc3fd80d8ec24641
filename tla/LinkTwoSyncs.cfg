SPECIFICATION Spec
CONSTANTS
  factory = factory
  custom = custom
  first = first
  second = second
  Configs = {factory, custom}
  FactoryEmpty = FactoryEmpty
  FirstImages <- NoImage
  SampleValues = {7, 1005}
  MaxSequence = 1
  BankCount = 1
  ChunkCount = 1
  CacheCapacity = 2
  CdcQueueCapacity = 4
  Syncs = {first, second}
  AttemptLimit = 2
  MaxRequestId = 8
  MaxSessions = 1
  PowerCanFail = FALSE
  OtherIds = {}
  Others = {}
  Erased = Erased
  Garbled = Garbled
  Nil = Nil
CHECK_DEADLOCK FALSE
SYMMETRY EitherConfigOrSync
CONSTRAINT FewInFlight
PROPERTIES
  ActivatedImageIsWhole
  SyncIsTrue
