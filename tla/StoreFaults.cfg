SPECIFICATION Spec
CONSTANTS
  small = small
  large = large
  factory = factory
  user = user
  Images = {small, large}
  ImagePages <- MCImagePages
  PageCount = 2
  PagesPerSector = 2
  ChunkPages = 2
  Calibrations = {factory, user}
  DefaultCalibration = factory
  GenerationModulus = 4
  FlashCanFail = TRUE
  Erased = Erased
  Garbled = Garbled
  Nil = Nil
INVARIANTS
  TypeOK
  RunningImageIntact
CONSTRAINT OneCalibration
PROPERTIES
  ReplyIsTruthful
