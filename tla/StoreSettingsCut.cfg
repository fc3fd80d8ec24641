SPECIFICATION Spec
CONSTANTS
  small = small
  large = large
  factory = factory
  user = user
  Images = {small, large}
  ImagePages <- MCOnePage
  PageCount = 1
  PagesPerSector = 1
  ChunkPages = 2
  Calibrations = {factory, user}
  DefaultCalibration = factory
  GenerationModulus = 4
  FlashCanFail = FALSE
  Erased = Erased
  Garbled = Garbled
  Nil = Nil
PROPERTIES
  CalibrationIsOldOrNew
