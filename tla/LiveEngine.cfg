SPECIFICATION Spec
CONSTANTS
  A = A
  B = B
  tip = tip
  Switches = {A, B}
  Contacts = {tip}
  PageCount = 2
  PresetCount = 5
  TrsCapacity = 2
  Images <- MCImages
  EmptyBank <- MCEmptyBank
  Nil = Nil
INVARIANTS
  RuntimeTypeOK
  PlaysWhatIsActive
  PresetRunsWhole
  NothingLostSilently
PROPERTIES
  PositionMovesLast
  ChangesBetweenActions
