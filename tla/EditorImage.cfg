\* Two banks, one page, one preset, two messages, two edits.
SPECIFICATION Spec
CONSTANTS
  BankCount = 2
  PageCount = 1
  PresetCount = 1
  SlotLimit = 2
  NameLimit = 2
  LabelLimit = 2
  ImageLimit = 1000
  LastId = 2147483646
  Names <- MCNames
  Labels <- MCLabels
  Accents <- MCAccents
  Numbers <- MCNumbers
  Files <- MCFiles
  MaxEdits = 2
INVARIANTS
  ValidDraftReachesPedal
  IdsStayUnique
  CleanDraftIsOnPedal
CONSTRAINT BeforeLastEdit
