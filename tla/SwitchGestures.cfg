SPECIFICATION GestureSpec
CONSTANTS
  A = A
  B = B
  C = C
  Switches = {A, B, C}
  Chords <- TwoChords
  Debounce = 2
  ChordWindow = 4
  DoubleTap = 5
  LongPress = 6
  RepeatDelay = 7
  RepeatInterval = 2
  EventCapacity = 16
  MaxGap = 3
  Rests = {0, 7}
  HeldMax = 15
SYMMETRY EitherPartner
INVARIANTS
  SwitchTypeOK
  OneGestureAtATime
  NothingStaysDown
  RepeatsKeepTime
  SteadyPressIsReported
