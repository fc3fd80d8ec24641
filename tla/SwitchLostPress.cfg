SPECIFICATION GestureSpec
CONSTANTS
  A = A
  B = B
  C = C
  Switches = {A, B, C}
  Chords <- TwoChords
  Debounce = 5
  ChordWindow = 8
  DoubleTap = 9
  LongPress = 10
  RepeatDelay = 11
  RepeatInterval = 3
  EventCapacity = 16
  MaxGap = 2
  Rests = {4}
  HeldMax = 17
INVARIANTS
  PressIsReported
