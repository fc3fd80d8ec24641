SPECIFICATION Spec
CONSTANTS
  program = program
  control = control
  Messages = {program, control}
  Capacity = 4
  NoMessage = NoMessage
INVARIANTS
  RingIsConsistent
PROPERTIES
  QueueIsFifo
