SPECIFICATION Spec
CONSTANTS
  AdcMax = 6
  MinSpan = 2
  Top = 4
  Scale = 16
  Window = 5
  Divisor = 5
  EmitMs = 2
  ClockModulus = 6
  Readings = {0, 1, 5}
  Gaps = {0, 1, 2}
  Calibrations <- MCCalibrations
  Assignments <- MCAssignments
  SettleSamples = 18
  Nil = Nil
INVARIANTS
  ExpressionTypeOK
  RateIsLimited
  RestIsShown
  RestIsSent
