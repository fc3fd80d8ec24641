SPECIFICATION Spec
CONSTANTS
  MaxPayload = 3
  Commands = {1, 2}
  Payloads <- MCPayloads
  Noises <- MCNoises
  CdcQueueCapacity = 2
  PortRoom = 7
  Arrivals = {4, 9}
  MaxRequests = 3
  MaxFaults = 2
  MaxInFlight = 13
INVARIANTS
  RequestsArrive
  ResponsesArrive
PROPERTY
  LineIsLossyChannel
