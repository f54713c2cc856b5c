SPECIFICATION Spec
CONSTANTS
  c1 = c1
  c2 = c2
  d1 = d1
  d2 = d2
  NULL = NULL
  Callers <- MCTwoCallers
  Devices <- MCDevices
  MaxCalls = 2
  MaxFrames = 0
PROPERTY StopReturns
