SPECIFICATION Spec
CONSTANTS
  c1 = c1
  c2 = c2
  d1 = d1
  d2 = d2
  NULL = NULL
  Callers <- MCOneCaller
  Devices <- MCDevices
  MaxCalls = 4
  MaxFrames = 2
INVARIANT RenderNeverCallsNull
PROPERTY StopReturns
