SPECIFICATION Spec
CONSTANTS
  MaxCmds = 2
  LateStops = FALSE
  EmuMayEnd = TRUE
  BatchTimeoutMs <- MCBatchTimeoutMs
  StepCounts <- MCStepCounts
  FrameCounts <- MCFrameCounts
PROPERTY WaitEndsWhenCoreStops
CHECK_DEADLOCK FALSE
