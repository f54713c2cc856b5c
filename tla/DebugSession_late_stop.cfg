SPECIFICATION Spec
CONSTANTS
  MaxCmds = 2
  LateStops = TRUE
  EmuMayEnd = FALSE
  BatchTimeoutMs <- MCBatchTimeoutMs
  StepCounts <- MCStepCounts
  FrameCounts <- MCFrameCounts
PROPERTY StopBelongsToCommand
