SPECIFICATION Spec
CONSTANTS
  MaxCmds = 3
  LateStops = TRUE
  EmuMayEnd = TRUE
  BatchTimeoutMs <- MCBatchTimeoutMs
  StepCounts <- MCStepCounts
  FrameCounts <- MCFrameCounts
INVARIANT TypeOK
PROPERTY WaitEndsWhenCorePauses
\* A "run" (or an unbounded batch wait) issued after the emulation ended
\* blocks for ever with no thread left to wake it: the program really stops
\* there (run run_hangs_after_emulation_end).
CHECK_DEADLOCK FALSE
