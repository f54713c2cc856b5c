---------------------------- MODULE MCDebugSession ----------------------------
(* Model values for DebugSession.  --timeout is 10000 (the default) or 0,  *)
(* which makes BatchRunner's wait unbounded; "frames N" has N = 1, giving  *)
(* a 6000 ms wait, or N = -5, giving 0 ms, i.e. an unbounded wait; "step" *)
(* has N = 1, or N = 0, which reaches Debugger::Step unchecked.           *)
EXTENDS DebugSession

MCBatchTimeoutMs == {10000, 0}
MCFrameCounts == {1, -5}
MCStepCounts == {1, 0}

=============================================================================
