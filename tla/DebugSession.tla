----------------------------- MODULE DebugSession -----------------------------
(***************************************************************************)
(* A debugging session end to end: the startup of RunCliMode              *)
(* (src/GDB/DapMain.cpp), then either BatchRunner::Run                    *)
(* (src/GDB/batch_runner.cpp) or the REPL of DebuggerCli                  *)
(* (src/GDB/debugger_cli.cpp), all on the driver thread, against the       *)
(* emulation thread, which runs the core and signals stops.               *)
(*                                                                         *)
(* The two threads meet only in the notification bridge.  It is used      *)
(* through StopBridge, whose actions are atomic; CliNotificationListener   *)
(* is shown to implement StopBridge, which is what makes that sound.       *)
(*                                                                         *)
(* The emulation core (Emulator, Debugger) is not in src/: its behaviour  *)
(* is taken from spec 5: a trigger (Step, Run) returns at once and sets   *)
(* the core running; the core pauses at the stop condition and sends     *)
(* CodeBreak; a run that hits no breakpoint never stops.  Breakpoints,    *)
(* assertions and dumps carry no control and are abstracted here (see     *)
(* BatchRunner and Breakpoints).                                          *)
(***************************************************************************)
EXTENDS Integers

CONSTANTS
  MaxCmds,        \* REPL commands read before quit / EOF
  LateStops,      \* a wait may time out while the core is still on its way
                  \* to a stop (the step outlives its 5 s / 30 s timeout)
  EmuMayEnd,      \* the emulation loop may end by itself during a session
  BatchTimeoutMs, \* values of --timeout the driver may be given
  StepCounts,     \* values of N in "step N"
  FrameCounts     \* values of N in "frames N"

ASSUME MaxCmds \in Nat /\ LateStops \in BOOLEAN /\ EmuMayEnd \in BOOLEAN
ASSUME BatchTimeoutMs \subseteq Int
ASSUME StepCounts \subseteq Int /\ FrameCounts \subseteq Int

VARIABLES
  pending, stopped, waiter, bounded, result, \* the bridge (StopBridge)
  core,        \* "unloaded", "running", "paused" or "ended"
  willStop,    \* the core, running, will reach a stop condition
  coreReq,     \* the trigger the core is executing (0: the load's break)
  pendingReq,  \* which trigger's stop set the pending flag (EndReq: end)
  drv,         \* the driver thread's program counter
  cont,        \* where the driver goes when its WaitForBreak returns
  mode,        \* "batch" or "cli" (--batch)
  cmd,         \* the REPL command being executed
  req,         \* triggers the driver has issued
  cmds,        \* REPL commands read
  exitCode,    \* the process exit code, -1 while running
  gRunning,    \* g_running, cleared by the SIGINT / SIGTERM handler
  timeoutMs    \* the timeout of the driver's next WaitForBreak; for batch
               \* mode, --timeout

B == INSTANCE StopBridge

bridgeVars == <<pending, stopped, waiter, bounded, result>>
coreVars == <<core, willStop, coreReq, pendingReq>>
drvVars == <<drv, cont, mode, cmd, req, cmds, exitCode, timeoutMs>>
vars == <<bridgeVars, coreVars, drvVars, gRunning>>

EndReq == -1
StepCmds == {"step", "next", "finish", "frames"}
Commands == StepCmds \cup {"run", "reset", "inspect", "quit"}
DrvPcs == {"load", "wait", "setup", "batchRun", "batchTrigger", "batchWait",
           "batchCapture", "batchReport", "cliStart", "prompt", "cmdReset",
           "cmdTrigger", "cmdWait", "print", "inspect", "teardown", "exit"}

TypeOK ==
  /\ B!TypeOK
  /\ core \in {"unloaded", "running", "paused", "ended"}
  /\ willStop \in BOOLEAN
  /\ coreReq \in 0..MaxCmds
  /\ pendingReq \in {EndReq} \cup 0..MaxCmds
  /\ drv \in DrvPcs
  /\ cont \in DrvPcs
  /\ mode \in {"batch", "cli"}
  /\ cmd \in Commands
  /\ req \in 0..MaxCmds
  /\ cmds \in 0..MaxCmds
  /\ exitCode \in {-1, 0, 1, 2}
  /\ gRunning \in BOOLEAN
  /\ timeoutMs \in Int
  /\ (waiter = "waiting") <=> (drv = "wait")
  /\ (exitCode # -1) <=> (drv \in {"teardown", "exit"})

Init ==
  /\ B!Init
  /\ core = "unloaded"
  /\ willStop = FALSE
  /\ coreReq = 0
  /\ pendingReq = 0
  /\ drv = "load"
  /\ cont = "load"
  /\ mode \in {"batch", "cli"}
  /\ cmd = "quit"
  /\ req = 0
  /\ cmds = 0
  /\ exitCode = -1
  /\ gRunning = TRUE
  /\ timeoutMs \in BatchTimeoutMs

\* _emu->GetDebugger(false) yields a debugger.
DebuggerAvailable == core \in {"running", "paused"}

-----------------------------------------------------------------------------
(* Emulation thread                                                        *)

\* The core reaches the stop condition of what it was asked to do, pauses
\* in the debugger and sends CodeBreak.
EmuBreak ==
  /\ core = "running"
  /\ willStop
  /\ core' = "paused"
  /\ pendingReq' = coreReq
  /\ B!Signal("CodeBreak")
  /\ UNCHANGED <<willStop, coreReq, drvVars, gRunning>>

\* The emulation thread keeps executing, or, paused, keeps looping in the
\* debugger's break loop until it is resumed.
EmuExecute ==
  /\ core \in {"running", "paused"}
  /\ UNCHANGED vars

\* The emulation loop ends and EmulationStopped is sent.
EmuEnd ==
  /\ EmuMayEnd
  /\ core \in {"running", "paused"}
  /\ core' = "ended"
  /\ pendingReq' = EndReq
  /\ B!Signal("EmulationStopped")
  /\ UNCHANGED <<willStop, coreReq, drvVars, gRunning>>

\* signalHandler: SIGINT or SIGTERM.
SignalHandler ==
  /\ gRunning
  /\ gRunning' = FALSE
  /\ UNCHANGED <<bridgeVars, coreVars, drvVars>>

-----------------------------------------------------------------------------
(* The driver's use of the bridge                                          *)

\* The core is asked to run (Debugger::Run or Step); it stops unless it is
\* a run that meets no breakpoint or halt, or a step the core never ends.
Trigger(canRunForever) ==
  /\ req < MaxCmds
  /\ req' = req + 1
  /\ core' = "running"
  /\ coreReq' = req + 1
  /\ willStop' \in IF canRunForever THEN BOOLEAN ELSE {TRUE}

\* Mutant: the caller does not block; it goes on as if the call returned.
WaitCallNoBlock(bnd, k) ==
  /\ B!BeginWait(bnd)
  /\ cont' = k
  /\ drv' = k

\* WaitForBreak(timeoutMs); bnd is timeoutMs > 0.  A stop already pending
\* is consumed at once and the driver goes straight on to k.
WaitCall(bnd, k) ==
  /\ B!BeginWait(bnd)
  /\ cont' = k
  /\ drv' = IF waiter' = "waiting" THEN "wait" ELSE k

\* Mutant: the wait's predicate tests _stopped instead of _breakOccurred.
WaitStopOnStopped ==
  /\ drv = "wait"
  /\ stopped
  /\ B!EndWaitStop
  /\ drv' = cont
  /\ UNCHANGED <<coreVars, cont, mode, cmd, req, cmds, exitCode, gRunning, timeoutMs>>

WaitStop ==
  /\ drv = "wait"
  /\ B!EndWaitStop
  /\ drv' = cont
  /\ UNCHANGED <<coreVars, cont, mode, cmd, req, cmds, exitCode, gRunning, timeoutMs>>

\* The timeout passes.  Unless LateStops, only when no stop is on its way.
WaitTimeout ==
  /\ drv = "wait"
  /\ LateStops \/ ~(core = "running" /\ willStop)
  /\ B!EndWaitTimeout
  /\ drv' = cont
  /\ UNCHANGED <<coreVars, cont, mode, cmd, req, cmds, exitCode, gRunning, timeoutMs>>

-----------------------------------------------------------------------------
(* RunCliMode, steps 5 to 10                                               *)

\* LoadRom: the debugger is created and the core steps to the first
\* instruction; then WaitForBreak(5000), result ignored.
LoadRom ==
  /\ drv = "load"
  /\ core' = "running"
  /\ willStop' = TRUE
  /\ WaitCall(TRUE, "setup")
  /\ UNCHANGED <<coreReq, pendingReq, mode, cmd, req, cmds, exitCode, gRunning, timeoutMs>>

LoadRomFails ==
  /\ drv = "load"
  /\ drv' = "exit"
  /\ exitCode' = 2
  /\ UNCHANGED <<bridgeVars, coreVars, cont, mode, cmd, req, cmds, gRunning, timeoutMs>>

\* Console detection, --dump resolution, initial breakpoints; dispatch.
Setup ==
  /\ drv = "setup"
  /\ drv' = IF mode = "batch" THEN "batchRun" ELSE "cliStart"
  /\ UNCHANGED <<bridgeVars, coreVars, cont, mode, cmd, req, cmds, exitCode, gRunning, timeoutMs>>

-----------------------------------------------------------------------------
(* BatchRunner::Run                                                        *)

\* Inside one DebuggerRequest: _listener->Reset(); then, a step of its
\* own (the emulation thread may signal in between), dbg->Run().
BatchResume ==
  /\ drv = "batchRun"
  /\ DebuggerAvailable
  /\ B!Reset
  /\ drv' = "batchTrigger"
  /\ UNCHANGED <<coreVars, cont, mode, cmd, req, cmds, exitCode, gRunning, timeoutMs>>

BatchTrigger ==
  /\ drv = "batchTrigger"
  /\ Trigger(TRUE)
  /\ drv' = "batchWait"
  /\ UNCHANGED <<bridgeVars, pendingReq, cont, mode, cmd, cmds, exitCode, gRunning, timeoutMs>>

BatchNoDebugger ==
  /\ drv \in {"batchRun", "batchCapture"}
  /\ ~DebuggerAvailable
  /\ drv' = "teardown"
  /\ exitCode' = 2
  /\ UNCHANGED <<bridgeVars, coreVars, cont, mode, cmd, req, cmds, gRunning, timeoutMs>>

\* WaitForBreak(_timeoutMs).
BatchWait ==
  /\ drv = "batchWait"
  /\ WaitCall(timeoutMs > 0, "batchCapture")
  /\ UNCHANGED <<coreVars, mode, cmd, req, cmds, exitCode, gRunning, timeoutMs>>

BatchTimedOut ==
  /\ drv = "batchCapture"
  /\ ~result
  /\ drv' = "teardown"
  /\ exitCode' = 2
  /\ UNCHANGED <<bridgeVars, coreVars, cont, mode, cmd, req, cmds, gRunning, timeoutMs>>

\* GetCpuState and the register print.
BatchCapture ==
  /\ drv = "batchCapture"
  /\ result
  /\ DebuggerAvailable
  /\ drv' = "batchReport"
  /\ UNCHANGED <<bridgeVars, coreVars, cont, mode, cmd, req, cmds, exitCode, gRunning, timeoutMs>>

\* The dumps and the assertions read the core's memory; exit 0 or 1.
BatchReport ==
  /\ drv = "batchReport"
  /\ drv' = "teardown"
  /\ exitCode' \in {0, 1}
  /\ UNCHANGED <<bridgeVars, coreVars, cont, mode, cmd, req, cmds, gRunning, timeoutMs>>

-----------------------------------------------------------------------------
(* DebuggerCli::Run and its commands                                       *)

\* SyncBreakpoints; PrintState (which does nothing without a debugger).
CliStart ==
  /\ drv = "cliStart"
  /\ drv' = "prompt"
  /\ UNCHANGED <<bridgeVars, coreVars, cont, mode, cmd, req, cmds, exitCode, gRunning, timeoutMs>>

\* One line read and dispatched.  "inspect" is any command that only reads
\* or writes the core through the debugger (regs, mem, region names, dump,
\* set, disasm, bt, trace, info); "quit" is also EOF.
ReadCommand ==
  /\ drv = "prompt"
  /\ cmds < MaxCmds
  /\ cmds' = cmds + 1
  /\ \E c \in Commands :
       /\ cmd' = c
       /\ drv' = CASE c \in StepCmds \cup {"run"} -> "cmdReset"
                   [] c = "reset"                 -> "print"
                   [] c = "inspect"               -> "inspect"
                   [] c = "quit"                  -> "teardown"
  /\ exitCode' = IF cmd' = "quit" THEN 0 ELSE exitCode
  /\ UNCHANGED <<bridgeVars, coreVars, cont, mode, req, gRunning, timeoutMs>>

EndOfInput ==
  /\ drv = "prompt"
  /\ cmds = MaxCmds
  /\ drv' = "teardown"
  /\ exitCode' = 0
  /\ UNCHANGED <<bridgeVars, coreVars, cont, mode, cmd, req, cmds, gRunning, timeoutMs>>

\* CmdStep / CmdNext / CmdFinish / CmdRun / CmdFrames: _listener->Reset() ...
ResetListener ==
  /\ drv = "cmdReset"
  /\ B!Reset
  /\ drv' = "cmdTrigger"
  /\ UNCHANGED <<coreVars, cont, mode, cmd, req, cmds, exitCode, gRunning, timeoutMs>>

\* The count argument of a command: std::stoi of "step N" (1 if omitted),
\* "frames N"; the other commands take none.
CountArgs(c) ==
  CASE c = "step"   -> StepCounts
    [] c = "frames" -> FrameCounts
    [] OTHER        -> {1}

\* ... dbg->Step or dbg->Run if there is a debugger.  A step of N >= 1
\* instructions or frames ends; a step over a call or out of one ends only
\* if the routine returns, and a run only at a breakpoint; what the core
\* does with a count N <= 0 is not in src/.
CmdTrigger ==
  /\ drv = "cmdTrigger"
  /\ \E n \in CountArgs(cmd) :
       /\ timeoutMs' = CASE cmd \in {"step", "next"} -> 5000
                          [] cmd = "finish"          -> 30000
                          [] cmd = "frames"          -> n * 1000 + 5000
                          [] cmd = "run"             -> 0
       /\ \/ /\ DebuggerAvailable
             /\ Trigger(cmd \in {"run", "next", "finish"} \/ n <= 0)
          \/ /\ ~DebuggerAvailable
             /\ UNCHANGED <<core, willStop, coreReq, req>>
  /\ drv' = "cmdWait"
  /\ UNCHANGED <<bridgeVars, pendingReq, cont, mode, cmd, cmds, exitCode, gRunning>>

\* ... then WaitForBreak(timeoutMs); 0 waits indefinitely.
CmdWait ==
  /\ drv = "cmdWait"
  /\ WaitCall(timeoutMs > 0, "print")
  /\ UNCHANGED <<coreVars, mode, cmd, req, cmds, exitCode, gRunning, timeoutMs>>

\* regs, mem, x, the region names, dump, set, disasm, bt, info: each asks
\* _emu->GetDebugger(false), returns at once when there is none, and
\* otherwise reads the core (set writes one byte) and prints the result.
CmdInspect ==
  /\ drv = "inspect"
  /\ drv' = "prompt"
  /\ UNCHANGED <<bridgeVars, coreVars, cont, mode, cmd, req, cmds, exitCode, gRunning, timeoutMs>>

\* PrintState after a command (and the work of "reset").
PrintState ==
  /\ drv = "print"
  /\ drv' = "prompt"
  /\ UNCHANGED <<bridgeVars, coreVars, cont, mode, cmd, req, cmds, exitCode, gRunning, timeoutMs>>

-----------------------------------------------------------------------------
(* Step 11                                                                 *)

\* emu->Stop(false) ends the emulation; EmulationStopped reaches the
\* still registered listener.
Teardown ==
  /\ drv = "teardown"
  /\ drv' = "exit"
  /\ core' = "ended"
  /\ pendingReq' = EndReq
  /\ B!Signal("EmulationStopped")
  /\ UNCHANGED <<willStop, coreReq, cont, mode, cmd, req, cmds, exitCode, gRunning, timeoutMs>>

Exited ==
  /\ drv = "exit"
  /\ UNCHANGED vars

-----------------------------------------------------------------------------

Next ==
  \/ EmuBreak \/ EmuExecute \/ EmuEnd \/ SignalHandler
  \/ WaitStop \/ WaitTimeout
  \/ LoadRom \/ LoadRomFails \/ Setup
  \/ BatchResume \/ BatchTrigger \/ BatchNoDebugger \/ BatchWait \/ BatchTimedOut
  \/ BatchCapture \/ BatchReport
  \/ CliStart \/ ReadCommand \/ EndOfInput \/ ResetListener \/ CmdTrigger
  \/ CmdWait \/ PrintState \/ CmdInspect
  \/ Teardown \/ Exited

(***************************************************************************)
(* Fairness.  The user (ReadCommand, EndOfInput), the end of the emulation *)
(* and signals are not fair.  The driver thread, once it is not waiting    *)
(* for the user, runs on (WF); a timeout passes (WF); a core told to stop  *)
(* at a condition it will meet does stop (WF).                             *)
(***************************************************************************)
DriverStep ==
  \/ WaitStop \/ WaitTimeout
  \/ LoadRom \/ LoadRomFails \/ Setup
  \/ BatchResume \/ BatchTrigger \/ BatchNoDebugger \/ BatchWait \/ BatchTimedOut
  \/ BatchCapture \/ BatchReport
  \/ CliStart \/ ResetListener \/ CmdTrigger \/ CmdWait \/ PrintState \/ CmdInspect
  \/ Teardown

Spec == Init /\ [][Next]_vars /\ WF_vars(DriverStep) /\ WF_vars(EmuBreak)

-----------------------------------------------------------------------------
(* Properties                                                              *)

\* A WaitForBreak that returns true: at the call, on a pending stop, or
\* when a stop arrives while it is blocked.
StopSeen ==
  \/ (LoadRom \/ BatchWait \/ CmdWait) /\ pending
  \/ WaitStop

(* The stop a WaitForBreak returns on was caused by the driver's latest    *)
(* trigger (Step, Run, the load's break) or is the end of the emulation,  *)
(* never a stop left over from an earlier command: the Reset before each  *)
(* trigger discards any earlier stop.                                     *)
StopBelongsToCommand == [][StopSeen => pendingReq \in {req, EndReq}]_vars

(* A WaitForBreak blocked while the core no longer runs (it paused, or    *)
(* the emulation ended) returns: the stop it waits for is not lost.       *)
WaitEndsWhenCoreStops ==
  (drv = "wait" /\ core \in {"paused", "ended"}) ~> (drv # "wait")

(* A WaitForBreak blocked while the core is paused at a stop returns,     *)
(* even when the emulation may also end meanwhile: CodeBreak's stop is     *)
(* not lost between ProcessNotification and the waiter's wake-up.          *)
WaitEndsWhenCorePauses ==
  (drv = "wait" /\ core = "paused") ~> (drv # "wait")

=============================================================================
