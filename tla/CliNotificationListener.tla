------------------------ MODULE CliNotificationListener ------------------------
(***************************************************************************)
(* CliNotificationListener (src/GDB/cli_notification.h): the bridge as the *)
(* code builds it, from a std::mutex, a std::condition_variable and the    *)
(* two flags _breakOccurred and _stopped.                                  *)
(*                                                                         *)
(* Two threads use it.  The emulation thread calls ProcessNotification.    *)
(* The driver thread (DebuggerCli, BatchRunner, RunCliMode) calls Reset    *)
(* and WaitForBreak in any order.  A critical section that no other lock   *)
(* holder can interleave with is one step; the condition-variable wait is  *)
(* split into its steps: checking the predicate under the lock, blocking   *)
(* (which releases the lock), waking (notified, spuriously, or because the *)
(* wait_for deadline passed) and re-acquiring the lock to re-check.        *)
(*                                                                         *)
(* The module is shown to implement StopBridge.                            *)
(***************************************************************************)

VARIABLES
  breakOccurred, \* _breakOccurred
  stopped,       \* _stopped
  mutex,         \* owner of _mutex: "free", "emu" or "drv"
  emuPc,         \* "idle", or the notification the emulation thread is
                 \* processing while it holds the lock
  drvPc,         \* where the driver thread is inside the listener
  finite,        \* the current WaitForBreak was given timeoutMs > 0
  timedOut,      \* the wait_for deadline of the current wait has passed
  lastResult     \* the value the last WaitForBreak returned

vars == <<breakOccurred, stopped, mutex, emuPc, drvPc, finite, timedOut, lastResult>>

Notifications == {"CodeBreak", "EmulationStopped"}

\* "idle": outside the listener; "blocking": predicate found false, lock
\* still held; "cvWait": blocked in the condition variable; "cvWoken":
\* woken, re-acquiring the lock.
DrvStates == {"idle", "blocking", "cvWait", "cvWoken"}

TypeOK ==
  /\ breakOccurred \in BOOLEAN
  /\ stopped \in BOOLEAN
  /\ mutex \in {"free", "emu", "drv"}
  /\ emuPc \in {"idle"} \cup Notifications
  /\ drvPc \in DrvStates
  /\ finite \in BOOLEAN
  /\ timedOut \in BOOLEAN
  /\ lastResult \in BOOLEAN
  \* the driver holds the lock exactly between checking the predicate and
  \* blocking; a wait never returns while holding it
  /\ (mutex = "drv") <=> (drvPc = "blocking")
  /\ (mutex = "emu") <=> (emuPc # "idle")
  /\ timedOut => finite

Init ==
  /\ breakOccurred = FALSE
  /\ stopped = FALSE
  /\ mutex = "free"
  /\ emuPc = "idle"
  /\ drvPc = "idle"
  /\ finite = FALSE
  /\ timedOut = FALSE
  /\ lastResult = FALSE

-----------------------------------------------------------------------------
(* Emulation thread                                                        *)

\* notify_all: a blocked waiter becomes runnable.
NotifyAll ==
  drvPc' = IF drvPc = "cvWait" THEN "cvWoken" ELSE drvPc

\* ProcessNotification for CodeBreak or EmulationStopped: lock_guard ...
\* (other notification types are ignored and change nothing)
NotifyLock(type) ==
  /\ emuPc = "idle"
  /\ mutex = "free"
  /\ mutex' = "emu"
  /\ emuPc' = type
  /\ UNCHANGED <<breakOccurred, stopped, drvPc, finite, timedOut, lastResult>>

\* ... set the flags, notify_all, and release the lock.
ProcessNotification ==
  /\ emuPc # "idle"
  /\ breakOccurred' = TRUE
  /\ stopped' = (stopped \/ emuPc = "EmulationStopped")
  /\ NotifyAll
  /\ mutex' = "free"
  /\ emuPc' = "idle"
  /\ UNCHANGED <<finite, timedOut, lastResult>>

-----------------------------------------------------------------------------
(* Driver thread                                                           *)

Reset ==
  /\ drvPc = "idle"
  /\ mutex = "free"
  /\ breakOccurred' = FALSE
  /\ UNCHANGED <<stopped, mutex, emuPc, drvPc, finite, timedOut, lastResult>>

\* Mutant: the early return forgets to clear _breakOccurred.
WaitForBreakKeepsFlag(bnd) ==
  /\ drvPc = "idle"
  /\ mutex = "free"
  /\ finite' = bnd
  /\ timedOut' = FALSE
  /\ \/ /\ breakOccurred
        /\ lastResult' = TRUE
        /\ UNCHANGED <<breakOccurred, mutex, drvPc>>
     \/ /\ ~breakOccurred
        /\ mutex' = "drv"
        /\ drvPc' = "blocking"
        /\ UNCHANGED <<breakOccurred, lastResult>>
  /\ UNCHANGED <<stopped, emuPc>>

\* unique_lock; if(_breakOccurred) return true after clearing it; otherwise
\* enter wait_for (timeoutMs > 0) or wait, whose first act is to evaluate
\* the predicate under the lock.
WaitForBreak(bnd) ==
  /\ drvPc = "idle"
  /\ mutex = "free"
  /\ finite' = bnd
  /\ timedOut' = FALSE
  /\ \/ /\ breakOccurred
        /\ breakOccurred' = FALSE
        /\ lastResult' = TRUE
        /\ UNCHANGED <<mutex, drvPc>>
     \/ /\ ~breakOccurred
        /\ mutex' = "drv"
        /\ drvPc' = "blocking"
        /\ UNCHANGED <<breakOccurred, lastResult>>
  /\ UNCHANGED <<stopped, emuPc>>

\* Mutant: blocking without giving the lock back.
CvBlockHoldingLock ==
  /\ drvPc = "blocking"
  /\ drvPc' = "cvWait"
  /\ UNCHANGED <<breakOccurred, stopped, mutex, emuPc, finite, timedOut, lastResult>>

\* The condition variable releases the lock and blocks, atomically.
CvBlock ==
  /\ drvPc = "blocking"
  /\ mutex' = "free"
  /\ drvPc' = "cvWait"
  /\ UNCHANGED <<breakOccurred, stopped, emuPc, finite, timedOut, lastResult>>

CvSpuriousWake ==
  /\ drvPc = "cvWait"
  /\ drvPc' = "cvWoken"
  /\ UNCHANGED <<breakOccurred, stopped, mutex, emuPc, finite, timedOut, lastResult>>

CvDeadline ==
  /\ drvPc = "cvWait"
  /\ finite
  /\ ~timedOut
  /\ timedOut' = TRUE
  /\ drvPc' = "cvWoken"
  /\ UNCHANGED <<breakOccurred, stopped, mutex, emuPc, finite, lastResult>>

\* Re-acquire the lock.  If the predicate now holds, or wait_for's deadline
\* passed, leave the wait: result = _breakOccurred; clear it; return.
CvWakeReturn ==
  /\ drvPc = "cvWoken"
  /\ mutex = "free"
  /\ breakOccurred \/ timedOut
  /\ lastResult' = breakOccurred
  /\ breakOccurred' = FALSE
  /\ drvPc' = "idle"
  /\ UNCHANGED <<stopped, mutex, emuPc, finite, timedOut>>

\* Otherwise the predicate is false again: wait once more.
CvWakeRewait ==
  /\ drvPc = "cvWoken"
  /\ mutex = "free"
  /\ ~breakOccurred
  /\ ~timedOut
  /\ mutex' = "drv"
  /\ drvPc' = "blocking"
  /\ UNCHANGED <<breakOccurred, stopped, emuPc, finite, timedOut, lastResult>>

-----------------------------------------------------------------------------

Next ==
  \/ \E t \in Notifications : NotifyLock(t)
  \/ ProcessNotification
  \/ Reset
  \/ \E b \in BOOLEAN : WaitForBreak(b)
  \/ CvBlock
  \/ CvSpuriousWake
  \/ CvDeadline
  \/ CvWakeReturn
  \/ CvWakeRewait

(***************************************************************************)
(* Fairness.  Calls are made when the driver chooses and notifications     *)
(* come when the emulation decides: neither is fair.  Once a thread holds  *)
(* the lock it finishes its critical section (WF); the condition variable  *)
(* releases the lock and blocks (WF); a woken waiter whose mutex is freed  *)
(* again and again eventually gets it (SF: the notifier holds it only for  *)
(* three assignments); the wait_for deadline passes whatever spurious      *)
(* wake-ups happen (SF).                                                   *)
(***************************************************************************)
Fairness ==
  /\ WF_vars(ProcessNotification)
  /\ WF_vars(CvBlock)
  /\ SF_vars(CvDeadline)
  /\ SF_vars(CvWakeReturn)
  /\ SF_vars(CvWakeRewait)

Spec == Init /\ [][Next]_vars /\ Fairness

-----------------------------------------------------------------------------
(* Refinement: the listener implements the bridge of spec 4.1.  The flag   *)
(* is the pending stop; a driver anywhere inside WaitForBreak is waiting.  *)

Bridge == INSTANCE StopBridge WITH
  pending <- breakOccurred,
  stopped <- stopped,
  waiter  <- IF drvPc = "idle" THEN "idle" ELSE "waiting",
  bounded <- IF drvPc = "idle" THEN FALSE ELSE finite,
  result  <- lastResult

(* The listener, with the condition variable's spurious wake-ups and the   *)
(* emulation thread signalling at any moment, behaves as the bridge: no    *)
(* signal is lost between the predicate check and the block, a consumed    *)
(* signal is not seen twice, and a blocked WaitForBreak returns once a     *)
(* stop is pending (or, bounded, once its deadline passed).                *)
BridgeSpec == Bridge!Spec

=============================================================================
