----------------------------- MODULE StopBridge -----------------------------
(***************************************************************************)
(* What the NotificationBridge promises (spec 4.1): a single pending flag  *)
(* that a notifier sets, that Reset clears, and that one waiter consumes.  *)
(* Signals coalesce; a bounded wait may give up only while nothing is      *)
(* pending; an unbounded wait returns only on a signal.  WaitForStop is    *)
(* split into its call (BeginWait) and its return (the EndWait actions)   *)
(* so that a signal can arrive while the caller is blocked.                *)
(***************************************************************************)

VARIABLES
  pending,   \* a stop was signalled and not yet consumed or reset
  stopped,   \* the terminal "emulation has fully stopped" condition
  waiter,    \* "idle" or "waiting" (inside WaitForStop)
  bounded,   \* the current wait has a timeout
  result     \* what the last WaitForStop returned

vars == <<pending, stopped, waiter, bounded, result>>

Events == {"CodeBreak", "EmulationStopped"}

TypeOK ==
  /\ pending \in BOOLEAN
  /\ stopped \in BOOLEAN
  /\ waiter \in {"idle", "waiting"}
  /\ bounded \in BOOLEAN
  /\ result \in BOOLEAN

Init ==
  /\ pending = FALSE
  /\ stopped = FALSE
  /\ waiter = "idle"
  /\ bounded = FALSE
  /\ result = FALSE

Signal(e) ==
  /\ pending' = TRUE
  /\ stopped' = (stopped \/ e = "EmulationStopped")
  /\ UNCHANGED <<waiter, bounded, result>>

Reset ==
  /\ waiter = "idle"
  /\ pending' = FALSE
  /\ UNCHANGED <<stopped, waiter, bounded, result>>

\* A call that finds a stop pending consumes it at once.
BeginWait(b) ==
  /\ waiter = "idle"
  /\ \/ /\ pending
        /\ pending' = FALSE
        /\ result' = TRUE
        /\ UNCHANGED <<waiter, bounded>>
     \/ /\ ~pending
        /\ waiter' = "waiting"
        /\ bounded' = b
        /\ UNCHANGED <<pending, result>>
  /\ UNCHANGED stopped

EndWaitStop ==
  /\ waiter = "waiting"
  /\ pending
  /\ pending' = FALSE
  /\ result' = TRUE
  /\ waiter' = "idle"
  /\ bounded' = FALSE
  /\ UNCHANGED stopped

EndWaitTimeout ==
  /\ waiter = "waiting"
  /\ bounded
  /\ ~pending
  /\ result' = FALSE
  /\ waiter' = "idle"
  /\ bounded' = FALSE
  /\ UNCHANGED <<pending, stopped>>

Next ==
  \/ \E e \in Events : Signal(e)
  \/ Reset
  \/ \E b \in BOOLEAN : BeginWait(b)
  \/ EndWaitStop
  \/ EndWaitTimeout

\* A blocked caller returns once a stop is pending, and a bounded one also
\* once its timeout has passed.
Spec == Init /\ [][Next]_vars /\ WF_vars(EndWaitStop \/ EndWaitTimeout)

=============================================================================
