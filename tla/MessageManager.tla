--------------------------- MODULE MessageManager ---------------------------
(***************************************************************************)
(* MessageManager (src/Core/Shared/MessageManager.cpp): the process-wide   *)
(* log of at most 1000 lines under _logLock, and DisplayMessage, which     *)
(* reads _messageManager without a lock, takes _messageLock, checks it     *)
(* again, and then either hands the message to the registered manager    *)
(* (_osdEnabled) or logs it, taking _logLock inside _messageLock.  Any     *)
(* thread may call any operation.  Message texts are model values: the    *)
(* localisation and the %1 / %2 substitution are not modelled, a line     *)
(* DisplayMessage logs is the record of its message, and printing to      *)
(* stdout is left out.                                                     *)
(***************************************************************************)
EXTENDS Naturals, Sequences, SequencesExt

CONSTANTS
  Threads,   \* the threads calling MessageManager
  Managers,  \* IMessageManager instances that may be registered
  NULL,      \* no manager registered
  Texts,     \* message texts; Empty is the empty string
  Empty,
  Cap,       \* the log bound (1000 in the code)
  MaxCalls   \* calls per thread, at most

ASSUME NULL \notin Managers /\ Empty \in Texts /\ Cap \in Nat \ {0} /\ MaxCalls \in Nat

VARIABLES
  log,             \* _log
  messageManager,  \* _messageManager
  osdEnabled,      \* _osdEnabled
  outputToStdout,  \* _outputToStdout
  messageLock,     \* the owner of _messageLock, or NULL
  pc,              \* where each thread is in its call
  arg,             \* the message of a DisplayMessage in progress
  calls,           \* calls each thread has made
  logged,          \* history: every line pushed since the last ClearLog
  shown            \* history: <<manager, text>> of every message displayed

vars == <<log, messageManager, osdEnabled, outputToStdout, messageLock, pc,
          arg, calls, logged, shown>>

\* Log replaces an empty message with a line of dashes.
Dashes == "dashes"
Line == [from : {"Log", "DisplayMessage"}, text : Texts \cup {Dashes}]

\* The line Log stores for l: an empty message becomes the dashes.  A line
\* from DisplayMessage is "[" + title + "] " + message, never empty.
Entry(l) == IF l.from = "Log" /\ l.text = Empty THEN [l EXCEPT !.text = Dashes] ELSE l

TypeOK ==
  /\ log \in Seq(Line) /\ Len(log) <= Cap
  /\ messageManager \in Managers \cup {NULL}
  /\ osdEnabled \in BOOLEAN /\ outputToStdout \in BOOLEAN
  /\ messageLock \in Threads \cup {NULL}
  /\ pc \in [Threads -> {"idle", "dispLock", "dispOut", "dispLog"}]
  /\ arg \in [Threads -> Texts]
  /\ calls \in [Threads -> 0..MaxCalls]
  /\ logged \in Seq(Line)
  /\ shown \in Seq((Managers \cup {NULL}) \X Texts)

\* The static initialisers.
Init ==
  /\ log = << >>
  /\ messageManager = NULL
  /\ osdEnabled = TRUE
  /\ outputToStdout = FALSE
  /\ messageLock = NULL
  /\ pc = [t \in Threads |-> "idle"]
  /\ arg = [t \in Threads |-> Empty]
  /\ calls = [t \in Threads |-> 0]
  /\ logged = << >>
  /\ shown = << >>

\* A thread that is between calls starts one.
Call(t) == pc[t] = "idle" /\ calls[t] < MaxCalls /\ calls' = [calls EXCEPT ![t] = @ + 1]

\* Mutant: the bound tested with > in place of >=.
PushLineDropFirstPastCap(l) ==
  LET line == Entry(l)
  IN /\ log' = IF Len(log) > Cap THEN Append(Tail(log), line) ELSE Append(log, line)
     /\ logged' = Append(logged, line)

\* Mutant: _log.pop_back() in place of pop_front().
PushLineDropNewest(l) ==
  LET line == Entry(l)
  IN /\ log' = IF Len(log) >= Cap THEN Append(SubSeq(log, 1, Len(log) - 1), line) ELSE Append(log, line)
     /\ logged' = Append(logged, line)

\* The body of Log under _logLock, for a line l.
PushLine(l) ==
  LET line == Entry(l)
  IN /\ log' = IF Len(log) >= Cap THEN Append(Tail(log), line) ELSE Append(log, line)
     /\ logged' = Append(logged, line)

-----------------------------------------------------------------------------
(* Operations; each critical section of _logLock is one step, since only  *)
(* the lock's holder touches _log.                                         *)

Log(t, m) ==
  /\ Call(t)
  /\ PushLine([from |-> "Log", text |-> m])
  /\ UNCHANGED <<messageManager, osdEnabled, outputToStdout, messageLock, pc, arg, shown>>

ClearLog(t) ==
  /\ Call(t)
  /\ log' = << >>
  /\ logged' = << >>
  /\ UNCHANGED <<messageManager, osdEnabled, outputToStdout, messageLock, pc, arg, shown>>

\* GetLog copies the lines under the lock; it changes nothing.
GetLog(t) ==
  /\ Call(t)
  /\ UNCHANGED <<log, messageManager, osdEnabled, outputToStdout, messageLock, pc, arg, logged, shown>>

\* Two stores with no lock; DapMain calls it once, SetOptions(false, true).
SetOptions(t, osd, toStdout) ==
  /\ Call(t)
  /\ osdEnabled' = osd
  /\ outputToStdout' = toStdout
  /\ UNCHANGED <<log, messageManager, messageLock, pc, arg, logged, shown>>

\* Under _messageLock: take the slot only if it is empty.
RegisterMessageManager(t, g) ==
  /\ Call(t)
  /\ messageLock = NULL
  /\ messageManager' = IF messageManager = NULL THEN g ELSE messageManager
  /\ UNCHANGED <<log, osdEnabled, outputToStdout, messageLock, pc, arg, logged, shown>>

\* Under _messageLock: clear the slot only if it holds this manager.
UnregisterMessageManager(t, g) ==
  /\ Call(t)
  /\ messageLock = NULL
  /\ messageManager' = IF messageManager = g THEN NULL ELSE messageManager
  /\ UNCHANGED <<log, osdEnabled, outputToStdout, messageLock, pc, arg, logged, shown>>

\* DisplayMessage, line 119: the unlocked read of _messageManager.
DisplayMessage(t, m) ==
  /\ Call(t)
  /\ pc' = [pc EXCEPT ![t] = IF messageManager # NULL THEN "dispLock" ELSE "idle"]
  /\ arg' = [arg EXCEPT ![t] = m]
  /\ UNCHANGED <<log, messageManager, osdEnabled, outputToStdout, messageLock, logged, shown>>

\* Mutant: the check under the lock is dropped.
DisplayLockNoRecheck(t) ==
  /\ pc[t] = "dispLock"
  /\ messageLock = NULL
  /\ messageLock' = t
  /\ pc' = [pc EXCEPT ![t] = "dispOut"]
  /\ UNCHANGED <<log, messageManager, osdEnabled, outputToStdout, arg, calls, logged, shown>>

\* Lines 120-123: take _messageLock and look again; return if the manager
\* went away meanwhile (the lock is released on return).
DisplayLock(t) ==
  /\ pc[t] = "dispLock"
  /\ messageLock = NULL
  /\ IF messageManager # NULL
       THEN /\ messageLock' = t
            /\ pc' = [pc EXCEPT ![t] = "dispOut"]
       ELSE /\ pc' = [pc EXCEPT ![t] = "idle"]
            /\ UNCHANGED messageLock
  /\ UNCHANGED <<log, messageManager, osdEnabled, outputToStdout, arg, calls, logged, shown>>

\* Lines 125-142: format, then show through the manager, or call Log.
DisplayOut(t) ==
  /\ pc[t] = "dispOut"
  /\ IF osdEnabled
       THEN /\ shown' = Append(shown, <<messageManager, arg[t]>>)
            /\ messageLock' = NULL
            /\ pc' = [pc EXCEPT ![t] = "idle"]
       ELSE /\ pc' = [pc EXCEPT ![t] = "dispLog"]
            /\ UNCHANGED <<shown, messageLock>>
  /\ UNCHANGED <<log, messageManager, osdEnabled, outputToStdout, arg, calls, logged>>

\* Log called with _messageLock held; both locks are released on return.
DisplayLog(t) ==
  /\ pc[t] = "dispLog"
  /\ PushLine([from |-> "DisplayMessage", text |-> arg[t]])
  /\ messageLock' = NULL
  /\ pc' = [pc EXCEPT ![t] = "idle"]
  /\ UNCHANGED <<messageManager, osdEnabled, outputToStdout, arg, calls, shown>>

\* Every thread has made its calls.
Finished ==
  /\ \A t \in Threads : pc[t] = "idle" /\ calls[t] = MaxCalls
  /\ UNCHANGED vars

Next ==
  \/ \E t \in Threads :
       \/ \E m \in Texts : Log(t, m) \/ DisplayMessage(t, m)
       \/ ClearLog(t) \/ GetLog(t)
       \/ \E osd, toStdout \in BOOLEAN : SetOptions(t, osd, toStdout)
       \/ \E g \in Managers : RegisterMessageManager(t, g) \/ UnregisterMessageManager(t, g)
       \/ DisplayLock(t) \/ DisplayOut(t) \/ DisplayLog(t)
  \/ Finished

Spec == Init /\ [][Next]_vars

-----------------------------------------------------------------------------
(* Properties                                                              *)

(* The log holds exactly the newest lines pushed since the last ClearLog,  *)
(* at most Cap of them, oldest first, whichever threads pushed them and   *)
(* whether through Log or through DisplayMessage with the OSD off.        *)
LogKeepsNewest ==
  /\ IsSuffix(log, logged)
  /\ Len(log) = IF Len(logged) < Cap THEN Len(logged) ELSE Cap

(* A message is only ever shown through a registered manager: the         *)
(* manager DisplayMessage found before taking _messageLock may have been  *)
(* unregistered meanwhile, and is never called through a null pointer.   *)
ShownOnlyToRegistered ==
  \A i \in DOMAIN shown : shown[i][1] \in Managers

=============================================================================
