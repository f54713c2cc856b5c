---------------------------- MODULE VideoRenderer ----------------------------
(***************************************************************************)
(* VideoRenderer (src/Core/Shared/Video/VideoRenderer.cpp): the render     *)
(* thread and the calls that start and stop it.  StartThread and          *)
(* StopThread test _renderThread without the lock and again under         *)
(* _stopStartLock; StopThread raises _stopFlag before taking the lock and *)
(* joins the thread; the thread loops until it reads _stopFlag set,       *)
(* waiting up to 32 ms on _waitForRender, which UpdateFrame signals from   *)
(* the emulation thread.  Callers run RegisterRenderingDevice,            *)
(* UnregisterRenderingDevice, StartThread and StopThread.  Frames, HUDs    *)
(* and sizes are not modelled: a HUD surface being dirty is a free        *)
(* choice, and a call through _renderer is recorded with the pointer it   *)
(* went through.                                                           *)
(***************************************************************************)
EXTENDS Naturals, FiniteSets

CONSTANTS
  Callers,    \* threads calling the public operations
  Devices,    \* IRenderingDevice instances
  NULL,
  MaxCalls,   \* calls per caller, at most
  MaxFrames   \* frames the emulation thread hands over, at most

ASSUME NULL \notin Devices /\ MaxCalls \in Nat /\ MaxFrames \in Nat

\* Every call of a caller creates at most one thread.
RenderThreads == 1..(MaxCalls * Cardinality(Callers))

VARIABLES
  renderer,      \* _renderer
  renderThread,  \* _renderThread: a thread id, or NULL
  stopFlag,      \* _stopFlag
  lockOwner,     \* the caller holding _stopStartLock, or NULL
  signaled,      \* _waitForRender is set
  needRedraw,    \* _needRedraw
  created,       \* render threads created so far
  rpc,           \* each render thread's position: "none" before it exists
  force,         \* forceRender of each render thread
  pc,            \* each caller's position
  ret,           \* where a caller's StartThread / StopThread returns to
  calls,         \* calls each caller has made
  frames,        \* UpdateFrame calls so far
  epc,           \* the emulation thread's position in UpdateFrame
  nullCalls      \* the call sites that went through a null _renderer

vars == <<renderer, renderThread, stopFlag, lockOwner, signaled, needRedraw,
          created, rpc, force, pc, ret, calls, frames, epc, nullCalls>>

CallerPcs == {"idle", "start1", "start2", "start3", "start4",
              "stop1", "stop2", "stop3", "stop4", "join", "unregister2"}
StopPcs == {"stop1", "stop2", "stop3", "stop4", "join"}

\* The constructor: no device, no thread, _needRedraw = true.
Init ==
  /\ renderer = NULL
  /\ renderThread = NULL
  /\ stopFlag = FALSE
  /\ lockOwner = NULL
  /\ signaled = FALSE
  /\ needRedraw = TRUE
  /\ created = 0
  /\ rpc = [r \in RenderThreads |-> "none"]
  /\ force = [r \in RenderThreads |-> FALSE]
  /\ pc = [c \in Callers |-> "idle"]
  /\ ret = [c \in Callers |-> "idle"]
  /\ calls = [c \in Callers |-> 0]
  /\ frames = 0
  /\ epc = "idle"
  /\ nullCalls = {}

\* Move caller c to position p.
Goto(c, p) == pc' = [pc EXCEPT ![c] = p]

\* A caller begins a public call, at position p, returning to "idle".
Begin(c, p) ==
  /\ pc[c] = "idle" /\ calls[c] < MaxCalls
  /\ calls' = [calls EXCEPT ![c] = @ + 1]
  /\ Goto(c, p)
  /\ ret' = [ret EXCEPT ![c] = "idle"]

\* Return from StartThread / StopThread.
Return(c) == pc' = [pc EXCEPT ![c] = ret[c]]

-----------------------------------------------------------------------------
(* Public calls of a caller thread.                                        *)

StartThread(c) ==
  /\ Begin(c, "start1")
  /\ UNCHANGED <<renderer, renderThread, stopFlag, lockOwner, signaled, needRedraw,
                 created, rpc, force, frames, epc, nullCalls>>

StopThread(c) ==
  /\ Begin(c, "stop1")
  /\ UNCHANGED <<renderer, renderThread, stopFlag, lockOwner, signaled, needRedraw,
                 created, rpc, force, frames, epc, nullCalls>>

\* _renderer = renderer; StartThread().
RegisterRenderingDevice(c, d) ==
  /\ Begin(c, "start1")
  /\ renderer' = d
  /\ UNCHANGED <<renderThread, stopFlag, lockOwner, signaled, needRedraw,
                 created, rpc, force, frames, epc, nullCalls>>

\* Mutant: _renderer cleared before StopThread() in place of after it.
UnregisterClearsFirst(c, d) ==
  /\ pc[c] = "idle" /\ calls[c] < MaxCalls
  /\ calls' = [calls EXCEPT ![c] = @ + 1]
  /\ Goto(c, IF renderer = d THEN "stop1" ELSE "idle")
  /\ ret' = [ret EXCEPT ![c] = "idle"]
  /\ renderer' = IF renderer = d THEN NULL ELSE renderer
  /\ UNCHANGED <<renderThread, stopFlag, lockOwner, signaled, needRedraw,
                 created, rpc, force, frames, epc, nullCalls>>

\* If the device is the registered one: StopThread(), then clear _renderer.
UnregisterRenderingDevice(c, d) ==
  /\ pc[c] = "idle" /\ calls[c] < MaxCalls
  /\ calls' = [calls EXCEPT ![c] = @ + 1]
  /\ Goto(c, IF renderer = d THEN "stop1" ELSE "idle")
  /\ ret' = [ret EXCEPT ![c] = "unregister2"]
  /\ UNCHANGED <<renderer, renderThread, stopFlag, lockOwner, signaled, needRedraw,
                 created, rpc, force, frames, epc, nullCalls>>

UnregisterClear(c) ==
  /\ pc[c] = "unregister2"
  /\ renderer' = NULL
  /\ Goto(c, "idle")
  /\ UNCHANGED <<renderThread, stopFlag, lockOwner, signaled, needRedraw,
                 created, rpc, force, ret, calls, frames, epc, nullCalls>>

-----------------------------------------------------------------------------
(* StartThread, lines 44-51.                                               *)

\* Line 44: the unlocked test of _renderThread.
StartCheck(c) ==
  /\ pc[c] = "start1"
  /\ IF renderThread = NULL THEN Goto(c, "start2") ELSE Return(c)
  /\ UNCHANGED <<renderer, renderThread, stopFlag, lockOwner, signaled, needRedraw,
                 created, rpc, force, ret, calls, frames, epc, nullCalls>>

StartLock(c) ==
  /\ pc[c] = "start2" /\ lockOwner = NULL
  /\ lockOwner' = c
  /\ Goto(c, "start3")
  /\ UNCHANGED <<renderer, renderThread, stopFlag, signaled, needRedraw,
                 created, rpc, force, ret, calls, frames, epc, nullCalls>>

\* Lines 46-51 under the lock: test again, then clear _stopFlag, reset the
\* event and create the thread; the lock is released on return.
StartRecheck(c) ==
  /\ pc[c] = "start3"
  /\ lockOwner' = NULL
  /\ Return(c)
  /\ IF renderThread = NULL
       THEN LET id == created + 1 IN
            /\ stopFlag' = FALSE
            /\ signaled' = FALSE
            /\ created' = id
            /\ renderThread' = id
            /\ rpc' = [rpc EXCEPT ![id] = "start"]
       ELSE UNCHANGED <<renderThread, stopFlag, signaled, created, rpc>>
  /\ UNCHANGED <<renderer, needRedraw, force, ret, calls, frames, epc, nullCalls>>

-----------------------------------------------------------------------------
(* StopThread, lines 57-63.                                                *)

\* Mutant: line 57 dropped; StopThread relies on the caller's flag.
StopSetFlagDropped(c) ==
  /\ pc[c] = "stop1"
  /\ Goto(c, "stop2")
  /\ UNCHANGED <<renderer, renderThread, stopFlag, lockOwner, signaled, needRedraw,
                 created, rpc, force, ret, calls, frames, epc, nullCalls>>

\* Line 57: _stopFlag is raised before, and outside, the lock.
StopSetFlag(c) ==
  /\ pc[c] = "stop1"
  /\ stopFlag' = TRUE
  /\ Goto(c, "stop2")
  /\ UNCHANGED <<renderer, renderThread, lockOwner, signaled, needRedraw,
                 created, rpc, force, ret, calls, frames, epc, nullCalls>>

\* Line 58: the unlocked test of _renderThread.
StopCheck(c) ==
  /\ pc[c] = "stop2"
  /\ IF renderThread # NULL THEN Goto(c, "stop3") ELSE Return(c)
  /\ UNCHANGED <<renderer, renderThread, stopFlag, lockOwner, signaled, needRedraw,
                 created, rpc, force, ret, calls, frames, epc, nullCalls>>

StopLock(c) ==
  /\ pc[c] = "stop3" /\ lockOwner = NULL
  /\ lockOwner' = c
  /\ Goto(c, "stop4")
  /\ UNCHANGED <<renderer, renderThread, stopFlag, signaled, needRedraw,
                 created, rpc, force, ret, calls, frames, epc, nullCalls>>

\* Line 60: test again under the lock; return (releasing it) if gone.
StopRecheck(c) ==
  /\ pc[c] = "stop4"
  /\ IF renderThread # NULL
       THEN Goto(c, "join") /\ UNCHANGED lockOwner
       ELSE Return(c) /\ lockOwner' = NULL
  /\ UNCHANGED <<renderer, renderThread, stopFlag, signaled, needRedraw,
                 created, rpc, force, ret, calls, frames, epc, nullCalls>>

\* Lines 61-62: join() returns once the thread has left its loop; then
\* _renderThread is reset and the lock released.
StopJoin(c) ==
  /\ pc[c] = "join"
  /\ rpc[renderThread] = "exited"
  /\ renderThread' = NULL
  /\ lockOwner' = NULL
  /\ Return(c)
  /\ UNCHANGED <<renderer, stopFlag, signaled, needRedraw,
                 created, rpc, force, ret, calls, frames, epc, nullCalls>>

-----------------------------------------------------------------------------
(* RenderThread, lines 69-105, for thread r.                               *)

\* Record a call through _renderer at a call site.
CallDevice(site) ==
  nullCalls' = IF renderer = NULL THEN nullCalls \cup {site} ELSE nullCalls

SetRpc(r, p) == rpc' = [rpc EXCEPT ![r] = p]

\* Line 69: test _renderer ...
ThreadStarted(r) ==
  /\ rpc[r] = "start"
  /\ SetRpc(r, IF renderer # NULL THEN "started" ELSE "check")
  /\ UNCHANGED <<renderer, renderThread, stopFlag, lockOwner, signaled, needRedraw,
                 created, force, pc, ret, calls, frames, epc, nullCalls>>

\* ... line 70: and call it.
OnRendererThreadStarted(r) ==
  /\ rpc[r] = "started"
  /\ CallDevice("OnRendererThreadStarted")
  /\ SetRpc(r, "check")
  /\ UNCHANGED <<renderer, renderThread, stopFlag, lockOwner, signaled, needRedraw,
                 created, force, pc, ret, calls, frames, epc>>

\* Line 73: the loop ends once _stopFlag is read set.
Loop(r) ==
  /\ rpc[r] = "check"
  /\ SetRpc(r, IF stopFlag THEN "exited" ELSE "wait")
  /\ UNCHANGED <<renderer, renderThread, stopFlag, lockOwner, signaled, needRedraw,
                 created, force, pc, ret, calls, frames, epc, nullCalls>>

\* Lines 75-76: Wait(32) consumes the signal, or times out, which forces a
\* render; then _renderer is tested.  A signal arriving during the wait is
\* the same as one given before it.
Wait(r) ==
  /\ rpc[r] = "wait"
  /\ force' = [force EXCEPT ![r] = ~signaled]
  /\ signaled' = FALSE
  /\ SetRpc(r, IF renderer # NULL THEN "draw" ELSE "check")
  /\ UNCHANGED <<renderer, renderThread, stopFlag, lockOwner, needRedraw,
                 created, pc, ret, calls, frames, epc, nullCalls>>

\* Lines 77-103: draw the HUDs (either surface may come out dirty), and
\* render if anything changed, through _renderer as it is now.
Draw(r) ==
  /\ rpc[r] = "draw"
  /\ \E dirty \in BOOLEAN :
       IF force[r] \/ needRedraw \/ dirty
         THEN needRedraw' = FALSE /\ CallDevice("Render")
         ELSE UNCHANGED <<needRedraw, nullCalls>>
  /\ SetRpc(r, "check")
  /\ UNCHANGED <<renderer, renderThread, stopFlag, lockOwner, signaled,
                 created, force, pc, ret, calls, frames, epc>>

-----------------------------------------------------------------------------
(* UpdateFrame, lines 161-175, on the emulation thread.                    *)

\* Lines 161-171: the HUD update and _lastFrame under their locks, then the
\* test of _renderer.
UpdateFrame ==
  /\ epc = "idle" /\ frames < MaxFrames
  /\ frames' = frames + 1
  /\ epc' = IF renderer # NULL THEN "call" ELSE "idle"
  /\ UNCHANGED <<renderer, renderThread, stopFlag, lockOwner, signaled, needRedraw,
                 created, rpc, force, pc, ret, calls, nullCalls>>

\* Lines 172-174: hand the frame over and wake the render thread.
UpdateFrameCall ==
  /\ epc = "call"
  /\ CallDevice("UpdateFrame")
  /\ needRedraw' = TRUE
  /\ signaled' = TRUE
  /\ epc' = "idle"
  /\ UNCHANGED <<renderer, renderThread, stopFlag, lockOwner,
                 created, rpc, force, pc, ret, calls, frames>>

-----------------------------------------------------------------------------

CallerStep(c) ==
  \/ StartCheck(c) \/ StartLock(c) \/ StartRecheck(c)
  \/ StopSetFlag(c) \/ StopCheck(c) \/ StopLock(c) \/ StopRecheck(c) \/ StopJoin(c)
  \/ UnregisterClear(c)

ThreadStep(r) ==
  \/ ThreadStarted(r) \/ OnRendererThreadStarted(r) \/ Loop(r) \/ Wait(r) \/ Draw(r)

\* Every call made, every frame handed over, and no render thread left.
Finished ==
  /\ \A c \in Callers : pc[c] = "idle" /\ calls[c] = MaxCalls
  /\ frames = MaxFrames /\ epc = "idle"
  /\ \A r \in RenderThreads : rpc[r] \in {"none", "exited"}
  /\ UNCHANGED vars

Next ==
  \/ \E c \in Callers :
       \/ StartThread(c) \/ StopThread(c)
       \/ \E d \in Devices : RegisterRenderingDevice(c, d) \/ UnregisterRenderingDevice(c, d)
       \/ CallerStep(c)
  \/ \E r \in RenderThreads : ThreadStep(r)
  \/ UpdateFrame \/ UpdateFrameCall
  \/ Finished

\* Every thread that has started keeps running: the callers inside a call,
\* the render threads and the emulation thread inside UpdateFrame.  No
\* caller is obliged to make a call.
Fairness ==
  /\ \A c \in Callers : WF_vars(CallerStep(c))
  /\ \A r \in RenderThreads : WF_vars(ThreadStep(r))
  /\ WF_vars(UpdateFrameCall)

Spec == Init /\ [][Next]_vars /\ Fairness

-----------------------------------------------------------------------------
(* Properties                                                              *)

(* The render thread never calls the device through a null _renderer: it  *)
(* tests _renderer at lines 69 and 76 and calls through it at lines 70    *)
(* and 102, and UnregisterRenderingDevice clears it only after StopThread *)
(* has joined the thread.                                                  *)
RenderNeverCallsNull ==
  nullCalls \subseteq {"UpdateFrame"}

(* Every StopThread returns: the thread it joins has seen _stopFlag set,  *)
(* whatever StartThread calls run meanwhile.                               *)
StopReturns ==
  \A c \in Callers : pc[c] \in StopPcs ~> pc[c] \notin StopPcs

====
