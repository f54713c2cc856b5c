# TLA+ models of the Mesen-GDB command-line debugger

This directory holds TLA+ models of the headless debugger front end in
`src/GDB/`, and of two thread-safe services of the core it links against
(`MessageManager` and `VideoRenderer` in `src/Core/Shared/`), together with
the TLC configurations that check them. The models
cover the threads of the debugger, the protocol by which they meet, and the
session the driver runs over that protocol. Every definition is translated
from the source. `PROJECT.json` maps each definition to the lines it models.

## The system

`mesen-gdb ROM [options]` (`DapMain.cpp`, `main` and `RunCliMode`) runs
these steps:

1. It parses the arguments.
2. It installs a SIGINT/SIGTERM handler.
3. It creates the emulator and registers a `CliNotificationListener`.
4. It loads the ROM. The emulator's debugger steps to the first instruction and sends `CodeBreak`.
5. It waits up to 5 s for that break, ignoring the result.
6. It resolves `--dump` aliases and pushes the `--break` breakpoints to the core.
7. It hands over to one of two drivers:
   - `BatchRunner::Run` (`--batch`) resumes the core and waits `--timeout` ms for a stop. On timeout it exits with 2. Otherwise it captures the CPU state and prints it, writes the dumps, evaluates every assertion, and exits with 0 or 1.
   - `DebuggerCli::Run` is a REPL. `step`, `next`, `finish`, `frames N` and `run` each reset the listener, trigger the core, wait (5 s, 5 s, 30 s, N*1000+5000 ms, or unboundedly for `run`), and print the state. The other commands read or write the core through the debugger.
8. At teardown it calls `emu->Stop` and exits.

Two threads are involved:

- The **emulation thread** (Mesen's core, not in `src/`) executes the ROM. It pauses at a stop condition and calls `ProcessNotification`.
- The **driver thread** runs everything above.

They meet only in `CliNotificationListener` (`cli_notification.h`): a mutex, a condition variable, `_breakOccurred` (the pending stop) and `_stopped`. Spec 4.1 calls this the NotificationBridge.

| Component | Source | Model |
|---|---|---|
| NotificationBridge | `cli_notification.h` | `StopBridge` (what it promises), `CliNotificationListener` (how it is built), refinement checked |
| Session driver | `DapMain.cpp` `RunCliMode`, `main`, `signalHandler` | `DebugSession` |
| Command line | `DapMain.cpp` `ParseArgs`, `ParseAddr`, `main` | `CliArgs` |
| BatchRunner | `batch_runner.cpp` | `DebugSession` (control flow), `BatchReport` (dumps, assertions, exit code) |
| InteractiveShell | `debugger_cli.cpp` | `DebugSession` (REPL, run control), `Breakpoints`, `MemView` (memory, dump, set, disasm, bt) |
| BreakpointTranslator | `debugger_cli.cpp`, `DapMain.cpp` | `Breakpoints` |
| Address parsing | `ParseAddress`, `ParseAddr` | `AddressText` (operators), `AddressParsing` (all short texts, checked against spec 4.2 in the `command_line` run) |
| Emulation core | not in `src/` | `DebugSession`, from spec 5 |
| StateFormatter | `formatter.cpp` | `Formatter` (the hex dump, disassembly and call-stack listings), `RegisterFormat` (the register renderings, reduced to the flags) |
| ConsoleRegistry | `console_info.h` | `ConsoleInfo` (the region tables); names and flags not modelled |
| DAP stub, VirtualFile | see below | not modelled |
| MessageManager | `src/Core/Shared/MessageManager.cpp` | `MessageManager` |
| VideoRenderer | `src/Core/Shared/Video/VideoRenderer.cpp` | `VideoRenderer` (thread control and device calls; HUD drawing left out) |
| RecordedRomTest | `src/Core/Shared/RecordedRomTest.cpp` | `RecordedRomTest` (recording: `Record`, frame notifications, `Stop`); the replay is unreachable |

### Inventory: state, operations, hazards

- **NotificationBridge.**
  - State: `_breakOccurred`, `_stopped`, the mutex, the condition variable.
  - Operations:
    - `ProcessNotification`: sets the flags and notifies, on the emulation thread.
    - `Reset` and `WaitForBreak(timeoutMs)`: on the driver. A pending flag is consumed at once. `wait_for` is used when `timeoutMs > 0`, and `wait` otherwise.
  - Hard parts: a signal between the predicate check and the block, spurious wake-ups, a deadline racing a notify, and coalescing.
  - Correctness: the contract of spec 4.1.
- **Session.**
  - State:
    - the driver's position;
    - the core's run state;
    - the exit code;
    - `g_running`.
  - Hard parts:
    - a stop that arrives after its wait timed out;
    - reading the core after a timeout;
    - the emulation ending under a waiting driver;
    - an interrupt during an unbounded wait.
  - Correctness:
    - state is read only from a paused core;
    - a wait returns on its own command's stop;
    - no wait outlives a stop;
    - `run` is interruptible (spec 5; the code never reads `g_running`, recorded as a hazard).
- **BatchRunner.** It runs resume, wait, capture, dumps and assertions, then exits 0/1/2. The exit codes are in spec 4.3 and 6.
- **InteractiveShell.**
  - State: the breakpoint table, `_nextBreakpointId`, `_quit`.
  - The run-control commands follow the Reset, trigger, wait, print pattern.
- **Breakpoints.** The table is pushed whole to the core. Initial ids are assigned in two places (`DapMain.cpp` and `AddInitialBreakpoint`).
- **Parsing and memory views.** These are `ParseAddress` and `ParseAddr`, the clamp in `CmdMem` and `CmdMemTyped` (uint32 arithmetic), the alias lookup in the console's region table (first match, after the built-in verbs), and the listings the Formatter prints (16-byte rows, a padded opcode column, NMI/IRQ tags).
- **MessageManager.** Static state shared by every thread: `_log` (at most 1000 lines, under `_logLock`), `_messageManager` (under `_messageLock`), `_osdEnabled`, `_outputToStdout`. `DisplayMessage` reads `_messageManager` without the lock and checks it again under it, and takes `_logLock` inside `_messageLock` when the OSD is off.
- **VideoRenderer.** `_renderThread`, `_stopFlag`, `_renderer`, `_needRedraw`, the auto-reset event `_waitForRender`, and `_stopStartLock`. Callers start and stop the render thread (double-checked under the lock); the emulation thread's `UpdateFrame` signals it; `StopThread` joins it. Hard parts: `_stopFlag` is written outside the lock, and `_renderer` is tested and then used with no lock.

The full hazard list, each at its source line, is in `PROJECT.json`.

## Modules

### `StopBridge`: the bridge's contract (spec 4.1)

- Variables: `pending`, `stopped`, `waiter`, `bounded`, `result`.
- Actions:
  - `Signal(e)`: sets `pending`; `EmulationStopped` also sets `stopped`.
  - `Reset`.
  - `BeginWait(b)`: consumes a pending stop at once, or blocks.
  - `EndWaitStop`: a blocked caller returns true once a stop is pending.
  - `EndWaitTimeout`: a bounded caller may give up while nothing is pending.
- Fairness: weak fairness on returning.

### `CliNotificationListener`: the bridge as coded

Each lock-holding critical section is one step:

- `NotifyLock` then `ProcessNotification`, on the emulation side.
- `Reset`.
- `WaitForBreak`: the lock, the fast path, or the first predicate check.

The condition-variable wait is split into its steps:

- `CvBlock` releases the lock and blocks atomically.
- `CvSpuriousWake`.
- `CvDeadline`, for `wait_for` only.
- `CvWakeReturn` and `CvWakeRewait` re-acquire the lock and re-check the predicate.

Fairness:

- A lock holder finishes its critical section (WF).
- A woken waiter eventually gets the mutex (SF), since the notifier holds it only for three assignments.
- A deadline eventually passes (SF).
- Notifications and calls are not fair: they happen when the program decides.

The refinement mapping `Bridge == INSTANCE StopBridge WITH ...` is checked as `PROPERTY BridgeSpec`:

- `_breakOccurred` is the pending stop.
- A driver anywhere inside `WaitForBreak` is "waiting".

### `DebugSession`: the session end to end

It uses the bridge through `B == INSTANCE StopBridge`, whose actions are atomic. The refinement above is what makes that sound.

The emulation core is modelled from spec 5 because it is not in `src/`:

- `core` is `unloaded`, `running`, `paused` or `ended`.
- `Trigger` resumes the core. It stops unless it is a run that meets no breakpoint, or a step with a count `<= 0`, whose effect is not in `src/` and is therefore left open.
- `EmuBreak` pauses the core and signals `CodeBreak`.
- `EmuEnd` ends the emulation and signals `EmulationStopped`.
- `EmuExecute` is the emulation thread going on, running or looping in the debugger's break loop.

The driver is one action per step of `RunCliMode`, `BatchRunner::Run` and the REPL:

- Startup: `LoadRom`/`LoadRomFails`, `Setup`.
- Batch: `BatchResume` (`_listener->Reset()`), `BatchTrigger` (`dbg->Run()`, a step of its own so a signal can fall between the two), `BatchWait`, `BatchTimedOut`, `BatchNoDebugger`, `BatchCapture`, `BatchReport`.
- REPL: `CliStart`, `ReadCommand`, `EndOfInput`.
- Run-control commands: `ResetListener`, `CmdTrigger`, `CmdWait`, `PrintState`.
- Inspecting commands: `CmdInspect`.
- Shutdown: `Teardown`, `Exited`.

`WaitCall`, `WaitStop` and `WaitTimeout` are the `WaitForBreak` calls. `cont` records where the driver resumes. `timeoutMs` is the value actually passed: 5000, 30000, `N*1000+5000`, 0, or `--timeout`.

Commands that only read or write through the debugger are one `inspect` command, handled by `CmdInspect`: `regs`, `mem`, `x`, the region names, `dump`, `set`, `disasm`, `bt`, `trace` and `info`. Each asks for the debugger, returns when there is none, and otherwise reads the core. What they read is in `MemView` and `BatchReport`; here only the moment of the read matters. `reset` is `Emulator::Reset`, which is not in `src/`, followed by a `PrintState`.

Ghost variables:

- `req` and `coreReq` number the triggers.
- `pendingReq` records whose stop set the pending flag.

Constants:

- `MaxCmds`: REPL commands before EOF.
- `LateStops`: whether a bounded wait may time out while a stop is still on its way, i.e. the step outlives its timeout.
- `EmuMayEnd`.
- `BatchTimeoutMs`, `StepCounts`, `FrameCounts`: the values given to `--timeout`, `step N` and `frames N`. `step 0` reaches `Debugger::Step` unchecked.

A trigger may leave the core running for ever where the code cannot know it stops: `run`, `next` and `finish` (a routine that never returns), and any count of 0 or less (what the core does with it is not in `src/`). A step of N >= 1 instructions or frames always stops.

`MCDebugSession` supplies the integer sets. A `.cfg` file cannot write negative numbers.

Fairness:

- The driver thread, when not waiting for the user, keeps running (WF).
- A timeout passes (WF).
- A core told to stop at a condition it will meet does stop (WF).
- The user, the end of emulation and signals are not fair.


### `Breakpoints`: the BreakpointTranslator

- Variables:
  - `breakpoints`, `nextBreakpointId`: `DebuggerCli::_breakpoints` and `_nextBreakpointId`;
  - `coreBps`: the array last handed to `Debugger::SetBreakpoints`;
  - `dbgAlive`: whether `GetDebugger(false)` yields a debugger;
  - `phase`.
- Actions:
  - `InitialPush`: `RunCliMode` step 9 pushes the `--break` list with ids 1..n.
  - `StartBatch`, `StartRepl`: step 10. The REPL rebuilds its own table with `AddInitialBreakpoint` and syncs.
  - `CmdBreak`, `CmdWatch`: a new entry with the next id, then `SyncBreakpoints`.
  - `CmdDelete`, `CmdDeleteMissing`: `remove_if`/`erase`; no push when nothing matched.
  - `DebuggerGone`: the emulation ends. `SyncBreakpoints` then leaves the core's set as it was.
- `SyncBreakpoints(table)` is part of every action that calls it, never a step of its own.

### `BatchReport`: the report half of `BatchRunner::Run`

It starts where `RunCliMode` resolves the `--dump` type names (`DapMain.cpp:270-296`), which decides what `_dumps` holds (`DapMain.cpp:351-355`). It then runs the part of `Run` after the CPU state is captured: the `--dump` loop, then the assertion loop, then the exit code.

- Dumps: `dumpWords` are the type names in argv order, on the console whose first CPU is `cpu` (`ConsoleOf`). `ResolveDumps` looks each one up in `ConsoleInfo`'s table. The first region under the name wins, an unknown name is reported (`warned`), and only resolved dumps reach `dumpQ` (`_dumps`). `Dump` takes the next one: it is skipped with no debugger; otherwise a size of 0, a failed open or a write is a free choice, since both belong to the core and the file system. `dumpLog` records each dump's region and outcome.

- Register values are not modelled. Whether a value matches is a free choice (`Record(v)`).
- Register names are strings (tuples of characters), because the name decides which register is read:
  - `iequals` is the case-insensitive comparison;
  - `GetRegisterValue(cpu, name)` translates the NES table and the GBA `R<n>` form, which calls `std::stoi(name.substr(1))`;
  - `Stoi` and `StoiThrows` are `std::stoi`: the leading decimal digits, or a throw when there are none.
- Actions: `ResolveDumps`, `Dump`, `DumpsDone`, `CheckReg`, `CheckRegThrows` (the exception leaves `Run`), `CheckMem`, `ReturnVerdict`, `DebuggerGone`, `Finished`.
- `SpecLookup` is the reference: spec 4.3 and 8 say a name is looked up case-insensitively among the CPU's named registers.

### `AddressText` and `AddressParsing`: address text

- `AddressText` holds operators only:
  - `Stoul16` is `std::stoul(s, nullptr, 16)`: an optional `0x`, then the longest hex prefix, or a throw when there is none;
  - `ParseAddress` is `DebuggerCli::ParseAddress`;
  - `ParseAddr` is `DapMain.cpp`'s `ParseAddr`, which is the same code;
  - `BankBits` is `bank << 16` in uint32;
  - `SpecAddress` is the reference: the forms spec 4.2 accepts, and `InvalidAddress` for anything else.
- Results are records `[ok, val]`. `Throws` is `ok = FALSE`.
- `AddressParsing` has no variables. `Inputs` is every string of up to `MaxLen` characters over `Alphabet`, and `ParsedAsSpecified` compares `ParseAddress` with `SpecAddress` on each one. `CliArgs` extends it, since its `--break` and `--check-mem` values go through `ParseAddr`. Its `WellFormedAsSpecified` states the check on the empty command line, so that TLC evaluates the constant in a few states and not in all 151538.

### `RecordedRomTest`: the movie-test recorder

- A frame is its MD5, a model value of `Hashes`. `NoHash` is the `0xFF`-filled `_previousHash` that no frame hashes to. `Cap` is the run limit of 255.
- Variables: `_recording`, `_previousHash`, `_currentCount`, `_repetitionCount`, `_screenshotHashes`; `listening` (registered with the notification manager); `fileOpen` (`_file` is open, and nothing closes it); `frames`, the frames seen since recording began, which only the property reads.
- Actions:
  - `Record`: registers, then opens the file. `ofstream::open` fails on a stream that is already open. If the open succeeds, under `_emu->Lock()`, it resets and starts recording.
  - `PpuFrameDone`: `ProcessNotification` on the emulation thread. `SaveFrame(h)` runs while recording.
  - `Stop`: `Save`, which is empty, then `Reset`.
- `Run` is a stub that returns -1 and `_runningTest` is never set, so `ValidateFrame` is unreachable and not modelled.

### `CliArgs`: `ParseArgs` and `main`

- Option words are model values. Every other word is a string from `Texts`, and `Argv` is every command line of up to `MaxArgs` words.
- Variables: `argv`, the index `i`, the `CliArgs` record `args`, `pc` and `exitCode`.
- Actions: one per branch of the `ParseArgs` loop.
  - `OptHelp`, `OptSwitch`, `OptBreak`, `OptTimeout`, `OptCheckReg`, `OptCheckMem`, `OptDump`, `OptOther`.
  - `Abort`: a `ParseAddr` or `std::stoi` throw. Nothing catches it, so the process ends in `std::terminate`.
  - `ArgsDone`, then `Main`: usage gives exit 2, DAP mode gives 0, no ROM gives 2, anything else goes to `RunCliMode`.
- The expected value of an assertion is `(uint16_t)ParseAddr(value)`, i.e. `% 65536`.

### `Formatter`, `RegisterFormat` and `ConsoleInfo`: listings, registers and region tables

- `Formatter` has the three listings of `formatter.cpp` as operators on rows: `FormatMemoryHex` (the loop over 16-byte rows is `RECURSIVE HexRows`; a row is its address, its bytes and its ASCII column, with `Printable` the 0x20-0x7E test), `FormatDisassembly` (`DisasmRows` skips lines with a negative address; a row keeps at most 4 opcode bytes and the padding that follows them) and `FormatCallstack` (a row per frame, numbered from 0, tagged by bit 0 then bit 1 of the flags). Spacing and hex digits are left out: `snprintf`'s fixed formats decide them.
- `RegisterFormat` has the register renderings, text (`FormatRegisters`) and JSON (`FormatRegistersJson`), for every CPU the dispatchers handle.
  - A CPU state is the set of its flags that are set, named after the code's flag enumerators. The bit masks behind them are defined outside `src/`.
  - Each CPU has a text table, `<<flag, token when set, token when clear>>` in print order, and a JSON table, `<<key, flag>>`. They are named after the functions they translate (`FormatNesFlags`, `FormatNesRegistersJson`, ...). The SNES text adds `[m8|m16 x8|x16]`, the GBA text `THUMB|ARM`.
  - The WS object prints the flags word as `"flags"` and its booleans as `"flag_bits"`; every other CPU prints the booleans as `"flags"`.
  - Register values, the cycle counter and the GBA mode name are left out. Each is printed from one field with a fixed format, whatever the flags are.
- `ConsoleInfo` has `GetMemoryRegions`, each console's table as a sequence of `[type, shortName]` records in table order, and `FirstRegion`, the `for ... if(name == r.shortName) ... break` lookup that `Run` and `CmdDump` both use.

### `MemView`: memory views

- Variables: `req` (the command and its arguments), `dbgAlive`, `console` (`_consoleType`, fixed for the session), `cpuMem` (the primary CPU's memory space, which `set` writes), `jsonOutput` (`_jsonOutput`, fixed for the session), `out` (the range handed to `GetMemoryValues`, the listing printed, the bytes a dump wrote, or the message printed).
- Actions: `CmdMem`, `RegionCommand` (`Run`'s alias loop, then `CmdMemTyped`), `CmdDump`, `CmdSet`, `CmdDisasm`, `CmdBacktrace`, `CmdRegs`, `PrintDisassemblyAtPC`, `NextCommand`, `DebuggerGone`.
- `CmdRegs` is `PrintState`: it copies one of the `Snapshots` of the primary CPU and prints it as JSON or as text. Text is followed by `PrintDisassemblyAtPC(3)`, a step of its own, because it takes a second debugger request and the debugger may be gone by then. The primary CPU is `emu->GetCpuTypes()[0]`, outside `src/`: each console's main CPU (`PrimaryCpu`).
- uint32 arithmetic is `Plus` and `Minus` on `Bits`-bit words. 2^32 is beyond TLC's integers, but every wrap-around of the code happens at the same place relative to the word size. So `Bits = 6` with a 32-byte region keeps each case of the clamp.
- `GetMemoryValues(type, start, end, buf)` and `GetMemoryState` are in the core, outside `src/`: `Buffer` copies the range into the zeroed buffer when `start <= end`, and nothing otherwise; a dump gets the whole region. The disassembler and the call-stack manager return any listing of up to `MaxListing` lines or frames.
- A negative `disasm` count makes the `std::vector` constructor throw; `Run`'s catch prints it (`error`).

### `MessageManager`: the log and the message display

- Variables: `log`, `messageManager`, `osdEnabled`, `outputToStdout`, `messageLock` (its owner), a position `pc` and argument `arg` per thread for `DisplayMessage`, and two histories: `logged` (every line pushed since the last `ClearLog`) and `shown` (every message handed to a manager, with the manager).
- Actions: `Log`, `ClearLog`, `GetLog`, `SetOptions`, `RegisterMessageManager`, `UnregisterMessageManager`, and `DisplayMessage` in four steps: the unlocked read (`DisplayMessage`), the lock and recheck (`DisplayLock`), the hand-over or the decision to log (`DisplayOut`), and the nested `Log` (`DisplayLog`).
- A `_logLock` critical section is one step: only its holder touches `_log`. `_messageLock` is held across steps, because `Register`/`Unregister` wait for it.
- `Entry` is `Log`'s empty-message rule. A line `DisplayMessage` logs is `"[title] message"`, which is never empty.
- Texts are model values; `Localize` and the `%1`/`%2` substitution only change text.

### `VideoRenderer`: the render thread

- Variables: `renderer`, `renderThread` (a thread id or `NULL`), `stopFlag`, `lockOwner` (`_stopStartLock`), `signaled` (`_waitForRender`), `needRedraw`, `rpc` and `force` per render thread, `pc` and `ret` per caller, `epc` for the emulation thread, and `nullCalls`, the call sites that went through a null `_renderer`.
- Caller actions: `StartThread`, `StopThread`, `RegisterRenderingDevice`, `UnregisterRenderingDevice` begin a call; `StartCheck`, `StartLock`, `StartRecheck` are lines 44-51; `StopSetFlag`, `StopCheck`, `StopLock`, `StopRecheck`, `StopJoin` are lines 57-63; `UnregisterClear` is line 195. Each unlocked read of a shared field is its own step.
- Render thread actions: `ThreadStarted` and `OnRendererThreadStarted` (lines 69-70), `Loop` (73), `Wait` (75-76: the event is consumed, or the 32 ms timeout forces a render), `Draw` (77-103: a HUD surface may come out dirty; a render goes through `_renderer` as it is then).
- Emulation thread: `UpdateFrame` (lines 161-171, up to the test of `_renderer`) and `UpdateFrameCall` (172-174).
- `join()` is `StopJoin`'s guard: it is enabled once the thread has left its loop.
- Fairness: weak fairness for every step of a caller inside a call, of every render thread, and of the emulation thread inside `UpdateFrame`. These are running threads; the 32 ms timeout keeps `Wait` enabled. No caller is obliged to start a call.
- The destructor (`_stopFlag = true; StopThread()`) is `StopThread`, whose first step sets the flag again.

## Runs

| Run | Config | Expect | Distinct states | What it shows |
|---|---|---|---|---|
| listener_refines_bridge | `CliNotificationListener.cfg` | pass | 164 | The coded listener, with spurious wake-ups and deadlines, implements the bridge contract. No signal is lost between check and block. |
| session | `DebugSession.cfg` | pass | 12200 | Stops may arrive after their waits timed out, `step` takes 1 or 0, `next`, `finish` and `run` may never stop, and the emulation may end at any time. A wait blocked on a paused core always returns, in both modes (`WaitEndsWhenCorePauses`). |
| late_stop_misattributed | `DebugSession_late_stop.cfg` | violation | | `StopBelongsToCommand`: a stop whose wait timed out is taken as the next command's stop. Reset-before-trigger does not prevent it. |
| run_hangs_after_emulation_end | `DebugSession_emu_end.cfg` | violation | | `WaitEndsWhenCoreStops`: the emulation ends during the load's wait, which consumes the stop; a later unbounded wait (`frames -5` in the trace) blocks for ever, because `_stopped` is never read. |
| command_line | `CliArgs.cfg` | pass | 151538 | For every command line of up to 4 words, the `--break` addresses and the assertions are kept in argv order, each built from its own option's value (`OptionsInArgvOrder`). Every string of up to 4 characters that spec 4.2 accepts parses to the spec's value (`WellFormedAsSpecified`). |
| region_view | `MemView.cfg` | pass | 14224 | For lengths of 1 or more that do not wrap, a region command reads exactly its clamped length from inside the region (`RegionReadInBounds`). Every dump shows the bytes read, after every `set` so far, in 16-byte rows with the spec's ASCII column (`DumpShowsRead`). A disassembly keeps its text column aligned and its comments (`DisasmAligned`). A backtrace lists every frame with the tag its flags give (`BacktraceAsSpecified`). Every alias of a NES or Game Boy session reaches its own region, in region commands and in `dump`, and an unknown dump type is answered with the console's aliases (`AliasResolvesToItsRegion`). `regs` shows every flag that the JSON keys by a letter at exactly one position of the text mnemonic, uppercase exactly when the JSON boolean is true, in both output modes (`FlagsShownAlike`). |
| breakpoint_table | `Breakpoints.cfg` | pass | 3002 | Across the initial push, the REPL's rebuild, and break, watch and delete with the debugger able to vanish, ids are unique (`UniqueIds`). The core's set mirrors the table while there is a debugger (`CoreMirrorsTable`). |
| batch_report | `BatchReport.cfg` | pass | 110984 | Every assertion is evaluated, and the exit code is 0 exactly when all pass (`ExitCodeReflectsAssertions`). Every `--dump` name the console lists is dumped from a region listed under it, in argv order. Each other name is reported, and it does not cost the dumps after it. After the debugger is gone, every later dump is skipped (`DumpsAsSpecified`). |
| messages | `MessageManager.cfg` | pass | 65206 | Two threads log, clear, display and (un)register managers. The log always holds exactly the newest `Cap` lines pushed since the last clear, in order (`LogKeepsNewest`). A message is only ever shown through a registered manager (`ShownOnlyToRegistered`). |
| recorded_rom_test | `RecordedRomTest.cfg` | pass | 131 | Over every run of up to 7 frames of two hashes, with `Cap = 3`, the pushed hashes, the pushed counts and the pending `_currentCount` encode exactly the frames recorded. Every count is between 1 and the cap, and a run is split only when full (`RunLengthEncodes`). |
| video_renderer | `VideoRenderer.cfg` | pass | 21334 | One caller registers, unregisters, starts and stops while the emulation thread hands over frames. The render thread never calls a null device (`RenderNeverCallsNull`), and every `StopThread` returns (`StopReturns`). |
| renderer_stop_hangs | `VideoRenderer_stop_hang.cfg` | violation | | `StopReturns`: with two callers, `StartThread` clears `_stopFlag` after `StopThread` set it, and `join()` waits for ever. |

`session` and `run_hangs_after_emulation_end` set `CHECK_DEADLOCK FALSE`. There the program really does stop: a `run` issued after the emulation ended blocks with no thread left to wake it, which is the finding. Every other pass run checks deadlock.

Each property of a pass run has a mutant in `PROJECT.json`: a plausible bug in the mapped code that TLC must catch.

- `WaitForBreakKeepsFlag`: the fast path forgets to clear the flag.
- `CvBlockHoldingLock`: the block does not give the lock back.
- `WaitCallNoBlock`: the caller does not block.
- `WaitStopOnStopped`: the wait predicate tests `_stopped` instead.
- `ParseAddressDollarOffByOne`: `$` is stripped only from strings longer than 2.
- `SaveFrameCapOffByOne`: the cap is tested with `<=`, so a run grows one past 255.
- `SaveFramePushesZero`: the `_currentCount > 0` test is dropped, so the first frame pushes a count of 0.
- `OptDumpOneTooFar`: `--dump` skips one word too many.
- `OptCheckMemSwapped`: address and value are swapped.
- `MinusSigned`: uint32 subtraction done in signed arithmetic.
- `CmdMemTypedOffByOne`: the clamp lets one byte past the region through.
- `HexRowOverlap`: a dump row takes 17 bytes.
- `DisasmRowPadOffByOne`: the padding loop runs to `j <= 4`.
- `CallstackRowBitsSwapped`: the NMI and IRQ bits are read the other way round.
- `FormatGbRegistersJsonSwapped`: the Game Boy JSON prints `n` and `h` from each other's flag.
- `GetMemoryRegionsDup`: the Game Boy's cart RAM is listed under `wram`, a copy-paste slip in the table.
- `SyncBreakpointsUntranslated`: entries reach the core without translation.
- `CmdBreakBySize`: the id is the table's length plus one.
- `CmdWatchNoSync`: `watch` does not push.
- `ResolveDumpsUnfiltered`: the `memType >= 0` filter before `AddDump` is dropped, so an unresolved dump reaches `_dumps`.
- `ResolveDumpsStopAtUnknown`: the first unknown `--dump` name ends the resolution, a `break` in place of going on.
- `CheckRegUnknownPasses`: an unknown register does not clear `allPassed`.
- `PushLineDropFirstPastCap`: the bound is tested with `>`, so the log grows past it.
- `PushLineDropNewest`: `pop_back` in place of `pop_front`.
- `DisplayLockNoRecheck`: the check of `_messageManager` under the lock is dropped.
- `UnregisterClearsFirst`: `_renderer` is cleared before `StopThread`.
- `StopSetFlagDropped`: `StopThread` does not set `_stopFlag`.

## Findings

Each is a violation run; `PROJECT.json` has the details and source lines.

1. **A late stop is misattributed** (`debugger_cli.cpp:157`, spec gap). Spec 5's Reset-before-trigger is not enough once waits can time out. The initial 5 s wait's result is ignored, so a late load break is consumed by the first command.
2. **An unbounded wait hangs after the emulation ended** (`cli_notification.h:41`, spec/code divergence). `ProcessNotification` sets `_stopped`, but nothing reads it: `IsStopped` is never called, and `WaitForBreak` waits for `_breakOccurred` only. In the trace the emulation ends while the load's `WaitForBreak(5000)` (`DapMain.cpp:264`) is blocked, and that wait consumes the stop. A later `frames -5` (timeout 0, `debugger_cli.cpp:422`) has no debugger to trigger and waits for ever. A `run` (line 200) would do the same.
3. **`StopThread` can hang** (`VideoRenderer.cpp:57`, code bug). `_stopFlag = true` is written before `_stopStartLock` is taken. A `StartThread` already holding the lock clears the flag and creates a thread, which `StopThread` then joins for ever, holding the lock. In TLC's trace one caller is in `UnregisterRenderingDevice` and the other in `RegisterRenderingDevice`. `StopThread` sets `_stopFlag` (line 57) while the lock is free. `StartThread` then takes the lock, clears the flag (line 47) and creates a thread. `StopThread` takes the lock, finds that thread (line 58) and blocks in `join()` (line 61) while the thread loops.

Three observations that need no concurrency are recorded as hazards rather than runs, because the number of runs is bounded. Each was shown by a run in an earlier version of this project, and the model still reaches it:
- after a timeout, `PrintState` reads a running core (`debugger_cli.cpp:163`; the session run reaches it);
- a region command of length 0 asks for `[addr, addr - 1]`, the whole address space at address 0 (`debugger_cli.cpp:318`; region_view reaches it, and `RegionReadInBounds` leaves length 0 out);
- `CmdMemTyped`'s clamp wraps in uint32 (`debugger_cli.cpp:313`);
- on a GBA, `std::stoi` throws on the register name `RA`, and nothing catches it, and it reads `R1X` as `R1` (`batch_runner.cpp:97`).

## Bounds, and why they are enough

- **Listener.** Unbounded. Every interleaving of one notifier with one caller is covered.
- **Session.** `MaxCmds = 3`; the violation runs use 2.
  - Three commands are enough for a timed-out command followed by another command, and for a command after the emulation ended.
  - `--timeout` ∈ {10000, 0} covers a bounded and an unbounded batch wait.
  - `frames N` with N ∈ {1, -5} gives a positive and a non-positive timeout; `step N` with N ∈ {1, 0} a count that stops and one that reaches the core unchecked.
  - Both modes are initial states.
- **Address parsing.** Every string of up to 4 characters over `0 1 a F $ x : z`. That reaches each form of spec 4.2 (`1a`, `$F`, `0x1a`, `1:a0`) and each prefix edge case (`$`, `0x`, `$0x1`).
- **Command line.** Every command line of up to 4 words over the 11 options and 3 texts: a hex and decimal number, a `NAME=VALUE` pair, and an unknown option. Two options with their values fit in 4 words, which is what argv order needs.
- **Memory views.** 6-bit words; a NES and a Game Boy session, whose save RAM and cart RAM have size 0 and whose other regions have 32 bytes. The addresses are inside, at the edge of and past a region. The lengths are 0, fit, or need the clamp. None wraps the word; a length of 60 from address 8 would (see the hazard at `debugger_cli.cpp:313`). The words typed are an alias of both consoles (`wram`), of one only (`sram`, `cartram`, `nt`), of a region of size 0 on one console, and of none. Memory holds 0x1F, 0x20, 0x41, 0x7E and 0x7F, the bytes on both sides of the printable range. `set` writes 0x7F, or 0x141, which the `uint8_t` cast turns into 0x41. `disasm` counts are -1, 0 and 10; lines have a negative or real address, 1 or 5 opcode bytes, and a comment or none. Frames carry each of the flag values 0 to 3. The listing bound `MaxListing = 2` is enough for order and for a row after a skipped line. `regs` copies every state of the NES or Game Boy CPU with two flags set, in both output modes: any two flags that a rendering could confuse differ in one of these states.
- **Breakpoints.** Two addresses, both given with `--break`. Ids go up to 5, so a delete is followed by new ids. `delete` targets an initial id, a REPL id and an unused id.
- **Batch report.** Up to 2 assertions and 2 dumps, on a NES and a GBA. The dump names are `wram` (NES only), `iwram` (GBA only) and `zz` (neither). Two dumps are enough to put an unknown name before a known one, and to lose the debugger between two dumps. Names: `a`, `SP`, `pc`, `LR`, `r13`, `RA`, `Q`.
- **MessageManager.** Two threads, two managers, one text and the empty text, `Cap = 2` for 1000, three calls per thread. Three calls overflow a log of 2. They also let a `ClearLog` or an `Unregister` fall between the steps of the other thread's `DisplayMessage`. The bound only decides when the drop starts; `Log` treats 2 and 1000 alike.
- **RecordedRomTest.** Two hashes, which are interchangeable (symmetry), `Cap = 3` for 255, and up to 7 frames per recording. Seven frames hold a full run followed by more of the same hash, a change of hash right after a full run, and runs of 1. `Record` after `Stop` finds the file still open, which the model reaches.
- **VideoRenderer.** One caller (pass run) or two (violation), two devices, up to 4 or 2 calls per caller, and 2 frames. Four calls give register, stop, start, and unregister in any order, including unregistering a device that is not registered. Two callers with two calls each are the fewest that race a start against a stop.

## Not modelled, and why

- **Register values in the register renderings.** `RegisterFormat` keeps only the flags. The values and the cycle counter are each printed from one field with a fixed format.
- **The WS JSON shape.** Spec 4.4 and 6 make a `flags` object of booleans part of the JSON contract. `FormatWsRegistersJson` prints `flags` as a hex string and puts the booleans under `flag_bits` (`formatter.cpp:436-437`). No run states the shape, because the number of runs is bounded. `FlagsShownAlike` reads the WS booleans where the code puts them.
- **ConsoleRegistry's names and flags.** `GetCpuName`, `GetConsoleName` and `GetDebuggerFlag` are constant lookups that only messages and setup use.
- **VirtualFile.** It is file I/O with caches. Only the emulation core's `LoadRom`, outside `src/`, calls its methods, so no sequence of calls to it follows from this code. Its `ReadByte` reading from `_path` and not from `_data` is recorded as a hazard.
- **DAP mode.** It prints a message and returns 0 (`Main`).
- **SDL and renderer setup.** This is I/O.
- **RecordedRomTest's replay and save.** `Run` is a stub returning -1, and `_runningTest` is never set, so `ValidateFrame` is unreachable. `Save` is empty. Two hazards have no property. First, `Stop` is not under `_emu->Lock()` and races `SaveFrame`, a data race on the deques with no bounded set of outcomes. Second, `_file` is never closed, so a `Record` after `Stop` fails and recording never starts again.
- **VideoRenderer's HUDs and sizes.** `DrawScriptHud`, `GetEmuHudSize`, `Get/SetRendererSize` and `ClearFrame` draw or compute sizes. `Draw` keeps only their outcome, whether a surface is dirty.
- **Two VideoRenderer races not made into runs.** They are in `PROJECT.json` as hazards with notes. First, `UpdateFrame` tests `_renderer` and then calls through it, so an `UnregisterRenderingDevice` in between makes it call a null pointer; the model records this in `nullCalls`. Second, with two callers the render thread can also call a null device. `video_renderer` has one caller, because which threads call `Register`/`Unregister`, and when, is decided outside `src/`.
- **The contents of registers.** No property tells them apart. Memory contents are in `MemView` only.
- **Further observations recorded as hazards, not as runs.** Each is in `PROJECT.json` with a note:
  - `ParseAddress` accepts trailing text;
  - a bad option value throws out of `ParseArgs`;
  - `--check-reg A=10000` is truncated to 16 bits;
  - `mem` has no clamp;
  - a length of 0 underflows the end address;
  - `step 0` reaches the core;
  - SIGINT cannot end `run`.

## Plan for the next modules

1. `VideoRenderer` with two callers, once the run budget allows: `RenderNeverCallsNull` and the `UpdateFrame` null call.
