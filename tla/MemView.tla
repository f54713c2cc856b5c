------------------------------- MODULE MemView -------------------------------
(***************************************************************************)
(* The REPL's inspection views (src/GDB/debugger_cli.cpp): "mem <addr>    *)
(* [len]" (CmdMem) and "set <addr> <val>" (CmdSet) on the primary CPU's   *)
(* memory space, "<alias> [addr] [len]" (CmdMemTyped) and "dump <alias>   *)
(* <file>" (CmdDump) on a region resolved through the console's table,   *)
(* "disasm [addr] [n]" (CmdDisasm), "bt" (CmdBacktrace) and "regs"        *)
(* (CmdRegs), each up to the listing it prints through the Formatter.     *)
(* The address arithmetic is uint32_t; it is modelled on words of Bits   *)
(* bits (2^32 is beyond TLC's integers), which keeps every wrap-around of *)
(* the code at the same place relative to the word size.  What the       *)
(* disassembler and the call-stack manager return (code outside src/) is  *)
(* any short listing over the given line and frame sets; what GetCpuState *)
(* copies is any of the given Snapshots of the primary CPU.                *)
(***************************************************************************)
EXTENDS Formatter, RegisterFormat, ConsoleInfo, SequencesExt

CONSTANTS
  Consoles,   \* the consoles the session may have loaded (_consoleType)
  MemSize,    \* GetMemorySize of each memory type (0: not available)
  Addrs,      \* addresses typed
  Lens,       \* lengths typed (default 256)
  Mem,        \* the byte at each address, of every memory space at start
  Words,      \* words typed as a command verb or a dump type
  SetAddrs,   \* set <addr> <val>: the addresses
  SetVals,    \*   and the values, std::stoul(tokens[2], nullptr, 16)
  Counts,     \* disasm line counts typed (default 10)
  CodeLines,  \* CodeLineData the disassembler may return
  Frames,     \* StackFrameInfo the call-stack manager may return
  MaxListing, \* lines or frames returned, at most
  Snapshots   \* the states (sets of flags set) GetCpuState may copy, per CPU

Word == 2^Bits
\* uint32_t addition and subtraction, on Bits-bit words.
Plus(a, b) == (a + b) % Word
\* Mutant: the subtraction done in signed arithmetic.
MinusSigned(a, b) == a - b
Minus(a, b) == (a - b) % Word

ASSUME Addrs \subseteq 0..Word - 1 /\ Lens \subseteq 0..Word - 1
ASSUME Mem \in [0..Word - 1 -> 0..255]

\* The verbs DebuggerCli::Run compares a command with before it tries the
\* region aliases.
Builtins == {"step", "s", "next", "n", "finish", "run", "c", "continue", "break", "b",
             "watch", "delete", "del", "info", "regs", "r", "mem", "x", "dump", "set",
             "disasm", "d", "bt", "backtrace", "frames", "reset", "trace", "help", "h",
             "?", "quit", "q", "exit"}
ASSUME Words \cap Builtins = {} /\ SetAddrs \subseteq 0..Word - 1

Request ==
  [kind : {"mem"}, addr : Addrs, len : Lens]
  \cup [kind : {"alias"}, cmd : Words, addr : Addrs, len : Lens]
  \cup [kind : {"dump"}, type : Words]
  \cup [kind : {"set"}, addr : SetAddrs, val : SetVals]
  \cup [kind : {"disasm"}, count : Counts]
  \cup [kind : {"bt"}]
  \cup [kind : {"regs"}]
\* What the command did: a read of len bytes from start to end of a region,
\* the bytes written to a dump file, or a message.
Outcome == [status : {"idle", "noDebugger", "notAvailable", "outOfRange", "read",
                      "unknownCommand", "unknownType", "openFailed", "dumped", "set",
                      "error", "disasm", "empty", "stack", "nothing", "regsShown", "regs"},
            region : {"none"} \cup DOMAIN MemSize,
            start : 0..Word - 1, end : 0..Word - 1, len : 0..Word - 1,
            file : Seq(0..255)]
\* The outcome, its listing aside: rows is what was printed (rows of the
\* Formatter, or the aliases an unknown dump type is answered with), src
\* what it was made from (a CPU state, for "regs"), listing the disassembly
\* printed after the registers.
OutcomeOK(o) ==
  /\ [f \in DOMAIN o \ {"rows", "src", "listing"} |-> o[f]] \in Outcome
  /\ IF o.status \in {"regsShown", "regs"}
       THEN o.src \in UNION {Snapshots[c] : c \in DOMAIN Snapshots}
       ELSE o.src \in Seq(CodeLines) \cup Seq(Frames)

VARIABLES
  req,       \* the command being handled
  dbgAlive,  \* _emu->GetDebugger(false) yields a debugger
  console,   \* _consoleType
  cpuMem,    \* the primary CPU's memory space (what set writes)
  jsonOutput, \* _jsonOutput
  out        \* its outcome

vars == <<req, dbgAlive, console, cpuMem, jsonOutput, out>>

Idle == [status |-> "idle", region |-> "none", start |-> 0, end |-> 0, len |-> 0,
         file |-> << >>, rows |-> << >>, src |-> << >>, listing |-> << >>]
Say(s) == [Idle EXCEPT !.status = s]

\* GetMemoryValues(type, start, end, buf) copies the bytes start..end into
\* the zeroed buffer of l bytes; a range that ends below its start copies
\* nothing.
Buffer(m, a, l) ==
  [k \in 1..l |-> IF a <= Minus(Plus(a, l), 1) THEN m[Plus(a, k - 1)] ELSE 0]

Read(m, a, l) ==
  [Idle EXCEPT !.status = "read", !.start = a, !.end = Minus(Plus(a, l), 1), !.len = l,
               !.rows = FormatMemoryHex(Buffer(m, a, l), l, a)]

TypeOK ==
  /\ req \in Request /\ dbgAlive \in BOOLEAN /\ console \in Consoles
  /\ cpuMem \in [0..Word - 1 -> 0..255] /\ jsonOutput \in BOOLEAN
  /\ OutcomeOK(out)

Init ==
  /\ req \in Request
  /\ dbgAlive \in BOOLEAN
  /\ console \in Consoles
  /\ cpuMem = Mem
  /\ jsonOutput \in BOOLEAN
  /\ out = Idle

\* CmdMem: no debugger, return; otherwise read len bytes at addr, unclamped.
CmdMem ==
  /\ out = Idle /\ req.kind = "mem"
  /\ out' = IF dbgAlive THEN Read(cpuMem, req.addr, req.len) ELSE Say("noDebugger")
  /\ UNCHANGED <<req, dbgAlive, console, jsonOutput, cpuMem>>

\* Mutant: the clamp lets one byte past the region through.
CmdMemTypedOffByOne(a, len, type) ==
  LET size == MemSize[type]
      l == IF Plus(a, len) > size + 1 THEN Minus(size, a) ELSE len
  IN CASE ~dbgAlive -> Say("noDebugger")
       [] size = 0 -> [Say("notAvailable") EXCEPT !.region = type]
       [] a >= size -> [Say("outOfRange") EXCEPT !.region = type]
       [] OTHER -> [Read(Mem, a, l) EXCEPT !.region = type]

\* CmdMemTyped: no debugger, region not available, address out of range;
\* otherwise clamp len when addr + len > size (uint32_t), and read.
CmdMemTyped(a, len, type) ==
  LET size == MemSize[type]
      l == IF Plus(a, len) > size THEN Minus(size, a) ELSE len
  IN CASE ~dbgAlive -> Say("noDebugger")
       [] size = 0 -> [Say("notAvailable") EXCEPT !.region = type]
       [] a >= size -> [Say("outOfRange") EXCEPT !.region = type]
       [] OTHER -> [Read(Mem, a, l) EXCEPT !.region = type]

\* Run, for a verb that is no built-in command: the first region of the
\* console listed under it gets CmdMemTyped, else "Unknown command".
RegionCommand ==
  /\ out = Idle /\ req.kind = "alias"
  /\ out' = IF HasAlias(console, req.cmd)
              THEN CmdMemTyped(req.addr, req.len, FirstRegion(console, req.cmd).type)
              ELSE Say("unknownCommand")
  /\ UNCHANGED <<req, dbgAlive, console, jsonOutput, cpuMem>>

\* CmdDump: no debugger; a type the console does not list is reported with
\* the valid ones; a region of size 0 is not available; the file may fail
\* to open; otherwise the whole region (GetMemoryState) is written to it.
CmdDump ==
  /\ out = Idle /\ req.kind = "dump"
  /\ IF ~dbgAlive THEN out' = Say("noDebugger")
     ELSE IF ~HasAlias(console, req.type)
       THEN out' = [Say("unknownType") EXCEPT !.rows = Aliases(console)]
     ELSE LET t == FirstRegion(console, req.type).type
          IN IF MemSize[t] = 0 THEN out' = [Say("notAvailable") EXCEPT !.region = t]
             ELSE \/ out' = [Say("openFailed") EXCEPT !.region = t]
                  \/ out' = [Say("dumped") EXCEPT !.region = t, !.len = MemSize[t],
                                                   !.file = [k \in 1..MemSize[t] |-> Mem[k - 1]]]
  /\ UNCHANGED <<req, dbgAlive, console, jsonOutput, cpuMem>>

\* CmdSet: the value, cast to uint8_t by Run, written to the primary CPU's
\* memory space (SetMemoryValue).
CmdSet ==
  /\ out = Idle /\ req.kind = "set"
  /\ IF dbgAlive
       THEN /\ cpuMem' = [cpuMem EXCEPT ![req.addr] = req.val % 256]
            /\ out' = Say("set")
       ELSE /\ out' = Say("noDebugger")
            /\ UNCHANGED cpuMem
  /\ UNCHANGED <<req, dbgAlive, console, jsonOutput>>

\* CmdDisasm: a vector of count lines (a negative count throws
\* std::length_error, which Run's catch prints), of which the disassembler
\* fills the first "actual", and FormatDisassembly prints those.
CmdDisasm ==
  /\ out = Idle /\ req.kind = "disasm"
  /\ IF ~dbgAlive THEN out' = Say("noDebugger")
     ELSE IF req.count < 0 THEN out' = Say("error")
     ELSE \E lines \in BoundedSeq(CodeLines, IF req.count < MaxListing THEN req.count ELSE MaxListing) :
            out' = [Idle EXCEPT !.status = "disasm", !.src = lines,
                                !.rows = FormatDisassembly(lines, Len(lines))]
  /\ UNCHANGED <<req, dbgAlive, console, jsonOutput, cpuMem>>

\* CmdBacktrace: no call-stack manager for the CPU, an empty stack, or the
\* frames through FormatCallstack.
CmdBacktrace ==
  /\ out = Idle /\ req.kind = "bt"
  /\ IF ~dbgAlive THEN out' = Say("noDebugger")
     ELSE \/ out' = Say("notAvailable")
          \/ \E frames \in BoundedSeq(Frames, MaxListing) :
               out' = IF frames = << >> THEN Say("empty")
                      ELSE [Idle EXCEPT !.status = "stack", !.src = frames,
                                        !.rows = FormatCallstack(frames, Len(frames))]
  /\ UNCHANGED <<req, dbgAlive, console, jsonOutput, cpuMem>>

\* emu->GetCpuTypes()[0], the CPU DapMain hands the REPL as _primaryCpu
\* (the emulator is outside src/): each console's main CPU.
PrimaryCpu == [c \in ConsoleTypes |-> IF c = "PcEngine" THEN "Pce" ELSE c]

\* CmdRegs, that is PrintState: no debugger, nothing is printed; otherwise
\* the CPU state is copied under the debugger request, which is then
\* released, and printed as JSON, or as text that PrintDisassemblyAtPC
\* follows.
CmdRegs ==
  /\ out = Idle /\ req.kind = "regs"
  /\ IF ~dbgAlive THEN out' = Say("nothing")
     ELSE \E s \in Snapshots[PrimaryCpu[console]] :
            out' = [Idle EXCEPT !.status = IF jsonOutput THEN "regs" ELSE "regsShown", !.src = s,
                                !.rows = IF jsonOutput THEN FormatRegistersJson(PrimaryCpu[console], s)
                                         ELSE FormatRegisters(PrimaryCpu[console], s)]
  /\ UNCHANGED <<req, dbgAlive, console, jsonOutput, cpuMem>>

\* PrintDisassemblyAtPC(3), under a debugger request of its own: the
\* debugger may be gone since the registers were printed, and then nothing
\* follows them; otherwise up to 3 lines at the PC.
PrintDisassemblyAtPC ==
  /\ out.status = "regsShown"
  /\ IF ~dbgAlive THEN out' = [out EXCEPT !.status = "regs"]
     ELSE \E lines \in BoundedSeq(CodeLines, IF 3 < MaxListing THEN 3 ELSE MaxListing) :
            out' = [out EXCEPT !.status = "regs", !.listing = FormatDisassembly(lines, Len(lines))]
  /\ UNCHANGED <<req, dbgAlive, console, jsonOutput, cpuMem>>

\* The REPL reads the next command.
NextCommand ==
  /\ out # Idle /\ out.status # "regsShown"
  /\ out' = Idle
  /\ req' \in Request
  /\ UNCHANGED <<dbgAlive, console, cpuMem, jsonOutput>>

\* The emulation ends.
DebuggerGone ==
  /\ dbgAlive
  /\ dbgAlive' = FALSE
  /\ UNCHANGED <<req, console, cpuMem, jsonOutput, out>>

Next ==
  \/ CmdMem \/ RegionCommand \/ CmdDump \/ CmdSet \/ CmdDisasm \/ CmdBacktrace
  \/ CmdRegs \/ PrintDisassemblyAtPC \/ NextCommand \/ DebuggerGone

Spec == Init /\ [][Next]_vars

-----------------------------------------------------------------------------
(* Properties                                                              *)

(* A region command with a length of at least 1 reads only bytes of its  *)
(* region: the range CmdMemTyped hands to GetMemoryValues runs upward     *)
(* from the address, holds exactly the buffer's len bytes, and ends       *)
(* before the region's size (spec 4.5: length clamped to the region's     *)
(* bound).  Length 0 is left out: the code has no check for it and asks   *)
(* for [addr, addr - 1], the whole address space at address 0.            *)
RegionReadInBounds ==
  out.status = "read" /\ req.kind = "alias" /\ out.len > 0 =>
    /\ out.start <= out.end
    /\ out.end - out.start + 1 = out.len
    /\ out.end < MemSize[out.region]

(* A dump shows what was read, as spec 4.5 lays it out: read in order, its *)
(* rows hold exactly the bytes the memory space holds now (after every    *)
(* "set" so far, for "mem") in the range, 16 to a row (the last one       *)
(* may be short), each row starts at the address of its first byte, and   *)
(* the ASCII column shows each printable byte (0x20-0x7E) as itself and    *)
(* any other as '.'.                                                       *)
DumpShowsRead ==
  out.status = "read" /\ out.start <= out.end =>
    LET rows == out.rows
        m == IF req.kind = "mem" THEN cpuMem ELSE Mem
    IN
    /\ FlattenSeq([r \in DOMAIN rows |-> rows[r].hex]) = [k \in 1..out.len |-> m[Plus(out.start, k - 1)]]
    /\ \A r \in DOMAIN rows :
         /\ Len(rows[r].hex) \in 1..16
         /\ r < Len(rows) => Len(rows[r].hex) = 16
         /\ rows[r].addr = Plus(out.start, 16 * (r - 1))
         /\ rows[r].ascii = [j \in DOMAIN rows[r].hex |->
                               IF rows[r].hex[j] \in 32..126 THEN rows[r].hex[j] ELSE 46]

(* A disassembly lists, in order, exactly the lines the disassembler gave  *)
(* with an address, each with its first (up to 4) opcode bytes, padded so *)
(* that the text always starts in the same column, and its comment only   *)
(* if it has one.                                                          *)
DisasmAligned ==
  out.status = "disasm" =>
    LET shown == SelectSeq(out.src, LAMBDA l : l.address >= 0) IN
    /\ Len(out.rows) = Len(shown)
    /\ \A i \in DOMAIN out.rows :
         /\ out.rows[i].addr = shown[i].address
         /\ out.rows[i].bytes = SubSeq(shown[i].byteCode, 1, Len(out.rows[i].bytes))
         /\ Len(out.rows[i].bytes) + out.rows[i].pad = 4
         /\ (out.rows[i].comment = << >>) = (shown[i].comment = NoComment)

(* A backtrace lists every frame the call-stack manager gave, in order,    *)
(* numbered from 0, each with its source and target, tagged [NMI] when    *)
(* the NMI flag (1) is set, else [IRQ] when the IRQ flag (2) is.          *)
BacktraceAsSpecified ==
  out.status = "stack" =>
    /\ Len(out.rows) = Len(out.src) /\ Len(out.rows) > 0
    /\ \A i \in DOMAIN out.rows :
         /\ out.rows[i].index = i - 1
         /\ out.rows[i].source = out.src[i].source /\ out.rows[i].target = out.src[i].target
         /\ out.rows[i].tag = CASE out.src[i].flags \in {1, 3} -> "NMI"
                                [] out.src[i].flags = 2 -> "IRQ"
                                [] OTHER -> "none"

(* Spec 4.5 and 8 on region aliases: a region command or a dump acts on   *)
(* the one region the console lists under the alias typed (no other       *)
(* region of the console shares the alias, and no built-in verb takes it, *)
(* which would hide the region from both); a dump writes that region whole *)
(* (a region of size 0 is reported, never dumped empty); an alias the     *)
(* console does not list is reported with the console's aliases, in      *)
(* table order.                                                           *)
AliasResolvesToItsRegion ==
  LET typed == IF req.kind = "alias" THEN req.cmd ELSE IF req.kind = "dump" THEN req.type ELSE "" IN
  /\ \A i \in DOMAIN Aliases(console) : Aliases(console)[i] \notin Builtins
  /\ out.region # "none" =>
       {r \in Range(GetMemoryRegions(console)) : r.shortName = typed} = {Region(out.region, typed)}
  /\ out.status = "dumped" =>
       out.file = [k \in 1..MemSize[out.region] |-> Mem[k - 1]] /\ out.file # << >>
  /\ out.status = "unknownType" => ~HasAlias(console, typed) /\ out.rows = Aliases(console)

\* The capital of each flag letter a JSON key may be.
UpperCase == [a |-> "A", c |-> "C", d |-> "D", h |-> "H", i |-> "I", m |-> "M", n |-> "N",
              o |-> "O", p |-> "P", s |-> "S", t |-> "T", v |-> "V", x |-> "X", z |-> "Z"]

(* Spec 4.4: "regs" shows the flags of the state it copied the same way in *)
(* both output modes: every flag the JSON object keys by a letter (under   *)
(* "flag_bits" where the WS object puts them) has exactly one position of *)
(* the text mnemonic showing that letter, uppercase exactly when the JSON *)
(* boolean is true.  The two renderings are written apart, flag by flag,  *)
(* for each CPU (FormatXxxFlags and FormatXxxRegistersJson).               *)
FlagsShownAlike ==
  out.status = "regs" =>
    LET cpu == PrimaryCpu[console]
        text == IF jsonOutput THEN FormatRegisters(cpu, out.src) ELSE out.rows
        obj == (IF jsonOutput THEN out.rows ELSE FormatRegistersJson(cpu, out.src)).registers
        bits == IF "flag_bits" \in DOMAIN obj THEN obj["flag_bits"] ELSE obj["flags"]
    IN \A k \in DOMAIN bits \cap DOMAIN UpperCase :
         LET at == {i \in DOMAIN text : text[i] \in {k, UpperCase[k]}}
         IN Cardinality(at) = 1 /\ \A i \in at : bits[k] = (text[i] = UpperCase[k])

=============================================================================
