----------------------------- MODULE BatchReport -----------------------------
(***************************************************************************)
(* The report half of BatchRunner::Run (src/GDB/batch_runner.cpp), after  *)
(* the CPU state was captured: the --dump loop, then the assertion loop   *)
(* and the exit code, preceded by RunCliMode's resolution of the --dump   *)
(* type names against the console's table (src/GDB/DapMain.cpp), which   *)
(* decides what _dumps holds.  GetRegisterValue is modelled on register names as  *)
(* strings (tuples of characters): its case-insensitive match (iequals)   *)
(* and the GBA "R<n>" form parsed with std::stoi are what decide which    *)
(* register an assertion reads.  Register and memory values are not       *)
(* modelled: whether one equals the expected value is a free choice.      *)
(***************************************************************************)
EXTENDS Integers, Sequences, Functions, ConsoleInfo

CONSTANTS
  Cpus,           \* primary CPU types: "Nes" and / or "Gba"
  Names,          \* register names given to --check-reg
  DumpTypes,      \* type names given to --dump
  MaxAssertions,  \* assertions given, at most
  MaxDumps        \* --dump requests given, at most

ASSUME Cpus \subseteq {"Nes", "Gba"} /\ MaxAssertions \in Nat /\ MaxDumps \in Nat

-----------------------------------------------------------------------------
(* Strings                                                                 *)

DigitChars == <<"0", "1", "2", "3", "4", "5", "6", "7", "8", "9">>
Digit == [c \in {DigitChars[i] : i \in 1..10} |-> CHOOSE d \in 0..9 : DigitChars[d + 1] = c]

\* tolower on the characters that occur in register names.
Lower(c) ==
  CASE c = "A" -> "a" [] c = "C" -> "c" [] c = "L" -> "l" [] c = "P" -> "p"
    [] c = "R" -> "r" [] c = "S" -> "s" [] c = "X" -> "x" [] c = "Y" -> "y"
    [] OTHER -> c

iequals(a, b) ==
  Len(a) = Len(b) /\ \A i \in 1..Len(a) : Lower(a[i]) = Lower(b[i])

\* The leading decimal digits of s.
RECURSIVE DigitPrefix(_)
DigitPrefix(s) ==
  IF s # << >> /\ Head(s) \in DOMAIN Digit
    THEN <<Head(s)>> \o DigitPrefix(Tail(s))
    ELSE << >>

RECURSIVE DecimalValue(_)
DecimalValue(ds) ==
  IF ds = << >> THEN 0
  ELSE DecimalValue(SubSeq(ds, 1, Len(ds) - 1)) * 10 + Digit[ds[Len(ds)]]

\* std::stoi: the value of the leading digits (the names here carry no
\* sign or blanks); it throws std::invalid_argument if there are none.
StoiThrows(s) == DigitPrefix(s) = << >>
Stoi(s) == DecimalValue(DigitPrefix(s))

-----------------------------------------------------------------------------
(* Register lookup                                                         *)

\* The registers GetRegisterValue reads, each with the name it is tested
\* against; GBA's R0..R15 are s.R[idx].
NesRegs == [A |-> <<"A">>, X |-> <<"X">>, Y |-> <<"Y">>,
            SP |-> <<"S", "P">>, PC |-> <<"P", "C">>, PS |-> <<"P", "S">>]
GbaR == <<"R0", "R1", "R2", "R3", "R4", "R5", "R6", "R7", "R8", "R9",
          "R10", "R11", "R12", "R13", "R14", "R15">>
Registers == DOMAIN NesRegs \cup {GbaR[i] : i \in 1..16}

\* GetRegisterValue: the register a name selects, "unknown" (found =
\* false), or "throws" when std::stoi throws out of it.
GetRegisterValue(cpu, name) ==
  CASE cpu = "Nes" ->
         IF \E r \in DOMAIN NesRegs : iequals(name, NesRegs[r])
           THEN CHOOSE r \in DOMAIN NesRegs : iequals(name, NesRegs[r])
           ELSE "unknown"
    [] cpu = "Gba" ->
         LET rForm == Len(name) >= 2 /\ name[1] \in {"R", "r"}
         IN IF rForm /\ StoiThrows(Tail(name)) THEN "throws"
            ELSE IF rForm /\ Stoi(Tail(name)) <= 15 THEN GbaR[Stoi(Tail(name)) + 1]
            ELSE IF iequals(name, <<"S", "P">>) THEN GbaR[14]
            ELSE IF iequals(name, <<"L", "R">>) THEN GbaR[15]
            ELSE IF iequals(name, <<"P", "C">>) THEN GbaR[16]
            ELSE "unknown"

-----------------------------------------------------------------------------
(* The report                                                              *)

VARIABLES
  cpu,         \* _primaryCpu
  assertions,  \* _assertions
  dumpWords,   \* the type names of args.dumps, in argv order
  dumpQ,       \* the MemoryTypes of _dumps not yet processed
  warned,      \* the type names reported as "Unknown dump type"
  dumpLog,     \* per processed dump: its MemoryType and what became of it
  k,           \* the assertion being evaluated
  allPassed,   \* allPassed
  reported,    \* per assertion evaluated: the register read and the verdict
  dbgAlive,    \* _emu->GetDebugger(false) yields a debugger
  pc,          \* "dumps", "asserts", "done", or "aborted" (an exception
               \* left Run: nothing catches it up to main)
  exitCode     \* Run's return value, -1 before it returns

dumpVars == <<dumpWords, dumpQ, warned, dumpLog>>

vars == <<cpu, assertions, dumpVars, k, allPassed, reported, dbgAlive, pc, exitCode>>

Assertion ==
  [type : {"Reg"}, name : Names] \cup [type : {"Mem"}, size : {1, 2}]

Verdict == [reg : Registers \cup {"unknown", "none"},
            outcome : {"pass", "fail"}]

\* The console RunCliMode reads: GetConsoleType of the console whose first
\* CPU is cpu.
ConsoleOf == [c \in {"Nes", "Gba"} |-> c]

MemoryTypes == UNION {{r.type : r \in Range(GetMemoryRegions(c))} : c \in Cpus}

DumpOutcome == [type : MemoryTypes,
                outcome : {"noDebugger", "unavailable", "openFailed", "written"}]

TypeOK ==
  /\ cpu \in Cpus
  /\ assertions \in Seq(Assertion)
  /\ dumpWords \in Seq(DumpTypes)
  /\ dumpQ \in Seq(MemoryTypes)
  /\ warned \in Seq(DumpTypes)
  /\ dumpLog \in Seq(DumpOutcome)
  /\ k \in 1..Len(assertions) + 1
  /\ allPassed \in BOOLEAN
  /\ reported \in Seq(Verdict)
  /\ dbgAlive \in BOOLEAN
  /\ pc \in {"resolve", "dumps", "asserts", "done", "aborted"}
  /\ exitCode \in {-1, 0, 1}

Init ==
  /\ cpu \in Cpus
  /\ assertions \in UNION {[1..n -> Assertion] : n \in 0..MaxAssertions}
  /\ dumpWords \in UNION {[1..n -> DumpTypes] : n \in 0..MaxDumps}
  /\ dumpQ = << >>
  /\ warned = << >>
  /\ dumpLog = << >>
  /\ k = 1
  /\ allPassed = TRUE
  /\ reported = << >>
  /\ dbgAlive = TRUE
  /\ pc = "resolve"
  /\ exitCode = -1

\* The names the console lists (found), and those it does not.
Known(c, words) == SelectSeq(words, LAMBDA w : HasAlias(c, w))
Unknown(c, words) == SelectSeq(words, LAMBDA w : ~HasAlias(c, w))

\* Mutant: the AddDump filter is left out; an unresolved dump keeps -1,
\* which names no region ("Unresolved").
ResolveDumpsUnfiltered ==
  LET c == ConsoleOf[cpu]
  IN /\ pc = "resolve"
     /\ dumpQ' = [i \in DOMAIN dumpWords |->
                    IF HasAlias(c, dumpWords[i]) THEN FirstRegion(c, dumpWords[i]).type ELSE "Unresolved"]
     /\ warned' = Unknown(c, dumpWords)
     /\ pc' = "dumps"
     /\ UNCHANGED <<cpu, assertions, dumpWords, dumpLog, k, allPassed, reported, dbgAlive, exitCode>>

\* Mutant: the first unknown name ends the resolution ("break" for
\* "continue"): the dumps after it are dropped.
ResolveDumpsStopAtUnknown ==
  LET c == ConsoleOf[cpu]
      bad == {i \in DOMAIN dumpWords : ~HasAlias(c, dumpWords[i])}
      upTo == IF bad = {} THEN dumpWords
              ELSE SubSeq(dumpWords, 1, CHOOSE i \in bad : \A j \in bad : i <= j)
  IN /\ pc = "resolve"
     /\ dumpQ' = [i \in DOMAIN Known(c, upTo) |-> FirstRegion(c, Known(c, upTo)[i]).type]
     /\ warned' = Unknown(c, upTo)
     /\ pc' = "dumps"
     /\ UNCHANGED <<cpu, assertions, dumpWords, dumpLog, k, allPassed, reported, dbgAlive, exitCode>>

\* RunCliMode steps 8 and 10: each --dump name is looked up in the
\* console's table, the first region listed under it wins, and an unknown
\* name is reported and keeps memType -1; only memType >= 0 reaches
\* AddDump, in argv order.
ResolveDumps ==
  LET c == ConsoleOf[cpu]
  IN /\ pc = "resolve"
     /\ dumpQ' = [i \in DOMAIN Known(c, dumpWords) |-> FirstRegion(c, Known(c, dumpWords)[i]).type]
     /\ warned' = Unknown(c, dumpWords)
     /\ pc' = "dumps"
     /\ UNCHANGED <<cpu, assertions, dumpWords, dumpLog, k, allPassed, reported, dbgAlive, exitCode>>

\* One entry of _dumps: skipped without a debugger, warned for a region of
\* size 0, an error when the file cannot be opened, written otherwise.
\* Never fatal.  The size and the open are the emulator's and the file
\* system's: free choices.
Dump ==
  /\ pc = "dumps"
  /\ dumpQ # << >>
  /\ \E o \in IF dbgAlive THEN {"unavailable", "openFailed", "written"} ELSE {"noDebugger"} :
       dumpLog' = Append(dumpLog, [type |-> Head(dumpQ), outcome |-> o])
  /\ dumpQ' = Tail(dumpQ)
  /\ UNCHANGED <<cpu, assertions, dumpWords, warned, k, allPassed, reported, dbgAlive, pc, exitCode>>

\* After the dumps: no assertions, return 0.
DumpsDone ==
  /\ pc = "dumps"
  /\ dumpQ = << >>
  /\ IF assertions = << >>
       THEN pc' = "done" /\ exitCode' = 0
       ELSE pc' = "asserts" /\ exitCode' = exitCode
  /\ UNCHANGED <<cpu, assertions, dumpVars, k, allPassed, reported, dbgAlive>>

\* Record verdict v for assertion k and go on to the next one.
Record(v) ==
  /\ reported' = Append(reported, v)
  /\ allPassed' = (allPassed /\ v.outcome = "pass")
  /\ k' = k + 1

\* Mutant: an unknown register is reported but does not clear allPassed.
CheckRegUnknownPasses ==
  LET a == assertions[k]
      r == GetRegisterValue(cpu, a.name)
  IN /\ pc = "asserts"
     /\ k <= Len(assertions)
     /\ a.type = "Reg"
     /\ r # "throws"
     /\ \E matches \in BOOLEAN :
          /\ reported' = Append(reported, [reg |-> r,
                  outcome |-> IF r # "unknown" /\ matches THEN "pass" ELSE "fail"])
          /\ allPassed' = (allPassed /\ (r = "unknown" \/ matches))
          /\ k' = k + 1
     /\ UNCHANGED <<cpu, assertions, dumpVars, dbgAlive, pc, exitCode>>

\* A register assertion: GetRegisterValue on the captured state; an
\* unknown name fails the assertion ("continue"); a match is a free choice.
CheckReg ==
  LET a == assertions[k]
      r == GetRegisterValue(cpu, a.name)
  IN /\ pc = "asserts"
     /\ k <= Len(assertions)
     /\ a.type = "Reg"
     /\ r # "throws"
     /\ \E matches \in BOOLEAN :
          Record([reg |-> r,
                  outcome |-> IF r # "unknown" /\ matches THEN "pass" ELSE "fail"])
     /\ UNCHANGED <<cpu, assertions, dumpVars, dbgAlive, pc, exitCode>>

\* std::stoi throws inside GetRegisterValue: the exception leaves Run.
CheckRegThrows ==
  /\ pc = "asserts"
  /\ k <= Len(assertions)
  /\ assertions[k].type = "Reg"
  /\ GetRegisterValue(cpu, assertions[k].name) = "throws"
  /\ pc' = "aborted"
  /\ UNCHANGED <<cpu, assertions, dumpVars, k, allPassed, reported, dbgAlive, exitCode>>

\* A memory assertion: no debugger fails it; otherwise a 1- or 2-byte read.
CheckMem ==
  /\ pc = "asserts"
  /\ k <= Len(assertions)
  /\ assertions[k].type = "Mem"
  /\ \E matches \in BOOLEAN :
       Record([reg |-> "none", outcome |-> IF dbgAlive /\ matches THEN "pass" ELSE "fail"])
  /\ UNCHANGED <<cpu, assertions, dumpVars, dbgAlive, pc, exitCode>>

\* return allPassed ? 0 : 1
ReturnVerdict ==
  /\ pc = "asserts"
  /\ k = Len(assertions) + 1
  /\ pc' = "done"
  /\ exitCode' = IF allPassed THEN 0 ELSE 1
  /\ UNCHANGED <<cpu, assertions, dumpVars, k, allPassed, reported, dbgAlive>>

\* The emulation ends while the report is written.
DebuggerGone ==
  /\ pc \in {"resolve", "dumps", "asserts"}
  /\ dbgAlive
  /\ dbgAlive' = FALSE
  /\ UNCHANGED <<cpu, assertions, dumpVars, k, allPassed, reported, pc, exitCode>>

\* Run has returned, or the process is going down.
Finished ==
  /\ pc \in {"done", "aborted"}
  /\ UNCHANGED vars

Next ==
  \/ ResolveDumps \/ Dump \/ DumpsDone
  \/ CheckReg \/ CheckRegThrows \/ CheckMem \/ ReturnVerdict
  \/ DebuggerGone \/ Finished

\* Run is straight-line code on the driver thread: it proceeds.
Spec == Init /\ [][Next]_vars /\ WF_vars(Next)

-----------------------------------------------------------------------------
(* Properties                                                              *)

(* When Run returns, every assertion was evaluated (no short-circuit after *)
(* a failure) and the exit code is 0 exactly when every one passed: an    *)
(* unknown register, a memory assertion without a debugger and a          *)
(* mismatch all count as failures (spec 4.3).                              *)
ExitCodeReflectsAssertions ==
  pc = "done" =>
    /\ Len(reported) = Len(assertions)
    /\ (exitCode = 0) <=> \A i \in DOMAIN reported : reported[i].outcome = "pass"

(* Once the dumps are done, one was attempted for every --dump whose type *)
(* name the console lists, in the order given, on a region the console    *)
(* lists under that name, and for no other; every other name was reported *)
(* as unknown, and an unknown name does not cost the dumps after it       *)
(* (spec 4.3 step 4, spec 7).  Once the debugger is gone, every later     *)
(* dump is skipped.                                                        *)
DumpsAsSpecified ==
  LET c == ConsoleOf[cpu]
      listed == {r.shortName : r \in Range(GetMemoryRegions(c))}
      given == SelectSeq(dumpWords, LAMBDA w : w \in listed)
  IN pc \in {"asserts", "done", "aborted"} =>
       /\ Len(dumpLog) = Len(given)
       /\ \A i \in DOMAIN dumpLog :
            Region(dumpLog[i].type, given[i]) \in Range(GetMemoryRegions(c))
       /\ warned = SelectSeq(dumpWords, LAMBDA w : w \notin listed)
       /\ \A i, j \in DOMAIN dumpLog :
            i < j /\ dumpLog[i].outcome = "noDebugger" => dumpLog[j].outcome = "noDebugger"

=============================================================================
