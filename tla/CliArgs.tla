------------------------------- MODULE CliArgs -------------------------------
(***************************************************************************)
(* ParseArgs and main (src/GDB/DapMain.cpp): the command line, word by     *)
(* word, into CliArgs, then main's choice between usage error (exit 2),   *)
(* DAP mode and RunCliMode.  Options are model values; every other word is *)
(* a string (a tuple of characters) that the option before it parses with  *)
(* ParseAddr or std::stoi.  Nothing catches an exception on this path: a   *)
(* throw ends the process (std::terminate).                                *)
(***************************************************************************)
EXTENDS AddressParsing

CONSTANTS
  Help, Dap, Batch, Json, Headless, Break, Timeout, CheckReg, CheckMem,
  CheckMem16, Dump,  \* the options ParseArgs compares arg with
  Texts,             \* the other words, as tuples of characters
  MaxArgs            \* words on the command line, at most

Options == {Help, Dap, Batch, Json, Headless, Break, Timeout, CheckReg, CheckMem, CheckMem16, Dump}
Switches == {Dap, Batch, Json, Headless}

\* The characters of a word as the parsers see it: an option word is
\* "--..." (stoul and stoi find no digit in it; it holds no '=').
Chars(w) == IF w \in Options THEN <<"-", "-">> ELSE w

\* arg[0] == '-'
StartsWithDash(w) == Len(Chars(w)) > 0 /\ Chars(w)[1] = "-"

DecDigits == <<"0", "1", "2", "3", "4", "5", "6", "7", "8", "9">>
RECURSIVE DecPrefix(_)
DecPrefix(s) ==
  IF s # << >> /\ \E d \in 1..10 : DecDigits[d] = Head(s)
    THEN <<Head(s)>> \o DecPrefix(Tail(s)) ELSE << >>
RECURSIVE DecValue(_)
DecValue(ds) ==
  IF ds = << >> THEN 0
  ELSE DecValue(SubSeq(ds, 1, Len(ds) - 1)) * 10
       + (CHOOSE d \in 0..9 : DecDigits[d + 1] = ds[Len(ds)])

\* std::stoi(s): an optional sign, then decimal digits; none throws.
StoiDec(s) ==
  LET neg == s # << >> /\ s[1] = "-"
      body == IF s # << >> /\ s[1] \in {"-", "+"} THEN Tail(s) ELSE s
  IN IF DecPrefix(body) = << >> THEN Throws
     ELSE Value(IF neg THEN -DecValue(DecPrefix(body)) ELSE DecValue(DecPrefix(body)))

\* The position of the first '=' in s (s.find('=')), 0 for npos.
FirstEq(s) ==
  IF \E i \in DOMAIN s : s[i] = "="
    THEN CHOOSE i \in DOMAIN s : s[i] = "=" /\ \A j \in 1..i - 1 : s[j] # "="
    ELSE 0

Words == Options \cup Texts
Argv == UNION {[1..n -> Words] : n \in 0..MaxArgs}

Assertion == [type : {"Reg", "Mem"}, name : Seq(STRING), address : Int,
              expected : 0..65535, size : {1, 2}]

VARIABLES
  argv,     \* argv[1..argc-1]
  i,        \* ParseArgs' loop index
  args,     \* the CliArgs being filled in
  pc,       \* "parsing", "parsed", "usage" (returned false), "aborted"
            \* (an exception left main), "dap", "cli" or "exited"
  exitCode  \* main's return value, -1 while it has none

vars == <<argv, i, args, pc, exitCode>>

InitArgs ==
  [romPath |-> << >>, dapMode |-> FALSE, batchMode |-> FALSE, jsonOutput |-> FALSE,
   headless |-> FALSE, timeoutMs |-> 10000, breakAddresses |-> << >>,
   assertions |-> << >>, dumps |-> << >>]

TypeOK ==
  /\ argv \in Argv
  /\ i \in 1..Len(argv) + 1
  /\ args.breakAddresses \in Seq(Int)
  /\ args.assertions \in Seq(Assertion)
  /\ args.timeoutMs \in Int
  /\ pc \in {"parsing", "parsed", "usage", "aborted", "dap", "cli", "exited"}
  /\ exitCode \in {-1, 0, 2}

Init ==
  /\ argv \in Argv
  /\ i = 1
  /\ args = InitArgs
  /\ pc = "parsing"
  /\ exitCode = -1

\* The word at i, and whether i + 1 < argc (i + 2 < argc).
Arg == argv[i]
HasValue == i + 1 <= Len(argv)
HasTwo == i + 2 <= Len(argv)
Val == Chars(argv[i + 1])

\* Consume the option at i and its n values.
Advance(n) == i' = i + 1 + n

\* A parse that threw: nothing catches it up to main.
Abort == pc' = "aborted" /\ UNCHANGED <<argv, i, args, exitCode>>

OptHelp ==
  /\ pc = "parsing" /\ i <= Len(argv) /\ Arg = Help
  /\ pc' = "usage"
  /\ UNCHANGED <<argv, i, args, exitCode>>

OptSwitch ==
  /\ pc = "parsing" /\ i <= Len(argv) /\ Arg \in Switches
  /\ args' = CASE Arg = Dap -> [args EXCEPT !.dapMode = TRUE]
               [] Arg = Batch -> [args EXCEPT !.batchMode = TRUE]
               [] Arg = Json -> [args EXCEPT !.jsonOutput = TRUE]
               [] Arg = Headless -> [args EXCEPT !.headless = TRUE]
  /\ Advance(0)
  /\ UNCHANGED <<argv, pc, exitCode>>

\* --break ADDR: ParseAddr, appended to the list.
OptBreak ==
  /\ pc = "parsing" /\ i <= Len(argv) /\ Arg = Break /\ HasValue
  /\ IF ParseAddr(Val).ok
       THEN /\ args' = [args EXCEPT !.breakAddresses = Append(@, ParseAddr(Val).val)]
            /\ Advance(1)
            /\ UNCHANGED <<argv, pc, exitCode>>
       ELSE Abort

\* --timeout MS: std::stoi.
OptTimeout ==
  /\ pc = "parsing" /\ i <= Len(argv) /\ Arg = Timeout /\ HasValue
  /\ IF StoiDec(Val).ok
       THEN /\ args' = [args EXCEPT !.timeoutMs = StoiDec(Val).val]
            /\ Advance(1)
            /\ UNCHANGED <<argv, pc, exitCode>>
       ELSE Abort

\* --check-reg NAME=VALUE: no '=' is a usage error; the value is cast to
\* uint16_t.
OptCheckReg ==
  LET eq == FirstEq(Val)
      v == ParseAddr(SubSeq(Val, eq + 1, Len(Val)))
  IN /\ pc = "parsing" /\ i <= Len(argv) /\ Arg = CheckReg /\ HasValue
     /\ CASE eq = 0 -> pc' = "usage" /\ UNCHANGED <<argv, i, args, exitCode>>
          [] ~v.ok -> Abort
          [] OTHER ->
               /\ args' = [args EXCEPT !.assertions = Append(@,
                             [type |-> "Reg", name |-> SubSeq(Val, 1, eq - 1), address |-> 0,
                              expected |-> v.val % 65536, size |-> 2])]
               /\ Advance(1)
               /\ UNCHANGED <<argv, pc, exitCode>>

\* Mutant: the address is taken from the text after '=' as well.
OptCheckMemSwapped ==
  LET eq == FirstEq(Val)
      a == ParseAddr(SubSeq(Val, eq + 1, Len(Val)))
      v == ParseAddr(SubSeq(Val, eq + 1, Len(Val)))
  IN /\ pc = "parsing" /\ i <= Len(argv) /\ Arg \in {CheckMem, CheckMem16} /\ HasValue
     /\ CASE eq = 0 -> pc' = "usage" /\ UNCHANGED <<argv, i, args, exitCode>>
          [] ~a.ok \/ ~v.ok -> Abort
          [] OTHER ->
               /\ args' = [args EXCEPT !.assertions = Append(@,
                             [type |-> "Mem", name |-> << >>, address |-> a.val,
                              expected |-> v.val % 65536, size |-> IF Arg = CheckMem16 THEN 2 ELSE 1])]
               /\ Advance(1)
               /\ UNCHANGED <<argv, pc, exitCode>>

\* --check-mem / --check-mem16 ADDR=VALUE: ParseAddr on both halves, the
\* address first.
OptCheckMem ==
  LET eq == FirstEq(Val)
      a == ParseAddr(SubSeq(Val, 1, eq - 1))
      v == ParseAddr(SubSeq(Val, eq + 1, Len(Val)))
  IN /\ pc = "parsing" /\ i <= Len(argv) /\ Arg \in {CheckMem, CheckMem16} /\ HasValue
     /\ CASE eq = 0 -> pc' = "usage" /\ UNCHANGED <<argv, i, args, exitCode>>
          [] ~a.ok \/ ~v.ok -> Abort
          [] OTHER ->
               /\ args' = [args EXCEPT !.assertions = Append(@,
                             [type |-> "Mem", name |-> << >>, address |-> a.val,
                              expected |-> v.val % 65536, size |-> IF Arg = CheckMem16 THEN 2 ELSE 1])]
               /\ Advance(1)
               /\ UNCHANGED <<argv, pc, exitCode>>

\* Mutant: the index steps over one word too many.
OptDumpOneTooFar ==
  /\ pc = "parsing" /\ i <= Len(argv) /\ Arg = Dump /\ HasTwo
  /\ args' = [args EXCEPT !.dumps = Append(@, argv[i + 1])]
  /\ Advance(3)
  /\ UNCHANGED <<argv, pc, exitCode>>

\* --dump TYPE FILE: kept unresolved (memType -1) until the console is known.
OptDump ==
  /\ pc = "parsing" /\ i <= Len(argv) /\ Arg = Dump /\ HasTwo
  /\ args' = [args EXCEPT !.dumps = Append(@, argv[i + 1])]
  /\ Advance(2)
  /\ UNCHANGED <<argv, pc, exitCode>>

\* None of the above matched (an option missing its value included).
Unmatched ==
  /\ pc = "parsing" /\ i <= Len(argv)
  /\ Arg \notin {Help} \cup Switches
  /\ ~(Arg \in {Break, Timeout, CheckReg, CheckMem, CheckMem16} /\ HasValue)
  /\ ~(Arg = Dump /\ HasTwo)

\* "Unknown option", or the ROM path ("Multiple ROM paths" the second time).
OptOther ==
  /\ Unmatched
  /\ IF StartsWithDash(Arg) \/ args.romPath # << >>
       THEN pc' = "usage" /\ UNCHANGED <<argv, i, args, exitCode>>
       ELSE /\ args' = [args EXCEPT !.romPath = Chars(Arg)]
            /\ Advance(0)
            /\ UNCHANGED <<argv, pc, exitCode>>

ArgsDone ==
  /\ pc = "parsing" /\ i = Len(argv) + 1
  /\ pc' = "parsed"
  /\ UNCHANGED <<argv, i, args, exitCode>>

\* main: ParseArgs false returns 2; --dap runs the stub (returns 0); no ROM
\* path returns 2; otherwise RunCliMode.
Main ==
  /\ pc \in {"parsed", "usage"}
  /\ CASE pc = "usage" -> pc' = "exited" /\ exitCode' = 2
       [] args.dapMode -> pc' = "dap" /\ exitCode' = 0
       [] args.romPath = << >> -> pc' = "exited" /\ exitCode' = 2
       [] OTHER -> pc' = "cli" /\ UNCHANGED exitCode
  /\ UNCHANGED <<argv, i, args>>

\* The process has ended, or runs on in DAP or CLI mode.
Ended ==
  /\ pc \in {"aborted", "dap", "cli", "exited"}
  /\ UNCHANGED vars

Next ==
  \/ OptHelp \/ OptSwitch \/ OptBreak \/ OptTimeout \/ OptCheckReg \/ OptCheckMem
  \/ OptDump \/ OptOther \/ ArgsDone \/ Main \/ Ended

Spec == Init /\ [][Next]_vars /\ WF_vars(Next)

-----------------------------------------------------------------------------
(* Properties                                                              *)

OneValueOptions == {Break, Timeout, CheckReg, CheckMem, CheckMem16}
CheckOptions == {CheckReg, CheckMem, CheckMem16}

RECURSIVE OptionPositions(_)
\* The positions from p on that are read as options, not as values.
OptionPositions(p) ==
  IF p > Len(argv) THEN << >>
  ELSE IF argv[p] \in OneValueOptions /\ p + 1 <= Len(argv)
    THEN <<p>> \o OptionPositions(p + 2)
  ELSE IF argv[p] = Dump /\ p + 2 <= Len(argv)
    THEN <<p>> \o OptionPositions(p + 3)
  ELSE <<p>> \o OptionPositions(p + 1)

\* The text after / before the first '=' of the word at p.
After(p) == LET w == Chars(argv[p]) IN SubSeq(w, FirstEq(w) + 1, Len(w))
Before(p) == LET w == Chars(argv[p]) IN SubSeq(w, 1, FirstEq(w) - 1)

ParsedAll == i = Len(argv) + 1

(* A command line that parses completely yields the --break addresses and *)
(* the --check-* assertions in the order they were written, each from its *)
(* own option's value: RunCliMode gives the breakpoints ids 1..n in this   *)
(* order and BatchRunner reports the assertions in it (spec 3).           *)
OptionsInArgvOrder ==
  ParsedAll =>
    LET ps == OptionPositions(1)
        bs == SelectSeq(ps, LAMBDA p : argv[p] = Break)
        cs == SelectSeq(ps, LAMBDA p : argv[p] \in CheckOptions)
    IN /\ args.breakAddresses = [k \in DOMAIN bs |-> ParseAddr(Chars(argv[bs[k] + 1])).val]
       /\ Len(args.assertions) = Len(cs)
       /\ \A k \in DOMAIN cs :
            LET a == args.assertions[k]
            IN /\ a.type = IF argv[cs[k]] = CheckReg THEN "Reg" ELSE "Mem"
               /\ a.type = "Reg" => a.name = Before(cs[k] + 1)
               /\ a.type = "Mem" => a.address = ParseAddr(Before(cs[k] + 1)).val
               /\ a.size = IF argv[cs[k]] = CheckMem THEN 1 ELSE 2


(* Every address text spec 4.2 accepts (plain, "$", "0x" hex, or           *)
(* bank:offset) is parsed by ParseAddr, and by ParseAddress, its copy in   *)
(* the REPL, to the value the spec gives it, bank:offset packed as        *)
(* (bank << 16) | (offset & 0xFFFF).  The statement is a constant over     *)
(* every text of up to MaxLen characters; it is made on the empty command *)
(* line so that it is evaluated once and not in every state.              *)
WellFormedAsSpecified == argv = << >> => ParsedAsSpecified

=============================================================================
