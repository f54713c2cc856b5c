---------------------------- MODULE RegisterFormat ----------------------------
(***************************************************************************)
(* The register renderings of the StateFormatter (src/GDB/formatter.cpp):  *)
(* FormatRegisters and FormatRegistersJson, and the per-CPU functions they *)
(* dispatch to.  A CPU state is the set of its flags that are set (named   *)
(* after the code's flag enumerators); the registers, the cycle counter    *)
(* and the GBA mode name, which each rendering prints from the same field  *)
(* with the same format whatever the flags are, are left out.  The text    *)
(* rendering is the sequence of the flag-dependent tokens it prints, in    *)
(* order (one character each in the mnemonic, the words of the bracketed   *)
(* mode); the JSON rendering is its "registers" object restricted to the  *)
(* flag fields, as a function from key to value.                           *)
(***************************************************************************)
EXTENDS Sequences, Functions, TLC

\* A text table: <<flag, shown when set, shown when clear>>, in print order.
\* A JSON table: <<key, flag>>, in print order.

FormatNesFlags ==
  << <<"Negative", "N", "n">>, <<"Overflow", "V", "v">>, <<"Reserved", "1", "0">>,
     <<"Break", "B", "b">>, <<"Decimal", "D", "d">>, <<"Interrupt", "I", "i">>,
     <<"Zero", "Z", "z">>, <<"Carry", "C", "c">> >>
FormatNesRegistersJson ==
  << <<"n", "Negative">>, <<"v", "Overflow">>, <<"d", "Decimal">>,
     <<"i", "Interrupt">>, <<"z", "Zero">>, <<"c", "Carry">> >>

FormatSnesFlags ==
  << <<"Negative", "N", "n">>, <<"Overflow", "V", "v">>, <<"MemoryMode8", "M", "m">>,
     <<"IndexMode8", "X", "x">>, <<"Decimal", "D", "d">>, <<"IrqDisable", "I", "i">>,
     <<"Zero", "Z", "z">>, <<"Carry", "C", "c">> >>
\* The mnemonic, then "[m8|m16 x8|x16]" from the same two bits.
FormatSnesRegisters ==
  FormatSnesFlags \o << <<"MemoryMode8", "m8", "m16">>, <<"IndexMode8", "x8", "x16">> >>
FormatSnesRegistersJson ==
  << <<"n", "Negative">>, <<"v", "Overflow">>, <<"m", "MemoryMode8">>, <<"x", "IndexMode8">>,
     <<"d", "Decimal">>, <<"i", "IrqDisable">>, <<"z", "Zero">>, <<"c", "Carry">> >>

FormatGbFlags ==
  << <<"Zero", "Z", "z">>, <<"AddSub", "N", "n">>, <<"HalfCarry", "H", "h">>,
     <<"Carry", "C", "c">> >>
\* Mutant: the "n" and "h" booleans printed from each other's flag.
FormatGbRegistersJsonSwapped ==
  << <<"z", "Zero">>, <<"n", "HalfCarry">>, <<"h", "AddSub">>, <<"c", "Carry">> >>
FormatGbRegistersJson ==
  << <<"z", "Zero">>, <<"n", "AddSub">>, <<"h", "HalfCarry">>, <<"c", "Carry">> >>

\* "[NZCV THUMB|ARM mode]".
FormatGbaRegisters ==
  << <<"Negative", "N", "n">>, <<"Zero", "Z", "z">>, <<"Carry", "C", "c">>,
     <<"Overflow", "V", "v">>, <<"Thumb", "THUMB", "ARM">> >>
FormatGbaRegistersJson ==
  << <<"n", "Negative">>, <<"z", "Zero">>, <<"c", "Carry">>, <<"v", "Overflow">>,
     <<"thumb", "Thumb">> >>

FormatPceFlags ==
  << <<"Negative", "N", "n">>, <<"Overflow", "V", "v">>, <<"Memory", "T", "t">>,
     <<"Break", "B", "b">>, <<"Decimal", "D", "d">>, <<"Interrupt", "I", "i">>,
     <<"Zero", "Z", "z">>, <<"Carry", "C", "c">> >>
FormatPceRegistersJson ==
  << <<"n", "Negative">>, <<"v", "Overflow">>, <<"t", "Memory">>, <<"d", "Decimal">>,
     <<"i", "Interrupt">>, <<"z", "Zero">>, <<"c", "Carry">> >>

FormatSmsFlags ==
  << <<"Sign", "S", "s">>, <<"Zero", "Z", "z">>, <<"F5", "5", ".">>,
     <<"HalfCarry", "H", "h">>, <<"F3", "3", ".">>, <<"Parity", "P", "p">>,
     <<"AddSub", "N", "n">>, <<"Carry", "C", "c">> >>
FormatSmsRegistersJson ==
  << <<"s", "Sign">>, <<"z", "Zero">>, <<"h", "HalfCarry">>, <<"p", "Parity">>,
     <<"n", "AddSub">>, <<"c", "Carry">> >>

FormatWsRegisters ==
  << <<"Overflow", "O", "o">>, <<"Direction", "D", "d">>, <<"Irq", "I", "i">>,
     <<"Trap", "T", "t">>, <<"Sign", "S", "s">>, <<"Zero", "Z", "z">>,
     <<"AuxCarry", "A", "a">>, <<"Parity", "P", "p">>, <<"Carry", "C", "c">> >>
FormatWsRegistersJson ==
  << <<"o", "Overflow">>, <<"d", "Direction">>, <<"i", "Irq">>, <<"t", "Trap">>,
     <<"s", "Sign">>, <<"z", "Zero">>, <<"a", "AuxCarry">>, <<"p", "Parity">>,
     <<"c", "Carry">> >>

\* The switch of each dispatcher: the table of each CPU type it handles.
TextTables ==
  [c \in {"Nes", "Snes", "Sa1", "Gameboy", "Gba", "Pce", "Sms", "Ws"} |->
     CASE c = "Nes" -> FormatNesFlags
       [] c \in {"Snes", "Sa1"} -> FormatSnesRegisters
       [] c = "Gameboy" -> FormatGbFlags
       [] c = "Gba" -> FormatGbaRegisters
       [] c = "Pce" -> FormatPceFlags
       [] c = "Sms" -> FormatSmsFlags
       [] c = "Ws" -> FormatWsRegisters]
JsonTables ==
  [c \in DOMAIN TextTables |->
     CASE c = "Nes" -> FormatNesRegistersJson
       [] c \in {"Snes", "Sa1"} -> FormatSnesRegistersJson
       [] c = "Gameboy" -> FormatGbRegistersJson
       [] c = "Gba" -> FormatGbaRegistersJson
       [] c = "Pce" -> FormatPceRegistersJson
       [] c = "Sms" -> FormatSmsRegistersJson
       [] c = "Ws" -> FormatWsRegistersJson]

\* The flags a CPU's state has.
CpuFlags(cpu) == {e[1] : e \in Range(TextTables[cpu])}

\* Each ternary "(flag) ? set : clear", in order.
Tokens(table, set) == [i \in DOMAIN table |-> IF table[i][1] \in set THEN table[i][2] ELSE table[i][3]]
\* The booleans object: each key with its flag's state.
Booleans(table, set) == [k \in {e[1] : e \in Range(table)} |->
                           \E i \in DOMAIN table : table[i][1] = k /\ table[i][2] \in set]

FormatRegisters(cpu, set) ==
  IF cpu \in DOMAIN TextTables THEN Tokens(TextTables[cpu], set)
  ELSE <<"[Register display not implemented for this CPU type]">>

\* A stand-in for the "%04x" of the WS flags word.
HexFlags == "hex"

\* The WS object prints the flags word as "flags" and the booleans as
\* "flag_bits"; every other CPU prints the booleans as "flags".
FormatRegistersJson(cpu, set) ==
  IF cpu \in DOMAIN JsonTables
    THEN [registers |->
            IF cpu = "Ws" THEN ("flags" :> HexFlags) @@ ("flag_bits" :> Booleans(JsonTables[cpu], set))
            ELSE "flags" :> Booleans(JsonTables[cpu], set)]
    ELSE [error |-> "unsupported cpu type"]

====
