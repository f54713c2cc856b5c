------------------------------ MODULE MCMemView ------------------------------
(* 6-bit words.  A NES and a Game Boy session; the words typed are aliases *)
(* of both, of one only, and of neither; the save RAM and cart RAM are    *)
(* not available (size 0), the other regions hold 32 bytes.  Addresses in *)
(* and past a region; length 0, lengths that fit, lengths that need the   *)
(* clamp.                                                                 *)
(* Memory holds bytes on both sides of the printable range (0x1F, 0x20,   *)
(* 0x7E, 0x7F); "set" writes 0x7F, or 0x141, which the uint8_t cast turns  *)
(* into 0x41.  Disassembly lines with and without an address, with short *)
(* and long opcodes, with and without a comment; frames with every        *)
(* combination of the two flags.                                           *)
EXTENDS MemView

MCConsoles == {"Nes", "Gameboy"}
MCMemSize == [t \in UNION {{r.type : r \in Range(GetMemoryRegions(c))} : c \in ConsoleTypes} |->
                IF t \in {"NesSaveRam", "GbCartRam"} THEN 0 ELSE 32]
MCAddrs == {0, 8, 31, 32, 40}
MCLens == {0, 1, 2, 24, 30}
MCMem == [a \in 0..2^6 - 1 |-> <<31, 32, 65, 126, 127>>[(a % 5) + 1]]
MCWords == {"wram", "sram", "cartram", "nt", "zz"}
MCSetAddrs == {8}
MCSetVals == {127, 321}
MCCounts == {-1, 0, 10}
MCCodeLines == [address : {-1, 3}, opSize : {1, 5}, byteCode : {<<1, 2, 3, 4, 5>>},
                text : {0}, comment : {0, 1}]
MCFrames == [source : {5}, target : {7}, flags : 0..3]
\* Every state of the primary CPU with two flags set: any two flags that
\* the code could confuse differ in one of them.
MCSnapshots == [c \in {"Nes", "Gameboy"} |-> {S \in SUBSET CpuFlags(c) : Cardinality(S) = 2}]
=============================================================================
