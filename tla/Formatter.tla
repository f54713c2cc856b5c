------------------------------ MODULE Formatter ------------------------------
(***************************************************************************)
(* The listings of the StateFormatter (src/GDB/formatter.cpp):             *)
(* FormatMemoryHex, FormatDisassembly and FormatCallstack.  A listing is a *)
(* sequence of rows, one per output line; a row keeps what the line shows  *)
(* (its address, its bytes, the characters of the ASCII column, the        *)
(* padding, the tag) and leaves out the spacing between the fields and    *)
(* the hex digits, which snprintf's fixed formats determine from it.      *)
(* Characters are their codes.  The register renderings are in           *)
(* RegisterFormat.                                                         *)
(***************************************************************************)
EXTENDS Integers, Sequences

CONSTANTS
  Bits,      \* the width of uint32_t, scaled down as in MemView
  NoComment  \* an empty CodeLineData comment (Comment[0] == '\0')

\* '.', the stand-in for a byte that is not printable.
Dot == 46

\* startAddr + i, uint32_t.
AddrAdd(a, i) == (a + i) % (2^Bits)

\* Line 527: printable ASCII is shown as itself, anything else as '.'.
Printable(c) == IF c >= 32 /\ c <= 126 THEN c ELSE Dot

\* Mutant: the inner loops run to j <= 16, one byte past the row.
HexRowOverlap(data, len, startAddr, i) ==
  LET bytes == [j \in 1..(IF len - i < 17 THEN len - i ELSE 17) |-> data[i + j]]
  IN [addr |-> AddrAdd(startAddr, i), hex |-> bytes,
      ascii |-> [j \in DOMAIN bytes |-> Printable(bytes[j])]]

\* Lines 512-529: the row at offset i; both inner loops stop at 16 bytes
\* or at len.
HexRow(data, len, startAddr, i) ==
  LET bytes == [j \in 1..(IF len - i < 16 THEN len - i ELSE 16) |-> data[i + j]]
  IN [addr |-> AddrAdd(startAddr, i), hex |-> bytes,
      ascii |-> [j \in DOMAIN bytes |-> Printable(bytes[j])]]

\* Line 511: for(i = 0; i < len; i += 16).
RECURSIVE HexRows(_, _, _, _)
HexRows(data, len, startAddr, i) ==
  IF i < len THEN <<HexRow(data, len, startAddr, i)>> \o HexRows(data, len, startAddr, i + 16)
             ELSE << >>

FormatMemoryHex(data, len, startAddr) == HexRows(data, len, startAddr, 0)

-----------------------------------------------------------------------------
(* A CodeLineData is [address, opSize, byteCode, text, comment].          *)

\* Mutant: the padding loop runs to j <= 4.
DisasmRowPadOffByOne(line) ==
  [addr |-> line.address,
   bytes |-> [j \in 1..(IF line.opSize < 4 THEN line.opSize ELSE 4) |-> line.byteCode[j]],
   pad |-> IF line.opSize <= 4 THEN 5 - line.opSize ELSE 0,
   text |-> line.text,
   comment |-> IF line.comment # NoComment THEN <<line.comment>> ELSE << >>]

\* Lines 541-560: the address, at most 4 bytes of the opcode, three spaces
\* for each byte short of 4, the text and "  ; comment" if there is one.
DisasmRow(line) ==
  [addr |-> line.address,
   bytes |-> [j \in 1..(IF line.opSize < 4 THEN line.opSize ELSE 4) |-> line.byteCode[j]],
   pad |-> IF line.opSize < 4 THEN 4 - line.opSize ELSE 0,
   text |-> line.text,
   comment |-> IF line.comment # NoComment THEN <<line.comment>> ELSE << >>]

\* Lines 537-539: every line, in order, but those with a negative address.
RECURSIVE DisasmRows(_, _)
DisasmRows(lines, count) ==
  IF count = 0 THEN << >>
  ELSE LET rest == DisasmRows(lines, count - 1)
           line == lines[count]
       IN IF line.address < 0 THEN rest ELSE Append(rest, DisasmRow(line))

FormatDisassembly(lines, count) == DisasmRows(lines, count)

-----------------------------------------------------------------------------
(* A StackFrameInfo is [source, target, flags].                            *)

\* Mutant: the two flag bits read the other way round.
CallstackRowBitsSwapped(frames, i) ==
  LET f == frames[i + 1].flags
  IN [index |-> i, source |-> frames[i + 1].source, target |-> frames[i + 1].target,
      tag |-> IF (f \div 2) % 2 = 1 THEN "NMI" ELSE IF f % 2 = 1 THEN "IRQ" ELSE "none"]

\* Lines 569-575: "#i  $source -> $target", then " [NMI]" if bit 0 of the
\* flags is set, else " [IRQ]" if bit 1 is.
CallstackRow(frames, i) ==
  LET f == frames[i + 1].flags
  IN [index |-> i, source |-> frames[i + 1].source, target |-> frames[i + 1].target,
      tag |-> IF f % 2 = 1 THEN "NMI" ELSE IF (f \div 2) % 2 = 1 THEN "IRQ" ELSE "none"]

\* Line 568: one row per frame, numbered from 0.
FormatCallstack(frames, count) == [k \in 1..count |-> CallstackRow(frames, k - 1)]

=============================================================================
