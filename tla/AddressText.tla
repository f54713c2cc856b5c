----------------------------- MODULE AddressText -----------------------------
(***************************************************************************)
(* The address parser of the driver: DebuggerCli::ParseAddress             *)
(* (src/GDB/debugger_cli.cpp) and its copy ParseAddr (src/GDB/DapMain.cpp), *)
(* with std::stoul(s, nullptr, 16) underneath, as operators on strings     *)
(* written as tuples of one-character strings.  Beside them, the grammar   *)
(* of spec 4.2 as the reference.  A parse yields a Result: a value, or     *)
(* Throws (std::invalid_argument).                                         *)
(*                                                                         *)
(* The inputs considered carry no blanks and no sign, so stoul's skipping  *)
(* of leading white space and its negation of "-" are left out.           *)
(***************************************************************************)
EXTENDS Integers, Sequences

Result == [ok : BOOLEAN, val : Int]
Value(v) == [ok |-> TRUE, val |-> v]
Throws == [ok |-> FALSE, val |-> 0]

HexDigits == <<"0", "1", "2", "3", "4", "5", "6", "7", "8", "9",
               "a", "b", "c", "d", "e", "f">>
UpperHex == <<"A", "B", "C", "D", "E", "F">>

\* The value of one hexadecimal digit, in either case.
HexVal ==
  [c \in {HexDigits[i] : i \in 1..16} \cup {UpperHex[i] : i \in 1..6} |->
     IF \E i \in 1..16 : HexDigits[i] = c
       THEN CHOOSE d \in 0..15 : HexDigits[d + 1] = c
       ELSE CHOOSE d \in 10..15 : UpperHex[d - 9] = c]

IsHexChar(c) == c \in DOMAIN HexVal

RECURSIVE HexPrefix(_)
\* The leading hexadecimal digits of s: what strtoul consumes.
HexPrefix(s) ==
  IF s # << >> /\ IsHexChar(Head(s)) THEN <<Head(s)>> \o HexPrefix(Tail(s)) ELSE << >>

RECURSIVE HexValue(_)
HexValue(ds) ==
  IF ds = << >> THEN 0 ELSE HexValue(SubSeq(ds, 1, Len(ds) - 1)) * 16 + HexVal[ds[Len(ds)]]

\* "0x" or "0X" at the front of s.
HasHexPrefix(s, n) == Len(s) > n /\ s[1] = "0" /\ s[2] \in {"x", "X"}

\* std::stoul(s, nullptr, 16): base 16 takes an optional 0x / 0X, but only
\* when a hex digit follows it (otherwise the "0" alone is the number);
\* then the longest run of hex digits, the rest ignored; no digit at all
\* throws std::invalid_argument.
Stoul16(s) ==
  LET body == IF HasHexPrefix(s, 2) /\ IsHexChar(s[3]) THEN SubSeq(s, 3, Len(s)) ELSE s
      ds == HexPrefix(body)
  IN IF ds = << >> THEN Throws ELSE Value(HexValue(ds))

\* uint32_t (bank << 16): the bank's low 16 bits moved up.
BankBits(bank) == (bank % 65536) * 65536

\* The position of the first ':' in s (s.find(':')), 0 for npos.
FirstColon(s) ==
  IF \E i \in DOMAIN s : s[i] = ":"
    THEN CHOOSE i \in DOMAIN s : s[i] = ":" /\ \A j \in 1..i - 1 : s[j] # ":"
    ELSE 0

\* Mutant: "$" is stripped only from strings longer than two characters.
ParseAddressDollarOffByOne(str) ==
  LET c == FirstColon(str)
      bank == Stoul16(SubSeq(str, 1, c - 1))
      addr == Stoul16(SubSeq(str, c + 1, Len(str)))
      s == IF Len(str) > 2 /\ str[1] = "$" THEN Tail(str)
           ELSE IF HasHexPrefix(str, 2) THEN SubSeq(str, 3, Len(str))
           ELSE str
  IN IF c # 0
       THEN IF bank.ok /\ addr.ok THEN Value(BankBits(bank.val) + (addr.val % 65536))
                                  ELSE Throws
       ELSE Stoul16(s)

\* DebuggerCli::ParseAddress: bank:addr split at the first ':'; otherwise
\* strip a "$" or "0x" prefix and parse the rest as hex.
ParseAddress(str) ==
  LET c == FirstColon(str)
      bank == Stoul16(SubSeq(str, 1, c - 1))
      addr == Stoul16(SubSeq(str, c + 1, Len(str)))
      s == IF Len(str) > 1 /\ str[1] = "$" THEN Tail(str)
           ELSE IF HasHexPrefix(str, 2) THEN SubSeq(str, 3, Len(str))
           ELSE str
  IN IF c # 0
       THEN IF bank.ok /\ addr.ok THEN Value(BankBits(bank.val) + (addr.val % 65536))
                                  ELSE Throws
       ELSE Stoul16(s)

\* DapMain's ParseAddr, used on the command line, is the same code as
\* DebuggerCli::ParseAddress, line for line.
ParseAddr(str) == ParseAddress(str)

-----------------------------------------------------------------------------
(* The reference: spec 4.2's accepted forms, anything else InvalidAddress. *)

IsHex(s) == s # << >> /\ \A i \in DOMAIN s : IsHexChar(s[i])

SpecAddress(str) ==
  LET c == FirstColon(str)
      before == SubSeq(str, 1, c - 1)
      after == SubSeq(str, c + 1, Len(str))
  IN CASE IsHex(str) -> Value(HexValue(str))
       [] Len(str) > 1 /\ str[1] = "$" /\ IsHex(Tail(str)) -> Value(HexValue(Tail(str)))
       [] HasHexPrefix(str, 2) /\ IsHex(SubSeq(str, 3, Len(str))) ->
            Value(HexValue(SubSeq(str, 3, Len(str))))
       [] c # 0 /\ IsHex(before) /\ IsHex(after) ->
            Value(HexValue(before) * 65536 + (HexValue(after) % 65536))
       [] OTHER -> Throws

=============================================================================
