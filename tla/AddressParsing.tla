--------------------------- MODULE AddressParsing ---------------------------
(***************************************************************************)
(* ParseAddress and its copy ParseAddr (AddressText) over every argument   *)
(* of up to MaxLen characters of Alphabet: the texts a REPL command        *)
(* ("break", "watch", "mem", "set", "disasm", a region alias) or an option *)
(* of the command line (--break, --check-mem) hands to the parser.         *)
(***************************************************************************)
EXTENDS AddressText

CONSTANTS
  Alphabet,  \* the characters typed
  MaxLen     \* the longest argument considered

ASSUME MaxLen \in Nat

Inputs == UNION {[1..n -> Alphabet] : n \in 0..MaxLen}

\* Every text spec 4.2 accepts is parsed to the value the spec gives it.
ParsedAsSpecified ==
  \A text \in Inputs : SpecAddress(text).ok => ParseAddress(text) = SpecAddress(text)

=============================================================================
