------------------------------ MODULE MCCliArgs ------------------------------
(* Words for CliArgs: a hex number that is also a decimal number and a ROM *)
(* path, a NAME=VALUE pair, and an unknown option.  Address characters:  *)
(* hex digits of both cases, the two prefixes, the bank separator and a   *)
(* letter that is not hex, enough for every form of spec 4.2 and for the  *)
(* near misses ("$", "0x", "1z", "$0x1", "1:2:3").                        *)
EXTENDS CliArgs

MCTexts == {<<"5">>, <<"A", "=", "5">>, <<"-", "q">>}
MCAlphabet == {"0", "1", "a", "F", "$", "x", ":", "z"}
=============================================================================
