---------------------------- MODULE MCBatchReport ----------------------------
(* Register names for BatchReport, as tuples of characters: names of both  *)
(* CPUs in upper and lower case, a numbered GBA register, and a name no    *)
(* CPU has; std::stoi throws on "RA".                                    *)
(* --dump type names: one per console and one of neither.                *)
EXTENDS BatchReport

MCNames == {<<"a">>, <<"R", "A">>, <<"S", "P">>, <<"r", "1", "3">>, <<"p", "c">>, <<"L", "R">>, <<"Q">>}

\* "wram" only the NES lists, "iwram" only the GBA, "zz" neither.
MCDumpTypes == {"wram", "iwram", "zz"}

MCCpus == {"Nes", "Gba"}
=============================================================================
