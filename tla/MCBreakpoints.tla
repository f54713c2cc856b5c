---------------------------- MODULE MCBreakpoints ----------------------------
(* Two addresses, both given with --break on the command line; ids up     *)
(* to MaxIds = 5, so ids are handed out after a delete; "delete" of an  *)
(* initial id, of a REPL id and of an id never handed out.                 *)
EXTENDS Breakpoints

CONSTANTS a1, a2

MCAddrs == {a1, a2}
MCInitialBreaks == <<a1, a2>>
MCDeleteIds == {1, 3, 5}

=============================================================================
