-------------------------- MODULE MCMessageManager --------------------------
(* Two threads, two managers, a message and the empty string; a log bound  *)
(* of 2 in place of 1000, and three calls per thread, so that the log      *)
(* overflows, and a ClearLog or an Unregister can fall between the steps   *)
(* of another thread's DisplayMessage.                                     *)
EXTENDS MessageManager

CONSTANTS t1, t2, g1, g2, m1

MCThreads == {t1, t2}
MCManagers == {g1, g2}
MCTexts == {m1, Empty}
=============================================================================
