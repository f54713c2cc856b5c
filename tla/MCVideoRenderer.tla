-------------------------- MODULE MCVideoRenderer --------------------------
(* One caller and the emulation thread, or two callers; two devices, so   *)
(* that a device other than the registered one can be unregistered.       *)
EXTENDS VideoRenderer

CONSTANTS c1, c2, d1, d2

MCOneCaller == {c1}
MCTwoCallers == {c1, c2}
MCDevices == {d1, d2}
=============================================================================
