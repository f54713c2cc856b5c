------------------------- MODULE MCRecordedRomTest -------------------------
(* Two frame hashes and a cap of 3 frames per run (255 scaled down): seven*)
(* frames reach a full run followed by more of the same hash, a change of *)
(* hash after a full run, and runs of 1.  Hashes are interchangeable.    *)
EXTENDS RecordedRomTest, TLC

CONSTANTS H1, H2

MCHashes == {H1, H2}

MCSymmetry == Permutations(MCHashes)
=============================================================================
