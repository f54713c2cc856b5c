SPECIFICATION Spec
CONSTANTS
  H1 = H1
  H2 = H2
  NoHash = NoHash
  Hashes <- MCHashes
  Cap = 3
  MaxFrames = 7
SYMMETRY MCSymmetry
INVARIANT TypeOK RunLengthEncodes
