SPECIFICATION Spec
CONSTANTS
  Bits = 6
  NoComment = 0
  MaxListing = 2
  Consoles <- MCConsoles
  MemSize <- MCMemSize
  Addrs <- MCAddrs
  Lens <- MCLens
  Mem <- MCMem
  Words <- MCWords
  SetAddrs <- MCSetAddrs
  SetVals <- MCSetVals
  Counts <- MCCounts
  CodeLines <- MCCodeLines
  Frames <- MCFrames
  Snapshots <- MCSnapshots
INVARIANT TypeOK RegionReadInBounds DumpShowsRead DisasmAligned BacktraceAsSpecified AliasResolvesToItsRegion FlagsShownAlike
