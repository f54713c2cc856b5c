SPECIFICATION Spec
CONSTANTS
  a1 = a1
  a2 = a2
  Addrs <- MCAddrs
  InitialBreaks <- MCInitialBreaks
  DeleteIds <- MCDeleteIds
  MaxIds = 5
INVARIANT TypeOK UniqueIds CoreMirrorsTable
