SPECIFICATION Spec
CONSTANTS
  t1 = t1
  t2 = t2
  g1 = g1
  g2 = g2
  m1 = m1
  NULL = NULL
  Empty = Empty
  Threads <- MCThreads
  Managers <- MCManagers
  Texts <- MCTexts
  Cap = 2
  MaxCalls = 3
INVARIANT TypeOK LogKeepsNewest ShownOnlyToRegistered
