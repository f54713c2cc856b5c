SPECIFICATION Spec
CONSTANTS
  Cpus <- MCCpus
  Names <- MCNames
  DumpTypes <- MCDumpTypes
  MaxAssertions = 2
  MaxDumps = 2
INVARIANT TypeOK ExitCodeReflectsAssertions DumpsAsSpecified
