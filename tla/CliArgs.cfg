SPECIFICATION Spec
CONSTANTS
  Help = Help
  Dap = Dap
  Batch = Batch
  Json = Json
  Headless = Headless
  Break = Break
  Timeout = Timeout
  CheckReg = CheckReg
  CheckMem = CheckMem
  CheckMem16 = CheckMem16
  Dump = Dump
  Texts <- MCTexts
  MaxArgs = 4
  Alphabet <- MCAlphabet
  MaxLen = 4
INVARIANT TypeOK OptionsInArgvOrder WellFormedAsSpecified
