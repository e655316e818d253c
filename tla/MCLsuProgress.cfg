SPECIFICATION LsuFairSpec
CONSTANTS
  Word = {w1}
  NoAmo = NoAmo
  NR_SB_ENTRIES = 3
  DEPTH_SPEC = 1
  DEPTH_COMMIT = 1
  NrLoadBufEntries = 1
  Programs <- MCContention
  SingleStep = FALSE
PROPERTIES
  InstructionsLeave
