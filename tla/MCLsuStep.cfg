SPECIFICATION LsuSpec
CONSTANTS
  Word = {w1}
  NoAmo = NoAmo
  NR_SB_ENTRIES = 2
  DEPTH_SPEC = 2
  DEPTH_COMMIT = 1
  NrLoadBufEntries = 1
  Programs <- MCOneStore
  SingleStep = TRUE
INVARIANTS
  BufferContract
