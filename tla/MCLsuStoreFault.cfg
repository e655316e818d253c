SPECIFICATION LsuSpec
CONSTANTS
  Word = {w1, w2}
  NoAmo = NoAmo
  NR_SB_ENTRIES = 3
  DEPTH_SPEC = 2
  DEPTH_COMMIT = 1
  NrLoadBufEntries = 2
  Programs <- MCStoreFaults
  SingleStep = FALSE
INVARIANTS
  WriteBackIsOwn
