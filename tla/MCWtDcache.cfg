SPECIFICATION DcSpec
CONSTANTS
  Word <- MCWord
  NrBytes = 2
  Way <- MCWay
  Cacheable <- MCCacheable
  None = None
  NrReadPorts = 2
  WtDcacheWbufDepth = 2
  DCACHE_MAX_TX = 2
  NonIdempotent <- MCNonIdempotent
  Programs <- MCPrograms
INVARIANTS
  LoadsAreCurrent
  CopiesCurrent
  NoDuplicateLines
  TransactionsMatch
  MissesAreAwaited
  AmoSeesStores
PROPERTIES
  NonIdempotentStoresAlone
