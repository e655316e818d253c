SPECIFICATION DocumentsSpec
CONSTANTS
  Base <- MCBase
  Struct <- MCStruct
  Targets <- MCTargets
  Platforms <- MCPlatforms
INVARIANTS
  PortsAreDocumented
  CsrsAreDocumented
