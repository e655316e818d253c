SPECIFICATION BackSpec
CONSTANTS
  NR_SB_ENTRIES = 4
  NrIssuePorts = 2
  NrCommitPorts = 2
  NrWbPorts = 4
  ALUBypass = TRUE
  Programs <- MCPrograms
  Instr <- MCInstr
INVARIANTS
  CommitsAreExact
  ResultsAreAwaited
  FluPortFree
  WindowConsistent
  CommitPortsApart
