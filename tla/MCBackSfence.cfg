SPECIFICATION BackSpec
CONSTANTS
  NR_SB_ENTRIES = 4
  NrIssuePorts = 1
  NrCommitPorts = 2
  NrWbPorts = 4
  ALUBypass = FALSE
  Programs <- MCSfence
  Instr <- MCInstr
INVARIANTS
  CommitsAreExact
