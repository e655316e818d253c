SPECIFICATION BackFairSpec
CONSTANTS
  NR_SB_ENTRIES = 2
  NrIssuePorts = 1
  NrCommitPorts = 1
  NrWbPorts = 4
  ALUBypass = FALSE
  Programs <- MCContention
  Instr <- MCInstr
PROPERTIES
  InstructionsRetire
  ImplementsWindow
