SPECIFICATION RegressionSpec
CONSTANTS
  Invocations <- MCInvocations
  MaxInvocations = 2
  TestLists <- MCTestLists
  Base <- MCBase
  KnownTools = {"spike", "veri", "vcs", "xrun"}
  RtlTools = {"veri", "vcs"}
  RandomSeeds = {11, 12}
  Tandem = TRUE
  Meaning <- MCMeaning
  Outcomes <- MCOutcomes
INVARIANTS
  SelectedTestsRun
  TandemReportsAreOwn
PROPERTIES
  VerdictsAreTrue
  ReplayReproduces
CHECK_DEADLOCK FALSE
