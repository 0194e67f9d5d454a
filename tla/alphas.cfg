SPECIFICATION Spec
CONSTANTS
  Branches <- SweepBranches
  Stray = "stray"
  NoPid = NoPid
  MaxRuns = 2
  Prompts = {TRUE, FALSE}
INVARIANTS MeasuresItsBranch OnlyCutStartLeaks OneAtATime
PROPERTY SweepEnds
