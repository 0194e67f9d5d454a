SPECIFICATION Spec
CONSTANTS
  Branches <- SweepBranches
  Stray = "stray"
  NoPid = NoPid
  MaxRuns = 1
  Prompts = {FALSE}
PROPERTY HeaderHolds
