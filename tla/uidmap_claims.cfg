SPECIFICATION CacheFairSpec
CONSTANTS
  N = 3
  PageSize = 2
  NumBranches = 2
  MaxScripts = 3
  MaxLoads = 2
  Faults = {"kill", "alpha"}
  NoFile = NoFile
  Torn = Torn
PROPERTY CacheTrusted
