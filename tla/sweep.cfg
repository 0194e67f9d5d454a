SPECIFICATION FairSpec
CONSTANTS
  TolInv = 10
  Ref <- RefMC
  Source = 0
  UidMapped = {0, 1, 2, 3, 4, 5}
  Oracle <- OracleMC
  Inf = Inf
  BandLo = 0
  BandHi = 750
  SampleSize = 2
  Frontiers <- SweepMC
  Replies <- RepliesOne
  MaxStarts = 2
  NoFile = NoFile
  Partial = Partial
INVARIANTS ResultFileWhole DoneFrontiersKept SameTargetsEveryFrontier
PROPERTY SweepCompletes
