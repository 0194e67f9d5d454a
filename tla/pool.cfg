SPECIFICATION FairSpec
CONSTANTS
  Ref <- RefMixed
  Source = 0
  UidMapped = {0, 1, 2, 3, 4, 5}
  SampleSize = 0
  Workers = {w1, w2}
  Dists = {11}
  Inf = Inf
  EpsInv = 10
  MaxFirstFails = 2
  NoAnswer = NoAnswer
  Undecided = Undecided
  Unpublished = Unpublished
INVARIANTS TypeOK NoTargetLost NoSendOnClosedOut ReportComplete FirstFailsFaithful
PROPERTIES RunTerminates ImplementsLedger
