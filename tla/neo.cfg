SPECIFICATION PSpec
CONSTANTS
  Files <- TheFiles
  Slow <- SlowFiles
  Sampled = {"a", "b"}
  Window = 2
  ChanCap = 1
  Parsers = {p1, p2}
  Handlers = {h1, h2}
  Faults = TRUE
  Undecided = Undecided
  Unpublished = Unpublished
  p1 = p1
  p2 = p2
  h1 = h1
  h2 = h2
INVARIANTS LoadComplete NoSendOnClosedCnq PrintedSlack
PROPERTIES LoaderReturns ImplementsLedger
