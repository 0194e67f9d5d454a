SPECIFICATION PSpec
CONSTANTS
  Files <- SmallFiles
  Slow = {}
  Sampled = {"a", "b"}
  Window = 4
  ChanCap = 1
  Parsers = {p1, p2}
  Handlers = {h1, h2}
  Faults = FALSE
  Undecided = Undecided
  Unpublished = Unpublished
  p1 = p1
  p2 = p2
  h1 = h1
  h2 = h2
INVARIANT NoContention
