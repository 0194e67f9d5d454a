SPECIFICATION InputSpec
CONSTANTS
  Low = 3
  MaxUid = 8
  GroupSize = 2
  SeekStart = SeekStart
  SeekCurrent = SeekCurrent
  Vertices <- VerticesMC
  Missing = Missing
  Inf = Inf
  Packs <- Bases
  Samples = {}
  Replies = {}
  Diffs <- LongerSource
  Bands = {}
  Groups = 3
  Wide = 65536
  Narrow = 256
  Parts = 3
  Infinity = Infinity
  Tolerance = 2
  Written = {}
  Buffers = {}
  Networks <- OddNetworks
  Films = {}
INVARIANT SomeCommentHolds
