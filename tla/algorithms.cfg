SPECIFICATION AllSpec
CONSTANTS
  Low = 3
  MaxUid = 8
  GroupSize = 2
  SeekStart = SeekStart
  SeekCurrent = SeekCurrent
  Vertices <- VerticesMC
  Missing = Missing
  Inf = Inf
  Packs <- PacksMC
  Samples <- SamplesMC
  Replies <- RepliesMC
  Diffs <- DiffsMC
  Bands <- BandsMC
  Groups = 3
  Wide = 65536
  Narrow = 256
  Parts = 3
  Infinity = Infinity
  Tolerance = 2
  Written <- WrittenMC
  Buffers <- BuffersMC
  Networks <- NetworksMC
  Films <- FilmsMC
INVARIANTS CodecExact NearestRank SelfCheckSound DiffExact BandInRange MarshalRoundTrip UnmarshalStable OneGraph ReferenceConfirmed JoinExact
