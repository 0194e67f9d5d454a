SPECIFICATION SuiteSpec
CONSTANTS
  u1 = u1
  u2 = u2
  u3 = u3
  Nothing = Nothing
  Idle = Idle
  Open = Open
  Comma = Comma
  End = End
  LineFeed = LineFeed
  Users <- MCUsers
  QueueCap = 1
  Pairs = 6
  HeapSizes <- MCHeapSizes
  Lines = 5
  NumRdf = 1
  MaxRetries = 1
  Rounds = 2
  Latencies <- MCLatencies
  MaxQueries = 2
  LatCap = 2
  Feeds <- MCFeeds
  WriterSize = 2
  Folders <- MCFolders
  Expected <- Earlier
  Repliers <- MCRepliers
  MaxRuns = 3
  N = 4
  PageSize = 2
  NumBranches = 2
  MaxScripts = 3
  MaxLoads = 2
  Faults = {"kill", "alpha", "disk"}
  NoFile = NoFile
  Torn = Torn
INVARIANTS
  PerfReported LoadAccounted FunnelConserved FilesComplete ReplayFaithful MarkersHold
  RightUids CacheWhole FetchedMapRight
PROPERTY NeverRewritten
