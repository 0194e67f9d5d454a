# dgraph-benchmarks, specified and verified

TLA+ specifications of the programs in this repository that have behaviour
worth specifying, TLC configurations that check them on small instances, and
theorems that TLAPS checks for every size. The repository is a collection: a
benchmark suite for k-shortest-path queries (`k-shortest-path/`, the largest
program and the one under development), several concurrent loaders and load
generators, a copy of dgraph's uid codec and protobuf code, and data.

    tlc -workers 2 -config pool.cfg MCBenchPool.tla          model-check one run
    tlapm BenchPoolProofs.tla                                check the proofs of a module

`PROJECT.json` lists the runs, which definition models which lines, the mutants
(plausible bugs, written next to the definition they replace, each of which
makes a property fail), the hazards and the theorems.

## Inventory

### k-shortest-path

`scripts/bench.sh` prepares a machine, a dataset and a bulk load, then builds
each dgraph branch, starts an alpha of it and runs `cmd/bench` against it.
`scripts/run-pr-comparison.sh` does the same for a matrix of branches and
datasets, `scripts/calibrate.sh` for a list of frontier caps. All three use
`scripts/lib/alpha.sh`. The parts interact through files (dataset, reference
distances, uid map cache, result JSON, pid file), through processes (the alpha
that holds the ports) and through gRPC queries.

| part | state | operations | what is hard | what makes it correct |
|---|---|---|---|---|
| `cmd/bench -mode correctness` | channels jobs and out, WaitGroup, counters, FirstFails | feed, take, query, send, collect, close, report | interleaving, close order, bounded channels, failing queries | each sampled target judged once; the report adds up; no send on a closed channel; it ends |
| `cmd/bench -mode kshortest` | the sweep so far, the frontier in progress, the result file and its `.tmp` | band selection, query, compare, summarize, atomic write | kills at any step, failing writes, a dying alpha, reruns over an old file | the file is always a whole prefix of the sweep; at most one frontier is lost; same targets every frontier |
| `cmd/bench -mode perf` | channel jobs, recorder, heapPeak | feed, query, record, sample the heap | the sampler is not awaited and its variable read without the mutex | samples and errors add up to the pairs; the peak is one that was measured, and no less than what was stored before the stop |
| uid map and cache (`client.go`, `main.go`, `bench.sh`) | the map in memory, the cache file, the bulk load it belongs to | fetch by pages, save, load, refresh | kill during a save, failing pages, a flag cleared too early, a second bulk load | the queries name the uids of the loaded data |
| `internal/client` Shortest | none | query text, decode, walk the path | missing facets and weights | distance and cost vector are those of the reply |
| `internal/compare` | none | compare cost vectors with a tolerance | lengths, infinities, zero | verdicts are exclusive |
| `internal/stats` | samples, errors | record, summarize | percentiles of few samples | nearest rank |
| `internal/oracle`, `internal/ldbc`, `cmd/prepare`, `cmd/convert`, `cmd/validate` | dataset files | parse, write, Dijkstra, Yen | duplicates, rounding, undirected edges | the oracle and dgraph hold the same graph, and a right answer is confirmed by the reference |
| `bench.sh` phases 1 to 4 | repository, dataset, RDF, bulk `p/` | clone, prepare, convert, bulk load | resuming over partial artifacts | the files appear in an order that makes a skipped phase safe, and what was skipped for stays |
| `bench.sh` phase 5, `lib/alpha.sh` | installed binary, pid file, processes, ports | build, verify, stop, reset, start, wait, bench | processes that outlive a signal, stale binaries, kill and restart of the script | a result is measured on the binary its label names; what outlives an exit is an alpha whose start was cut short; the sweep ends |
| `run-pr-comparison.sh`, `calibrate.sh` | cells, result files | loop, summarize | stale result files, skipped cells | a summary is of this run |

### The other programs

| part | behaviour | what is hard |
|---|---|---|
| `neo/` | file -> window -> channel -> parsers -> channel -> handlers -> database | close order, lost updates, counters |
| `scripts/mutations/`, `data/neo4j/` | batches over a channel to HTTP or bolt workers | retries, a shared response variable |
| `bitmap/codec.go` | encode, decode and seek in blocks of uids | boundaries of 64-bit uids |
| `bitmap/pb.pb.go` | Marshal, Size and Unmarshal of 65 message types | lengths known before what is written, cut and unknown input, nesting |
| `scripts/verify/`, `convert/` | merge and join of RDF lists | what is left at the end, duplicates |
| `regression/replay/` | queries over a channel, one response file each | two queries, one file |
| `twitterdata/` | a stream written by workers, a JSON array per worker | unflushed tail, separators |
| `throughputtest/`, `loadtest/` | timed users, statistics from channels | channel drained while it is read |
| `finder/` | filter lines through one locked writer | little |
| `cachebench/` | hit ratios and speed of third-party caches | what the caches keep |
| `vector/`, `indextest/`, `geo*`, `movielens/`, `orientdb/`, `pbbenchmark/`, `data/`, `donors/` | conversions, micro-benchmarks, evaluation scripts, data | nothing a model would tell |

## Modules

| module | models | its actions and the code |
|---|---|---|
| `Ledger` | what a run over items promises: each judged once, then one report that adds up | no code; `BenchPool` and `NeoLoader` implement it |
| `BenchPool`, `MCBenchPool` | `pickTargets`, `runCorrectness` (`cmd/bench/main.go`) | `FeedJob`, `CloseJobs`, `CloseOut`: the feeder goroutine; `TakeJob`, `QueryAnswered`, `QueryFailed`, `SendResult`, `WorkerExit`: a worker; `Collect`, `WriteReport`: the main goroutine |
| `CostVectors` | `compare.Vectors`, `worstRelErr` | operators |
| `KShortestSweep`, `MCKShortestSweep` | `bandedTargets`, `runKShortest` (`kshortest.go`), `writeJSON` | `QueryReturns`, `QueryFails`: one pass of the inner loop; `Summarize`: its end; `CreateTmp`, `EncodeTmp`, `RenameTmp`, `WriteFails`: `writeJSON`; `Killed`, `Rerun`, `AlphaDies`: the world |
| `TargetBand` | the ranks `bandedTargets` selects | operators |
| `UidMapCache` | `FetchUIDMap`, `SaveUIDMap`, `LoadUIDMap`, `main`'s use of them, and the script steps that drive them | `FetchPage`, `FetchFails`; `CreateCache`, `WriteChunk`, `WriteFails`; `OpenCache`, `CheckMap`; `StartBenchSh`, `StartPrComparison`, `StartBench`, `SkipBranch` |
| `BranchSweep`, `MCBranchSweep` | phase 5 of `bench.sh` and `lib/alpha.sh` | `StopManaged`, `StopStrays`: the halves of `stop_alpha`, at each of its five calls (`StrayVanishes`: the second `pgrep` finds nothing and `set -e` ends the script); `Launch`, `RecordPid`, `MarkRunning`: `start_alpha`; `Build`, `Verify`, `ResetData`, `Healthy`, `GivesUp`, `Poll`, `RunBench`, `NextBranch`, `ExitTrap`; `Listen`, `Hangs`, `AlphaExits`: the alphas; `Interrupted`, `ScriptKilled`, `RunAgain`, `LeftBenchEnds`: the world |
| `NeoLoader`, `MCNeoLoader` | `HandleRdfReader` (`neo/loader.go`) | `FillWindow`, `SwapLine`, `EndOfFile`, `Drain`: `readLines`; `ParseLine`, `SendQuad`, `CountParsed`, `ParserExit`: `parseStream`; `TakeQuad` to `HandlerExit`: `handleNQuads`, one action per database request; `ParserDone`, `Return`: the caller |
| `NeoPrinter`, `MCNeoLoader` | `printCounters` beside `NeoLoader` | `Load`: one of its three atomic loads |
| `UidCodec` | `bitmap/codec.go` | operators: `Encode` runs `Add` and `PackBlock` over the list; a decoder is the record `[blockIdx, uids]` that `Seek`, `Advance`, `LinearSeek` return |
| `ShortestReply` | `Shortest` after the query, `walkPath` (`client.go`) | operators: `Walked` is one pass of `walkPath`'s loop |
| `Percentiles` | `Summarize`, `quantile` (`stats.go`) | operators |
| `DiffMerge` | `compare` (`scripts/verify`) | operators: `Round` is one pass of its loop |
| `Sorting` | what `sort.Slice` and `sort.Float64s` leave, by rank | operator |
| `RoadDataset` | `cmd/prepare`'s parsers, edge file and reference, `ldbc.ReadProperties`, `cmd/convert`'s triples, the oracle's graph, `cmd/validate` | operators from the lines of the source to the graph each program ends up with; a loop over lines is a recursive function of one operator per line |
| `StreamJoin` | `convert/main.go` | operators: `JoinLine` for each line in turn, and the output as a bag of lines |
| `Algorithms` | the properties of all these and of `UidCodec` and `TargetBand` | a behaviour is one input; no steps |
| `PbSchemas` | the fields of the message types of `bitmap/pb.pb.go` | one definition per type: the cases of its `Unmarshal`, each with the number, the name and the kind of the field |
| `PbScalars` | how `Unmarshal`, `MarshalToSizedBuffer` and `Size` treat numbers and strings of bytes, with `sovPb` and `encodeVarintPb` | operators: `Varint` and `PutVarint` for the loops over seven bits, `Chunk` for what follows its length, `Scalar` by type of number |
| `PbWire` | what is the same in every `Unmarshal`, `MarshalToSizedBuffer` and `Size`, and `skipPb` | operators, by kind of field; `ReadEntry` and `EntryFrom` for maps, `ReadPacked` for packed fields, `SkipFrom` for what is not known |
| `Conversions`, `MCAlgorithms` | the properties of `PbWire`, beside those of `Algorithms`; the bounded inputs, and those that refute a comment | as in `Algorithms` |
| `PerfPool` | `runPerf` (`cmd/bench/main.go`) | `Feed`, `CloseJobs`, `Stop`, `Summarize`: main; `Take`, `Record`: a worker; `Measure`, `Store`, `StopSampling`: the heap sampler |
| `ArtifactPipeline` | phases 3 and 4 of `bench.sh` and the order in which `prepare`, `convert` and `dgraph bulk` write their files | `SkipOrPrepare`, `SkipOrConvert`, `SkipOrBulk`: what is taken for done; `Create`, `Finish`, `FinishSwallowed`, `WriteFails` per file; `Killed`, `Start` |
| `MutationLoader` | `scripts/mutations` | `ReadLine`, `LastBatch`: main; `Take`, `Retry`, `Reply`, `UnmarshalReply`, `Check`: a worker |
| `LatencyFunnel` | `throughputtest` | `Query`, `Reply`, `SendLatency`, `SendCount`, `SendTotal`: a user; `TakeLatency`, `GrowLatency`, `StoreLatency`: the goroutine that drains `latC` and appends to `allLat`, in two steps; `StartRound`, `Wait`, `Summarize`, then `BeginSort`, `EndSort`, `Percentiles`, `Extremes`, each with a look at `allLat` of its own: main |
| `FeedFiles` | `twitterdata/stream` and `twitterdata/postprocess` | `Send`, `Close`; `StartWork`, `Take`, `WriteTweet` or `SeparatorFails`, `WriteMessage` or `SkipMessage`, `ExitWork`: a worker, over a `bufio.Writer` that is flushed or not and keeps the first error it meets |
| `Replay` | `regression/replay` | `Send`, `Close`; `Take`, `Ask` (which truncates the file), `WriteReply`, `Compare`: a worker, with `-src` given |
| `Sums` | the sum of a sequence, as `throughputtest` and `Summarize` compute it | operator |
| `Programs`, `MCPrograms` | these six programs side by side | a behaviour is one program; the variables of the others stay idle |
| `MCSuite` | `Programs` and `UidMapCache` in one instance, for one run | a behaviour is of one of the two: the state spaces add up and do not multiply |
| `BenchPoolProofs`, `KShortestSweepProofs`, `UidMapCacheProofs`, `BranchSweepProofs`, `NeoLoaderProofs`, `AlgorithmsProofs`, `ProgramsProofs` | theorems about the module each is named after (`ProgramsProofs`: about the six programs, one section each) | |
| `DataLemmas` | lemmas about naturals, recursive functions, sums of sequences and sums over finite sets, for the proofs | |

What the models abstract. A float distance is a natural number or `Inf`, and a
tolerance is the inverse of a natural number, so that comparisons are exact; a
latency is a count of samples; names are strings or model values. Queries
answer anything, within small sets of distances or cost vectors: an alpha under
test may be wrong. A line buffered by `bufio` reaches the file in any prefix.
Shell commands fail where the script looks at their status, and where it does not.
A uid has two halves of `Low` values instead of 2^32, and `groupvarint`'s groups
have two deltas instead of four. The uid map module and the branch module both
walk through phase 5, each with the part of the state it is about: the cache in
one, the processes in the other.

An error of a `bufio.Writer` stays, and what the file took before it is any
part of what was pushed out. An alpha carries the run that launched it and how
far `start_alpha` got with it, so that the alphas of a run that was killed still
count as the script's. `CostVectors` has the infinite cases of `compare`,
though no sum of finite facets is infinite.

Data races are choices over what the build can make of them: a word that is
written while it is read is the old or the new one (`heapPeak`, the length of
`allLat`), a slice that is copied while it is sorted may have an element twice,
and an element that is stored into the part being sorted may be lost (`whole`);
three counters that are loaded without a lock are three steps (`NeoPrinter`); and the two-word string `r.Code` of `scripts/mutations`, read while
another goroutine writes it, may be no code at all, which the program takes for
an error. A message of `pb.pb.go` is a record of its fields, bytes are numbers,
and a varint has three bytes, `uint64` two and `uint32` one byte's worth of
values instead of ten, 2^64 and 2^32: the widths keep their proportions, so that a
number may still be too long, too large for its type, or negative. The 65
`Unmarshal` methods were generated from one template, and each is one set of
fields here; that each method has the cases its set names is what `map` lets a
reader compare. A weight of the road network is an integer, `Parts` of which
make a unit of the last of the six decimals that are written.

## Runs

| run | instance | shows |
|---|---|---|
| `pool` | 2 workers, 5 of 7 vertices eligible (references 0, 10 and infinity, one vertex not in the uid map), answers 11, infinity and errors, channels of 4, FirstFails of 2 | in every interleaving each target is in one place, `out` is closed after the last send, counters, FirstFails and report agree with the verdicts, the run ends with a report, and the pool implements `Ledger`. Five targets fill a channel of four, so both the feeder and a worker block, and FirstFails overflows |
| `sweep` | 2 frontiers over 2 targets sampled from a band of 3, the process started twice, failing writes, dying alpha | the result file is always a whole prefix, at most one frontier is lost; each frontier covers the same targets in the same order and its counters are those of its records; a run left alone completes |
| `suite`: uid map | 4 vertices in pages of 2, 3 script runs, 2 loads, kills, failing fetches, full disk | a map that was fetched is right; a file never mixes two loads; up to the second load, and as long as no save was cut short (history variable `cutShort`), every process queries the right uids |
| `suite`: programs | `runPerf` with 6 pairs and 2 workers; 5 lines in batches of 2 and 1, 2 workers, one failing request per batch; 2 rounds of 2 users with up to 2 queries and a channel of 2; feeds of up to 5 messages, good and bad, 2 workers, buffers of 2, a disk that fills up at any write; folders of up to 3 queries, 3 workers, 2 suffixes or one, replies of different lengths; 3 starts of `bench.sh` with kills, failures and full disks anywhere | perf mode reports every pair once; a load that ends well has lost only lines whose rejection the shared variable hid, and set a line once for each failed request with its batch and once more at most; the sort misses the latencies in the channel and one more at most, and if it misses none the numbers printed are of all of them; every message is written by one worker or skipped for a reason, the post-processed files are arrays, but for a comma at the end if the last message was no tweet, `stream` loses at most its last buffer, and on a full disk a file is cut; every query is judged by its own reply, and a file several queries write is blocks of their replies, one reply on top; the files of phases 3 and 4 appear in the order the skips rely on and stay as they are |
| `algorithms` | every set of 9 uids (3 upper halves) in blocks of 1 to 4; latencies up to 4 and around 20 and 100 samples; replies of one path of up to 3 hops, or of two; lists of up to 4 lines; flags beyond both ends; of each of the 65 message types the empty message, the full one and each field alone with its boundary values, and of six of them one level more of nesting; every sequence of up to three bytes from the tags and boundary bytes of four types, and unknown fields of every wire type; networks of two or three lines with weights on both sides of the tolerance; film files of up to four lines | the codec gives back what it packed and both searches find it; percentiles are nearest-rank; the self-check of a reply is right about each path; `compare` writes no line too often, and before the last line of the destination exactly the difference; a band is never empty or out of range; a message is as long as `Size` says and comes back whole, among unknown fields too, and a cut one is an error or a message of whole fields; any bytes end in an error or in a message that `Marshal` and `Unmarshal` keep; oracle and dgraph hold one graph, but for the weight of parallel arcs; the reference confirms a right answer as long as no weight is lighter than the tolerance; the film join makes up nothing and, with one entry per key, loses nothing |
| `uidmap_claims` | kills, failing fetches, 2 loads, 3 script runs | violated: in one behaviour a second branch uses the cache of an earlier load, and an empty cache fails a later process |
| `alphas` | 2 branches, a stray, 2 runs of the script, the first cut short by a signal between any two commands or not; alphas that hang, that obey SIGTERM in two seconds, and that never do (variable `prompt`, fixed by each behaviour) | of the alphas of both runs at most one whose pid was written down is alive, and at most one at all if alphas obey in time; what outlives the EXIT trap is an alpha whose start was cut short; the sweep ends, unless it waits for a bench whose alpha hangs; a result the script waited for has a true label if alphas obey in time |
| `alphas_header` | a stray, a signal | violated: in one behaviour the stray is alive when `p/` is replaced, and an alpha launched but not marked as running outlives the script |
| `neo` | four files of 3 and 4 lines, one with a bad line, window of 2, 2 parsers, 2 handlers, channels of 1, errors at any step; during two of the files the loads of `printCounters` at any time | every quad reaches the database or is sampled out, once, before the loader returns, and no property ends up with another node; no success after an error; no send on a closed channel; the loader ends; implements `Ledger`; the processed it prints is ahead of the parsed by one per parser at most, and with ignored, which is loaded last, it is ahead of what is parsed by then by no more |
| `neo_contention` | 2 values of one subject | violated: a handler writes back properties that are out of date |
| `claims` | one or two inputs for each of five comments | violated: none of the five is true of all inputs. `compare` does not output what the source has behind the last line of the destination; dgraph may hold the heavier of two parallel arcs; over arcs of less than a unit of the sixth decimal the reference is further from the distances on the oracle's graph than the tolerance; `LinearSeek` stops at a block whose base equals the uid sought; `Seek(0, SeekCurrent)` yields uid 0 |
| `feeds` | a buffer of 3, so that it ends between a message and its line feed | violated: the last line of a file is cut (or an array of `postprocess` ends in a comma) |
| `artifacts_resume` | 2 starts of `bench.sh` | violated: "dataset ready" with the reference missing or a file cut |

The bounds. Every queue, page, window and list of attempts is smaller than what
goes through it, so that full, empty, first, last and one-too-many all occur;
there are two of each kind of goroutine wherever they compete, and two of
everything that follows itself (loads, branches, starts). `MaxStarts`,
`MaxScripts`, `MaxLoads`, `MaxRuns`, `MaxRetries`,
`MaxQueries` and `Rounds` (three in the code, two here) cap what the world can do
again and again; a third kill meets no state that the second does not. `Slow` are
the files whose load takes longer than a second, the others are loaded before the
first tick; one of them has as many quads as `processed` can be ahead by, and one
more.
In `sweep` each query gets one answer (which matches, or not, the reference of
its target) or an error; `CostVectors` decides over those. No run uses
symmetry, since most check liveness as well. `suite` and `algorithms` check
safety only, and that nothing gets stuck: a state without a step would be a deadlock. (In
`PerfPool` the heap sampler can always step before the stop, so there it says less.)
The type invariant is checked in `pool`; those of the other modules are parts
of the invariants that the proofs below show to be inductive.

## Fairness

- `BenchPool`: weak fairness of feeder, collector and each worker (Go runs every
  runnable goroutine; the collector never waits for anything but `out`), and of
  the return of each query, which `context.WithTimeout` ends.
- `KShortestSweep`: weak fairness of the process's own steps. A kill is not
  prevented: the property is about runs that are left alone, so it names the kill
  as one of the ways to end.
- `BranchSweep`: weak fairness of the script's steps taken together, as long as it
  is not `Blocked`. Its commands have a bound (30 tries in `stop_alpha`, a deadline
  in `wait_alpha`, 90 tries of 5 seconds for the data), all but two: the bench
  fetches the uid map on `context.Background()`, and the script waits for a `curl` of
  a profile without `-m`. Both hang with an alpha that hangs and keeps its port, so
  `SweepEnds` says that the script ends or stays in that state. Nothing is assumed
  of the alphas.
- `UidMapCache`, in `uidmap_claims` only: weak fairness of a bench that was started
  and of its script. The claims are that something never happens; fairness says
  that the behaviour refuting them is one of programs that run on.
- `NeoLoader`: weak fairness of each goroutine, and that the database answers:
  the HTTP client has no timeout, so a request that hangs does hang the loader.

## What is proved

All safety properties of the twelve state machines, and the refinements of
`Ledger`, for every value of the constants: the runs show them on small
instances, the theorems below for any number of goroutines, workers, restarts,
lines, branches and failures. The theorems are
about each module's own specification (`CacheSpec`, `InputSpec`, the `Spec` of
`Programs`), of which `MCSuite` only puts the behaviours side by side. Each proof has the same shape: an inductive
invariant, which implies the property, holds initially and is preserved by each
action, one lemma per action or kind of action. What follows says what the invariants add to the properties and why
nothing less would do.

`BenchPoolProofs`, from `PoolAssumption`:

- `TypeCorrect`: `[]TypeOK`. Inductive with `HeldOK` (a worker between its
  channel operations holds a result) and `WgCounts` (the WaitGroup counts the
  workers that have not exited); without these the send and `wg.Wait` steps
  would have nothing to go by.
- `NoSendAfterClose`: from `CloseOrder`, which orders the two closes: jobs is
  closed when the feeder is done, a worker exits only when jobs is closed and
  empty, and out is closed only when `wg` is zero.
- `TargetsConserved`: from `Conserved`: the targets fed so far are the disjoint
  union of those in jobs, with a worker, in out, and decided, and none of these
  holds a target twice.
- `PoolInvariant`: `CloseOrder`, `Conserved` and `Counted` (each counter is the
  number of targets with its verdicts) are inductive together.
- `ReportIsComplete`: when the report is written, out is closed and drained, so by
  `CloseOrder` the sample is fed and no worker runs, by `Conserved` every target
  is decided, and by `Counted` the counters add up to the sample.
- `FirstFailsKept`: FirstFails is the failing targets, all while there is room;
  needs that a target which arrives at the collector was not decided before.
- `PoolImplementsLedger`: `Collect` judges an undecided target, `WriteReport` is
  the report, every other step a stutter.

`KShortestSweepProofs`, from `FrontiersAssumption` (a non-empty list of
frontiers): `SweepResultsSound`, the three properties of the result file at
once. The invariant says what each step of `writeJSON` may rely on: `TmpOK` (the
file that is about to be moved was encoded whole), `StatOK` (the frontier under
way covers a beginning of the targets, with counters to match) and
`FrontiersOK`. A kill keeps only the two files, so everything about memory is
said per control point.

`UidMapCacheProofs`, from `UidMapAssumption`: `UidMapIsRight`. The pages fetched
so far are exactly the vertices up to the offset (`FetchedSoFar`), a bulk load
happens only between script runs (`LoadsApart`), and the map a process queries
with is that of the load, or a file that some whole save wrote (`MapOK`).

`BranchSweepProofs`, from `SweepAssumption` (`NoPid` is no pid): `SweepIsSound`, for
any number of runs, each cut short by a signal anywhere. `FileOK` is the heart:
the pid file names the only alpha on file of any run that may be alive, and outside
of `Up` there is none, because every way to a new start leads through a
`stop_alpha` that kills it. `FlagOK` says what the EXIT trap is told. `OnlyManaged` and
`Verified` need alphas that obey SIGTERM in time, so they are under `prompt`;
`OnlyCutStartLeaks`, and of `OneAtATime` the part about recorded pids, are proved
without it.

`NeoLoaderProofs`, from `LoaderAssumption` (there is a parser and a handler; files
are lists of lines):

- `NobodySendsOnClosed`: `ParserOrder` counts what the caller still waits for, and
  has cnq closed only when no parser is left.
- `PrintedIsBounded`, of `NeoPrinter`: the counters are cardinalities of sets of lines
  (`CountersRight`), so at any instant the deficit is the parsers between sending and
  counting (`PendingNow`). They only grow (`CountersGrow`), so the processed that was
  loaded is still no more than the counter when parsed is loaded, and so for
  ignored (`PrintInv`).
- `LoadIsComplete`: `PlaceInv` (a line is in exactly one of seven places),
  `ParserEnds` and `HandlerOrder` (nobody leaves early), and `DataInv`, which says
  of each line what it has left in the database by where it is. That a property
  may be lost to a concurrent handler (finding 5) is in it: a value is one of the
  node's own lines, not necessarily the last.
- `LoaderImplementsLedger`: as for the pool.

`ProgramsProofs`, from `ProgramsAssumption`. A behaviour is one program from
start to end (`RunsAlone`), so each has its own invariant:

- `PerfAlwaysReported`: a pair is in the channel, with a worker or recorded
  (`PairsCounted`); the peak is as high as all that was stored (`PeakHolds`).
- `LoadAlwaysAccounted`: a line is in one place before the server replies
  (`LoadApart`), and afterwards with a worker that has the reply, applied or masked;
  while it is still to be posted it was set once for each of its own failed
  requests at most (`LoadCounts`).
- `FunnelAlwaysConserved`: what the users have sent and still hold, in counts and
  in times, is what came out of the funnel or is still in it (`FunnelSums`); sums
  over the users and over the channels change by what one step moves. After the
  sums are taken the same total stands in the report; what the sort finds and what
  the later lines read ascend with `allLat`, and nothing disturbs what was stored
  before the sort began unless something was not (`FunnelReport`).
- `FeedsAlwaysComplete`: what a worker has in its file and, behind that, in its
  writer is what it makes of the messages it took so far (`WorkerRight`), until its
  writer meets an error, after which a worker of `postprocess` will not come to its
  end (`Doomed`); a message that left the channel was seen by one worker
  (`FeedApart`); one
  message more makes the array longer by a separator if the last one was good,
  and by itself if it is (`ArrayGrows`). A `bufio.Writer` may cut that anywhere
  (`WriteKeeps`).
- `ReplayAlwaysFaithful`: a file that was written is made of replies, the last on
  top, unless a worker has truncated it and is on its way to write
  (`FilesMade`). An earlier form of the property, two replies at most in a
  file, was not inductive, and false with three workers: the run has three now.
- `MarkersAlwaysHold`, `ArtifactsKept`: for each phase of `bench.sh`, which files
  are there (`PhaseInv`); a file is created only in a phase that it was found
  missing before.

`AlgorithmsProofs`, for every input:

- `BandSelectsTargets`: any two flags over any non-empty list select a non-empty
  slice of it.
- `QuantileIsNearestRank`: any quantile in thousandths of any non-empty sequence
  is the sample of the least rank with at least that share.
- `SummaryIsNearestRank`: sorting leaves at each place a value of that rank, as
  there is one for each rank (`Ranks`: the least sample that enough samples do not
  exceed), and the places ascend (`InOrderAscends`); the mean is between the
  first and the last as the sum is between so many times either (`MeanWithin`).
- `DiffIsExact`: for every line, what was written of it so far is what was passed
  of it in the first list less what was passed in the second, and as long as
  these differ, the list that had fewer of it has no more to come (`Balanced`),
  round by round (`RoundKeepsBalance`); when the rounds are used up, one list is
  at its end (`CompareRounds`), and no line before the last of the second list is
  left in the first.
- `SelfCheckIsSound`: after any number of hops, `walkPath` is on its way with the
  vertices of the trail so far, all different, in `seen`; or broke off at the first
  hop that is no link; or came back to a vertex (`Stood`).  What it reports is read
  off where it stands after the last hop (`WalkExact`).
- `CodecIsExact`: between two calls of `Add` the blocks packed hold the first
  uids of the list, each those between two ascending cuts of it, and the open uids
  are the next ones, of one upper half and fewer than a block (`Encoding`,
  `Packed`); so a delta fits a lower half (`DeltaFits`), the groups of a block cover
  its deltas (`GroupsCover`), and unpacking a block gives the part of the list
  between its cuts (`UnpackExact`). A decoder has the first k uids behind it
  (`Reading`), and each round of `Decode`'s loop moves k to the next cut, so that it
  drains exactly the others (`DrainExact`). Bases ascend with the cuts: `Seek`
  leaves k where the uids sought begin (`SeekFinds`), and `LinearSeek` at a block
  that is not beyond the uid sought (`LinearSeekStops`, `LinearSeekCovers`).
- `OracleSeesWhatDgraphHolds`: the graph of any sequence of edges holds, for each
  pair that is not a loop, the least weight among them (`Lightest`, kept by
  `AddEdge` edge by edge), so it depends on the set of the edges only; a set of
  triples gives dgraph one of the weights of each pair. Undirected edges doubled
  twice are the same set (`Effective`). A network as parsed has no loops, and one
  from csv one edge for each two vertices (`KeptOnce`, row by row), so there
  parallel weights never differ.
- `RightAnswersAreConfirmed`: a rounded weight is within half a unit of the one
  read (`WithinHalf`), so within `1 / (2 * Tolerance + 2)` of it when it is heavy
  enough (`HeavyNear`), and sums of near weights are near (`NearSum`). After k
  rounds of the reference's and the oracle's distances every distance of one has
  a counterpart in the other that `Agree`s with it (`MapsAgree`, kept by each
  round, also for the least of several); what is written of the reference rounds
  once more, and is still within the tolerance (`Confirms`).
- `EveryJoinedEdgeIsWritten`: each map of `convert` holds, for each key, the value of a
  line that was read, and has every key there was (`Keeps`); an edge written at
  once or at the end stands for a pair of lines of its own, and where each key
  has one line of each half every pair stands for such an edge (`MetOnce`); a
  line is in the output as often as it was appended to it (`CountAppends`).
- `VarintsAreReadBack`, `ChunksAreReadBack`, `ScalarsAreReadBack`: after k shifts what
  is left of a number stands `2^(7k)` times for what it is, so the k bytes
  written stand for the rest, which is below `2^(7k)` and below the width
  (`PutVarintSpells`, `Spelled`); the bytes end where nothing is left, which is
  where `sovPb` says (`SovPbIs`) and where the reader stops (`SpelledIsRead`), wherever
  they stand in a buffer (`InTheMiddle`), and a buffer that ends before has no
  last byte (`SpelledCutShort`). A negative number is written modulo the width of
  64 bits; its remainder by that of 32 is the number modulo 32 bits, as one
  width divides the other (`WrittenAsVarint`).

The assumptions on the constants say what a flag or a dataset can be. Those that
are more than types: uids in ascending order (as `newList` of
`bitmap/main_test.go` makes them), blocks of at least one uid, finitely many goroutines, at least one where someone waits for
all of them and counts on their work (`Parsers`, `Handlers`, `Repliers`), no
channel and no page of size zero, no empty list of branches or frontiers, ten bytes
of seven bits hold every `uint64` and 2^32 divides 2^64 (`WireAssumption`), and
distinguished values (`NoPid`, `Undecided`, `Unpublished`, `Inf`) that are none of
the values they stand beside.

Recursive functions (`Total`, `Tweets`, and the loops of `RoadDataset`, `StreamJoin` and
`PbScalars`)
are proved about through `DataLemmas` (`IterationExists`, `SameIterations`: what is
computed step by step exists, and is what the recursive function is), with an
induction over sets of naturals (`EveryNatural`: a set that has 0 and every
successor has every natural; it follows from the well-foundedness of `<` in the
library), as the library's induction takes an operator.

Only model-checked: all liveness (`RunTerminates`, `SweepCompletes`,
`SweepEnds`, `LoaderReturns`), which is beyond the prover; and the two properties
of `Conversions`, `MarshalRoundTrip` and `UnmarshalStable`: `PbWire` is made of
recursive operators, as messages hold messages, and the prover takes none. What
these messages are made of in the end, numbers and strings of bytes, is proved to
be read back (`PbScalars`).

## Findings

1. `internal/client/client.go:106`: a kill during `SaveUIDMap` leaves an empty
   cache, which poisons every later run, as `main.go:137` sets out to avoid
   (`uidmap_claims`).
2. `scripts/bench.sh:492`: `first` is cleared before the first branch has
   fetched; if that fetch fails or is killed, the others reuse the cache of an earlier load
   (`uidmap_claims`).
3. `scripts/lib/alpha.sh:114`: `stop_alpha` does not wait for strays to exit, nor
   look for them when the managed alpha exits in time (`alphas_header`).
4. `scripts/lib/alpha.sh:171`: between the launch of an alpha and
   `RUNNING_ALPHA=1` a signal, or a pid file that cannot be written, leaves the alpha
   behind, as the EXIT trap looks at the flag only (`alphas_header`).
5. `neo/loader.go:152`: concurrent handlers lose properties of a node; the
   shuffling that is to keep them apart does not (`neo_contention`).
6. `scripts/bench.sh:296`: `.properties` is taken for a finished dataset although
   `prepare` writes the reference after it, and a cut RDF file for a finished one; a
   run that is started again after a kill logs `dataset ready` and goes on
   (`artifacts_resume`).
7. `twitterdata/stream/stream.go:82`: the writer is never flushed, so the last buffer
   is lost and the last line cut (`feeds`). The property says of `postprocess` too
   what the README of `twitterdata` does, and does not hold there either:
   the separator is written before the line is looked at (`postprocess.go:171`), so an
   array whose last lines are no tweets ends in a comma.
8. `scripts/verify/main.go:116`: `compare` drops the lines of the source behind the
   last of the destination, though `-out` is for the differences (`claims`).
9. `internal/oracle/oracle.go:47`: the oracle keeps the lightest of parallel arcs and
   dgraph is not told to; its comment says that they match (`claims`).
10. `cmd/prepare/main.go:415`: edges are rounded, the reference is computed from the
    unrounded ones; comments say that it can never disagree with the oracle
    (`claims`). Where no weight is lighter than the bound of
    `ReferenceConfirmed`, rounding keeps within the tolerance.
11. `bitmap/codec.go:316`: `LinearSeek` stops at a base equal to the uid sought,
    where its comment says less (`claims`).
12. `bitmap/codec.go:249`: `Seek(0, SeekCurrent)` includes uid 0, where its comment
    says that the uid sought is not among the results (`claims`).

`alphas_header` and `claims` each check that at least one of several promises is
kept (`HeaderHolds`, `SomeCommentHolds`), so that one counterexample refutes all of
them: in `alphas_header` a behaviour that breaks both, in `claims` an input for each.

Seen in the models and excepted in their properties, where no line of the repository
says otherwise: `LinearSeek` of the greatest uid never ends (`bitmap/codec.go:317`);
`convert` drops a last line without a line end (`convert/main.go:52`); the numbers of
`throughputtest` miss what is still in the channel, and may be of a slice that is
not sorted or has lost a latency (`throughPut.go:265`); `pending` wraps below zero in
`printCounters`, as ignored is loaded last (`neo/loader.go:57`); a failing poll ends
the sweep by `set -e`, where `bench.sh:484` skips a branch whose polls only find no
data; a rejected mutation can pass for a good one (`mutation.go:66`); two queries of
one suffix leave one file, or a mixture, in `-dest` (`replay/main.go:85`); a bench
that outlives its killed script may be answered by the alpha the next run starts for
another branch, and writes that under its own label (`bench.sh:508`).

Seen while reading, outside what is modelled: `kshortest.go:177` says the largest
frontier comes first, but the order is that of the flag and `bench.sh:41` passes
the smallest first; `postprocess.go:238` makes a slice of n empty URLs and then
appends n more; `postprocess.go:101` defers `alloc.Flush` before `db.Close`, so the
database is closed first; `convert` opens its output without truncating it;
in `cachebench` the adapters pad the key they set and not the key they get.

## Plan

The modules of the first plan are written, and every safety and action property
they state is proved but the two of `Conversions`. Those would need `PbWire`
rewritten without recursive operators (a message of depth d as a function of those
of depth d - 1), and an induction over that depth.

## Not modelled

`cmd/handprobe`, `download-ldbc.sh`, the format converters, the evaluation
scripts under `vector/` and the micro-benchmarks move data from one place to
another without state or concurrency that a model would shed light on; what
`cachebench` measures is decided in the caches, which are not in this repository.
`data/neo4j`, `loadtest` and `finder` have the shape of `MutationLoader`,
`LatencyFunnel` and `NeoLoader`'s parsers, without what makes those hard.
`calibrate.sh` and the matrix of `run-pr-comparison.sh` are loops over files.
Phases 1 and 2 of `bench.sh` check the machine and start processes that no one
stops. Of `bitmap/pb.pb.go` the getters, `String`, descriptors and gRPC stubs are
left out, and the types of other packages (`api`, badger's `pb`) are bytes.
Logging, progress lines, profiles (pprof) and
the layout of tables are left out everywhere. The data tables of `data/` and
`donors/` are not programs.
