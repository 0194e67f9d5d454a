----------------------------- MODULE UidMapCache ----------------------------
(***************************************************************************)
(* The graphalytics_id -> uid map and its cache file: FetchUIDMap,         *)
(* SaveUIDMap and LoadUIDMap of internal/client, their use in cmd/bench's  *)
(* main, and the scripts that decide when the cache is refreshed: bench.sh *)
(* (bulk loads, then passes -refresh-uidmap to the first branch that gets  *)
(* as far as the bench) and run-pr-comparison.sh (never refreshes).        *)
(*                                                                         *)
(* A bulk load assigns new uids: vertex v of load l has the uid <<l, v>>.  *)
(* The cache file is the function its lines define; a line cut short after *)
(* its tab gives the vertex the uid Torn, one cut before it is skipped.    *)
(***************************************************************************)
EXTENDS Integers, FiniteSets

CONSTANTS
  N,            (* number of vertices in the dataset                       *)
  PageSize,     (* 10000 in main                                           *)
  NumBranches,  (* branches per script run                                 *)
  MaxScripts,   (* bound: script runs                                      *)
  MaxLoads,     (* bound: bulk loads                                       *)
  Faults,       (* which of "kill", "alpha", "disk" can happen             *)
  NoFile,
  Torn

ASSUME UidMapAssumption ==
  /\ N \in Nat \ {0} /\ PageSize \in Nat \ {0}
  /\ Faults \subseteq {"kill", "alpha", "disk"}

VARIABLES
  load,         (* the bulk load p/ comes from                             *)
  script,       (* "idle" | "bench.sh" | "run-pr-comparison.sh"            *)
  scripts,      (* script runs so far                                      *)
  branch,       (* branches started in this script run                     *)
  first,        (* bench.sh's flag: no branch has refreshed yet            *)
  serving,      (* the alpha's tablets are queryable                       *)
  bench,        (* the bench process: "none" | "open" | "fetch" | "create" *)
                (* | "write" | "check" | "querying" | "emptyMap"           *)
  refresh,      (* -refresh-uidmap                                         *)
  fromCache,    (* this process took its map from the cache                *)
  offset,       (* FetchUIDMap's page offset                               *)
  uidMap,       (* the process's map                                       *)
  cache,        (* the cache file                                          *)
  cutShort      (* history: the writing of that file was cut short         *)

cacheVars == <<load, script, scripts, branch, first, serving, bench, refresh,
          fromCache, offset, uidMap, cache, cutShort>>

-----------------------------------------------------------------------------
VertexIds == 1..N
Uid(l, v) == <<l, v>>
UidsOf(l) == [v \in VertexIds |-> Uid(l, v)]
EmptyMap == [v \in {} |-> 0]
Limit(f, S) == [v \in S |-> f[v]]

(* One page: at most PageSize vertices after offset, none while the        *)
(* tablets are not served yet.                                             *)
Page == IF serving THEN {v \in VertexIds : offset < v /\ v <= offset + PageSize} ELSE {}

CacheInit ==
  /\ load = 1
  /\ script = "idle" /\ scripts = 0 /\ branch = 0 /\ first = FALSE
  /\ serving = FALSE
  /\ bench = "none" /\ refresh = FALSE /\ fromCache = FALSE /\ offset = 0
  /\ uidMap = EmptyMap
  /\ cache = NoFile /\ cutShort = FALSE

-----------------------------------------------------------------------------
(* bench.sh: phase 4 keeps p/ or bulk-loads it again, then first=1.        *)
StartBenchSh ==
  /\ script = "idle" /\ scripts < MaxScripts
  /\ script' = "bench.sh" /\ scripts' = scripts + 1
  /\ branch' = 0 /\ first' = TRUE
  /\ \/ load' = load
     \/ load < MaxLoads /\ load' = load + 1
  /\ UNCHANGED <<serving, bench, refresh, fromCache, offset, uidMap, cache,
                 cutShort>>

StartPrComparison ==
  /\ script = "idle" /\ scripts < MaxScripts
  /\ script' = "run-pr-comparison.sh" /\ scripts' = scripts + 1
  /\ branch' = 0 /\ first' = FALSE
  /\ UNCHANGED <<load, serving, bench, refresh, fromCache, offset, uidMap, cache,
                 cutShort>>

(* The build failed, the alpha stayed unhealthy or served no data.         *)
SkipBranch ==
  /\ script # "idle" /\ bench = "none" /\ branch < NumBranches
  /\ branch' = branch + 1
  /\ UNCHANGED <<load, script, scripts, first, serving, bench, refresh, fromCache,
                 offset, uidMap, cache, cutShort>>

(* A fresh alpha is up.  bench.sh has polled until data is served,         *)
(* run-pr-comparison.sh has only seen /health turn green.                  *)
StartBench ==
  /\ script # "idle" /\ bench = "none" /\ branch < NumBranches
  /\ branch' = branch + 1
  /\ IF script = "bench.sh" THEN serving' = TRUE ELSE serving' \in BOOLEAN
  /\ refresh' = first
  /\ first' = FALSE
  /\ bench' = "open" /\ fromCache' = FALSE /\ offset' = 0 /\ uidMap' = EmptyMap
  /\ UNCHANGED <<load, script, scripts, cache, cutShort>>

(* After the last branch, or earlier when a check of the binary dies.      *)
EndScript ==
  /\ script # "idle" /\ bench = "none"
  /\ script' = "idle"
  /\ UNCHANGED <<load, scripts, branch, first, serving, bench, refresh, fromCache,
                 offset, uidMap, cache, cutShort>>

TabletsReady ==
  /\ ~serving /\ bench # "none"
  /\ serving' = TRUE
  /\ UNCHANGED <<load, script, scripts, branch, first, bench, refresh, fromCache,
                 offset, uidMap, cache, cutShort>>

-----------------------------------------------------------------------------
(* main: LoadUIDMap unless -refresh-uidmap; any readable file is a map.    *)
OpenCache ==
  /\ bench = "open"
  /\ IF ~refresh /\ cache # NoFile
     THEN uidMap' = cache /\ fromCache' = TRUE /\ bench' = "check"
     ELSE bench' = "fetch" /\ UNCHANGED <<uidMap, fromCache>>
  /\ UNCHANGED <<load, script, scripts, branch, first, serving, refresh,
                 offset, cache, cutShort>>

(* Mutant: the page loop breaks after a full page too.                     *)
FetchPageOnce ==
  /\ bench = "fetch"
  /\ uidMap' = [v \in Page |-> Uid(load, v)]
  /\ bench' = IF Page = {} THEN "emptyMap" ELSE "create"
  /\ UNCHANGED <<load, script, scripts, branch, first, serving, refresh,
                 offset, fromCache, cache, cutShort>>

(* FetchUIDMap: stop at an empty page or a short one; main does not cache  *)
(* an empty map.                                                           *)
FetchPage ==
  /\ bench = "fetch"
  /\ LET seen == DOMAIN uidMap \cup Page IN
     /\ uidMap' = [v \in seen |-> IF v \in Page THEN Uid(load, v) ELSE uidMap[v]]
     /\ IF Page # {} /\ Cardinality(Page) = PageSize
        THEN offset' = offset + PageSize /\ UNCHANGED bench
        ELSE /\ bench' = IF seen = {} THEN "emptyMap" ELSE "create"
             /\ UNCHANGED offset
  /\ UNCHANGED <<load, script, scripts, branch, first, serving, refresh,
                 fromCache, cache, cutShort>>

(* Mutant: a failed page ends the loop like an empty one.                  *)
FetchFailsKeepsPages ==
  /\ "alpha" \in Faults
  /\ bench = "fetch"
  /\ bench' = IF uidMap = EmptyMap THEN "emptyMap" ELSE "create"
  /\ UNCHANGED <<load, script, scripts, branch, first, serving, refresh,
                 fromCache, offset, uidMap, cache, cutShort>>

(* A page query failed: log.Fatal.                                         *)
FetchFails ==
  /\ "alpha" \in Faults
  /\ bench = "fetch"
  /\ bench' = "none"
  /\ UNCHANGED <<load, script, scripts, branch, first, serving, refresh,
                 fromCache, offset, uidMap, cache, cutShort>>

(* SaveUIDMap: os.Create truncates the file in place ...                   *)
CreateCache ==
  /\ bench = "create"
  /\ cache' = EmptyMap /\ cutShort' = FALSE
  /\ bench' = "write"
  /\ UNCHANGED <<load, script, scripts, branch, first, serving, refresh,
                 fromCache, offset, uidMap>>

CreateFails ==
  /\ "disk" \in Faults
  /\ bench = "create"
  /\ bench' = "check"
  /\ UNCHANGED <<load, script, scripts, branch, first, serving, refresh,
                 fromCache, offset, uidMap, cache, cutShort>>

(* ... and the buffered writer reaches it in chunks, in map order; a chunk *)
(* can end within a line.                                                  *)
Readable == {v \in DOMAIN cache : cache[v] # Torn}

(* Mutant: the buffer is not flushed at the end, its last chunk is lost.   *)
WriteChunkNoFlush ==
  /\ bench = "write"
  /\ \E S \in SUBSET (DOMAIN uidMap \ Readable) :
       cache' = Limit(uidMap, Readable \cup S)
  /\ bench' = "check"
  /\ UNCHANGED <<load, script, scripts, branch, first, serving, refresh,
                 fromCache, offset, uidMap, cutShort>>

WriteChunk ==
  /\ bench = "write"
  /\ \E S \in SUBSET (DOMAIN uidMap \ Readable) :
       /\ S # {}
       /\ LET done == Readable \cup S
              rest == DOMAIN uidMap \ done
          IN  /\ \/ cache' = Limit(uidMap, done)
                 \/ \E t \in rest :
                      cache' = [v \in done \cup {t} |-> IF v = t THEN Torn ELSE uidMap[v]]
              /\ bench' = IF rest = {} THEN "check" ELSE "write"
  /\ UNCHANGED <<load, script, scripts, branch, first, serving, refresh,
                 fromCache, offset, uidMap, cutShort>>

(* The disk is full: the error of a write is only logged, that of the      *)
(* deferred Flush is dropped.  The process goes on with its own map.       *)
WriteFails ==
  /\ "disk" \in Faults
  /\ bench = "write"
  /\ bench' = "check"
  /\ cutShort' = TRUE
  /\ UNCHANGED <<load, script, scripts, branch, first, serving, refresh,
                 fromCache, offset, uidMap, cache>>

CheckMap ==
  /\ bench = "check"
  /\ bench' = IF uidMap = EmptyMap THEN "emptyMap" ELSE "querying"
  /\ UNCHANGED <<load, script, scripts, branch, first, serving, refresh,
                 fromCache, offset, uidMap, cache, cutShort>>

(* The bench run is over, or log.Fatal("uid map empty") ended it.          *)
BenchExits ==
  /\ bench \in {"querying", "emptyMap"}
  /\ bench' = "none"
  /\ UNCHANGED <<load, script, scripts, branch, first, serving, refresh,
                 fromCache, offset, uidMap, cache, cutShort>>

(* The bench process is killed; the script goes on with the next branch.   *)
BenchKilled ==
  /\ "kill" \in Faults
  /\ bench # "none"
  /\ bench' = "none"
  /\ cutShort' = (cutShort \/ bench = "write")
  /\ UNCHANGED <<load, script, scripts, branch, first, serving, refresh,
                 fromCache, offset, uidMap, cache>>

AllRunsOver ==
  /\ script = "idle" /\ scripts = MaxScripts
  /\ UNCHANGED cacheVars

Script == StartBenchSh \/ StartPrComparison \/ SkipBranch \/ StartBench \/ EndScript
Save == CreateCache \/ CreateFails \/ WriteChunk \/ WriteFails
Bench == OpenCache \/ FetchPage \/ FetchFails \/ Save \/ CheckMap \/ BenchExits

CacheNext == Script \/ Bench \/ TabletsReady \/ BenchKilled \/ AllRunsOver

CacheSpec == CacheInit /\ [][CacheNext]_cacheVars

(* A bench process that was started runs on, and so does its script.       *)
CacheFairSpec == CacheSpec /\ WF_cacheVars(Bench) /\ WF_cacheVars(Script)
-----------------------------------------------------------------------------
UidMaps == UNION {[S -> ((1..MaxLoads) \X VertexIds) \cup {Torn}] : S \in SUBSET VertexIds}

TypeOK ==
  /\ load \in 1..MaxLoads
  /\ script \in {"idle", "bench.sh", "run-pr-comparison.sh"}
  /\ scripts \in 0..MaxScripts /\ branch \in 0..NumBranches
  /\ first \in BOOLEAN /\ serving \in BOOLEAN
  /\ bench \in {"none", "open", "fetch", "create", "write", "check", "querying", "emptyMap"}
  /\ refresh \in BOOLEAN /\ fromCache \in BOOLEAN
  /\ offset \in 0..(N + PageSize)
  /\ uidMap \in UidMaps
  /\ cache \in UidMaps \cup {NoFile}
  /\ cutShort \in BOOLEAN

(* The queries name the uids the alpha's data has, and every vertex can be *)
(* sampled: what makes a run's verdicts mean anything.  Only a second bulk *)
(* load or a save that was cut short can take that away, no failing fetch, *)
(* no failing create and no kill at another moment.                        *)
RightUids ==
  bench = "querying" /\ load = 1 /\ ~cutShort => uidMap = UidsOf(load)

(* The file is whole except while it is being written, unless its writing  *)
(* was cut short by a kill or a full disk; and however saves and fetches   *)
(* are cut short, one file never mixes the uids of two bulk loads.         *)
CacheWhole ==
  cache # NoFile =>
    \E l \in 1..load :
      /\ bench # "write" /\ ~cutShort => cache = UidsOf(l)
      /\ \A v \in DOMAIN cache : cache[v] \in {Uid(l, v), Torn}

(* -refresh-uidmap is a cure for whatever the cache holds: a run that does *)
(* not take its map from the cache queries the uids of the current load.   *)
FetchedMapRight == bench = "querying" /\ ~fromCache => uidMap = UidsOf(load)

(* main's comment on not caching an empty map: no run starts from a cache  *)
(* that makes it (and every later one) fail.                               *)
NotPoisoned == ~(bench = "emptyMap" /\ fromCache)

(* bench.sh's comment: within a script run all branches after the first    *)
(* reuse a map of the same bulk load, cut short or not.                    *)
ReusedMapOfThisLoad ==
  script = "bench.sh" /\ bench = "querying" /\ fromCache =>
    \A v \in DOMAIN uidMap : uidMap[v] \in {Uid(load, v), Torn}

(* At least one of these two is true for good, however the scripts run.    *)
CacheTrusted == []NotPoisoned \/ []ReusedMapOfThisLoad
=============================================================================
