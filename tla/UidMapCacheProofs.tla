------------------------- MODULE UidMapCacheProofs --------------------------
(***************************************************************************)
(* Proofs about UidMapCache, for a dataset and pages of any size, and any  *)
(* number of script runs, branches, bulk loads and faults.                 *)
(***************************************************************************)
EXTENDS UidMapCache, FiniteSetTheorems, TLAPS

(* A bulk load waits for the scripts, so none happens under a bench run.   *)
LoadsApart ==
  /\ load \in Nat \ {0}
  /\ script = "idle" => bench = "none"

(* The pages a fetch has behind it: every vertex up to its offset, and     *)
(* once there is one, the alpha serves data for good.                      *)
FetchedSoFar ==
  /\ bench = "open" => offset = 0 /\ uidMap = EmptyMap /\ ~fromCache
  /\ bench = "fetch" =>
       /\ ~fromCache
       /\ offset \in Nat /\ (offset > 0 => serving)
       /\ uidMap = Limit(UidsOf(load), {v \in VertexIds : v <= offset})

(* The map of a process that has one: fetched whole, or a whole file's.    *)
MapOK ==
  /\ bench \in {"create", "write"} => ~fromCache
  /\ bench \in {"create", "write", "check", "querying"} /\ ~fromCache => uidMap = UidsOf(load)
  /\ bench \in {"check", "querying"} /\ fromCache /\ ~cutShort =>
       \E l \in 1..load : uidMap = UidsOf(l)

(* The file under way holds uids of the current load.                      *)
UnderWay ==
  bench = "write" =>
    /\ DOMAIN cache \subseteq VertexIds
    /\ \A v \in DOMAIN cache : cache[v] \in {Uid(load, v), Torn}

UidMapInv == LoadsApart /\ FetchedSoFar /\ MapOK /\ UnderWay /\ CacheWhole

-----------------------------------------------------------------------------
(* Two maps over the same vertices with the same uids are the same.        *)
LEMMA LimitAll == ASSUME NEW l PROVE Limit(UidsOf(l), VertexIds) = UidsOf(l)
  BY DEF Limit, UidsOf

(* The loop ends at an empty page or a short one, and then every vertex is *)
(* behind it, or the tablets were not served yet and none is.              *)
LEMMA LastPage ==
  ASSUME UidMapInv, bench = "fetch", ~(Page # {} /\ Cardinality(Page) = PageSize)
  PROVE  LET seen == DOMAIN uidMap \cup Page IN seen = {} \/ seen = VertexIds
<1>1. /\ offset \in Nat /\ (offset > 0 => serving)
      /\ DOMAIN uidMap = {v \in VertexIds : v <= offset}
  BY DEF UidMapInv, FetchedSoFar, Limit
<1>2. N \in Nat \ {0} /\ PageSize \in Nat \ {0} /\ VertexIds = 1..N
  BY UidMapAssumption DEF VertexIds
<1>3. CASE ~serving
  BY <1>1, <1>2, <1>3 DEF Page
<1>4. CASE serving
  <2>1. Page = {v \in 1..N : offset < v /\ v <= offset + PageSize}
    BY <1>4, <1>2 DEF Page
  <2>2. CASE offset + PageSize <= N
    <3>1. Page = (offset + 1)..(offset + PageSize)
      BY <2>1, <2>2, <1>1, <1>2
    <3>2. Cardinality(Page) = PageSize
      BY <3>1, <1>1, <1>2, FS_Interval
    <3>3. offset + 1 \in Page
      BY <3>1, <1>1, <1>2
    <3> QED
      BY <3>2, <3>3
  <2>3. CASE offset + PageSize > N
    <3>1. Page = {v \in 1..N : offset < v}
      BY <2>1, <2>3, <1>1, <1>2
    <3>2. \A v \in VertexIds : v <= offset \/ offset < v
      BY <1>1, <1>2
    <3> QED
      BY <3>1, <3>2, <1>1, <1>2
  <2> QED
    BY <2>2, <2>3, <1>1, <1>2
<1> QED
  BY <1>3, <1>4

(* A page adds the next vertices, with the uids of the current load.       *)
LEMMA PageAdds ==
  ASSUME UidMapInv, FetchPage
  PROVE  LET seen == DOMAIN uidMap \cup Page IN uidMap' = Limit(UidsOf(load), seen)
<1> DEFINE seen == DOMAIN uidMap \cup Page
<1>1. uidMap' = [v \in seen |-> IF v \in Page THEN Uid(load, v) ELSE uidMap[v]]
  BY DEF FetchPage
<1>2. DOMAIN uidMap \subseteq VertexIds /\ \A v \in DOMAIN uidMap : uidMap[v] = Uid(load, v)
  BY DEF FetchPage, UidMapInv, FetchedSoFar, Limit, UidsOf
<1>3. Page \subseteq VertexIds
  BY DEF Page
<1>4. \A v \in seen : (IF v \in Page THEN Uid(load, v) ELSE uidMap[v]) = UidsOf(load)[v]
  BY <1>2, <1>3 DEF UidsOf
<1> HIDE DEF seen
<1>5. uidMap' = [v \in seen |-> UidsOf(load)[v]]
  BY <1>1, <1>4
<1> QED
  BY <1>5 DEF Limit, seen

(* At the start there is neither a file nor a process.                     *)
LEMMA UidMapInvInit == CacheInit => UidMapInv
  BY DEF CacheInit, UidMapInv, LoadsApart, FetchedSoFar, MapOK, UnderWay, CacheWhole

(* FetchUIDMap ends with nothing or with everything.                       *)
LEMMA FetchPageStep == ASSUME UidMapInv, FetchPage PROVE UidMapInv'
<1> DEFINE seen == DOMAIN uidMap \cup Page
<1>1. /\ bench = "fetch" /\ uidMap' = Limit(UidsOf(load), seen)
      /\ UNCHANGED <<load, script, serving, fromCache, cache, cutShort>>
  BY PageAdds DEF FetchPage
<1>2. ~fromCache /\ load \in Nat \ {0} /\ script # "idle"
  BY <1>1 DEF UidMapInv, FetchedSoFar, LoadsApart
<1>3. /\ offset \in Nat /\ (offset > 0 => serving)
      /\ DOMAIN uidMap = {v \in VertexIds : v <= offset}
  BY <1>1 DEF UidMapInv, FetchedSoFar, Limit
<1>4. CacheWhole' /\ UnderWay'
  <2>1. bench' # "write"
    BY <1>1 DEF FetchPage
  <2> QED
    BY <1>1, <2>1 DEF UidMapInv, CacheWhole, UnderWay
<1>5. CASE Page # {} /\ Cardinality(Page) = PageSize
  <2>1. offset' = offset + PageSize /\ bench' = "fetch"
    BY <1>1, <1>5 DEF FetchPage
  <2>2. serving /\ Page = {v \in VertexIds : offset < v /\ v <= offset + PageSize}
    BY <1>5 DEF Page
  <2>3. seen = {v \in VertexIds : v <= offset'}
    BY <1>3, <2>1, <2>2, UidMapAssumption DEF VertexIds
  <2>4. offset' \in Nat
    BY <1>3, <2>1, UidMapAssumption
  <2> HIDE DEF seen
  <2> QED
    BY <1>1, <1>2, <1>4, <2>1, <2>2, <2>3, <2>4
    DEF UidMapInv, LoadsApart, FetchedSoFar, MapOK
<1>6. CASE ~(Page # {} /\ Cardinality(Page) = PageSize)
  <2>1. bench' = IF seen = {} THEN "emptyMap" ELSE "create"
    BY <1>6 DEF FetchPage
  <2>2. seen = {} \/ seen = VertexIds
    BY <1>1, <1>6, LastPage
  <2> HIDE DEF seen
  <2>3. bench' = "create" => uidMap' = UidsOf(load)
    BY <1>1, <2>1, <2>2, LimitAll
  <2> QED
    BY <1>1, <1>2, <1>4, <2>1, <2>3 DEF UidMapInv, LoadsApart, FetchedSoFar, MapOK
<1> QED
  BY <1>5, <1>6

(* The last chunk completes the file, every other adds lines of this load. *)
LEMMA WriteChunkStep == ASSUME UidMapInv, WriteChunk PROVE UidMapInv'
<1>1. /\ bench = "write" /\ uidMap = UidsOf(load) /\ ~fromCache /\ load \in Nat \ {0}
      /\ UNCHANGED <<load, script, serving, fromCache, offset, uidMap, cutShort>>
  BY DEF WriteChunk, UidMapInv, MapOK, LoadsApart
<1>2. DOMAIN uidMap = VertexIds /\ \A v \in VertexIds : uidMap[v] = Uid(load, v)
  BY <1>1 DEF UidsOf
<1>3. PICK S \in SUBSET (DOMAIN uidMap \ Readable) :
        LET done == Readable \cup S
            rest == DOMAIN uidMap \ done
        IN  /\ \/ cache' = Limit(uidMap, done)
               \/ \E t \in rest :
                    cache' = [v \in done \cup {t} |-> IF v = t THEN Torn ELSE uidMap[v]]
            /\ bench' = IF rest = {} THEN "check" ELSE "write"
  BY DEF WriteChunk
<1> DEFINE done == Readable \cup S
           rest == DOMAIN uidMap \ done
<1>4. done \subseteq VertexIds
  BY <1>1, <1>2 DEF UidMapInv, UnderWay, Readable
<1> HIDE DEF done
<1>5. /\ DOMAIN cache' \subseteq VertexIds
      /\ \A v \in DOMAIN cache' : cache'[v] \in {Uid(load, v), Torn}
  <2>1. CASE \E t \in rest :
               cache' = [v \in done \cup {t} |-> IF v = t THEN Torn ELSE uidMap[v]]
    BY <1>2, <1>4, <2>1
  <2>2. CASE cache' = Limit(uidMap, done)
    BY <1>2, <1>4, <2>2 DEF Limit
  <2> QED
    BY <1>3, <2>1, <2>2 DEF done
<1>6. bench' \in {"check", "write"} /\ (bench' = "check" => cache' = UidsOf(load))
  <2>1. bench' \in {"check", "write"} /\ (bench' = "check" => rest = {})
    BY <1>3 DEF done
  <2>2. rest = {} => done = VertexIds
    BY <1>2, <1>4
  <2>3. rest = {} => cache' = Limit(uidMap, done)
    BY <1>3 DEF done
  <2> QED
    BY <1>1, <2>1, <2>2, <2>3, LimitAll
<1>7. CacheWhole'
  <2>1. load \in 1..load'
    BY <1>1
  <2> QED
    BY <1>1, <1>5, <1>6, <2>1 DEF CacheWhole
<1> QED
  BY <1>1, <1>5, <1>6, <1>7 DEF UidMapInv, LoadsApart, FetchedSoFar, MapOK, UnderWay

(* Every step of the scripts and of the bench process keeps it.            *)
LEMMA UidMapInvStep == UidMapInv /\ [CacheNext]_cacheVars => UidMapInv'
<1> SUFFICES ASSUME UidMapInv, [CacheNext]_cacheVars PROVE UidMapInv'
  OBVIOUS
<1>1. CASE FetchPage
  BY <1>1, FetchPageStep
<1>2. CASE WriteChunk
  BY <1>2, WriteChunkStep
<1>3. CASE CreateCache
  <2>1. /\ bench = "create" /\ bench' = "write" /\ cache' = EmptyMap
        /\ UNCHANGED <<load, script, fromCache, offset, uidMap>>
    BY <1>3 DEF CreateCache
  <2>2. load \in 1..load' /\ DOMAIN cache' = {}
    BY <2>1 DEF UidMapInv, LoadsApart, EmptyMap
  <2>3. CacheWhole' /\ UnderWay'
    BY <2>1, <2>2 DEF CacheWhole, UnderWay
  <2> QED
    BY <2>1, <2>3 DEF UidMapInv, LoadsApart, FetchedSoFar, MapOK
<1>4. CASE OpenCache
  <2>1. /\ bench = "open" /\ ~fromCache /\ uidMap = EmptyMap /\ offset = 0
        /\ UNCHANGED <<load, script, serving, offset, cache, cutShort>>
    BY <1>4 DEF OpenCache, UidMapInv, FetchedSoFar
  <2>2. CASE ~refresh /\ cache # NoFile
    <3>1. uidMap' = cache /\ fromCache' = TRUE /\ bench' = "check"
      BY <1>4, <2>2 DEF OpenCache
    <3>2. ~cutShort => \E l \in 1..load : cache = UidsOf(l)
      BY <2>1, <2>2 DEF UidMapInv, CacheWhole
    <3> QED
      BY <2>1, <3>1, <3>2
      DEF UidMapInv, LoadsApart, FetchedSoFar, MapOK, UnderWay, CacheWhole
  <2>3. CASE ~(~refresh /\ cache # NoFile)
    <3>1. bench' = "fetch" /\ UNCHANGED <<uidMap, fromCache>>
      BY <1>4, <2>3 DEF OpenCache
    <3>2. {v \in VertexIds : v <= 0} = {}
      BY UidMapAssumption DEF VertexIds
    <3>3. uidMap' = Limit(UidsOf(load'), {v \in VertexIds : v <= offset'})
      BY <2>1, <3>1, <3>2 DEF EmptyMap, Limit
    <3> QED
      BY <2>1, <3>1, <3>3
      DEF UidMapInv, LoadsApart, FetchedSoFar, MapOK, UnderWay, CacheWhole
  <2> QED
    BY <2>2, <2>3
<1>5. CASE StartBenchSh
  <2>1. /\ bench = "none" /\ bench' = "none" /\ load' \in Nat \ {0} /\ load' >= load
        /\ UNCHANGED <<cache, cutShort>>
    BY <1>5 DEF StartBenchSh, UidMapInv, LoadsApart
  <2>2. \A l \in 1..load : l \in 1..load'
    BY <2>1 DEF UidMapInv, LoadsApart
  <2>3. CacheWhole'
    BY <2>1, <2>2 DEF UidMapInv, CacheWhole
  <2> QED
    BY <2>1, <2>3 DEF UidMapInv, LoadsApart, FetchedSoFar, MapOK, UnderWay
<1> USE DEF UidMapInv, LoadsApart, FetchedSoFar, MapOK, UnderWay, CacheWhole
<1>6. CASE StartPrComparison \/ SkipBranch \/ EndScript
  BY <1>6 DEF StartPrComparison, SkipBranch, EndScript
<1>7. CASE StartBench
  BY <1>7 DEF StartBench
<1>8. CASE TabletsReady
  BY <1>8 DEF TabletsReady
<1>9. CASE FetchFails
  BY <1>9 DEF FetchFails
<1>10. CASE CreateFails
  BY <1>10 DEF CreateFails
<1>11. CASE WriteFails
  BY <1>11 DEF WriteFails
<1>12. CASE CheckMap
  BY <1>12 DEF CheckMap
<1>13. CASE BenchExits
  BY <1>13 DEF BenchExits
<1>14. CASE BenchKilled
  BY <1>14 DEF BenchKilled
<1>15. CASE UNCHANGED cacheVars
  BY <1>15 DEF cacheVars
<1> QED
  BY <1>1, <1>2, <1>3, <1>4, <1>5, <1>6, <1>7, <1>8, <1>9, <1>10, <1>11, <1>12, <1>13,
     <1>14, <1>15
  DEF CacheNext, Script, Bench, Save, AllRunsOver

(* A bench run queries the uids the alpha's data has, unless there was a   *)
(* second bulk load or a save that was cut short; one that fetched its map *)
(* always does; and outside of a save the file is a whole map of one load. *)
THEOREM UidMapIsRight == CacheSpec => [](RightUids /\ FetchedMapRight /\ CacheWhole)
<1>1. UidMapInv => RightUids /\ FetchedMapRight /\ CacheWhole
  BY DEF UidMapInv, MapOK, RightUids, FetchedMapRight
<1> QED
  BY <1>1, UidMapInvInit, UidMapInvStep, PTL DEF CacheSpec
=============================================================================
