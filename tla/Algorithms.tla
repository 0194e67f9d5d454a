----------------------------- MODULE Algorithms -----------------------------
(***************************************************************************)
(* The repository's pure algorithms, each compared with what it is to      *)
(* compute.  A behaviour holds one input and never changes: TLC evaluates  *)
(* every property on every input.                                          *)
(***************************************************************************)
EXTENDS UidCodec, Percentiles, ShortestReply, DiffMerge, TargetBand,
        RoadDataset, StreamJoin, FiniteSets

CONSTANTS
  Packs,        (* inputs of the codec: [uids, size]                       *)
  Samples,      (* sequences of latencies                                  *)
  Replies,      (* sequences of paths                                      *)
  Diffs,        (* pairs of sorted lists                                   *)
  Bands,        (* inputs of Band: [lo, hi, n]                             *)
  Networks,     (* [format, nodes, lines, source]: what cmd/prepare gets   *)
  Films         (* [lines, terminated]: what convert reads                 *)

(* main of scripts/verify sorts both lists before it compares them.        *)
SortedLists == {s \in Seq(Nat) : \A i, j \in DOMAIN s : i <= j => s[i] <= s[j]}

(* newList sorts the uids to be packed and keeps each of them once.        *)
UidLists == {s \in Seq(0..MaxUid) : \A i, j \in DOMAIN s : i < j => s[i] < s[j]}

ASSUME AlgorithmsAssumption ==
  /\ Packs \subseteq [uids : UidLists, size : Nat \ {0}]
  /\ Bands \subseteq [lo : Int, hi : Int, n : Nat \ {0}]
  /\ Samples \subseteq Seq(Nat) /\ Replies \subseteq Seq(Path)
  /\ Diffs \subseteq SortedLists \X SortedLists
  /\ \A network \in Networks :
       /\ \/ network.format = "dimacs" /\ network.lines \in Seq(ArcLine)
          \/ network.format = "csv" /\ {network.lines, network.nodes} \subseteq Seq(Row)
       /\ network.source \in Int
  /\ \A film \in Films : film.lines \in Seq(NQuad) /\ film.terminated \in BOOLEAN

VARIABLES algorithm, input
inputVars == <<algorithm, input>>

InputInit ==
  \/ algorithm = "codec" /\ input \in Packs
  \/ algorithm = "stats" /\ input \in Samples
  \/ algorithm = "reply" /\ input \in Replies
  \/ algorithm = "diff" /\ input \in Diffs
  \/ algorithm = "band" /\ input \in Bands
  \/ algorithm = "road" /\ input \in Networks
  \/ algorithm = "join" /\ input \in Films

InputNext == UNCHANGED inputVars
InputSpec == InputInit /\ [][InputNext]_inputVars
-----------------------------------------------------------------------------
Uids == 0..MaxUid
Pack == Encode(input.uids, input.size)
Rest(k) == SubSeq(input.uids, k + 1, Len(input.uids))

(* A list of uids packed and unpacked again is the list, whatever the      *)
(* upper halves, the size of the blocks and the padding; ExactLen is its   *)
(* length and ApproxLen, which sizes Decode's output, is no less.          *)
RoundTrip ==
  algorithm = "codec" =>
    /\ Decode(Pack, 0) = input.uids
    /\ ExactLen(Pack) = Len(input.uids)
    /\ ApproxLen(Pack, input.size) >= Len(input.uids)

(* Seek and then Next until nothing comes yields exactly the uids from     *)
(* there on, wherever the one sought falls: on a base, inside a block,     *)
(* between two, before the first or after the last.  (SeekCurrent from 0,  *)
(* which the code answers like SeekStart, apart.)                          *)
SeekExact ==
  algorithm = "codec" =>
    \A uid \in Uids, whence \in {SeekStart, SeekCurrent} :
      uid # 0 \/ whence = SeekStart =>
        \E k \in 0..Len(input.uids) :
          /\ Drained(Pack, Seek(Pack, uid, whence)) = Rest(k)
          /\ \A i \in DOMAIN input.uids : Beyond(input.uids[i], uid, whence) <=> i > k

(* LinearSeek comes to an end for every uid but the greatest, which it     *)
(* cannot tell from the end.  It stops at the last block whose base is not *)
(* beyond the uid, or does not move; so, started at a block that is not    *)
(* beyond it, it yields some of the uids before it and all from there on.  *)
LinearSeekFinds ==
  algorithm = "codec" =>
    \A seek \in Uids \ {MaxUid}, idx \in 0..NumBlocks(Pack) - 1 :
      /\ Stops(Pack, idx, seek) # {}
      /\ LET d == LinearSeek(Pack, idx, seek) IN
           /\ d.blockIdx = idx \/ Block(Pack, d.blockIdx).Base <= seek
           /\ \A i \in d.blockIdx + 1..NumBlocks(Pack) - 1 : Block(Pack, i).Base > seek
           /\ Block(Pack, idx).Base <= seek \/ idx = 0 =>
                \E k \in 0..Len(input.uids) :
                  /\ Drained(Pack, d) = Rest(k)
                  /\ \A i \in DOMAIN input.uids : input.uids[i] >= seek => i > k

(* LinearSeek stops at a block whose base is less than the uid sought,     *)
(* unless it does not move.                                                *)
LinearSeekBelow ==
  algorithm = "codec" =>
    \A seek \in Uids \ {MaxUid}, idx \in 0..NumBlocks(Pack) - 1 :
      LET d == LinearSeek(Pack, idx, seek)
      IN d.blockIdx = idx \/ Block(Pack, d.blockIdx).Base < seek

(* SeekCurrent takes the uid sought for an offset only: it is not among    *)
(* the results.                                                            *)
SeekCurrentExcludes ==
  algorithm = "codec" =>
    \A uid \in Uids : uid \notin Range(Drained(Pack, Seek(Pack, uid, SeekCurrent)))

(* The uid codec gives back what it was given and both searches find it:   *)
(* encode, decode, seek and linear search of codec.go agree on what a pack *)
(* holds.                                                                  *)
CodecExact == RoundTrip /\ SeekExact /\ LinearSeekFinds

-----------------------------------------------------------------------------
Nearest(s, v, q) == /\ v \in {s[i] : i \in DOMAIN s}
                    /\ 1000 * UpTo(s, v) >= q * Len(s)
                    /\ 1000 * Below(s, v) < q * Len(s)

(* Every percentile Summarize reports is the nearest-rank one: a sample    *)
(* which at least that share of the samples do not exceed, while fewer     *)
(* than that share are below it; so p50 to p99.9 are in order, and within  *)
(* the extremes, as the mean is.                                           *)
NearestRank ==
  algorithm = "stats" /\ input # <<>> =>
    LET s == Summarized(input)
    IN /\ Nearest(input, s.P50, 500) /\ Nearest(input, s.P95, 950)
       /\ Nearest(input, s.P99, 990) /\ Nearest(input, s.P999, 999)
       /\ s.Min <= s.P50 /\ s.P999 <= s.Max
       /\ s.Min <= s.Mean /\ s.Mean <= s.Max

-----------------------------------------------------------------------------
Trail(p) == <<p.uid>> \o [i \in DOMAIN p.hops |-> p.hops[i].uid]
Walkable(p, k) ==
  \A i \in 1..k : ~p.hops[i].malformed /\ p.hops[i].facet # Missing
Repeats(p) ==
  \E k \in 1..Len(p.hops), j \in 1..Len(p.hops) :
    /\ j <= k /\ Walkable(p, k)
    /\ Trail(p)[j] = Trail(p)[k + 1] /\ Trail(p)[j] # Missing
Cost(p) == Total([i \in DOMAIN p.hops |-> p.hops[i].facet])

(* The self-check of a reply needs no oracle and must be right about each  *)
(* path: SelfConsistent says that every path is linear, visits no vertex   *)
(* twice, carries all its facets and costs what it claims; Loopless that   *)
(* none returns to a vertex before its walk breaks off.                    *)
SelfCheckSound ==
  algorithm = "reply" /\ input # <<>> =>
    LET r == Shortest(input)
        simple == \A i \in DOMAIN input : ~Repeats(input[i])
    IN /\ r.Loopless = simple
       /\ r.SelfConsistent =
            /\ simple
            /\ \A i \in DOMAIN input :
                 /\ Walkable(input[i], Len(input[i].hops))
                 /\ input[i].weight \in {Missing, Cost(input[i])}
       /\ r.SelfConsistent /\ r.Distance # Inf =>
            \E i \in DOMAIN input : Cost(input[i]) = r.Distance

-----------------------------------------------------------------------------
Count(list, v) == Cardinality({i \in DOMAIN list : list[i] = v})

LinesOf(src, dst) == {src[i] : i \in DOMAIN src} \cup {dst[i] : i \in DOMAIN dst}
MoreOf(src, dst, v) == AtLeast(Count(src, v) - Count(dst, v), 0)

(* compare writes no line more often than the first list has more of it,   *)
(* however often lines occur in either; and of a line before the last of   *)
(* the second list it misses none.                                         *)
DiffExact ==
  algorithm = "diff" =>
    LET src == input[1]  dst == input[2]
        out == Compare(src, dst)
    IN \A v \in LinesOf(src, dst) :
         /\ Count(out, v) <= MoreOf(src, dst, v)
         /\ dst # <<>> /\ v < Last(dst) => Count(out, v) = MoreOf(src, dst, v)

(* What compare writes are the differences: all that the first list has    *)
(* more of.                                                                *)
OutputsDifferences ==
  algorithm = "diff" =>
    LET src == input[1]  dst == input[2]
    IN \A v \in LinesOf(src, dst) : Count(Compare(src, dst), v) = MoreOf(src, dst, v)

(* The slice reach[lo:hi] is never empty and never out of range, however   *)
(* the flags are set and however few vertices are reachable.               *)
InRange(b, n) == 0 <= b[1] /\ b[1] < b[2] /\ b[2] <= n
BandInRange ==
  algorithm = "band" => InRange(Band(input.lo, input.hi, input.n), input.n)

-----------------------------------------------------------------------------
Prepared == IF input.format = "dimacs" THEN ParseDIMACS(input.lines)
                                       ELSE ParseCSVZip(input.nodes, input.lines)
EdgeFile == WriteEdges(Prepared)
Props == ReadProperties(WriteProperties(Prepared, input.source))
Oracle == OracleGraph(EdgeFile, Props)
DgraphGraphs == Loaded(WriteRDF(EdgeFile, Props))
SameWeight(edges) ==
  \A i, j \in DOMAIN edges :
    edges[i].src = edges[j].src /\ edges[i].dst = edges[j].dst =>
      edges[i].weight = edges[j].weight

(* The graph the oracle searches is the one dgraph is loaded with, though  *)
(* one is read from .e and the other through triples: the same pairs, and  *)
(* the same weights unless the source has parallel arcs that differ, where *)
(* dgraph may hold a heavier one.  An undirected network can be travelled  *)
(* both ways at one price, and the source written is the source read.      *)
OneGraph ==
  algorithm = "road" /\ ~Prepared.err =>
    /\ Props.SourceVertex = input.source
    /\ \A g \in DgraphGraphs : /\ DOMAIN g = DOMAIN Oracle
                               /\ \A p \in DOMAIN g : Oracle[p] <= g[p]
    /\ SameWeight(EdgeFile) \/ ~Prepared.directed => DgraphGraphs = {Oracle}
    /\ ~Prepared.directed =>
         \A p \in DOMAIN Oracle : Oracle[<<p[2], p[1]>>] = Oracle[p]

(* The oracle's graph is what dgraph traverses, with the weights it has.   *)
MirrorsDgraph == algorithm = "road" /\ ~Prepared.err => DgraphGraphs = {Oracle}

(* The reference is computed from the weights as read, the graph is loaded *)
(* with rounded ones.  Even so an alpha that answers rightly is confirmed: *)
(* reachability always agrees, and distances are within the tolerance when *)
(* no weight is lighter than Tolerance + 1 units of the last digit.        *)
ReferenceConfirmed ==
  algorithm = "road" /\ ~Prepared.err =>
    LET ref == Reference(Prepared, input.source)
        nodes == ToSet(Prepared.vertices) \cup Ends(Oracle)
        answers == Distances(Oracle, nodes, input.source)
        heavy == \A i \in DOMAIN Prepared.edges :
                   Prepared.edges[i].weight >= Parts * (Tolerance + 1)
    IN ~ref.err =>
         /\ \A v \in DOMAIN ref.dist :
              (ref.dist[v] = Infinity) <=> (answers[v] = Infinity)
         /\ heavy => Validate(ref.dist, answers) = {}

(* The reference agrees with the distances on the oracle's graph, within   *)
(* the tolerance of cmd/validate.                                          *)
ReferenceAgrees ==
  algorithm = "road" /\ ~Prepared.err =>
    LET ref == Reference(Prepared, input.source)
        nodes == ToSet(Prepared.vertices) \cup Ends(Oracle)
    IN ~ref.err => Validate(ref.dist, Distances(Oracle, nodes, input.source)) = {}
-----------------------------------------------------------------------------
FilmLines == ReadFile(input.lines, input.terminated)
Having(pred) == {i \in DOMAIN FilmLines : FilmLines[i].pred = pred}
Meetings(first, second) ==
  {p \in Having(first) \X Having(second) : FilmLines[p[1]].obj = FilmLines[p[2]].sub}
ExpectedEdges(line) ==
  LET Between(pairs) ==
        {p \in pairs : FilmLines[p[1]].sub = line[1] /\ FilmLines[p[2]].obj = line[3]}
  IN CASE line[2] = "acted_in" -> Cardinality(Between(Meetings("actor.film", "performance.film")))
       [] line[2] = "actors" -> Cardinality(Between(Meetings("starring", "performance.actor")))
       [] line[2] = "name" -> Cardinality({i \in Having("name") :
                                <<FilmLines[i].sub, "name", FilmLines[i].obj>> = line})
OneOfSub(pred) == \A i, j \in Having(pred) : FilmLines[i].sub = FilmLines[j].sub => i = j
OneOfObj(pred) == \A i, j \in Having(pred) : FilmLines[i].obj = FilmLines[j].obj => i = j
OutputLines ==
  LET nodes == UNION {{FilmLines[i].sub, FilmLines[i].obj} : i \in DOMAIN FilmLines}
  IN nodes \X {"acted_in", "actors", "name"} \X nodes

(* convert writes an edge for every two lines it reads that meet in a      *)
(* performance, in whatever order they come, as long as each performance   *)
(* has one actor, one film and so on; where it has more the maps keep one  *)
(* of them, and edges are lost but none is made up.                        *)
JoinExact ==
  algorithm = "join" =>
    \A line \in OutputLines :
      /\ Output(FilmLines, line) <= ExpectedEdges(line)
      /\ /\ OneOfObj("actor.film") /\ OneOfSub("performance.film")
         /\ OneOfObj("starring") /\ OneOfSub("performance.actor")
         => Output(FilmLines, line) = ExpectedEdges(line)
=============================================================================
