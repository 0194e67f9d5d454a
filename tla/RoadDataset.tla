---------------------------- MODULE RoadDataset -----------------------------
(***************************************************************************)
(* A road network on its way into the benchmark: cmd/prepare parses it and *)
(* writes .v, .e, .properties and the reference distances; cmd/convert     *)
(* turns .v and .e into triples for dgraph; cmd/bench builds its oracle    *)
(* from .e again; cmd/validate compares distances with the reference.      *)
(*                                                                         *)
(* A weight is a number of parts of 10^-6, Parts to each: FormatFloat(w,   *)
(* 'f', 6, 64) rounds it to whole ones.  Parts is odd, so nothing is half  *)
(* way between two.                                                        *)
(***************************************************************************)
EXTENDS Integers, Sequences, FiniteSets, SequencesExt

CONSTANTS
  Parts,        (* how finely a weight may be given                        *)
  Infinity,     (* math.Inf(+1), "infinity" in a file                      *)
  Tolerance     (* 1/epsilon: 10000 in the code                            *)

ASSUME RoadAssumption ==
  /\ Parts \in Nat /\ Parts % 2 = 1
  /\ Infinity \notin Int
  /\ Tolerance \in Nat \ {0}

Failed == [err |-> TRUE]
Rounded(w) == ((w + Parts \div 2) \div Parts) * Parts

-----------------------------------------------------------------------------
(* parseDIMACS.  A line is an arc "a", a problem line "p" with its number  *)
(* of vertices, a "bad" one of these, or anything "else".  The last        *)
(* problem line counts, and without any there are no vertices.             *)
ArcLine == [tag : {"p"}, n : Nat] \cup [tag : {"a"}, u : Int, v : Int, w : Int]
             \cup [tag : {"bad", "else"}]

ReadArcLine(d, l) ==
  CASE l.tag = "p" -> [n |-> l.n, edges |-> d.edges]
    [] l.tag = "a" /\ l.u # l.v ->
         [n |-> d.n, edges |-> Append(d.edges, [src |-> l.u, dst |-> l.v, weight |-> l.w])]
    [] OTHER -> d

ParseDIMACS(lines) ==
  LET read[k \in 0..Len(lines)] ==
        IF k = 0 THEN [n |-> 0, edges |-> <<>>] ELSE ReadArcLine(read[k - 1], lines[k])
      d == read[Len(lines)]
  IN IF (\E i \in DOMAIN lines : lines[i].tag = "bad") \/ d.n = 0 THEN Failed
     ELSE [err |-> FALSE, vertices |-> [i \in 1..d.n |-> i],
           edges |-> d.edges, directed |-> TRUE]

(* countCSVRows.  A row is "blank" (or begins with #), "short" of four     *)
(* columns, "bad" or a proper "row".                                       *)
Row == [tag : {"row"}, u : Int, v : Int, w : Int] \cup [tag : {"blank", "short", "bad"}]

CountCSVRows(rows) == Cardinality({i \in DOMAIN rows : rows[i].tag # "blank"})

(* parseCSVZip: a short row is passed over, a bad one ends it, and of the  *)
(* edges between two vertices the first is kept, whichever way round.      *)
KeepRow(edges, r) ==
  IF \/ r.tag # "row" \/ r.u = r.v
     \/ \E i \in DOMAIN edges : {edges[i].src, edges[i].dst} = {r.u, r.v}
  THEN edges
  ELSE Append(edges, [src |-> r.u, dst |-> r.v, weight |-> r.w])

ParseCSVZip(nodes, rows) ==
  LET kept[k \in 0..Len(rows)] == IF k = 0 THEN <<>> ELSE KeepRow(kept[k - 1], rows[k])
  IN IF \E i \in DOMAIN rows : rows[i].tag = "bad" THEN Failed
     ELSE [err |-> FALSE, vertices |-> [i \in 1..CountCSVRows(nodes) |-> i - 1],
           edges |-> kept[Len(rows)], directed |-> FALSE]

Reversed(e) == [src |-> e.dst, dst |-> e.src, weight |-> e.weight]

BothWays(edges, directed) ==
  IF directed THEN edges
  ELSE [k \in 1..2 * Len(edges) |->
          IF k % 2 = 1 THEN edges[(k + 1) \div 2] ELSE Reversed(edges[k \div 2])]

(* forEachEffectiveEdge: the edges of .e, and those the reference is from. *)
ForEachEffectiveEdge(ds) == BothWays(ds.edges, ds.directed)

(* writeEdges, and ScanEdges of what it wrote.                             *)
WriteEdges(ds) ==
  LET es == ForEachEffectiveEdge(ds)
  IN [i \in DOMAIN es |->
        [src |-> es[i].src, dst |-> es[i].dst, weight |-> Rounded(es[i].weight)]]

-----------------------------------------------------------------------------
(* oracle.Graph: the weight of each ordered pair that has an edge.         *)
NoEdges == [p \in {} |-> 0]

(* Mutant: the last of parallel edges is kept. *)
AddEdgeLast(g, e) ==
  IF e.src = e.dst THEN g
  ELSE [q \in DOMAIN g \cup {<<e.src, e.dst>>} |->
          IF q = <<e.src, e.dst>> THEN e.weight ELSE g[q]]

(* AddEdge: self-loops are dropped, the least of parallel edges is kept.   *)
AddEdge(g, e) ==
  LET p == <<e.src, e.dst>> IN
  IF e.src = e.dst \/ (p \in DOMAIN g /\ e.weight >= g[p]) THEN g
  ELSE [q \in DOMAIN g \cup {p} |-> IF q = p THEN e.weight ELSE g[q]]

Graph(edges) ==
  LET upto[k \in 0..Len(edges)] == IF k = 0 THEN NoEdges ELSE AddEdge(upto[k - 1], edges[k])
  IN upto[Len(edges)]

HasNegative(edges) == \E i \in DOMAIN edges : edges[i].weight < 0

Ends(g) == {p[1] : p \in DOMAIN g} \cup {p[2] : p \in DOMAIN g}
Least(S) == IF S = {} THEN Infinity ELSE CHOOSE x \in S : \A y \in S : x <= y

(* gonum's DijkstraFrom by what it computes: after k rounds the distances  *)
(* over paths of at most k edges.  Reached are the distances to v that are *)
(* known, and those over one edge more.                                    *)
Reached(dist, g, v) ==
  ({dist[v]} \ {Infinity}) \cup
  {dist[p[1]] + g[p] : p \in {q \in DOMAIN g : q[2] = v /\ dist[q[1]] # Infinity}}

Relaxed(dist, g, nodes) == [v \in nodes |-> Least(Reached(dist, g, v))]

Distances(g, nodes, src) ==
  LET from[k \in 0..Cardinality(nodes)] ==
        IF k = 0 THEN [v \in nodes |-> IF v = src THEN 0 ELSE Infinity]
        ELSE Relaxed(from[k - 1], g, nodes)
  IN from[Cardinality(nodes)]

(* main from the reference on: AddNode of every vertex, AddEdge of every   *)
(* effective edge, SSSP, writeSSSP.  A negative weight or a source that is *)
(* no vertex is fatal.                                                     *)
ReferenceFrom(edges, ds, source) ==
  LET g == Graph(edges)
      verts == ToSet(ds.vertices)
      dist == Distances(g, verts \cup Ends(g), source)
  IN IF HasNegative(edges) \/ source \notin verts \cup Ends(g) THEN Failed
     ELSE [err |-> FALSE,
           dist |-> [v \in verts |-> IF dist[v] = Infinity THEN Infinity
                                                           ELSE Rounded(dist[v])]]

(* Mutant: the oracle gets each edge as it was read. *)
ReferenceOneWay(ds, source) == ReferenceFrom(ds.edges, ds, source)

Reference(ds, source) == ReferenceFrom(ForEachEffectiveEdge(ds), ds, source)

-----------------------------------------------------------------------------
(* writeProperties, and ReadProperties of any such file: a source for bfs  *)
(* is used when none was read before it, or 0 was.                         *)
WriteProperties(ds, source) ==
  <<[key |-> "directed", val |-> ds.directed],
    [key |-> "weight-property", val |-> "weight"],
    [key |-> "sssp-source", val |-> source]>>

ReadPropertyLine(p, l) ==
  CASE l.key = "directed" -> [p EXCEPT !.Directed = l.val]
    [] l.key = "weight-property" -> [p EXCEPT !.WeightedSSSP = TRUE]
    [] l.key = "sssp-source" -> [p EXCEPT !.SourceVertex = l.val]
    [] l.key = "bfs-source" /\ p.SourceVertex = 0 -> [p EXCEPT !.SourceVertex = l.val]
    [] OTHER -> p

ReadProperties(lines) ==
  LET read[k \in 0..Len(lines)] ==
        IF k = 0 THEN [Directed |-> FALSE, WeightedSSSP |-> FALSE, SourceVertex |-> 0]
        ELSE ReadPropertyLine(read[k - 1], lines[k])
  IN read[Len(lines)]

(* writeRDF: the edge triples; those of an undirected dataset, whose .e    *)
(* has both directions already, are all written twice.                     *)
WriteRDF(edgeFile, props) == BothWays(edgeFile, props.Directed)

(* What dgraph holds after the bulk load: one edge for each ordered pair,  *)
(* with the weight of one of its triples, nothing says which.              *)
Loaded(triples) ==
  {g \in [{<<triples[i].src, triples[i].dst>> : i \in DOMAIN triples} ->
            {triples[i].weight : i \in DOMAIN triples}] :
     \A p \in DOMAIN g :
       \E i \in DOMAIN triples : <<triples[i].src, triples[i].dst>> = p /\ triples[i].weight = g[p]}

(* runKShortest, which reads .e once more for the oracle of TopK, and adds *)
(* each edge of an undirected one both ways.                               *)
OracleGraph(edgeFile, props) == Graph(BothWays(edgeFile, props.Directed))

-----------------------------------------------------------------------------
AbsDiff(a, b) == IF a < b THEN b - a ELSE a - b
RelativeTo(exp) == IF exp = 0 THEN Parts * 1000000 ELSE exp

(* cmd/validate: the vertices of the reference that the actual distances   *)
(* do not confirm.                                                         *)
Validate(expected, got) ==
  {v \in DOMAIN expected :
     \/ v \notin DOMAIN got
     \/ (expected[v] = Infinity) # (got[v] = Infinity)
     \/ /\ expected[v] # Infinity /\ got[v] # Infinity
        /\ AbsDiff(expected[v], got[v]) * Tolerance > RelativeTo(expected[v])}
=============================================================================
