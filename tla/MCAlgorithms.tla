---------------------------- MODULE MCAlgorithms ----------------------------
(* Bounded inputs for Algorithms and Conversions, and the inputs that      *)
(* refute what comments say of the algorithms.                             *)
EXTENDS Conversions

(* Every set of uids, in order, in blocks of one to four.                  *)
PacksMC ==
  {[uids |-> SelectSeq([i \in 1..MaxUid + 1 |-> i - 1], LAMBDA v : v \in S),
    size |-> k] :
     S \in SUBSET (0..MaxUid), k \in 1..4}

(* All short sequences, and long ones where the ranks of p95 and p99 change.*)
SamplesMC ==
  UNION {[1..n -> 0..2] : n \in 0..4}
    \cup {[i \in 1..n |-> 2 * n - i] : n \in {19, 20, 21, 99, 100, 101}}

VerticesMC == {"a", "b"}
Costs == {1, 2, 3, Missing}
Hops ==
  {[malformed |-> TRUE, facet |-> Missing, uid |-> Missing]} \cup
  {[malformed |-> FALSE, facet |-> f, uid |-> u] :
     f \in {1, Missing}, u \in {"a", "b", Missing}}
Paths ==
  {[uid |-> u, weight |-> w, hops |-> h] : u \in {"a", Missing}, w \in Costs,
     h \in UNION {[1..n -> Hops] : n \in 0..3}}
TwoHops ==
  {p \in Paths : p.uid = "a" /\ p.weight # 3 /\ Len(p.hops) = 2
                   /\ p.hops[1].facet = 1 /\ p.hops[1].uid # "a"}
RepliesMC == {<<>>} \cup {<<p>> : p \in Paths} \cup (TwoHops \X TwoHops)

Ascending == {s \in UNION {[1..n -> 1..4] : n \in 0..4} :
                \A i \in 1..Len(s) - 1 : s[i] <= s[i + 1]}
DiffsMC == Ascending \X Ascending

BandsMC == [lo : -2..6, hi : -2..6, n : 1..4]
-----------------------------------------------------------------------------
(* A few values of each kind: those where a varint grows by a byte, the    *)
(* greatest and the negative ones.                                         *)
RECURSIVE Values(_, _), Singles(_, _)
Values(f, depth) ==
  LET kind == f.kind IN
  CASE kind = "uint64" -> {1, 127, 128, Wide - 1}
    [] kind = "int64"  -> {1, -1}
    [] kind = "uint32" -> {127, Narrow - 1}
    [] kind = "int32"  -> {1, -1}
    [] kind = "bool"   -> {TRUE}
    [] kind = "fixed64" -> {<<1, 0, 0, 0, 0, 0, 0, 255>>}
    [] kind = "bytes" -> {<<0>>, <<200, 0>>, [i \in 1..130 |-> 1]}
    [] kind = "list of bytes" -> {<< <<>> >>, << <<1>>, <<>> >>}
    [] kind = "message" ->
         {<<m>> : m \in {Empty(f.of)} \cup (IF depth = 0 THEN {} ELSE Singles(f.of, depth - 1))}
    [] kind = "list of messages" ->
         {<<Empty(f.of), m>> : m \in {Empty(f.of)} \cup (IF depth = 0 THEN {} ELSE Singles(f.of, depth - 1))}
    [] kind = "packed" ->
         IF f.of = "fixed64" THEN {<<Zero("fixed64"), [i \in 1..8 |-> i]>>} ELSE {<<0>>, <<1, 200>>}
    [] kind = "map" ->
         UNION {{(k :> v), (k :> v) @@ (Zero(f.key.kind) :> Zero(f.value.kind))} :
            k \in Values(f.key, depth), v \in Values(f.value, depth)}

Singles(name, depth) ==
  IF name \notin DOMAIN Schemas THEN {<<>>, <<1, 2>>}
  ELSE UNION {{[Empty(name) EXCEPT ![f.name] = v] : v \in Values(f, depth)} : f \in Schemas[name]}

Full(name) ==
  [n \in {f.name : f \in Schemas[name]} |->
     CHOOSE v \in Values(CHOOSE f \in Schemas[name] : f.name = n, 0) : TRUE]

WrittenMC ==
  UNION {{[name |-> n, msg |-> m] : m \in {Empty(n), Full(n)} \cup Singles(n, 0)} :
           n \in DOMAIN Schemas}
  \cup UNION {{[name |-> n, msg |-> m] : m \in Singles(n, 1)} :
           n \in {"Facets", "UidPack", "Group", "SortResult", "TxnStatus", "SchemaUpdate"}}

(* Types that between them have a field of every kind, and for each the    *)
(* bytes that make up its tags, short lengths and long numbers; the same   *)
(* behind the tag of a field nobody knows, of each wire type.              *)
Tags(name) == {8 * f.number + w : f \in Schemas[name], w \in {0, 2}}
Bytes2(S) == UNION {[1..k -> S] : k \in 0..2}
BuffersMC ==
  UNION {{[name |-> n, buf |-> b] :
            b \in UNION {[1..k -> {0, 1, 2, 128, 255} \cup {t \in Tags(n) : t < 28}] : k \in 0..3}} :
           n \in {"UidBlock", "PostingList", "Metadata", "TypeUpdate"}}
  \cup
  {[name |-> "UidBlock", buf |-> <<160 + w, 6>> \o b] :
     w \in 0..7, b \in Bytes2({0, 1, 2, 8, 128, 164, 255})}
  \cup
  {[name |-> "UidBlock", buf |-> <<163, 6>> \o b \o <<164, 6>>] :
     b \in Bytes2({1, 3, 4, 8, 12})}

(* Two or three lines about three vertices, with weights on both sides of  *)
(* where rounding is within the tolerance.                                 *)
RoadWeights == {1, 2, 10, 11}
Edges(V) == [tag : {"a", "row"}, u : V, v : V, w : RoadWeights]
RoadLines(tag, V) == {e \in Edges(V) : e.tag = tag}
NetworksMC ==
  {[format |-> "dimacs", nodes |-> <<>>, source |-> s,
    lines |-> <<[tag |-> "p", n |-> k]>> \o b] :
     s \in {1, 3}, k \in {2, 3},
     b \in (RoadLines("a", {1, 2}) \X RoadLines("a", {1, 2})) \cup
           {<<a, x>> : a \in RoadLines("a", {1, 2}), x \in {[tag |-> "bad"], [tag |-> "else"]}} \cup
           ({e \in RoadLines("a", 1..3) : e.u < e.v} \X {e \in RoadLines("a", 1..3) : e.u < e.v})}
  \cup
  {[format |-> "csv", source |-> s, lines |-> b,
    nodes |-> <<[tag |-> "blank"]>> \o [i \in 1..k |-> [tag |-> "short"]]] :
     s \in {0, 2}, k \in {2, 3},
     b \in (RoadLines("row", {0, 1}) \X RoadLines("row", 1..2)) \cup
           {<<r, x, r>> : r \in RoadLines("row", {0, 1}), x \in {[tag |-> "bad"], [tag |-> "short"]}} \cup
           {<<r, x, r>> : r \in RoadLines("row", {0, 1}), x \in RoadLines("row", {0, 1})}}
-----------------------------------------------------------------------------
(* Up to four lines about two performances, with two actors and a film.    *)
FilmLine ==
  [pred : {"actor.film"}, sub : {"a", "b"}, obj : {"p", "q"}] \cup
  [pred : {"performance.film"}, sub : {"p", "q"}, obj : {"f"}] \cup
  [pred : {"starring"}, sub : {"f"}, obj : {"p"}] \cup
  [pred : {"performance.actor"}, sub : {"p"}, obj : {"a"}] \cup
  [pred : {"name", "genre"}, sub : {"f"}, obj : {"b"}]
FilmsMC == [lines : UNION {[1..n -> FilmLine] : n \in 0..3}, terminated : BOOLEAN] \cup
           [lines : [1..4 -> {l \in FilmLine : l.pred \in {"actor.film", "performance.film"}}],
            terminated : {TRUE}]
-----------------------------------------------------------------------------
(* One input each: a source that goes on behind the destination's last     *)
(* line; parallel arcs; arcs of less than a unit of the sixth decimal,     *)
(* which the writer rounds one by one and the reference when added up; and *)
(* uids that are all bases of blocks, 0 among them.                        *)
LongerSource == {<< <<1, 2>>, <<1>> >>}
Dimacs(b) ==
  [format |-> "dimacs", nodes |-> <<>>, source |-> 1, lines |-> <<[tag |-> "p", n |-> 3]>> \o b]
Arc(x, y, units) == [tag |-> "a", u |-> x, v |-> y, w |-> units]
OddNetworks == {Dimacs(<<Arc(1, 2, 3), Arc(1, 2, 9)>>), Dimacs(<<Arc(1, 2, 2), Arc(2, 3, 2)>>)}
Bases == {[uids |-> <<0, 1, 2>>, size |-> 1]}

(* Algorithms for one input.                                               *)
On(a, x) == INSTANCE Algorithms WITH algorithm <- a, input <- x

(* At least one of these comments is true of all inputs: the flag -out of  *)
(* scripts/verify; internal/oracle on the graph it shares with dgraph;     *)
(* cmd/prepare on the reference; codec.go on LinearSeek and on SeekCurrent.*)
SomeCommentHolds ==
  \/ \A d \in Diffs : On("diff", d)!OutputsDifferences
  \/ \A n \in Networks : On("road", n)!MirrorsDgraph
  \/ \A n \in Networks : On("road", n)!ReferenceAgrees
  \/ \A p \in Packs : On("codec", p)!LinearSeekBelow
  \/ \A p \in Packs : On("codec", p)!SeekCurrentExcludes
=============================================================================
