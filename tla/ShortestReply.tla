--------------------------- MODULE ShortestReply ----------------------------
(***************************************************************************)
(* internal/client: what Shortest makes of the paths in a reply.  A path   *)
(* is its first vertex, the cost it claims and its hops, one nested in the *)
(* other; a hop is malformed or leads over an edge facet to a vertex.  Any *)
(* facet, vertex or cost may be Missing.  Costs are naturals, so the code's*)
(* tolerance for the summation of floats is equality.                      *)
(***************************************************************************)
EXTENDS Integers, Sequences, Sorting

CONSTANTS Vertices, Missing, Inf

ASSUME ShortestReplyAssumption == Missing \notin Nat /\ Missing \notin Vertices

Hop == [malformed : BOOLEAN, facet : Nat \cup {Missing}, uid : Vertices \cup {Missing}]
Path == [uid : Vertices \cup {Missing}, weight : Nat \cup {Missing}, hops : Seq(Hop)]

(* Mutant: the first vertex is not taken for seen. *)
StandingRootUnseen(p) ==
  [total |-> 0, seen |-> {}, noLoop |-> TRUE, ok |-> TRUE, halted |-> FALSE]

(* walkPath: before the first hop.                                         *)
Standing(p) ==
  [total |-> 0, seen |-> {p.uid} \ {Missing}, noLoop |-> TRUE, ok |-> TRUE, halted |-> FALSE]

(* walkPath: one hop down, until one is malformed, lacks its facet or      *)
(* leads back to a vertex seen before.                                     *)
Walked(w, h) ==
  IF w.halted THEN w
  ELSE IF h.malformed \/ h.facet = Missing
  THEN [w EXCEPT !.halted = TRUE, !.ok = FALSE]
  ELSE IF h.uid \in w.seen
  THEN [w EXCEPT !.halted = TRUE, !.noLoop = FALSE, !.total = @ + h.facet]
  ELSE [w EXCEPT !.total = @ + h.facet, !.seen = @ \cup ({h.uid} \ {Missing})]

WalkPath(p) ==
  LET walk[k \in 0..Len(p.hops)] ==
        IF k = 0 THEN Standing(p) ELSE Walked(walk[k - 1], p.hops[k])
  IN walk[Len(p.hops)]

Reported(p) == p.weight # Missing
Weights(paths) ==
  LET upto[k \in 0..Len(paths)] ==
        IF k = 0 THEN <<>>
        ELSE IF Reported(paths[k]) THEN Append(upto[k - 1], paths[k].weight)
        ELSE upto[k - 1]
  IN InOrder(upto[Len(paths)])

(* Shortest, of a reply that decodes.  Without a path both flags are left  *)
(* at their zero value.                                                    *)
Shortest(paths) ==
  LET walks == [i \in DOMAIN paths |-> WalkPath(paths[i])]
      w == Weights(paths)
  IN [Distance       |-> IF w = <<>> THEN Inf ELSE Head(w),
      Weights        |-> w,
      PathCount      |-> Len(paths),
      SelfConsistent |->
        /\ paths # <<>>
        /\ \A i \in DOMAIN paths :
             /\ walks[i].ok /\ walks[i].noLoop
             /\ Reported(paths[i]) => walks[i].total = paths[i].weight,
      Loopless       |->
        paths # <<>> /\ \A i \in DOMAIN paths : walks[i].noLoop]
=============================================================================
