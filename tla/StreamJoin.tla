----------------------------- MODULE StreamJoin -----------------------------
(***************************************************************************)
(* convert/main.go: one pass over film data that replaces an actor's edge  *)
(* to a performance and its edge to a film by one edge, and the same for   *)
(* "starring" and "performance.actor", whichever line comes first.  Each   *)
(* of its four maps keeps one value for a key.  "name" lines are copied by *)
(* the goroutine that reads, under the lock of the writer.                 *)
(*                                                                         *)
(* A line is its NQuad.                                                    *)
(***************************************************************************)
EXTENDS Naturals, Sequences, FiniteSets, SequencesExt

NQuad == [pred : STRING, sub : STRING, obj : STRING]

None == [k \in {} |-> k]
Put(map, key, value) == [k \in DOMAIN map \cup {key} |-> IF k = key THEN value ELSE map[k]]

(* for ... ReadString('\n'): what comes with io.EOF, a last line without a *)
(* line feed, is dropped.                                                  *)
ReadFile(lines, terminated) == IF terminated \/ lines = <<>> THEN lines ELSE Front(lines)

(* Mutant: an edge to a performance replaces the actor it waits for. *)
JoinLineForgetful(s, nq) ==
  CASE nq.pred = "performance.film" ->
         IF nq.sub \in DOMAIN s.actormp
         THEN [s EXCEPT !.out = Append(@, <<s.actormp[nq.sub], "acted_in", nq.obj>>)]
         ELSE s
    [] nq.pred = "actor.film" -> [s EXCEPT !.actormp = Put(@, nq.obj, nq.sub)]
    [] OTHER -> s

(* One NQuad of the channel: a second half whose first half is there is    *)
(* written at once, else it waits in r1 or r2.                             *)
JoinLine(s, nq) ==
  CASE nq.pred = "actor.film" -> [s EXCEPT !.actormp = Put(@, nq.obj, nq.sub)]
    [] nq.pred = "starring" -> [s EXCEPT !.starringmp = Put(@, nq.obj, nq.sub)]
    [] nq.pred = "performance.film" ->
         IF nq.sub \in DOMAIN s.actormp
         THEN [s EXCEPT !.out = Append(@, <<s.actormp[nq.sub], "acted_in", nq.obj>>)]
         ELSE [s EXCEPT !.r1 = Put(@, nq.sub, nq.obj)]
    [] nq.pred = "performance.actor" ->
         IF nq.sub \in DOMAIN s.starringmp
         THEN [s EXCEPT !.out = Append(@, <<s.starringmp[nq.sub], "actors", nq.obj>>)]
         ELSE [s EXCEPT !.r2 = Put(@, nq.sub, nq.obj)]
    [] nq.pred = "name" -> [s EXCEPT !.out = Append(@, <<nq.sub, "name", nq.obj>>)]
    [] OTHER -> s

Joined(lines) ==
  LET upto[k \in 0..Len(lines)] ==
        IF k = 0
        THEN [actormp |-> None, starringmp |-> None, r1 |-> None, r2 |-> None, out |-> <<>>]
        ELSE JoinLine(upto[k - 1], lines[k])
  IN upto[Len(lines)]

(* How often a line is in the output: as it was written, and from the      *)
(* halves that waited, in the order of their map, which is any.            *)
Output(lines, line) ==
  LET s == Joined(lines)
      Late(waiting, first, name) ==
        {k \in DOMAIN waiting \cap DOMAIN first : line = <<first[k], name, waiting[k]>>}
  IN Cardinality({i \in DOMAIN s.out : s.out[i] = line})
     + Cardinality(Late(s.r1, s.actormp, "acted_in"))
     + Cardinality(Late(s.r2, s.starringmp, "actors"))
=============================================================================
