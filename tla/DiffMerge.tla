----------------------------- MODULE DiffMerge ------------------------------
(***************************************************************************)
(* scripts/verify: compare merges two sorted lists of RDF lines, counts    *)
(* the lines they share and writes the lines only the first one has.  A    *)
(* line is a natural, its rank in the order of less.                       *)
(***************************************************************************)
EXTENDS Integers, Sequences

(* Mutant: the other list is advanced along with a line that is written. *)
RoundBoth(src, dst, at) ==
  IF at.ps > Len(src) \/ at.ds > Len(dst) THEN at
  ELSE LET s == src[at.ps]
           d == dst[at.ds]
       IN IF s <= d THEN [ps |-> at.ps + 1, ds |-> at.ds + 1,
                          buf |-> IF s = d THEN at.buf ELSE Append(at.buf, s)]
          ELSE [ps |-> at.ps, ds |-> at.ds + 1, buf |-> at.buf]

(* One round of the loop of compare, nothing once either list is at its    *)
(* end.                                                                    *)
Round(src, dst, at) ==
  IF at.ps > Len(src) \/ at.ds > Len(dst) THEN at
  ELSE LET s == src[at.ps]
           d == dst[at.ds]
       IN IF s = d THEN [ps |-> at.ps + 1, ds |-> at.ds + 1, buf |-> at.buf]
          ELSE IF s < d THEN [ps |-> at.ps + 1, ds |-> at.ds, buf |-> Append(at.buf, s)]
          ELSE [ps |-> at.ps, ds |-> at.ds + 1, buf |-> at.buf]

(* compare: what is written.  Every round leaves a line of either list     *)
(* behind, so there are no more rounds than lines.                         *)
Compare(src, dst) ==
  LET n == Len(src) + Len(dst)
      rounds[k \in 0..n] ==
        IF k = 0 THEN [ps |-> 1, ds |-> 1, buf |-> <<>>]
        ELSE Round(src, dst, rounds[k - 1])
  IN rounds[n].buf
=============================================================================
