---------------------------- MODULE CostVectors -----------------------------
(***************************************************************************)
(* internal/compare: the comparison of the oracle's vector of path costs   *)
(* with the vector Dgraph returned.  Costs are naturals or Inf; the        *)
(* relative tolerance is 1/TolInv, and errors are kept as fractions        *)
(* <<num, den>>, an infinite one as <<1, 0>>.                              *)
(***************************************************************************)
EXTENDS Integers, Sequences

CONSTANTS
  TolInv,
  Inf           (* math.Inf(+1)                                            *)

ASSUME CostVectorsAssumption == TolInv \in Nat \ {0}

AbsDiff(a, b) == IF a < b THEN b - a ELSE a - b

(* relErr: none between equals, infinite against an infinite cost, and     *)
(* otherwise |expected - got| over |expected|, or over 1 when that is 0.   *)
RelErr(expected, got) ==
  CASE expected = got -> <<0, 1>>
    [] expected # got /\ Inf \in {expected, got} -> <<1, 0>>
    [] OTHER -> <<AbsDiff(expected, got), IF expected = 0 THEN 1 ELSE expected>>

Larger(e, f) == e[1] * f[2] > f[1] * e[2]

(* worstRelErr: over the ranks both vectors have, 0 when there is none.    *)
Overlap(a, b) == 1..(IF Len(a) < Len(b) THEN Len(a) ELSE Len(b))
Errors(a, b) == {RelErr(a[i], b[i]) : i \in Overlap(a, b)} \cup {<<0, 1>>}
WorstRelErr(a, b) ==
  CHOOSE e \in Errors(a, b) : \A f \in Errors(a, b) : ~Larger(f, e)

(* Vectors: a different number of paths is reported before a wrong cost.   *)
Vectors(oracle, got) ==
  IF Len(oracle) # Len(got) THEN "count_mismatch"
  ELSE IF Larger(WorstRelErr(oracle, got), <<1, TolInv>>) THEN "weight_mismatch"
  ELSE "ok"
=============================================================================
