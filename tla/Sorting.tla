------------------------------ MODULE Sorting -------------------------------
(***************************************************************************)
(* sort.Slice and sort.Float64s of a sequence of naturals, by what they    *)
(* do: at each place stands the value of that rank, which fewer values are *)
(* below than the place counts and no fewer are at or below.               *)
(***************************************************************************)
EXTENDS Integers, Sequences, FiniteSets

Below(s, v) == Cardinality({i \in DOMAIN s : s[i] < v})
UpTo(s, v) == Cardinality({i \in DOMAIN s : s[i] <= v})

InOrder(s) ==
  [k \in 1..Len(s) |->
     CHOOSE v \in {s[i] : i \in DOMAIN s} : Below(s, v) < k /\ k <= UpTo(s, v)]
=============================================================================
