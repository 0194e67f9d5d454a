-------------------------------- MODULE Sums --------------------------------
(***************************************************************************)
(* The sum of a sequence of naturals, as throughputtest adds up what came  *)
(* down a channel; a recursive function, so that it can be proved about.   *)
(***************************************************************************)
EXTENDS Naturals, Sequences

Total(s) ==
  LET upto[n \in 0..Len(s)] == IF n = 0 THEN 0 ELSE upto[n - 1] + s[n]
  IN upto[Len(s)]
=============================================================================
