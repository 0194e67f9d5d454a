---------------------------- MODULE MCBenchPool -----------------------------
(* Instances of BenchPool for TLC.                                         *)
EXTENDS BenchPool, TLC

(* Five targets against channels of four places, so that the feeder and a  *)
(* worker both find a channel full; zero, finite and infinite references,  *)
(* and a vertex the uid map lacks.                                         *)
RefMixed ==
  (0 :> 0) @@ (1 :> 0) @@ (2 :> 10) @@ (3 :> Inf) @@ (4 :> 10) @@ (5 :> 10) @@ (6 :> 10)
=============================================================================
