-------------------------- MODULE MCKShortestSweep --------------------------
(* Instances of KShortestSweep for TLC.                                    *)
EXTENDS KShortestSweep, TLC

(* Seven vertices: two at the same distance, one unreachable, one that the *)
(* uid map lacks; the band keeps three of the four reachable, one of which *)
(* does not qualify, and the replies match the oracle for one of the others*)
(* and miss a path of the other.                                           *)
RefMC == (0 :> 0) @@ (1 :> 4) @@ (2 :> 4) @@ (3 :> 6) @@ (4 :> 9) @@ (5 :> Inf) @@ (6 :> 3)
OracleMC == (1 :> <<4, 5>>) @@ (2 :> <<4, 10, 11>>) @@ (3 :> <<6>>) @@ (4 :> <<9, 9>>)
             @@ (0 :> <<>>) @@ (5 :> <<>>) @@ (6 :> <<3, 4>>)
RepliesFew == {<<4, 5>>, <<4>>}
RepliesOne == {<<4, 5>>}
SweepMC == <<100, 0>>
(* FRONTIERS of bench.sh. *)
SweepBenchSh == <<100, 1000, 2000>>
=============================================================================
