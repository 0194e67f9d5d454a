--------------------------- MODULE MCBranchSweep ----------------------------
(* Instances of BranchSweep for TLC.                                       *)
EXTENDS BranchSweep

SweepBranches == <<"main", "pr">>
=============================================================================
