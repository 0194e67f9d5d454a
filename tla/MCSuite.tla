------------------------------ MODULE MCSuite ------------------------------
(***************************************************************************)
(* One instance for the parts of the repository that run alone and are     *)
(* small: a behaviour is of one of the Programs, or of the uid map.  The   *)
(* state spaces add up, they do not multiply: the variables of the others  *)
(* are at rest.                                                            *)
(***************************************************************************)
EXTENDS MCPrograms, UidMapCache

SuiteInit == CacheInit /\ (Init \/ (program = "uidmap" /\ OthersIdle))

SuiteNext ==
  \/ Next /\ UNCHANGED cacheVars
  \/ program = "uidmap" /\ CacheNext /\ UNCHANGED vars

SuiteSpec == SuiteInit /\ [][SuiteNext]_<<vars, cacheVars>>
=============================================================================
