----------------------------- MODULE NeoPrinter ------------------------------
(***************************************************************************)
(* neo/loader.go, printCounters: once a second it prints how far the loader*)
(* of NeoLoader is.  It takes no lock: it loads the counters one after the *)
(* other while parsers and handlers go on raising them.                    *)
(***************************************************************************)
EXTENDS NeoLoader

CONSTANT
  Slow          (* bound: the files whose load lasts longer than a tick    *)

VARIABLES
  at,           (* the counter it loads next; 1: it waits for the ticker   *)
  seen          (* what it loaded last of each counter; between two ticks, *)
                (* the line printed last, whose processed is prev          *)

allVars == <<vars, at, seen>>
-----------------------------------------------------------------------------
(* Mutant: parsed is loaded first.                                         *)
LoadsParsedFirst == <<"parsed", "processed", "ignored">>

(* The order of the loads.                                                 *)
Loads == <<"processed", "parsed", "ignored">>

PInit ==
  /\ Init
  /\ at = 1
  /\ seen = [parsed |-> 0, processed |-> 0, ignored |-> 0]

(* One load.  Nothing is printed when processed is what it was, and no tick*)
(* comes when HandleRdfReader has returned.                                *)
Load ==
  /\ Alive
  /\ at = 1 => Lines \in Slow /\ main # "returned" /\ ctr.processed # seen.processed
  /\ seen' = [seen EXCEPT ![Loads[at]] = ctr[Loads[at]]]
  /\ at' = (at % 3) + 1
  /\ UNCHANGED vars

PNext == (Next /\ UNCHANGED <<at, seen>>) \/ Load

PSpec == PInit /\ [][PNext]_allVars /\ Fairness
-----------------------------------------------------------------------------
PTypeOK == at \in 1..3 /\ seen \in [{"parsed", "processed", "ignored"} -> Nat]

(* The line printed says pending = parsed - ignored - processed, unsigned. *)
(* As processed is loaded before parsed, it is ahead of it by one quad per *)
(* parser at most, those handled before they are counted.  But ignored is  *)
(* loaded last: pending drops below zero and wraps by that slack and by    *)
(* what is parsed between the loads of parsed and of ignored.              *)
PrintedSlack ==
  /\ at # 2 => seen.processed <= seen.parsed + Cardinality(Parsers)
  /\ at = 1 => seen.processed + seen.ignored <= ctr.parsed + Cardinality(Parsers)
=============================================================================
