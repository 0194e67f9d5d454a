------------------------------- MODULE Ledger -------------------------------
(***************************************************************************)
(* What a measuring run promises, whatever goroutines and channels it is   *)
(* built from: every sampled item is judged exactly once, and the report   *)
(* is published once, after the last judgement, with one count per verdict *)
(* that adds up to the sample.  BenchPool is shown to implement it.        *)
(***************************************************************************)
EXTENDS Integers, FiniteSets

CONSTANTS
  Verdicts,     (* the verdicts an item can get                            *)
  Undecided,    (* not judged yet                                          *)
  Unpublished   (* no report yet                                           *)

VARIABLES
  ledger,       (* item -> its verdict, or Undecided                       *)
  report        (* verdict -> count, or Unpublished                        *)

lvars == <<ledger, report>>

Items == DOMAIN ledger
Judged(v) == {i \in Items : ledger[i] = v}
Tally == [v \in Verdicts |-> Cardinality(Judged(v))]

LInit ==
  /\ \A i \in Items : ledger[i] = Undecided
  /\ report = Unpublished

Judge(i) ==
  /\ report = Unpublished
  /\ ledger[i] = Undecided
  /\ \E v \in Verdicts : ledger' = [ledger EXCEPT ![i] = v]
  /\ UNCHANGED report

Publish ==
  /\ report = Unpublished
  /\ \A i \in Items : ledger[i] \in Verdicts
  /\ report' = Tally
  /\ UNCHANGED ledger

LNext == Publish \/ \E i \in Items : Judge(i)

LSpec == LInit /\ [][LNext]_lvars
=============================================================================
