--------------------------- MODULE KShortestSweep ---------------------------
(***************************************************************************)
(* cmd/bench in kshortest mode: bandedTargets and runKShortest.  For every *)
(* maxfrontiersize of the sweep, every qualified target is queried once    *)
(* and its cost vector compared with the oracle's; after each frontier     *)
(* writeJSON replaces the result file through a temporary one.  The        *)
(* process can be killed between any two steps and started again with the  *)
(* same -out, and the alpha it measures can die under it.                  *)
(***************************************************************************)
EXTENDS CostVectors, TargetBand, FiniteSets, SequencesExt

CONSTANTS
  Ref,          (* reference SSSP output: vertex -> distance or Inf         *)
  Source,       (* the dataset's source vertex                             *)
  UidMapped,    (* the vertices the uid map knows                          *)
  Oracle,       (* vertex -> the oracle's sorted cost vector, TopK          *)
  BandLo,       (* -band-lo and -band-hi, in thousandths                   *)
  BandHi,
  SampleSize,   (* -targets                                                *)
  Frontiers,    (* -frontiers, the sweep in the order given                *)
  Replies,      (* the cost vectors an alpha may answer with               *)
  MaxStarts,    (* bound: how often the process is started                 *)
  NoFile,       (* no file at that path                                    *)
  Partial       (* a file whose encoding was cut short                     *)

(* parseFrontiers does not return an empty list.                           *)
ASSUME FrontiersAssumption == Frontiers \in Seq(Int) /\ Frontiers # <<>>

VARIABLES
  qualified,    (* targets with at least two oracle paths                  *)
  pc,           (* "query" | "create" | "encode" | "rename" | "done" |      *)
                (* "fatal" | "killed"                                      *)
  fr,           (* index of the frontier being swept                       *)
  stat,         (* its kFrontierStat                                       *)
  frontiers,    (* res.Frontiers                                           *)
  tmp,          (* <path>.tmp: NoFile, Partial or a whole result            *)
  file,         (* <path>: NoFile, or the result it holds                  *)
  alphaUp,      (* the alpha answers                                       *)
  starts        (* process starts so far                                   *)

vars == <<qualified, pc, fr, stat, frontiers, tmp, file, alphaUp, starts>>

-----------------------------------------------------------------------------
Vertices == DOMAIN Ref

(* The reachable vertices in order of distance, ties by vertex id.         *)
Reachable ==
  {v \in Vertices : v # Source /\ v \in UidMapped /\ Ref[v] # Inf /\ Ref[v] > 0}
Nearer(v, w) == Ref[v] < Ref[w] \/ (Ref[v] = Ref[w] /\ v < w)
Reach == SetToSortSeq(Reachable, Nearer)

BandOf(reach) ==
  LET n == Len(reach)
      b == Band((BandLo * n) \div 1000, (BandHi * n) \div 1000, n)
  IN SubSeq(reach, b[1] + 1, b[2])

(* A seeded shuffle of the band, cut to SampleSize.                        *)
BandedTargets ==
  LET band == BandOf(Reach)
      k == IF SampleSize > 0 /\ SampleSize < Len(band) THEN SampleSize ELSE Len(band)
  IN {s \in [1..k -> ToSet(band)] : \A i, j \in 1..k : s[i] = s[j] => i = j}

Qualifies(v) == Len(Oracle[v]) >= 2

-----------------------------------------------------------------------------
NewStat(f) ==
  [MaxFrontier |-> f, Targets |-> Len(qualified), Returned |-> 0, Correct |-> 0,
   CountMismatch |-> 0, WeightMismatch |-> 0, SelfInconsistent |-> 0,
   Timeouts |-> 0, OtherErrors |-> 0, TargetResults |-> <<>>]

Start(q) ==
  /\ qualified' = q
  /\ pc' = IF q = <<>> THEN "fatal" ELSE "query"
  /\ fr' = 1
  /\ stat' = [NewStat(Frontiers[1]) EXCEPT !.Targets = Len(q)]
  /\ frontiers' = <<>>

Init ==
  /\ \E c \in BandedTargets :
       LET q == SelectSeq(c, Qualifies) IN
       /\ qualified = q
       /\ pc = IF q = <<>> THEN "fatal" ELSE "query"
  /\ fr = 1
  /\ stat = NewStat(Frontiers[1])
  /\ frontiers = <<>>
  /\ tmp = NoFile
  /\ file = NoFile
  /\ alphaUp = TRUE
  /\ starts = 1

Target == qualified[Len(stat.TargetResults) + 1]
Querying == pc = "query" /\ Len(stat.TargetResults) < Len(qualified)

Record(verdict) == Append(stat.TargetResults, [gid |-> Target, verdict |-> verdict])

(* c.Shortest returned weights: compare.Vectors gives the verdict, and a   *)
(* path that is not self-consistent or not loopless is counted besides.    *)
QueryReturns ==
  /\ Querying
  /\ alphaUp
  /\ \E w \in Replies, clean \in BOOLEAN :
       LET v == Vectors(Oracle[Target], w) IN
       stat' = [stat EXCEPT
                  !.Returned = @ + 1,
                  !.SelfInconsistent = @ + (IF clean THEN 0 ELSE 1),
                  !.Correct = @ + (IF v = "ok" THEN 1 ELSE 0),
                  !.CountMismatch = @ + (IF v = "count_mismatch" THEN 1 ELSE 0),
                  !.WeightMismatch = @ + (IF v = "weight_mismatch" THEN 1 ELSE 0),
                  !.TargetResults = Record(v)]
  /\ UNCHANGED <<qualified, pc, fr, frontiers, tmp, file, alphaUp, starts>>

(* Mutants: Returned counts the failed queries too; a failed query is asked *)
(* again until it returns.                                                 *)
QueryFailsReturned ==
  /\ Querying
  /\ \E kind \in {"timeout", "error"} :
       stat' = [stat EXCEPT
                  !.Returned = @ + 1,
                  !.Timeouts = @ + (IF kind = "timeout" THEN 1 ELSE 0),
                  !.OtherErrors = @ + (IF kind = "error" THEN 1 ELSE 0),
                  !.TargetResults = Record(kind)]
  /\ UNCHANGED <<qualified, pc, fr, frontiers, tmp, file, alphaUp, starts>>

QueryFailsRetries == Querying /\ UNCHANGED vars

(* classifyErr: a deadline is a timeout, anything else an error.  A live   *)
(* alpha can produce either, a dead one too.                               *)
QueryFails ==
  /\ Querying
  /\ \E kind \in {"timeout", "error"} :
       stat' = [stat EXCEPT
                  !.Timeouts = @ + (IF kind = "timeout" THEN 1 ELSE 0),
                  !.OtherErrors = @ + (IF kind = "error" THEN 1 ELSE 0),
                  !.TargetResults = Record(kind)]
  /\ UNCHANGED <<qualified, pc, fr, frontiers, tmp, file, alphaUp, starts>>

(* Mutants: a frontier is abandoned when the alpha dies; the file is only   *)
(* written after the last frontier.                                        *)
SummarizeEarly ==
  /\ pc = "query"
  /\ ~alphaUp \/ Len(stat.TargetResults) = Len(qualified)
  /\ frontiers' = Append(frontiers, stat)
  /\ pc' = "create"
  /\ UNCHANGED <<qualified, fr, stat, tmp, file, alphaUp, starts>>

SummarizeWritesLast ==
  /\ pc = "query"
  /\ Len(stat.TargetResults) = Len(qualified)
  /\ frontiers' = Append(frontiers, stat)
  /\ IF fr < Len(Frontiers)
     THEN /\ fr' = fr + 1
          /\ stat' = NewStat(Frontiers[fr + 1])
          /\ UNCHANGED pc
     ELSE pc' = "create" /\ UNCHANGED <<fr, stat>>
  /\ UNCHANGED <<qualified, tmp, file, alphaUp, starts>>

(* All targets done: res.Frontiers = append(res.Frontiers, stat).          *)
Summarize ==
  /\ pc = "query"
  /\ Len(stat.TargetResults) = Len(qualified)
  /\ frontiers' = Append(frontiers, stat)
  /\ pc' = "create"
  /\ UNCHANGED <<qualified, fr, stat, tmp, file, alphaUp, starts>>

(* writeJSON: create <path>.tmp, encode into it, rename it over <path>.    *)
CreateTmp ==
  /\ pc = "create"
  /\ tmp' = Partial
  /\ pc' = "encode"
  /\ UNCHANGED <<qualified, fr, stat, frontiers, file, alphaUp, starts>>

EncodeTmp ==
  /\ pc = "encode"
  /\ tmp' = frontiers
  /\ pc' = "rename"
  /\ UNCHANGED <<qualified, fr, stat, frontiers, file, alphaUp, starts>>

RenameTmp ==
  /\ pc = "rename"
  /\ file' = tmp
  /\ tmp' = NoFile
  /\ IF fr < Len(Frontiers)
     THEN /\ fr' = fr + 1
          /\ stat' = NewStat(Frontiers[fr + 1])
          /\ pc' = "query"
     ELSE /\ pc' = "done"
          /\ UNCHANGED <<fr, stat>>
  /\ UNCHANGED <<qualified, frontiers, alphaUp, starts>>

(* Creating, encoding, closing or renaming failed: log.Fatal.              *)
WriteFails ==
  /\ pc \in {"create", "encode", "rename"}
  /\ pc' = "fatal"
  /\ UNCHANGED <<qualified, fr, stat, frontiers, tmp, file, alphaUp, starts>>

(* The environment: the alpha is OOM-killed, the process is killed, and a  *)
(* later run with the same -out starts over against a fresh alpha.         *)
AlphaDies ==
  /\ alphaUp
  /\ pc \notin {"done", "fatal", "killed"}
  /\ alphaUp' = FALSE
  /\ UNCHANGED <<qualified, pc, fr, stat, frontiers, tmp, file, starts>>

Killed ==
  /\ pc \notin {"done", "fatal", "killed"}
  /\ pc' = "killed"
  /\ UNCHANGED <<qualified, fr, stat, frontiers, tmp, file, alphaUp, starts>>

Rerun ==
  /\ pc \in {"done", "fatal", "killed"}
  /\ starts < MaxStarts
  /\ starts' = starts + 1
  /\ alphaUp' = TRUE
  /\ \E c \in BandedTargets : Start(SelectSeq(c, Qualifies))
  /\ UNCHANGED <<tmp, file>>

Stopped == pc \in {"done", "fatal", "killed"} /\ UNCHANGED vars

Write == CreateTmp \/ EncodeTmp \/ RenameTmp \/ WriteFails
Run == QueryReturns \/ QueryFails \/ Summarize \/ Write
Environment == AlphaDies \/ Killed \/ Rerun

Next == Run \/ Environment \/ Stopped

Spec == Init /\ [][Next]_vars

(* The process runs on, and every query ends by its -timeout.              *)
FairSpec == Spec /\ WF_vars(Run)
-----------------------------------------------------------------------------
Verdicts == {"ok", "count_mismatch", "weight_mismatch", "timeout", "error"}
TargetResult == [gid : Reachable, verdict : Verdicts]
FrontierStat ==
  [MaxFrontier : ToSet(Frontiers), Targets : Nat, Returned : Nat, Correct : Nat,
   CountMismatch : Nat, WeightMismatch : Nat, SelfInconsistent : Nat,
   Timeouts : Nat, OtherErrors : Nat, TargetResults : Seq(TargetResult)]

TypeOK ==
  /\ qualified \in Seq(Reachable)
  /\ pc \in {"query", "create", "encode", "rename", "done", "fatal", "killed"}
  /\ fr \in 1..Len(Frontiers)
  /\ stat \in FrontierStat
  /\ frontiers \in Seq(FrontierStat)
  /\ tmp \in {NoFile, Partial} \cup Seq(FrontierStat)
  /\ file \in {NoFile} \cup Seq(FrontierStat)
  /\ alphaUp \in BOOLEAN
  /\ starts \in 1..MaxStarts

HowMany(s, vs) == Cardinality({i \in DOMAIN s.TargetResults :
                                s.TargetResults[i].verdict \in vs})

(* A frontier's counters can be re-derived from its per-target records:    *)
(* the verdicts partition the targets, and only queries that came back are *)
(* in the denominator of CorrectOfReturnedPct.                             *)
Rederivable(s) ==
  /\ s.Returned = HowMany(s, {"ok", "count_mismatch", "weight_mismatch"})
  /\ s.Correct = HowMany(s, {"ok"})
  /\ s.CountMismatch = HowMany(s, {"count_mismatch"})
  /\ s.WeightMismatch = HowMany(s, {"weight_mismatch"})
  /\ s.Timeouts = HowMany(s, {"timeout"})
  /\ s.OtherErrors = HowMany(s, {"error"})
  /\ s.SelfInconsistent <= s.Returned

(* Complete: all targets of the frontier were judged, each once, in order. *)
Complete(s, q) ==
  /\ Rederivable(s)
  /\ s.Targets = Len(q) /\ Len(s.TargetResults) = Len(q)
  /\ \A i \in 1..Len(q) : s.TargetResults[i].gid = q[i]

(* Whatever is killed when, the file at -out is absent or a whole result:  *)
(* the complete statistics of a non-empty prefix of the sweep.             *)
ResultFileWhole ==
  file # NoFile =>
    /\ Len(file) \in 1..Len(Frontiers)
    /\ \A k \in 1..Len(file) :
         /\ file[k].MaxFrontier = Frontiers[k]
         /\ Rederivable(file[k])
         /\ file[k].Targets = Len(file[k].TargetResults)

(* A kill loses at most the frontier in progress: once this run has        *)
(* written anything, the file holds every frontier it has finished, but    *)
(* for the one whose write is under way.                                   *)
DoneFrontiersKept ==
  Len(frontiers) > 0 =>
    \/ file = frontiers
    \/ pc \in {"create", "encode", "rename", "fatal", "killed"} /\ Len(frontiers) = 1
    \/ pc \in {"create", "encode", "rename", "fatal", "killed"}
         /\ file = SubSeq(frontiers, 1, Len(frontiers) - 1)

(* The frontiers a run reports were all measured over the same targets.    *)
SameTargetsEveryFrontier ==
  \A k \in 1..Len(frontiers) : Complete(frontiers[k], qualified)

(* If the process is not killed, the whole sweep ends up in the file, even *)
(* when the alpha dies under it.                                           *)
SweepCompletes ==
  []<>(pc \in {"done", "killed", "fatal"}) /\
  [](pc = "done" => Len(file) = Len(Frontiers))
=============================================================================
