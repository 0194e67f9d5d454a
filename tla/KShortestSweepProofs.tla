------------------------ MODULE KShortestSweepProofs ------------------------
(***************************************************************************)
(* Proofs about KShortestSweep, for any dataset, band, sweep, replies and  *)
(* number of starts, killed or failing anywhere.                           *)
(***************************************************************************)
EXTENDS KShortestSweep, FiniteSetTheorems, SequenceTheorems, TLAPS

Listed(s) == \E T : s \in Seq(T)

Fields == {"MaxFrontier", "Targets", "Returned", "Correct", "CountMismatch",
           "WeightMismatch", "SelfInconsistent", "Timeouts", "OtherErrors",
           "TargetResults"}

(* The statistics of a frontier under way: what was asked so far is the    *)
(* beginning of the sample, and counted.                                   *)
StatOK ==
  /\ DOMAIN stat = Fields
  /\ Listed(stat.TargetResults)
  /\ Rederivable(stat)
  /\ stat.SelfInconsistent \in Nat
  /\ fr \in 1..Len(Frontiers)
  /\ stat.MaxFrontier = Frontiers[fr]
  /\ stat.Targets = Len(qualified)
  /\ \A i \in 1..Len(stat.TargetResults) : stat.TargetResults[i].gid = qualified[i]

(* The frontiers behind the process.                                       *)
FrontiersOK ==
  /\ Listed(frontiers)
  /\ pc = "query" => Len(frontiers) = fr - 1
  /\ pc \in {"create", "encode", "rename", "done"} => Len(frontiers) = fr
  /\ Len(frontiers) \in 0..Len(Frontiers)
  /\ \A k \in 1..Len(frontiers) :
       /\ frontiers[k].MaxFrontier = Frontiers[k]
       /\ frontiers[k].Targets = Len(frontiers[k].TargetResults)

(* Only a file that was encoded to its end is moved over the result.       *)
TmpOK == pc = "rename" => tmp = frontiers

SweepInv ==
  /\ StatOK /\ FrontiersOK /\ TmpOK
  /\ ResultFileWhole /\ DoneFrontiersKept /\ SameTargetsEveryFrontier

-----------------------------------------------------------------------------
(* Appending to a list.                                                    *)
LEMMA AppendListed ==
  ASSUME NEW s, Listed(s), NEW e
  PROVE  /\ Len(s) \in Nat /\ DOMAIN s = 1..Len(s)
         /\ Listed(Append(s, e))
         /\ Len(Append(s, e)) = Len(s) + 1
         /\ \A i \in 1..Len(s) : Append(s, e)[i] = s[i]
         /\ Append(s, e)[Len(s) + 1] = e
         /\ SubSeq(Append(s, e), 1, Len(s)) = s
<1>1. PICK T : s \in Seq(T)
  BY DEF Listed
<1> DEFINE U == T \cup {e}
           a == Append(s, e)
<1>2. s \in Seq(U) /\ e \in U
  BY <1>1, SeqMonotonic
<1> HIDE DEF U
<1>3. /\ a \in Seq(U) /\ Len(s) \in Nat /\ Len(a) = Len(s) + 1
      /\ DOMAIN s = 1..Len(s)
      /\ \A i \in 1..Len(s) : a[i] = s[i]
      /\ a[Len(s) + 1] = e
  BY <1>2, AppendProperties, LenProperties
<1> HIDE DEF a
<1>4. SubSeq(a, 1, Len(s)) = s
  <2>1. 1 \in 1..(Len(a) + 1) /\ Len(s) \in 0..Len(a)
    BY <1>3
  <2>2. /\ SubSeq(a, 1, Len(s)) \in Seq(U)
        /\ Len(SubSeq(a, 1, Len(s))) = Len(s)
        /\ \A i \in 1..Len(s) : SubSeq(a, 1, Len(s))[i] = a[i]
    BY <1>3, <2>1, SubSeqProperties
  <2> QED
    BY <1>2, <1>3, <2>2, SeqEqual
<1> QED
  BY <1>3, <1>4 DEF Listed, a

(* One record more is counted under its verdict, once.                     *)
Longer(s, t, r) ==
  Listed(s.TargetResults) /\ t.TargetResults = Append(s.TargetResults, r)

(* What an answer more in the list does to the number of answers with a    *)
(* verdict: one more of its own, the same of the others.                   *)
LEMMA HowManyAppend ==
  ASSUME NEW s, NEW t, NEW r, NEW vs, Longer(s, t, r)
  PROVE  /\ HowMany(s, vs) \in Nat
         /\ HowMany(t, vs) = HowMany(s, vs) + (IF r.verdict \in vs THEN 1 ELSE 0)
<1> DEFINE old == s.TargetResults
           new == t.TargetResults
           before == {i \in DOMAIN old : old[i].verdict \in vs}
           after == {i \in DOMAIN new : new[i].verdict \in vs}
<1>1. /\ Len(old) \in Nat /\ DOMAIN old = 1..Len(old)
      /\ DOMAIN new = 1..(Len(old) + 1)
      /\ \A i \in 1..Len(old) : new[i] = old[i]
      /\ new[Len(old) + 1] = r
  <2>1. Listed(old) /\ new = Append(old, r)
    BY DEF Longer
  <2>2. Listed(new) /\ Len(new) = Len(old) + 1
    BY <2>1, AppendListed
  <2>3. DOMAIN new = 1..Len(new)
    BY <2>2, AppendListed
  <2> QED
    BY <2>1, <2>2, <2>3, AppendListed
<1>2. HowMany(s, vs) = Cardinality(before) /\ HowMany(t, vs) = Cardinality(after)
  BY DEF HowMany
<1> HIDE DEF old, new
<1>3. after = IF r.verdict \in vs THEN before \cup {Len(old) + 1} ELSE before
  BY <1>1
<1>4. Len(old) + 1 \notin before
  BY <1>1
<1>5. IsFiniteSet(before) /\ Cardinality(before) \in Nat
  <2>1. before \subseteq 1..Len(old) /\ IsFiniteSet(1..Len(old))
    BY <1>1, FS_Interval
  <2> QED
    BY <2>1, FS_Subset, FS_CardinalityType
<1> HIDE DEF before, after
<1>6. Cardinality(before \cup {Len(old) + 1}) = Cardinality(before) + 1
  BY <1>4, <1>5, FS_AddElement
<1> QED
  BY <1>2, <1>3, <1>5, <1>6

(* A number of records is a number.                                        *)
LEMMA HowManyNat ==
  ASSUME NEW s, NEW vs, Listed(s.TargetResults)
  PROVE  HowMany(s, vs) \in Nat
<1> DEFINE t == [TargetResults |-> Append(s.TargetResults, [verdict |-> "ok"])]
<1>1. Longer(s, t, [verdict |-> "ok"])
  BY DEF Longer
<1> HIDE DEF t
<1> QED
  BY <1>1, HowManyAppend

(* A frontier starts with nothing asked and nothing counted.               *)
Fresh(s, f, n) ==
  /\ DOMAIN s = Fields
  /\ s.MaxFrontier = f /\ s.Targets = n /\ s.TargetResults = <<>>
  /\ s.Returned = 0 /\ s.Correct = 0 /\ s.CountMismatch = 0 /\ s.WeightMismatch = 0
  /\ s.SelfInconsistent = 0 /\ s.Timeouts = 0 /\ s.OtherErrors = 0

(* The record a frontier starts with is whole: no answer, every counter    *)
(* zero.                                                                   *)
LEMMA FreshFacts ==
  ASSUME NEW s, NEW f, NEW n, Fresh(s, f, n)
  PROVE  /\ DOMAIN s = Fields /\ Listed(s.TargetResults) /\ Rederivable(s)
         /\ s.SelfInconsistent \in Nat /\ s.MaxFrontier = f /\ s.Targets = n
         /\ Len(s.TargetResults) = 0
<1>1. \A vs : HowMany(s, vs) = 0
  <2>1. ASSUME NEW vs PROVE HowMany(s, vs) = 0
    <3>1. DOMAIN s.TargetResults = {}
      BY DEF Fresh
    <3>2. {i \in DOMAIN s.TargetResults : s.TargetResults[i].verdict \in vs} = {}
      BY <3>1
    <3> QED
      BY <3>2, FS_EmptySet DEF HowMany
  <2> QED
    BY <2>1
<1>2. Rederivable(s)
  BY <1>1 DEF Rederivable, Fresh
<1>3. Listed(<<>>) /\ Len(<<>>) = 0
  BY EmptySeq DEF Listed
<1> QED
  BY <1>2, <1>3 DEF Fresh

(* The sweep is not empty, and nothing is reported at its start.           *)
LEMMA SweepStart ==
  /\ 1 \in 1..Len(Frontiers) /\ Len(Frontiers) \in Nat
  /\ Listed(<<>>) /\ Len(<<>>) = 0
  BY FrontiersAssumption, EmptySeq DEF Listed

(* The first start, against no file at all.                                *)
LEMMA SweepInvInit == Init => SweepInv
<1> SUFFICES ASSUME Init PROVE SweepInv
  OBVIOUS
<1>1. pc \in {"query", "fatal"} /\ fr = 1 /\ frontiers = <<>> /\ file = NoFile
  BY DEF Init
<1>2. Fresh(stat, Frontiers[1], Len(qualified))
  BY DEF Init, NewStat, Fresh, Fields
<1>3. StatOK
  BY <1>1, <1>2, FreshFacts, SweepStart DEF StatOK
<1>4. FrontiersOK
  BY <1>1, SweepStart DEF FrontiersOK
<1> QED
  BY <1>1, <1>3, <1>4, SweepStart
  DEF SweepInv, TmpOK, ResultFileWhole, DoneFrontiersKept, SameTargetsEveryFrontier

(* While the list of frontiers, the files and the process stay as they are, *)
(* so does what is said of them.                                           *)
LEMMA ElsewhereSame ==
  ASSUME SweepInv, UNCHANGED <<pc, fr, qualified, frontiers, tmp, file>>
  PROVE  /\ FrontiersOK' /\ TmpOK'
         /\ ResultFileWhole' /\ DoneFrontiersKept' /\ SameTargetsEveryFrontier'
<1> USE DEF SweepInv
<1>1. FrontiersOK' /\ TmpOK'
  BY DEF FrontiersOK, TmpOK
<1>2. ResultFileWhole'
  BY DEF ResultFileWhole
<1>3. DoneFrontiersKept'
  BY DEF DoneFrontiersKept
<1>4. SameTargetsEveryFrontier'
  BY DEF SameTargetsEveryFrontier
<1> QED
  BY <1>1, <1>2, <1>3, <1>4

Answers == {"ok", "count_mismatch", "weight_mismatch"}

One(b) == IF b THEN 1 ELSE 0

(* One target more is asked for: its verdict v is appended and counted,    *)
(* and bad is 1 if it came with a path that is not self-consistent.        *)
LEMMA OneMore ==
  ASSUME SweepInv, Querying, UNCHANGED <<pc, fr, qualified, frontiers, tmp, file>>,
         NEW v \in Verdicts, NEW bad \in {0, 1}, bad = 1 => v \in Answers,
         DOMAIN stat' = Fields,
         UNCHANGED <<stat.MaxFrontier, stat.Targets>>,
         stat'.TargetResults = Record(v),
         stat'.Returned = stat.Returned + One(v \in Answers),
         stat'.Correct = stat.Correct + One(v = "ok"),
         stat'.CountMismatch = stat.CountMismatch + One(v = "count_mismatch"),
         stat'.WeightMismatch = stat.WeightMismatch + One(v = "weight_mismatch"),
         stat'.Timeouts = stat.Timeouts + One(v = "timeout"),
         stat'.OtherErrors = stat.OtherErrors + One(v = "error"),
         stat'.SelfInconsistent = stat.SelfInconsistent + bad
  PROVE  SweepInv'
<1> DEFINE r == [gid |-> Target, verdict |-> v]
<1>1. StatOK
  BY DEF SweepInv
<1>2. stat'.TargetResults = Append(stat.TargetResults, r) /\ r.verdict = v
  BY DEF Record
<1> HIDE DEF r
<1>3. ASSUME NEW vs
      PROVE  /\ HowMany(stat, vs) \in Nat
             /\ HowMany(stat', vs) = HowMany(stat, vs) + One(v \in vs)
  <2>1. Listed(stat.TargetResults) /\ Longer(stat, stat', r)
    BY <1>1, <1>2 DEF StatOK, Longer
  <2>2. HowMany(stat', vs) = HowMany(stat, vs) + (IF r.verdict \in vs THEN 1 ELSE 0)
    BY <2>1, HowManyAppend
  <2> QED
    BY <2>1, <2>2, <1>2, HowManyNat DEF One
<1>4. Rederivable(stat')
  <2>1. Rederivable(stat) /\ stat.SelfInconsistent \in Nat
    BY <1>1 DEF StatOK
  <2>2. /\ stat'.Returned = HowMany(stat', Answers)
        /\ stat'.Correct = HowMany(stat', {"ok"})
        /\ stat'.CountMismatch = HowMany(stat', {"count_mismatch"})
        /\ stat'.WeightMismatch = HowMany(stat', {"weight_mismatch"})
        /\ stat'.Timeouts = HowMany(stat', {"timeout"})
        /\ stat'.OtherErrors = HowMany(stat', {"error"})
    BY <2>1, <1>3 DEF Rederivable, Answers, One
  <2>3. stat'.SelfInconsistent <= stat'.Returned
    <3>1. stat.Returned \in Nat /\ stat.SelfInconsistent <= stat.Returned
      BY <2>1, <1>3 DEF Rederivable, Answers
    <3>2. bad <= One(v \in Answers)
      BY DEF One
    <3> QED
      BY <2>1, <3>1, <3>2 DEF One
  <2> QED
    BY <2>2, <2>3 DEF Rederivable, Answers
<1>5. /\ Listed(stat'.TargetResults) /\ Len(stat.TargetResults) \in Nat
      /\ Len(stat'.TargetResults) = Len(stat.TargetResults) + 1
      /\ \A i \in 1..Len(stat.TargetResults) :
            stat'.TargetResults[i] = stat.TargetResults[i]
      /\ stat'.TargetResults[Len(stat.TargetResults) + 1] = r
  BY <1>1, <1>2, AppendListed DEF StatOK
<1>6. \A i \in 1..Len(stat'.TargetResults) : stat'.TargetResults[i].gid = qualified[i]
  <2>1. TAKE i \in 1..Len(stat'.TargetResults)
  <2>2. CASE i \in 1..Len(stat.TargetResults)
    BY <2>2, <1>1, <1>5 DEF StatOK
  <2>3. CASE i = Len(stat.TargetResults) + 1
    BY <2>3, <1>5 DEF r, Target
  <2> QED
    BY <2>1, <2>2, <2>3, <1>5
<1>7. stat'.SelfInconsistent \in Nat
  BY <1>1 DEF StatOK
<1>8. StatOK'
  BY <1>1, <1>4, <1>5, <1>6, <1>7 DEF StatOK
<1> QED
  BY <1>8, ElsewhereSame DEF SweepInv

(* A query that returned, whatever it returned.                            *)
LEMMA QueryReturnsStep == ASSUME SweepInv, QueryReturns PROVE SweepInv'
<1>1. PICK w \in Replies, clean \in BOOLEAN :
        LET v == Vectors(Oracle[Target], w) IN
        stat' = [stat EXCEPT
                   !.Returned = @ + 1,
                   !.SelfInconsistent = @ + (IF clean THEN 0 ELSE 1),
                   !.Correct = @ + (IF v = "ok" THEN 1 ELSE 0),
                   !.CountMismatch = @ + (IF v = "count_mismatch" THEN 1 ELSE 0),
                   !.WeightMismatch = @ + (IF v = "weight_mismatch" THEN 1 ELSE 0),
                   !.TargetResults = Record(v)]
  BY DEF QueryReturns
<1> DEFINE v == Vectors(Oracle[Target], w)
<1>2. v \in Answers
  BY DEF Vectors, Answers
<1>3. DOMAIN stat = Fields /\ stat.Timeouts + 0 = stat.Timeouts
      /\ stat.OtherErrors + 0 = stat.OtherErrors
  <2>1. StatOK
    BY DEF SweepInv
  <2>2. HowMany(stat, {"timeout"}) \in Nat /\ HowMany(stat, {"error"}) \in Nat
    BY <2>1, HowManyNat DEF StatOK
  <2> QED
    BY <2>1, <2>2 DEF StatOK, Rederivable
<1> HIDE DEF v
<1>4. stat' = [stat EXCEPT
                 !.Returned = @ + 1,
                 !.SelfInconsistent = @ + (IF clean THEN 0 ELSE 1),
                 !.Correct = @ + (IF v = "ok" THEN 1 ELSE 0),
                 !.CountMismatch = @ + (IF v = "count_mismatch" THEN 1 ELSE 0),
                 !.WeightMismatch = @ + (IF v = "weight_mismatch" THEN 1 ELSE 0),
                 !.TargetResults = Record(v)]
  BY <1>1 DEF v
<1> DEFINE bad == IF clean THEN 0 ELSE 1
<1>5. /\ DOMAIN stat' = Fields
      /\ UNCHANGED <<stat.MaxFrontier, stat.Targets>>
      /\ stat'.TargetResults = Record(v)
      /\ stat'.Returned = stat.Returned + One(v \in Answers)
      /\ stat'.Correct = stat.Correct + One(v = "ok")
      /\ stat'.CountMismatch = stat.CountMismatch + One(v = "count_mismatch")
      /\ stat'.WeightMismatch = stat.WeightMismatch + One(v = "weight_mismatch")
      /\ stat'.Timeouts = stat.Timeouts + One(v = "timeout")
      /\ stat'.OtherErrors = stat.OtherErrors + One(v = "error")
      /\ stat'.SelfInconsistent = stat.SelfInconsistent + bad
  BY <1>2, <1>3, <1>4 DEF Fields, One, Answers
<1>6. bad \in {0, 1} /\ v \in Verdicts
  BY <1>2 DEF Answers, Verdicts
<1> HIDE DEF bad
<1>7. Querying /\ UNCHANGED <<pc, fr, qualified, frontiers, tmp, file>>
  BY DEF QueryReturns
<1> QED
  BY <1>2, <1>5, <1>6, <1>7, OneMore

(* A query that did not.                                                   *)
LEMMA QueryFailsStep == ASSUME SweepInv, QueryFails PROVE SweepInv'
<1>1. PICK kind \in {"timeout", "error"} :
        stat' = [stat EXCEPT
                   !.Timeouts = @ + (IF kind = "timeout" THEN 1 ELSE 0),
                   !.OtherErrors = @ + (IF kind = "error" THEN 1 ELSE 0),
                   !.TargetResults = Record(kind)]
  BY DEF QueryFails
<1>2. StatOK
  BY DEF SweepInv
<1>3. \A vs : HowMany(stat, vs) \in Nat
  BY <1>2, HowManyNat DEF StatOK
<1>4. /\ DOMAIN stat = Fields
      /\ stat.Returned \in Nat /\ stat.Correct \in Nat /\ stat.CountMismatch \in Nat
      /\ stat.WeightMismatch \in Nat /\ stat.SelfInconsistent \in Nat
  BY <1>2, <1>3 DEF StatOK, Rederivable
<1>5. /\ DOMAIN stat' = Fields
      /\ UNCHANGED <<stat.MaxFrontier, stat.Targets>>
      /\ stat'.TargetResults = Record(kind)
      /\ stat'.Returned = stat.Returned + One(kind \in Answers)
      /\ stat'.Correct = stat.Correct + One(kind = "ok")
      /\ stat'.CountMismatch = stat.CountMismatch + One(kind = "count_mismatch")
      /\ stat'.WeightMismatch = stat.WeightMismatch + One(kind = "weight_mismatch")
      /\ stat'.Timeouts = stat.Timeouts + One(kind = "timeout")
      /\ stat'.OtherErrors = stat.OtherErrors + One(kind = "error")
      /\ stat'.SelfInconsistent = stat.SelfInconsistent + 0
  BY <1>1, <1>4 DEF Fields, One, Answers
<1>6. kind \in Verdicts
  BY DEF Verdicts
<1>7. Querying /\ UNCHANGED <<pc, fr, qualified, frontiers, tmp, file>>
  BY DEF QueryFails
<1> QED
  BY <1>5, <1>6, <1>7, OneMore

(* The frontier is done: its statistics are the whole sample's.            *)
LEMMA SummarizeStep == ASSUME SweepInv, Summarize PROVE SweepInv'
<1>1. /\ pc = "query" /\ pc' = "create" /\ frontiers' = Append(frontiers, stat)
      /\ Len(stat.TargetResults) = Len(qualified)
      /\ UNCHANGED <<qualified, fr, stat, tmp, file>>
  BY DEF Summarize
<1>2. StatOK /\ FrontiersOK
  BY DEF SweepInv
<1>3. Listed(frontiers) /\ Len(frontiers) = fr - 1 /\ fr \in 1..Len(Frontiers)
      /\ Len(Frontiers) \in Nat
  BY <1>1, <1>2, SweepStart DEF FrontiersOK, StatOK
<1>4. /\ Listed(frontiers') /\ Len(frontiers') = fr
      /\ \A k \in 1..Len(frontiers) : frontiers'[k] = frontiers[k]
      /\ frontiers'[fr] = stat
      /\ SubSeq(frontiers', 1, Len(frontiers)) = frontiers
  BY <1>1, <1>3, AppendListed
<1>5. \A k \in 1..Len(frontiers') : k \in 1..Len(frontiers) \/ k = fr
  BY <1>3, <1>4
<1>6. Complete(stat, qualified)
  BY <1>1, <1>2 DEF Complete, StatOK
<1>7. StatOK'
  BY <1>1, <1>2 DEF StatOK
<1>8. FrontiersOK'
  <2>1. /\ stat.MaxFrontier = Frontiers[fr]
        /\ stat.Targets = Len(stat.TargetResults)
    BY <1>1, <1>2 DEF StatOK
  <2> QED
    BY <1>1, <1>2, <1>3, <1>4, <1>5, <2>1, SMTT(30) DEF FrontiersOK
<1>9. SameTargetsEveryFrontier'
  <2>1. ASSUME NEW k \in 1..Len(frontiers') PROVE Complete(frontiers'[k], qualified)
    BY <1>4, <1>5, <1>6 DEF SweepInv, SameTargetsEveryFrontier
  <2> QED
    BY <1>1, <2>1 DEF SameTargetsEveryFrontier
<1>10. DoneFrontiersKept'
  <2>1. CASE fr = 1
    BY <1>1, <1>4, <2>1 DEF DoneFrontiersKept
  <2>2. CASE fr > 1
    <3>1. file = frontiers
      BY <1>1, <1>3, <2>2 DEF SweepInv, DoneFrontiersKept
    <3>2. Len(frontiers') - 1 = Len(frontiers)
      BY <1>3, <1>4
    <3> QED
      BY <1>1, <1>4, <3>1, <3>2 DEF DoneFrontiersKept
  <2> QED
    BY <1>3, <2>1, <2>2
<1>11. ResultFileWhole' /\ TmpOK'
  BY <1>1 DEF SweepInv, ResultFileWhole, TmpOK
<1> QED
  BY <1>7, <1>8, <1>9, <1>10, <1>11 DEF SweepInv

(* The rename puts the whole list in the place of the file, at once.       *)
LEMMA RenameStep == ASSUME SweepInv, RenameTmp PROVE SweepInv'
<1>1. /\ pc = "rename" /\ file' = frontiers
      /\ UNCHANGED <<qualified, frontiers>>
  BY DEF RenameTmp, SweepInv, TmpOK
<1>2. StatOK /\ FrontiersOK
  BY DEF SweepInv
<1>3. /\ fr \in 1..Len(Frontiers) /\ Len(Frontiers) \in Nat /\ Len(frontiers) = fr
  BY <1>1, <1>2, SweepStart DEF StatOK, FrontiersOK
<1>4. ResultFileWhole'
  <2>1. \A k \in 1..Len(frontiers) :
          /\ frontiers[k].MaxFrontier = Frontiers[k]
          /\ Rederivable(frontiers[k])
          /\ frontiers[k].Targets = Len(frontiers[k].TargetResults)
    BY <1>2 DEF FrontiersOK, SweepInv, SameTargetsEveryFrontier, Complete
  <2> QED
    BY <1>1, <1>3, <2>1 DEF ResultFileWhole
<1>5. DoneFrontiersKept'
  BY <1>1 DEF DoneFrontiersKept
<1>6. SameTargetsEveryFrontier'
  BY <1>1 DEF SweepInv, SameTargetsEveryFrontier
<1>7. CASE fr < Len(Frontiers)
  <2>1. fr' = fr + 1 /\ stat' = NewStat(Frontiers[fr + 1]) /\ pc' = "query"
    BY <1>7 DEF RenameTmp
  <2>2. Fresh(stat', Frontiers[fr'], Len(qualified'))
    BY <1>1, <2>1 DEF NewStat, Fresh, Fields
  <2>3. StatOK'
    BY <1>3, <1>7, <2>1, <2>2, FreshFacts DEF StatOK
  <2>4. FrontiersOK'
    BY <1>1, <1>2, <1>3, <2>1 DEF FrontiersOK
  <2> QED
    BY <1>4, <1>5, <1>6, <2>1, <2>3, <2>4 DEF SweepInv, TmpOK
<1>8. CASE ~(fr < Len(Frontiers))
  <2>1. pc' = "done" /\ UNCHANGED <<fr, stat>>
    BY <1>8 DEF RenameTmp
  <2>2. StatOK' /\ FrontiersOK'
    BY <1>1, <1>2, <1>3, <2>1 DEF StatOK, FrontiersOK
  <2> QED
    BY <1>4, <1>5, <1>6, <2>1, <2>2 DEF SweepInv, TmpOK
<1> QED
  BY <1>7, <1>8

(* A later run with the same -out starts over and keeps the file until its *)
(* own first frontier is done.                                             *)
LEMMA RerunStep == ASSUME SweepInv, Rerun PROVE SweepInv'
<1>1. PICK q : Start(q)
  BY DEF Rerun
<1>2. /\ qualified' = q /\ pc' \in {"query", "fatal"} /\ fr' = 1 /\ frontiers' = <<>>
      /\ UNCHANGED <<tmp, file>>
  BY <1>1 DEF Start, Rerun
<1>3. Fresh(stat', Frontiers[1], Len(q))
  BY <1>1 DEF Start, NewStat, Fresh, Fields
<1>4. StatOK'
  BY <1>2, <1>3, FreshFacts, SweepStart DEF StatOK
<1>5. FrontiersOK'
  BY <1>2, SweepStart DEF FrontiersOK
<1>6. ResultFileWhole'
  BY <1>2 DEF SweepInv, ResultFileWhole
<1> QED
  BY <1>2, <1>4, <1>5, <1>6, SweepStart
  DEF SweepInv, TmpOK, DoneFrontiersKept, SameTargetsEveryFrontier

(* Steps that leave the lists and the result file alone.                   *)
LEMMA QuietStep ==
  ASSUME SweepInv, UNCHANGED <<qualified, fr, stat, frontiers, file>>,
         \/ UNCHANGED <<pc, tmp>>
         \/ pc = "create" /\ pc' = "encode"
         \/ pc = "encode" /\ pc' = "rename" /\ tmp' = frontiers
         \/ pc \in {"create", "encode", "rename"} /\ pc' = "fatal"
         \/ pc \notin {"done", "fatal", "killed"} /\ pc' = "killed"
  PROVE  SweepInv'
<1> USE DEF SweepInv
<1>1. StatOK'
  BY DEF StatOK
<1>2. FrontiersOK' /\ TmpOK'
  BY DEF FrontiersOK, TmpOK
<1>3. ResultFileWhole' /\ SameTargetsEveryFrontier'
  BY DEF ResultFileWhole, SameTargetsEveryFrontier
<1>4. DoneFrontiersKept'
  BY DEF DoneFrontiersKept
<1> QED
  BY <1>1, <1>2, <1>3, <1>4

(* Every step of the process and of its environment keeps it.              *)
LEMMA SweepInvStep == SweepInv /\ [Next]_vars => SweepInv'
<1> SUFFICES ASSUME SweepInv, [Next]_vars PROVE SweepInv'
  OBVIOUS
<1>1. CASE QueryReturns
  BY <1>1, QueryReturnsStep
<1>2. CASE QueryFails
  BY <1>2, QueryFailsStep
<1>3. CASE Summarize
  BY <1>3, SummarizeStep
<1>4. CASE RenameTmp
  BY <1>4, RenameStep
<1>5. CASE Rerun
  BY <1>5, RerunStep
<1>6. CASE CreateTmp \/ EncodeTmp \/ WriteFails
  BY <1>6, QuietStep DEF CreateTmp, EncodeTmp, WriteFails
<1>7. CASE AlphaDies \/ Killed
  BY <1>7, QuietStep DEF AlphaDies, Killed
<1>8. CASE UNCHANGED vars
  BY <1>8, QuietStep DEF vars
<1> QED
  BY <1>1, <1>2, <1>3, <1>4, <1>5, <1>6, <1>7, <1>8
  DEF Next, Run, Write, Environment, Stopped

(* Wherever the process is killed, fails or loses its alpha, the file at   *)
(* -out is absent or the counted statistics of a beginning of the sweep,   *)
(* all the frontiers of this run but the last are in it once it has        *)
(* written one, and they were all measured over the same targets.          *)
THEOREM SweepResultsSound ==
  Spec => [](ResultFileWhole /\ DoneFrontiersKept /\ SameTargetsEveryFrontier)
<1>1. SweepInv => ResultFileWhole /\ DoneFrontiersKept /\ SameTargetsEveryFrontier
  BY DEF SweepInv
<1> QED
  BY <1>1, SweepInvInit, SweepInvStep, PTL DEF Spec
=============================================================================
