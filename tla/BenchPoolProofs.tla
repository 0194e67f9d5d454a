--------------------------- MODULE BenchPoolProofs --------------------------
(***************************************************************************)
(* Proofs about BenchPool, for every reference output, sample size, set of *)
(* workers and number of kept failures.                                    *)
(***************************************************************************)
EXTENDS BenchPool, FiniteSetTheorems, SequenceTheorems, TLAPS

(* The workers that have not called wg.Done().                             *)
Running == {w \in Workers : wpc[w] # "exited"}

(* What TypeOK needs to be inductive: a worker between its two channel     *)
(* operations holds a result, and wg counts the workers that run.          *)
HeldOK   == \A w \in Workers : wpc[w] \in {"query", "send"} => held[w] \in QueryResult
WgCounts == wg = Cardinality(Running)

TypeInv == TypeOK /\ HeldOK /\ WgCounts

-----------------------------------------------------------------------------
(* The workers that run are finitely many, so the WaitGroup can count them. *)
LEMMA RunningFinite ==
  /\ IsFiniteSet(Running) /\ Cardinality(Running) \in Nat
  /\ Cardinality(Running) <= Cardinality(Workers)
<1>1. Running \subseteq Workers
  BY DEF Running
<1>2. IsFiniteSet(Workers)
  BY PoolAssumption
<1> QED
  BY <1>1, <1>2, FS_Subset, FS_CardinalityType

(* Popping the head of a non-empty sequence.                               *)
LEMMA TailFacts ==
  ASSUME NEW S, NEW s \in Seq(S), s # <<>>
  PROVE  /\ Head(s) \in S /\ Head(s) = s[1]
         /\ Tail(s) \in Seq(S) /\ Len(Tail(s)) = Len(s) - 1
         /\ Len(s) >= 1
         /\ \A i \in 1..Len(Tail(s)) : Tail(s)[i] = s[i + 1]
  BY HeadTailProperties, EmptySeq

(* Sending on a channel: one element more, at the end. *)
LEMMA AppendFacts ==
  ASSUME NEW S, NEW s \in Seq(S), NEW e \in S
  PROVE  /\ Append(s, e) \in Seq(S)
         /\ Len(Append(s, e)) = Len(s) + 1
         /\ \A i \in 1..Len(s) : Append(s, e)[i] = s[i]
         /\ Append(s, e)[Len(s) + 1] = e
  BY AppendProperties

(* pickTargets chooses from finitely many vertices. *)
LEMMA EligibleFinite == IsFiniteSet(Eligible) /\ Cardinality(Eligible) \in Nat
<1>1. Eligible \subseteq Vertices
  BY DEF Eligible
<1> QED
  BY <1>1, PoolAssumption, FS_Subset, FS_CardinalityType

(* The sample pickTargets returns is a list of distinct eligible vertices. *)
LEMMA PickTargetsFacts ==
  ASSUME NEW s \in PickTargets
  PROVE  s \in Seq(Eligible) /\ Injective(s)
<1> DEFINE n == Cardinality(Eligible)
<1>1. n \in Nat
  BY EligibleFinite
<1>2. CASE SampleSize <= 0 \/ SampleSize >= n
  <2>1. s \in [1..n -> Eligible] /\ Ascending(s)
    BY <1>2 DEF PickTargets
  <2>2. s \in Seq(Eligible)
    BY <1>1, <2>1
  <2>3. Eligible \subseteq Int
    BY PoolAssumption DEF Eligible
  <2>4. ASSUME NEW i \in DOMAIN s, NEW j \in DOMAIN s, s[i] = s[j], i # j
        PROVE  FALSE
    <3>1. i \in 1..n /\ j \in 1..n
      BY <2>1
    <3>2. (i < j => s[i] < s[j]) /\ (j < i => s[j] < s[i])
      BY <2>1 DEF Ascending
    <3>3. s[i] \in Int /\ s[j] \in Int
      BY <2>1, <2>3, <3>1
    <3>4. CASE i < j
      BY <2>4, <3>2, <3>3, <3>4
    <3>5. CASE j < i
      BY <2>4, <3>2, <3>3, <3>5
    <3> QED
      BY <1>1, <2>4, <3>1, <3>4, <3>5
  <2> QED
    BY <2>2, <2>4 DEF Injective
<1>3. CASE ~(SampleSize <= 0 \/ SampleSize >= n)
  <2>1. SampleSize \in Nat
    BY <1>3, PoolAssumption
  <2>2. s \in [1..SampleSize -> Eligible] /\ Injective(s)
    BY <1>3 DEF PickTargets
  <2> QED
    BY <2>1, <2>2
<1> QED
  BY <1>2, <1>3

-----------------------------------------------------------------------------
(* The pool starts well typed. *)
LEMMA TypeInvInit == Init => TypeInv
<1> SUFFICES ASSUME Init PROVE TypeInv
  OBVIOUS
<1>1. targets \in Seq(Eligible)
  BY PickTargetsFacts DEF Init
<1>2. <<>> \in Seq(Eligible) /\ <<>> \in Seq(QueryResult) /\ Len(targets) \in Nat
  BY <1>1, EmptySeq, LenProperties
<1>3. wg \in 0..Cardinality(Workers)
  BY PoolAssumption, FS_CardinalityType DEF Init
<1>4. verdict \in [Sampled -> Verdicts \cup {Undecided}]
  BY DEF Init
<1>5. TypeOK
  <2>1. /\ sent = 0 /\ feeder = "feed"
        /\ jobs = <<>> /\ jobsClosed = FALSE
        /\ out = <<>> /\ outClosed = FALSE /\ firstFails = <<>>
    BY DEF Init
  <2>2. /\ wpc \in [Workers -> {"range", "query", "send", "exited"}]
        /\ held \in [Workers -> QueryResult \cup {NoAnswer}]
    BY DEF Init
  <2>3. /\ res \in Counters /\ rec \in [samples : Nat, errors : Nat]
        /\ report \in Counters \cup {Unpublished}
    BY DEF Init, Counters
  <2>4. sent \in 0..Len(targets) /\ feeder \in {"feed", "wait", "exited"}
    BY <1>2, <2>1
  <2>5. jobs \in Seq(Eligible) /\ out \in Seq(QueryResult) /\ firstFails \in Seq(Eligible)
    BY <1>2, <2>1
  <2>6. jobsClosed \in BOOLEAN /\ outClosed \in BOOLEAN
    BY <2>1
  <2> QED
    BY <1>1, <1>3, <1>4, <2>2, <2>3, <2>4, <2>5, <2>6 DEF TypeOK
<1>6. Running = Workers
  BY DEF Init, Running
<1> QED
  BY <1>5, <1>6 DEF Init, TypeInv, HeldOK, WgCounts

(* Every step of feeder, workers and collector keeps the types. *)
LEMMA TypeInvStep == TypeInv /\ [Next]_vars => TypeInv'
<1> SUFFICES ASSUME TypeInv, [Next]_vars PROVE TypeInv'
  OBVIOUS
<1> USE DEF TypeInv, TypeOK, HeldOK, WgCounts
<1> UNCHANGED targets
  BY DEF Next, vars, Feeder, Collector, Worker, QueryReturns, Finished, FeedJob,
         CloseJobs, CloseOut, TakeJob, QueryAnswered, QueryFailed, SendResult,
         WorkerExit, Collect, WriteReport
<1> Sampled' = Sampled
  BY DEF Sampled
<1> Len(targets) \in Nat
  BY LenProperties
<1>1. CASE FeedJob
  <2>1. targets[sent + 1] \in Eligible
    BY <1>1, ElementOfSeq DEF FeedJob
  <2>2. jobs' \in Seq(Eligible)
    BY <1>1, <2>1, AppendFacts DEF FeedJob
  <2> QED
    BY <1>1, <2>2 DEF FeedJob, Running
<1>2. CASE CloseJobs
  BY <1>2 DEF CloseJobs, Running
<1>3. CASE CloseOut
  BY <1>3 DEF CloseOut, Running
<1>4. ASSUME NEW w \in Workers, TakeJob(w) PROVE TypeInv'
  <2>1. Head(jobs) \in Eligible /\ jobs' \in Seq(Eligible)
    BY <1>4, TailFacts DEF TakeJob
  <2>2. [tgt |-> Head(jobs), err |-> FALSE, dist |-> 0] \in QueryResult
    BY <2>1 DEF QueryResult
  <2>3. Running' = Running
    BY <1>4 DEF TakeJob, Running
  <2> QED
    BY <1>4, <2>1, <2>2, <2>3 DEF TakeJob
<1>5. ASSUME NEW w \in Workers, QueryAnswered(w) PROVE TypeInv'
  <2>1. held[w] \in QueryResult
    BY <1>5 DEF QueryAnswered
  <2>2. held'[w] \in QueryResult /\ held' \in [Workers -> QueryResult \cup {NoAnswer}]
    <3>1. PICK d \in Dists \cup {Inf} : held' = [held EXCEPT ![w] = [@ EXCEPT !.dist = d]]
      BY <1>5 DEF QueryAnswered
    <3>2. [held[w] EXCEPT !.dist = d] \in QueryResult
      BY <2>1 DEF QueryResult
    <3> QED
      BY <3>1, <3>2
  <2>3. Running' = Running
    BY <1>5 DEF QueryAnswered, Running
  <2> QED
    BY <1>5, <2>2, <2>3 DEF QueryAnswered
<1>6. ASSUME NEW w \in Workers, QueryFailed(w) PROVE TypeInv'
  <2>1. held[w] \in QueryResult
    BY <1>6 DEF QueryFailed
  <2>2. held'[w] \in QueryResult /\ held' \in [Workers -> QueryResult \cup {NoAnswer}]
    BY <1>6, <2>1 DEF QueryFailed, QueryResult
  <2>3. Running' = Running
    BY <1>6 DEF QueryFailed, Running
  <2> QED
    BY <1>6, <2>2, <2>3 DEF QueryFailed
<1>7. ASSUME NEW w \in Workers, SendResult(w) PROVE TypeInv'
  <2>1. held[w] \in QueryResult
    BY <1>7 DEF SendResult
  <2>2. out' \in Seq(QueryResult)
    BY <1>7, <2>1, AppendFacts DEF SendResult
  <2>3. Running' = Running
    BY <1>7 DEF SendResult, Running
  <2> QED
    BY <1>7, <2>2, <2>3 DEF SendResult
<1>8. ASSUME NEW w \in Workers, WorkerExit(w) PROVE TypeInv'
  <2>1. w \in Running /\ Running' = Running \ {w}
    BY <1>8 DEF WorkerExit, Running
  <2>2. Cardinality(Running') = Cardinality(Running) - 1
    BY <2>1, RunningFinite, FS_RemoveElement
  <2>3. Cardinality(Running) # 0
    BY <2>1, RunningFinite, FS_EmptySet
  <2>4. wg' = Cardinality(Running') /\ wg' \in 0..Cardinality(Workers)
    <3>1. wg' = wg - 1 /\ wg = Cardinality(Running) /\ wg \in 0..Cardinality(Workers)
      BY <1>8 DEF WorkerExit
    <3>2. Cardinality(Workers) \in Nat
      BY PoolAssumption, FS_CardinalityType
    <3> QED
      BY <2>2, <2>3, <3>1, <3>2, RunningFinite
  <2> QED
    BY <1>8, <2>4 DEF WorkerExit
<1>9. CASE Collect
  <2> DEFINE qr == Head(out)
             v  == Classify(qr)
  <2>1. qr \in QueryResult /\ out' \in Seq(QueryResult)
    BY <1>9, TailFacts DEF Collect
  <2>2. v \in Verdicts /\ qr.tgt \in Eligible
    BY <2>1 DEF Classify, Verdicts, QueryResult
  <2>3. firstFails' \in Seq(Eligible)
    BY <1>9, <2>2, AppendFacts DEF Collect
  <2>4. res' \in Counters
    <3>1. /\ res.Passed \in Nat /\ res.Failed \in Nat
          /\ res.InfMismatch \in Nat /\ res.QueryErrors \in Nat
      BY DEF Counters
    <3>2. \A b \in BOOLEAN, k \in Nat : k + (IF b THEN 1 ELSE 0) \in Nat
      OBVIOUS
    <3>3. res' = [Passed      |-> res.Passed + (IF v = "passed" THEN 1 ELSE 0),
                  Failed      |-> res.Failed + (IF v \in Failing THEN 1 ELSE 0),
                  InfMismatch |-> res.InfMismatch + (IF v = "infMismatch" THEN 1 ELSE 0),
                  QueryErrors |-> res.QueryErrors + (IF v = "error" THEN 1 ELSE 0)]
      BY <1>9 DEF Collect
    <3> HIDE DEF v
    <3> QED
      BY <3>1, <3>2, <3>3 DEF Counters
  <2>5. rec' \in [samples : Nat, errors : Nat]
    BY <1>9, SMTT(30) DEF Collect
  <2>6. verdict' \in [Sampled -> Verdicts \cup {Undecided}]
    BY <1>9, <2>2 DEF Collect
  <2> QED
    BY <1>9, <2>1, <2>3, <2>4, <2>5, <2>6 DEF Collect, Running
<1>10. CASE WriteReport
  BY <1>10 DEF WriteReport, Running
<1>11. CASE UNCHANGED vars
  BY <1>11 DEF vars, Running
<1> QED
  BY <1>1, <1>2, <1>3, <1>4, <1>5, <1>6, <1>7, <1>8, <1>9, <1>10, <1>11
  DEF Next, Feeder, Collector, Worker, QueryReturns, Finished

(* Every behaviour of the pool is well typed.                              *)
THEOREM TypeCorrect == Spec => []TypeOK
<1>1. Spec => []TypeInv
  BY TypeInvInit, TypeInvStep, PTL DEF Spec
<1>2. TypeInv => TypeOK
  BY DEF TypeInv
<1> QED
  BY <1>1, <1>2, PTL

-----------------------------------------------------------------------------
(* The sample is chosen once.                                              *)
LEMMA TargetsFixed == [Next]_vars => UNCHANGED targets
  BY DEF Next, vars, Feeder, Collector, Worker, QueryReturns, Finished, FeedJob,
         CloseJobs, CloseOut, TakeJob, QueryAnswered, QueryFailed, SendResult,
         WorkerExit, Collect, WriteReport

(* With no worker running, wg.Wait() returns, and with one running it does not. *)
LEMMA WaitReturns ==
  ASSUME TypeInv, wg = 0
  PROVE  \A w \in Workers : wpc[w] = "exited"
<1>1. Running = {}
  BY RunningFinite, FS_EmptySet DEF TypeInv, WgCounts
<1> QED
  BY <1>1 DEF Running

(* At the start nothing is closed. *)
LEMMA CloseOrderInit == Init => CloseOrder
<1> SUFFICES ASSUME Init PROVE CloseOrder
  OBVIOUS
<1>1. jobs = <<>> /\ Len(jobs) = 0
  BY EmptySeq DEF Init
<1>2. Cardinality(Workers) \in Nat
  BY PoolAssumption, FS_CardinalityType
<1> QED
  BY <1>1, <1>2 DEF Init, CloseOrder, ChanCap

(* Every step keeps the order in which jobs and out are closed. *)
LEMMA CloseOrderStep == TypeInv /\ CloseOrder /\ [Next]_vars => CloseOrder'
<1> SUFFICES ASSUME TypeInv, CloseOrder, [Next]_vars PROVE CloseOrder'
  OBVIOUS
<1> USE DEF CloseOrder
<1>a. UNCHANGED targets
  BY TargetsFixed
<1>b. /\ jobs \in Seq(Eligible) /\ Len(jobs) \in Nat
      /\ wpc \in [Workers -> {"range", "query", "send", "exited"}]
      /\ feeder \in {"feed", "wait", "exited"}
      /\ jobsClosed \in BOOLEAN /\ outClosed \in BOOLEAN
  BY LenProperties DEF TypeInv, TypeOK
<1>c. ChanCap' = ChanCap /\ ChanCap \in Nat
  BY PoolAssumption, FS_CardinalityType DEF ChanCap
<1>1. CASE FeedJob
  <2>1. targets[sent + 1] \in Eligible
    BY <1>1, ElementOfSeq DEF FeedJob, TypeInv, TypeOK
  <2>2. Len(jobs') = Len(jobs) + 1
    BY <1>1, <1>b, <2>1, AppendFacts DEF FeedJob
  <2> QED
    BY <1>1, <1>a, <1>b, <1>c, <2>2 DEF FeedJob
<1>2. CASE CloseJobs
  BY <1>2, <1>a, <1>b, <1>c DEF CloseJobs
<1>3. CASE CloseOut
  BY <1>3, <1>a, <1>b, <1>c DEF CloseOut
<1>4. ASSUME NEW w \in Workers, TakeJob(w) PROVE CloseOrder'
  <2>1. Len(jobs') = Len(jobs) - 1
    BY <1>4, <1>b, TailFacts DEF TakeJob
  <2> QED
    BY <1>4, <1>a, <1>b, <1>c, <2>1 DEF TakeJob
<1>5. ASSUME NEW w \in Workers, QueryAnswered(w) \/ QueryFailed(w) PROVE CloseOrder'
  BY <1>5, <1>a, <1>b, <1>c DEF QueryAnswered, QueryFailed
<1>6. ASSUME NEW w \in Workers, SendResult(w) PROVE CloseOrder'
  <2>1. ~outClosed
    BY <1>6, WaitReturns DEF SendResult
  <2> QED
    BY <1>6, <1>a, <1>b, <1>c, <2>1 DEF SendResult
<1>7. ASSUME NEW w \in Workers, WorkerExit(w) PROVE CloseOrder'
  <2>1. ~outClosed
    BY <1>7, WaitReturns DEF WorkerExit
  <2> QED
    BY <1>7, <1>a, <1>b, <1>c, <2>1 DEF WorkerExit
<1>8. CASE Collect
  BY <1>8, <1>a, <1>b, <1>c DEF Collect
<1>9. CASE WriteReport
  BY <1>9, <1>a, <1>b, <1>c DEF WriteReport
<1>10. CASE UNCHANGED vars
  BY <1>10, <1>a, <1>b, <1>c DEF vars
<1> QED
  BY <1>1, <1>2, <1>3, <1>4, <1>5, <1>6, <1>7, <1>8, <1>9, <1>10
  DEF Next, Feeder, Collector, Worker, QueryReturns, Finished

(* No worker sends on a closed channel, and out is closed only when every  *)
(* result has been sent.                                                   *)
THEOREM NoSendAfterClose == Spec => []NoSendOnClosedOut
<1>1. Spec => [](TypeInv /\ CloseOrder)
  BY TypeInvInit, TypeInvStep, CloseOrderInit, CloseOrderStep, PTL DEF Spec
<1>2. TypeInv /\ CloseOrder => NoSendOnClosedOut
  <2> SUFFICES ASSUME TypeInv, CloseOrder, outClosed
               PROVE  /\ sent = Len(targets) /\ jobs = <<>>
                      /\ \A w \in Workers : wpc[w] = "exited"
    BY DEF NoSendOnClosedOut
  <2>1. \A w \in Workers : wpc[w] = "exited"
    BY WaitReturns DEF CloseOrder
  <2>2. sent = Len(targets)
    BY DEF CloseOrder, TypeInv, TypeOK
  <2>3. CASE Workers = {}
    <3>1. ChanCap = 0
      BY <2>3, FS_EmptySet DEF ChanCap
    <3>2. jobs \in Seq(Eligible) /\ Len(jobs) <= 0
      BY <3>1 DEF CloseOrder, TypeInv, TypeOK
    <3> QED
      BY <2>1, <2>2, <3>2, EmptySeq
  <2>4. CASE Workers # {}
    BY <2>1, <2>2, <2>4 DEF CloseOrder
  <2> QED
    BY <2>3, <2>4
<1> QED
  BY <1>1, <1>2, PTL

-----------------------------------------------------------------------------
(* The effect of a channel operation on the set of what a channel holds,   *)
(* when nothing is in it twice.                                            *)
LEMMA PopSet ==
  ASSUME NEW S, NEW s \in Seq(S), s # <<>>,
         \A i, j \in 1..Len(s) : s[i] = s[j] => i = j
  PROVE  /\ {Tail(s)[i] : i \in 1..Len(Tail(s))} = {s[i] : i \in 1..Len(s)} \ {Head(s)}
         /\ Head(s) \in {s[i] : i \in 1..Len(s)}
         /\ \A i, j \in 1..Len(Tail(s)) : Tail(s)[i] = Tail(s)[j] => i = j
<1> DEFINE n == Len(s)
           t == Tail(s)
<1>1. /\ n \in Nat /\ n >= 1 /\ Len(t) = n - 1 /\ Head(s) = s[1]
      /\ \A i \in 1..Len(t) : t[i] = s[i + 1]
  BY TailFacts, LenProperties
<1> HIDE DEF t, n
<1>2. \A i, j \in 1..n : s[i] = s[j] => i = j
  BY DEF n
<1>3. \A i \in 1..Len(t) : i + 1 \in 1..n /\ i + 1 # 1
  BY <1>1
<1>4. \A k \in 1..n : k # 1 => k - 1 \in 1..Len(t) /\ t[k - 1] = s[k]
  BY <1>1
<1>5. \A i, j \in 1..Len(t) : t[i] = t[j] => i = j
  BY <1>1, <1>2, <1>3
<1>6. {t[i] : i \in 1..Len(t)} = {s[i] : i \in 1..n} \ {s[1]}
  <2>1. ASSUME NEW x \in {t[i] : i \in 1..Len(t)} PROVE x \in {s[i] : i \in 1..n} \ {s[1]}
    <3>1. PICK i \in 1..Len(t) : x = t[i]
      OBVIOUS
    <3>2. i + 1 \in 1..n /\ i + 1 # 1 /\ x = s[i + 1] /\ 1 \in 1..n
      BY <1>1, <1>3, <3>1
    <3>3. x # s[1]
      BY <1>2, <3>2
    <3> QED
      BY <3>2, <3>3
  <2>2. ASSUME NEW x \in {s[i] : i \in 1..n} \ {s[1]} PROVE x \in {t[i] : i \in 1..Len(t)}
    <3>1. PICK k \in 1..n : x = s[k] /\ k # 1
      OBVIOUS
    <3> QED
      BY <1>4, <3>1
  <2> QED
    BY <2>1, <2>2
<1> QED
  BY <1>1, <1>5, <1>6 DEF n, t

(* A send adds one element to the set of what a channel holds. *)
LEMMA PushSet ==
  ASSUME NEW S, NEW s \in Seq(S), NEW e \in S, e \notin {s[i] : i \in 1..Len(s)},
         \A i, j \in 1..Len(s) : s[i] = s[j] => i = j
  PROVE  /\ {Append(s, e)[i] : i \in 1..Len(Append(s, e))} = {s[i] : i \in 1..Len(s)} \cup {e}
         /\ \A i, j \in 1..Len(Append(s, e)) : Append(s, e)[i] = Append(s, e)[j] => i = j
<1> DEFINE n == Len(s)
           t == Append(s, e)
<1>1. /\ n \in Nat /\ Len(t) = n + 1 /\ t[n + 1] = e
      /\ \A i \in 1..n : t[i] = s[i]
  BY AppendFacts, LenProperties
<1> HIDE DEF t
<1>2. \A i \in 1..Len(t) : i \in 1..n \/ i = n + 1
  BY <1>1
<1> QED
  BY <1>1, <1>2 DEF t

-----------------------------------------------------------------------------
(* At the start every target is still to be fed. *)
LEMMA ConservedInit == Init => Conserved
<1> SUFFICES ASSUME Init PROVE Conserved
  OBVIOUS
<1>1. Injective(targets)
  BY PickTargetsFacts DEF Init
<1>2. Len(jobs) = 0 /\ Len(out) = 0 /\ jobs = <<>>
  BY EmptySeq DEF Init
<1>3. JobSet = {} /\ OutSet = {}
  BY <1>2 DEF JobSet, OutSet
<1>4. HeldSet = {} /\ Busy = {}
  BY DEF Init, HeldSet, Busy
<1>5. DecidedSet = {}
  BY DEF Init, DecidedSet, Decided
<1>6. Fed = {}
  BY DEF Init, Fed
<1>7. Injective(jobs)
  BY <1>2 DEF Injective
<1> QED
  BY <1>1, <1>2, <1>3, <1>4, <1>5, <1>6, <1>7 DEF Conserved

(* Every step moves at most one target from one place to the next. *)
LEMMA ConservedStep == TypeInv /\ Conserved /\ [Next]_vars => Conserved'
<1> SUFFICES ASSUME TypeInv, Conserved, [Next]_vars PROVE Conserved'
  OBVIOUS
<1>a. UNCHANGED targets /\ Sampled' = Sampled
  BY TargetsFixed DEF Sampled
<1>b. /\ targets \in Seq(Eligible) /\ Len(targets) \in Nat /\ DOMAIN targets = 1..Len(targets)
      /\ jobs \in Seq(Eligible) /\ Len(jobs) \in Nat /\ DOMAIN jobs = 1..Len(jobs)
      /\ out \in Seq(QueryResult) /\ Len(out) \in Nat
      /\ sent \in 0..Len(targets)
      /\ wpc \in [Workers -> {"range", "query", "send", "exited"}]
      /\ held \in [Workers -> QueryResult \cup {NoAnswer}]
      /\ verdict \in [Sampled -> Verdicts \cup {Undecided}]
  BY LenProperties DEF TypeInv, TypeOK
<1>c. \A i, j \in 1..Len(jobs) : jobs[i] = jobs[j] => i = j
  BY <1>b DEF Conserved, Injective
<1>d. Fed \subseteq Sampled
  BY <1>b, SMTT(30) DEF Fed, Sampled
<1>1. CASE FeedJob
  <2> DEFINE x == targets[sent + 1]
  <2>1. sent + 1 \in 1..Len(targets) /\ x \in Eligible
    BY <1>1, <1>b, ElementOfSeq DEF FeedJob
  <2>2. x \notin Fed
    <3>1. \A i \in 1..sent : i \in 1..Len(targets) /\ i # sent + 1
      BY <1>b
    <3> QED
      BY <3>1, <2>1, <1>b DEF Fed, Conserved, Injective
  <2>3. Fed' = Fed \cup {x}
    <3>1. 1..(sent + 1) = (1..sent) \cup {sent + 1}
      BY <1>b
    <3> QED
      BY <3>1, <1>1, <1>a DEF Fed, FeedJob
  <2>4. x \notin JobSet
    BY <2>2 DEF Conserved
  <2> HIDE DEF x
  <2>5. jobs' = Append(jobs, x)
    BY <1>1 DEF FeedJob, x
  <2>6. JobSet' = JobSet \cup {x} /\ \A i, j \in 1..Len(jobs') : jobs'[i] = jobs'[j] => i = j
    <3>1. x \notin {jobs[i] : i \in 1..Len(jobs)}
      BY <2>4 DEF JobSet
    <3>2. /\ {Append(jobs, x)[i] : i \in 1..Len(Append(jobs, x))}
                = {jobs[i] : i \in 1..Len(jobs)} \cup {x}
          /\ \A i, j \in 1..Len(Append(jobs, x)) :
               Append(jobs, x)[i] = Append(jobs, x)[j] => i = j
      BY <2>1, <3>1, <1>b, <1>c, PushSet
    <3>3. JobSet' = {Append(jobs, x)[i] : i \in 1..Len(Append(jobs, x))}
      BY <2>5 DEF JobSet
    <3> QED
      BY <2>5, <3>2, <3>3 DEF JobSet
  <2>7. Injective(jobs')
    <3>1. DOMAIN jobs' = 1..Len(jobs')
      BY <2>1, <2>5, <1>b, AppendFacts, LenProperties
    <3> QED
      BY <2>6, <3>1 DEF Injective
  <2>8. /\ HeldSet' = HeldSet /\ Busy' = Busy /\ OutSet' = OutSet /\ DecidedSet' = DecidedSet
        /\ UNCHANGED <<held, out>>
    BY <1>1, <1>a DEF FeedJob, HeldSet, Busy, OutSet, DecidedSet, Decided
  <2> QED
    BY <2>2, <2>3, <2>6, <2>7, <2>8, <1>a DEF Conserved
<1>2. ASSUME UNCHANGED <<sent, jobs, wpc, held, out, verdict>> PROVE Conserved'
  <2>1. Fed' = Fed /\ JobSet' = JobSet /\ HeldSet' = HeldSet /\ Busy' = Busy /\ OutSet' = OutSet
    BY <1>2, <1>a DEF Fed, JobSet, HeldSet, Busy, OutSet
  <2>2. DecidedSet' = DecidedSet
    BY <1>2, <1>a DEF DecidedSet, Decided
  <2> QED
    BY <1>2, <1>a, <2>1, <2>2 DEF Conserved
<1>3. ASSUME NEW w \in Workers, TakeJob(w) PROVE Conserved'
  <2> DEFINE x == Head(jobs)
  <2>1. /\ jobs # <<>> /\ jobs' = Tail(jobs)
        /\ wpc[w] = "range" /\ wpc' = [wpc EXCEPT ![w] = "query"]
        /\ held' = [held EXCEPT ![w] = [tgt |-> x, err |-> FALSE, dist |-> 0]]
        /\ UNCHANGED <<sent, out, verdict>>
    BY <1>3 DEF TakeJob
  <2>2. /\ JobSet' = JobSet \ {x} /\ x \in JobSet
        /\ \A i, j \in 1..Len(jobs') : jobs'[i] = jobs'[j] => i = j
    <3>1. /\ {Tail(jobs)[i] : i \in 1..Len(Tail(jobs))}
                = {jobs[i] : i \in 1..Len(jobs)} \ {x}
          /\ x \in {jobs[i] : i \in 1..Len(jobs)}
          /\ \A i, j \in 1..Len(Tail(jobs)) : Tail(jobs)[i] = Tail(jobs)[j] => i = j
      BY <2>1, <1>b, <1>c, PopSet
    <3>2. JobSet' = {Tail(jobs)[i] : i \in 1..Len(Tail(jobs))}
      BY <2>1 DEF JobSet
    <3> QED
      BY <2>1, <3>1, <3>2 DEF JobSet
  <2>3. Injective(jobs')
    <3>1. jobs' \in Seq(Eligible)
      BY <2>1, <1>b, TailFacts
    <3>2. DOMAIN jobs' = 1..Len(jobs')
      BY <3>1, LenProperties
    <3> QED
      BY <2>2, <3>2 DEF Injective
  <2> HIDE DEF x
  <2>4. w \notin Busy /\ Busy' = Busy \cup {w}
    BY <2>1, <1>b DEF Busy
  <2>5. held'[w].tgt = x /\ \A u \in Busy : held'[u] = held[u]
    BY <2>1, <2>4, <1>b DEF Busy
  <2>6. HeldSet' = HeldSet \cup {x}
    BY <2>4, <2>5 DEF HeldSet
  <2>7. \A u, v \in Busy' : held'[u].tgt = held'[v].tgt => u = v
    <3>1. x \notin HeldSet
      BY <2>2 DEF Conserved
    <3>2. \A u \in Busy : held[u].tgt # x
      BY <3>1 DEF HeldSet
    <3> QED
      BY <3>2, <2>4, <2>5 DEF Conserved
  <2>8. Fed' = Fed /\ OutSet' = OutSet /\ DecidedSet' = DecidedSet
    BY <2>1, <1>a DEF Fed, OutSet, DecidedSet, Decided
  <2> QED
    BY <2>1, <2>2, <2>3, <2>6, <2>7, <2>8, <1>a DEF Conserved
<1>4. ASSUME NEW w \in Workers, QueryAnswered(w) \/ QueryFailed(w) PROVE Conserved'
  <2>1. /\ wpc[w] = "query" /\ wpc' = [wpc EXCEPT ![w] = "send"]
        /\ UNCHANGED <<sent, jobs, out, verdict>>
    BY <1>4 DEF QueryAnswered, QueryFailed
  <2>2. held[w] \in QueryResult
    BY <2>1 DEF TypeInv, HeldOK
  <2>3. held'[w].tgt = held[w].tgt /\ \A u \in Workers : u # w => held'[u] = held[u]
    <3>1. CASE QueryFailed(w)
      BY <3>1, <2>2, <1>b DEF QueryFailed, QueryResult
    <3>2. CASE QueryAnswered(w)
      <4>1. PICK d \in Dists \cup {Inf} : held' = [held EXCEPT ![w] = [@ EXCEPT !.dist = d]]
        BY <3>2 DEF QueryAnswered
      <4> QED
        BY <4>1, <2>2, <1>b DEF QueryResult
    <3> QED
      BY <1>4, <3>1, <3>2
  <2>4. Busy' = Busy /\ Busy \subseteq Workers
    BY <2>1, <1>b DEF Busy
  <2>5. \A u \in Busy : held'[u].tgt = held[u].tgt
    BY <2>3, <2>4
  <2>6. HeldSet' = HeldSet
    BY <2>4, <2>5 DEF HeldSet
  <2>7. Fed' = Fed /\ JobSet' = JobSet /\ OutSet' = OutSet /\ DecidedSet' = DecidedSet
    BY <2>1, <1>a DEF Fed, JobSet, OutSet, DecidedSet, Decided
  <2>8. \A u, v \in Busy' : held'[u].tgt = held'[v].tgt => u = v
    BY <2>4, <2>5 DEF Conserved
  <2> QED
    BY <2>1, <2>6, <2>7, <2>8, <1>a DEF Conserved
<1>5. ASSUME NEW w \in Workers, SendResult(w) PROVE Conserved'
  <2> DEFINE r == held[w]
  <2>1. /\ wpc[w] = "send" /\ wpc' = [wpc EXCEPT ![w] = "range"]
        /\ held' = [held EXCEPT ![w] = NoAnswer]
        /\ out' = Append(out, r)
        /\ UNCHANGED <<sent, jobs, verdict>>
    BY <1>5 DEF SendResult
  <2>2. r \in QueryResult /\ w \in Busy
    BY <2>1 DEF TypeInv, HeldOK, Busy
  <2>3. r.tgt \in HeldSet /\ r.tgt \notin OutSet
    BY <2>2 DEF HeldSet, Conserved
  <2>4. Busy' = Busy \ {w} /\ Busy \subseteq Workers /\ \A u \in Busy' : held'[u] = held[u]
    BY <2>1, <1>b DEF Busy
  <2>5. \A u \in Busy' : held[u].tgt # r.tgt
    BY <2>2, <2>4 DEF Conserved
  <2>6. HeldSet' = HeldSet \ {r.tgt}
    BY <2>2, <2>4, <2>5 DEF HeldSet
  <2> HIDE DEF r
  <2>7. /\ Len(out') = Len(out) + 1 /\ out'[Len(out) + 1] = r
        /\ \A i \in 1..Len(out) : out'[i] = out[i]
    BY <2>1, <2>2, <1>b, AppendFacts
  <2>8. \A i \in 1..Len(out') : i \in 1..Len(out) \/ i = Len(out) + 1
    BY <2>7, <1>b
  <2>9. OutSet' = OutSet \cup {r.tgt}
    <3>1. Len(out) + 1 \in 1..Len(out') /\ \A i \in 1..Len(out) : i \in 1..Len(out')
      BY <2>7, <1>b
    <3> QED
      BY <2>7, <2>8, <3>1 DEF OutSet
  <2>10. \A i, j \in 1..Len(out') : out'[i].tgt = out'[j].tgt => i = j
    <3>1. \A i \in 1..Len(out) : out[i].tgt # r.tgt
      BY <2>3 DEF OutSet
    <3> QED
      BY <3>1, <2>7, <2>8 DEF Conserved
  <2>11. Fed' = Fed /\ JobSet' = JobSet /\ DecidedSet' = DecidedSet
    BY <2>1, <1>a DEF Fed, JobSet, DecidedSet, Decided
  <2>12. \A u, v \in Busy' : held'[u].tgt = held'[v].tgt => u = v
    BY <2>4 DEF Conserved
  <2> QED
    BY <2>1, <2>3, <2>6, <2>9, <2>10, <2>11, <2>12, <1>a DEF Conserved
<1>6. ASSUME NEW w \in Workers, WorkerExit(w) PROVE Conserved'
  <2>1. Busy' = Busy /\ UNCHANGED <<sent, jobs, held, out, verdict>>
    BY <1>6, <1>b DEF WorkerExit, Busy
  <2>2. /\ Fed' = Fed /\ JobSet' = JobSet /\ HeldSet' = HeldSet /\ OutSet' = OutSet
        /\ DecidedSet' = DecidedSet
    BY <2>1, <1>a DEF Fed, JobSet, HeldSet, OutSet, DecidedSet, Decided
  <2> QED
    BY <2>1, <2>2, <1>a DEF Conserved
<1>7. CASE Collect
  <2> DEFINE qr == Head(out)
  <2>1. /\ out # <<>> /\ out' = Tail(out)
        /\ verdict' = [verdict EXCEPT ![qr.tgt] = Classify(qr)]
        /\ UNCHANGED <<sent, jobs, wpc, held>>
    BY <1>7 DEF Collect
  <2>2. /\ Len(out) >= 1 /\ Head(out) = out[1] /\ Len(out') = Len(out) - 1
        /\ \A i \in 1..Len(out') : out'[i] = out[i + 1]
    BY <2>1, <1>b, TailFacts
  <2>3. \A k \in 1..Len(out) : k = 1 \/ (k - 1 \in 1..Len(out') /\ out'[k - 1] = out[k])
    BY <2>2, <1>b
  <2>4. \A i \in 1..Len(out') : i + 1 \in 1..Len(out) /\ i + 1 # 1
    BY <2>2, <1>b
  <2>5. qr.tgt \in OutSet /\ 1 \in 1..Len(out)
    BY <2>2, <1>b DEF OutSet
  <2>6. OutSet' = OutSet \ {qr.tgt}
    <3>1. ASSUME NEW t \in OutSet' PROVE t \in OutSet \ {qr.tgt}
      <4>1. PICK i \in 1..Len(out') : t = out'[i].tgt
        BY DEF OutSet
      <4>2. t = out[i + 1].tgt /\ i + 1 \in 1..Len(out) /\ i + 1 # 1
        BY <4>1, <2>2, <2>4
      <4> QED
        BY <4>2, <2>2, <2>5 DEF OutSet, Conserved
    <3>2. ASSUME NEW t \in OutSet \ {qr.tgt} PROVE t \in OutSet'
      <4>1. PICK k \in 1..Len(out) : t = out[k].tgt
        BY DEF OutSet
      <4>2. k # 1
        BY <4>1, <2>2
      <4>3. k - 1 \in 1..Len(out') /\ t = out'[k - 1].tgt
        BY <4>1, <4>2, <2>3
      <4> QED
        BY <4>3 DEF OutSet
    <3> QED
      BY <3>1, <3>2
  <2>7. \A i, j \in 1..Len(out') : out'[i].tgt = out'[j].tgt => i = j
    <3>1. TAKE i, j \in 1..Len(out')
    <3>2. HAVE out'[i].tgt = out'[j].tgt
    <3>3. i + 1 = j + 1
      BY <3>2, <2>2, <2>4 DEF Conserved
    <3> QED
      BY <3>3
  <2>8. qr.tgt \in Sampled /\ Classify(qr) # Undecided
    <3>1. qr.tgt \in Sampled
      BY <2>5, <1>d DEF Conserved
    <3> QED
      BY <3>1, PoolAssumption DEF Classify
  <2>9. DecidedSet' = DecidedSet \cup {qr.tgt}
    BY <2>1, <2>8, <1>a, <1>b DEF DecidedSet, Decided
  <2>10. Fed' = Fed /\ JobSet' = JobSet /\ HeldSet' = HeldSet /\ Busy' = Busy
    BY <2>1, <1>a DEF Fed, JobSet, HeldSet, Busy
  <2> QED
    BY <2>1, <2>5, <2>6, <2>7, <2>9, <2>10, <1>a DEF Conserved
<1> QED
  BY <1>1, <1>2, <1>3, <1>4, <1>5, <1>6, <1>7
  DEF Next, vars, Feeder, Collector, Worker, QueryReturns, Finished,
      CloseJobs, CloseOut, WriteReport

(* Nothing is lost between the sample and the collector, nothing is there  *)
(* twice.                                                                  *)
THEOREM TargetsConserved == Spec => [](NoTargetLost /\ NoTargetTwice)
<1>1. Spec => [](TypeInv /\ Conserved)
  BY TypeInvInit, TypeInvStep, ConservedInit, ConservedStep, PTL DEF Spec
<1>2. TypeInv /\ Conserved => NoTargetLost /\ NoTargetTwice
  <2> SUFFICES ASSUME TypeInv, Conserved, NEW t \in Sampled
               PROVE  LET elsewhere == \/ ToFeed(t) \/ InJobs(t) \/ InOut(t)
                                       \/ \E w \in Workers : HeldBy(w, t)
                      IN  (Decided(t) \/ elsewhere) /\ (Decided(t) => ~elsewhere)
    BY DEF NoTargetLost, NoTargetTwice
  <2>1. /\ Len(targets) \in Nat /\ DOMAIN targets = 1..Len(targets)
        /\ DOMAIN jobs = 1..Len(jobs) /\ DOMAIN out = 1..Len(out)
        /\ sent \in 0..Len(targets)
    BY LenProperties DEF TypeInv, TypeOK
  <2>2. /\ InJobs(t) <=> t \in JobSet
        /\ InOut(t) <=> t \in OutSet
        /\ Decided(t) <=> t \in DecidedSet
        /\ (\E w \in Workers : HeldBy(w, t)) <=> t \in HeldSet
    BY <2>1 DEF InJobs, JobSet, InOut, OutSet, DecidedSet, HeldBy, HeldSet, Busy
  <2>3. ToFeed(t) <=> t \notin Fed
    <3>1. PICK k \in 1..Len(targets) : targets[k] = t
      BY <2>1 DEF Sampled
    <3>2. \A i \in 1..Len(targets) : targets[i] = t => i = k
      BY <3>1, <2>1 DEF Conserved, Injective
    <3>3. t \in Fed <=> k <= sent
      BY <3>1, <3>2, <2>1 DEF Fed
    <3> QED
      BY <3>1, <3>2, <3>3, <2>1 DEF ToFeed
  <2> QED
    BY <2>2, <2>3 DEF Conserved
<1> QED
  BY <1>1, <1>2, PTL

-----------------------------------------------------------------------------
(* The sample is finite, so its parts can be counted. *)
LEMMA SampledFinite ==
  ASSUME TypeInv
  PROVE  /\ Sampled \subseteq Eligible /\ IsFiniteSet(Sampled)
         /\ \A S \in SUBSET Sampled : IsFiniteSet(S) /\ Cardinality(S) \in Nat
<1>1. Sampled \subseteq Eligible
  BY LenProperties DEF TypeInv, TypeOK, Sampled
<1> QED
  BY <1>1, EligibleFinite, FS_Subset, FS_CardinalityType

(* At the start nothing is counted and nothing decided. *)
LEMMA CountedInit == Init => Counted
<1> SUFFICES ASSUME Init PROVE Counted
  OBVIOUS
<1>1. DecidedSet = {}
  BY DEF Init, DecidedSet, Decided
<1>2. Given({"passed"}) = {} /\ Given(Failing) = {} /\ Given({"infMismatch"}) = {}
      /\ Given({"error"}) = {}
  BY PoolAssumption DEF Init, Given, Failing
<1> QED
  <2>1. Cardinality({}) = 0
    BY FS_EmptySet
  <2>2. /\ res.Passed = 0 /\ res.Failed = 0 /\ res.InfMismatch = 0 /\ res.QueryErrors = 0
        /\ rec.samples = 0 /\ rec.errors = 0
    BY DEF Init
  <2> QED
    BY <1>1, <1>2, <2>1, <2>2 DEF Counted

(* One target more in the set of those given a verdict of V, or as many.   *)
LEMMA GivenStep ==
  ASSUME TypeInv, NEW t \in Sampled, verdict[t] = Undecided, NEW v \in Verdicts,
         Sampled' = Sampled, verdict' = [verdict EXCEPT ![t] = v],
         NEW V \in SUBSET Verdicts
  PROVE  /\ Cardinality(Given(V)) \in Nat
         /\ Cardinality(Given(V)') = Cardinality(Given(V)) + (IF v \in V THEN 1 ELSE 0)
<1>1. Undecided \notin V
  BY PoolAssumption DEF Verdicts
<1>2. t \notin Given(V)
  BY <1>1 DEF Given
<1>3. Given(V)' = IF v \in V THEN Given(V) \cup {t} ELSE Given(V)
  BY <1>1 DEF Given, TypeInv, TypeOK
<1>4. IsFiniteSet(Given(V)) /\ Cardinality(Given(V)) \in Nat
  BY SampledFinite DEF Given
<1> QED
  <2>1. CASE v \in V
    BY <1>2, <1>3, <1>4, <2>1, FS_AddElement
  <2>2. CASE v \notin V
    BY <1>3, <1>4, <2>2
  <2> QED
    BY <2>1, <2>2

(* What the collector takes from out next, and how it judges it.           *)
Answered == Head(out).tgt
Judged == Classify(Head(out))

(* It judges a target that is in the sample and not judged yet.            *)
LEMMA CollectJudges ==
  ASSUME TypeInv, Conserved, out # <<>>
  PROVE  /\ Answered \in Sampled /\ Answered \in Eligible
         /\ verdict[Answered] = Undecided
         /\ Judged \in Verdicts
         /\ Judged = "passed" \/ Judged \in Failing \/ Judged = "error"
<1>1. /\ out \in Seq(QueryResult) /\ Len(out) >= 1 /\ Head(out) = out[1]
      /\ Len(out) \in Nat /\ Head(out) \in QueryResult
  BY TailFacts, LenProperties DEF TypeInv, TypeOK
<1>2. Answered \in OutSet
  BY <1>1 DEF OutSet, Answered
<1>3. Answered \in Sampled
  <2>1. Fed \subseteq Sampled
    BY LenProperties DEF Fed, Sampled, TypeInv, TypeOK
  <2> QED
    BY <1>2, <2>1 DEF Conserved
<1>4. verdict[Answered] = Undecided
  BY <1>2, <1>3 DEF Conserved, DecidedSet, Decided
<1>5. Answered \in Eligible
  BY <1>1 DEF Answered, QueryResult
<1>6. Judged \in Verdicts /\ (Judged = "passed" \/ Judged \in Failing \/ Judged = "error")
  BY DEF Judged, Classify, Verdicts, Failing
<1> QED
  BY <1>3, <1>4, <1>5, <1>6

(* The collector raises the counters of the verdict it gives, by one. *)
LEMMA CountedStep == TypeInv /\ Conserved /\ Counted /\ [Next]_vars => Counted'
<1> SUFFICES ASSUME TypeInv, Conserved, Counted, [Next]_vars PROVE Counted'
  OBVIOUS
<1>a. UNCHANGED targets /\ Sampled' = Sampled
  BY TargetsFixed DEF Sampled
<1>1. CASE Collect
  <2> DEFINE t == Answered
             v == Judged
  <2>1. /\ verdict' = [verdict EXCEPT ![t] = v]
        /\ rec' = IF Head(out).err THEN [rec EXCEPT !.errors = @ + 1]
                                   ELSE [rec EXCEPT !.samples = @ + 1]
    BY <1>1 DEF Collect, Answered, Judged
  <2>2. /\ res'.Passed = res.Passed + (IF v = "passed" THEN 1 ELSE 0)
        /\ res'.Failed = res.Failed + (IF v \in Failing THEN 1 ELSE 0)
        /\ res'.InfMismatch = res.InfMismatch + (IF v = "infMismatch" THEN 1 ELSE 0)
        /\ res'.QueryErrors = res.QueryErrors + (IF v = "error" THEN 1 ELSE 0)
    BY <1>1 DEF Collect, Judged
  <2>3. /\ t \in Sampled /\ verdict[t] = Undecided
        /\ v \in Verdicts /\ (v = "passed" \/ v \in Failing \/ v = "error")
    BY <1>1, CollectJudges DEF Collect
  <2> HIDE DEF t, v
  <2>4. \A V \in SUBSET Verdicts :
          /\ Cardinality(Given(V)) \in Nat
          /\ Cardinality(Given(V)') = Cardinality(Given(V)) + (IF v \in V THEN 1 ELSE 0)
    BY <1>a, <2>1, <2>3, GivenStep
  <2>5. {"passed"} \in SUBSET Verdicts /\ Failing \in SUBSET Verdicts
        /\ {"infMismatch"} \in SUBSET Verdicts /\ {"error"} \in SUBSET Verdicts
    BY DEF Verdicts, Failing
  <2>6. /\ res'.Passed = Cardinality(Given({"passed"})')
        /\ res'.Failed = Cardinality(Given(Failing)')
        /\ res'.InfMismatch = Cardinality(Given({"infMismatch"})')
        /\ res'.QueryErrors = Cardinality(Given({"error"})')
    BY <2>2, <2>4, <2>5 DEF Counted
  <2>7. Cardinality(DecidedSet') = Cardinality(DecidedSet) + 1 /\ Cardinality(DecidedSet) \in Nat
    <3>1. t \notin DecidedSet /\ DecidedSet' = DecidedSet \cup {t}
      BY <1>a, <2>1, <2>3, PoolAssumption
      DEF DecidedSet, Decided, TypeInv, TypeOK, Verdicts
    <3>2. IsFiniteSet(DecidedSet) /\ Cardinality(DecidedSet) \in Nat
      BY SampledFinite DEF DecidedSet
    <3> QED
      BY <3>1, <3>2, FS_AddElement
  <2>8. /\ res.Passed \in Nat /\ res.Failed \in Nat /\ res.QueryErrors \in Nat
        /\ rec \in [samples : Nat, errors : Nat]
    BY DEF TypeInv, TypeOK, Counters
  <2>9. res'.Passed + res'.Failed + res'.QueryErrors
          = res.Passed + res.Failed + res.QueryErrors + 1
    BY <2>2, <2>3, <2>8 DEF Failing
  <2>10. rec'.samples + rec'.errors = rec.samples + rec.errors + 1
    BY <2>1, <2>8
  <2> QED
    BY <2>6, <2>7, <2>9, <2>10 DEF Counted
<1>2. ASSUME UNCHANGED <<res, rec, verdict>> PROVE Counted'
  <2>1. DecidedSet' = DecidedSet /\ \A V : Given(V)' = Given(V)
    BY <1>a, <1>2 DEF DecidedSet, Decided, Given
  <2> QED
    BY <1>2, <2>1 DEF Counted, Failing
<1> QED
  BY <1>1, <1>2
  DEF Next, vars, Feeder, Collector, Worker, QueryReturns, Finished, FeedJob,
      CloseJobs, CloseOut, TakeJob, QueryAnswered, QueryFailed, SendResult,
      WorkerExit, WriteReport

(* A sample without repetitions is as large as the list.                   *)
LEMMA SampleSizeIsLen ==
  ASSUME TypeInv, Injective(targets)
  PROVE  Cardinality(Sampled) = Len(targets)
<1>1. /\ Len(targets) \in Nat /\ DOMAIN targets = 1..Len(targets)
      /\ targets \in [1..Len(targets) -> Eligible]
  BY LenProperties DEF TypeInv, TypeOK
<1>2. targets \in [1..Len(targets) -> Sampled]
  BY <1>1 DEF Sampled
<1>3. targets \in Bijection(1..Len(targets), Sampled)
  <2>1. \A i, j \in 1..Len(targets) : targets[i] = targets[j] => i = j
    BY <1>1 DEF Injective
  <2>2. \A t \in Sampled : \E i \in 1..Len(targets) : targets[i] = t
    BY <1>1 DEF Sampled
  <2> QED
    BY <1>2, <2>1, <2>2 DEF Bijection, Injection, Surjection, IsInjective
<1>4. IsFiniteSet(1..Len(targets)) /\ Cardinality(1..Len(targets)) = Len(targets)
  BY <1>1, FS_Interval
<1> QED
  BY <1>3, <1>4, FS_Bijection DEF ExistsBijection

(* The conjunction is inductive.                                           *)
THEOREM PoolInvariant == Spec => []PoolInv
<1>1. Spec => [](TypeInv /\ CloseOrder /\ Conserved /\ Counted)
  BY TypeInvInit, TypeInvStep, CloseOrderInit, CloseOrderStep, ConservedInit,
     ConservedStep, CountedInit, CountedStep, PTL DEF Spec
<1>2. CloseOrder /\ Conserved /\ Counted => PoolInv
  BY DEF PoolInv
<1> QED
  BY <1>1, <1>2, PTL

(* When a report is there, every target has come through the whole pool.   *)
LEMMA CompleteWhenPublished == TypeInv /\ PoolInv => ReportComplete
<1> SUFFICES ASSUME TypeInv, PoolInv, report # Unpublished
             PROVE  ReportComplete
  BY DEF ReportComplete
<1>1. CloseOrder /\ Conserved /\ Counted
  BY DEF PoolInv
<1>2. outClosed /\ out = <<>> /\ report = res /\ sent = Len(targets)
  BY <1>1 DEF CloseOrder, TypeInv, TypeOK
<1>3. \A w \in Workers : wpc[w] = "exited"
  BY <1>1, <1>2, WaitReturns DEF CloseOrder
<1>4. HeldSet = {} /\ OutSet = {}
  BY <1>2, <1>3, EmptySeq DEF HeldSet, Busy, OutSet
<1>5. JobSet = {}
  <2>1. CASE Workers = {}
    <3>1. Len(jobs) <= 0 /\ Len(jobs) \in Nat
      BY <1>1, <2>1, FS_EmptySet, LenProperties DEF CloseOrder, ChanCap, TypeInv, TypeOK
    <3> QED
      BY <3>1 DEF JobSet
  <2>2. CASE Workers # {}
    BY <1>1, <1>3, <2>2, EmptySeq DEF CloseOrder, JobSet
  <2> QED
    BY <2>1, <2>2
<1>6. Fed = Sampled
  BY <1>2, LenProperties DEF Fed, Sampled, TypeInv, TypeOK
<1>7. DecidedSet = Sampled
  BY <1>1, <1>4, <1>5, <1>6 DEF Conserved
<1>8. Cardinality(DecidedSet) = Len(targets)
  BY <1>1, <1>7, SampleSizeIsLen DEF Conserved
<1> QED
  BY <1>1, <1>2, <1>7, <1>8 DEF ReportComplete, Counted, DecidedSet

(* The report that is written judges the whole sample, each target once.   *)
THEOREM ReportIsComplete == Spec => []ReportComplete
<1>1. Spec => []TypeInv
  BY TypeInvInit, TypeInvStep, PTL DEF Spec
<1> QED
  BY <1>1, CompleteWhenPublished, PoolInvariant, PTL

-----------------------------------------------------------------------------
(* FirstFails holds targets of the sample, which no later answer judges    *)
(* again, and as many of the failures counted as there is room for.        *)
KeptInv ==
  /\ FirstFailsFaithful
  /\ \A i \in DOMAIN firstFails : firstFails[i] \in Sampled

(* No failure is counted and none kept. *)
LEMMA KeptInit == Init => KeptInv
<1> SUFFICES ASSUME Init PROVE KeptInv
  OBVIOUS
<1>1. firstFails = <<>> /\ res.Failed = 0
  BY DEF Init
<1>2. Len(<<>>) = 0 /\ DOMAIN <<>> = {}
  BY EmptySeq
<1> QED
  BY <1>1, <1>2, PoolAssumption DEF KeptInv, FirstFailsFaithful, Injective

(* The collector keeps a failure it has just counted, if there is room.    *)
LEMMA KeptStep == TypeInv /\ Conserved /\ KeptInv /\ [Next]_vars => KeptInv'
<1> SUFFICES ASSUME TypeInv, Conserved, KeptInv, [Next]_vars PROVE KeptInv'
  OBVIOUS
<1>a. UNCHANGED targets /\ Sampled' = Sampled
  BY TargetsFixed DEF Sampled
<1>1. CASE Collect
  <2> DEFINE t == Answered
             v == Judged
  <2>1. /\ verdict' = [verdict EXCEPT ![t] = v]
        /\ res'.Failed = res.Failed + (IF v \in Failing THEN 1 ELSE 0)
        /\ firstFails' = IF v \in Failing /\ Len(firstFails) < MaxFirstFails
                         THEN Append(firstFails, t) ELSE firstFails
    BY <1>1 DEF Collect, Answered, Judged
  <2>2. t \in Sampled /\ t \in Eligible /\ verdict[t] = Undecided
    BY <1>1, CollectJudges DEF Collect
  <2> HIDE DEF t, v
  <2>3. /\ firstFails \in Seq(Eligible) /\ Len(firstFails) \in Nat
        /\ DOMAIN firstFails = 1..Len(firstFails)
        /\ res.Failed \in Nat /\ MaxFirstFails \in Nat
        /\ verdict \in [Sampled -> Verdicts \cup {Undecided}]
    BY PoolAssumption, LenProperties DEF TypeInv, TypeOK, Counters
  <2>4. Undecided \notin Failing
    BY PoolAssumption DEF Failing
  <2>5. \A i \in DOMAIN firstFails : firstFails[i] # t
    BY <2>2, <2>4 DEF KeptInv, FirstFailsFaithful
  <2>6. /\ Len(firstFails) = IF res.Failed < MaxFirstFails THEN res.Failed
                             ELSE MaxFirstFails
        /\ Injective(firstFails)
        /\ \A i \in DOMAIN firstFails : /\ firstFails[i] \in Sampled
                                       /\ verdict[firstFails[i]] \in Failing
    BY DEF KeptInv, FirstFailsFaithful
  <2>7. \A i \in DOMAIN firstFails : verdict'[firstFails[i]] \in Failing
    BY <2>1, <2>3, <2>5, <2>6
  <2>8. CASE v \in Failing /\ Len(firstFails) < MaxFirstFails
    <3>1. firstFails' = Append(firstFails, t)
      BY <2>1, <2>8
    <3>2. /\ firstFails' \in Seq(Eligible) /\ Len(firstFails') = Len(firstFails) + 1
          /\ \A i \in 1..Len(firstFails) : firstFails'[i] = firstFails[i]
          /\ firstFails'[Len(firstFails) + 1] = t
      BY <2>2, <2>3, <3>1, AppendFacts
    <3>3. DOMAIN firstFails' = 1..(Len(firstFails) + 1)
      BY <3>2, LenProperties
    <3>4. \A i \in DOMAIN firstFails' :
            i \in DOMAIN firstFails \/ i = Len(firstFails) + 1
      BY <2>3, <3>3
    <3>5. Injective(firstFails')
      BY <2>3, <2>5, <2>6, <3>2, <3>4 DEF Injective
    <3>6. verdict'[t] = v
      BY <2>1, <2>2, <2>3
    <3>7. \A i \in DOMAIN firstFails' : /\ firstFails'[i] \in Sampled
                                      /\ verdict'[firstFails'[i]] \in Failing
      BY <2>2, <2>3, <2>6, <2>7, <2>8, <3>2, <3>4, <3>6
    <3>8. Len(firstFails') = IF res'.Failed < MaxFirstFails THEN res'.Failed
                             ELSE MaxFirstFails
      BY <2>1, <2>3, <2>6, <2>8, <3>2
    <3> QED
      BY <1>a, <3>5, <3>7, <3>8 DEF KeptInv, FirstFailsFaithful
  <2>9. CASE ~(v \in Failing /\ Len(firstFails) < MaxFirstFails)
    <3>1. firstFails' = firstFails
      BY <2>1, <2>9
    <3>2. Len(firstFails') = IF res'.Failed < MaxFirstFails THEN res'.Failed
                             ELSE MaxFirstFails
      BY <2>1, <2>3, <2>6, <2>9, <3>1
    <3> QED
      BY <1>a, <2>6, <2>7, <3>1, <3>2 DEF KeptInv, FirstFailsFaithful
  <2> QED
    BY <2>8, <2>9
<1>2. ASSUME UNCHANGED <<res, firstFails, verdict>> PROVE KeptInv'
  BY <1>a, <1>2 DEF KeptInv, FirstFailsFaithful, Injective
<1> QED
  BY <1>1, <1>2
  DEF Next, vars, Feeder, Collector, Worker, QueryReturns, Finished, FeedJob,
      CloseJobs, CloseOut, TakeJob, QueryAnswered, QueryFailed, SendResult,
      WorkerExit, WriteReport

(* The report's excerpt of the failures is distinct failing targets, all   *)
(* of them up to the limit.                                                *)
THEOREM FirstFailsKept == Spec => []FirstFailsFaithful
<1>1. Spec => [](TypeInv /\ Conserved /\ KeptInv)
  BY TypeInvInit, TypeInvStep, ConservedInit, ConservedStep, KeptInit, KeptStep, PTL
  DEF Spec
<1>2. KeptInv => FirstFailsFaithful
  BY DEF KeptInv
<1> QED
  BY <1>1, <1>2, PTL

-----------------------------------------------------------------------------
(* The ledger counts its items as the pool does.                           *)
LEMMA LedgerCardinality == \A S : L!Cardinality(S) = Cardinality(S)
  BY DEF L!Cardinality, Cardinality

(* The pool starts as the ledger does.                                     *)
LEMMA LedgerInit == Init => L!LInit
  BY DEF Init, L!LInit, L!Items, CountPerVerdict

(* A target the collector judges is an item the ledger judges; the report  *)
(* it writes is the ledger's tally; everything else the pool does, the     *)
(* ledger does not see.                                                    *)
LEMMA LedgerStep ==
  TypeInv /\ PoolInv /\ [Next]_vars => [L!LNext]_(L!lvars)
<1> SUFFICES ASSUME TypeInv, PoolInv, [Next]_vars PROVE [L!LNext]_(L!lvars)
  OBVIOUS
<1>1. CASE Collect
  <2>1. /\ report = Unpublished /\ report' = report /\ out # <<>>
        /\ verdict' = [verdict EXCEPT ![Answered] = Judged]
    BY <1>1 DEF Collect, Answered, Judged
  <2>2. Answered \in Sampled /\ verdict[Answered] = Undecided /\ Judged \in Verdicts
    BY <2>1, CollectJudges DEF PoolInv
  <2>3. Answered \in DOMAIN verdict
    BY <2>2 DEF TypeInv, TypeOK
  <2>4. CountPerVerdict = Unpublished /\ CountPerVerdict' = CountPerVerdict
    BY <2>1 DEF CountPerVerdict
  <2>5. L!Judge(Answered)
    BY <2>1, <2>2, <2>4 DEF L!Judge
  <2> QED
    BY <2>3, <2>5 DEF L!LNext, L!Items
<1>2. CASE WriteReport
  <2>1. /\ report = Unpublished /\ report' = res
        /\ UNCHANGED <<targets, verdict, rec>>
    BY <1>2 DEF WriteReport
  <2>2. TypeInv' /\ CloseOrder' /\ Conserved' /\ Counted'
    BY TypeInvStep, CloseOrderStep, ConservedStep, CountedStep DEF PoolInv
  <2>3. ReportComplete'
    BY <2>2, CompleteWhenPublished, PTL DEF PoolInv
  <2>4. report' # Unpublished /\ report' \in Counters
    BY <2>1, PoolAssumption DEF TypeInv, TypeOK, Counters
  <2>5. DOMAIN verdict = Sampled /\ verdict \in [Sampled -> Verdicts \cup {Undecided}]
    BY DEF TypeInv, TypeOK
  <2>6. \A t \in Sampled : verdict[t] \in Verdicts
    BY <2>1, <2>3, <2>4, <2>5 DEF ReportComplete, Decided, Sampled
  <2>7. \A V : Given(V)' = Given(V)
    BY <2>1 DEF Given, Sampled
  <2>8. /\ report'.Passed = Cardinality(Given({"passed"}))
        /\ report'.Failed = Cardinality(Given(Failing))
        /\ report'.InfMismatch = Cardinality(Given({"infMismatch"}))
        /\ report'.QueryErrors = Cardinality(Given({"error"}))
    BY <2>3, <2>4, <2>7 DEF ReportComplete, Failing
  <2>9. report'.Failed - report'.InfMismatch = Cardinality(Given({"wrong"}))
    <3> DEFINE A == Given({"infMismatch"})
               B == Given({"wrong"})
    <3>1. Given(Failing) = A \cup B /\ A \cap B = {}
      BY DEF Given, Failing
    <3>2. /\ IsFiniteSet(A) /\ Cardinality(A) \in Nat
          /\ IsFiniteSet(B) /\ Cardinality(B) \in Nat
      BY SampledFinite DEF Given
    <3>3. Cardinality(A \cup B) = Cardinality(A) + Cardinality(B) - Cardinality(A \cap B)
      BY <3>2, FS_Union
    <3>4. Cardinality(A \cap B) = 0
      BY <3>1, FS_EmptySet
    <3>5. Cardinality(Given(Failing)) = Cardinality(A) + Cardinality(B)
      BY <3>1, <3>2, <3>3, <3>4
    <3> HIDE DEF A, B
    <3>6. report'.Failed = Cardinality(A) + Cardinality(B) /\ report'.InfMismatch = Cardinality(A)
      BY <2>8, <3>5 DEF A
    <3>7. report'.Failed - report'.InfMismatch = Cardinality(B)
      BY <3>2, <3>6
    <3> QED
      BY <3>7 DEF B
  <2>10. \A v : L!Judged(v) = Given({v})
    BY <2>5 DEF L!Judged, L!Items, Given
  <2>11. L!Publish
    <3>1. \A v \in Verdicts : CountOf(v)' = Cardinality(L!Judged(v))
      BY <2>8, <2>9, <2>10 DEF Verdicts, CountOf
    <3>2. [v \in Verdicts |-> CountOf(v)'] = [v \in Verdicts |-> Cardinality(L!Judged(v))]
      BY <3>1, Zenon
    <3>3. L!Tally = [v \in Verdicts |-> Cardinality(L!Judged(v))]
      BY LedgerCardinality, Zenon DEF L!Tally
    <3>4. CountPerVerdict' = [v \in Verdicts |-> CountOf(v)']
      BY <2>4, Zenon DEF CountPerVerdict
    <3>5. CountPerVerdict' = L!Tally
      BY <3>2, <3>3, <3>4, Zenon
    <3>6. CountPerVerdict = Unpublished
      BY <2>1 DEF CountPerVerdict
    <3> QED
      BY <2>1, <2>5, <2>6, <3>5, <3>6 DEF L!Publish, L!Items
  <2> QED
    BY <2>11 DEF L!LNext
<1>3. CASE UNCHANGED <<verdict, report>>
  <2>1. CountPerVerdict' = CountPerVerdict
    BY <1>3 DEF CountPerVerdict, CountOf
  <2> QED
    BY <1>3, <2>1 DEF L!lvars
<1> QED
  BY <1>1, <1>2, <1>3
  DEF Next, vars, Feeder, Collector, Worker, QueryReturns, Finished, FeedJob,
      CloseJobs, CloseOut, TakeJob, QueryAnswered, QueryFailed, SendResult,
      WorkerExit

(* The pool keeps the promise of Ledger: every target judged once, and one *)
(* report, after the last judgement, that tallies the verdicts.            *)
THEOREM PoolImplementsLedger == Spec => ImplementsLedger
<1>1. Spec => [](TypeInv /\ PoolInv)
  <2>1. Spec => []TypeInv
    BY TypeInvInit, TypeInvStep, PTL DEF Spec
  <2> QED
    BY <2>1, PoolInvariant, PTL
<1> QED
  BY <1>1, LedgerInit, LedgerStep, PTL DEF Spec, ImplementsLedger, L!LSpec
=============================================================================
