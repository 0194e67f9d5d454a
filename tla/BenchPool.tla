----------------------------- MODULE BenchPool ------------------------------
(***************************************************************************)
(* cmd/bench in correctness mode: pickTargets and runCorrectness.  A       *)
(* feeder goroutine sends the sampled targets down the channel jobs, a     *)
(* pool of workers asks the alpha for each one and sends the answer down   *)
(* the channel out, and the main goroutine judges every answer against the *)
(* reference distances and writes the report when out is closed.           *)
(*                                                                         *)
(* Distances are naturals (or Inf); the tolerance 0.0001 is 1/EpsInv.      *)
(***************************************************************************)
EXTENDS Integers, Sequences, FiniteSets

CONSTANTS
  Ref,            (* reference SSSP output: vertex -> distance or Inf      *)
  Source,         (* ds.Properties.SourceVertex                            *)
  UidMapped,      (* the vertices the uid map knows                        *)
  SampleSize,     (* -targets; <= 0 means all                              *)
  Workers,        (* the worker goroutines, -concurrency of them           *)
  Dists,          (* the finite distances a query may return               *)
  Inf,            (* math.Inf(+1): no path                                 *)
  EpsInv,         (* 1/epsilon                                             *)
  MaxFirstFails,  (* failures kept in the report (20 in the code)          *)
  NoAnswer,       (* a worker holds no query                               *)
  Undecided,      (* a target that is not judged yet                       *)
  Unpublished     (* the report is not written yet                         *)

Vertices == DOMAIN Ref

ASSUME PoolAssumption ==
  /\ IsFiniteSet(Vertices) /\ Vertices \subseteq Int
  /\ IsFiniteSet(Workers)
  /\ SampleSize \in Int
  /\ Dists \subseteq Nat /\ Inf \notin Nat
  /\ Ref \in [Vertices -> Nat \cup {Inf}]
  /\ EpsInv \in Nat \ {0}
  /\ MaxFirstFails \in Nat
  /\ Undecided \notin {"passed", "infMismatch", "wrong", "error"}
  /\ Unpublished \notin
       [Passed : Nat, Failed : Nat, InfMismatch : Nat, QueryErrors : Nat]

VARIABLES
  targets,        (* the sample, in the order it is fed                    *)
  sent,           (* how many targets the feeder has sent                  *)
  feeder,         (* "feed" | "wait" | "exited"                            *)
  jobs,           (* channel jobs, oldest first                            *)
  jobsClosed,
  wpc,            (* worker -> "range" | "query" | "send" | "exited"       *)
  held,           (* worker -> the queryResult it is working on            *)
  wg,             (* the WaitGroup's counter                               *)
  out,            (* channel out, oldest first                             *)
  outClosed,
  res,            (* the counters of correctnessResult                     *)
  firstFails,     (* res.FirstFails                                        *)
  rec,            (* stats.Recorder: recorded latencies and errors         *)
  verdict,        (* history: target -> the verdict it was given           *)
  report          (* what writeJSON was given, or Unpublished              *)

vars == <<targets, sent, feeder, jobs, jobsClosed, wpc, held, wg, out,
          outClosed, res, firstFails, rec, verdict, report>>

-----------------------------------------------------------------------------
Eligible == {v \in Vertices : v # Source /\ v \in UidMapped}

Injective(s) == \A i, j \in DOMAIN s : s[i] = s[j] => i = j
Ascending(s) == \A i, j \in DOMAIN s : i < j => s[i] < s[j]

(* Sorted when everything is taken, else the prefix of a seeded shuffle.   *)
PickTargets ==
  LET n == Cardinality(Eligible) IN
  IF SampleSize <= 0 \/ SampleSize >= n
  THEN {s \in [1..n -> Eligible] : Ascending(s)}
  ELSE {s \in [1..SampleSize -> Eligible] : Injective(s)}

Sampled == {targets[i] : i \in DOMAIN targets}

ChanCap == 2 * Cardinality(Workers)

Abs(x) == IF x < 0 THEN -x ELSE x

(* relErr(expected, got) > epsilon *)
OffReference(expected, got) ==
  IF expected = 0 THEN Abs(got) * EpsInv > 1
                  ELSE Abs(expected - got) * EpsInv > Abs(expected)

Verdicts == {"passed", "infMismatch", "wrong", "error"}

Classify(qr) ==
  LET expected == Ref[qr.tgt] IN
  IF qr.err THEN "error"
  ELSE IF expected = Inf /\ qr.dist = Inf THEN "passed"
  ELSE IF (expected = Inf) # (qr.dist = Inf) THEN "infMismatch"
  ELSE IF OffReference(expected, qr.dist) THEN "wrong"
  ELSE "passed"

Failing == {"infMismatch", "wrong"}
Counters == [Passed : Nat, Failed : Nat, InfMismatch : Nat, QueryErrors : Nat]
QueryResult == [tgt : Eligible, err : BOOLEAN, dist : Dists \cup {Inf, 0}]

-----------------------------------------------------------------------------
Init ==
  /\ targets \in PickTargets
  /\ sent = 0
  /\ feeder = "feed"
  /\ jobs = <<>> /\ jobsClosed = FALSE
  /\ wpc = [w \in Workers |-> "range"]
  /\ held = [w \in Workers |-> NoAnswer]
  /\ wg = Cardinality(Workers)
  /\ out = <<>> /\ outClosed = FALSE
  /\ res = [Passed |-> 0, Failed |-> 0, InfMismatch |-> 0, QueryErrors |-> 0]
  /\ firstFails = <<>>
  /\ rec = [samples |-> 0, errors |-> 0]
  /\ verdict = [t \in Sampled |-> Undecided]
  /\ report = Unpublished

(* The feeder: for _, t := range targets { jobs <- t }; close(jobs);       *)
(* wg.Wait(); close(out).                                                  *)
FeedJob ==
  /\ feeder = "feed"
  /\ sent < Len(targets)
  /\ Len(jobs) < ChanCap
  /\ jobs' = Append(jobs, targets[sent + 1])
  /\ sent' = sent + 1
  /\ UNCHANGED <<targets, feeder, jobsClosed, wpc, held, wg, out, outClosed,
                 res, firstFails, rec, verdict, report>>

CloseJobs ==
  /\ feeder = "feed"
  /\ sent = Len(targets)
  /\ jobsClosed' = TRUE
  /\ feeder' = "wait"
  /\ UNCHANGED <<targets, sent, jobs, wpc, held, wg, out, outClosed,
                 res, firstFails, rec, verdict, report>>

(* Mutant: close(out) without waiting for the workers. *)
CloseOutNoWait ==
  /\ feeder = "wait"
  /\ outClosed' = TRUE
  /\ feeder' = "exited"
  /\ UNCHANGED <<targets, sent, jobs, jobsClosed, wpc, held, wg, out,
                 res, firstFails, rec, verdict, report>>

CloseOut ==
  /\ feeder = "wait"
  /\ wg = 0
  /\ outClosed' = TRUE
  /\ feeder' = "exited"
  /\ UNCHANGED <<targets, sent, jobs, jobsClosed, wpc, held, wg, out,
                 res, firstFails, rec, verdict, report>>

(* A worker: for tgt := range jobs { sr, err := c.Shortest(..); out <- .. } *)
TakeJob(w) ==
  /\ wpc[w] = "range"
  /\ jobs # <<>>
  /\ held' = [held EXCEPT ![w] = [tgt |-> Head(jobs), err |-> FALSE, dist |-> 0]]
  /\ jobs' = Tail(jobs)
  /\ wpc' = [wpc EXCEPT ![w] = "query"]
  /\ UNCHANGED <<targets, sent, feeder, jobsClosed, wg, out, outClosed,
                 res, firstFails, rec, verdict, report>>

(* c.Shortest returned a distance: any one the alpha cares to give.        *)
QueryAnswered(w) ==
  /\ wpc[w] = "query"
  /\ \E d \in Dists \cup {Inf} :
       held' = [held EXCEPT ![w] = [@ EXCEPT !.dist = d]]
  /\ wpc' = [wpc EXCEPT ![w] = "send"]
  /\ UNCHANGED <<targets, sent, feeder, jobs, jobsClosed, wg, out, outClosed,
                 res, firstFails, rec, verdict, report>>

(* Mutants of the error path: the worker goes on to the next job as perf    *)
(* mode does, gives the job back, or signs off from the WaitGroup.         *)
QueryFailedDrops(w) ==
  /\ wpc[w] = "query"
  /\ held' = [held EXCEPT ![w] = NoAnswer]
  /\ wpc' = [wpc EXCEPT ![w] = "range"]
  /\ UNCHANGED <<targets, sent, feeder, jobs, jobsClosed, wg, out, outClosed,
                 res, firstFails, rec, verdict, report>>

QueryFailedRequeues(w) ==
  /\ wpc[w] = "query"
  /\ Len(jobs) < ChanCap
  /\ jobs' = Append(jobs, held[w].tgt)
  /\ held' = [held EXCEPT ![w] = NoAnswer]
  /\ wpc' = [wpc EXCEPT ![w] = "range"]
  /\ UNCHANGED <<targets, sent, feeder, jobsClosed, wg, out, outClosed,
                 res, firstFails, rec, verdict, report>>

QueryFailedSignsOff(w) ==
  /\ wpc[w] = "query"
  /\ held' = [held EXCEPT ![w] = [@ EXCEPT !.err = TRUE]]
  /\ wpc' = [wpc EXCEPT ![w] = "send"]
  /\ wg' = wg - 1
  /\ UNCHANGED <<targets, sent, feeder, jobs, jobsClosed, out, outClosed,
                 res, firstFails, rec, verdict, report>>

(* c.Shortest returned an error: the deadline, the transport or the decoder. *)
QueryFailed(w) ==
  /\ wpc[w] = "query"
  /\ held' = [held EXCEPT ![w] = [@ EXCEPT !.err = TRUE]]
  /\ wpc' = [wpc EXCEPT ![w] = "send"]
  /\ UNCHANGED <<targets, sent, feeder, jobs, jobsClosed, wg, out, outClosed,
                 res, firstFails, rec, verdict, report>>

SendResult(w) ==
  /\ wpc[w] = "send"
  /\ Len(out) < ChanCap
  /\ out' = Append(out, held[w])
  /\ held' = [held EXCEPT ![w] = NoAnswer]
  /\ wpc' = [wpc EXCEPT ![w] = "range"]
  /\ UNCHANGED <<targets, sent, feeder, jobs, jobsClosed, wg, outClosed,
                 res, firstFails, rec, verdict, report>>

WorkerExit(w) ==
  /\ wpc[w] = "range"
  /\ jobs = <<>> /\ jobsClosed
  /\ wpc' = [wpc EXCEPT ![w] = "exited"]
  /\ wg' = wg - 1
  /\ UNCHANGED <<targets, sent, feeder, jobs, jobsClosed, held, out, outClosed,
                 res, firstFails, rec, verdict, report>>

(* Mutants: an infinity mismatch is not counted as a failure; one failure  *)
(* too many is kept.                                                       *)
CollectMiscounts ==
  /\ report = Unpublished
  /\ out # <<>>
  /\ LET qr == Head(out)
         v  == Classify(qr)
     IN
     /\ res' = [Passed      |-> res.Passed + (IF v = "passed" THEN 1 ELSE 0),
                Failed      |-> res.Failed + (IF v = "wrong" THEN 1 ELSE 0),
                InfMismatch |-> res.InfMismatch + (IF v = "infMismatch" THEN 1 ELSE 0),
                QueryErrors |-> res.QueryErrors + (IF v = "error" THEN 1 ELSE 0)]
     /\ rec' = IF qr.err THEN [rec EXCEPT !.errors = @ + 1]
                         ELSE [rec EXCEPT !.samples = @ + 1]
     /\ verdict' = [verdict EXCEPT ![qr.tgt] = v]
  /\ out' = Tail(out)
  /\ UNCHANGED <<targets, sent, feeder, jobs, jobsClosed, wpc, held, wg,
                 outClosed, firstFails, report>>

CollectOverfull ==
  /\ report = Unpublished
  /\ out # <<>>
  /\ LET qr == Head(out)
         v  == Classify(qr)
     IN
     /\ res' = [res EXCEPT !.Failed = @ + (IF v \in Failing THEN 1 ELSE 0)]
     /\ firstFails' = IF v \in Failing /\ Len(firstFails) <= MaxFirstFails
                      THEN Append(firstFails, qr.tgt) ELSE firstFails
     /\ verdict' = [verdict EXCEPT ![qr.tgt] = v]
  /\ out' = Tail(out)
  /\ UNCHANGED <<targets, sent, feeder, jobs, jobsClosed, wpc, held, wg,
                 outClosed, rec, report>>

(* The collector: for qr := range out { ... }, then writeJSON.             *)
Collect ==
  /\ report = Unpublished
  /\ out # <<>>
  /\ LET qr == Head(out)
         v  == Classify(qr)
     IN
     /\ res' = [Passed      |-> res.Passed + (IF v = "passed" THEN 1 ELSE 0),
                Failed      |-> res.Failed + (IF v \in Failing THEN 1 ELSE 0),
                InfMismatch |-> res.InfMismatch + (IF v = "infMismatch" THEN 1 ELSE 0),
                QueryErrors |-> res.QueryErrors + (IF v = "error" THEN 1 ELSE 0)]
     /\ firstFails' = IF v \in Failing /\ Len(firstFails) < MaxFirstFails
                      THEN Append(firstFails, qr.tgt) ELSE firstFails
     /\ rec' = IF qr.err THEN [rec EXCEPT !.errors = @ + 1]
                         ELSE [rec EXCEPT !.samples = @ + 1]
     /\ verdict' = [verdict EXCEPT ![qr.tgt] = v]
  /\ out' = Tail(out)
  /\ UNCHANGED <<targets, sent, feeder, jobs, jobsClosed, wpc, held, wg,
                 outClosed, report>>

(* Mutant: the report is written when out is closed, not when it is drained. *)
WriteReportEarly ==
  /\ report = Unpublished
  /\ outClosed
  /\ report' = res
  /\ UNCHANGED <<targets, sent, feeder, jobs, jobsClosed, wpc, held, wg, out,
                 outClosed, res, firstFails, rec, verdict>>

WriteReport ==
  /\ report = Unpublished
  /\ out = <<>> /\ outClosed
  /\ report' = res
  /\ UNCHANGED <<targets, sent, feeder, jobs, jobsClosed, wpc, held, wg, out,
                 outClosed, res, firstFails, rec, verdict>>

(* The process has returned from runCorrectness. *)
Finished == report # Unpublished /\ UNCHANGED vars

Worker(w) == TakeJob(w) \/ SendResult(w) \/ WorkerExit(w)
QueryReturns(w) == QueryAnswered(w) \/ QueryFailed(w)
Feeder == FeedJob \/ CloseJobs \/ CloseOut
Collector == Collect \/ WriteReport

Next ==
  \/ Feeder
  \/ Collector
  \/ \E w \in Workers : Worker(w) \/ QueryReturns(w)
  \/ Finished

Spec == Init /\ [][Next]_vars

(* The Go scheduler runs every runnable goroutine, and context.WithTimeout *)
(* makes every query return when -timeout is positive (60s by default).    *)
FairSpec ==
  /\ Spec
  /\ WF_vars(Feeder) /\ WF_vars(Collector)
  /\ \A w \in Workers : WF_vars(Worker(w)) /\ WF_vars(QueryReturns(w))
-----------------------------------------------------------------------------
TypeOK ==
  /\ targets \in Seq(Eligible)
  /\ sent \in 0..Len(targets)
  /\ feeder \in {"feed", "wait", "exited"}
  /\ jobs \in Seq(Eligible) /\ jobsClosed \in BOOLEAN
  /\ wpc \in [Workers -> {"range", "query", "send", "exited"}]
  /\ held \in [Workers -> QueryResult \cup {NoAnswer}]
  /\ wg \in 0..Cardinality(Workers)
  /\ out \in Seq(QueryResult) /\ outClosed \in BOOLEAN
  /\ res \in Counters
  /\ firstFails \in Seq(Eligible)
  /\ rec \in [samples : Nat, errors : Nat]
  /\ verdict \in [Sampled -> Verdicts \cup {Undecided}]
  /\ report \in Counters \cup {Unpublished}

(* The places a target can be in.                                          *)
ToFeed(t)   == \E i \in DOMAIN targets : i > sent /\ targets[i] = t
InJobs(t)   == \E i \in DOMAIN jobs : jobs[i] = t
HeldBy(w,t) == wpc[w] \in {"query", "send"} /\ held[w].tgt = t
InOut(t)    == \E i \in DOMAIN out : out[i].tgt = t
Decided(t)  == verdict[t] # Undecided

(* No target is lost on its way from the sample to the report: an undecided *)
(* one is still to be fed, in jobs, with a worker, or in out.              *)
NoTargetLost ==
  \A t \in Sampled :
    Decided(t) \/ ToFeed(t) \/ InJobs(t) \/ InOut(t) \/ \E w \in Workers : HeldBy(w, t)

(* No target is asked for twice: a decided one is nowhere in the pipeline, *)
(* so the collector counts each target once.                               *)
NoTargetTwice ==
  \A t \in Sampled :
    Decided(t) => ~(ToFeed(t) \/ InJobs(t) \/ InOut(t) \/ \E w \in Workers : HeldBy(w, t))

(* close(out) comes after the last send: a worker still running when out is *)
(* closed would panic on it, and one result would be lost.                 *)
NoSendOnClosedOut ==
  outClosed => /\ sent = Len(targets) /\ jobs = <<>>
               /\ \A w \in Workers : wpc[w] = "exited"

(* The targets that were given one of the verdicts V.                      *)
Given(V) == {t \in Sampled : verdict[t] \in V}

(* The report accounts for the whole sample: every target has a verdict    *)
(* and each counter is the number of targets that got it.                  *)
ReportComplete ==
  report # Unpublished =>
    /\ \A t \in Sampled : Decided(t)
    /\ report.Passed = Cardinality(Given({"passed"}))
    /\ report.Failed = Cardinality(Given(Failing))
    /\ report.InfMismatch = Cardinality(Given({"infMismatch"}))
    /\ report.QueryErrors = Cardinality(Given({"error"}))
    /\ report.Passed + report.Failed + report.QueryErrors = Len(targets)
    /\ rec.samples + rec.errors = Len(targets)

(* FirstFails is a faithful excerpt of the failures: distinct failing      *)
(* targets, all of them while there is room.                               *)
FirstFailsFaithful ==
  /\ Injective(firstFails)
  /\ \A i \in DOMAIN firstFails : verdict[firstFails[i]] \in Failing
  /\ Len(firstFails) = IF res.Failed < MaxFirstFails THEN res.Failed ELSE MaxFirstFails

-----------------------------------------------------------------------------
(* The inductive strengthening of the invariants above.  First, the order   *)
(* in which the channels are closed.                                       *)
CloseOrder ==
  /\ jobsClosed <=> feeder # "feed"
  /\ outClosed <=> feeder = "exited"
  /\ jobsClosed => sent = Len(targets)
  /\ outClosed => wg = 0
  /\ \A w \in Workers : wpc[w] = "exited" => jobsClosed /\ jobs = <<>>
  /\ Len(jobs) <= ChanCap
  /\ report # Unpublished => outClosed /\ out = <<>> /\ report = res

(* Second, where the targets fed so far are: in exactly one of four places. *)
Fed        == {targets[i] : i \in 1..sent}
JobSet     == {jobs[i] : i \in 1..Len(jobs)}
Busy       == {w \in Workers : wpc[w] \in {"query", "send"}}
HeldSet    == {held[w].tgt : w \in Busy}
OutSet     == {out[i].tgt : i \in 1..Len(out)}
DecidedSet == {t \in Sampled : Decided(t)}

Conserved ==
  /\ Fed = JobSet \cup HeldSet \cup OutSet \cup DecidedSet
  /\ JobSet \cap HeldSet = {} /\ JobSet \cap OutSet = {} /\ JobSet \cap DecidedSet = {}
  /\ HeldSet \cap OutSet = {} /\ HeldSet \cap DecidedSet = {}
  /\ OutSet \cap DecidedSet = {}
  /\ Injective(targets) /\ Injective(jobs)
  /\ \A u, w \in Busy : held[u].tgt = held[w].tgt => u = w
  /\ \A i, j \in 1..Len(out) : out[i].tgt = out[j].tgt => i = j

(* Third, what the counters count.                                         *)
Counted ==
  /\ res.Passed = Cardinality(Given({"passed"}))
  /\ res.Failed = Cardinality(Given(Failing))
  /\ res.InfMismatch = Cardinality(Given({"infMismatch"}))
  /\ res.QueryErrors = Cardinality(Given({"error"}))
  /\ res.Passed + res.Failed + res.QueryErrors = Cardinality(DecidedSet)
  /\ rec.samples + rec.errors = Cardinality(DecidedSet)

PoolInv == CloseOrder /\ Conserved /\ Counted

-----------------------------------------------------------------------------
(* The run ends with a report, whatever the alpha answers: no goroutine is *)
(* left waiting on a full channel, an empty one or the WaitGroup.          *)
RunTerminates == <>(report # Unpublished)

(* The pool keeps the promise of Ledger.  Its report counts the wrong      *)
(* distances within the failures.                                          *)
CountOf(v) ==
  CASE v = "passed"      -> report.Passed
    [] v = "infMismatch" -> report.InfMismatch
    [] v = "wrong"       -> report.Failed - report.InfMismatch
    [] v = "error"       -> report.QueryErrors

CountPerVerdict ==
  IF report = Unpublished THEN Unpublished ELSE [v \in Verdicts |-> CountOf(v)]

L == INSTANCE Ledger WITH ledger <- verdict, report <- CountPerVerdict
ImplementsLedger == L!LSpec
=============================================================================
