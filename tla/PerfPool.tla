------------------------------ MODULE PerfPool ------------------------------
(***************************************************************************)
(* cmd/bench in perf mode: runPerf.  The pool of the correctness mode, but *)
(* the workers record into stats.Recorder themselves, and a goroutine that *)
(* samples the heap runs beside them.  It is told to stop and not awaited, *)
(* and main reads the peak without the mutex.                              *)
(*                                                                         *)
(* The pairs differ in nothing the program looks at: they are counted.     *)
(***************************************************************************)
EXTENDS Naturals, FiniteSets

CONSTANTS
  Pairs,        (* -pairs                                                  *)
  Users,        (* the worker goroutines, -concurrency of them             *)
  HeapSizes,    (* what runtime.ReadMemStats may return                    *)
  Nothing       (* no report yet                                           *)

VARIABLES
  main,         (* "feed" | "wait" | "summarize" | "returned"              *)
  sent,         (* pairs sent                                              *)
  queue,        (* how many are in the channel jobs                        *)
  closed,       (* it is closed                                            *)
  pc,           (* worker -> "range" | "query" | "exited"                  *)
  recorder,     (* the Recorder: samples, errs                             *)
  sampler,      (* "select" | "store" | "exited"                           *)
  measured,     (* the variable ms of the sampler                          *)
  stopped,      (* stopHeap is closed                                      *)
  heapPeak,
  report,       (* what writeJSON was given                                *)
  stored        (* history: what the sampler compared before the stop      *)

vars == <<main, sent, queue, closed, pc, recorder, sampler, measured, stopped, heapPeak, report, stored>>
pool == <<main, sent, queue, closed, pc, recorder, stopped, report>>

Init ==
  /\ main = "feed" /\ sent = 0
  /\ queue = 0 /\ closed = FALSE
  /\ pc = [u \in Users |-> "range"]
  /\ recorder = [samples |-> 0, errs |-> 0]
  /\ sampler = "select" /\ measured = 0 /\ stopped = FALSE
  /\ heapPeak = 0
  /\ report = Nothing
  /\ stored = {}

(* for _, p := range pairs { jobs <- p }                                   *)
Feed ==
  /\ main = "feed" /\ sent < Pairs
  /\ queue < 2 * Cardinality(Users)
  /\ sent' = sent + 1
  /\ queue' = queue + 1
  /\ UNCHANGED <<main, closed, pc, recorder, sampler, measured, stopped, heapPeak, report, stored>>

CloseJobs ==
  /\ main = "feed" /\ sent = Pairs
  /\ main' = "wait"
  /\ closed' = TRUE
  /\ UNCHANGED <<sent, queue, pc, recorder, sampler, measured, stopped, heapPeak, report, stored>>

Take(u) ==
  /\ pc[u] = "range"
  /\ \/ queue > 0 /\ queue' = queue - 1 /\ pc' = [pc EXCEPT ![u] = "query"]
     \/ queue = 0 /\ closed /\ pc' = [pc EXCEPT ![u] = "exited"] /\ UNCHANGED queue
  /\ UNCHANGED <<main, sent, closed, recorder, sampler, measured, stopped, heapPeak, report, stored>>

(* RecordError and on to the next pair, or Record.                         *)
Record(u) ==
  /\ pc[u] = "query"
  /\ pc' = [pc EXCEPT ![u] = "range"]
  /\ \E field \in DOMAIN recorder : recorder' = [recorder EXCEPT ![field] = @ + 1]
  /\ UNCHANGED <<main, sent, queue, closed, sampler, measured, stopped, heapPeak, report, stored>>

(* The select takes a tick as well as the stop while both are there.       *)
Measure ==
  /\ sampler = "select"
  /\ measured' \in HeapSizes
  /\ sampler' = "store"
  /\ UNCHANGED <<pool, heapPeak, stored>>

StopSampling ==
  /\ sampler = "select" /\ stopped
  /\ sampler' = "exited"
  /\ UNCHANGED <<pool, measured, heapPeak, stored>>

(* Under heapMu, which main does not take: before its read or after it.    *)
Store ==
  /\ sampler = "store"
  /\ heapPeak' = IF measured > heapPeak THEN measured ELSE heapPeak
  /\ stored' = IF stopped THEN stored ELSE stored \cup {measured}
  /\ sampler' = "select"
  /\ UNCHANGED <<pool, measured>>

(* Mutant: main does not wait for the workers. *)
StopAtOnce ==
  /\ main = "wait"
  /\ main' = "summarize"
  /\ stopped' = TRUE
  /\ UNCHANGED <<sent, queue, closed, pc, recorder, sampler, measured, heapPeak, report, stored>>

(* wg.Wait(); close(stopHeap).                                             *)
Stop ==
  /\ main = "wait" /\ \A u \in Users : pc[u] = "exited"
  /\ main' = "summarize"
  /\ stopped' = TRUE
  /\ UNCHANGED <<sent, queue, closed, pc, recorder, sampler, measured, heapPeak, report, stored>>

(* Summarize locks the recorder; heapPeak is read as it is.                *)
Summarize ==
  /\ main = "summarize"
  /\ report' = [count |-> recorder.samples, errors |-> recorder.errs, heapMax |-> heapPeak]
  /\ main' = "returned"
  /\ UNCHANGED <<sent, queue, closed, pc, recorder, sampler, measured, stopped, heapPeak, stored>>

Returned == main = "returned" /\ UNCHANGED vars

(* main has returned: no goroutine runs any more.                          *)
Next ==
  \/ /\ main # "returned"
     /\ \/ Feed \/ CloseJobs \/ Stop \/ Summarize
        \/ \E u \in Users : Take(u) \/ Record(u)
        \/ Measure \/ Store \/ StopSampling
  \/ Returned

-----------------------------------------------------------------------------
(* The report of perf mode counts every pair once, as a sample or as an    *)
(* error, although nobody but the WaitGroup orders the workers' records    *)
(* and the summary; and its heap peak, read beside the mutex, is at least  *)
(* all that was stored before the stop and nothing that was not measured.  *)
PerfReported ==
  report # Nothing =>
    /\ report.count + report.errors = Pairs
    /\ \A h \in stored : h <= report.heapMax
    /\ report.heapMax \in HeapSizes \cup {0}
=============================================================================
