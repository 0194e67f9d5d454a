--------------------------- MODULE LatencyFunnel ----------------------------
(***************************************************************************)
(* throughputtest: in each of three rounds every user queries for a while, *)
(* sends each latency down latC and, at the end, its count and its total   *)
(* down countC and totalP.  A goroutine nobody waits for moves latC into   *)
(* allLat; main sorts and reads allLat without a lock and without waiting  *)
(* for it.                                                                 *)
(*                                                                         *)
(* serverP, parsingP and jsonP get no value and sdLat is not printed; the  *)
(* query and the choice of the server are left out, latencies are small    *)
(* numbers.                                                                *)
(***************************************************************************)
EXTENDS Naturals, Sequences, FiniteSets, Sums

CONSTANTS
  Users,        (* -numuser goroutines in each round                       *)
  Rounds,       (* 3                                                       *)
  Latencies,    (* what server_latency may add up to                       *)
  MaxQueries,   (* bound: queries of one user in one round                 *)
  LatCap,       (* the room in latC (100000)                               *)
  Nothing       (* no value                                                *)

VARIABLES
  main,         (* "start" | "wait" | "sum" | "sort" | "sorting"           *)
                (*   | "percentiles" | "extremes" | "returned" | "fatal"   *)
  round,        (* rounds started                                          *)
  pc,           (* user -> "idle" | "loop" | "query" | "send" | "flush"    *)
                (*         | "total"                                       *)
  count,        (* user -> its variable count                              *)
  total,        (* user -> its variable totT                               *)
  dat,          (* user -> the latency in the map the replies are read into*)
  countC, totalP,
  queue,        (* latC                                                    *)
  closed,       (* all channels are                                        *)
  mover,        (* the latency taken from latC and not yet in allLat       *)
  allLat,       (* the slice allLat:                                       *)
                (*   len    the length in its header                       *)
                (*   kept   how many latencies were stored in it           *)
                (*   sum    what they add up to                            *)
                (*   whole  they are there, each once                      *)
  report        (* what is printed, and history of the sort:               *)
                (*   queries, time   the sums                              *)
                (*   ready           the latencies stored when it began    *)
                (*   sorted          the length it was given               *)
                (*   samples, last   the lengths printed from              *)

vars == <<main, round, pc, count, total, dat, countC, totalP, queue, closed, mover, allLat, report>>
users == <<pc, count, total, dat>>
results == <<countC, totalP>>
funnel == <<queue, mover, allLat>>

Init ==
  /\ main = "start" /\ round = 0
  /\ pc = [u \in Users |-> "idle"]
  /\ count = [u \in Users |-> 0] /\ total = [u \in Users |-> 0]
  /\ dat = [u \in Users |-> Nothing]
  /\ countC = <<>> /\ totalP = <<>>
  /\ queue = <<>> /\ closed = FALSE
  /\ mover = <<>>
  /\ allLat = [len |-> 0, kept |-> 0, sum |-> 0, whole |-> TRUE]
  /\ report = [queries |-> 0, time |-> 0, ready |-> 0, sorted |-> 0, samples |-> 0, last |-> 0]

Go(u, at) == pc' = [pc EXCEPT ![u] = at]

(* wg.Add(numUser) and the go statements: every variable is new.          *)
StartRound ==
  /\ main = "start" /\ round < Rounds
  /\ round' = round + 1
  /\ main' = "wait"
  /\ pc' = [u \in Users |-> "loop"]
  /\ count' = [u \in Users |-> 0] /\ total' = [u \in Users |-> 0]
  /\ dat' = [u \in Users |-> Nothing]
  /\ UNCHANGED <<results, funnel, closed, report>>

(* Until numSec are over; the query is counted before its reply is read.  *)
Query(u) ==
  /\ pc[u] = "loop"
  /\ \/ count[u] < MaxQueries /\ Go(u, "query") /\ count' = [count EXCEPT ![u] = @ + 1]
     \/ Go(u, "flush") /\ UNCHANGED count
  /\ UNCHANGED <<main, round, total, dat, results, funnel, closed, report>>

(* json.Unmarshal into dat keeps what the reply does not have: a reply     *)
(* without extensions repeats the latency of the one before.  Without one  *)
(* before, log.Fatal.                                                      *)
Reply(u) ==
  /\ pc[u] = "query"
  /\ \E got \in Latencies \cup {Nothing} :
       LET now == IF got = Nothing THEN dat[u] ELSE got IN
       IF now = Nothing
       THEN main' = "fatal" /\ UNCHANGED users
       ELSE /\ dat' = [dat EXCEPT ![u] = now]
            /\ total' = [total EXCEPT ![u] = @ + now]
            /\ Go(u, "send")
            /\ UNCHANGED <<main, count>>
  /\ UNCHANGED <<round, results, funnel, closed, report>>

(* No reply, or not one that can be read: log.Fatal.                       *)
ReplyFails(u) ==
  /\ pc[u] = "query" /\ main' = "fatal"
  /\ UNCHANGED <<round, users, results, funnel, closed, report>>

(* latC <- tot.Seconds()                                                   *)
SendLatency(u) ==
  /\ pc[u] = "send"
  /\ Len(queue) < LatCap
  /\ queue' = Append(queue, dat[u])
  /\ Go(u, "loop")
  /\ UNCHANGED <<main, round, count, total, dat, results, mover, allLat, closed, report>>

(* countC <- count                                                         *)
SendCount(u) ==
  /\ pc[u] = "flush"
  /\ Len(countC) < 5 * Cardinality(Users)
  /\ countC' = Append(countC, count[u])
  /\ Go(u, "total")
  /\ UNCHANGED <<main, round, count, total, dat, totalP, funnel, closed, report>>

(* totalP <- totT.Seconds(); wg.Done()                                     *)
SendTotal(u) ==
  /\ pc[u] = "total"
  /\ Len(totalP) < 5 * Cardinality(Users)
  /\ totalP' = Append(totalP, total[u])
  /\ Go(u, "idle")
  /\ UNCHANGED <<main, round, count, total, dat, countC, funnel, closed, report>>

(* for t := range latC { allLat = append(allLat, t) }: the receive, then   *)
(* the header, with the elements copied first if there is no room, and     *)
(* then the new element.                                                   *)
TakeLatency ==
  /\ mover = <<>> /\ queue # <<>>
  /\ mover' = <<Head(queue)>>
  /\ queue' = Tail(queue)
  /\ UNCHANGED <<main, round, users, results, allLat, closed, report>>

(* A copy of what is being sorted may have an element twice, and not       *)
(* another.                                                                *)
GrowLatency ==
  /\ mover # <<>> /\ allLat.len = allLat.kept
  /\ \E copies \in BOOLEAN :
       allLat' = [allLat EXCEPT !.len = @ + 1, !.whole = @ /\ ~(copies /\ main = "sorting")]
  /\ UNCHANGED <<main, round, users, results, mover, queue, closed, report>>

(* An element the sort took for one of its own is overwritten.             *)
StoreLatency ==
  /\ mover # <<>> /\ allLat.len = allLat.kept + 1
  /\ allLat' = [allLat EXCEPT !.kept = @ + 1, !.sum = @ + Head(mover),
                             !.whole = @ /\ report.sorted < allLat.len]
  /\ mover' = <<>>
  /\ UNCHANGED <<main, round, users, results, queue, closed, report>>

(* Mutant: the last round is not waited for. *)
WaitAllButLast ==
  /\ main = "wait" /\ (round < Rounds => \A u \in Users : pc[u] = "idle")
  /\ main' = IF round < Rounds THEN "start" ELSE "sum"
  /\ closed' = (round = Rounds)
  /\ UNCHANGED <<round, users, results, funnel, report>>

(* wg.Wait(); after the last round the channels are closed.                *)
Wait ==
  /\ main = "wait" /\ \A u \in Users : pc[u] = "idle"
  /\ main' = IF round < Rounds THEN "start" ELSE "sum"
  /\ closed' = (round = Rounds)
  /\ UNCHANGED <<round, users, results, funnel, report>>

(* totCount and totTi.                                                     *)
Summarize ==
  /\ main = "sum"
  /\ main' = "sort"
  /\ report' = [report EXCEPT !.queries = Total(countC), !.time = Total(totalP)]
  /\ countC' = <<>> /\ totalP' = <<>>
  /\ UNCHANGED <<round, users, funnel, closed>>

(* sort.Float64s(allLat), of the header it finds.                          *)
BeginSort ==
  /\ main = "sort"
  /\ main' = "sorting"
  /\ report' = [report EXCEPT !.ready = allLat.kept, !.sorted = allLat.len]
  /\ UNCHANGED <<round, users, results, funnel, closed>>

EndSort ==
  /\ main = "sorting" /\ main' = "percentiles"
  /\ UNCHANGED <<round, users, results, funnel, closed, report>>

(* The median and the 95th percentile: allLat[0] panics if there is none.  *)
Percentiles ==
  /\ main = "percentiles"
  /\ main' = IF allLat.len = 0 THEN "fatal" ELSE "extremes"
  /\ report' = [report EXCEPT !.samples = allLat.len]
  /\ UNCHANGED <<round, users, results, funnel, closed>>

(* allLat[0] and allLat[len(allLat)-1]                                     *)
Extremes ==
  /\ main = "extremes"
  /\ main' = "returned"
  /\ report' = [report EXCEPT !.last = allLat.len]
  /\ UNCHANGED <<round, users, results, funnel, closed>>

Ended == main \in {"returned", "fatal"} /\ UNCHANGED vars

Next ==
  \/ /\ main \notin {"returned", "fatal"}
     /\ \/ StartRound \/ Wait \/ Summarize \/ BeginSort \/ EndSort \/ Percentiles \/ Extremes
        \/ TakeLatency \/ GrowLatency \/ StoreLatency
        \/ \E u \in Users : \/ Query(u) \/ Reply(u) \/ ReplyFails(u) \/ SendLatency(u)
                            \/ SendCount(u) \/ SendTotal(u)
  \/ Ended

-----------------------------------------------------------------------------
(* What the queries and the times of the report add up to was stored in    *)
(* allLat, is in latC or in the hands of the goroutine between them.  The  *)
(* sort and the two lines printed after it, none of which waits for that   *)
(* goroutine, see ever more of it; the sort misses what latC holds and one *)
(* more at most.  If it misses nothing, the numbers printed are those of   *)
(* all latencies, sorted; otherwise allLat may end unsorted, or with a     *)
(* latency lost and another one twice.                                     *)
FunnelConserved ==
  main = "returned" =>
    /\ report.queries = allLat.kept + Len(queue) + Len(mover)
    /\ report.time = allLat.sum + Total(queue) + Total(mover)
    /\ report.ready <= report.sorted /\ report.sorted <= report.samples
    /\ report.samples <= report.last /\ report.last <= allLat.len
    /\ report.queries <= report.ready + LatCap + 1
    /\ report.ready = report.queries => allLat.whole /\ report.last = report.queries
=============================================================================
