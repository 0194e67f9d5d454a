--------------------------- MODULE ProgramsProofs ---------------------------
(***************************************************************************)
(* Proofs about the programs that run alone, one after the other, for any  *)
(* number of workers, runs, lines and failures.                            *)
(***************************************************************************)
EXTENDS Programs, DataLemmas, FiniteSetTheorems, SequenceTheorems, TLAPS

(* A behaviour is one of the programs' own from its start to its end.      *)
LEMMA RunsAlone ==
  /\ Init => /\ program = "perf" => P!Init
             /\ program = "mutations" => M!Init
             /\ program = "latency" => T!Init
             /\ program = "feeds" => F!Init
             /\ program = "replay" => R!Init
             /\ program = "artifacts" => A!Init
  /\ [Next]_vars => /\ UNCHANGED program
                    /\ program = "perf" => [P!Next]_(P!vars)
                    /\ program = "mutations" => [M!Next]_(M!vars)
                    /\ program = "latency" => [T!Next]_(T!vars)
                    /\ program = "feeds" => [F!Next]_(F!vars)
                    /\ program = "replay" => [R!Next]_(R!vars)
                    /\ program = "artifacts" => [A!Next]_(A!vars)
<1>1. Init => /\ program = "perf" => P!Init
              /\ program = "mutations" => M!Init
              /\ program = "latency" => T!Init
              /\ program = "feeds" => F!Init
              /\ program = "replay" => R!Init
              /\ program = "artifacts" => A!Init
  BY DEF Init
<1>2. Next => /\ UNCHANGED program
              /\ program = "perf" => P!Next
              /\ program = "mutations" => M!Next
              /\ program = "latency" => T!Next
              /\ program = "feeds" => F!Next
              /\ program = "replay" => R!Next
              /\ program = "artifacts" => A!Next
  BY DEF Next
<1>3. UNCHANGED vars =>
        /\ UNCHANGED program
        /\ UNCHANGED P!vars /\ UNCHANGED M!vars /\ UNCHANGED T!vars
        /\ UNCHANGED F!vars /\ UNCHANGED R!vars /\ UNCHANGED A!vars
  BY DEF vars, P!vars, M!vars, T!vars, F!vars, R!vars, A!vars
<1> QED
  BY <1>1, <1>2, <1>3

-----------------------------------------------------------------------------
(* cmd/bench in perf mode.                                                 *)

(* The cardinality PerfPool counts with is the one of FiniteSets.          *)
LEMMA PerfCardinality == \A S : P!Cardinality(S) = Cardinality(S)
  BY DEF P!Cardinality, Cardinality

(* The workers whose query has not returned.                               *)
Asking == {u \in Users : pc[u] = "query"}

PerfTypes ==
  /\ main \in {"feed", "wait", "summarize", "returned"}
  /\ sent \in Nat /\ queue \in Nat /\ closed \in BOOLEAN
  /\ pc \in [Users -> {"range", "query", "exited"}]
  /\ recorder \in [samples : Nat, errs : Nat]
  /\ measured \in HeapSizes \cup {0} /\ heapPeak \in HeapSizes \cup {0}
  /\ stored \subseteq HeapSizes \cup {0}

(* jobs is closed behind the last pair, a worker returns when it is empty, *)
(* and the summary waits for all of them.                                  *)
PerfOrder ==
  /\ sent <= Pairs /\ (main # "feed" => sent = Pairs)
  /\ closed <=> main # "feed"
  /\ queue <= 2 * Cardinality(Users)
  /\ \A u \in Users : pc[u] = "exited" => queue = 0 /\ closed
  /\ main \in {"summarize", "returned"} => Asking = {} /\ queue = 0
  /\ main # "returned" => report = Nothing

(* A pair is in the channel, with a worker or recorded.                    *)
PairsCounted == sent = queue + Cardinality(Asking) + recorder.samples + recorder.errs

(* The peak is as high as all that was stored.                             *)
PeakHolds == \A h \in stored : h <= heapPeak

PerfInv == PerfTypes /\ PerfOrder /\ PairsCounted /\ PeakHolds /\ P!PerfReported

(* There are finitely many queries under way.                              *)
LEMMA AskingFinite ==
  /\ IsFiniteSet(Asking) /\ Cardinality(Asking) \in Nat /\ Cardinality(Users) \in Nat
  /\ Users = {} => Cardinality(Users) = 0
  /\ Asking = {} => Cardinality(Asking) = 0
<1>1. IsFiniteSet(Users) /\ Asking \subseteq Users
  BY ProgramsAssumption DEF Asking
<1> QED
  BY <1>1, FS_Subset, FS_CardinalityType, FS_EmptySet

(* Perf mode starts with nothing sent, nothing recorded and no peak.       *)
LEMMA PerfInit == P!Init => PerfInv
<1> SUFFICES ASSUME P!Init PROVE PerfInv
  OBVIOUS
<1>1. PerfTypes
  BY DEF P!Init, PerfTypes
<1>2. Asking = {} /\ Cardinality(Asking) = 0
  BY AskingFinite DEF P!Init, Asking
<1>3. PairsCounted
  BY <1>2 DEF P!Init, PairsCounted
<1>4. PerfOrder
  BY <1>2, AskingFinite, ProgramsAssumption DEF P!Init, PerfOrder
<1> QED
  BY <1>1, <1>3, <1>4 DEF P!Init, PerfInv, PeakHolds, P!PerfReported

(* Every step of main, of a worker and of the sampler keeps the count.     *)
LEMMA PerfStep == PerfInv /\ [P!Next]_(P!vars) => PerfInv'
<1> SUFFICES ASSUME PerfInv, [P!Next]_(P!vars) PROVE PerfInv'
  OBVIOUS
<1>a. /\ PerfTypes /\ PerfOrder /\ PairsCounted /\ PeakHolds /\ P!PerfReported
      /\ HeapSizes \subseteq Nat /\ Pairs \in Nat
  BY ProgramsAssumption DEF PerfInv
<1>b. /\ IsFiniteSet(Asking) /\ Cardinality(Asking) \in Nat /\ Cardinality(Users) \in Nat
      /\ Asking = {} => Cardinality(Asking) = 0
      /\ P!Cardinality(Users) = Cardinality(Users)
  BY AskingFinite, PerfCardinality
<1>c. UNCHANGED pc => Asking' = Asking
  BY DEF Asking
<1>1. CASE P!Feed
  <2>1. /\ main = "feed" /\ sent < Pairs /\ queue < 2 * Cardinality(Users)
        /\ sent' = sent + 1 /\ queue' = queue + 1
        /\ UNCHANGED <<main, closed, pc, recorder, measured, heapPeak, report, stored>>
    BY <1>1, <1>b DEF P!Feed
  <2>2. PerfTypes'
    BY <2>1, <1>a DEF PerfTypes
  <2>3. PerfOrder'
    BY <2>1, <1>a, <1>b, <1>c DEF PerfTypes, PerfOrder
  <2>4. PairsCounted'
    BY <2>1, <1>a, <1>b, <1>c DEF PerfTypes, PairsCounted
  <2> QED
    BY <2>1, <2>2, <2>3, <2>4, <1>a DEF PerfInv, PeakHolds, P!PerfReported
<1>2. CASE P!CloseJobs
  <2>1. /\ main = "feed" /\ sent = Pairs /\ main' = "wait" /\ closed' = TRUE
        /\ UNCHANGED <<sent, queue, pc, recorder, measured, heapPeak, report, stored>>
    BY <1>2 DEF P!CloseJobs
  <2>2. PerfTypes' /\ PerfOrder'
    BY <2>1, <1>a, <1>c DEF PerfTypes, PerfOrder
  <2> QED
    BY <2>1, <2>2, <1>a, <1>c DEF PerfInv, PairsCounted, PeakHolds, P!PerfReported
<1>3. CASE P!Stop
  <2>1. /\ main = "wait" /\ main' = "summarize" /\ \A u \in Users : pc[u] = "exited"
        /\ UNCHANGED <<sent, queue, closed, pc, recorder, measured, heapPeak, report, stored>>
    BY <1>3 DEF P!Stop
  <2>2. Asking = {}
    BY <2>1 DEF Asking
  <2>3. queue = 0
    BY <2>1, <1>a, <1>b, AskingFinite DEF PerfTypes, PerfOrder
  <2>4. PerfTypes' /\ PerfOrder'
    BY <2>1, <2>2, <2>3, <1>a, <1>c DEF PerfTypes, PerfOrder
  <2> QED
    BY <2>1, <2>4, <1>a, <1>c DEF PerfInv, PairsCounted, PeakHolds, P!PerfReported
<1>4. CASE P!Summarize
  <2>1. /\ main = "summarize" /\ main' = "returned"
        /\ report' = [count |-> recorder.samples, errors |-> recorder.errs, heapMax |-> heapPeak]
        /\ UNCHANGED <<sent, queue, closed, pc, recorder, measured, heapPeak, stored>>
    BY <1>4 DEF P!Summarize
  <2>2. /\ report'.count = recorder.samples /\ report'.errors = recorder.errs
        /\ report'.heapMax = heapPeak
    BY <2>1
  <2>3. recorder.samples + recorder.errs = Pairs
    BY <2>1, <1>a, <1>b DEF PerfTypes, PerfOrder, PairsCounted
  <2>4. P!PerfReported'
    BY <2>1, <2>2, <2>3, <1>a DEF P!PerfReported, PeakHolds, PerfTypes
  <2>5. PerfTypes' /\ PerfOrder'
    BY <2>1, <1>a, <1>c DEF PerfTypes, PerfOrder
  <2> QED
    BY <2>1, <2>4, <2>5, <1>a, <1>c DEF PerfInv, PairsCounted, PeakHolds
<1>5. ASSUME NEW u \in Users, P!Take(u) PROVE PerfInv'
  <2>1. /\ pc[u] = "range"
        /\ UNCHANGED <<main, sent, closed, recorder, measured, heapPeak, report, stored>>
    BY <1>5 DEF P!Take
  <2>2. CASE queue > 0 /\ queue' = queue - 1 /\ pc' = [pc EXCEPT ![u] = "query"]
    <3>1. Asking' = Asking \cup {u} /\ u \notin Asking
      BY <2>1, <2>2, <1>a DEF PerfTypes, Asking
    <3>2. Cardinality(Asking') = Cardinality(Asking) + 1
      BY <3>1, <1>b, FS_AddElement
    <3>3. PerfTypes' /\ PerfOrder'
      BY <2>1, <2>2, <1>a, <1>b DEF PerfTypes, PerfOrder
    <3>4. PairsCounted'
      BY <2>1, <2>2, <3>2, <1>a, <1>b DEF PerfTypes, PairsCounted
    <3> QED
      BY <2>1, <3>3, <3>4, <1>a DEF PerfInv, PeakHolds, P!PerfReported
  <2>3. CASE queue = 0 /\ closed /\ pc' = [pc EXCEPT ![u] = "exited"] /\ UNCHANGED queue
    <3>1. Asking' = Asking
      BY <2>1, <2>3, <1>a DEF PerfTypes, Asking
    <3>2. PerfTypes' /\ PerfOrder'
      BY <2>1, <2>3, <3>1, <1>a DEF PerfTypes, PerfOrder
    <3> QED
      BY <2>1, <2>3, <3>1, <3>2, <1>a DEF PerfInv, PairsCounted, PeakHolds, P!PerfReported
  <2> QED
    BY <1>5, <2>2, <2>3 DEF P!Take
<1>6. ASSUME NEW u \in Users, P!Record(u) PROVE PerfInv'
  <2>1. /\ pc[u] = "query" /\ pc' = [pc EXCEPT ![u] = "range"]
        /\ UNCHANGED <<main, sent, queue, closed, measured, heapPeak, report, stored>>
    BY <1>6 DEF P!Record
  <2>2. /\ recorder' \in [samples : Nat, errs : Nat]
        /\ recorder'.samples + recorder'.errs = recorder.samples + recorder.errs + 1
    <3>1. PICK field \in DOMAIN recorder : recorder' = [recorder EXCEPT ![field] = @ + 1]
      BY <1>6 DEF P!Record
    <3>2. CASE field = "samples"
      BY <3>1, <3>2, <1>a DEF PerfTypes
    <3>3. CASE field = "errs"
      BY <3>1, <3>3, <1>a DEF PerfTypes
    <3>4. field \in {"samples", "errs"}
      BY <3>1, <1>a DEF PerfTypes
    <3> QED
      BY <3>2, <3>3, <3>4
  <2>3. Asking' = Asking \ {u} /\ u \in Asking
    BY <2>1, <1>a DEF PerfTypes, Asking
  <2>4. Cardinality(Asking') = Cardinality(Asking) - 1
    BY <2>3, <1>b, FS_RemoveElement
  <2>5. main \notin {"summarize", "returned"}
    BY <2>3, <1>a DEF PerfOrder
  <2>6. PerfTypes' /\ PerfOrder'
    BY <2>1, <2>2, <2>5, <1>a DEF PerfTypes, PerfOrder
  <2>7. PairsCounted'
    BY <2>1, <2>2, <2>4, <1>a, <1>b DEF PerfTypes, PairsCounted
  <2> QED
    BY <2>1, <2>5, <2>6, <2>7, <1>a DEF PerfInv, PeakHolds, P!PerfReported, PerfOrder
<1>7. CASE P!Store /\ main # "returned"
  <2>1. /\ heapPeak' = IF measured > heapPeak THEN measured ELSE heapPeak
        /\ stored' = stored \/ stored' = stored \cup {measured}
        /\ UNCHANGED <<main, sent, queue, closed, pc, recorder, report, measured>>
    BY <1>7 DEF P!Store, P!pool
  <2>2. /\ heapPeak' \in HeapSizes \cup {0} /\ heapPeak' >= measured /\ heapPeak' >= heapPeak
    BY <2>1, <1>a DEF PerfTypes
  <2>3. PerfTypes' /\ PerfOrder'
    BY <2>1, <2>2, <1>a, <1>c DEF PerfTypes, PerfOrder
  <2>4. PeakHolds'
    <3>1. heapPeak \in Nat /\ heapPeak' \in Nat /\ \A h \in stored' : h \in Nat
      BY <2>2, <2>3, <1>a DEF PerfTypes
    <3>2. \A h \in stored' : h = measured \/ h <= heapPeak
      BY <2>1, <1>a DEF PeakHolds
    <3> QED
      BY <2>2, <3>1, <3>2 DEF PeakHolds
  <2>5. report = Nothing
    BY <1>7, <1>a DEF PerfOrder
  <2> QED
    BY <2>1, <2>3, <2>4, <2>5, <1>a, <1>c DEF PerfInv, PairsCounted, P!PerfReported
<1>8. CASE P!Measure \/ P!StopSampling
  <2>1. /\ measured' \in HeapSizes \cup {0}
        /\ UNCHANGED <<main, sent, queue, closed, pc, recorder, report, heapPeak, stored>>
    BY <1>8, <1>a DEF P!Measure, P!StopSampling, P!pool, PerfTypes
  <2>2. PerfTypes' /\ PerfOrder'
    BY <2>1, <1>a, <1>c DEF PerfTypes, PerfOrder
  <2> QED
    BY <2>1, <2>2, <1>a, <1>c DEF PerfInv, PairsCounted, PeakHolds, P!PerfReported
<1>9. CASE UNCHANGED P!vars
  <2>1. UNCHANGED <<main, sent, queue, closed, pc, recorder, measured, heapPeak, report, stored>>
    BY <1>9 DEF P!vars
  <2> QED
    BY <2>1, <1>a, <1>c DEF PerfInv, PerfTypes, PerfOrder, PairsCounted, PeakHolds, P!PerfReported
<1> QED
  BY <1>1, <1>2, <1>3, <1>4, <1>5, <1>6, <1>7, <1>8, <1>9 DEF P!Next, P!Returned

(* The report of perf mode counts every pair once, as a sample or as an    *)
(* error, and its heap peak is one that was measured and no less than what *)
(* was stored before the stop, for any number of pairs and workers.        *)
THEOREM PerfAlwaysReported == Spec => []PerfReported
<1> DEFINE Inv == program = "perf" => PerfInv
<1>1. Init => Inv
  BY RunsAlone, PerfInit
<1>2. Inv /\ [Next]_vars => Inv'
  BY RunsAlone, PerfStep
<1>3. Inv => PerfReported
  BY DEF PerfInv, PerfReported
<1> QED
  BY <1>1, <1>2, <1>3, PTL DEF Spec

-----------------------------------------------------------------------------
(* scripts/mutations.                                                      *)

(* The cardinality MutationLoader counts with is the one of FiniteSets.    *)
LEMMA LoadCardinality == M!Cardinality(Users) = Cardinality(Users)
  BY DEF M!Cardinality, Cardinality

(* A batch has a line; a batch of the channel has it, no two of them do.   *)
In(b, l) == \E k \in 1..Len(b) : b[k] = l
InOne(q, l) == \E k \in 1..Len(q) : In(q[k], l)
NotInTwo(q) == \A l : \A j, k \in 1..Len(q) : In(q[j], l) /\ In(q[k], l) => j = k

Numbers == 1..Lines
Batch == Seq(Numbers)

(* Where a line is before the server has replied: in the file, in the      *)
(* buffer of main, in the channel, or with a worker that posts it.         *)
Unread(l) == l > line
InBuf(l) == main = "read" /\ In(buf, l)
InQueue(l) == InOne(queue, l)
PostedBy(u, l) == pc[u] = "post" /\ In(held[u], l)
Posted(l) == \E u \in Users : PostedBy(u, l)
ToPost(l) == Unread(l) \/ InBuf(l) \/ InQueue(l) \/ Posted(l)

(* A worker that has a reply has not looked at the code yet.               *)
RepliedBy(u, l) == pc[u] \in {"unmarshal", "check"} /\ In(held[u], l)
Replied(l) == \E u \in Users : RepliedBy(u, l)

LoadTypes ==
  /\ main \in {"read", "wait", "returned"}
  /\ line \in 0..Lines
  /\ buf \in Batch /\ queue \in Seq(Batch) /\ Len(queue) <= 3 * Cardinality(Users)
  /\ pc \in [Users -> {"range", "post", "unmarshal", "check", "exited"}]
  /\ held \in [Users -> Batch \cup {Nothing}]
  /\ \A u \in Users : pc[u] \in {"post", "unmarshal", "check"} => held[u] \in Batch
  /\ reply \in [Users -> {"ErrorOk", "Error", "none", "bad"}]
  /\ failed \in [Numbers -> Nat]
  /\ applied \in [Numbers -> Nat]

(* The channel is closed behind the last batch; a worker returns when it   *)
(* is empty, main when all of them have.                                   *)
LoadOrder ==
  /\ main # "read" => line = Lines
  /\ closed => main # "read"
  /\ \A u \in Users : pc[u] = "exited" => closed /\ queue = <<>>
  /\ main = "returned" => \A u \in Users : pc[u] = "exited"

(* A line is in one place only.                                            *)
LoadApart ==
  /\ NotInTwo(queue)
  /\ \A l \in Numbers :
       /\ InBuf(l) => ~Unread(l)
       /\ InQueue(l) => ~Unread(l) /\ ~InBuf(l)
       /\ Posted(l) => ~Unread(l) /\ ~InBuf(l) /\ ~InQueue(l)
       /\ \A u, v \in Users : PostedBy(u, l) /\ PostedBy(v, l) => u = v

(* A line is not lost before it was rejected behind the back of the check, *)
(* and is set as often as its own requests failed, and once more.          *)
LoadCounts ==
  /\ \A l \in Numbers :
       /\ ToPost(l) \/ Replied(l) \/ applied[l] > 0 \/ l \in masked
       /\ ToPost(l) => applied[l] <= failed[l]
       /\ applied[l] <= failed[l] + 1
  /\ \A u \in Users, l \in Numbers :
       RepliedBy(u, l) /\ reply[u] = "ErrorOk" => applied[l] > 0

LoadInv == main # "fatal" => LoadTypes /\ LoadOrder /\ LoadApart /\ LoadCounts

(* The empty buffer and the empty channel have no line.                    *)
LEMMA NoLine == \A l : ~In(<<>>, l) /\ ~InOne(<<>>, l) /\ NotInTwo(<<>>)
  BY DEF In, InOne, NotInTwo

(* A line more in the buffer.                                              *)
LEMMA BufferGrows ==
  ASSUME NEW b \in Batch, NEW e \in Numbers
  PROVE  Append(b, e) \in Batch /\ \A l : In(Append(b, e), l) <=> In(b, l) \/ l = e
<1>1. /\ Append(b, e) \in Batch /\ Len(b) \in Nat /\ Len(Append(b, e)) = Len(b) + 1
      /\ \A k \in 1..Len(b) : Append(b, e)[k] = b[k]
      /\ Append(b, e)[Len(b) + 1] = e
  BY AppendProperties, LenProperties DEF Batch
<1> QED
  BY <1>1 DEF In

(* A batch more in the channel, of lines no other batch there has.         *)
LEMMA QueueGrows ==
  ASSUME NEW q \in Seq(Batch), NEW b \in Batch
  PROVE  /\ Append(q, b) \in Seq(Batch) /\ Len(q) \in Nat /\ Len(Append(q, b)) = Len(q) + 1
         /\ \A l : InOne(Append(q, b), l) <=> InOne(q, l) \/ In(b, l)
         /\ NotInTwo(q) /\ (\A l : In(b, l) => ~InOne(q, l)) => NotInTwo(Append(q, b))
<1>1. /\ Append(q, b) \in Seq(Batch) /\ Len(q) \in Nat /\ Len(Append(q, b)) = Len(q) + 1
      /\ \A k \in 1..Len(q) : Append(q, b)[k] = q[k]
      /\ Append(q, b)[Len(q) + 1] = b
  BY AppendProperties, LenProperties
<1>2. \A l : InOne(Append(q, b), l) <=> InOne(q, l) \/ In(b, l)
  BY <1>1 DEF InOne
<1>3. ASSUME NotInTwo(q), \A l : In(b, l) => ~InOne(q, l) PROVE NotInTwo(Append(q, b))
  <2> SUFFICES ASSUME NEW l, NEW j \in 1..Len(q) + 1, NEW k \in 1..Len(q) + 1,
                      In(Append(q, b)[j], l), In(Append(q, b)[k], l)
               PROVE  j = k
    BY <1>1 DEF NotInTwo
  <2>1. \A i \in 1..Len(q) : In(q[i], l) => ~In(b, l)
    BY <1>3 DEF InOne
  <2>2. (j \in 1..Len(q) \/ j = Len(q) + 1) /\ (k \in 1..Len(q) \/ k = Len(q) + 1)
    BY <1>1
  <2>3. CASE j \in 1..Len(q) /\ k \in 1..Len(q)
    BY <1>1, <1>3, <2>3 DEF NotInTwo
  <2>4. CASE j = Len(q) + 1 /\ k \in 1..Len(q)
    BY <1>1, <2>1, <2>4
  <2>5. CASE k = Len(q) + 1 /\ j \in 1..Len(q)
    BY <1>1, <2>1, <2>5
  <2> QED
    BY <2>2, <2>3, <2>4, <2>5
<1> QED
  BY <1>1, <1>2, <1>3

(* The first batch is taken out of the channel, and its lines with it.     *)
LEMMA QueueShrinks ==
  ASSUME NEW q \in Seq(Batch), q # <<>>
  PROVE  /\ Head(q) \in Batch /\ Tail(q) \in Seq(Batch) /\ Len(Tail(q)) = Len(q) - 1
         /\ Len(q) \in Nat
         /\ \A l : InOne(q, l) <=> InOne(Tail(q), l) \/ In(Head(q), l)
         /\ NotInTwo(q) =>
              NotInTwo(Tail(q)) /\ \A l : In(Head(q), l) => ~InOne(Tail(q), l)
<1>1. /\ Len(q) \in Nat \ {0} /\ Head(q) = q[1] /\ Head(q) \in Batch
      /\ Tail(q) \in Seq(Batch) /\ Len(Tail(q)) = Len(q) - 1
      /\ \A k \in 1..Len(q) - 1 : Tail(q)[k] = q[k + 1]
  BY HeadTailProperties, EmptySeq, LenProperties
<1>2. \A l : InOne(q, l) <=> InOne(Tail(q), l) \/ In(Head(q), l)
  <2> SUFFICES ASSUME NEW l PROVE InOne(q, l) <=> InOne(Tail(q), l) \/ In(Head(q), l)
    OBVIOUS
  <2>1. ASSUME NEW k \in 1..Len(q), In(q[k], l) PROVE InOne(Tail(q), l) \/ In(Head(q), l)
    <3>1. CASE k = 1
      BY <1>1, <2>1, <3>1
    <3>2. CASE k # 1
      <4>1. k - 1 \in 1..Len(Tail(q)) /\ Tail(q)[k - 1] = q[k]
        BY <1>1, <3>2
      <4> QED
        BY <2>1, <4>1 DEF InOne
    <3> QED
      BY <3>1, <3>2
  <2>2. ASSUME NEW k \in 1..Len(Tail(q)), In(Tail(q)[k], l) PROVE InOne(q, l)
    <3>1. k + 1 \in 1..Len(q) /\ q[k + 1] = Tail(q)[k]
      BY <1>1
    <3> QED
      BY <2>2, <3>1 DEF InOne
  <2>3. In(Head(q), l) => InOne(q, l)
    BY <1>1 DEF InOne
  <2> QED
    BY <2>1, <2>2, <2>3 DEF InOne
<1>3. ASSUME NotInTwo(q) PROVE NotInTwo(Tail(q))
  <2> SUFFICES ASSUME NEW l, NEW j \in 1..Len(Tail(q)), NEW k \in 1..Len(Tail(q)),
                      In(Tail(q)[j], l), In(Tail(q)[k], l)
               PROVE  j = k
    BY DEF NotInTwo
  <2>1. j + 1 \in 1..Len(q) /\ k + 1 \in 1..Len(q) /\ In(q[j + 1], l) /\ In(q[k + 1], l)
    BY <1>1
  <2>2. j + 1 = k + 1
    BY <1>3, <2>1 DEF NotInTwo
  <2> QED
    BY <1>1, <2>2
<1>4. ASSUME NotInTwo(q), NEW l, In(Head(q), l) PROVE ~InOne(Tail(q), l)
  <2>1. ASSUME NEW k \in 1..Len(Tail(q)), In(Tail(q)[k], l) PROVE FALSE
    <3>1. k + 1 \in 1..Len(q) /\ In(q[k + 1], l) /\ 1 \in 1..Len(q) /\ In(q[1], l)
      BY <1>1, <1>4, <2>1
    <3>2. k + 1 = 1
      BY <1>4, <3>1 DEF NotInTwo
    <3> QED
      BY <1>1, <3>2
  <2> QED
    BY <2>1 DEF InOne
<1> QED
  BY <1>1, <1>2, <1>3, <1>4

(* The loader starts with the whole file before it.                        *)
LEMMA LoadInit == M!Init => LoadInv
<1> SUFFICES ASSUME M!Init PROVE LoadInv
  OBVIOUS
<1>1. /\ main = "read" /\ line = 0 /\ buf = <<>> /\ queue = <<>> /\ ~closed
      /\ \A l \in Numbers : failed[l] = 0
      /\ \A u \in Users : pc[u] = "range"
      /\ \A l \in Numbers : applied[l] = 0
  BY DEF M!Init, Numbers
<1>2. LoadTypes
  <2>1. /\ buf \in Batch /\ queue \in Seq(Batch) /\ Len(queue) = 0
    BY <1>1 DEF Batch
  <2>2. Cardinality(Users) \in Nat
    BY AskingFinite
  <2>3. /\ pc \in [Users -> {"range", "post", "unmarshal", "check", "exited"}]
        /\ held \in [Users -> Batch \cup {Nothing}]
        /\ reply \in [Users -> {"ErrorOk", "Error", "none", "bad"}]
        /\ applied \in [Numbers -> Nat] /\ failed \in [Numbers -> Nat]
    BY DEF M!Init, Numbers
  <2> QED
    BY <1>1, <2>1, <2>2, <2>3, ProgramsAssumption DEF LoadTypes
<1>3. LoadOrder
  BY <1>1 DEF LoadOrder
<1>4. \A l \in Numbers : Unread(l) /\ ~InBuf(l) /\ ~InQueue(l) /\ ~Posted(l) /\ ~Replied(l)
  BY <1>1, NoLine, ProgramsAssumption
  DEF Numbers, Unread, InBuf, InQueue, Posted, PostedBy, Replied, RepliedBy
<1>5. LoadApart
  BY <1>1, <1>4, NoLine DEF LoadApart, Posted
<1>6. LoadCounts
  BY <1>1, <1>4 DEF LoadCounts, ToPost, Replied
<1> QED
  BY <1>2, <1>3, <1>5, <1>6 DEF LoadInv

(* The lines of a batch are lines of the file.                             *)
LEMMA InNumbers == ASSUME NEW b \in Batch, NEW l, In(b, l) PROVE l \in Numbers
  BY LenProperties DEF In, Batch

(* A line read goes into the buffer, and a full buffer into the channel.   *)
LEMMA ReadLineKeeps ==
  ASSUME LoadInv, main # "fatal", M!ReadLine
  PROVE  LoadInv'
<1> DEFINE e == line + 1
           more == Append(buf, e)
<1>a. /\ LoadTypes /\ LoadOrder /\ LoadApart /\ LoadCounts
      /\ line \in 0..Lines /\ Lines \in Nat /\ buf \in Batch /\ queue \in Seq(Batch)
      /\ Cardinality(Users) \in Nat
  BY AskingFinite, ProgramsAssumption DEF LoadInv, LoadTypes
<1>1. /\ main = "read" /\ line < Lines /\ line' = e
      /\ \/ /\ Len(queue) < 3 * Cardinality(Users)
            /\ queue' = Append(queue, more) /\ buf' = <<>>
         \/ buf' = more /\ UNCHANGED queue
      /\ UNCHANGED <<main, closed, pc, held, reply, failed, applied, masked>>
  BY LoadCardinality DEF M!ReadLine, M!HasRoom, M!server
<1>2. /\ e \in Numbers /\ ~InBuf(e) /\ ~InQueue(e) /\ ~Posted(e)
      /\ Unread(e)
  BY <1>1, <1>a DEF LoadApart, Unread, Numbers
<1>3. /\ more \in Batch
      /\ \A l : In(more, l) <=> InBuf(l) \/ l = e
  BY <1>1, <1>2, <1>a, BufferGrows DEF InBuf
<1> HIDE DEF more
<1>4. \A l \in Numbers : Unread(l)' <=> Unread(l) /\ l # e
  BY <1>1, <1>a DEF Unread, Numbers
<1>5. /\ \A u \in Users, l \in Numbers :
           /\ PostedBy(u, l)' <=> PostedBy(u, l)
           /\ RepliedBy(u, l)' <=> RepliedBy(u, l)
      /\ \A l \in Numbers : (Posted(l)' <=> Posted(l)) /\ (Replied(l)' <=> Replied(l))
  BY <1>1 DEF PostedBy, RepliedBy, Posted, Replied
<1>6. CASE queue' = Append(queue, more) /\ buf' = <<>> /\ Len(queue) < 3 * Cardinality(Users)
  <2>1. \A l : In(more, l) => ~InOne(queue, l)
    BY <1>2, <1>3, <1>a, InNumbers DEF LoadApart, InQueue
  <2>2. /\ queue' \in Seq(Batch) /\ Len(queue') <= 3 * Cardinality(Users)
        /\ \A l : InQueue(l)' <=> InQueue(l) \/ InBuf(l) \/ l = e
        /\ NotInTwo(queue')
    BY <1>3, <1>6, <1>a, <2>1, QueueGrows DEF LoadApart, InQueue
  <2>3. \A l : ~InBuf(l)'
    BY <1>6, NoLine DEF InBuf
  <2>4. LoadTypes'
    <3>1. line' \in 0..Lines
      BY <1>1, <1>2 DEF Numbers
    <3>2. buf' \in Batch
      BY <1>6 DEF Batch
    <3> QED
      BY <1>1, <1>a, <2>2, <3>1, <3>2 DEF LoadTypes
  <2>5. LoadOrder'
    BY <1>1, <1>a DEF LoadOrder
  <2>6. LoadApart'
    BY <1>2, <1>4, <1>5, <1>a, <2>2, <2>3 DEF LoadApart
  <2>7. LoadCounts'
    BY <1>1, <1>2, <1>4, <1>5, <1>a, <2>2, <2>3 DEF LoadCounts, ToPost
  <2> QED
    BY <2>4, <2>5, <2>6, <2>7 DEF LoadInv
<1>7. CASE buf' = more /\ UNCHANGED queue
  <2>1. \A l : InBuf(l)' <=> InBuf(l) \/ l = e
    BY <1>1, <1>3, <1>7 DEF InBuf
  <2>2. \A l : InQueue(l)' <=> InQueue(l)
    BY <1>7 DEF InQueue
  <2>4. LoadTypes'
    BY <1>1, <1>2, <1>3, <1>7, <1>a DEF LoadTypes, Numbers
  <2>5. LoadOrder'
    BY <1>1, <1>7, <1>a DEF LoadOrder
  <2>6. LoadApart'
    BY <1>2, <1>4, <1>5, <1>7, <1>a, <2>1, <2>2 DEF LoadApart
  <2>7. LoadCounts'
    BY <1>1, <1>2, <1>4, <1>5, <1>a, <2>1, <2>2 DEF LoadCounts, ToPost
  <2> QED
    BY <2>4, <2>5, <2>6, <2>7 DEF LoadInv
<1> QED
  BY <1>1, <1>6, <1>7

(* At the end of the file the rest of the buffer goes into the channel.    *)
LEMMA LastBatchKeeps ==
  ASSUME LoadInv, main # "fatal", M!LastBatch
  PROVE  LoadInv'
<1>a. /\ LoadTypes /\ LoadOrder /\ LoadApart /\ LoadCounts
      /\ Lines \in Nat /\ buf \in Batch /\ queue \in Seq(Batch)
      /\ Cardinality(Users) \in Nat
  BY AskingFinite, ProgramsAssumption DEF LoadInv, LoadTypes
<1>1. /\ main = "read" /\ line = Lines /\ closed' = TRUE /\ main' = "wait"
      /\ \/ /\ Len(queue) < 3 * Cardinality(Users)
            /\ queue' = Append(queue, buf)
         \/ buf = <<>> /\ UNCHANGED queue
      /\ UNCHANGED <<line, buf, pc, held, reply, failed, applied, masked>>
  BY LoadCardinality DEF M!LastBatch, M!HasRoom, M!server
<1>2. \A u \in Users : pc[u] # "exited"
  BY <1>1, <1>a DEF LoadOrder
<1>3. \A l : In(buf, l) <=> InBuf(l)
  BY <1>1 DEF InBuf
<1>4. /\ \A l \in Numbers : (Unread(l)' <=> Unread(l)) /\ ~InBuf(l)'
      /\ \A u \in Users, l \in Numbers :
           /\ PostedBy(u, l)' <=> PostedBy(u, l)
           /\ RepliedBy(u, l)' <=> RepliedBy(u, l)
      /\ \A l \in Numbers : (Posted(l)' <=> Posted(l)) /\ (Replied(l)' <=> Replied(l))
  BY <1>1 DEF Unread, InBuf, PostedBy, RepliedBy, Posted, Replied
<1>5. /\ queue' \in Seq(Batch) /\ Len(queue') <= 3 * Cardinality(Users)
      /\ \A l : InQueue(l)' <=> InQueue(l) \/ InBuf(l)
      /\ NotInTwo(queue')
  <2>1. CASE queue' = Append(queue, buf) /\ Len(queue) < 3 * Cardinality(Users)
    <3>1. \A l : In(buf, l) => ~InOne(queue, l)
      BY <1>3, <1>a, InNumbers DEF LoadApart, InQueue
    <3> QED
      BY <1>3, <1>a, <2>1, <3>1, QueueGrows DEF LoadApart, InQueue
  <2>2. CASE buf = <<>> /\ UNCHANGED queue
    BY <1>a, <2>2, NoLine DEF LoadApart, LoadTypes, InQueue, InBuf
  <2> QED
    BY <1>1, <2>1, <2>2
<1>6. LoadTypes'
  BY <1>1, <1>5, <1>a DEF LoadTypes
<1>7. LoadOrder'
  BY <1>1, <1>2 DEF LoadOrder
<1>8. LoadApart'
  BY <1>4, <1>5, <1>a DEF LoadApart
<1>9. LoadCounts'
  BY <1>1, <1>4, <1>5, <1>a DEF LoadCounts, ToPost
<1> QED
  BY <1>6, <1>7, <1>8, <1>9 DEF LoadInv

(* A worker takes the first batch of the channel, or returns.              *)
LEMMA TakeKeeps ==
  ASSUME LoadInv, main # "fatal", NEW u \in Users, M!Take(u)
  PROVE  LoadInv'
<1>a. /\ LoadTypes /\ LoadOrder /\ LoadApart /\ LoadCounts
      /\ queue \in Seq(Batch) /\ Cardinality(Users) \in Nat
      /\ pc \in [Users -> {"range", "post", "unmarshal", "check", "exited"}]
      /\ held \in [Users -> Batch \cup {Nothing}]
  BY AskingFinite DEF LoadInv, LoadTypes
<1>1. /\ pc[u] = "range"
      /\ UNCHANGED <<main, line, buf, closed, reply, failed, applied, masked>>
  BY DEF M!Take, M!batches, M!server
<1>2. \A l \in Numbers : (Unread(l)' <=> Unread(l)) /\ (InBuf(l)' <=> InBuf(l))
  BY <1>1 DEF Unread, InBuf
<1>3. CASE /\ queue # <<>> /\ queue' = Tail(queue)
           /\ held' = [held EXCEPT ![u] = Head(queue)] /\ pc' = [pc EXCEPT ![u] = "post"]
  <2>1. /\ Head(queue) \in Batch /\ queue' \in Seq(Batch)
        /\ Len(queue') <= 3 * Cardinality(Users)
        /\ \A l : InQueue(l) <=> InQueue(l)' \/ In(Head(queue), l)
        /\ NotInTwo(queue')
        /\ \A l : In(Head(queue), l) => ~InQueue(l)'
    BY <1>3, <1>a, QueueShrinks DEF LoadApart, LoadTypes, InQueue
  <2>2. /\ pc'[u] = "post" /\ held'[u] = Head(queue)
        /\ \A v \in Users : v # u => pc'[v] = pc[v] /\ held'[v] = held[v]
    BY <1>3, <1>a
  <2>3. \A v \in Users, l \in Numbers :
          /\ PostedBy(v, l)' <=> PostedBy(v, l) \/ (v = u /\ In(Head(queue), l))
          /\ RepliedBy(v, l)' <=> RepliedBy(v, l)
    BY <1>1, <2>2 DEF PostedBy, RepliedBy
  <2>4. \A l \in Numbers :
          /\ Posted(l)' <=> Posted(l) \/ In(Head(queue), l)
          /\ Replied(l)' <=> Replied(l)
    BY <2>3 DEF Posted, Replied
  <2>5. LoadTypes'
    BY <1>1, <1>3, <1>a, <2>1, <2>2 DEF LoadTypes
  <2>6. LoadOrder'
    BY <1>1, <1>3, <1>a, <2>2 DEF LoadOrder
  <2>7. LoadApart'
    <3>1. \A v, w \in Users, l \in Numbers : PostedBy(v, l)' /\ PostedBy(w, l)' => v = w
      BY <1>a, <2>1, <2>3 DEF LoadApart, Posted
    <3> QED
      BY <1>2, <1>a, <2>1, <2>4, <3>1 DEF LoadApart
  <2>8. LoadCounts'
    BY <1>1, <1>2, <1>a, <2>1, <2>3, <2>4 DEF LoadCounts, ToPost
  <2> QED
    BY <2>5, <2>6, <2>7, <2>8 DEF LoadInv
<1>4. CASE /\ queue = <<>> /\ closed
           /\ pc' = [pc EXCEPT ![u] = "exited"] /\ UNCHANGED <<queue, held>>
  <2>1. /\ pc'[u] = "exited" /\ \A v \in Users : v # u => pc'[v] = pc[v]
    BY <1>4, <1>a
  <2>2. /\ \A v \in Users, l \in Numbers :
             /\ PostedBy(v, l)' <=> PostedBy(v, l)
             /\ RepliedBy(v, l)' <=> RepliedBy(v, l)
        /\ \A l \in Numbers : (Posted(l)' <=> Posted(l)) /\ (Replied(l)' <=> Replied(l))
        /\ \A l \in Numbers : InQueue(l)' <=> InQueue(l)
    BY <1>1, <1>4, <2>1 DEF PostedBy, RepliedBy, Posted, Replied, InQueue
  <2>5. LoadTypes'
    BY <1>1, <1>4, <1>a, <2>1 DEF LoadTypes
  <2>6. LoadOrder'
    BY <1>1, <1>4, <1>a, <2>1 DEF LoadOrder
  <2>7. LoadApart'
    BY <1>2, <1>4, <1>a, <2>2 DEF LoadApart
  <2>8. LoadCounts'
    BY <1>1, <1>2, <1>a, <2>2 DEF LoadCounts, ToPost
  <2> QED
    BY <2>5, <2>6, <2>7, <2>8 DEF LoadInv
<1> QED
  BY <1>3, <1>4 DEF M!Take

(* Counting a batch counts each of its lines once.                         *)
LEMMA CountUpEffect ==
  ASSUME NEW b, NEW counts \in [Numbers -> Nat]
  PROVE  /\ M!CountUp(counts, b) \in [Numbers -> Nat]
         /\ \A l \in Numbers : /\ In(b, l) => M!CountUp(counts, b)[l] = counts[l] + 1
                               /\ ~In(b, l) => M!CountUp(counts, b)[l] = counts[l]
<1>1. \A l : M!Contains(b, l) <=> In(b, l)
  BY DEF M!Contains, In
<1>2. M!CountUp(counts, b) = [l \in Numbers |-> IF M!Contains(b, l) THEN counts[l] + 1 ELSE counts[l]]
  BY DEF M!CountUp, Numbers
<1> QED
  BY <1>1, <1>2

(* The server that applies a batch sets each of its lines once.            *)
LEMMA ApplyEffect ==
  ASSUME NEW b, M!Apply(b), applied \in [Numbers -> Nat]
  PROVE  /\ applied' \in [Numbers -> Nat]
         /\ \A l \in Numbers : /\ In(b, l) => applied'[l] = applied[l] + 1
                               /\ ~In(b, l) => applied'[l] = applied[l]
  BY CountUpEffect DEF M!Apply

(* A request fails: the batch is posted again, and may have been applied.  *)
LEMMA RetryKeeps ==
  ASSUME LoadInv, main # "fatal", NEW u \in Users, M!Retry(u)
  PROVE  LoadInv'
<1>a. /\ LoadTypes /\ LoadOrder /\ LoadApart /\ LoadCounts
      /\ applied \in [Numbers -> Nat] /\ failed \in [Numbers -> Nat]
  BY DEF LoadInv, LoadTypes
<1>1. /\ pc[u] = "post" /\ failed' = M!CountUp(failed, held[u])
      /\ UNCHANGED <<main, line, buf, queue, closed, pc, held, reply, masked>>
  BY DEF M!Retry, M!batches
<1>2. /\ applied' \in [Numbers -> Nat]
      /\ \A l \in Numbers : /\ applied'[l] = applied[l] \/ applied'[l] = applied[l] + 1
                            /\ applied'[l] # applied[l] => In(held[u], l)
  <2>1. CASE M!Apply(held[u])
    BY <1>a, <2>1, ApplyEffect
  <2>2. CASE UNCHANGED applied
    BY <1>a, <2>2
  <2> QED
    BY <2>1, <2>2 DEF M!Retry
<1>3. /\ \A v \in Users, l \in Numbers :
           /\ PostedBy(v, l)' <=> PostedBy(v, l)
           /\ RepliedBy(v, l)' <=> RepliedBy(v, l)
      /\ \A l \in Numbers :
           /\ Posted(l)' <=> Posted(l)
           /\ Replied(l)' <=> Replied(l)
           /\ Unread(l)' <=> Unread(l)
           /\ InBuf(l)' <=> InBuf(l)
           /\ InQueue(l)' <=> InQueue(l)
           /\ ToPost(l)' <=> ToPost(l)
  BY <1>1 DEF PostedBy, RepliedBy, Posted, Replied, Unread, InBuf, InQueue, ToPost
<1>4. /\ failed' \in [Numbers -> Nat]
      /\ \A l \in Numbers : /\ failed'[l] \in Nat /\ failed[l] \in Nat /\ failed'[l] >= failed[l]
                            /\ In(held[u], l) => failed'[l] = failed[l] + 1
  <2>1. /\ M!CountUp(failed, held[u]) \in [Numbers -> Nat]
        /\ \A l \in Numbers :
             /\ In(held[u], l) => M!CountUp(failed, held[u])[l] = failed[l] + 1
             /\ ~In(held[u], l) => M!CountUp(failed, held[u])[l] = failed[l]
    BY <1>a, CountUpEffect
  <2> QED
    BY <1>1, <1>a, <2>1
<1>5. \A l \in Numbers : In(held[u], l) => ToPost(l)
  BY <1>1 DEF ToPost, Posted, PostedBy
<1>6. LoadTypes'
  BY <1>1, <1>2, <1>4, <1>a DEF LoadTypes
<1>7. LoadOrder'
  BY <1>1, <1>a DEF LoadOrder
<1>8. LoadApart'
  BY <1>1, <1>3, <1>a DEF LoadApart
<1>9. LoadCounts'
  <2>1. \A l \in Numbers : /\ applied[l] \in Nat /\ applied[l] <= failed[l] + 1
                           /\ ToPost(l) => applied[l] <= failed[l]
    BY <1>a DEF LoadCounts
  <2>2. \A l \in Numbers : /\ applied'[l] <= failed'[l] + 1
                           /\ ToPost(l) => applied'[l] <= failed'[l]
                           /\ applied[l] > 0 => applied'[l] > 0
    BY <1>2, <1>4, <1>5, <1>a, <2>1
  <2> QED
    BY <1>1, <1>3, <1>a, <2>2 DEF LoadCounts
<1> QED
  BY <1>6, <1>7, <1>8, <1>9 DEF LoadInv

(* A reply: the server has applied the batch if it says so.                *)
LEMMA ReplyKeeps ==
  ASSUME LoadInv, main # "fatal", NEW u \in Users, M!Reply(u)
  PROVE  LoadInv'
<1>a. /\ LoadTypes /\ LoadOrder /\ LoadApart /\ LoadCounts
      /\ applied \in [Numbers -> Nat] /\ failed \in [Numbers -> Nat]
      /\ pc \in [Users -> {"range", "post", "unmarshal", "check", "exited"}]
      /\ reply \in [Users -> {"ErrorOk", "Error", "none", "bad"}]
  BY DEF LoadInv, LoadTypes
<1>1. /\ pc[u] = "post" /\ pc' = [pc EXCEPT ![u] = "unmarshal"]
      /\ UNCHANGED <<main, line, buf, queue, closed, held, failed, masked>>
  BY DEF M!Reply, M!batches
<1>2. PICK got \in {"ErrorOk", "Error", "none", "bad"} :
        /\ reply' = [reply EXCEPT ![u] = got]
        /\ IF got = "ErrorOk" THEN M!Apply(held[u]) ELSE UNCHANGED applied
  BY DEF M!Reply
<1>3. /\ pc'[u] = "unmarshal" /\ reply'[u] = got
      /\ \A v \in Users : v # u => pc'[v] = pc[v] /\ reply'[v] = reply[v]
  BY <1>1, <1>2, <1>a
<1>4. /\ applied' \in [Numbers -> Nat]
      /\ \A l \in Numbers :
           /\ applied'[l] = applied[l] \/ applied'[l] = applied[l] + 1
           /\ applied'[l] # applied[l] => PostedBy(u, l)
           /\ got = "ErrorOk" /\ PostedBy(u, l) => applied'[l] = applied[l] + 1
  <2>1. \A l \in Numbers : In(held[u], l) <=> PostedBy(u, l)
    BY <1>1 DEF PostedBy
  <2> QED
    BY <1>2, <1>a, <2>1, ApplyEffect
<1>5. \A v \in Users, l \in Numbers :
        /\ PostedBy(v, l)' <=> PostedBy(v, l) /\ v # u
        /\ RepliedBy(v, l)' <=> RepliedBy(v, l) \/ (v = u /\ PostedBy(u, l))
  BY <1>1, <1>3 DEF PostedBy, RepliedBy
<1>6. \A l \in Numbers :
        /\ Posted(l)' => Posted(l) /\ ~PostedBy(u, l)
        /\ Posted(l) => Posted(l)' \/ PostedBy(u, l)
        /\ Replied(l)' <=> Replied(l) \/ PostedBy(u, l)
        /\ PostedBy(u, l) => ToPost(l) /\ ~Unread(l) /\ ~InBuf(l) /\ ~InQueue(l)
  BY <1>5, <1>a DEF LoadApart, Posted, Replied, ToPost
<1>7. \A l \in Numbers :
        /\ Unread(l)' <=> Unread(l)
        /\ InBuf(l)' <=> InBuf(l)
        /\ InQueue(l)' <=> InQueue(l)
  BY <1>1 DEF Unread, InBuf, InQueue
<1>8. \A l \in Numbers : ToPost(l)' <=> ToPost(l) /\ ~PostedBy(u, l)
  BY <1>6, <1>7 DEF ToPost
<1>9. LoadTypes'
  BY <1>1, <1>2, <1>3, <1>4, <1>a DEF LoadTypes
<1>10. LoadOrder'
  BY <1>1, <1>3, <1>a DEF LoadOrder
<1>11. LoadApart'
  BY <1>1, <1>5, <1>6, <1>7, <1>a DEF LoadApart
<1>12. LoadCounts'
  <2>1. \A l \in Numbers : /\ applied[l] \in Nat /\ applied[l] <= failed[l] + 1
                           /\ ToPost(l) => applied[l] <= failed[l]
    BY <1>a DEF LoadCounts
  <2>2. \A l \in Numbers : /\ applied'[l] <= failed[l] + 1
                           /\ ToPost(l)' => applied'[l] <= failed[l]
                           /\ applied[l] > 0 => applied'[l] > 0
                           /\ got = "ErrorOk" /\ PostedBy(u, l) => applied'[l] > 0
    BY <1>4, <1>6, <1>8, <1>a, <2>1
  <2>3. \A l \in Numbers : ToPost(l)' \/ Replied(l)' \/ applied'[l] > 0 \/ l \in masked'
    BY <1>1, <1>6, <1>8, <1>a, <2>2 DEF LoadCounts
  <2>4. \A v \in Users, l \in Numbers :
          RepliedBy(v, l)' /\ reply'[v] = "ErrorOk" => applied'[l] > 0
    <3> SUFFICES ASSUME NEW v \in Users, NEW l \in Numbers, RepliedBy(v, l)', reply'[v] = "ErrorOk"
                 PROVE  applied'[l] > 0
      OBVIOUS
    <3>1. CASE v = u
      <4>1. ~RepliedBy(u, l)
        BY <1>1 DEF RepliedBy
      <4> QED
        BY <1>3, <1>5, <2>2, <3>1, <4>1
    <3>2. CASE v # u
      BY <1>3, <1>5, <1>a, <2>2, <3>2 DEF LoadCounts
    <3> QED
      BY <3>1, <3>2
  <2> QED
    BY <1>1, <2>2, <2>3, <2>4 DEF LoadCounts
<1> QED
  BY <1>9, <1>10, <1>11, <1>12 DEF LoadInv

(* The reply is unmarshalled over r; without JSON the loader ends.         *)
LEMMA UnmarshalKeeps ==
  ASSUME LoadInv, main # "fatal", NEW u \in Users, M!UnmarshalReply(u)
  PROVE  LoadInv'
<1>a. /\ LoadTypes /\ LoadOrder /\ LoadApart /\ LoadCounts
      /\ pc \in [Users -> {"range", "post", "unmarshal", "check", "exited"}]
  BY DEF LoadInv, LoadTypes
<1>1. CASE main' = "fatal"
  BY <1>1 DEF LoadInv
<1>2. CASE main' # "fatal"
  <2>1. /\ pc[u] = "unmarshal" /\ pc' = [pc EXCEPT ![u] = "check"]
        /\ UNCHANGED <<main, line, buf, queue, closed, held, reply, failed, applied, masked>>
    BY <1>2 DEF M!UnmarshalReply, M!server
  <2>2. pc'[u] = "check" /\ \A v \in Users : v # u => pc'[v] = pc[v]
    BY <1>a, <2>1
  <2>3. /\ \A v \in Users, l \in Numbers :
             /\ PostedBy(v, l)' <=> PostedBy(v, l)
             /\ RepliedBy(v, l)' <=> RepliedBy(v, l)
        /\ \A l \in Numbers :
             /\ Posted(l)' <=> Posted(l)
             /\ Replied(l)' <=> Replied(l)
             /\ Unread(l)' <=> Unread(l)
             /\ InBuf(l)' <=> InBuf(l)
             /\ InQueue(l)' <=> InQueue(l)
    BY <2>1, <2>2 DEF PostedBy, RepliedBy, Posted, Replied, Unread, InBuf, InQueue
  <2>4. LoadTypes'
    BY <1>a, <2>1, <2>2 DEF LoadTypes
  <2>5. LoadOrder'
    BY <1>a, <2>1, <2>2 DEF LoadOrder
  <2>6. LoadApart'
    BY <1>a, <2>1, <2>3 DEF LoadApart
  <2>7. LoadCounts'
    BY <1>a, <2>1, <2>3 DEF LoadCounts, ToPost
  <2> QED
    BY <2>4, <2>5, <2>6, <2>7 DEF LoadInv
<1> QED
  BY <1>1, <1>2

(* The code in r, whosever it is, decides whether the loader goes on.      *)
LEMMA CheckKeeps ==
  ASSUME LoadInv, main # "fatal", NEW u \in Users, M!Check(u)
  PROVE  LoadInv'
<1>a. /\ LoadTypes /\ LoadOrder /\ LoadApart /\ LoadCounts
      /\ pc \in [Users -> {"range", "post", "unmarshal", "check", "exited"}]
      /\ held[u] \in Batch
  BY DEF LoadInv, LoadTypes, M!Check
<1>1. CASE main' = "fatal"
  BY <1>1 DEF LoadInv
<1>2. CASE main' # "fatal"
  <2>1. /\ pc[u] = "check" /\ pc' = [pc EXCEPT ![u] = "range"]
        /\ masked' = IF reply[u] # "ErrorOk" THEN masked \cup M!ToSet(held[u]) ELSE masked
        /\ UNCHANGED <<main, line, buf, queue, closed, held, reply, failed, applied>>
    BY <1>2 DEF M!Check, M!server
  <2>2. pc'[u] = "range" /\ \A v \in Users : v # u => pc'[v] = pc[v]
    BY <1>a, <2>1
  <2>3. \A l \in Numbers : RepliedBy(u, l) => applied[l] > 0 \/ l \in masked'
    <3>1. \A l : In(held[u], l) => l \in M!ToSet(held[u])
      BY <1>a, LenProperties DEF In, M!ToSet, Batch
    <3> QED
      BY <1>a, <2>1, <3>1 DEF RepliedBy, LoadCounts
  <2>4. /\ \A v \in Users, l \in Numbers :
             /\ PostedBy(v, l)' <=> PostedBy(v, l)
             /\ RepliedBy(v, l)' => RepliedBy(v, l)
             /\ v # u /\ RepliedBy(v, l) => RepliedBy(v, l)'
        /\ \A l \in Numbers :
             /\ Posted(l)' <=> Posted(l)
             /\ Unread(l)' <=> Unread(l)
             /\ InBuf(l)' <=> InBuf(l)
             /\ InQueue(l)' <=> InQueue(l)
    BY <2>1, <2>2 DEF PostedBy, RepliedBy, Posted, Unread, InBuf, InQueue
  <2>5. \A l \in Numbers : Replied(l) => Replied(l)' \/ RepliedBy(u, l)
    BY <2>4 DEF Replied
  <2>6. LoadTypes'
    BY <1>a, <2>1, <2>2 DEF LoadTypes
  <2>7. LoadOrder'
    BY <1>a, <2>1, <2>2 DEF LoadOrder
  <2>8. LoadApart'
    BY <1>a, <2>1, <2>4 DEF LoadApart
  <2>9. LoadCounts'
    <3>1. \A l \in Numbers : (ToPost(l)' <=> ToPost(l)) /\ (l \in masked => l \in masked')
      BY <2>1, <2>4 DEF ToPost
    <3> QED
      BY <1>a, <2>1, <2>3, <2>4, <2>5, <3>1 DEF LoadCounts
  <2> QED
    BY <2>6, <2>7, <2>8, <2>9 DEF LoadInv
<1> QED
  BY <1>1, <1>2

(* main returns when every worker has.                                     *)
LEMMA ReturnKeeps ==
  ASSUME LoadInv, main # "fatal", M!Return
  PROVE  LoadInv'
<1>a. LoadTypes /\ LoadOrder /\ LoadApart /\ LoadCounts
  BY DEF LoadInv
<1>1. /\ main = "wait" /\ main' = "returned" /\ \A u \in Users : pc[u] = "exited"
      /\ UNCHANGED <<line, buf, queue, closed, pc, held, reply, failed, applied, masked>>
  BY DEF M!Return, M!server
<1>2. /\ \A v \in Users, l \in Numbers :
           /\ PostedBy(v, l)' <=> PostedBy(v, l)
           /\ RepliedBy(v, l)' <=> RepliedBy(v, l)
      /\ \A l \in Numbers :
           /\ Posted(l)' <=> Posted(l)
           /\ Replied(l)' <=> Replied(l)
           /\ Unread(l)' <=> Unread(l)
           /\ InBuf(l)' <=> InBuf(l)
           /\ InQueue(l)' <=> InQueue(l)
  BY <1>1 DEF PostedBy, RepliedBy, Posted, Replied, Unread, InBuf, InQueue
<1>3. LoadTypes' /\ LoadOrder'
  BY <1>1, <1>a DEF LoadTypes, LoadOrder
<1>4. LoadApart'
  BY <1>1, <1>2, <1>a DEF LoadApart
<1>5. LoadCounts'
  BY <1>1, <1>2, <1>a DEF LoadCounts, ToPost
<1> QED
  BY <1>3, <1>4, <1>5 DEF LoadInv

(* Every step of main and of a worker keeps the invariant; one that ends   *)
(* in log.Fatal has nothing to keep.                                       *)
LEMMA LoadStep == LoadInv /\ [M!Next]_(M!vars) => LoadInv'
<1> SUFFICES ASSUME LoadInv, [M!Next]_(M!vars) PROVE LoadInv'
  OBVIOUS
<1>1. CASE main \notin {"returned", "fatal"} /\ M!ReadLine
  BY <1>1, ReadLineKeeps
<1>2. CASE main \notin {"returned", "fatal"} /\ M!LastBatch
  BY <1>2, LastBatchKeeps
<1>3. CASE M!ReadFails
  BY <1>3 DEF M!ReadFails, LoadInv
<1>4. CASE main \notin {"returned", "fatal"} /\ M!Return
  BY <1>4, ReturnKeeps
<1>5. ASSUME NEW u \in Users, main \notin {"returned", "fatal"},
             M!Take(u) \/ M!Retry(u) \/ M!Reply(u) \/ M!UnmarshalReply(u) \/ M!Check(u)
      PROVE  LoadInv'
  BY <1>5, TakeKeeps, RetryKeeps, ReplyKeeps, UnmarshalKeeps, CheckKeeps
<1>6. CASE UNCHANGED M!vars
  <2>1. /\ LoadTypes' <=> LoadTypes
        /\ LoadOrder' <=> LoadOrder
    BY <1>6 DEF M!vars, LoadTypes, LoadOrder
  <2>2. LoadApart' <=> LoadApart
    BY <1>6 DEF M!vars, LoadApart, Posted, PostedBy, Unread, InBuf, InQueue
  <2>3. LoadCounts' <=> LoadCounts
    BY <1>6 DEF M!vars, LoadCounts, ToPost, Posted, PostedBy, Replied, RepliedBy, Unread,
         InBuf, InQueue
  <2>4. main' = main
    BY <1>6 DEF M!vars
  <2> QED
    BY <2>1, <2>2, <2>3, <2>4 DEF LoadInv
<1> QED
  BY <1>1, <1>2, <1>3, <1>4, <1>5, <1>6 DEF M!Next, M!Ended

(* A load that ends without an error has sent every line; a line that the  *)
(* server does not have is one whose rejection r hid, and a line was set   *)
(* once more than requests with its own batch failed at most: for any      *)
(* file, any batches and any number of workers and of failures.            *)
THEOREM LoadAlwaysAccounted == Spec => []LoadAccounted
<1> DEFINE Inv == program = "mutations" => LoadInv
<1>1. Init => Inv
  BY RunsAlone, LoadInit
<1>2. Inv /\ [Next]_vars => Inv'
  BY RunsAlone, LoadStep
<1>3. LoadInv => M!LoadAccounted
  <2> SUFFICES ASSUME LoadInv, main = "returned", NEW l \in Numbers
               PROVE  (applied[l] = 0 => l \in masked) /\ applied[l] <= 1 + failed[l]
    BY DEF M!LoadAccounted, Numbers
  <2>1. LoadTypes /\ LoadOrder /\ LoadCounts
    BY DEF LoadInv
  <2>2. /\ line = Lines /\ \A u \in Users : pc[u] = "exited"
    BY <2>1 DEF LoadOrder
  <2>3. queue = <<>>
    <3>1. CASE Users = {}
      <4>1. Len(queue) <= 0 /\ Len(queue) \in Nat /\ queue \in Seq(Batch)
        BY <2>1, <3>1, AskingFinite, LenProperties DEF LoadTypes
      <4> QED
        BY <4>1, EmptySeq
    <3>2. CASE Users # {}
      BY <2>1, <2>2, <3>2 DEF LoadOrder
    <3> QED
      BY <3>1, <3>2
  <2>4. ~ToPost(l) /\ ~Replied(l)
    BY <2>2, <2>3, NoLine, ProgramsAssumption
    DEF ToPost, Unread, InBuf, InQueue, Posted, PostedBy, Replied, RepliedBy, Numbers
  <2>5. /\ applied[l] > 0 \/ l \in masked
        /\ applied[l] <= failed[l] + 1 /\ applied[l] \in Nat /\ failed[l] \in Nat
    BY <2>1, <2>4 DEF LoadCounts, LoadTypes
  <2> QED
    BY <2>5
<1>4. Inv => LoadAccounted
  BY <1>3 DEF LoadAccounted
<1> QED
  BY <1>1, <1>2, <1>4, PTL DEF Spec

-----------------------------------------------------------------------------
(* throughputtest.                                                         *)

(* The sum and the cardinality LatencyFunnel computes with are those of    *)
(* Sums and FiniteSets.                                                    *)
LEMMA FunnelSumIsTotal == \A s : T!Total(s) = Total(s)
  BY DEF T!Total, Total

(* Of the queries of a user, the ones that are in the channels or behind   *)
(* them, and not yet in countC; and of its time, what they took.           *)
Counted(u) ==
  CASE pc[u] \in {"loop", "flush"} -> count[u]
    [] pc[u] \in {"query", "send"} -> count[u] - 1
    [] OTHER -> 0
Timed(u) ==
  CASE pc[u] \in {"loop", "query", "flush", "total"} -> total[u]
    [] pc[u] = "send" -> total[u] - dat[u]
    [] OTHER -> 0
Counts == [u \in Users |-> Counted(u)]
Times == [u \in Users |-> Timed(u)]

Latened == [len : Nat, kept : Nat, sum : Nat, whole : BOOLEAN]
Printed == [queries : Nat, time : Nat, ready : Nat, sorted : Nat, samples : Nat, last : Nat]

FunnelTypes ==
  /\ main \in {"start", "wait", "sum", "sort", "sorting", "percentiles", "extremes", "returned",
               "fatal"}
  /\ pc \in [Users -> {"idle", "loop", "query", "send", "flush", "total"}]
  /\ count \in [Users -> Nat] /\ total \in [Users -> Nat]
  /\ dat \in [Users -> Nat \cup {Nothing}]
  /\ countC \in Seq(Nat) /\ totalP \in Seq(Nat)
  /\ queue \in Seq(Nat) /\ Len(queue) <= LatCap
  /\ mover \in Seq(Nat) /\ Len(mover) <= 1
  /\ allLat \in Latened /\ report \in Printed

(* wg.Wait() waits for every user; a query that is under way is counted,   *)
(* and a latency that waits for room in latC is in the user's total.       *)
FunnelOrder ==
  /\ main \notin {"wait", "fatal"} => \A u \in Users : pc[u] = "idle"
  /\ allLat.len = allLat.kept \/ (allLat.len = allLat.kept + 1 /\ mover # <<>>)
  /\ \A u \in Users :
       /\ pc[u] \in {"query", "send"} => count[u] >= 1
       /\ pc[u] = "send" => dat[u] \in Nat /\ dat[u] <= total[u]

(* Until the sums are taken, what the users have sent of their counts and  *)
(* what they still hold is what came out of the other end of the funnel or *)
(* is still in it; and the same of the times.                              *)
FunnelSums ==
  main \in {"start", "wait", "sum"} =>
    /\ Total(countC) + SumOf(Counts) = allLat.kept + Len(queue) + Len(mover)
    /\ Total(totalP) + SumOf(Times) = allLat.sum + Total(queue) + Total(mover)

(* Then they are in the report; before the sort nothing is disturbed, and  *)
(* what is disturbed after its beginning was not ready when it began.      *)
FunnelReport ==
  /\ main \in {"start", "wait", "sum", "sort"} => allLat.whole /\ report.sorted = 0
  /\ main \in {"sort", "sorting", "percentiles", "extremes", "returned"} =>
       /\ report.queries = allLat.kept + Len(queue) + Len(mover)
       /\ report.time = allLat.sum + Total(queue) + Total(mover)
  /\ main \in {"sorting", "percentiles", "extremes", "returned"} =>
       /\ report.ready <= report.sorted /\ report.sorted <= allLat.len
       /\ report.ready <= allLat.kept /\ report.queries <= report.ready + LatCap + 1
       /\ report.ready = report.queries => allLat.whole
  /\ main \in {"extremes", "returned"} =>
       report.sorted <= report.samples /\ report.samples <= allLat.len
  /\ main = "returned" => report.samples <= report.last /\ report.last <= allLat.len

FunnelInv == FunnelTypes /\ FunnelOrder /\ FunnelSums /\ FunnelReport

(* What is held is a natural number of each user.                          *)
HeldAreNaturals == Counts \in [Users -> Nat] /\ Times \in [Users -> Nat]

(* What the users hold are numbers.                                        *)
LEMMA HeldTypes == FunnelTypes /\ FunnelOrder => HeldAreNaturals
<1> SUFFICES ASSUME FunnelTypes, FunnelOrder
             PROVE  Counts \in [Users -> Nat] /\ Times \in [Users -> Nat]
  BY DEF HeldAreNaturals
<1>1. ASSUME NEW u \in Users PROVE Counted(u) \in Nat /\ Timed(u) \in Nat
  <2>1. /\ pc[u] \in {"idle", "loop", "query", "send", "flush", "total"}
        /\ count[u] \in Nat /\ total[u] \in Nat
    BY DEF FunnelTypes
  <2>2. CASE pc[u] \in {"query", "send"}
    BY <2>1, <2>2 DEF FunnelOrder, Counted, Timed
  <2>3. CASE pc[u] \notin {"query", "send"}
    BY <2>1, <2>3 DEF Counted, Timed
  <2> QED
    BY <2>2, <2>3
<1> QED
  BY <1>1 DEF Counts, Times

(* And so after a step.                                                    *)
LEMMA HeldTypesNext == FunnelTypes' /\ FunnelOrder' => HeldAreNaturals'
  BY HeldTypes, PTL

(* The sums are naturals, and zero if no user is under way.                *)
HeldAreSums ==
  /\ SumOf(Counts) \in Nat /\ SumOf(Times) \in Nat
  /\ (\A u \in Users : pc[u] = "idle") => SumOf(Counts) = 0 /\ SumOf(Times) = 0

(* The sums over the users are numbers, and zero when all are idle.        *)
LEMMA HeldSums == FunnelTypes /\ FunnelOrder => HeldAreSums
<1> SUFFICES ASSUME FunnelTypes, FunnelOrder PROVE HeldAreSums
  OBVIOUS
<1>1. PICK f, g : f = Counts /\ g = Times
  OBVIOUS
<1>2. f \in [Users -> Nat] /\ g \in [Users -> Nat]
  BY <1>1, HeldTypes DEF HeldAreNaturals
<1>3. SumOf(f) \in Nat /\ SumOf(g) \in Nat
  BY <1>2, SumOfType, ProgramsAssumption
<1>4. ASSUME \A u \in Users : pc[u] = "idle" PROVE SumOf(f) = 0 /\ SumOf(g) = 0
  <2>1. \A u \in Users : f[u] = 0 /\ g[u] = 0
    BY <1>1, <1>4 DEF Counts, Times, Counted, Timed
  <2>2. DOMAIN f = Users /\ DOMAIN g = Users
    BY <1>2
  <2> QED
    BY <2>1, <2>2, SumOfZero
<1> QED
  BY <1>1, <1>3, <1>4 DEF HeldAreSums

(* And so after a step.                                                    *)
LEMMA HeldSumsNext == FunnelTypes' /\ FunnelOrder' => HeldAreSums'
  BY HeldSums, PTL

(* A step of one user changes the sums by what it changes of that user.    *)
LEMMA HeldByOne ==
  ASSUME FunnelTypes, FunnelOrder, FunnelTypes', FunnelOrder', NEW u \in Users,
         \A v \in Users : v # u =>
           pc'[v] = pc[v] /\ count'[v] = count[v] /\ total'[v] = total[v] /\ dat'[v] = dat[v]
  PROVE  /\ SumOf(Counts)' + Counted(u) = SumOf(Counts) + Counted(u)'
         /\ SumOf(Times)' + Timed(u) = SumOf(Times) + Timed(u)'
<1>1. PICK f, g, f1, g1 : f = Counts /\ g = Times /\ f1 = Counts' /\ g1 = Times'
  OBVIOUS
<1>2. f \in [Users -> Nat] /\ g \in [Users -> Nat]
  BY <1>1, HeldTypes DEF HeldAreNaturals
<1>3. f1 \in [Users -> Nat] /\ g1 \in [Users -> Nat]
  BY <1>1, HeldTypesNext DEF HeldAreNaturals
<1>4. \A v \in Users : v # u => f1[v] = f[v] /\ g1[v] = g[v]
  BY <1>1 DEF Counts, Times, Counted, Timed
<1>a. IsFiniteSet(Users)
  BY ProgramsAssumption
<1>5. /\ SumOf(f1) + f[u] = SumOf(f) + f1[u]
      /\ SumOf(g1) + g[u] = SumOf(g) + g1[u]
  <2>1. SumOf(f1) + f[u] = SumOf(f) + f1[u]
    BY <1>a, <1>2, <1>3, <1>4, SumOfChange
  <2>2. SumOf(g1) + g[u] = SumOf(g) + g1[u]
    BY <1>a, <1>2, <1>3, <1>4, SumOfChange
  <2> QED
    BY <2>1, <2>2
<1>6. /\ f[u] = Counted(u) /\ f1[u] = Counted(u)'
      /\ g[u] = Timed(u) /\ g1[u] = Timed(u)'
  BY <1>1 DEF Counts, Times
<1>7. SumOf(f1) = SumOf(Counts)' /\ SumOf(g1) = SumOf(Times)'
  BY <1>1
<1> QED
  BY <1>1, <1>5, <1>6, <1>7

Running == main \notin {"returned", "fatal"}

(* What a step of one user has to show.                                    *)
LEMMA UserSteps ==
  ASSUME FunnelInv, Running, main' \in {main, "fatal"}, NEW u \in Users, FunnelTypes', FunnelOrder',
         pc[u] # "idle", UNCHANGED <<mover, allLat, report>>,
         \A v \in Users : v # u =>
           pc'[v] = pc[v] /\ count'[v] = count[v] /\ total'[v] = total[v] /\ dat'[v] = dat[v],
         Total(countC)' + Counted(u)' + Len(queue) = Total(countC) + Counted(u) + Len(queue)',
         Total(totalP)' + Timed(u)' + Total(queue) = Total(totalP) + Timed(u) + Total(queue)'
  PROVE  FunnelInv'
<1>1. /\ SumOf(Counts)' + Counted(u) = SumOf(Counts) + Counted(u)'
      /\ SumOf(Times)' + Timed(u) = SumOf(Times) + Timed(u)'
  BY HeldByOne DEF FunnelInv
<1>2. /\ Counted(u) \in Nat /\ Timed(u) \in Nat
      /\ Counted(u)' \in Nat /\ Timed(u)' \in Nat
  BY HeldTypes, HeldTypesNext DEF HeldAreNaturals, Counts, Times, FunnelInv
<1>3. /\ SumOf(Counts) \in Nat /\ SumOf(Times) \in Nat
      /\ SumOf(Counts)' \in Nat /\ SumOf(Times)' \in Nat
  BY HeldSums, HeldSumsNext DEF HeldAreSums, FunnelInv
<1>4. /\ Total(countC) \in Nat /\ Total(totalP) \in Nat /\ Total(queue) \in Nat
      /\ Total(countC)' \in Nat /\ Total(totalP)' \in Nat /\ Total(queue)' \in Nat
  BY Totals DEF FunnelInv, FunnelTypes
<1>5. /\ Len(queue) \in Nat /\ Len(queue)' \in Nat /\ Len(mover) \in Nat /\ Total(mover) \in Nat
      /\ allLat.kept \in Nat /\ allLat.sum \in Nat
  <2>1. /\ queue \in Seq(Nat) /\ queue' \in Seq(Nat) /\ mover \in Seq(Nat)
        /\ allLat \in Latened
    BY DEF FunnelInv, FunnelTypes
  <2> QED
    BY <2>1, Totals, LenProperties DEF Latened
<1>6. FunnelSums'
  <2> SUFFICES ASSUME main' \in {"start", "wait", "sum"}
               PROVE  /\ Total(countC)' + SumOf(Counts)'
                           = allLat.kept + Len(queue)' + Len(mover)
                      /\ Total(totalP)' + SumOf(Times)'
                           = allLat.sum + Total(queue)' + Total(mover)
    BY DEF FunnelSums
  <2>1. main = main'
    OBVIOUS
  <2>2. /\ Total(countC) + SumOf(Counts) = allLat.kept + Len(queue) + Len(mover)
        /\ Total(totalP) + SumOf(Times) = allLat.sum + Total(queue) + Total(mover)
    BY <2>1 DEF FunnelInv, FunnelSums
  <2>3. PICK a, a1, s, s1, c, c1, q, q1, l, m \in Nat :
          /\ a = Total(countC) /\ a1 = Total(countC)' /\ s = SumOf(Counts) /\ s1 = SumOf(Counts)'
          /\ c = Counted(u) /\ c1 = Counted(u)' /\ q = Len(queue) /\ q1 = Len(queue)'
          /\ l = allLat.kept /\ m = Len(mover)
    BY <1>2, <1>3, <1>4, <1>5
  <2>4. a1 + s1 = l + q1 + m
    <3>1. a1 + c1 + q = a + c + q1 /\ s1 + c = s + c1 /\ a + s = l + q + m
      BY <1>1, <2>2, <2>3, Zenon
    <3> QED
      BY <3>1
  <2>5. PICK b, b1, t, t1, d, d1, o, o1, k, n \in Nat :
          /\ b = Total(totalP) /\ b1 = Total(totalP)' /\ t = SumOf(Times) /\ t1 = SumOf(Times)'
          /\ d = Timed(u) /\ d1 = Timed(u)' /\ o = Total(queue) /\ o1 = Total(queue)'
          /\ k = allLat.sum /\ n = Total(mover)
    BY <1>2, <1>3, <1>4, <1>5
  <2>6. b1 + t1 = k + o1 + n
    <3>1. b1 + d1 + o = b + d + o1 /\ t1 + d = t + d1 /\ b + t = k + o + n
      BY <1>1, <2>2, <2>5, Zenon
    <3> QED
      BY <3>1
  <2> QED
    BY <2>3, <2>4, <2>5, <2>6, Zenon
<1>7. FunnelReport'
  <2>1. main = "wait"
    BY DEF FunnelInv, FunnelOrder, Running
  <2> QED
    BY <2>1 DEF FunnelInv, FunnelReport
<1> QED
  BY <1>6, <1>7 DEF FunnelInv

(* The query is counted before it is sent.                                 *)
LEMMA QueryStep ==
  ASSUME FunnelInv, Running, NEW u \in Users, T!Query(u)
  PROVE  FunnelInv'
<1> USE DEF T!Query, T!Go, T!results, T!funnel
<1>a. /\ pc \in [Users -> {"idle", "loop", "query", "send", "flush", "total"}]
      /\ count \in [Users -> Nat]
  BY DEF FunnelInv, FunnelTypes
<1>1. /\ pc[u] = "loop" /\ UNCHANGED <<main, total, dat, countC, totalP, queue, mover, allLat, report>>
      /\ \A v \in Users : v # u => pc'[v] = pc[v] /\ count'[v] = count[v]
      /\ \/ pc'[u] = "query" /\ count'[u] = count[u] + 1
         \/ pc'[u] = "flush" /\ count'[u] = count[u]
      /\ count[u] \in Nat
      /\ pc' \in [Users -> {"idle", "loop", "query", "send", "flush", "total"}]
      /\ count' \in [Users -> Nat]
  <2>1. \/ pc' = [pc EXCEPT ![u] = "query"] /\ count' = [count EXCEPT ![u] = @ + 1]
        \/ pc' = [pc EXCEPT ![u] = "flush"] /\ count' = count
    OBVIOUS
  <2>2. CASE pc' = [pc EXCEPT ![u] = "query"] /\ count' = [count EXCEPT ![u] = @ + 1]
    BY <1>a, <2>2
  <2>3. CASE pc' = [pc EXCEPT ![u] = "flush"] /\ count' = count
    BY <1>a, <2>3
  <2> QED
    BY <2>1, <2>2, <2>3
<1> USE DEF FunnelInv
<1>2. FunnelTypes'
  BY <1>1 DEF FunnelTypes
<1>3. FunnelOrder'
  BY <1>1 DEF FunnelOrder
<1>4. /\ Counted(u) = count[u] /\ Counted(u)' = count[u]
      /\ Timed(u) = total[u] /\ Timed(u)' = total[u]
  BY <1>1 DEF Counted, Timed
<1> QED
  BY <1>1, <1>2, <1>3, <1>4, UserSteps

(* A reply, or none: the latency is in the total before it is in latC.     *)
LEMMA ReplyStep ==
  ASSUME FunnelInv, Running, NEW u \in Users, T!Reply(u) \/ T!ReplyFails(u)
  PROVE  FunnelInv'
<1> USE DEF T!Reply, T!ReplyFails, T!Go, T!results, T!funnel, T!users
<1>1. CASE main' = "fatal"
  <2>1. UNCHANGED <<pc, count, total, dat, countC, totalP, queue, mover, allLat, report>>
    BY <1>1 DEF Running
  <2>2. FunnelTypes' /\ FunnelOrder'
    BY <1>1, <2>1 DEF FunnelInv, FunnelTypes, FunnelOrder
  <2>3. FunnelSums' /\ FunnelReport'
    BY <1>1 DEF FunnelSums, FunnelReport
  <2> QED
    BY <2>2, <2>3 DEF FunnelInv
<1>2. CASE main' # "fatal"
  <2>1. PICK now \in Nat :
          /\ pc[u] = "query" /\ UNCHANGED <<main, count, countC, totalP, queue, mover, allLat, report>>
          /\ dat' = [dat EXCEPT ![u] = now]
          /\ total' = [total EXCEPT ![u] = @ + now]
          /\ pc' = [pc EXCEPT ![u] = "send"]
    <3>1. T!Reply(u)
      BY <1>2
    <3>2. PICK got \in Latencies \cup {Nothing} :
            LET now == IF got = Nothing THEN dat[u] ELSE got IN
            IF now = Nothing
            THEN main' = "fatal" /\ UNCHANGED <<pc, count, total, dat>>
            ELSE /\ dat' = [dat EXCEPT ![u] = now]
                 /\ total' = [total EXCEPT ![u] = @ + now]
                 /\ pc' = [pc EXCEPT ![u] = "send"]
                 /\ UNCHANGED <<main, count>>
      BY <3>1
    <3> DEFINE now == IF got = Nothing THEN dat[u] ELSE got
    <3>3. now # Nothing
      BY <1>2, <3>2
    <3>4. now \in Nat
      BY <3>3, ProgramsAssumption DEF FunnelInv, FunnelTypes
    <3> QED
      BY <3>1, <3>2, <3>3, <3>4
  <2>2. /\ pc' \in [Users -> {"idle", "loop", "query", "send", "flush", "total"}]
        /\ total' \in [Users -> Nat] /\ dat' \in [Users -> Nat \cup {Nothing}]
        /\ pc'[u] = "send" /\ total'[u] = total[u] + now /\ dat'[u] = now
        /\ \A v \in Users : v # u => pc'[v] = pc[v] /\ total'[v] = total[v] /\ dat'[v] = dat[v]
        /\ count[u] \in Nat /\ total[u] \in Nat
    BY <2>1 DEF FunnelInv, FunnelTypes
  <2>3. FunnelTypes'
    BY <2>1, <2>2 DEF FunnelInv, FunnelTypes
  <2>4. FunnelOrder'
    BY <2>1, <2>2 DEF FunnelInv, FunnelOrder
  <2>5. /\ Counted(u) = count[u] - 1 /\ Counted(u)' = count[u] - 1
        /\ Timed(u) = total[u] /\ Timed(u)' = total[u]
    BY <2>1, <2>2 DEF Counted, Timed
  <2> QED
    BY <2>1, <2>2, <2>3, <2>4, <2>5, UserSteps
<1> QED
  BY <1>1, <1>2

(* latC <- tot.Seconds()                                                   *)
LEMMA SendLatencyStep ==
  ASSUME FunnelInv, Running, NEW u \in Users, T!SendLatency(u)
  PROVE  FunnelInv'
<1> USE DEF T!SendLatency, T!Go, T!results
<1>1. /\ pc[u] = "send" /\ UNCHANGED <<main, count, total, dat, countC, totalP, mover, allLat, report>>
      /\ Len(queue) < LatCap /\ queue' = Append(queue, dat[u])
      /\ \A v \in Users : v # u => pc'[v] = pc[v]
      /\ pc'[u] = "loop" /\ count[u] \in Nat /\ total[u] \in Nat /\ queue \in Seq(Nat)
      /\ pc' \in [Users -> {"idle", "loop", "query", "send", "flush", "total"}]
  BY DEF FunnelInv, FunnelTypes
<1> HIDE DEF T!SendLatency, T!Go, T!results
<1>2. dat[u] \in Nat /\ count[u] >= 1 /\ dat[u] <= total[u]
  BY <1>1 DEF FunnelInv, FunnelOrder
<1>3. queue' \in Seq(Nat) /\ Len(queue') = Len(queue) + 1 /\ Len(queue) \in Nat
  BY <1>1, <1>2, AppendProperties, LenProperties
<1>4. FunnelTypes'
  BY <1>1, <1>3, ProgramsAssumption DEF FunnelInv, FunnelTypes
<1>5. FunnelOrder'
  BY <1>1 DEF FunnelInv, FunnelOrder
<1>6. /\ Counted(u) = count[u] - 1 /\ Counted(u)' = count[u]
      /\ Timed(u) = total[u] - dat[u] /\ Timed(u)' = total[u]
  BY <1>1 DEF Counted, Timed
<1>7. Total(queue') = Total(queue) + dat[u]
  BY <1>1, <1>2, Totals
<1>8. /\ Total(countC) \in Nat /\ Total(totalP) \in Nat /\ Total(queue) \in Nat
  BY Totals DEF FunnelInv, FunnelTypes
<1>9. /\ Total(countC)' + Counted(u)' + Len(queue) = Total(countC) + Counted(u) + Len(queue)'
      /\ Total(totalP)' + Timed(u)' + Total(queue) = Total(totalP) + Timed(u) + Total(queue)'
  <2>1. Total(countC)' = Total(countC) /\ Total(totalP)' = Total(totalP)
    BY <1>1
  <2>2. Total(countC)' + Counted(u)' + Len(queue) = Total(countC) + Counted(u) + Len(queue)'
    <3>1. count[u] \in Nat /\ Len(queue)' = Len(queue) + 1 /\ Len(queue) \in Nat
      BY <1>1, <1>3
    <3> QED
      BY <1>6, <1>8, <2>1, <3>1
  <2>3. Total(totalP)' + Timed(u)' + Total(queue) = Total(totalP) + Timed(u) + Total(queue)'
    BY <1>1, <1>2, <1>6, <1>7, <1>8, <2>1
  <2> QED
    BY <2>2, <2>3
<1> QED
  BY <1>1, <1>4, <1>5, <1>9, UserSteps

(* countC <- count, then totalP <- totT.Seconds()                          *)
LEMMA SendResultsStep ==
  ASSUME FunnelInv, Running, NEW u \in Users, T!SendCount(u) \/ T!SendTotal(u)
  PROVE  FunnelInv'
<1> USE DEF T!SendCount, T!SendTotal, T!Go, T!funnel
<1>1. /\ pc \in [Users -> {"idle", "loop", "query", "send", "flush", "total"}]
      /\ count[u] \in Nat /\ total[u] \in Nat
      /\ countC \in Seq(Nat) /\ totalP \in Seq(Nat) /\ queue \in Seq(Nat)
  BY DEF FunnelInv, FunnelTypes
<1>2. UNCHANGED <<main, count, total, dat, queue, mover, allLat, report>>
  OBVIOUS
<1>3. /\ Total(countC) \in Nat /\ Total(totalP) \in Nat /\ Total(queue) \in Nat
      /\ Len(queue) \in Nat
  BY <1>1, Totals, LenProperties
<1>4. CASE T!SendCount(u)
  <2>1. /\ pc[u] = "flush" /\ pc' = [pc EXCEPT ![u] = "total"]
        /\ countC' = Append(countC, count[u]) /\ totalP' = totalP
    BY <1>4
  <2>2. /\ pc' \in [Users -> {"idle", "loop", "query", "send", "flush", "total"}]
        /\ pc'[u] = "total" /\ \A v \in Users : v # u => pc'[v] = pc[v]
    BY <1>1, <2>1
  <2>3. countC' \in Seq(Nat) /\ Total(countC') = Total(countC) + count[u]
    BY <1>1, <2>1, AppendProperties, Totals
  <2>4. FunnelTypes'
    BY <1>2, <2>1, <2>2, <2>3 DEF FunnelInv, FunnelTypes
  <2>5. FunnelOrder'
    BY <1>2, <2>1, <2>2 DEF FunnelInv, FunnelOrder
  <2>6. /\ Counted(u) = count[u] /\ Counted(u)' = 0
        /\ Timed(u) = total[u] /\ Timed(u)' = total[u]
    BY <1>2, <2>1, <2>2 DEF Counted, Timed
  <2>7. /\ Total(countC)' + Counted(u)' + Len(queue) = Total(countC) + Counted(u) + Len(queue)'
        /\ Total(totalP)' + Timed(u)' + Total(queue) = Total(totalP) + Timed(u) + Total(queue)'
    BY <1>1, <1>2, <1>3, <2>1, <2>3, <2>6
  <2> QED
    BY <1>2, <2>2, <2>4, <2>5, <2>7, UserSteps
<1>5. CASE T!SendTotal(u)
  <2>1. /\ pc[u] = "total" /\ pc' = [pc EXCEPT ![u] = "idle"]
        /\ totalP' = Append(totalP, total[u]) /\ countC' = countC
    BY <1>5
  <2>2. /\ pc' \in [Users -> {"idle", "loop", "query", "send", "flush", "total"}]
        /\ pc'[u] = "idle" /\ \A v \in Users : v # u => pc'[v] = pc[v]
    BY <1>1, <2>1
  <2>3. totalP' \in Seq(Nat) /\ Total(totalP') = Total(totalP) + total[u]
    BY <1>1, <2>1, AppendProperties, Totals
  <2>4. FunnelTypes'
    BY <1>2, <2>1, <2>2, <2>3 DEF FunnelInv, FunnelTypes
  <2>5. FunnelOrder'
    BY <1>2, <2>1, <2>2 DEF FunnelInv, FunnelOrder
  <2>6. /\ Counted(u) = 0 /\ Counted(u)' = 0
        /\ Timed(u) = total[u] /\ Timed(u)' = 0
    BY <1>2, <2>1, <2>2 DEF Counted, Timed
  <2>7. /\ Total(countC)' + Counted(u)' + Len(queue) = Total(countC) + Counted(u) + Len(queue)'
        /\ Total(totalP)' + Timed(u)' + Total(queue) = Total(totalP) + Timed(u) + Total(queue)'
    BY <1>1, <1>2, <1>3, <2>1, <2>3, <2>6
  <2> QED
    BY <1>2, <2>2, <2>4, <2>5, <2>7, UserSteps
<1> QED
  BY <1>4, <1>5

(* A sequence of one number, and what is left of it.                       *)
LEMMA OneInHand ==
  ASSUME NEW m \in Seq(Nat), m # <<>>, Len(m) <= 1
  PROVE  Len(m) = 1 /\ Head(m) \in Nat /\ Total(m) = Head(m)
<1>1. Head(m) \in Nat /\ Tail(m) \in Seq(Nat) /\ Len(Tail(m)) = Len(m) - 1 /\ Len(m) \in Nat \ {0}
  BY HeadTailProperties, LenProperties, EmptySeq
<1>2. Len(m) = 1 /\ Len(Tail(m)) = 0
  BY <1>1
<1>3. Tail(m) = <<>>
  <2>1. \A s \in Seq(Nat) : s # <<>> => Len(s) \in Nat \ {0}
    BY EmptySeq
  <2>2. PICK t : t = Tail(m)
    OBVIOUS
  <2>3. t \in Seq(Nat) /\ Len(t) = 0
    BY <1>1, <1>2, <2>2
  <2> QED
    BY <2>1, <2>2, <2>3
<1>4. Total(m) = Head(m) + 0
  <2>1. Total(m) = Head(m) + Total(Tail(m)) /\ Total(<<>>) = 0
    BY Totals
  <2> QED
    BY <1>3, <2>1
<1>5. PICK h \in Nat : h = Head(m)
  BY <1>1
<1>6. Total(m) = h
  BY <1>4, <1>5
<1> QED
  BY <1>1, <1>2, <1>5, <1>6

(* What the goroutine behind latC does: nothing is lost, allLat grows, and *)
(* is disturbed only by what was not stored when the sort began.           *)
MoverBalance ==
  /\ allLat'.kept + Len(queue') + Len(mover') = allLat.kept + Len(queue) + Len(mover)
  /\ allLat'.sum + Total(queue') + Total(mover') = allLat.sum + Total(queue) + Total(mover)
  /\ allLat.kept <= allLat'.kept /\ allLat.len <= allLat'.len
  /\ main \in {"start", "wait", "sum", "sort"} /\ allLat.whole /\ report.sorted = 0 => allLat'.whole
  /\ mover # <<>> \/ allLat'.whole = allLat.whole

(* What leaves latC is in the hands of the goroutine.                      *)
LEMMA TakeLatencyStep ==
  ASSUME FunnelInv, Running, T!TakeLatency
  PROVE  FunnelTypes' /\ FunnelOrder' /\ MoverBalance
<1> USE DEF T!TakeLatency, T!users, T!results
<1>1. /\ UNCHANGED <<main, pc, count, total, dat, countC, totalP, allLat, report>>
      /\ mover = <<>> /\ queue # <<>> /\ mover' = <<Head(queue)>> /\ queue' = Tail(queue)
  OBVIOUS
<1> HIDE DEF T!TakeLatency, T!users, T!results
<1>2. /\ queue \in Seq(Nat) /\ Len(queue) <= LatCap /\ allLat \in Latened
      /\ allLat.len \in Nat /\ allLat.kept \in Nat /\ allLat.sum \in Nat
      /\ Len(queue) \in Nat
  BY LenProperties DEF FunnelInv, FunnelTypes, Latened
<1>3. Head(queue) \in Nat /\ Tail(queue) \in Seq(Nat) /\ Len(Tail(queue)) = Len(queue) - 1
  BY <1>1, <1>2, HeadTailProperties
<1>4. Total(queue) = Head(queue) + Total(Tail(queue)) /\ Total(Tail(queue)) \in Nat
  BY <1>1, <1>2, <1>3, Totals
<1>5. Total(mover') = Head(queue) /\ Total(mover) = 0 /\ mover' \in Seq(Nat)
  <2>1. mover' = Append(<<>>, Head(queue)) /\ <<>> \in Seq(Nat)
    BY <1>1, <1>3
  <2>2. Total(Append(<<>>, Head(queue))) = 0 + Head(queue)
    BY <1>3, <2>1, Totals
  <2> QED
    BY <1>1, <1>3, <2>1, <2>2, Totals
<1>6. Len(mover') = 1 /\ Len(mover) = 0 /\ Len(queue') = Len(queue) - 1
  BY <1>1, <1>3
<1>7. Len(queue') <= LatCap
  BY <1>2, <1>6, ProgramsAssumption
<1>8. FunnelTypes'
  BY <1>1, <1>3, <1>5, <1>6, <1>7 DEF FunnelInv, FunnelTypes
<1>9. FunnelOrder'
  BY <1>1, <1>2 DEF FunnelInv, FunnelOrder
<1>10. allLat'.kept + Len(queue') + Len(mover') = allLat.kept + Len(queue) + Len(mover)
  BY <1>1, <1>2, <1>6
<1>11. allLat'.sum + Total(queue') + Total(mover') = allLat.sum + Total(queue) + Total(mover)
  BY <1>1, <1>2, <1>3, <1>4, <1>5
<1>12. Len(queue) + Len(mover) > 0
  BY <1>2, <1>3, <1>6, LenProperties
<1> QED
  BY <1>1, <1>2, <1>8, <1>9, <1>10, <1>11, <1>12 DEF MoverBalance

(* The header, and the element behind it.                                  *)
LEMMA AppendLatencyStep ==
  ASSUME FunnelInv, Running, T!GrowLatency \/ T!StoreLatency
  PROVE  FunnelTypes' /\ FunnelOrder' /\ MoverBalance
<1>1. /\ UNCHANGED <<main, pc, count, total, dat, countC, totalP, queue, report>>
      /\ mover # <<>>
  BY DEF T!GrowLatency, T!StoreLatency, T!users, T!results
<1>2. /\ queue \in Seq(Nat) /\ Len(queue) \in Nat /\ Total(queue) \in Nat
      /\ mover \in Seq(Nat) /\ allLat \in Latened
      /\ allLat.len \in Nat /\ allLat.kept \in Nat /\ allLat.sum \in Nat /\ allLat.whole \in BOOLEAN
      /\ report.sorted \in Nat
  BY LenProperties, Totals DEF FunnelInv, FunnelTypes, Latened, Printed
<1>3. Len(mover) = 1 /\ Head(mover) \in Nat /\ Total(mover) = Head(mover)
  BY <1>1, <1>2, OneInHand DEF FunnelInv, FunnelTypes
<1>4. CASE T!GrowLatency
  <2>1. PICK copies \in BOOLEAN :
          allLat' = [allLat EXCEPT !.len = @ + 1, !.whole = @ /\ ~(copies /\ main = "sorting")]
    BY <1>4 DEF T!GrowLatency
  <2>2. /\ mover' = mover /\ allLat.len = allLat.kept
    BY <1>4 DEF T!GrowLatency
  <2>3. /\ allLat' \in Latened
        /\ allLat'.len = allLat.len + 1 /\ allLat'.kept = allLat.kept /\ allLat'.sum = allLat.sum
        /\ main # "sorting" => allLat'.whole = allLat.whole
    <3>1. PICK w \in BOOLEAN : w = (allLat.whole /\ ~(copies /\ main = "sorting"))
      OBVIOUS
    <3>2. main # "sorting" => w = allLat.whole
      BY <1>2, <3>1
    <3>3. PICK k \in Nat : k = allLat.len + 1
      BY <1>2
    <3>4. allLat' = [allLat EXCEPT !.len = k, !.whole = w]
      BY <2>1, <3>1, <3>3
    <3>5. allLat' \in Latened
      BY <1>2, <3>4, Zenon DEF Latened
    <3>6. /\ allLat'.len = k /\ allLat'.kept = allLat.kept /\ allLat'.sum = allLat.sum
          /\ allLat'.whole = w
      BY <1>2, <3>4 DEF Latened
    <3> QED
      BY <3>2, <3>3, <3>5, <3>6
  <2>4. FunnelTypes'
    BY <1>1, <2>2, <2>3 DEF FunnelInv, FunnelTypes
  <2>5. FunnelOrder'
    BY <1>1, <2>2, <2>3 DEF FunnelInv, FunnelOrder
  <2>6. MoverBalance
    <3>1. /\ allLat'.kept + Len(queue') + Len(mover') = allLat.kept + Len(queue) + Len(mover)
          /\ allLat'.sum + Total(queue') + Total(mover') = allLat.sum + Total(queue) + Total(mover)
      BY <1>1, <2>2, <2>3, Zenon
    <3>2. allLat.kept <= allLat'.kept /\ allLat.len <= allLat'.len
      BY <1>2, <2>3
    <3>3. main \in {"start", "wait", "sum", "sort"} => allLat'.whole = allLat.whole
      BY <2>3
    <3> QED
      BY <1>1, <3>1, <3>2, <3>3 DEF MoverBalance
  <2> QED
    BY <2>4, <2>5, <2>6
<1>5. CASE T!StoreLatency
  <2>1. /\ mover' = <<>> /\ allLat.len = allLat.kept + 1
        /\ allLat' = [allLat EXCEPT !.kept = @ + 1, !.sum = @ + Head(mover),
                                    !.whole = @ /\ report.sorted < allLat.len]
    BY <1>5 DEF T!StoreLatency
  <2>2. /\ allLat' \in Latened
        /\ allLat'.len = allLat.len /\ allLat'.kept = allLat.kept + 1
        /\ allLat'.sum = allLat.sum + Head(mover)
        /\ report.sorted < allLat.len => allLat'.whole = allLat.whole
    <3>1. PICK w \in BOOLEAN : w = (allLat.whole /\ report.sorted < allLat.len)
      OBVIOUS
    <3>2. report.sorted < allLat.len => w = allLat.whole
      BY <1>2, <3>1
    <3>3. PICK k, n \in Nat : k = allLat.kept + 1 /\ n = allLat.sum + Head(mover)
      <4>1. PICK h, a, b \in Nat : h = Head(mover) /\ a = allLat.sum /\ b = allLat.kept
        BY <1>2, <1>3
      <4>2. a + h \in Nat /\ b + 1 \in Nat
        BY <4>1
      <4> QED
        BY <4>1, <4>2
    <3>4. allLat' = [allLat EXCEPT !.kept = k, !.sum = n, !.whole = w]
      BY <2>1, <3>1, <3>3
    <3>5. allLat' \in Latened
      BY <1>2, <3>4, Zenon DEF Latened
    <3>6. /\ allLat'.len = allLat.len /\ allLat'.kept = k /\ allLat'.sum = n
          /\ allLat'.whole = w
      BY <1>2, <3>4 DEF Latened
    <3> QED
      BY <3>2, <3>3, <3>5, <3>6
  <2>3. mover' \in Seq(Nat) /\ Len(mover') = 0 /\ Total(mover') = 0
    BY <2>1, Totals, EmptySeq
  <2>4. FunnelTypes'
    BY <1>1, <2>2, <2>3 DEF FunnelInv, FunnelTypes
  <2>5. FunnelOrder'
    <3>1. allLat'.len = allLat'.kept
      BY <1>2, <2>1, <2>2
    <3> QED
      BY <1>1, <3>1 DEF FunnelInv, FunnelOrder
  <2>6. MoverBalance
    <3>1. allLat'.kept + Len(queue') + Len(mover') = allLat.kept + Len(queue) + Len(mover)
      BY <1>1, <1>2, <1>3, <2>2, <2>3
    <3>2. allLat'.sum + Total(queue') + Total(mover') = allLat.sum + Total(queue) + Total(mover)
      BY <1>1, <1>2, <1>3, <2>2, <2>3
    <3>3. allLat.kept <= allLat'.kept /\ allLat.len <= allLat'.len
      BY <1>2, <2>2
    <3>4. report.sorted = 0 => allLat'.whole = allLat.whole
      BY <1>2, <2>1, <2>2
    <3> QED
      BY <1>1, <3>1, <3>2, <3>3, <3>4 DEF MoverBalance
  <2> QED
    BY <2>4, <2>5, <2>6
<1> QED
  BY <1>4, <1>5

(* The goroutine behind latC keeps the balance at any time.                *)
LEMMA MoverStep ==
  ASSUME FunnelInv, Running, T!TakeLatency \/ T!GrowLatency \/ T!StoreLatency
  PROVE  FunnelInv'
<1>1. FunnelTypes' /\ FunnelOrder' /\ MoverBalance
  BY TakeLatencyStep, AppendLatencyStep
<1>2. UNCHANGED <<main, pc, count, total, dat, countC, totalP, report>>
  BY DEF T!TakeLatency, T!GrowLatency, T!StoreLatency, T!users, T!results
<1>3. SumOf(Counts)' = SumOf(Counts) /\ SumOf(Times)' = SumOf(Times)
  <2>1. Counts' = Counts /\ Times' = Times
    BY <1>2 DEF Counts, Times, Counted, Timed
  <2> QED
    BY <2>1
<1>4. FunnelSums'
  BY <1>1, <1>2, <1>3 DEF FunnelInv, FunnelSums, MoverBalance
<1>5. FunnelReport'
  <2>1. /\ allLat.len \in Nat /\ allLat.kept \in Nat /\ allLat'.len \in Nat /\ allLat'.kept \in Nat
        /\ report \in Printed
    BY <1>1 DEF FunnelInv, FunnelTypes, Latened
  <2>2. /\ report.queries \in Nat /\ report.ready \in Nat /\ report.sorted \in Nat
        /\ report.samples \in Nat /\ report.last \in Nat
    BY <2>1 DEF Printed
  <2>3. /\ queue \in Seq(Nat) /\ mover \in Seq(Nat) /\ Len(queue) \in Nat /\ Len(mover) \in Nat
        /\ mover # <<>> => Len(mover) = 1
    BY LenProperties, OneInHand DEF FunnelInv, FunnelTypes
  <2>5. ASSUME main \in {"sorting", "percentiles", "extremes", "returned"},
               report.ready = report.queries
        PROVE  allLat'.whole
    <3>1. Len(queue) = 0 /\ Len(mover) = 0
      <4>1. /\ report.queries = allLat.kept + Len(queue) + Len(mover)
            /\ report.ready <= allLat.kept
        BY <2>5 DEF FunnelInv, FunnelReport
      <4> QED
        BY <2>1, <2>2, <2>3, <2>5, <4>1
    <3>2. mover = <<>>
      BY <2>3, <3>1
    <3> QED
      BY <1>1, <2>5, <3>2 DEF FunnelInv, FunnelReport, MoverBalance
  <2>6. main \in {"start", "wait", "sum", "sort"} => allLat'.whole /\ report'.sorted = 0
    BY <1>1, <1>2 DEF FunnelInv, FunnelReport, MoverBalance
  <2>7. main \in {"sort", "sorting", "percentiles", "extremes", "returned"} =>
          /\ report'.queries = allLat'.kept + Len(queue') + Len(mover')
          /\ report'.time = allLat'.sum + Total(queue') + Total(mover')
    BY <1>1, <1>2 DEF FunnelInv, FunnelReport, MoverBalance
  <2>8. main \in {"sorting", "percentiles", "extremes", "returned"} =>
          /\ report.sorted <= allLat'.len /\ report.ready <= allLat'.kept
    <3>1. main \in {"sorting", "percentiles", "extremes", "returned"} =>
            /\ report.sorted <= allLat.len /\ report.ready <= allLat.kept
      BY DEF FunnelInv, FunnelReport
    <3>2. allLat.kept <= allLat'.kept /\ allLat.len <= allLat'.len
      BY <1>1 DEF MoverBalance
    <3> QED
      BY <2>1, <2>2, <3>1, <3>2
  <2>9. main \in {"extremes", "returned"} => report.samples <= allLat'.len
    <3>1. main \in {"extremes", "returned"} => report.samples <= allLat.len
      BY DEF FunnelInv, FunnelReport
    <3>2. allLat.len <= allLat'.len
      BY <1>1 DEF MoverBalance
    <3> QED
      BY <2>1, <2>2, <3>1, <3>2
  <2>10. main # "returned"
    BY DEF Running
  <2> QED
    BY <1>2, <2>5, <2>6, <2>7, <2>8, <2>9, <2>10 DEF FunnelInv, FunnelReport
<1> QED
  BY <1>1, <1>4, <1>5 DEF FunnelInv

(* A round starts and ends with nobody under way.                          *)
LEMMA RoundStep ==
  ASSUME FunnelInv, Running, T!StartRound \/ T!Wait
  PROVE  FunnelInv'
<1> USE DEF T!StartRound, T!Wait, T!results, T!funnel, T!users
<1>1. /\ UNCHANGED <<countC, totalP, queue, mover, allLat, report>>
      /\ main \in {"start", "wait"} /\ main' \in {"start", "wait", "sum"}
  OBVIOUS
<1>2. FunnelTypes' /\ FunnelOrder'
  <2>1. CASE T!StartRound
    BY <1>1, <2>1 DEF FunnelInv, FunnelTypes, FunnelOrder
  <2>2. CASE T!Wait
    BY <1>1, <2>2 DEF FunnelInv, FunnelTypes, FunnelOrder
  <2> QED
    BY <2>1, <2>2
<1>3. SumOf(Counts) = 0 /\ SumOf(Times) = 0
  <2>1. \A u \in Users : pc[u] = "idle"
    BY DEF FunnelInv, FunnelOrder
  <2> QED
    BY <2>1, HeldSums DEF FunnelInv, HeldAreSums
<1>4. SumOf(Counts)' = 0 /\ SumOf(Times)' = 0
  <2>1. CASE T!StartRound
    <3>1. PICK f, g : f = Counts' /\ g = Times'
      OBVIOUS
    <3>2. \A u \in Users : f[u] = 0 /\ g[u] = 0
      BY <2>1, <3>1 DEF Counts, Times, Counted, Timed
    <3>3. DOMAIN f = Users /\ DOMAIN g = Users
      BY <3>1 DEF Counts, Times
    <3>4. SumOf(f) = 0 /\ SumOf(g) = 0
      BY <3>2, <3>3, SumOfZero
    <3> QED
      BY <3>1, <3>4
  <2>2. CASE T!Wait
    <3>1. \A u \in Users : pc'[u] = "idle"
      BY <2>2
    <3> QED
      BY <1>2, <3>1, HeldSumsNext DEF HeldAreSums
  <2> QED
    BY <2>1, <2>2
<1>5. FunnelSums'
  <2>1. /\ Total(countC)' = Total(countC) /\ Total(totalP)' = Total(totalP)
        /\ Total(queue)' = Total(queue) /\ Total(mover)' = Total(mover)
    BY <1>1
  <2> QED
    BY <1>1, <1>3, <1>4, <2>1 DEF FunnelInv, FunnelSums
<1>6. FunnelReport'
  BY <1>1 DEF FunnelInv, FunnelReport
<1> QED
  BY <1>2, <1>5, <1>6 DEF FunnelInv

(* The sums are taken with nobody under way.                               *)
LEMMA SummarizeStep ==
  ASSUME FunnelInv, Running, T!Summarize
  PROVE  FunnelInv'
<1>1. /\ UNCHANGED <<pc, count, total, dat, queue, mover, allLat>> /\ main = "sum"
      /\ main' = "sort" /\ countC' = <<>> /\ totalP' = <<>>
      /\ report' = [report EXCEPT !.queries = Total(countC), !.time = Total(totalP)]
  BY FunnelSumIsTotal DEF T!Summarize, T!funnel, T!users
<1>2. /\ Total(countC) \in Nat /\ Total(totalP) \in Nat /\ allLat.kept \in Nat /\ allLat.sum \in Nat
      /\ Len(queue) \in Nat /\ Len(mover) \in Nat /\ Total(queue) \in Nat /\ Total(mover) \in Nat
  BY Totals, LenProperties DEF FunnelInv, FunnelTypes, Latened
<1>3. /\ report' \in Printed /\ report'.sorted = report.sorted
      /\ report'.queries = Total(countC) /\ report'.time = Total(totalP)
  BY <1>1, <1>2 DEF FunnelInv, FunnelTypes, Printed
<1>4. FunnelTypes' /\ FunnelOrder'
  BY <1>1, <1>3, EmptySeq DEF FunnelInv, FunnelTypes, FunnelOrder
<1>5. SumOf(Counts) = 0 /\ SumOf(Times) = 0
  <2>1. \A u \in Users : pc[u] = "idle"
    BY <1>1 DEF FunnelInv, FunnelOrder
  <2> QED
    BY <2>1, HeldSums DEF FunnelInv, HeldAreSums
<1>6. /\ Total(countC) = allLat.kept + Len(queue) + Len(mover)
      /\ Total(totalP) = allLat.sum + Total(queue) + Total(mover)
  <2>1. /\ Total(countC) + SumOf(Counts) = allLat.kept + Len(queue) + Len(mover)
        /\ Total(totalP) + SumOf(Times) = allLat.sum + Total(queue) + Total(mover)
    BY <1>1 DEF FunnelInv, FunnelSums
  <2> QED
    BY <1>2, <1>5, <2>1
<1>7. FunnelSums'
  BY <1>1 DEF FunnelSums
<1>8. FunnelReport'
  <2>1. Total(queue)' = Total(queue) /\ Total(mover)' = Total(mover)
    BY <1>1
  <2> QED
    BY <1>1, <1>3, <1>6, <2>1 DEF FunnelInv, FunnelReport
<1> QED
  BY <1>4, <1>7, <1>8 DEF FunnelInv

(* The sort and the prints see what allLat is at their time.               *)
LEMMA ReportStep ==
  ASSUME FunnelInv, Running, T!BeginSort \/ T!EndSort \/ T!Percentiles \/ T!Extremes
  PROVE  FunnelInv'
<1>1. UNCHANGED <<pc, count, total, dat, countC, totalP, queue, mover, allLat>>
  BY DEF T!BeginSort, T!EndSort, T!Percentiles, T!Extremes, T!users, T!results, T!funnel
<1>2. /\ report \in Printed /\ allLat.len \in Nat /\ allLat.kept \in Nat
      /\ report.queries \in Nat /\ report.ready \in Nat /\ report.sorted \in Nat
      /\ report.samples \in Nat /\ report.last \in Nat
  BY DEF FunnelInv, FunnelTypes, Printed, Latened
<1>3. /\ Len(queue) \in Nat /\ Len(mover) \in Nat /\ Len(queue) <= LatCap /\ Len(mover) <= 1
      /\ LatCap \in Nat
  BY LenProperties, ProgramsAssumption DEF FunnelInv, FunnelTypes
<1>4. Total(queue)' = Total(queue) /\ Total(mover)' = Total(mover)
  BY <1>1
<1>5. allLat.len = allLat.kept \/ allLat.len = allLat.kept + 1
  BY DEF FunnelInv, FunnelOrder
<1>6. CASE T!BeginSort
  <2>1. /\ main = "sort" /\ main' = "sorting"
        /\ report' = [report EXCEPT !.ready = allLat.kept, !.sorted = allLat.len]
    BY <1>6 DEF T!BeginSort
  <2>2. /\ report' \in Printed /\ report'.queries = report.queries /\ report'.time = report.time
        /\ report'.ready = allLat.kept /\ report'.sorted = allLat.len
    BY <1>2, <2>1 DEF Printed
  <2>3. FunnelTypes' /\ FunnelOrder' /\ FunnelSums'
    BY <1>1, <2>1, <2>2 DEF FunnelInv, FunnelTypes, FunnelOrder, FunnelSums
  <2>4. FunnelReport'
    <3>1. /\ report.queries = allLat.kept + Len(queue) + Len(mover) /\ allLat.whole
          /\ report.time = allLat.sum + Total(queue) + Total(mover)
      BY <2>1 DEF FunnelInv, FunnelReport
    <3>2. /\ report'.ready <= report'.sorted /\ report'.queries <= report'.ready + LatCap + 1
      BY <1>2, <1>3, <1>5, <2>2, <3>1
    <3> QED
      BY <1>1, <1>2, <1>4, <2>1, <2>2, <3>1, <3>2 DEF FunnelReport
  <2> QED
    BY <2>3, <2>4 DEF FunnelInv
<1>7. CASE T!EndSort
  <2>1. main = "sorting" /\ main' = "percentiles" /\ report' = report
    BY <1>7 DEF T!EndSort
  <2>2. FunnelTypes' /\ FunnelOrder' /\ FunnelSums'
    BY <1>1, <2>1 DEF FunnelInv, FunnelTypes, FunnelOrder, FunnelSums
  <2>3. FunnelReport'
    BY <1>1, <1>4, <2>1 DEF FunnelInv, FunnelReport
  <2> QED
    BY <2>2, <2>3 DEF FunnelInv
<1>8. CASE T!Percentiles
  <2>1. /\ main = "percentiles" /\ main' \in {"fatal", "extremes"}
        /\ report' = [report EXCEPT !.samples = allLat.len]
    BY <1>8 DEF T!Percentiles
  <2>2. /\ report' \in Printed /\ report'.queries = report.queries /\ report'.time = report.time
        /\ report'.ready = report.ready /\ report'.sorted = report.sorted
        /\ report'.samples = allLat.len
    BY <1>2, <2>1 DEF Printed
  <2>3. FunnelTypes' /\ FunnelOrder' /\ FunnelSums'
    BY <1>1, <2>1, <2>2 DEF FunnelInv, FunnelTypes, FunnelOrder, FunnelSums
  <2>4. FunnelReport'
    BY <1>1, <1>2, <1>4, <2>1, <2>2 DEF FunnelInv, FunnelReport
  <2> QED
    BY <2>3, <2>4 DEF FunnelInv
<1>9. CASE T!Extremes
  <2>1. /\ main = "extremes" /\ main' = "returned"
        /\ report' = [report EXCEPT !.last = allLat.len]
    BY <1>9 DEF T!Extremes
  <2>2. /\ report' \in Printed /\ report'.queries = report.queries /\ report'.time = report.time
        /\ report'.ready = report.ready /\ report'.sorted = report.sorted
        /\ report'.samples = report.samples /\ report'.last = allLat.len
    BY <1>2, <2>1 DEF Printed
  <2>3. FunnelTypes' /\ FunnelOrder' /\ FunnelSums'
    BY <1>1, <2>1, <2>2 DEF FunnelInv, FunnelTypes, FunnelOrder, FunnelSums
  <2>4. FunnelReport'
    BY <1>1, <1>2, <1>4, <2>1, <2>2 DEF FunnelInv, FunnelReport
  <2> QED
    BY <2>3, <2>4 DEF FunnelInv
<1> QED
  BY <1>6, <1>7, <1>8, <1>9

(* The invariant of the funnel holds at first.                             *)
LEMMA FunnelInit == T!Init => FunnelInv
<1> SUFFICES ASSUME T!Init PROVE FunnelInv
  OBVIOUS
<1> USE DEF T!Init
<1>1. FunnelTypes /\ FunnelOrder
  BY EmptySeq, ProgramsAssumption DEF FunnelTypes, FunnelOrder, Latened, Printed
<1>2. SumOf(Counts) = 0 /\ SumOf(Times) = 0
  <2>1. \A u \in Users : pc[u] = "idle"
    OBVIOUS
  <2> QED
    BY <1>1, <2>1, HeldSums DEF HeldAreSums
<1>3. FunnelSums
  BY <1>2, Totals, EmptySeq DEF FunnelSums
<1>4. FunnelReport
  BY DEF FunnelReport
<1> QED
  BY <1>1, <1>3, <1>4 DEF FunnelInv

(* Every step of main, of a user and of the mover keeps the balance; after *)
(* main has returned, and after log.Fatal, there are none.                 *)
LEMMA FunnelStep == FunnelInv /\ [T!Next]_(T!vars) => FunnelInv'
<1> SUFFICES ASSUME FunnelInv, [T!Next]_(T!vars) PROVE FunnelInv'
  OBVIOUS
<1>1. CASE UNCHANGED T!vars
  <2>1. UNCHANGED <<main, pc, count, total, dat, countC, totalP, queue, mover, allLat, report>>
    BY <1>1 DEF T!vars
  <2>2. FunnelTypes' /\ FunnelOrder'
    BY <2>1 DEF FunnelInv, FunnelTypes, FunnelOrder
  <2>3. SumOf(Counts)' = SumOf(Counts) /\ SumOf(Times)' = SumOf(Times)
    <3>1. Counts' = Counts /\ Times' = Times
      BY <2>1 DEF Counts, Times, Counted, Timed
    <3> QED
      BY <3>1
  <2>4. FunnelSums'
    BY <2>1, <2>3 DEF FunnelInv, FunnelSums
  <2>5. FunnelReport'
    BY <2>1 DEF FunnelInv, FunnelReport
  <2> QED
    BY <2>2, <2>4, <2>5 DEF FunnelInv
<1>2. CASE Running /\ (T!StartRound \/ T!Wait)
  BY <1>2, RoundStep
<1>3. CASE Running /\ (T!Summarize \/ T!BeginSort \/ T!EndSort \/ T!Percentiles \/ T!Extremes)
  BY <1>3, SummarizeStep, ReportStep
<1>4. CASE Running /\ (T!TakeLatency \/ T!GrowLatency \/ T!StoreLatency)
  BY <1>4, MoverStep
<1>5. ASSUME NEW u \in Users, Running,
             \/ T!Query(u) \/ T!Reply(u) \/ T!ReplyFails(u) \/ T!SendLatency(u)
             \/ T!SendCount(u) \/ T!SendTotal(u)
      PROVE  FunnelInv'
  <2>1. CASE T!Query(u)
    BY <1>5, <2>1, QueryStep
  <2>2. CASE T!Reply(u) \/ T!ReplyFails(u)
    BY <1>5, <2>2, ReplyStep
  <2>3. CASE T!SendLatency(u)
    BY <1>5, <2>3, SendLatencyStep
  <2>4. CASE T!SendCount(u) \/ T!SendTotal(u)
    BY <1>5, <2>4, SendResultsStep
  <2> QED
    BY <1>5, <2>1, <2>2, <2>3, <2>4
<1> QED
  BY <1>1, <1>2, <1>3, <1>4, <1>5 DEF T!Next, T!Ended, Running

(* The report of the throughput test counts every query and its time; the  *)
(* sort misses what latC holds and one more at most, the prints see no     *)
(* less than it, and they are of all latencies, sorted, if it missed none: *)
(* for any number of users, rounds and queries, any latencies and any room *)
(* in latC, with the goroutine behind it at work between all of main's     *)
(* steps.                                                                  *)
THEOREM FunnelAlwaysConserved == Spec => []FunnelConserved
<1> DEFINE Inv == program = "latency" => FunnelInv
<1>1. Init => Inv
  BY RunsAlone, FunnelInit
<1>2. Inv /\ [Next]_vars => Inv'
  BY RunsAlone, FunnelStep
<1>3. FunnelInv => T!FunnelConserved
  <2> SUFFICES ASSUME FunnelInv, main = "returned"
               PROVE  /\ report.queries = allLat.kept + Len(queue) + Len(mover)
                      /\ report.time = allLat.sum + Total(queue) + Total(mover)
                      /\ report.ready <= report.sorted /\ report.sorted <= report.samples
                      /\ report.samples <= report.last /\ report.last <= allLat.len
                      /\ report.queries <= report.ready + LatCap + 1
                      /\ report.ready = report.queries =>
                           allLat.whole /\ report.last = report.queries
    BY FunnelSumIsTotal DEF T!FunnelConserved
  <2>1. /\ report.queries = allLat.kept + Len(queue) + Len(mover)
        /\ report.time = allLat.sum + Total(queue) + Total(mover)
        /\ report.ready <= report.sorted /\ report.sorted <= report.samples
        /\ report.samples <= report.last /\ report.last <= allLat.len
        /\ report.ready <= allLat.kept /\ report.queries <= report.ready + LatCap + 1
        /\ report.ready = report.queries => allLat.whole
    BY DEF FunnelInv, FunnelReport
  <2>2. ASSUME report.ready = report.queries PROVE report.last = report.queries
    <3>1. /\ allLat.len \in Nat /\ allLat.kept \in Nat /\ report.queries \in Nat
          /\ report.ready \in Nat /\ report.sorted \in Nat
          /\ report.samples \in Nat /\ report.last \in Nat
      BY DEF FunnelInv, FunnelTypes, Latened, Printed
    <3>2. /\ mover \in Seq(Nat) /\ Len(queue) \in Nat /\ Len(mover) \in Nat
          /\ mover # <<>> => Len(mover) = 1
      BY LenProperties, OneInHand DEF FunnelInv, FunnelTypes
    <3>3. Len(mover) = 0 /\ allLat.kept = report.queries
      BY <2>1, <2>2, <3>1, <3>2
    <3>4. allLat.len = allLat.kept
      BY <3>2, <3>3 DEF FunnelInv, FunnelOrder
    <3> QED
      BY <2>1, <2>2, <3>1, <3>3, <3>4
  <2> QED
    BY <2>1, <2>2
<1>4. Inv => FunnelConserved
  BY <1>3 DEF FunnelConserved
<1> QED
  BY <1>1, <1>2, <1>4, PTL DEF Spec

(* The messages or queries that left the channel of feeds and replay.      *)
Taken == line - Len(queue)

-----------------------------------------------------------------------------
(* twitterdata.                                                            *)

(* What FeedFiles uses of FiniteSets.                                      *)
LEMMA FeedCardinality == \A S : F!Cardinality(S) = Cardinality(S)
  BY DEF F!Cardinality, F!IsFiniteSet, Cardinality, IsFiniteSet

(* The tweets of a sequence grow with it; its last message, if it is a     *)
(* tweet, is one of them.                                                  *)
LEMMA TweetsGrow ==
  ASSUME NEW fates
  PROVE  /\ F!Tweets(fates, <<>>) = <<>>
         /\ \A s \in Seq(Nat) : F!Tweets(fates, s) \in Seq(Nat)
         /\ \A s \in Seq(Nat) : F!EndsGood(fates, s) => F!Tweets(fates, s) # <<>>
         /\ \A s \in Seq(Nat), x \in Nat :
              F!Tweets(fates, Append(s, x))
                = IF fates[x] = "tweet" THEN Append(F!Tweets(fates, s), x) ELSE F!Tweets(fates, s)
<1> DEFINE Longer(t, x) == IF fates[x] = "tweet" THEN Append(t, x) ELSE t
           Upto(f, s) == f[0] = <<>> /\ \A k \in 1..Len(s) : f[k] = Longer(f[k - 1], s[k])
<1>1. ASSUME NEW s \in Seq(Nat)
      PROVE  \E f \in [0..Len(s) -> Seq(Nat)] : Upto(f, s) /\ F!Tweets(fates, s) = f[Len(s)]
  <2> DEFINE Steps == [k \in 1..Len(s) |-> [t \in Seq(Nat) |-> Longer(t, s[k])]]
             Def(g) == [n \in 0..Len(s) |->
                          IF n = 0 THEN <<>>
                          ELSE IF fates[s[n]] = "tweet" THEN Append(g[n - 1], s[n]) ELSE g[n - 1]]
  <2>1. /\ Len(s) \in Nat /\ \A k \in 1..Len(s) : s[k] \in Nat
        /\ <<>> \in Seq(Nat)
    BY LenProperties, ElementOfSeq, EmptySeq
  <2>2. PICK f \in [0..Len(s) -> Seq(Nat)] : Iterates(f, <<>>, Steps, Len(s))
    <3>1. \A k \in 1..Len(s), t \in Seq(Nat) : Longer(t, s[k]) \in Seq(Nat)
      BY <2>1, AppendProperties
    <3>2. Steps \in [1..Len(s) -> [Seq(Nat) -> Seq(Nat)]]
      <4> HIDE DEF Longer
      <4> QED
        BY <3>1
    <3> HIDE DEF Steps
    <3> QED
      BY <2>1, <3>2, IterationExists
  <2>3. Upto(f, s)
    <3> SUFFICES ASSUME NEW k \in 1..Len(s) PROVE f[k] = Longer(f[k - 1], s[k])
      BY <2>2 DEF Iterates
    <3> HIDE DEF Longer
    <3>1. k - 1 \in 0..Len(s)
      BY <2>1
    <3>2. f[k - 1] \in Seq(Nat)
      BY <3>1
    <3>3. Steps[k][f[k - 1]] = Longer(f[k - 1], s[k])
      BY <3>2
    <3> QED
      BY <2>2, <3>3 DEF Iterates
  <2>4. f = Def(f)
    <3>1. \A n \in 0..Len(s) :
             f[n] = IF n = 0 THEN <<>>
                    ELSE IF fates[s[n]] = "tweet" THEN Append(f[n - 1], s[n]) ELSE f[n - 1]
      <4> SUFFICES ASSUME NEW n \in 0..Len(s), n # 0
                   PROVE  f[n] = IF fates[s[n]] = "tweet" THEN Append(f[n - 1], s[n])
                                 ELSE f[n - 1]
        BY <2>3
      <4>1. n \in 1..Len(s)
        BY <2>1
      <4> QED
        BY <2>3, <4>1
    <3> QED
      BY <3>1
  <2> DEFINE upto == CHOOSE g : g = Def(g)
  <2>5. upto = Def(upto)
    BY <2>4
  <2>6. F!Tweets(fates, s) = upto[Len(s)]
    BY DEF F!Tweets
  <2> HIDE DEF upto
  <2>7. upto[0] = <<>> /\ \A k \in 1..Len(s) : upto[k] = Longer(upto[k - 1], s[k])
    <3>1. \A n \in 0..Len(s) :
             upto[n] = IF n = 0 THEN <<>>
                       ELSE IF fates[s[n]] = "tweet" THEN Append(upto[n - 1], s[n])
                       ELSE upto[n - 1]
      BY <2>5
    <3>2. 0 \in 0..Len(s) /\ \A k \in 1..Len(s) : k \in 0..Len(s) /\ k # 0
      BY <2>1
    <3> QED
      BY <3>1, <3>2
  <2>8. \A k \in 0..Len(s) : f[k] = upto[k]
    <3>1. /\ f[0] = upto[0]
          /\ \A k \in 1..Len(s) : f[k - 1] = upto[k - 1] => f[k] = upto[k]
      BY <2>3, <2>7
    <3>2. GoAlike(f, upto, Len(s))
      BY <3>1 DEF GoAlike
    <3>3. Alike(f, upto, Len(s))
      BY <2>1, <3>2, SameIterations
    <3> QED
      BY <3>3 DEF Alike
  <2> QED
    BY <2>1, <2>3, <2>6, <2>8
<1>2. ASSUME NEW s \in Seq(Nat), NEW g, Upto(g, s) PROVE F!Tweets(fates, s) = g[Len(s)]
  <2>1. PICK f \in [0..Len(s) -> Seq(Nat)] : Upto(f, s) /\ F!Tweets(fates, s) = f[Len(s)]
    BY <1>1
  <2>2. Len(s) \in Nat
    BY LenProperties
  <2>3. f[0] = g[0] /\ \A k \in 1..Len(s) : f[k - 1] = g[k - 1] => f[k] = g[k]
    BY <1>2, <2>1
  <2>4. \A k \in 0..Len(s) : f[k] = g[k]
    <3>1. GoAlike(f, g, Len(s))
      BY <2>3 DEF GoAlike
    <3>2. Alike(f, g, Len(s))
      BY <2>2, <3>1, SameIterations
    <3> QED
      BY <3>2 DEF Alike
  <2> QED
    BY <2>1, <2>2, <2>4
<1>3. F!Tweets(fates, <<>>) = <<>>
  <2>1. PICK f \in [0..Len(<<>>) -> Seq(Nat)] : Upto(f, <<>>) /\ F!Tweets(fates, <<>>) = f[Len(<<>>)]
    BY <1>1, EmptySeq
  <2> QED
    BY <2>1, EmptySeq
<1>4. ASSUME NEW s \in Seq(Nat) PROVE F!Tweets(fates, s) \in Seq(Nat)
  <2>1. Len(s) \in 0..Len(s)
    BY LenProperties
  <2> QED
    BY <1>1, <2>1
<1>5. ASSUME NEW s \in Seq(Nat), F!EndsGood(fates, s) PROVE F!Tweets(fates, s) # <<>>
  <2>1. PICK f \in [0..Len(s) -> Seq(Nat)] : Upto(f, s) /\ F!Tweets(fates, s) = f[Len(s)]
    BY <1>1
  <2>2. s # <<>> /\ fates[s[Len(s)]] = "tweet"
    BY <1>5 DEF F!EndsGood, F!Last
  <2>3. Len(s) \in Nat \ {0} /\ Len(s) \in 1..Len(s) /\ Len(s) - 1 \in 0..Len(s)
        /\ s[Len(s)] \in Nat
    <3>1. Len(s) \in Nat \ {0}
      BY <2>2, EmptySeq
    <3> QED
      BY <3>1, ElementOfSeq
  <2>4. f[Len(s)] = Append(f[Len(s) - 1], s[Len(s)]) /\ f[Len(s) - 1] \in Seq(Nat)
    BY <2>1, <2>2, <2>3
  <2>5. Len(f[Len(s)]) = Len(f[Len(s) - 1]) + 1 /\ Len(f[Len(s) - 1]) \in Nat
    BY <2>3, <2>4, AppendProperties, LenProperties
  <2>6. Len(f[Len(s)]) # 0
    BY <2>5
  <2> QED
    BY <2>1, <2>6, EmptySeq
<1>6. ASSUME NEW s \in Seq(Nat), NEW x \in Nat
      PROVE  F!Tweets(fates, Append(s, x)) = Longer(F!Tweets(fates, s), x)
  <2>1. PICK f \in [0..Len(s) -> Seq(Nat)] : Upto(f, s) /\ F!Tweets(fates, s) = f[Len(s)]
    BY <1>1
  <2> DEFINE t == Append(s, x)
             g == [k \in 0..Len(s) + 1 |-> IF k <= Len(s) THEN f[k] ELSE Longer(f[Len(s)], x)]
  <2>2. /\ t \in Seq(Nat) /\ Len(t) = Len(s) + 1 /\ Len(s) \in Nat
        /\ t[Len(s) + 1] = x /\ \A k \in 1..Len(s) : t[k] = s[k]
    BY AppendProperties, LenProperties
  <2> HIDE DEF Longer
  <2>3. /\ g[0] = f[0] /\ g[Len(s) + 1] = Longer(f[Len(s)], x)
        /\ \A k \in 0..Len(s) : g[k] = f[k]
    BY <2>2
  <2> HIDE DEF t, g
  <2>4. \A k \in 1..Len(t) : g[k] = Longer(g[k - 1], t[k])
    <3> TAKE k \in 1..Len(t)
    <3>1. CASE k = Len(s) + 1
      BY <2>2, <2>3, <3>1
    <3>2. CASE k # Len(s) + 1
      <4>1. k \in 1..Len(s) /\ k \in 0..Len(s) /\ k - 1 \in 0..Len(s)
        BY <2>2, <3>2
      <4> QED
        BY <2>1, <2>2, <2>3, <4>1
    <3> QED
      BY <3>1, <3>2
  <2>5. g[0] = <<>>
    BY <2>1, <2>3
  <2>6. F!Tweets(fates, t) = g[Len(t)]
    BY <1>2, <2>2, <2>4, <2>5
  <2> QED
    BY <2>1, <2>2, <2>3, <2>6 DEF t
<1> QED
  BY <1>3, <1>4, <1>5, <1>6

Token == Nat \cup {Open, Comma, End, LineFeed}

(* The tweets with commas between them, and one more of them.              *)
LEMMA BetweenGrows ==
  /\ F!Between(<<>>) = <<>>
  /\ \A s \in Seq(Nat) : F!Between(s) \in Seq(Token)
  /\ \A s \in Seq(Nat), x \in Nat :
       F!Between(Append(s, x)) = F!Between(s) \o (IF s = <<>> THEN <<x>> ELSE <<Comma, x>>)
<1>1. F!Between(<<>>) = <<>>
  <2>1. 1..2 * Len(<<>>) - 1 = {}
    BY EmptySeq
  <2> QED
    BY <2>1 DEF F!Between
<1>2. ASSUME NEW s \in Seq(Nat), s # <<>>
      PROVE  F!Between(s) \in Seq(Token) /\ Len(F!Between(s)) = 2 * Len(s) - 1
  <2>1. Len(s) \in Nat \ {0} /\ \A k \in 1..Len(s) : s[k] \in Nat
    BY <1>2, EmptySeq, ElementOfSeq
  <2>2. 2 * Len(s) - 1 \in Nat
    BY <2>1
  <2>3. F!Between(s) \in [1..2 * Len(s) - 1 -> Token]
    <3> SUFFICES ASSUME NEW i \in 1..2 * Len(s) - 1
                 PROVE  (IF i % 2 = 1 THEN s[(i + 1) \div 2] ELSE Comma) \in Token
      BY DEF F!Between
    <3>1. (i + 1) \div 2 \in 1..Len(s)
      BY <2>1
    <3> QED
      BY <2>1, <3>1 DEF Token
  <2>4. \A n \in Nat : [1..n -> Token] \subseteq Seq(Token)
    BY SeqDef
  <2>5. F!Between(s) \in Seq(Token)
    BY <2>2, <2>3, <2>4
  <2>6. DOMAIN F!Between(s) = 1..2 * Len(s) - 1 /\ DOMAIN F!Between(s) = 1..Len(F!Between(s))
        /\ Len(F!Between(s)) \in Nat
    BY <2>3, <2>5, LenProperties
  <2> QED
    BY <2>2, <2>5, <2>6
<1>3. ASSUME NEW s \in Seq(Nat) PROVE F!Between(s) \in Seq(Token)
  BY <1>1, <1>2, EmptySeq
<1>4. ASSUME NEW s \in Seq(Nat), NEW x \in Nat
      PROVE  F!Between(Append(s, x)) = F!Between(s) \o (IF s = <<>> THEN <<x>> ELSE <<Comma, x>>)
  <2> DEFINE t == Append(s, x)
  <2>1. /\ t \in Seq(Nat) /\ Len(t) = Len(s) + 1 /\ Len(s) \in Nat /\ t # <<>>
        /\ t[Len(s) + 1] = x /\ \A k \in 1..Len(s) : t[k] = s[k]
    <3>1. /\ t \in Seq(Nat) /\ Len(t) = Len(s) + 1 /\ Len(s) \in Nat
          /\ t[Len(s) + 1] = x /\ \A k \in 1..Len(s) : t[k] = s[k]
      BY AppendProperties, LenProperties
    <3> QED
      BY <3>1, EmptySeq
  <2> HIDE DEF t
  <2>2. /\ F!Between(t) \in Seq(Token) /\ Len(F!Between(t)) = 2 * Len(s) + 1
        /\ \A i \in 1..2 * Len(s) + 1 :
             F!Between(t)[i] = IF i % 2 = 1 THEN t[(i + 1) \div 2] ELSE Comma
    <3>1. 2 * Len(t) - 1 = 2 * Len(s) + 1
      BY <2>1
    <3>2. F!Between(t) \in Seq(Token) /\ Len(F!Between(t)) = 2 * Len(t) - 1
      BY <1>2, <2>1
    <3>3. \A i \in 1..2 * Len(t) - 1 :
             F!Between(t)[i] = IF i % 2 = 1 THEN t[(i + 1) \div 2] ELSE Comma
      BY DEF F!Between
    <3> QED
      BY <3>1, <3>2, <3>3
  <2>3. CASE s = <<>>
    <3>1. Len(s) = 0
      BY <2>3, EmptySeq
    <3>2. Len(F!Between(t)) = 1 /\ F!Between(t)[1] = x
      BY <2>1, <2>2, <3>1
    <3>3. <<x>> \in Seq(Token) /\ Len(<<x>>) = 1 /\ <<x>>[1] = x
      BY DEF Token
    <3>4. F!Between(t) = <<x>>
      BY <2>2, <3>2, <3>3, SeqEqual
    <3>5. <<>> \o <<x>> = <<x>>
      BY <3>3, ConcatEmptySeq
    <3> QED
      BY <1>1, <2>3, <3>4, <3>5 DEF t
  <2>4. CASE s # <<>>
    <3> DEFINE b == F!Between(s)
               r == b \o <<Comma, x>>
    <3>1. /\ b \in Seq(Token) /\ Len(b) = 2 * Len(s) - 1 /\ Len(s) >= 1
          /\ \A i \in 1..2 * Len(s) - 1 : b[i] = IF i % 2 = 1 THEN s[(i + 1) \div 2] ELSE Comma
      <4>1. Len(s) \in Nat \ {0}
        BY <2>4, EmptySeq
      <4>2. \A i \in 1..2 * Len(s) - 1 : b[i] = IF i % 2 = 1 THEN s[(i + 1) \div 2] ELSE Comma
        BY DEF F!Between
      <4> QED
        BY <1>2, <2>4, <4>1, <4>2
    <3> HIDE DEF b
    <3>2. /\ <<Comma, x>> \in Seq(Token) /\ Len(<<Comma, x>>) = 2
          /\ <<Comma, x>>[1] = Comma /\ <<Comma, x>>[2] = x
      BY DEF Token
    <3> DEFINE e == <<Comma, x>>
    <3> HIDE DEF e
    <3>3. /\ b \o e \in Seq(Token) /\ Len(b \o e) = Len(b) + Len(e)
          /\ \A i \in 1..Len(b) + Len(e) :
               (b \o e)[i] = IF i <= Len(b) THEN b[i] ELSE e[i - Len(b)]
      <4>1. e \in Seq(Token)
        BY <3>2 DEF e
      <4> QED
        BY <3>1, <4>1, ConcatProperties
    <3>4. r = b \o e /\ Len(e) = 2 /\ e[1] = Comma /\ e[2] = x
      BY <3>2 DEF e
    <3> HIDE DEF r
    <3>5. /\ r \in Seq(Token) /\ Len(r) = 2 * Len(s) + 1
          /\ \A i \in 1..2 * Len(s) + 1 :
               r[i] = IF i <= 2 * Len(s) - 1 THEN b[i] ELSE e[i - (2 * Len(s) - 1)]
      BY <2>1, <3>1, <3>3, <3>4
    <3>6. ASSUME NEW i \in 1..2 * Len(s) + 1 PROVE F!Between(t)[i] = r[i]
      <4>1. CASE i <= 2 * Len(s) - 1
        <5>1. i \in 1..2 * Len(s) - 1 /\ (i % 2 = 1 => (i + 1) \div 2 \in 1..Len(s))
          BY <2>1, <4>1
        <5>2. r[i] = b[i]
          BY <3>5, <4>1
        <5>3. b[i] = IF i % 2 = 1 THEN s[(i + 1) \div 2] ELSE Comma
          BY <3>1, <5>1
        <5> QED
          BY <2>1, <2>2, <5>1, <5>2, <5>3
      <4>2. CASE i = 2 * Len(s)
        <5>1. i % 2 = 0
          BY <2>1, <4>2
        <5>2. r[i] = e[1]
          <6>1. i - (2 * Len(s) - 1) = 1 /\ ~(i <= 2 * Len(s) - 1)
            BY <2>1, <4>2
          <6> QED
            BY <3>5, <6>1
        <5> QED
          BY <2>2, <3>4, <5>1, <5>2
      <4>3. CASE i = 2 * Len(s) + 1
        <5>1. i % 2 = 1 /\ (i + 1) \div 2 = Len(s) + 1
          BY <2>1, <4>3
        <5>2. r[i] = e[2]
          <6>1. i - (2 * Len(s) - 1) = 2 /\ ~(i <= 2 * Len(s) - 1)
            BY <2>1, <4>3
          <6> QED
            BY <3>5, <6>1
        <5> QED
          BY <2>1, <2>2, <3>4, <5>1, <5>2
      <4> QED
        BY <2>1, <4>1, <4>2, <4>3, SMTT(30)
    <3>7. F!Between(t) = r
      BY <2>2, <3>5, <3>6, SeqEqual
    <3> QED
      BY <2>4, <3>7 DEF r, b, t
  <2> QED
    BY <2>3, <2>4
<1> QED
  BY <1>1, <1>3, <1>4

(* A line for each message, and one more of them.                          *)
LEMMA LinesGrow ==
  /\ F!AsLines(<<>>) = <<>>
  /\ \A s \in Seq(Nat) : F!AsLines(s) \in Seq(Token)
  /\ \A s \in Seq(Nat), x \in Nat : F!AsLines(Append(s, x)) = F!AsLines(s) \o <<x, LineFeed>>
<1>1. F!AsLines(<<>>) = <<>>
  <2>1. 1..2 * Len(<<>>) = {}
    BY EmptySeq
  <2> QED
    BY <2>1 DEF F!AsLines
<1>2. ASSUME NEW s \in Seq(Nat)
      PROVE  F!AsLines(s) \in Seq(Token) /\ Len(F!AsLines(s)) = 2 * Len(s)
  <2>1. Len(s) \in Nat /\ \A k \in 1..Len(s) : s[k] \in Nat
    BY LenProperties, ElementOfSeq
  <2>2. 2 * Len(s) \in Nat
    BY <2>1
  <2>3. F!AsLines(s) \in [1..2 * Len(s) -> Token]
    <3> SUFFICES ASSUME NEW i \in 1..2 * Len(s)
                 PROVE  (IF i % 2 = 1 THEN s[(i + 1) \div 2] ELSE LineFeed) \in Token
      BY DEF F!AsLines
    <3>1. (i + 1) \div 2 \in 1..Len(s)
      BY <2>1
    <3> QED
      BY <2>1, <3>1 DEF Token
  <2>4. \A n \in Nat : [1..n -> Token] \subseteq Seq(Token)
    BY SeqDef
  <2>5. F!AsLines(s) \in Seq(Token)
    BY <2>2, <2>3, <2>4
  <2>6. DOMAIN F!AsLines(s) = 1..2 * Len(s) /\ DOMAIN F!AsLines(s) = 1..Len(F!AsLines(s))
        /\ Len(F!AsLines(s)) \in Nat
    BY <2>3, <2>5, LenProperties
  <2> QED
    BY <2>2, <2>5, <2>6
<1>3. ASSUME NEW s \in Seq(Nat), NEW x \in Nat
      PROVE  F!AsLines(Append(s, x)) = F!AsLines(s) \o <<x, LineFeed>>
  <2> DEFINE t == Append(s, x)
             b == F!AsLines(s)
             e == <<x, LineFeed>>
             r == b \o e
  <2>1. /\ t \in Seq(Nat) /\ Len(t) = Len(s) + 1 /\ Len(s) \in Nat
        /\ t[Len(s) + 1] = x /\ \A k \in 1..Len(s) : t[k] = s[k]
    BY AppendProperties, LenProperties
  <2>2. /\ e \in Seq(Token) /\ Len(e) = 2 /\ e[1] = x /\ e[2] = LineFeed
    BY DEF Token
  <2>3. /\ b \in Seq(Token) /\ Len(b) = 2 * Len(s)
        /\ \A i \in 1..2 * Len(s) : b[i] = IF i % 2 = 1 THEN s[(i + 1) \div 2] ELSE LineFeed
    <3>1. \A i \in 1..2 * Len(s) : b[i] = IF i % 2 = 1 THEN s[(i + 1) \div 2] ELSE LineFeed
      BY DEF F!AsLines
    <3> QED
      BY <1>2, <3>1
  <2>4. /\ F!AsLines(t) \in Seq(Token) /\ Len(F!AsLines(t)) = 2 * Len(s) + 2
        /\ \A i \in 1..2 * Len(s) + 2 :
             F!AsLines(t)[i] = IF i % 2 = 1 THEN t[(i + 1) \div 2] ELSE LineFeed
    <3> HIDE DEF t
    <3>1. 2 * Len(t) = 2 * Len(s) + 2
      BY <2>1
    <3>2. F!AsLines(t) \in Seq(Token) /\ Len(F!AsLines(t)) = 2 * Len(t)
      BY <1>2, <2>1
    <3>3. \A i \in 1..2 * Len(t) :
             F!AsLines(t)[i] = IF i % 2 = 1 THEN t[(i + 1) \div 2] ELSE LineFeed
      BY DEF F!AsLines
    <3> QED
      BY <3>1, <3>2, <3>3
  <2> HIDE DEF t, b, e
  <2>5. /\ r \in Seq(Token) /\ Len(r) = 2 * Len(s) + 2
        /\ \A i \in 1..2 * Len(s) + 2 :
             r[i] = IF i <= 2 * Len(s) THEN b[i] ELSE e[i - 2 * Len(s)]
    <3>1. /\ r \in Seq(Token) /\ Len(r) = Len(b) + Len(e)
          /\ \A i \in 1..Len(b) + Len(e) :
               r[i] = IF i <= Len(b) THEN b[i] ELSE e[i - Len(b)]
      BY <2>2, <2>3, ConcatProperties
    <3> HIDE DEF r
    <3> QED
      BY <2>1, <2>2, <2>3, <3>1
  <2> HIDE DEF r
  <2>6. ASSUME NEW i \in 1..2 * Len(s) + 2 PROVE F!AsLines(t)[i] = r[i]
    <3>1. CASE i <= 2 * Len(s)
      <4>1. i \in 1..2 * Len(s) /\ (i % 2 = 1 => (i + 1) \div 2 \in 1..Len(s))
        BY <2>1, <3>1
      <4>2. r[i] = b[i]
        BY <2>5, <3>1
      <4>3. b[i] = IF i % 2 = 1 THEN s[(i + 1) \div 2] ELSE LineFeed
        BY <2>3, <4>1
      <4> QED
        BY <2>1, <2>4, <4>1, <4>2, <4>3
    <3>2. CASE i = 2 * Len(s) + 1
      <4>1. i % 2 = 1 /\ (i + 1) \div 2 = Len(s) + 1
        BY <2>1, <3>2
      <4>2. i - 2 * Len(s) = 1 /\ ~(i <= 2 * Len(s))
        BY <2>1, <3>2
      <4> QED
        BY <2>1, <2>2, <2>4, <2>5, <4>1, <4>2
    <3>3. CASE i = 2 * Len(s) + 2
      <4>1. i % 2 = 0
        BY <2>1, <3>3
      <4>2. i - 2 * Len(s) = 2 /\ ~(i <= 2 * Len(s))
        BY <2>1, <3>3
      <4> QED
        BY <2>2, <2>4, <2>5, <4>1, <4>2
    <3> QED
      BY <2>1, <3>1, <3>2, <3>3
  <2>7. F!AsLines(t) = r
    BY <2>4, <2>5, <2>6, SeqEqual
  <2> QED
    BY <2>7 DEF r, t, b, e
<1> QED
  BY <1>1, <1>2, <1>3

(* A bufio.Writer may write in any parts.                                  *)
LEMMA InParts == \A a, b, d \in Seq(Token) : (a \o b) \o d = a \o (b \o d)
  BY ConcatAssociative

(* A file of postprocess grows by what WriteTweet writes for a message.    *)
LEMMA ArrayGrows ==
  ASSUME NEW fates
  PROVE  /\ F!Array(fates, <<>>) = <<Open>> /\ ~F!EndsGood(fates, <<>>)
         /\ \A s \in Seq(Nat) : F!Array(fates, s) \in Seq(Token)
         /\ \A s \in Seq(Nat), x \in Nat :
              /\ F!EndsGood(fates, Append(s, x)) <=> fates[x] = "tweet"
              /\ F!Array(fates, Append(s, x))
                   = F!Array(fates, s)
                       \o ((IF F!EndsGood(fates, s) THEN <<Comma>> ELSE <<>>)
                             \o (IF fates[x] = "tweet" THEN <<x>> ELSE <<>>))
<1> DEFINE o == <<Open>>
           c == <<Comma>>
<1>1. o \in Seq(Token) /\ c \in Seq(Token) /\ <<>> \in Seq(Token) /\ <<>> \in Seq(Nat)
  BY EmptySeq DEF Token
<1>2. /\ \A a \in Seq(Token) : a \o <<>> = a /\ <<>> \o a = a
      /\ \A a, b \in Seq(Token) : a \o b \in Seq(Token)
      /\ \A a, b, d \in Seq(Token) : (a \o b) \o d = a \o (b \o d)
  BY ConcatEmptySeq, ConcatAssociative, ConcatProperties
<1>3. ASSUME NEW s \in Seq(Nat)
      PROVE  /\ F!Tweets(fates, s) \in Seq(Nat)
             /\ F!Between(F!Tweets(fates, s)) \in Seq(Token)
             /\ F!Array(fates, s) \in Seq(Token)
  <2>1. F!Tweets(fates, s) \in Seq(Nat)
    BY TweetsGrow
  <2>2. F!Between(F!Tweets(fates, s)) \in Seq(Token)
    BY <2>1, BetweenGrows
  <2> QED
    BY <1>1, <1>2, <2>1, <2>2 DEF F!Array
<1>4. F!Array(fates, <<>>) = o /\ ~F!EndsGood(fates, <<>>)
  <2>1. F!Tweets(fates, <<>>) = <<>> /\ F!Between(<<>>) = <<>>
    BY TweetsGrow, BetweenGrows
  <2>2. F!Array(fates, <<>>) = (o \o <<>>) \o <<>>
    BY <2>1 DEF F!Array
  <2> QED
    BY <1>1, <1>2, <2>2 DEF F!EndsGood
<1>5. ASSUME NEW s \in Seq(Nat), NEW x \in Nat
      PROVE  F!EndsGood(fates, Append(s, x)) <=> fates[x] = "tweet"
  <2>1. Append(s, x) # <<>> /\ Append(s, x)[Len(Append(s, x))] = x
    BY AppendProperties
  <2> QED
    BY <2>1 DEF F!EndsGood, F!Last
<1>6. ASSUME NEW s \in Seq(Nat), NEW x \in Nat
      PROVE  F!Array(fates, Append(s, x))
               = F!Array(fates, s)
                   \o ((IF F!EndsGood(fates, s) THEN c ELSE <<>>)
                         \o (IF fates[x] = "tweet" THEN <<x>> ELSE <<>>))
  <2> DEFINE t == F!Tweets(fates, s)
             b == F!Between(t)
             y == <<x>>
             s1 == Append(s, x)
             t1 == F!Tweets(fates, s1)
             good == fates[x] = "tweet"
             ends == F!EndsGood(fates, s)
  <2>a. y \in Seq(Token) /\ x \in Token
    BY DEF Token
  <2>b. c \o y = <<Comma, x>>
    <3> DEFINE e == <<Comma, x>>
    <3>1. /\ e \in Seq(Token) /\ Len(e) = 2 /\ e[1] = Comma /\ e[2] = x
          /\ Len(c) = 1 /\ c[1] = Comma
      BY <2>a DEF Token
    <3>2. /\ c \o y = Append(c, x) /\ Append(c, x) \in Seq(Token) /\ Len(Append(c, x)) = 1 + 1
          /\ Append(c, x)[1] = c[1] /\ Append(c, x)[1 + 1] = x
      <4> HIDE DEF c, e
      <4>1. \A i \in 1..Len(c) : Append(c, x)[i] = c[i]
        BY <1>1, <2>a, AppendProperties
      <4>2. 1 \in 1..Len(c)
        BY <3>1
      <4>3. Append(c, x)[Len(c) + 1] = x /\ Len(Append(c, x)) = Len(c) + 1
        BY <1>1, <2>a, AppendProperties
      <4>4. c \o <<x>> = Append(c, x) /\ Append(c, x) \in Seq(Token)
        BY <1>1, <2>a, AppendIsConcat, AppendProperties
      <4> QED
        BY <3>1, <4>1, <4>2, <4>3, <4>4
    <3> DEFINE d == Append(c, x)
    <3> HIDE DEF d, e, c
    <3>3. d \in Seq(Token) /\ Len(d) = 2 /\ d[1] = Comma /\ d[2] = x /\ c \o y = d
      BY <3>1, <3>2 DEF d
    <3>4. \A i \in 1..2 : d[i] = e[i]
      BY <3>1, <3>3
    <3>5. d = e
      BY <3>1, <3>3, <3>4, SeqEqual
    <3> QED
      BY <3>3, <3>5 DEF e
  <2>1. t \in Seq(Nat) /\ b \in Seq(Token) /\ y \in Seq(Token)
    BY <1>3, <2>a
  <2>2. t1 = IF good THEN Append(t, x) ELSE t
    BY TweetsGrow
  <2>3. ends => t # <<>>
    BY TweetsGrow
  <2>4. F!Array(fates, s) = (o \o b) \o (IF t # <<>> /\ ~ends THEN c ELSE <<>>)
    BY DEF F!Array
  <2>5. F!Array(fates, s1) = (o \o F!Between(t1)) \o (IF t1 # <<>> /\ ~good THEN c ELSE <<>>)
    BY <1>5 DEF F!Array
  <2>6. t = <<>> => b = <<>>
    BY BetweenGrows
  <2>7. F!Between(Append(t, x)) = b \o (IF t = <<>> THEN y ELSE c \o y)
    BY <2>1, <2>b, BetweenGrows
  <2> SUFFICES F!Array(fates, s1)
                 = F!Array(fates, s) \o ((IF ends THEN c ELSE <<>>) \o (IF good THEN y ELSE <<>>))
    OBVIOUS
  <2> HIDE DEF o, c, t, b, y, s1, t1, good, ends
  <2>8. CASE good
    <3>1. F!Array(fates, s1) = o \o (b \o (IF t = <<>> THEN y ELSE c \o y))
      <4>1. b \o (IF t = <<>> THEN y ELSE c \o y) \in Seq(Token)
        BY <1>1, <1>2, <2>1
      <4>2. F!Array(fates, s1) = (o \o (b \o (IF t = <<>> THEN y ELSE c \o y))) \o <<>>
        BY <2>2, <2>5, <2>7, <2>8
      <4> QED
        BY <1>1, <1>2, <4>1, <4>2
    <3>a. (o \o b) \o (c \o y) = o \o (b \o (c \o y))
      <4>1. PICK f, p, q, r : f = o /\ p = b /\ q = c /\ r = y
        OBVIOUS
      <4>2. f \in Seq(Token) /\ p \in Seq(Token) /\ q \o r \in Seq(Token)
        BY <1>1, <1>2, <2>1, <4>1
      <4>3. (f \o p) \o (q \o r) = f \o (p \o (q \o r))
        BY <4>2, InParts, Zenon
      <4> QED
        BY <4>1, <4>3, Zenon
    <3>2. CASE t = <<>>
      <4>1. F!Array(fates, s1) = o \o y
        BY <1>1, <1>2, <2>1, <2>6, <3>1, <3>2
      <4>2. F!Array(fates, s) = o /\ ~ends
        BY <1>1, <1>2, <2>3, <2>4, <2>6, <3>2
      <4> QED
        <5>1. <<>> \o y = y
          BY <1>2, <2>1
        <5> QED
          BY <2>8, <4>1, <4>2, <5>1, Zenon
    <3>3. CASE t # <<>> /\ ends
      <4>1. F!Array(fates, s1) = (o \o b) \o (c \o y)
        BY <3>1, <3>a, <3>3, Zenon
      <4>2. F!Array(fates, s) = o \o b
        BY <1>1, <1>2, <2>1, <2>4, <3>3
      <4> QED
        BY <2>8, <3>3, <4>1, <4>2, Zenon
    <3>4. CASE t # <<>> /\ ~ends
      <4>1. F!Array(fates, s1) = (o \o b) \o (c \o y)
        BY <3>1, <3>a, <3>4, Zenon
      <4>2. F!Array(fates, s) = (o \o b) \o c
        BY <2>4, <3>4
      <4>3. F!Array(fates, s1) = F!Array(fates, s) \o (<<>> \o y)
        <5>1. o \o b \in Seq(Token) /\ <<>> \o y = y
          BY <1>1, <1>2, <2>1
        <5>2. ((o \o b) \o c) \o y = (o \o b) \o (c \o y)
          BY <1>1, <1>2, <2>1, <5>1, ZenonT(60)
        <5> QED
          BY <4>1, <4>2, <5>1, <5>2
      <4> QED
        BY <2>8, <3>4, <4>3, Zenon
    <3> QED
      BY <3>2, <3>3, <3>4
  <2>9. CASE ~good
    <3>1. F!Array(fates, s1) = (o \o b) \o (IF t # <<>> THEN c ELSE <<>>)
      BY <2>2, <2>5, <2>9 DEF b
    <3>2. F!Array(fates, s1) = F!Array(fates, s) \o ((IF ends THEN c ELSE <<>>) \o <<>>)
      <4>1. (IF ends THEN c ELSE <<>>) \o <<>> = IF ends THEN c ELSE <<>>
        BY <1>1, <1>2
      <4>2. CASE ends
        <5>1. F!Array(fates, s) = o \o b
          BY <1>1, <1>2, <2>1, <2>3, <2>4, <4>2
        <5>2. F!Array(fates, s1) = (o \o b) \o c /\ c \o <<>> = c
          BY <1>1, <1>2, <2>3, <3>1, <4>2
        <5> QED
          BY <4>2, <5>1, <5>2, Zenon
      <4>3. CASE ~ends
        <5>1. F!Array(fates, s) = F!Array(fates, s1)
          <6>1. CASE t = <<>>
            BY <2>4, <3>1, <6>1, Zenon
          <6>2. CASE t # <<>>
            BY <2>4, <3>1, <4>3, <6>2, Zenon
          <6> QED
            BY <6>1, <6>2
        <5>2. F!Array(fates, s) \in Seq(Token)
          BY <1>3, SMTT(30)
        <5> QED
          BY <1>2, <4>1, <4>3, <5>1, <5>2
      <4> QED
        BY <4>2, <4>3
    <3> QED
      BY <2>9, <3>2
  <2> QED
    BY <2>8, <2>9
<1> QED
  BY <1>3, <1>4, <1>5, <1>6

(* What a sequence is cut into makes it up again.                          *)
LEMMA CutInTwo ==
  ASSUME NEW all \in Seq(Token), NEW out \in 0..Len(all)
  PROVE  /\ SubSeq(all, 1, out) \in Seq(Token) /\ SubSeq(all, out + 1, Len(all)) \in Seq(Token)
         /\ SubSeq(all, 1, out) \o SubSeq(all, out + 1, Len(all)) = all
         /\ Len(SubSeq(all, 1, out)) = out
         /\ Len(SubSeq(all, out + 1, Len(all))) = Len(all) - out
<1>1. Len(all) \in Nat /\ out \in Nat /\ out <= Len(all) /\ \A i \in 1..Len(all) : all[i] \in Token
  BY LenProperties, ElementOfSeq
<1>2. SubSeq(all, 1, out) \in Seq(Token) /\ Len(SubSeq(all, 1, out)) = out
  <2>1. \A i \in 1..out : all[i] \in Token
    BY <1>1
  <2>2. /\ SubSeq(all, 1, out) \in Seq(Token)
        /\ Len(SubSeq(all, 1, out)) = IF 1 <= out THEN out - 1 + 1 ELSE 0
    BY <1>1, <2>1, SubSeqProperties
  <2> QED
    BY <1>1, <2>2
<1>3. /\ SubSeq(all, out + 1, Len(all)) \in Seq(Token)
      /\ Len(SubSeq(all, out + 1, Len(all))) = Len(all) - out
  <2>1. \A i \in out + 1..Len(all) : all[i] \in Token
    BY <1>1
  <2>2. out + 1 \in Int /\ Len(all) \in Int
    BY <1>1
  <2>3. /\ SubSeq(all, out + 1, Len(all)) \in Seq(Token)
        /\ Len(SubSeq(all, out + 1, Len(all)))
             = IF out + 1 <= Len(all) THEN Len(all) - (out + 1) + 1 ELSE 0
    BY <2>1, <2>2, SubSeqProperties
  <2> QED
    BY <1>1, <2>3
<1>4. SubSeq(all, 1, out) \o SubSeq(all, out + 1, Len(all)) = SubSeq(all, 1, Len(all))
  <2>1. 1 \in 1..Len(all) + 1 /\ out \in 1 - 1..Len(all) /\ Len(all) \in out..Len(all)
    BY <1>1
  <2> QED
    BY <2>1, ConcatAdjacentSubSeq
<1>5. SubSeq(all, 1, Len(all)) = all
  BY SubSeqFull
<1> QED
  BY <1>2, <1>3, <1>4, <1>5

(* What is written first is a prefix.                                      *)
LEMMA PrefixOf ==
  ASSUME NEW s \in Seq(Token), NEW t \in Seq(Token)
  PROVE  F!IsPrefix(s, s \o t) /\ Len(s \o t) - Len(s) = Len(t)
<1>1. Len(s) \in Nat /\ Len(t) \in Nat /\ Len(s \o t) = Len(s) + Len(t)
  BY LenProperties, ConcatProperties
<1>2. SubSeq(s, 1, Len(s)) = SubSeq(s \o t, 1, Len(s))
  <2>1. CASE Len(s) = 0
    BY <2>1, SubSeqEmpty
  <2>2. CASE Len(s) # 0
    <3>1. 1 \in 1..Len(s) /\ Len(s) \in 1..Len(s)
      BY <1>1, <2>2
    <3> QED
      BY <3>1, SubSeqOfConcat1
  <2> QED
    BY <2>1, <2>2
<1> QED
  BY <1>1, <1>2 DEF F!IsPrefix

(* The whole buffers below n; what is left fits into one.                  *)
LEMMA WholeBuffers ==
  \A n \in Nat \ {0} :
    LET out == ((n - 1) \div WriterSize) * WriterSize IN out \in 0..n /\ n - out <= WriterSize
<1> TAKE n \in Nat \ {0}
<1> DEFINE q == (n - 1) \div WriterSize
<1>1. WriterSize \in Nat \ {0} /\ n - 1 \in Nat
  BY ProgramsAssumption
<1>2. q \in Nat
  BY <1>1
<1>3. q * WriterSize <= n - 1 /\ n - 1 < q * WriterSize + WriterSize
  BY <1>1
<1>4. q * WriterSize \in Nat
  BY <1>1, <1>2
<1> QED
  BY <1>1, <1>3, <1>4

(* What is written is cut in two: one part goes to the file, the other is  *)
(* still with the bufio.Writer.                                            *)
LEMMA CutWrites ==
  ASSUME file \in [Users -> Seq(Token)], writer \in [Users -> Seq(Token)],
         NEW u \in Users, NEW tokens \in Seq(Token), NEW w, w = writer[u] \o tokens,
         NEW k \in 0..Len(w),
         file' = [file EXCEPT ![u] = file[u] \o SubSeq(w, 1, k)],
         writer' = [writer EXCEPT ![u] = SubSeq(w, k + 1, Len(w))]
  PROVE  /\ file' \in [Users -> Seq(Token)] /\ writer' \in [Users -> Seq(Token)]
         /\ file'[u] \o writer'[u] = (file[u] \o writer[u]) \o tokens
         /\ Len(writer'[u]) = Len(w) - k
         /\ \A v \in Users : v # u => file'[v] = file[v] /\ writer'[v] = writer[v]
<1>1. writer[u] \in Seq(Token) /\ file[u] \in Seq(Token)
  OBVIOUS
<1>2. w \in Seq(Token)
  BY <1>1, ConcatProperties
<1>3. /\ SubSeq(w, 1, k) \in Seq(Token) /\ SubSeq(w, k + 1, Len(w)) \in Seq(Token)
      /\ SubSeq(w, 1, k) \o SubSeq(w, k + 1, Len(w)) = w
      /\ Len(SubSeq(w, k + 1, Len(w))) = Len(w) - k
  BY <1>2, CutInTwo
<1>4. PICK f, p, q : f = file[u] /\ p = SubSeq(w, 1, k) /\ q = SubSeq(w, k + 1, Len(w))
  OBVIOUS
<1>5. f \in Seq(Token) /\ p \in Seq(Token) /\ q \in Seq(Token) /\ p \o q = w
      /\ Len(q) = Len(w) - k
  BY <1>1, <1>3, <1>4
<1>6. f \o p \in Seq(Token)
  BY <1>5, ConcatProperties
<1>7. file' = [file EXCEPT ![u] = f \o p] /\ writer' = [writer EXCEPT ![u] = q]
  BY <1>4
<1>8. PICK fp : fp = f \o p
  OBVIOUS
<1>9. file' = [file EXCEPT ![u] = fp] /\ fp \in Seq(Token)
  BY <1>6, <1>7, <1>8
<1>10. /\ file' \in [Users -> Seq(Token)] /\ writer' \in [Users -> Seq(Token)]
       /\ file'[u] = fp /\ writer'[u] = q
       /\ \A v \in Users : v # u => file'[v] = file[v] /\ writer'[v] = writer[v]
  BY <1>5, <1>7, <1>9
<1>11. (f \o p) \o q = f \o (p \o q)
  BY <1>5, InParts, Zenon
<1>12. file'[u] \o writer'[u] = file[u] \o w
  BY <1>4, <1>5, <1>8, <1>10, <1>11, Zenon
<1>13. file[u] \o w = (file[u] \o writer[u]) \o tokens
  <2>1. PICK a, b : a = file[u] /\ b = writer[u]
    OBVIOUS
  <2>2. (a \o b) \o tokens = a \o (b \o tokens)
    BY <1>1, <2>1, InParts, Zenon
  <2> QED
    BY <2>1, <2>2, Zenon
<1> QED
  BY <1>5, <1>10, <1>12, <1>13

(* Whole buffers are pushed out, and what is left fits into one.           *)
LEMMA PushedOutFits ==
  \A all \in Seq(Token) :
    F!PushedOut(all) \in 0..Len(all) /\ Len(all) - F!PushedOut(all) <= WriterSize
<1> TAKE all \in Seq(Token)
<1>1. CASE all = <<>>
  <2>1. Len(all) = 0 /\ F!PushedOut(all) = 0
    BY <1>1, EmptySeq DEF F!PushedOut
  <2> QED
    BY <2>1, ProgramsAssumption
<1>2. CASE all # <<>>
  <2>1. Len(all) \in Nat \ {0}
    BY <1>2, EmptySeq
  <2> QED
    BY <1>2, <2>1, WholeBuffers DEF F!PushedOut
<1> QED
  BY <1>1, <1>2

(* A bufio.Writer keeps the order of what is written, and no more than a   *)
(* full buffer of it.                                                      *)
LEMMA WriteKeeps ==
  ASSUME file \in [Users -> Seq(Token)], writer \in [Users -> Seq(Token)],
         NEW u \in Users, NEW tokens \in Seq(Token), F!Write(u, tokens)
  PROVE  /\ file' \in [Users -> Seq(Token)] /\ writer' \in [Users -> Seq(Token)]
         /\ file'[u] \o writer'[u] = (file[u] \o writer[u]) \o tokens
         /\ Len(writer'[u]) <= WriterSize
         /\ \A v \in Users : v # u => file'[v] = file[v] /\ writer'[v] = writer[v]
         /\ UNCHANGED broken
<1>1. PICK w, k : w = writer[u] \o tokens /\ k = F!PushedOut(w)
  OBVIOUS
<1>2. /\ file' = [file EXCEPT ![u] = file[u] \o SubSeq(w, 1, k)]
      /\ writer' = [writer EXCEPT ![u] = SubSeq(w, k + 1, Len(w))] /\ UNCHANGED broken
  BY <1>1 DEF F!Write
<1>3. w \in Seq(Token)
  BY <1>1, ConcatProperties
<1>4. k \in 0..Len(w) /\ Len(w) - k <= WriterSize
  BY <1>1, <1>3, PushedOutFits
<1> QED
  BY <1>1, <1>2, <1>4, CutWrites

(* The same, but for the room, if the file does not take it all.           *)
LEMMA PushKeeps ==
  ASSUME file \in [Users -> Seq(Token)], writer \in [Users -> Seq(Token)],
         broken \in [Users -> BOOLEAN],
         NEW u \in Users, NEW tokens \in Seq(Token), NEW w, w = writer[u] \o tokens,
         NEW before \in Nat, NEW out \in 0..Len(w), F!PushFails(u, w, before, out)
  PROVE  /\ file' \in [Users -> Seq(Token)] /\ writer' \in [Users -> Seq(Token)]
         /\ file'[u] \o writer'[u] = (file[u] \o writer[u]) \o tokens
         /\ \A v \in Users : v # u =>
              file'[v] = file[v] /\ writer'[v] = writer[v] /\ broken'[v] = broken[v]
         /\ broken' \in [Users -> BOOLEAN] /\ broken'[u] = TRUE
<1>1. PICK n \in before..out :
        /\ file' = [file EXCEPT ![u] = @ \o SubSeq(w, 1, n)]
        /\ writer' = [writer EXCEPT ![u] = SubSeq(w, n + 1, Len(w))]
        /\ broken' = [broken EXCEPT ![u] = TRUE]
  BY DEF F!PushFails
<1>2. file' = [file EXCEPT ![u] = file[u] \o SubSeq(w, 1, n)]
  BY <1>1
<1>3. w \in Seq(Token)
  BY ConcatProperties
<1>4. n \in 0..Len(w)
  BY <1>1, <1>3, LenProperties
<1>5. broken' \in [Users -> BOOLEAN] /\ broken'[u] = TRUE
      /\ \A v \in Users : v # u => broken'[v] = broken[v]
  BY <1>1
<1> QED
  BY <1>1, <1>2, <1>4, <1>5, CutWrites

(* What a worker has written when it gave the messages s to its writer:    *)
(* all of it in the file and, behind that, in the writer.                  *)
Wrote(u, s) ==
  IF tool = "postprocess"
  THEN /\ ~broken[u]
       /\ file[u] \o writer[u] = F!Array(feed, s)
       /\ noErr[u] <=> F!EndsGood(feed, s)
  ELSE /\ file[u] \o writer[u] = F!AsLines(s)
       /\ ~broken[u] => Len(writer[u]) <= WriterSize

(* A worker of postprocess that met an error will not come to its end.     *)
Doomed(u) == tool = "postprocess" /\ broken[u]

(* Before a worker starts there is nothing; then it wrote all it took,     *)
(* unless it is doomed; and it leaves a whole file, or what it did not     *)
(* flush or the file did not take.  What it skipped, it had to.            *)
WorkerRight(u) ==
  /\ pc[u] = "start" =>
       /\ taken[u] = <<>> /\ file[u] = <<>> /\ writer[u] = <<>>
       /\ noErr[u] = FALSE /\ broken[u] = FALSE
  /\ pc[u] \in {"range", "message"} => Doomed(u) \/ Wrote(u, taken[u])
  /\ pc[u] = "exited" =>
       IF tool = "postprocess"
       THEN /\ file[u] \o writer[u] = F!Array(feed, taken[u]) \o <<End>>
            /\ ~broken[u] => writer[u] = <<>>
       ELSE Wrote(u, taken[u])
  /\ \A i \in skipped[u] : tool = "stream" /\ (broken[u] \/ feed[i] # "tweet")

FeedTypes ==
  /\ tool \in {"stream", "postprocess"} /\ feed \in Feeds
  /\ line \in 0..Len(feed) /\ Len(queue) \in 0..line
  /\ queue \in Seq(Nat) /\ \A k \in 1..Len(queue) : queue[k] = Taken + k
  /\ pc \in [Users -> {"start", "range", "message", "exited"}]
  /\ held \in [Users -> Nat] /\ noErr \in [Users -> BOOLEAN]
  /\ file \in [Users -> Seq(Token)] /\ writer \in [Users -> Seq(Token)]
  /\ broken \in [Users -> BOOLEAN]
  /\ taken \in [Users -> Seq(Nat)] /\ skipped \in [Users -> SUBSET Nat]

(* work is closed behind the last message, a worker ends when it is empty, *)
(* main when all of them have.                                             *)
FeedOrder ==
  /\ closed => line = Len(feed)
  /\ \A u \in Users : pc[u] = "exited" => closed /\ Taken = line
  /\ main = "returned" => \A u \in Users : pc[u] = "exited"

(* A worker has seen a message: it is done with it, or still at it.        *)
Seen(u, i) ==
  F!Contains(taken[u], i) \/ i \in skipped[u] \/ (pc[u] = "message" /\ held[u] = i)

(* A message that left the channel was seen by one worker.                 *)
FeedApart ==
  /\ \A u \in Users, i \in Nat : Seen(u, i) => i \in 1..Taken
  /\ \A i \in 1..Taken : \E u \in Users :
       /\ Seen(u, i)
       /\ \A v \in Users : Seen(v, i) => v = u

FeedWritten == \A u \in Users : WorkerRight(u)

FeedInv == FeedTypes /\ FeedOrder /\ FeedApart /\ FeedWritten

(* Appending an id adds just that id.                                      *)
LEMMA TakesOne ==
  \A s \in Seq(Nat), x \in Nat :
    \A i : F!Contains(Append(s, x), i) <=> F!Contains(s, i) \/ i = x
<1> SUFFICES ASSUME NEW s \in Seq(Nat), NEW x \in Nat, NEW i
             PROVE  F!Contains(Append(s, x), i) <=> F!Contains(s, i) \/ i = x
  OBVIOUS
<1> DEFINE t == Append(s, x)
<1>1. /\ Len(s) \in Nat /\ Len(t) = Len(s) + 1 /\ t[Len(s) + 1] = x
      /\ \A k \in 1..Len(s) : t[k] = s[k]
  BY AppendProperties, LenProperties
<1> HIDE DEF t
<1>2. \A k \in 1..Len(t) : k \in 1..Len(s) \/ k = Len(s) + 1
  BY <1>1
<1>3. Len(s) + 1 \in 1..Len(t) /\ \A k \in 1..Len(s) : k \in 1..Len(t)
  BY <1>1
<1>4. F!Contains(t, i) <=> F!Contains(s, i) \/ i = x
  BY <1>1, <1>2, <1>3 DEF F!Contains
<1> QED
  BY <1>4 DEF t

(* What a worker does is not another worker's business.                    *)
LEMMA WorkerStays ==
  ASSUME NEW v \in Users, UNCHANGED <<tool, feed>>, WorkerRight(v),
         pc'[v] = pc[v], held'[v] = held[v], noErr'[v] = noErr[v],
         file'[v] = file[v], writer'[v] = writer[v], broken'[v] = broken[v],
         taken'[v] = taken[v], skipped'[v] = skipped[v]
  PROVE  WorkerRight(v)' /\ \A i : Seen(v, i)' <=> Seen(v, i)
<1>1. PICK s : s = taken[v]
  OBVIOUS
<1>2. /\ F!Array(feed, s)' = F!Array(feed, s) /\ (F!EndsGood(feed, s)' <=> F!EndsGood(feed, s))
      /\ F!AsLines(s)' = F!AsLines(s)
  OBVIOUS
<1>3. Wrote(v, s)' <=> Wrote(v, s)
  BY <1>2 DEF Wrote
<1>4. Wrote(v, taken[v])' <=> Wrote(v, taken[v])
  BY <1>1, <1>3 DEF Wrote
<1>5. Doomed(v)' <=> Doomed(v)
  BY DEF Doomed
<1>6. F!Array(feed, taken[v])' = F!Array(feed, taken[v])
  OBVIOUS
<1>7. \A i : Seen(v, i)' <=> Seen(v, i)
  BY DEF Seen, F!Contains
<1> QED
  BY <1>4, <1>5, <1>6, <1>7 DEF WorkerRight

(* The tools start with all messages before them.                          *)
LEMMA FeedInit == F!Init => FeedInv
<1> SUFFICES ASSUME F!Init PROVE FeedInv
  OBVIOUS
<1>1. /\ tool \in {"stream", "postprocess"} /\ feed \in Feeds
      /\ main = "walk" /\ line = 0 /\ queue = <<>> /\ closed = FALSE
      /\ pc = [u \in Users |-> "start"] /\ held = [u \in Users |-> 0]
      /\ noErr = [u \in Users |-> FALSE]
      /\ file = [u \in Users |-> <<>>] /\ writer = [u \in Users |-> <<>>]
      /\ broken = [u \in Users |-> FALSE]
      /\ taken = [u \in Users |-> <<>>] /\ skipped = [u \in Users |-> {}]
  BY DEF F!Init
<1>2. Len(feed) \in Nat
  BY <1>1, ProgramsAssumption, LenProperties
<1>3. Len(queue) = 0 /\ Taken = 0 /\ <<>> \in Seq(Nat) /\ <<>> \in Seq(Token) /\ Len(<<>>) = 0
  <2>1. <<>> \in Seq(Nat) /\ <<>> \in Seq(Token) /\ Len(<<>>) = 0
    BY EmptySeq
  <2>2. Len(queue) = 0 /\ line = 0
    BY <1>1, <2>1
  <2> QED
    BY <2>1, <2>2 DEF Taken
<1>4. FeedTypes
  BY <1>1, <1>2, <1>3 DEF FeedTypes
<1>5. FeedOrder
  BY <1>1 DEF FeedOrder
<1>6. FeedApart
  BY <1>1, <1>3 DEF FeedApart, Seen, F!Contains
<1>7. FeedWritten
  BY <1>1 DEF FeedWritten, WorkerRight
<1> QED
  BY <1>4, <1>5, <1>6, <1>7 DEF FeedInv

(* The steps of main, and a panic, change no worker and no file.           *)
LEMMA FeedMain ==
  ASSUME FeedInv,
         \/ F!Send \/ F!Close \/ F!Return \/ UNCHANGED F!vars
         \/ main' = "panic" /\ UNCHANGED <<tool, feed, line, queue, closed, pc, held, noErr,
                                          writer, broken, file, taken, skipped>>
  PROVE  FeedInv'
<1> DEFINE Panics ==
      main' = "panic" /\ UNCHANGED <<tool, feed, line, queue, closed, pc, held, noErr,
                                     writer, broken, file, taken, skipped>>
<1>1. /\ UNCHANGED <<tool, feed, pc, held, noErr, file, writer, broken, taken, skipped>>
      /\ FeedTypes /\ FeedOrder /\ FeedApart /\ FeedWritten
  BY DEF F!Send, F!Close, F!Return, F!vars, F!files, F!history, FeedInv
<1>2. /\ Len(feed) \in Nat /\ line \in Nat /\ line <= Len(feed) /\ Len(queue) \in 0..line
      /\ queue \in Seq(Nat)
  BY <1>1, ProgramsAssumption, LenProperties DEF FeedTypes
<1>3. /\ line' \in 0..Len(feed) /\ Len(queue') \in 0..line' /\ Taken' = Taken
      /\ queue' \in Seq(Nat) /\ \A k \in 1..Len(queue') : queue'[k] = Taken + k
  <2>1. CASE UNCHANGED <<line, queue>>
    BY <1>1, <2>1 DEF FeedTypes, Taken
  <2>2. CASE F!Send /\ line < Len(feed) /\ line' = line + 1 /\ queue' = Append(queue, line + 1)
    <3>1. /\ queue' \in Seq(Nat) /\ Len(queue') = Len(queue) + 1
          /\ \A k \in 1..Len(queue) : queue'[k] = queue[k]
          /\ queue'[Len(queue) + 1] = line + 1
      BY <1>2, <2>2, AppendProperties
    <3>2. line + 1 = Taken + (Len(queue) + 1)
      BY <1>2 DEF Taken
    <3>3. \A k \in 1..Len(queue) : queue[k] = Taken + k
      BY <1>1 DEF FeedTypes
    <3>4. \A k \in 1..Len(queue') : queue'[k] = Taken + k
      <4> TAKE k \in 1..Len(queue')
      <4>1. k \in 1..Len(queue) \/ k = Len(queue) + 1
        BY <1>2, <3>1
      <4> QED
        BY <3>1, <3>2, <3>3, <4>1
    <3>5. line' \in 0..Len(feed) /\ Len(queue') \in 0..line' /\ Taken' = Taken
      BY <1>2, <2>2, <3>1 DEF Taken
    <3> QED
      BY <3>1, <3>4, <3>5
  <2> QED
    BY <2>1, <2>2 DEF F!Send, F!Close, F!Return, F!vars, F!files, F!history
<1>4. FeedTypes'
  BY <1>1, <1>3 DEF FeedTypes
<1>5. FeedOrder'
  <2>1. CASE F!Send
    <3>1. /\ main = "walk" /\ UNCHANGED closed
          /\ (main' = "panic" /\ UNCHANGED line) \/ (main' = main /\ line < Len(feed))
      BY <2>1 DEF F!Send
    <3>2. ~closed \/ UNCHANGED line
      BY <1>1, <1>2, <3>1 DEF FeedOrder
    <3> QED
      BY <1>1, <1>3, <3>1, <3>2 DEF FeedOrder
  <2>2. CASE F!Close
    BY <1>1, <1>3, <2>2 DEF F!Close, FeedOrder
  <2>3. CASE F!Return
    BY <1>1, <1>3, <2>3 DEF F!Return, FeedOrder
  <2>4. CASE UNCHANGED F!vars
    BY <1>1, <1>3, <2>4 DEF F!vars, FeedOrder
  <2>5. CASE Panics
    BY <1>1, <1>3, <2>5 DEF FeedOrder
  <2> QED
    BY <2>1, <2>2, <2>3, <2>4, <2>5
<1>6. FeedApart'
  BY <1>1, <1>3 DEF FeedApart, Seen, F!Contains
<1>7. FeedWritten'
  BY <1>1, WorkerStays DEF FeedWritten
<1> QED
  BY <1>4, <1>5, <1>6, <1>7 DEF FeedInv

(* A worker takes the next message.                                        *)
LEMMA FeedTake ==
  ASSUME FeedInv, NEW u \in Users, F!Take(u)
  PROVE  FeedInv'
<1>1. /\ UNCHANGED <<tool, feed, main, line, closed, noErr, writer, broken, file,
                     taken, skipped>>
      /\ pc[u] = "range" /\ queue # <<>> /\ queue' = Tail(queue)
      /\ held' = [held EXCEPT ![u] = Head(queue)]
      /\ pc' = [pc EXCEPT ![u] = "message"]
      /\ FeedTypes /\ FeedOrder /\ FeedApart /\ FeedWritten
  BY DEF F!Take, F!files, F!history, FeedInv
<1>2. /\ Len(feed) \in Nat /\ line \in Nat /\ line <= Len(feed) /\ Len(queue) \in 0..line
      /\ queue \in Seq(Nat) /\ Taken \in 0..line
  BY <1>1, ProgramsAssumption, LenProperties DEF FeedTypes, Taken
<1>3. /\ Len(queue) \in Nat \ {0} /\ Head(queue) = queue[1] /\ queue' \in Seq(Nat)
      /\ Len(queue') = Len(queue) - 1
      /\ \A k \in 1..Len(queue) - 1 : queue'[k] = queue[k + 1]
  BY <1>1, <1>2, HeadTailProperties, EmptySeq, LenProperties
<1>4. Taken' = Taken + 1 /\ Head(queue) = Taken + 1 /\ Taken + 1 \in 1..line
  <2>1. Taken' = Taken + 1 /\ Taken + 1 \in 1..line
    BY <1>1, <1>2, <1>3 DEF Taken
  <2>2. 1 \in 1..Len(queue)
    BY <1>3
  <2>3. queue[1] = Taken + 1
    BY <1>1, <2>2 DEF FeedTypes
  <2> QED
    BY <1>3, <2>1, <2>3
<1>5. PICK x \in Nat : x = Taken + 1 /\ x = Head(queue)
  BY <1>2, <1>4
<1>6. /\ pc' \in [Users -> {"start", "range", "message", "exited"}]
      /\ pc'[u] = "message" /\ held' \in [Users -> Nat] /\ held'[u] = x
      /\ \A v \in Users : v # u => pc'[v] = pc[v] /\ held'[v] = held[v]
  BY <1>1, <1>5 DEF FeedTypes
<1>7. FeedTypes'
  <2>1. \A k \in 1..Len(queue') : queue'[k] = Taken' + k
    <3> TAKE k \in 1..Len(queue')
    <3>1. k + 1 \in 1..Len(queue) /\ k \in 1..Len(queue) - 1 /\ k \in Nat
      BY <1>3
    <3> QED
      BY <1>1, <1>2, <1>3, <1>4, <3>1 DEF FeedTypes
  <2>2. Len(queue') \in 0..line
    BY <1>2, <1>3
  <2> QED
    BY <1>1, <1>3, <1>6, <2>1, <2>2 DEF FeedTypes
<1>8. FeedOrder'
  <2>1. Taken # line
    BY <1>2, <1>3 DEF Taken
  <2> QED
    BY <1>1, <1>6, <2>1 DEF FeedOrder
<1>9. FeedApart'
  <2>1. /\ \A i : Seen(u, i)' <=> Seen(u, i) \/ i = x
        /\ \A v \in Users, i \in Nat : v # u => (Seen(v, i)' <=> Seen(v, i))
    BY <1>1, <1>6 DEF Seen, F!Contains
  <2>2. x \in 1..Taken' /\ x \notin 1..Taken
    BY <1>2, <1>4, <1>5
  <2>3. \A i : i \in 1..Taken' <=> i \in 1..Taken \/ i = x
    BY <1>2, <1>4, <1>5
  <2>4. \A v \in Users : ~Seen(v, x)
    BY <1>1, <2>2 DEF FeedApart
  <2>5. \A v \in Users, i \in Nat : Seen(v, i)' => i \in 1..Taken'
    BY <1>1, <2>1, <2>2, <2>3 DEF FeedApart
  <2>6. ASSUME NEW i \in 1..Taken'
        PROVE  \E w \in Users :
                 /\ Seen(w, i)'
                 /\ \A v \in Users : Seen(v, i)' => v = w
    <3>1. CASE i = x
      BY <2>1, <2>4, <3>1
    <3>2. CASE i # x
      <4>1. PICK w \in Users :
              /\ Seen(w, i)
              /\ \A v \in Users : Seen(v, i) => v = w
        BY <1>1, <2>3, <3>2 DEF FeedApart
      <4>2. i \in Nat
        BY <1>2, <1>4
      <4>3. \A v \in Users : Seen(v, i)' <=> Seen(v, i)
        BY <2>1, <3>2, <4>2
      <4> QED
        BY <4>1, <4>3
    <3> QED
      BY <3>1, <3>2
  <2> QED
    BY <2>5, <2>6 DEF FeedApart
<1>10. FeedWritten'
  <2>1. WorkerRight(u)'
    <3>1. PICK s : s = taken[u]
      OBVIOUS
    <3>2. (Doomed(u) \/ Wrote(u, s)) /\ \A i \in skipped[u] :
            tool = "stream" /\ (broken[u] \/ feed[i] # "tweet")
      BY <1>1, <3>1 DEF FeedWritten, WorkerRight
    <3>3. Doomed(u)' \/ Wrote(u, s)'
      <4>1. /\ F!Array(feed, s)' = F!Array(feed, s) /\ (F!EndsGood(feed, s)' <=> F!EndsGood(feed, s))
            /\ F!AsLines(s)' = F!AsLines(s)
        BY <1>1
      <4> QED
        BY <1>1, <3>2, <4>1 DEF Wrote, Doomed
    <3> QED
      BY <1>1, <1>6, <3>1, <3>2, <3>3 DEF WorkerRight, Wrote
  <2>2. ASSUME NEW v \in Users, v # u PROVE WorkerRight(v)'
    BY <1>1, <1>6, <2>2, WorkerStays DEF FeedWritten
  <2> QED
    BY <2>1, <2>2 DEF FeedWritten
<1> QED
  BY <1>7, <1>8, <1>9, <1>10 DEF FeedInv

(* A worker that takes no message: what is left to show is its own file.   *)
LEMMA WorkerSteps ==
  ASSUME FeedInv, NEW u \in Users, pc[u] # "exited",
         UNCHANGED <<tool, feed, main, line, queue, closed, held>>,
         NEW next \in {"range", "exited"}, pc' = [pc EXCEPT ![u] = next],
         next = "exited" => closed /\ queue = <<>>,
         noErr' \in [Users -> BOOLEAN],
         file' \in [Users -> Seq(Token)], writer' \in [Users -> Seq(Token)],
         broken' \in [Users -> BOOLEAN],
         taken' \in [Users -> Seq(Nat)], skipped' \in [Users -> SUBSET Nat],
         \A v \in Users : v # u =>
           /\ noErr'[v] = noErr[v] /\ file'[v] = file[v] /\ writer'[v] = writer[v]
           /\ broken'[v] = broken[v] /\ taken'[v] = taken[v] /\ skipped'[v] = skipped[v],
         \A i \in Nat : Seen(u, i)' <=> Seen(u, i),
         WorkerRight(u)'
  PROVE  FeedInv'
<1>1. FeedTypes /\ FeedOrder /\ FeedApart /\ FeedWritten
  BY DEF FeedInv
<1>2. /\ pc' \in [Users -> {"start", "range", "message", "exited"}] /\ pc'[u] = next
      /\ \A v \in Users : v # u => pc'[v] = pc[v]
  BY <1>1 DEF FeedTypes
<1>3. Taken' = Taken /\ (queue = <<>> => Taken = line) /\ Taken \in Nat
  <2>1. line \in Nat /\ Len(queue) \in 0..line
    BY <1>1, ProgramsAssumption, LenProperties DEF FeedTypes
  <2>2. queue = <<>> => Len(queue) = 0
    BY EmptySeq
  <2>3. Taken' = Taken
    BY DEF Taken
  <2>4. queue = <<>> => Taken = line
    BY <2>1, <2>2 DEF Taken
  <2>5. Taken \in Nat
    BY <2>1 DEF Taken
  <2> QED
    BY <2>3, <2>4, <2>5
<1>4. FeedTypes'
  BY <1>1, <1>2, <1>3 DEF FeedTypes
<1>5. FeedOrder'
  BY <1>1, <1>2, <1>3 DEF FeedOrder
<1>6. ASSUME NEW v \in Users
      PROVE  WorkerRight(v)' /\ \A i \in Nat : Seen(v, i)' <=> Seen(v, i)
  <2>1. CASE v = u
    BY <2>1
  <2>2. CASE v # u
    BY <1>1, <1>2, <2>2, WorkerStays DEF FeedWritten
  <2> QED
    BY <2>1, <2>2
<1>7. FeedApart'
  <2>1. \A i \in 1..Taken : i \in Nat
    BY <1>3
  <2> QED
    BY <1>1, <1>3, <1>6, <2>1 DEF FeedApart
<1>8. FeedWritten'
  BY <1>6 DEF FeedWritten
<1> QED
  BY <1>4, <1>5, <1>7, <1>8 DEF FeedInv

(* A worker that is done with its message has seen the same ones.          *)
LEMMA DoneWith ==
  ASSUME FeedTypes, NEW u \in Users, pc[u] = "message", UNCHANGED held,
         pc' = [pc EXCEPT ![u] = "range"]
  PROVE  /\ F!TakenToo(u) /\ UNCHANGED skipped =>
              /\ taken' \in [Users -> Seq(Nat)] /\ taken'[u] = Append(taken[u], held[u])
              /\ \A v \in Users : v # u => taken'[v] = taken[v]
              /\ \A i \in Nat : Seen(u, i)' <=> Seen(u, i)
         /\ UNCHANGED taken /\ skipped' = [skipped EXCEPT ![u] = @ \cup {held[u]}] =>
              /\ skipped' \in [Users -> SUBSET Nat] /\ skipped'[u] = skipped[u] \cup {held[u]}
              /\ \A v \in Users : v # u => skipped'[v] = skipped[v]
              /\ \A i \in Nat : Seen(u, i)' <=> Seen(u, i)
<1>1. /\ held[u] \in Nat /\ taken[u] \in Seq(Nat) /\ skipped[u] \in SUBSET Nat
      /\ pc'[u] = "range" /\ taken \in [Users -> Seq(Nat)] /\ skipped \in [Users -> SUBSET Nat]
  BY DEF FeedTypes
<1>2. ASSUME F!TakenToo(u), UNCHANGED skipped
      PROVE  /\ taken' \in [Users -> Seq(Nat)] /\ taken'[u] = Append(taken[u], held[u])
             /\ \A v \in Users : v # u => taken'[v] = taken[v]
             /\ \A i \in Nat : Seen(u, i)' <=> Seen(u, i)
  <2>1. PICK r : r = Append(taken[u], held[u])
    OBVIOUS
  <2>2. r \in Seq(Nat) /\ taken' = [taken EXCEPT ![u] = r]
    BY <1>1, <1>2, <2>1, AppendProperties DEF F!TakenToo
  <2>3. /\ taken' \in [Users -> Seq(Nat)] /\ taken'[u] = r
        /\ \A v \in Users : v # u => taken'[v] = taken[v]
    BY <1>1, <2>2
  <2>4. \A i : F!Contains(r, i) <=> F!Contains(taken[u], i) \/ i = held[u]
    BY <1>1, <2>1, TakesOne
  <2>5. \A i : F!Contains(taken[u], i)' <=> F!Contains(r, i)
    BY <2>3 DEF F!Contains
  <2> QED
    BY <1>1, <1>2, <2>1, <2>3, <2>4, <2>5 DEF Seen
<1>3. ASSUME UNCHANGED taken, skipped' = [skipped EXCEPT ![u] = @ \cup {held[u]}]
      PROVE  /\ skipped' \in [Users -> SUBSET Nat] /\ skipped'[u] = skipped[u] \cup {held[u]}
             /\ \A v \in Users : v # u => skipped'[v] = skipped[v]
             /\ \A i \in Nat : Seen(u, i)' <=> Seen(u, i)
  <2>1. /\ skipped' \in [Users -> SUBSET Nat] /\ skipped'[u] = skipped[u] \cup {held[u]}
        /\ \A v \in Users : v # u => skipped'[v] = skipped[v]
    BY <1>1, <1>3
  <2>2. \A i : F!Contains(taken[u], i)' <=> F!Contains(taken[u], i)
    BY <1>3 DEF F!Contains
  <2> QED
    BY <1>1, <2>1, <2>2 DEF Seen
<1> QED
  BY <1>2, <1>3

(* postprocess opens the array, stream has nothing to write yet.           *)
LEMMA FeedStart ==
  ASSUME FeedInv, NEW u \in Users, F!StartWork(u)
  PROVE  FeedInv'
<1> DEFINE tokens == IF tool = "postprocess" THEN <<Open>> ELSE <<>>
<1>1. /\ UNCHANGED <<tool, feed, main, line, queue, closed, held, noErr, taken, skipped>>
      /\ pc[u] = "start" /\ pc' = [pc EXCEPT ![u] = "range"] /\ F!Write(u, tokens)
      /\ FeedTypes /\ FeedWritten
  BY DEF F!StartWork, F!history, FeedInv
<1>2. PICK t : t = tokens
  OBVIOUS
<1>3. t \in Seq(Token) /\ <<>> \in Seq(Token)
  <2>1. <<>> \in Seq(Token)
    BY EmptySeq
  <2>2. <<Open>> \in Seq(Token)
    BY DEF Token
  <2> QED
    BY <1>2, <2>1, <2>2
<1> HIDE DEF tokens
<1>4. /\ file' \in [Users -> Seq(Token)] /\ writer' \in [Users -> Seq(Token)]
      /\ file'[u] \o writer'[u] = (file[u] \o writer[u]) \o t
      /\ Len(writer'[u]) <= WriterSize
      /\ \A v \in Users : v # u => file'[v] = file[v] /\ writer'[v] = writer[v]
      /\ UNCHANGED broken
  <2>1. file \in [Users -> Seq(Token)] /\ writer \in [Users -> Seq(Token)] /\ F!Write(u, t)
    BY <1>1, <1>2 DEF FeedTypes
  <2> QED
    BY <1>3, <2>1, WriteKeeps
<1>5. /\ taken[u] = <<>> /\ file[u] = <<>> /\ writer[u] = <<>>
      /\ noErr[u] = FALSE /\ broken[u] = FALSE
      /\ \A i \in skipped[u] : tool = "stream" /\ (broken[u] \/ feed[i] # "tweet")
  BY <1>1 DEF FeedWritten, WorkerRight
<1>6. file'[u] \o writer'[u] = t
  <2>1. <<>> \o <<>> = <<>> /\ <<>> \o t = t
    BY <1>3, ConcatEmptySeq
  <2> QED
    BY <1>4, <1>5, <2>1
<1>7. WorkerRight(u)'
  <2>1. pc'[u] = "range" /\ taken'[u] = <<>> /\ noErr'[u] = FALSE /\ broken'[u] = FALSE
    BY <1>1, <1>4, <1>5 DEF FeedTypes
  <2>2. /\ F!Array(feed, <<>>) = <<Open>> /\ ~F!EndsGood(feed, <<>>)
        /\ F!AsLines(<<>>) = <<>>
    <3>1. PICK fates : fates = feed
      OBVIOUS
    <3>2. F!Array(fates, <<>>) = <<Open>> /\ ~F!EndsGood(fates, <<>>)
      BY ArrayGrows
    <3> QED
      BY <3>1, <3>2, LinesGrow
  <2>3. Wrote(u, taken[u])'
    BY <1>1, <1>2, <1>4, <1>6, <2>1, <2>2 DEF Wrote, tokens
  <2> QED
    BY <1>1, <1>4, <1>5, <2>1, <2>3 DEF WorkerRight
<1>8. \A i \in Nat : Seen(u, i)' <=> Seen(u, i)
  <2>1. pc'[u] = "range" /\ pc[u] = "start"
    BY <1>1 DEF FeedTypes
  <2> QED
    BY <1>1, <2>1 DEF Seen, F!Contains
<1>9. noErr' \in [Users -> BOOLEAN] /\ broken' \in [Users -> BOOLEAN]
      /\ taken' \in [Users -> Seq(Nat)] /\ skipped' \in [Users -> SUBSET Nat]
  BY <1>1, <1>4 DEF FeedTypes
<1> QED
  BY <1>1, <1>4, <1>7, <1>8, <1>9, WorkerSteps

(* postprocess writes a message: the array grows by it, or the worker is   *)
(* doomed.                                                                 *)
LEMMA FeedTweet ==
  ASSUME FeedInv, NEW u \in Users, F!WriteTweet(u)
  PROVE  FeedInv'
<1> DEFINE good == feed[held[u]] = "tweet"
           tokens == (IF noErr[u] THEN <<Comma>> ELSE <<>>) \o (IF good THEN <<held[u]>> ELSE <<>>)
<1>1. /\ UNCHANGED <<tool, feed, main, line, queue, closed, held, skipped>>
      /\ tool = "postprocess" /\ pc[u] = "message" /\ pc' = [pc EXCEPT ![u] = "range"]
      /\ F!TakenToo(u)
      /\ FeedTypes /\ FeedWritten
  BY DEF F!WriteTweet, FeedInv
<1>2. PICK t, g, x, fates : t = tokens /\ g = good /\ x = held[u] /\ fates = feed
  OBVIOUS
<1>3. /\ x \in Nat /\ g \in BOOLEAN /\ noErr[u] \in BOOLEAN /\ (g <=> fates[x] = "tweet")
      /\ taken[u] \in Seq(Nat) /\ noErr \in [Users -> BOOLEAN] /\ broken \in [Users -> BOOLEAN]
      /\ file \in [Users -> Seq(Token)] /\ writer \in [Users -> Seq(Token)]
      /\ pc'[u] = "range"
  BY <1>1, <1>2 DEF FeedTypes
<1>4. t = (IF noErr[u] THEN <<Comma>> ELSE <<>>) \o (IF g THEN <<x>> ELSE <<>>)
  BY <1>2
<1>5. t \in Seq(Token)
  <2>1. <<>> \in Seq(Token) /\ <<Comma>> \in Seq(Token) /\ <<x>> \in Seq(Token)
    BY <1>3, EmptySeq DEF Token
  <2>2. \A a, b \in Seq(Token) : a \o b \in Seq(Token)
    BY ConcatProperties
  <2> QED
    BY <1>4, <2>1, <2>2
<1>6. \/ ~broken[u] /\ F!Write(u, t) /\ noErr' = [noErr EXCEPT ![u] = g]
      \/ ~broken[u] /\ F!WriteFails(u, t) /\ noErr' = [noErr EXCEPT ![u] = FALSE]
      \/ broken[u] /\ UNCHANGED <<writer, broken, file>> /\ noErr' = [noErr EXCEPT ![u] = FALSE]
  BY <1>2 DEF F!WriteTweet, F!files
<1> HIDE DEF tokens, good
<1>7. /\ taken' \in [Users -> Seq(Nat)] /\ taken'[u] = Append(taken[u], x)
      /\ \A v \in Users : v # u => taken'[v] = taken[v]
      /\ \A i \in Nat : Seen(u, i)' <=> Seen(u, i)
  BY <1>1, <1>2, DoneWith
<1>8. /\ noErr' \in [Users -> BOOLEAN] /\ \A v \in Users : v # u => noErr'[v] = noErr[v]
      /\ skipped' \in [Users -> SUBSET Nat] /\ \A v \in Users : v # u => skipped'[v] = skipped[v]
      /\ skipped'[u] = {}
  <2>1. skipped[u] = {}
    BY <1>1 DEF FeedWritten, WorkerRight
  <2> QED
    BY <1>1, <1>3, <1>6, <2>1 DEF FeedTypes
<1>9. /\ file' \in [Users -> Seq(Token)] /\ writer' \in [Users -> Seq(Token)]
      /\ broken' \in [Users -> BOOLEAN]
      /\ \A v \in Users : v # u =>
           file'[v] = file[v] /\ writer'[v] = writer[v] /\ broken'[v] = broken[v]
      /\ WorkerRight(u)'
  <2>1. CASE ~broken[u] /\ F!Write(u, t) /\ noErr' = [noErr EXCEPT ![u] = g]
    <3>1. /\ file' \in [Users -> Seq(Token)] /\ writer' \in [Users -> Seq(Token)]
          /\ file'[u] \o writer'[u] = (file[u] \o writer[u]) \o t
          /\ \A v \in Users : v # u => file'[v] = file[v] /\ writer'[v] = writer[v]
          /\ UNCHANGED broken
      BY <1>3, <1>5, <2>1, WriteKeeps
    <3>2. PICK s : s = taken[u]
      OBVIOUS
    <3>3. /\ file[u] \o writer[u] = F!Array(fates, s)
          /\ noErr[u] <=> F!EndsGood(fates, s)
      BY <1>1, <1>2, <2>1, <3>2 DEF FeedWritten, WorkerRight, Wrote, Doomed
    <3>4. s \in Seq(Nat)
      BY <1>3, <3>2
    <3>5. /\ F!EndsGood(fates, Append(s, x)) <=> g
          /\ F!Array(fates, Append(s, x)) = F!Array(fates, s) \o t
      <4>1. \A q \in Seq(Nat), y \in Nat :
              /\ F!EndsGood(fates, Append(q, y)) <=> fates[y] = "tweet"
              /\ F!Array(fates, Append(q, y))
                   = F!Array(fates, q)
                       \o ((IF F!EndsGood(fates, q) THEN <<Comma>> ELSE <<>>)
                             \o (IF fates[y] = "tweet" THEN <<y>> ELSE <<>>))
        BY ArrayGrows, Zenon
      <4>3. /\ F!EndsGood(fates, Append(s, x)) <=> fates[x] = "tweet"
            /\ F!Array(fates, Append(s, x))
                 = F!Array(fates, s)
                     \o ((IF F!EndsGood(fates, s) THEN <<Comma>> ELSE <<>>)
                           \o (IF fates[x] = "tweet" THEN <<x>> ELSE <<>>))
        BY <1>3, <3>4, <4>1, Zenon
      <4>2. (IF F!EndsGood(fates, s) THEN <<Comma>> ELSE <<>>)
              = (IF noErr[u] THEN <<Comma>> ELSE <<>>)
            /\ (IF fates[x] = "tweet" THEN <<x>> ELSE <<>>) = (IF g THEN <<x>> ELSE <<>>)
        BY <1>3, <3>3
      <4> QED
        BY <1>3, <1>4, <4>2, <4>3, Zenon
    <3>6. PICK r : r = Append(s, x)
      OBVIOUS
    <3>7. file'[u] \o writer'[u] = F!Array(fates, r) /\ (g <=> F!EndsGood(fates, r))
      BY <3>1, <3>3, <3>5, <3>6
    <3>8. feed' = fates /\ tool' = "postprocess" /\ noErr'[u] = g /\ ~broken'[u] /\ taken'[u] = r
      BY <1>1, <1>2, <1>3, <1>7, <2>1, <3>1, <3>2, <3>6
    <3>9. F!Array(feed', r) = F!Array(fates, r) /\ (F!EndsGood(feed', r) <=> F!EndsGood(fates, r))
      BY <3>8
    <3>10. Wrote(u, taken[u])'
      BY <3>7, <3>8, <3>9 DEF Wrote
    <3>11. WorkerRight(u)'
      BY <1>3, <1>8, <3>10 DEF WorkerRight
    <3> QED
      BY <1>3, <3>1, <3>11
  <2>2. CASE ~broken[u] /\ F!WriteFails(u, t)
    <3>1. PICK w, out : w = writer[u] \o t /\ out = F!PushedOut(w)
      OBVIOUS
    <3>2. F!PushFails(u, w, 0, out)
      BY <2>2, <3>1 DEF F!WriteFails
    <3>3. w \in Seq(Token)
      BY <1>3, <1>5, <3>1, ConcatProperties
    <3>4. out \in 0..Len(w)
      BY <3>1, <3>3, PushedOutFits
    <3>5. /\ file' \in [Users -> Seq(Token)] /\ writer' \in [Users -> Seq(Token)]
          /\ \A v \in Users : v # u =>
               file'[v] = file[v] /\ writer'[v] = writer[v] /\ broken'[v] = broken[v]
          /\ broken' \in [Users -> BOOLEAN] /\ broken'[u] = TRUE
      BY <1>3, <1>5, <3>1, <3>2, <3>4, PushKeeps
    <3>6. WorkerRight(u)'
      BY <1>1, <1>3, <1>8, <3>5 DEF WorkerRight, Doomed
    <3> QED
      BY <3>5, <3>6
  <2>3. CASE broken[u] /\ UNCHANGED <<writer, broken, file>>
    <3>1. WorkerRight(u)'
      BY <1>1, <1>3, <1>8, <2>3 DEF WorkerRight, Doomed
    <3> QED
      BY <1>3, <2>3, <3>1
  <2> QED
    BY <1>6, <2>1, <2>2, <2>3
<1> QED
  BY <1>1, <1>7, <1>8, <1>9, WorkerSteps

(* stream writes a message, all of it or, for the last time, a part.       *)
LEMMA FeedMessage ==
  ASSUME FeedInv, NEW u \in Users, F!WriteMessage(u)
  PROVE  FeedInv'
<1>1. /\ UNCHANGED <<tool, feed, main, line, queue, closed, held, noErr, skipped>>
      /\ tool = "stream" /\ pc[u] = "message" /\ pc' = [pc EXCEPT ![u] = "range"]
      /\ ~broken[u] /\ F!TakenToo(u)
      /\ F!Write(u, <<held[u], LineFeed>>) \/ F!WriteFails(u, <<held[u], LineFeed>>)
      /\ FeedTypes /\ FeedWritten
  BY DEF F!WriteMessage, FeedInv
<1>2. PICK t, x, s : t = <<x, LineFeed>> /\ x = held[u] /\ s = taken[u]
  OBVIOUS
<1>3. /\ x \in Nat /\ t \in Seq(Token) /\ s \in Seq(Nat) /\ pc'[u] = "range"
      /\ file \in [Users -> Seq(Token)] /\ writer \in [Users -> Seq(Token)]
      /\ broken \in [Users -> BOOLEAN]
  BY <1>1, <1>2 DEF FeedTypes, Token
<1>4. /\ taken' \in [Users -> Seq(Nat)] /\ taken'[u] = Append(s, x)
      /\ \A v \in Users : v # u => taken'[v] = taken[v]
      /\ \A i \in Nat : Seen(u, i)' <=> Seen(u, i)
  BY <1>1, <1>2, DoneWith
<1>5. /\ file[u] \o writer[u] = F!AsLines(s)
      /\ \A i \in skipped[u] : tool = "stream" /\ (broken[u] \/ feed[i] # "tweet")
  BY <1>1, <1>2 DEF FeedWritten, WorkerRight, Wrote, Doomed
<1>6. F!AsLines(s) \o t = F!AsLines(Append(s, x))
  BY <1>2, <1>3, LinesGrow
<1>7. /\ file' \in [Users -> Seq(Token)] /\ writer' \in [Users -> Seq(Token)]
      /\ broken' \in [Users -> BOOLEAN]
      /\ \A v \in Users : v # u =>
           file'[v] = file[v] /\ writer'[v] = writer[v] /\ broken'[v] = broken[v]
      /\ file'[u] \o writer'[u] = (file[u] \o writer[u]) \o t
      /\ ~broken'[u] => Len(writer'[u]) <= WriterSize
  <2>1. CASE F!Write(u, t)
    BY <1>3, <2>1, WriteKeeps
  <2>2. CASE F!WriteFails(u, t)
    <3>1. PICK w, out : w = writer[u] \o t /\ out = F!PushedOut(w)
      OBVIOUS
    <3>2. F!PushFails(u, w, 0, out)
      BY <2>2, <3>1 DEF F!WriteFails
    <3>3. w \in Seq(Token)
      BY <1>3, <3>1, ConcatProperties
    <3>4. out \in 0..Len(w)
      BY <3>1, <3>3, PushedOutFits
    <3> QED
      BY <1>3, <3>1, <3>2, <3>4, PushKeeps
  <2> QED
    BY <1>1, <1>2, <2>1, <2>2
<1>8. WorkerRight(u)'
  <2>1. PICK r : r = Append(s, x)
    OBVIOUS
  <2>2. F!AsLines(r)' = F!AsLines(r)
    OBVIOUS
  <2>3. file'[u] \o writer'[u] = F!AsLines(r) /\ taken'[u] = r /\ tool' = "stream"
    BY <1>1, <1>4, <1>5, <1>6, <1>7, <2>1
  <2>4. Wrote(u, taken[u])'
    BY <1>7, <2>2, <2>3 DEF Wrote
  <2> QED
    BY <1>1, <1>3, <1>5, <2>4 DEF WorkerRight
<1>9. /\ noErr' \in [Users -> BOOLEAN] /\ skipped' \in [Users -> SUBSET Nat]
      /\ \A v \in Users : noErr'[v] = noErr[v] /\ skipped'[v] = skipped[v]
  BY <1>1 DEF FeedTypes
<1> QED
  BY <1>1, <1>4, <1>7, <1>8, <1>9, WorkerSteps

(* stream skips a message.                                                 *)
LEMMA FeedSkip ==
  ASSUME FeedInv, NEW u \in Users, F!SkipMessage(u)
  PROVE  FeedInv'
<1>1. /\ UNCHANGED <<tool, feed, main, line, queue, closed, held, noErr, writer, broken, file,
                     taken>>
      /\ tool = "stream" /\ pc[u] = "message" /\ pc' = [pc EXCEPT ![u] = "range"]
      /\ feed[held[u]] # "tweet" \/ broken[u]
      /\ skipped' = [skipped EXCEPT ![u] = @ \cup {held[u]}]
      /\ FeedTypes /\ FeedWritten
  BY DEF F!SkipMessage, F!files, FeedInv
<1>2. /\ skipped' \in [Users -> SUBSET Nat] /\ skipped'[u] = skipped[u] \cup {held[u]}
      /\ \A v \in Users : v # u => skipped'[v] = skipped[v]
      /\ \A i \in Nat : Seen(u, i)' <=> Seen(u, i)
  BY <1>1, DoneWith
<1>3. /\ Wrote(u, taken[u]) /\ pc'[u] = "range"
      /\ \A i \in skipped[u] : tool = "stream" /\ (broken[u] \/ feed[i] # "tweet")
  BY <1>1 DEF FeedTypes, FeedWritten, WorkerRight, Doomed
<1>4. PICK s : s = taken[u]
  OBVIOUS
<1>5. F!AsLines(s)' = F!AsLines(s)
  OBVIOUS
<1>6. Wrote(u, taken[u])'
  BY <1>1, <1>3, <1>4, <1>5 DEF Wrote
<1>7. WorkerRight(u)'
  BY <1>1, <1>2, <1>3, <1>6 DEF WorkerRight
<1>8. /\ noErr' \in [Users -> BOOLEAN] /\ broken' \in [Users -> BOOLEAN]
      /\ file' \in [Users -> Seq(Token)] /\ writer' \in [Users -> Seq(Token)]
      /\ taken' \in [Users -> Seq(Nat)]
  BY <1>1 DEF FeedTypes
<1> QED
  BY <1>1, <1>2, <1>7, <1>8, WorkerSteps

(* A worker ends: postprocess flushes, if it can, and stream does not.     *)
LEMMA FeedExit ==
  ASSUME FeedInv, NEW u \in Users, F!ExitWork(u)
  PROVE  FeedInv'
<1> DEFINE Ends ==
      /\ IF tool = "postprocess" THEN F!WriteAndFlush(u, <<End>>)
         ELSE UNCHANGED <<writer, broken, file>>
      /\ pc' = [pc EXCEPT ![u] = "exited"]
      /\ UNCHANGED <<tool, feed, main, line, queue, closed, held, noErr, taken, skipped>>
      /\ pc[u] = "range" /\ queue = <<>> /\ closed
<1>1. CASE main' = "panic" /\ UNCHANGED <<tool, feed, line, queue, closed, pc, held, noErr,
                                         writer, broken, file, taken, skipped>>
  BY <1>1, FeedMain
<1>2. CASE ~Doomed(u) /\ Ends
  <2>1. /\ UNCHANGED <<tool, feed, main, line, queue, closed, held, noErr, taken, skipped>>
        /\ pc[u] = "range" /\ queue = <<>> /\ closed /\ pc' = [pc EXCEPT ![u] = "exited"]
        /\ IF tool = "postprocess" THEN F!WriteAndFlush(u, <<End>>)
           ELSE UNCHANGED <<writer, broken, file>>
        /\ FeedTypes /\ FeedWritten
    BY <1>2 DEF FeedInv
  <2>2. /\ file \in [Users -> Seq(Token)] /\ writer \in [Users -> Seq(Token)]
        /\ broken \in [Users -> BOOLEAN] /\ pc'[u] = "exited" /\ Wrote(u, taken[u])
        /\ \A i \in skipped[u] : tool = "stream" /\ (broken[u] \/ feed[i] # "tweet")
    BY <1>2, <2>1 DEF FeedTypes, FeedWritten, WorkerRight
  <2>3. PICK r, fates : r = taken[u] /\ fates = feed
    OBVIOUS
  <2>4. \A i \in Nat : Seen(u, i)' <=> Seen(u, i)
    BY <2>1, <2>2 DEF Seen, F!Contains
  <2>5. /\ noErr' \in [Users -> BOOLEAN] /\ taken' \in [Users -> Seq(Nat)]
        /\ skipped' \in [Users -> SUBSET Nat]
    BY <2>1 DEF FeedTypes
  <2>6. /\ file' \in [Users -> Seq(Token)] /\ writer' \in [Users -> Seq(Token)]
        /\ broken' \in [Users -> BOOLEAN]
        /\ \A v \in Users : v # u =>
             file'[v] = file[v] /\ writer'[v] = writer[v] /\ broken'[v] = broken[v]
        /\ WorkerRight(u)'
    <3>1. CASE tool = "postprocess"
      <4>1. <<End>> \in Seq(Token) /\ <<>> \in Seq(Token)
        BY EmptySeq DEF Token
      <4>2. PICK t, w : t = <<End>> /\ w = writer[u] \o t
        OBVIOUS
      <4>3. w \in Seq(Token) /\ t \in Seq(Token)
        BY <2>2, <4>1, <4>2, ConcatProperties
      <4>4. /\ file' \in [Users -> Seq(Token)] /\ writer' \in [Users -> Seq(Token)]
            /\ broken' \in [Users -> BOOLEAN]
            /\ \A v \in Users : v # u =>
                 file'[v] = file[v] /\ writer'[v] = writer[v] /\ broken'[v] = broken[v]
            /\ file'[u] \o writer'[u] = (file[u] \o writer[u]) \o t
            /\ ~broken'[u] => writer'[u] = <<>>
        <5>1. CASE F!PushFails(u, w, F!PushedOut(w), Len(w))
          <6>1. Len(w) \in 0..Len(w)
            BY <4>3, LenProperties
          <6>2. F!PushedOut(w) \in Nat
            BY <4>3, <6>1, PushedOutFits
          <6> QED
            BY <2>2, <4>2, <4>3, <5>1, <6>1, <6>2, PushKeeps
        <5>2. CASE /\ file' = [file EXCEPT ![u] = file[u] \o w]
                   /\ writer' = [writer EXCEPT ![u] = <<>>] /\ UNCHANGED broken
          <6>1. PICK f, e : f = file[u] \o w /\ e = <<>>
            OBVIOUS
          <6>2. f \in Seq(Token) /\ e \in Seq(Token) /\ f \o e = f
            <7>1. file[u] \o w \in Seq(Token)
              BY <2>2, <4>3, ConcatProperties
            <7> QED
              BY <4>1, <6>1, <7>1, ConcatEmptySeq
          <6>3. file' = [file EXCEPT ![u] = f] /\ writer' = [writer EXCEPT ![u] = e]
            BY <5>2, <6>1
          <6>4. /\ file' \in [Users -> Seq(Token)] /\ writer' \in [Users -> Seq(Token)]
                /\ file'[u] = f /\ writer'[u] = e
                /\ \A v \in Users : v # u => file'[v] = file[v] /\ writer'[v] = writer[v]
            BY <2>2, <6>2, <6>3
          <6>5. PICK a, b : a = file[u] /\ b = writer[u]
            OBVIOUS
          <6>6. (a \o b) \o t = a \o (b \o t)
            <7>1. a \in Seq(Token) /\ b \in Seq(Token)
              BY <2>2, <6>5
            <7> QED
              BY <4>3, <7>1, InParts, Zenon
          <6>7. file'[u] \o writer'[u] = (file[u] \o writer[u]) \o t
            BY <4>2, <6>1, <6>2, <6>4, <6>5, <6>6, Zenon
          <6> QED
            BY <2>2, <5>2, <6>1, <6>4, <6>7
        <5> QED
          BY <2>1, <3>1, <4>2, <5>1, <5>2 DEF F!WriteAndFlush
      <4>5. file'[u] \o writer'[u] = F!Array(fates, r) \o t
        BY <2>2, <2>3, <3>1, <4>4 DEF Wrote
      <4>6. F!Array(feed', taken'[u]) = F!Array(fates, r)
        BY <2>1, <2>3
      <4>7. /\ tool' = "postprocess" /\ skipped'[u] = {}
            /\ file'[u] \o writer'[u] = F!Array(feed, taken[u])' \o <<End>>
        BY <2>1, <2>2, <3>1, <4>2, <4>5, <4>6
      <4>8. WorkerRight(u)'
        BY <2>2, <4>4, <4>7 DEF WorkerRight
      <4> QED
        BY <4>4, <4>8
    <3>2. CASE tool # "postprocess"
      <4>1. UNCHANGED <<writer, broken, file>>
        BY <2>1, <3>2
      <4>2. F!AsLines(r)' = F!AsLines(r)
        OBVIOUS
      <4>3. Wrote(u, taken[u])'
        BY <2>1, <2>2, <2>3, <3>2, <4>1, <4>2 DEF Wrote
      <4>4. WorkerRight(u)'
        BY <2>1, <2>2, <3>2, <4>1, <4>3 DEF WorkerRight
      <4> QED
        BY <2>2, <4>1, <4>4
    <3> QED
      BY <3>1, <3>2
  <2> QED
    BY <2>1, <2>4, <2>5, <2>6, WorkerSteps
<1> QED
  BY <1>1, <1>2 DEF F!ExitWork, F!files, F!history, Doomed

(* Every step keeps the invariant of the feed.                             *)
LEMMA FeedStep == FeedInv /\ [F!Next]_(F!vars) => FeedInv'
<1> SUFFICES ASSUME FeedInv, [F!Next]_(F!vars) PROVE FeedInv'
  OBVIOUS
<1>1. CASE F!Send \/ F!Close \/ F!Return \/ UNCHANGED F!vars
  BY <1>1, FeedMain
<1>2. ASSUME NEW u \in Users,
             \/ F!StartWork(u) \/ F!Take(u) \/ F!WriteTweet(u)
             \/ F!WriteMessage(u) \/ F!SkipMessage(u) \/ F!ExitWork(u)
      PROVE  FeedInv'
  BY <1>2, FeedStart, FeedTake, FeedTweet, FeedMessage, FeedSkip, FeedExit
<1>3. ASSUME NEW u \in Users, F!SeparatorFails(u) PROVE FeedInv'
  <2>1. main' = "panic" /\ UNCHANGED <<tool, feed, line, queue, closed, pc, held, noErr,
                                      writer, broken, file, taken, skipped>>
    BY <1>3 DEF F!SeparatorFails, F!files, F!history
  <2> QED
    BY <2>1, FeedMain
<1> QED
  BY <1>1, <1>2, <1>3 DEF F!Next, F!Ended

(* When stream or postprocess return, every message was seen by one        *)
(* worker, which skipped it only where it had to; a file of postprocess is *)
(* the array of its worker's tweets, with the comma too many in the case   *)
(* the property names, and a file of stream is the lines its worker took   *)
(* but for at most a full buffer, or a prefix of them if the disk did not  *)
(* take it all: for any feed, any number of workers and a buffer of any    *)
(* size.                                                                   *)
THEOREM FeedsAlwaysComplete == Spec => []FilesComplete
<1> DEFINE Inv == program = "feeds" => FeedInv
<1>1. Init => Inv
  BY RunsAlone, FeedInit
<1>2. Inv /\ [Next]_vars => Inv'
  BY RunsAlone, FeedStep
<1>3. FeedInv => F!FilesComplete
  <2> SUFFICES ASSUME FeedInv, main = "returned", NEW u \in Users
               PROVE  /\ tool = "postprocess" =>
                           /\ F!IsPrefix(file[u], F!Array(feed, taken[u]) \o <<End>>)
                           /\ ~broken[u] => file[u] = F!Array(feed, taken[u]) \o <<End>>
                      /\ tool = "stream" =>
                           /\ F!IsPrefix(file[u], F!AsLines(taken[u]))
                           /\ ~broken[u] => Len(F!AsLines(taken[u])) - Len(file[u]) <= WriterSize
                      /\ \A i \in skipped[u] :
                           tool = "stream" /\ (broken[u] \/ feed[i] # "tweet")
                      /\ \A i \in 1..Len(feed) :
                           F!Cardinality({w \in Users :
                                            F!Contains(taken[w], i) \/ i \in skipped[w]}) = 1
    BY DEF F!FilesComplete
  <2>1. FeedTypes /\ FeedOrder /\ FeedApart /\ FeedWritten
    BY DEF FeedInv
  <2>2. /\ \A v \in Users : pc[v] = "exited"
        /\ WorkerRight(u) /\ closed /\ Taken = Len(feed)
    BY <2>1 DEF FeedOrder, FeedWritten
  <2>3. PICK f, b : f = file[u] /\ b = writer[u]
    OBVIOUS
  <2>4. f \in Seq(Token) /\ b \in Seq(Token)
    BY <2>1, <2>3 DEF FeedTypes
  <2>5. F!IsPrefix(f, f \o b) /\ Len(f \o b) - Len(f) = Len(b)
    BY <2>4, PrefixOf
  <2>6. ASSUME tool = "postprocess"
        PROVE  /\ F!IsPrefix(file[u], F!Array(feed, taken[u]) \o <<End>>)
               /\ ~broken[u] => file[u] = F!Array(feed, taken[u]) \o <<End>>
    <3>1. PICK w : w = F!Array(feed, taken[u]) \o <<End>>
      OBVIOUS
    <3>2. f \o b = w /\ (~broken[u] => b = <<>>)
      BY <2>2, <2>3, <2>6, <3>1 DEF WorkerRight
    <3>3. f \o <<>> = f
      BY <2>4, ConcatEmptySeq
    <3> QED
      BY <2>3, <2>5, <3>1, <3>2, <3>3, Zenon
  <2>7. ASSUME tool = "stream"
        PROVE  /\ F!IsPrefix(file[u], F!AsLines(taken[u]))
               /\ ~broken[u] => Len(F!AsLines(taken[u])) - Len(file[u]) <= WriterSize
    <3>1. PICK w : w = F!AsLines(taken[u])
      OBVIOUS
    <3>2. f \o b = w /\ (~broken[u] => Len(b) <= WriterSize)
      BY <2>2, <2>3, <2>7, <3>1 DEF WorkerRight, Wrote
    <3>3. F!IsPrefix(f, w) /\ (~broken[u] => Len(w) - Len(f) <= WriterSize)
      BY <2>5, <3>2
    <3> QED
      BY <2>3, <3>1, <3>3, Zenon
  <2>8. ASSUME NEW i \in 1..Len(feed)
        PROVE  F!Cardinality({w \in Users : F!Contains(taken[w], i) \/ i \in skipped[w]}) = 1
    <3>1. \A w \in Users : Seen(w, i) <=> F!Contains(taken[w], i) \/ i \in skipped[w]
      BY <2>2 DEF Seen
    <3>2. PICK w \in Users : Seen(w, i) /\ \A v \in Users : Seen(v, i) => v = w
      BY <2>1, <2>2 DEF FeedApart
    <3>3. {v \in Users : F!Contains(taken[v], i) \/ i \in skipped[v]} = {w}
      BY <3>1, <3>2
    <3>4. Cardinality({w}) = 1
      BY FS_Singleton
    <3> QED
      BY <3>3, <3>4, FeedCardinality
  <2>9. \A i \in skipped[u] : tool = "stream" /\ (broken[u] \/ feed[i] # "tweet")
    BY <2>2 DEF WorkerRight
  <2> QED
    BY <2>6, <2>7, <2>8, <2>9
<1>4. Inv => FilesComplete
  BY <1>3 DEF FilesComplete
<1> QED
  BY <1>1, <1>2, <1>4, PTL DEF Spec

-----------------------------------------------------------------------------
(* regression/replay.                                                      *)

(* The queries are taken in the order in which they were sent, which is    *)
(* that of the folder: Taken is the last one that left the channel.        *)
Queries == 1..Len(feed)
Busy(u) == pc[u] \in {"ask", "write", "compare"}
Writing(u, s) == pc[u] = "write" /\ R!SuffixOf(held[u]) = s
Judged(i) == verdict[i] # "none"
Rightly(i) ==
  verdict[i] = IF R!Answer(i) = Expected[R!SuffixOf(i)] THEN "matched" ELSE "differs"
JudgedOnes == {i \in Queries : Judged(i)}

(* The reply to a query was written, perhaps not for good.                 *)
WasWritten(i) == Judged(i) \/ \E u \in Repliers : pc[u] = "compare" /\ held[u] = i

ReplayTypes ==
  /\ feed \in Folders
  /\ line \in 0..Len(feed) /\ Len(queue) \in 0..line
  /\ queue \in Seq(Nat) /\ \A k \in 1..Len(queue) : queue[k] = Taken + k
  /\ pc \in [Repliers -> {"range", "ask", "write", "compare", "exited"}]
  /\ held \in [Repliers -> Nat]
  /\ DOMAIN file = DOMAIN Expected
  /\ DOMAIN verdict = Queries /\ count \in Nat

(* qch is closed behind the last query, a worker returns when it is empty, *)
(* main when all of them have.                                             *)
ReplayOrder ==
  /\ closed => line = Len(feed)
  /\ \A u \in Repliers : pc[u] = "exited" => closed /\ Taken = line
  /\ main = "returned" => \A u \in Repliers : pc[u] = "exited"

(* A query that was taken is with one worker, which has a reply to it once *)
(* it writes, or it is judged.                                             *)
ReplayApart ==
  /\ \A u \in Repliers : Busy(u) =>
       /\ held[u] \in 1..Taken /\ ~Judged(held[u])
       /\ pc[u] # "ask" => R!Answer(held[u]) # Nothing
       /\ \A v \in Repliers : Busy(v) /\ held[v] = held[u] => v = u
  /\ \A i \in 1..Taken : Judged(i) \/ \E u \in Repliers : Busy(u) /\ held[u] = i
  /\ \A i \in Queries : Judged(i) => i \in 1..Taken /\ Rightly(i)
  /\ count = Cardinality(JudgedOnes)

(* A file that was written is made of replies, until a worker truncates it *)
(* on its way to write.                                                    *)
FilesMade ==
  \A s \in DOMAIN Expected :
    /\ \A i \in Queries : R!SuffixOf(i) = s /\ WasWritten(i) =>
         R!MadeOf(s) \/ \E u \in Repliers : Writing(u, s)
    /\ (\E u \in Repliers : Writing(u, s)) =>
         file[s] \in Seq(Nat) /\ (R!MadeOf(s) \/ file[s] = <<>>)

ReplayInv == ReplayTypes /\ ReplayOrder /\ ReplayApart /\ FilesMade

(* What the assumption says of a query of the folder at hand.              *)
LEMMA QueriesAre ==
  ASSUME feed \in Folders
  PROVE  /\ Len(feed) \in Nat /\ DOMAIN feed = Queries
         /\ \A i \in Queries : /\ R!SuffixOf(i) \in DOMAIN Expected
                               /\ R!Answer(i) \in Seq(Nat) \cup {Nothing}
<1> DEFINE Q == [parts : Nat, suffix : DOMAIN Expected, reply : Seq(Nat) \cup {Nothing}]
<1>1. feed \in Seq(Q)
  BY ProgramsAssumption
<1>2. Len(feed) \in Nat /\ DOMAIN feed = Queries /\ \A i \in Queries : feed[i] \in Q
  <2> HIDE DEF Q
  <2> QED
    BY <1>1, LenProperties, ElementOfSeq DEF Queries
<1>3. \A i \in Queries : feed[i].suffix \in DOMAIN Expected /\ feed[i].reply \in Seq(Nat) \cup {Nothing}
  <2> TAKE i \in Queries
  <2>1. feed[i] \in Q
    BY <1>2
  <2> QED
    BY <2>1
<1> QED
  BY <1>2, <1>3 DEF R!SuffixOf, R!Answer

(* A replay starts with all queries before it.                             *)
LEMMA ReplayInit == R!Init => ReplayInv
<1> SUFFICES ASSUME R!Init PROVE ReplayInv
  OBVIOUS
<1>1. /\ feed \in Folders /\ main = "walk" /\ line = 0 /\ queue = <<>> /\ closed = FALSE
      /\ pc = [u \in Repliers |-> "range"] /\ held = [u \in Repliers |-> 0]
      /\ DOMAIN file = DOMAIN Expected
      /\ verdict = [i \in DOMAIN feed |-> "none"] /\ count = 0
  BY DEF R!Init, R!FileNames
<1>2. Len(feed) \in Nat /\ DOMAIN feed = Queries
  BY <1>1, QueriesAre
<1>3. Len(queue) = 0 /\ Taken = 0
  <2>1. Len(queue) = 0 /\ line = 0
    BY <1>1
  <2> QED
    BY <2>1 DEF Taken
<1>4. \A i \in Queries : ~Judged(i)
  BY <1>1, <1>2 DEF Judged
<1>5. \A u \in Repliers : ~Busy(u) /\ pc[u] = "range"
  BY <1>1 DEF Busy
<1>6. ReplayTypes
  BY <1>1, <1>2, <1>3 DEF ReplayTypes
<1>7. ReplayOrder
  BY <1>1, <1>5 DEF ReplayOrder
<1>8. ReplayApart
  <2>1. JudgedOnes = {} /\ Cardinality(JudgedOnes) = 0
    BY <1>4, FS_EmptySet DEF JudgedOnes
  <2> QED
    BY <1>1, <1>3, <1>4, <1>5, <2>1 DEF ReplayApart
<1>9. FilesMade
  BY <1>4, <1>5 DEF FilesMade, WasWritten, Writing
<1> QED
  BY <1>6, <1>7, <1>8, <1>9 DEF ReplayInv

(* A folder, a file and a channel that stay as they are.                   *)
LEMMA ReplayFrames ==
  ASSUME UNCHANGED feed
  PROVE  /\ Queries' = Queries
         /\ \A i : R!Answer(i)' = R!Answer(i) /\ R!SuffixOf(i)' = R!SuffixOf(i)
         /\ \A s : file'[s] = file[s] => (R!MadeOf(s)' <=> R!MadeOf(s))
<1>1. /\ Queries' = Queries
      /\ \A i : R!Answer(i)' = R!Answer(i) /\ R!SuffixOf(i)' = R!SuffixOf(i)
  BY DEF Queries, R!Answer, R!SuffixOf
<1>2. ASSUME NEW s, file'[s] = file[s]
      PROVE  R!MadeOf(s)' <=> R!MadeOf(s)
  BY <1>2 DEF R!MadeOf, R!Mine, R!BlockOf, R!Answer, R!SuffixOf
<1> QED
  BY <1>1, <1>2

(* main's steps: no worker, no file and no verdict changes.                *)
LEMMA ReplayMain ==
  ASSUME ReplayInv, R!Send \/ R!Close \/ R!Return \/ UNCHANGED R!vars
  PROVE  ReplayInv'
<1>1. /\ UNCHANGED <<feed, pc, held, file, verdict, count>>
      /\ ReplayTypes /\ ReplayOrder /\ ReplayApart /\ FilesMade
  BY DEF R!Send, R!Close, R!Return, R!vars, ReplayInv
<1>2. /\ Len(feed) \in Nat /\ line \in Nat /\ line <= Len(feed) /\ Len(queue) \in 0..line
      /\ queue \in Seq(Nat)
  BY <1>1, QueriesAre DEF ReplayTypes
<1>3. /\ line' \in 0..Len(feed) /\ Len(queue') \in 0..line' /\ Taken' = Taken
      /\ queue' \in Seq(Nat) /\ \A k \in 1..Len(queue') : queue'[k] = Taken + k
  <2>1. CASE UNCHANGED <<line, queue>>
    BY <1>1, <2>1 DEF ReplayTypes, Taken
  <2>2. CASE R!Send /\ line < Len(feed) /\ line' = line + 1 /\ queue' = Append(queue, line + 1)
    <3>1. /\ queue' \in Seq(Nat) /\ Len(queue') = Len(queue) + 1
          /\ \A k \in 1..Len(queue) : queue'[k] = queue[k]
          /\ queue'[Len(queue) + 1] = line + 1
      BY <1>2, <2>2, AppendProperties
    <3>2. line + 1 = Taken + (Len(queue) + 1)
      BY <1>2 DEF Taken
    <3>3. \A k \in 1..Len(queue) : queue[k] = Taken + k
      BY <1>1 DEF ReplayTypes
    <3>4. \A k \in 1..Len(queue') : queue'[k] = Taken + k
      <4> TAKE k \in 1..Len(queue')
      <4>1. k \in 1..Len(queue) \/ k = Len(queue) + 1
        BY <1>2, <3>1
      <4> QED
        BY <3>1, <3>2, <3>3, <4>1
    <3>5. line' \in 0..Len(feed) /\ Len(queue') \in 0..line' /\ Taken' = Taken
      BY <1>2, <2>2, <3>1 DEF Taken
    <3> QED
      BY <3>1, <3>4, <3>5
  <2> QED
    BY <2>1, <2>2 DEF R!Send, R!Close, R!Return, R!vars
<1>4. ReplayTypes'
  BY <1>1, <1>3 DEF ReplayTypes, Queries
<1>5. ReplayOrder'
  <2>1. CASE R!Send
    <3>1. /\ main = "walk" /\ UNCHANGED closed
          /\ (main' = "fatal" /\ UNCHANGED line) \/ (main' = main /\ line < Len(feed))
      BY <2>1 DEF R!Send
    <3>2. ~closed \/ UNCHANGED line
      BY <1>1, <1>2, <3>1 DEF ReplayOrder
    <3> QED
      BY <1>1, <1>3, <3>1, <3>2 DEF ReplayOrder
  <2>2. CASE R!Close
    BY <1>1, <1>3, <2>2 DEF R!Close, ReplayOrder
  <2>3. CASE R!Return
    BY <1>1, <1>3, <2>3 DEF R!Return, ReplayOrder
  <2>4. CASE UNCHANGED R!vars
    BY <1>1, <1>3, <2>4 DEF R!vars, ReplayOrder
  <2> QED
    BY <2>1, <2>2, <2>3, <2>4
<1>6. ReplayApart'
  BY <1>1, <1>3 DEF ReplayApart, Busy, Judged, JudgedOnes, Rightly, Queries, R!Answer, R!SuffixOf
<1>7. FilesMade'
  BY <1>1, ReplayFrames DEF FilesMade, WasWritten, Writing, Judged
<1> QED
  BY <1>4, <1>5, <1>6, <1>7 DEF ReplayInv

(* A worker takes the next query, or finds the channel closed and empty.   *)
LEMMA ReplayTake ==
  ASSUME ReplayInv, NEW u \in Repliers, R!Take(u), main # "returned"
  PROVE  ReplayInv'
<1>1. /\ UNCHANGED <<feed, main, line, closed, file, verdict, count>> /\ pc[u] = "range"
      /\ ReplayTypes /\ ReplayOrder /\ ReplayApart /\ FilesMade
  BY DEF R!Take, ReplayInv
<1>2. /\ Len(feed) \in Nat /\ line \in Nat /\ line <= Len(feed) /\ Len(queue) \in 0..line
      /\ queue \in Seq(Nat) /\ Taken \in 0..line
  BY <1>1, QueriesAre DEF ReplayTypes, Taken
<1>a. ~Busy(u)
  BY <1>1 DEF Busy
<1>3. ASSUME queue # <<>>, held' = [held EXCEPT ![u] = Head(queue)], queue' = Tail(queue),
             pc' = [pc EXCEPT ![u] = "ask"]
      PROVE  ReplayInv'
  <2>1. /\ Len(queue) \in Nat \ {0} /\ Head(queue) = queue[1] /\ queue' \in Seq(Nat)
        /\ Len(queue') = Len(queue) - 1
        /\ \A k \in 1..Len(queue) - 1 : queue'[k] = queue[k + 1]
    BY <1>2, <1>3, HeadTailProperties, EmptySeq, LenProperties
  <2>2. Taken' = Taken + 1 /\ Head(queue) = Taken + 1 /\ Taken + 1 \in 1..line
    <3>1. Taken' = Taken + 1 /\ Taken + 1 \in 1..line
      BY <1>1, <1>2, <2>1 DEF Taken
    <3>2. 1 \in 1..Len(queue)
      BY <2>1
    <3>3. queue[1] = Taken + 1
      BY <1>1, <3>2 DEF ReplayTypes
    <3> QED
      BY <2>1, <3>1, <3>3
  <2>3. /\ pc'[u] = "ask" /\ held'[u] = Taken + 1
        /\ \A v \in Repliers : v # u => pc'[v] = pc[v] /\ held'[v] = held[v]
    BY <1>1, <1>3, <2>2 DEF ReplayTypes
  <2>4. ReplayTypes'
    <3>1. \A k \in 1..Len(queue') : queue'[k] = Taken' + k
      <4> TAKE k \in 1..Len(queue')
      <4>1. k + 1 \in 1..Len(queue) /\ k \in 1..Len(queue) - 1 /\ k \in Nat
        BY <2>1
      <4> QED
        BY <1>1, <1>2, <2>1, <2>2, <4>1 DEF ReplayTypes
    <3>2. /\ pc' \in [Repliers -> {"range", "ask", "write", "compare", "exited"}]
          /\ held' \in [Repliers -> Nat]
      BY <1>1, <1>2, <1>3, <2>2 DEF ReplayTypes
    <3>3. Len(queue') \in 0..line
      BY <1>2, <2>1
    <3> QED
      BY <1>1, <2>1, <3>1, <3>2, <3>3 DEF ReplayTypes, Queries
  <2>5. ReplayOrder'
    BY <1>1, <1>2, <2>2, <2>3 DEF ReplayOrder
  <2>6. /\ Busy(u)' /\ \A v \in Repliers : v # u => (Busy(v)' <=> Busy(v))
        /\ \A i : Judged(i)' <=> Judged(i)
        /\ Queries' = Queries /\ JudgedOnes' = JudgedOnes
        /\ \A i : Rightly(i)' <=> Rightly(i)
        /\ \A i : R!Answer(i)' = R!Answer(i)
    BY <1>1, <2>3 DEF Busy, Judged, JudgedOnes, Rightly, Queries, R!Answer, R!SuffixOf
  <2>7. ~Judged(Taken + 1) /\ \A v \in Repliers : Busy(v) => held[v] # Taken + 1
    <3>1. Taken + 1 \in Queries /\ Taken + 1 \notin 1..Taken
      BY <1>2, <2>2 DEF Queries
    <3> QED
      BY <1>1, <3>1 DEF ReplayApart
  <2>8. ReplayApart'
    <3>1. ASSUME NEW v \in Repliers, Busy(v)'
          PROVE  /\ held'[v] \in 1..Taken' /\ ~Judged(held'[v])
                 /\ pc'[v] # "ask" => R!Answer(held[v])' # Nothing
                 /\ \A w \in Repliers : Busy(w)' /\ held'[w] = held'[v] => w = v
      <4>1. CASE v = u
        BY <1>2, <2>2, <2>3, <2>6, <2>7, <4>1
      <4>2. CASE v # u
        <5>1. /\ Busy(v) /\ held[v] \in 1..Taken /\ ~Judged(held[v])
              /\ pc[v] # "ask" => R!Answer(held[v]) # Nothing
              /\ \A w \in Repliers : Busy(w) /\ held[w] = held[v] => w = v
          BY <1>1, <2>6, <3>1, <4>2 DEF ReplayApart
        <5>2. R!Answer(held[v])' = R!Answer(held[v])
          BY <1>1, <2>3, <4>2 DEF R!Answer
        <5> QED
          BY <1>2, <2>2, <2>3, <2>6, <2>7, <4>2, <5>1, <5>2
      <4> QED
        BY <4>1, <4>2
    <3>2. ASSUME NEW i \in 1..Taken' PROVE Judged(i) \/ \E v \in Repliers : Busy(v)' /\ held'[v] = i
      <4>1. CASE i = Taken + 1
        BY <2>3, <2>6, <4>1
      <4>2. CASE i # Taken + 1
        <5>1. i \in 1..Taken
          BY <1>2, <2>2, <4>2
        <5>2. Judged(i) \/ \E v \in Repliers : Busy(v) /\ held[v] = i
          BY <1>1, <5>1 DEF ReplayApart
        <5>3. \A v \in Repliers : Busy(v) => v # u
          BY <1>a
        <5> QED
          BY <2>3, <2>6, <5>2, <5>3
      <4> QED
        BY <4>1, <4>2
    <3>3. \A i \in Queries' : Judged(i)' => i \in 1..Taken' /\ Rightly(i)'
      BY <1>1, <1>2, <2>2, <2>6 DEF ReplayApart
    <3>4. count' = Cardinality(JudgedOnes')
      BY <1>1, <2>6 DEF ReplayApart
    <3>5. \A v \in Repliers : Judged(held[v])' <=> Judged(held'[v])
      BY <1>1 DEF Judged
    <3>6. \A i \in 1..Taken' : Judged(i)' \/ \E v \in Repliers : Busy(v)' /\ held'[v] = i
      BY <2>6, <3>2
    <3> QED
      BY <3>1, <3>3, <3>4, <3>5, <3>6 DEF ReplayApart
  <2>9. FilesMade'
    <3>1. /\ \A i : WasWritten(i)' <=> WasWritten(i)
          /\ \A s : (\E v \in Repliers : Writing(v, s)') <=> \E v \in Repliers : Writing(v, s)
      BY <1>1, <2>3 DEF WasWritten, Writing, Judged, R!SuffixOf
    <3> QED
      BY <1>1, <2>6, <3>1, ReplayFrames DEF FilesMade
  <2> QED
    BY <2>4, <2>5, <2>8, <2>9 DEF ReplayInv
<1>4. ASSUME queue = <<>>, closed, pc' = [pc EXCEPT ![u] = "exited"], UNCHANGED <<queue, held>>
      PROVE  ReplayInv'
  <2>1. /\ pc'[u] = "exited" /\ \A v \in Repliers : v # u => pc'[v] = pc[v]
        /\ pc' \in [Repliers -> {"range", "ask", "write", "compare", "exited"}]
    BY <1>1, <1>4 DEF ReplayTypes
  <2>2. Taken = line /\ Taken' = Taken
    BY <1>1, <1>2, <1>4 DEF Taken
  <2>3. ReplayTypes' /\ ReplayOrder'
    BY <1>1, <1>4, <2>1, <2>2 DEF ReplayTypes, ReplayOrder, Queries
  <2>4. \A v \in Repliers : Busy(v)' <=> Busy(v)
    BY <1>1, <2>1 DEF Busy
  <2>5. /\ \A v \in Repliers : Busy(v) => pc'[v] = pc[v]
    BY <1>1, <2>1 DEF Busy
  <2>6. ReplayApart'
    BY <1>1, <1>4, <2>2, <2>4, <2>5
    DEF ReplayApart, Judged, JudgedOnes, Rightly, Queries, R!Answer, R!SuffixOf
  <2>7. FilesMade'
    <3>1. /\ \A i : WasWritten(i)' <=> WasWritten(i)
          /\ \A s : (\E v \in Repliers : Writing(v, s)') <=> \E v \in Repliers : Writing(v, s)
      BY <1>1, <1>4, <2>1 DEF WasWritten, Writing, Judged, R!SuffixOf
    <3> QED
      BY <1>1, <3>1, ReplayFrames DEF FilesMade
  <2> QED
    BY <2>3, <2>6, <2>7 DEF ReplayInv
<1> QED
  BY <1>3, <1>4 DEF R!Take


(* One write over what is there: the reply is on top, and what sticks out  *)
(* behind it is as it was.                                                 *)
LEMMA OverMakes ==
  ASSUME feed \in Folders, UNCHANGED feed, NEW i \in Queries, R!Answer(i) # Nothing,
         NEW s, R!SuffixOf(i) = s, file[s] \in Seq(Nat), R!MadeOf(s) \/ file[s] = <<>>,
         file'[s] = R!Over(R!Answer(i), file[s])
  PROVE  R!MadeOf(s)' /\ file'[s] \in Seq(Nat)
<1> DEFINE new == R!Answer(i)
           old == file[s]
           m == Len(new)
           n == Len(old)
<1>1. /\ new \in Seq(Nat) /\ old \in Seq(Nat) /\ m \in Nat /\ n \in Nat
      /\ DOMAIN new = 1..m /\ DOMAIN old = 1..n
  BY QueriesAre, LenProperties
<1>2. /\ file'[s] \in Seq(Nat)
      /\ Len(file'[s]) = IF m < n THEN n ELSE m
      /\ DOMAIN file'[s] = 1..Len(file'[s])
      /\ \A p \in 1..m : file'[s][p] = new[p]
      /\ \A p \in m + 1..n : file'[s][p] = old[p]
  <2> DEFINE rest == SubSeq(old, m + 1, n)
  <2>1. /\ rest \in Seq(Nat) /\ Len(rest) = IF m < n THEN n - m ELSE 0
        /\ \A p \in 1..n - m : rest[p] = old[m + p]
    <3>1. CASE m < n
      <4>1. m + 1 \in 1..n + 1 /\ n \in m..n
        BY <1>1, <3>1
      <4> HIDE DEF m, n, old
      <4>2. rest \in Seq(Nat) /\ Len(rest) = n - m /\ \A p \in 1..n - m : rest[p] = old[m + p]
        BY <1>1, <3>1, <4>1, SubSeqProperties
      <4> QED
        BY <3>1, <4>2
    <3>2. CASE ~(m < n)
      <4> HIDE DEF m, n, old
      <4>1. rest = <<>>
        BY <1>1, <3>2, SubSeqEmpty
      <4>2. rest \in Seq(Nat) /\ Len(rest) = 0
        <5> HIDE DEF rest
        <5> QED
          BY <4>1
      <4> QED
        BY <1>1, <3>2, <4>2
    <3> QED
      BY <3>1, <3>2
  <2>2. file'[s] = new \o rest
    BY DEF R!Over
  <2> HIDE DEF new, old, rest, m, n
  <2>3. /\ new \o rest \in Seq(Nat) /\ Len(new \o rest) = m + Len(rest)
        /\ \A p \in 1..m + Len(rest) :
             (new \o rest)[p] = IF p <= m THEN new[p] ELSE rest[p - m]
    BY <1>1, <2>1, ConcatProperties DEF m
  <2>4. Len(file'[s]) = IF m < n THEN n ELSE m
    BY <1>1, <2>1, <2>2, <2>3
  <2>5. \A p \in 1..m : file'[s][p] = new[p]
    BY <1>1, <2>1, <2>2, <2>3
  <2>6. ASSUME NEW p \in m + 1..n PROVE file'[s][p] = old[p]
    <3>1. p - m \in 1..n - m /\ p \in 1..m + Len(rest) /\ ~(p <= m) /\ m + (p - m) = p
      BY <1>1, <2>1, <2>6
    <3>2. rest[p - m] = old[m + (p - m)]
      BY <2>1, <3>1
    <3> QED
      BY <2>2, <2>3, <3>1, <3>2
  <2>7. DOMAIN file'[s] = 1..Len(file'[s])
    BY <2>2, <2>3, LenProperties
  <2> QED
    BY <2>2, <2>3, <2>4, <2>5, <2>6, <2>7
<1>3. /\ R!Mine(s)' = R!Mine(s) /\ i \in R!Mine(s)
      /\ \A j : R!Answer(j)' = R!Answer(j)
  BY QueriesAre DEF R!Mine, R!SuffixOf, R!Answer
<1>4. ASSUME NEW j
      PROVE  /\ Len(R!Answer(j)') = Len(R!Answer(j))
             /\ \A p : R!BlockOf(j, s, p)' <=> /\ p \in DOMAIN R!Answer(j)
                                               /\ p \in DOMAIN file'[s]
                                               /\ file'[s][p] = R!Answer(j)[p]
  <2>1. R!Answer(j)' = R!Answer(j)
    BY <1>3
  <2>2. \A p : R!BlockOf(j, s, p)' <=> /\ p \in DOMAIN R!Answer(j)'
                                      /\ p \in DOMAIN file'[s]
                                      /\ file'[s][p] = (R!Answer(j)')[p]
    BY DEF R!BlockOf
  <2> QED
    BY <2>1, <2>2
<1> HIDE DEF new, old, m, n
<1>5. \A p \in DOMAIN new : R!BlockOf(i, s, p)'
  <2> TAKE p \in DOMAIN new
  <2>1. p \in 1..m /\ p \in 1..Len(file'[s])
    BY <1>1, <1>2
  <2> QED
    BY <1>2, <1>4, <2>1 DEF new
<1>6. \E longest \in R!Mine(s) : Len(file'[s]) = Len(R!Answer(longest))
  <2>1. CASE n > m
    <3>1. old # <<>>
      BY <1>1, <2>1 DEF n
    <3> QED
      BY <1>1, <1>2, <2>1, <3>1 DEF R!MadeOf, old, n
  <2>2. CASE ~(n > m)
    BY <1>1, <1>2, <1>3, <2>2 DEF new, m
  <2> QED
    BY <2>1, <2>2
<1>7. ASSUME NEW p \in DOMAIN file'[s] PROVE \E j \in R!Mine(s) : R!BlockOf(j, s, p)'
  <2>1. CASE p \in 1..m
    BY <1>1, <1>3, <1>5, <2>1
  <2>2. CASE p \notin 1..m
    <3>1. p \in m + 1..n /\ p \in 1..n
      BY <1>1, <1>2, <2>2
    <3>2. old # <<>>
      BY <1>1, <3>1 DEF n
    <3>3. PICK j \in R!Mine(s) : R!BlockOf(j, s, p)
      BY <1>1, <3>1, <3>2 DEF R!MadeOf, old
    <3> QED
      BY <1>2, <1>4, <3>1, <3>3 DEF R!BlockOf, old
  <2> QED
    BY <2>1, <2>2
<1> QED
  <2>1. \E last \in R!Mine(s)' : \A p \in DOMAIN R!Answer(last)' : R!BlockOf(last, s, p)'
    BY <1>3, <1>5 DEF new
  <2>2. \E longest \in R!Mine(s)' : Len(file[s])' = Len(R!Answer(longest))'
    BY <1>3, <1>4, <1>6
  <2>3. \A p \in DOMAIN (file[s])' : \E j \in R!Mine(s)' : R!BlockOf(j, s, p)'
    BY <1>3, <1>7
  <2> QED
    BY <1>2, <2>1, <2>2, <2>3 DEF R!MadeOf

(* A worker with a reply truncates the file; an error ends the program.    *)
LEMMA ReplayAsk ==
  ASSUME ReplayInv, NEW u \in Repliers, R!Ask(u), main # "returned"
  PROVE  ReplayInv'
<1> PICK t : t = R!SuffixOf(held[u])
  OBVIOUS
<1>1. /\ UNCHANGED <<feed, line, queue, closed, held, verdict, count>> /\ pc[u] = "ask"
      /\ ReplayTypes /\ ReplayOrder /\ ReplayApart /\ FilesMade
      /\ main' = "fatal" \/ UNCHANGED main
      /\ Taken' = Taken
  BY DEF R!Ask, ReplayInv, Taken
<1>2. CASE UNCHANGED <<pc, file>>
  <2>1. ReplayTypes' /\ ReplayOrder'
    BY <1>1, <1>2 DEF ReplayTypes, ReplayOrder, Queries
  <2>2. ReplayApart'
    BY <1>1, <1>2
    DEF ReplayApart, Busy, Judged, JudgedOnes, Rightly, Queries, R!Answer, R!SuffixOf
  <2>3. FilesMade'
    BY <1>1, <1>2, ReplayFrames DEF FilesMade, WasWritten, Writing, Judged
  <2> QED
    BY <2>1, <2>2, <2>3 DEF ReplayInv
<1>3. CASE /\ R!Answer(held[u]) # Nothing /\ UNCHANGED main
           /\ file' = [file EXCEPT ![t] = <<>>] /\ pc' = [pc EXCEPT ![u] = "write"]
  <2>1. held[u] \in Queries /\ Taken \in Nat /\ Taken <= line
    <3>1. /\ Len(feed) \in Nat /\ line \in 0..Len(feed) /\ Len(queue) \in 0..line
          /\ held[u] \in 1..Taken
      BY <1>1, QueriesAre DEF ReplayTypes, ReplayApart, Busy
    <3> QED
      BY <3>1 DEF Taken, Queries
  <2>2. t \in DOMAIN Expected
    BY <1>1, <2>1, QueriesAre DEF ReplayTypes
  <2>3. /\ pc'[u] = "write" /\ \A v \in Repliers : v # u => pc'[v] = pc[v]
        /\ pc' \in [Repliers -> {"range", "ask", "write", "compare", "exited"}]
        /\ DOMAIN file' = DOMAIN file
        /\ file'[t] = <<>> /\ \A s \in DOMAIN Expected : s # t => file'[s] = file[s]
    BY <1>1, <1>3, <2>2 DEF ReplayTypes
  <2>4. ReplayTypes'
    BY <1>1, <2>3 DEF ReplayTypes, Queries
  <2>5. ReplayOrder'
    BY <1>1, <1>3, <2>3 DEF ReplayOrder
  <2>6. \A v \in Repliers : Busy(v)' <=> Busy(v)
    BY <1>1, <2>3 DEF Busy
  <2>7. \A v \in Repliers : pc'[v] # "ask" => pc[v] # "ask" \/ v = u
    BY <2>3
  <2>8. ReplayApart'
    BY <1>1, <1>3, <2>6, <2>7
    DEF ReplayApart, Judged, JudgedOnes, Rightly, Queries, R!Answer, R!SuffixOf
  <2>9. /\ \A i : WasWritten(i)' <=> WasWritten(i)
        /\ \A v \in Repliers : \A s : Writing(v, s)' <=> Writing(v, s) \/ (v = u /\ s = t)
    BY <1>1, <2>3 DEF WasWritten, Writing, Judged, R!SuffixOf
  <2>10. FilesMade'
    <3> SUFFICES ASSUME NEW s \in DOMAIN Expected
                 PROVE  /\ \A i \in Queries : R!SuffixOf(i) = s /\ WasWritten(i)' =>
                             R!MadeOf(s)' \/ \E v \in Repliers : Writing(v, s)'
                        /\ (\E v \in Repliers : Writing(v, s)') =>
                             file'[s] \in Seq(Nat) /\ (R!MadeOf(s)' \/ file'[s] = <<>>)
      BY <1>1, ReplayFrames DEF FilesMade
    <3>1. CASE s = t
      <4>1. Writing(u, s)' /\ file'[s] = <<>> /\ <<>> \in Seq(Nat)
        BY <2>3, <2>9, <3>1
      <4> QED
        BY <4>1
    <3>2. CASE s # t
      BY <1>1, <2>3, <2>9, <3>2, ReplayFrames DEF FilesMade
    <3> QED
      BY <3>1, <3>2
  <2> QED
    BY <2>4, <2>5, <2>8, <2>10 DEF ReplayInv
<1> QED
  BY <1>2, <1>3 DEF R!Ask

(* A worker writes the reply over what is in the file.                     *)
LEMMA ReplayWrite ==
  ASSUME ReplayInv, NEW u \in Repliers, R!WriteReply(u), main # "returned"
  PROVE  ReplayInv'
<1> PICK i : i = held[u]
  OBVIOUS
<1> PICK t : t = R!SuffixOf(i)
  OBVIOUS
<1>1. /\ UNCHANGED <<feed, main, line, queue, closed, held, verdict, count>> /\ pc[u] = "write"
      /\ ReplayTypes /\ ReplayOrder /\ ReplayApart /\ FilesMade
      /\ file' = [file EXCEPT ![t] = R!Over(R!Answer(i), file[t])]
      /\ pc' = [pc EXCEPT ![u] = "compare"]
      /\ Taken' = Taken
  BY DEF R!WriteReply, ReplayInv, Taken
<1>2. i \in Queries /\ R!Answer(i) # Nothing
  <2>1. /\ Len(feed) \in Nat /\ line \in 0..Len(feed) /\ Len(queue) \in 0..line
        /\ held[u] \in 1..Taken /\ R!Answer(held[u]) # Nothing
    BY <1>1, QueriesAre DEF ReplayTypes, ReplayApart, Busy
  <2> QED
    BY <2>1 DEF Taken, Queries
<1>3. t \in DOMAIN Expected /\ feed \in Folders
  BY <1>1, <1>2, QueriesAre DEF ReplayTypes
<1>4. Writing(u, t) /\ file[t] \in Seq(Nat) /\ (R!MadeOf(t) \/ file[t] = <<>>)
  <2>1. Writing(u, t)
    BY <1>1 DEF Writing
  <2> QED
    BY <1>1, <1>3, <2>1 DEF FilesMade
<1>5. /\ pc'[u] = "compare" /\ \A v \in Repliers : v # u => pc'[v] = pc[v]
      /\ pc' \in [Repliers -> {"range", "ask", "write", "compare", "exited"}]
      /\ DOMAIN file' = DOMAIN file
      /\ file'[t] = R!Over(R!Answer(i), file[t])
      /\ \A s \in DOMAIN Expected : s # t => file'[s] = file[s]
  <2> QED
    BY <1>1, <1>3 DEF ReplayTypes
<1>6. R!MadeOf(t)' /\ file'[t] \in Seq(Nat)
  <2> QED
    BY <1>1, <1>2, <1>3, <1>4, <1>5, OverMakes
<1>7. ReplayTypes' /\ ReplayOrder'
  BY <1>1, <1>5 DEF ReplayTypes, ReplayOrder, Queries
<1>8. \A v \in Repliers : (Busy(v)' <=> Busy(v)) /\ (pc'[v] # "ask" <=> pc[v] # "ask")
  BY <1>1, <1>5 DEF Busy
<1>9. ReplayApart'
  BY <1>1, <1>8 DEF ReplayApart, Judged, JudgedOnes, Rightly, Queries, R!Answer, R!SuffixOf
<1>10. /\ \A j : WasWritten(j)' => WasWritten(j) \/ j = i
       /\ \A v \in Repliers : \A s : Writing(v, s)' <=> Writing(v, s) /\ v # u
       /\ \A s : Writing(u, s) => s = t
  BY <1>1, <1>5 DEF WasWritten, Writing, Judged, R!SuffixOf
<1>11. FilesMade'
  <2> SUFFICES ASSUME NEW s \in DOMAIN Expected
               PROVE  /\ \A j \in Queries : R!SuffixOf(j) = s /\ WasWritten(j)' =>
                           R!MadeOf(s)' \/ \E v \in Repliers : Writing(v, s)'
                      /\ (\E v \in Repliers : Writing(v, s)') =>
                           file'[s] \in Seq(Nat) /\ (R!MadeOf(s)' \/ file'[s] = <<>>)
    BY <1>1, ReplayFrames DEF FilesMade
  <2>2. CASE s = t
    BY <1>6, <2>2
  <2>3. CASE s # t
    BY <1>1, <1>5, <1>10, <2>3, ReplayFrames DEF FilesMade
  <2> QED
    BY <2>2, <2>3
<1> QED
  BY <1>7, <1>9, <1>11 DEF ReplayInv

(* A worker compares its reply with the one of the earlier replay.         *)
LEMMA ReplayCompare ==
  ASSUME ReplayInv, NEW u \in Repliers, R!Compare(u), main # "returned"
  PROVE  ReplayInv'
<1> PICK i : i = held[u]
  OBVIOUS
<1>1. /\ UNCHANGED <<feed, line, queue, closed, held, file>> /\ pc[u] = "compare"
      /\ ReplayTypes /\ ReplayOrder /\ ReplayApart /\ FilesMade
      /\ main' = "fatal" \/ UNCHANGED main
      /\ Taken' = Taken /\ Queries' = Queries
  BY DEF R!Compare, ReplayInv, Taken, Queries
<1>2. CASE UNCHANGED <<pc, verdict, count>>
  <2>1. ReplayTypes' /\ ReplayOrder'
    BY <1>1, <1>2 DEF ReplayTypes, ReplayOrder, Queries
  <2>2. ReplayApart'
    BY <1>1, <1>2
    DEF ReplayApart, Busy, Judged, JudgedOnes, Rightly, Queries, R!Answer, R!SuffixOf
  <2>3. FilesMade'
    BY <1>1, <1>2, ReplayFrames DEF FilesMade, WasWritten, Writing, Judged
  <2> QED
    BY <2>1, <2>2, <2>3 DEF ReplayInv
<1>3. CASE /\ UNCHANGED main /\ count' = count + 1
           /\ verdict' = [verdict EXCEPT ![i] =
                IF R!Answer(i) = Expected[R!SuffixOf(i)] THEN "matched" ELSE "differs"]
           /\ pc' = [pc EXCEPT ![u] = "range"]
  <2>1. /\ Busy(u) /\ i \in 1..Taken /\ ~Judged(i)
        /\ \A v \in Repliers : Busy(v) /\ held[v] = i => v = u
    BY <1>1 DEF ReplayApart, Busy
  <2>2. i \in Queries /\ Len(feed) \in Nat
    <3>1. Len(feed) \in Nat /\ line \in 0..Len(feed) /\ Len(queue) \in 0..line
      BY <1>1, QueriesAre DEF ReplayTypes
    <3> QED
      BY <2>1, <3>1 DEF Taken, Queries
  <2>3. /\ pc'[u] = "range" /\ \A v \in Repliers : v # u => pc'[v] = pc[v]
        /\ pc' \in [Repliers -> {"range", "ask", "write", "compare", "exited"}]
    BY <1>1, <1>3 DEF ReplayTypes
  <2>4. /\ DOMAIN verdict' = DOMAIN verdict
        /\ \A j : j # i => verdict'[j] = verdict[j]
        /\ verdict'[i] = IF R!Answer(i) = Expected[R!SuffixOf(i)] THEN "matched" ELSE "differs"
    <3>1. i \in DOMAIN verdict
      BY <1>1, <2>2 DEF ReplayTypes
    <3> QED
      BY <1>3, <3>1
  <2>5. /\ ReplayTypes' /\ ReplayOrder'
    BY <1>1, <1>3, <2>3, <2>4 DEF ReplayTypes, ReplayOrder
  <2>6. /\ \A v \in Repliers : Busy(v)' <=> Busy(v) /\ v # u
        /\ \A v \in Repliers : v # u => pc'[v] = pc[v]
    BY <2>3 DEF Busy
  <2>7. /\ \A j : Judged(j)' <=> Judged(j) \/ j = i
        /\ \A j : j # i => (Rightly(j)' <=> Rightly(j))
        /\ Rightly(i)'
    BY <1>1, <2>4 DEF Judged, Rightly, R!Answer, R!SuffixOf
  <2>8. count' = Cardinality(JudgedOnes')
    <3>1. JudgedOnes' = JudgedOnes \cup {i} /\ i \notin JudgedOnes
      BY <1>1, <2>1, <2>2, <2>7 DEF JudgedOnes
    <3>2. IsFiniteSet(JudgedOnes)
      <4>1. IsFiniteSet(Queries) /\ JudgedOnes \subseteq Queries
        BY <2>2, FirstNumbers DEF Queries, JudgedOnes
      <4> QED
        BY <4>1, FS_Subset
    <3>3. Cardinality(JudgedOnes') = Cardinality(JudgedOnes) + 1
      BY <3>1, <3>2, FS_AddElement
    <3> QED
      BY <1>1, <1>3, <3>3 DEF ReplayApart
  <2>9. ReplayApart'
    <3>1. ASSUME NEW v \in Repliers, Busy(v)'
          PROVE  /\ held'[v] \in 1..Taken /\ ~Judged(held[v])'
                 /\ pc'[v] # "ask" => R!Answer(held[v])' # Nothing
                 /\ \A w \in Repliers : Busy(w)' /\ held'[w] = held'[v] => w = v
      <4>1. Busy(v) /\ v # u /\ held[v] # i
        BY <2>1, <2>6, <3>1
      <4>2. /\ held[v] \in 1..Taken /\ ~Judged(held[v])
            /\ pc[v] # "ask" => R!Answer(held[v]) # Nothing
            /\ \A w \in Repliers : Busy(w) /\ held[w] = held[v] => w = v
        BY <1>1, <4>1 DEF ReplayApart
      <4>3. R!Answer(held[v])' = R!Answer(held[v]) /\ (Judged(held[v])' <=> verdict'[held[v]] # "none")
        BY <1>1 DEF R!Answer, Judged
      <4>4. verdict'[held[v]] = verdict[held[v]]
        BY <2>4, <4>1
      <4> QED
        BY <1>1, <2>6, <4>1, <4>2, <4>3, <4>4 DEF Judged
    <3>2. \A j \in 1..Taken : Judged(j)' \/ \E v \in Repliers : Busy(v)' /\ held'[v] = j
      <4> TAKE j \in 1..Taken
      <4>1. Judged(j) \/ \E v \in Repliers : Busy(v) /\ held[v] = j
        BY <1>1 DEF ReplayApart
      <4> QED
        BY <1>1, <2>6, <2>7, <4>1
    <3>3. \A j \in Queries : Judged(j)' => j \in 1..Taken /\ Rightly(j)'
      BY <1>1, <2>1, <2>7 DEF ReplayApart
    <3> QED
      BY <1>1, <2>8, <3>1, <3>2, <3>3 DEF ReplayApart
  <2>10. FilesMade'
    <3>1. \A j : WasWritten(j)' <=> WasWritten(j)
      <4>1. \A j : (\E v \in Repliers : pc'[v] = "compare" /\ held'[v] = j) \/ j = i
                <=> (\E v \in Repliers : pc[v] = "compare" /\ held[v] = j)
        <5>1. \A v \in Repliers : pc'[v] = "compare" <=> pc[v] = "compare" /\ v # u
          BY <2>3
        <5>2. \A v \in Repliers : pc[v] = "compare" /\ held[v] = i => v = u
          BY <2>1 DEF Busy
        <5> QED
          BY <1>1, <5>1, <5>2
      <4> QED
        BY <2>7, <4>1 DEF WasWritten
    <3>2. \A s : (\E v \in Repliers : Writing(v, s)') <=> \E v \in Repliers : Writing(v, s)
      BY <1>1, <2>3 DEF Writing, R!SuffixOf
    <3> QED
      BY <1>1, <3>1, <3>2, ReplayFrames DEF FilesMade
  <2> QED
    BY <2>5, <2>9, <2>10 DEF ReplayInv
<1> QED
  BY <1>2, <1>3 DEF R!Compare

(* Every step of main and of a worker keeps all of it.                     *)
LEMMA ReplayStep == ReplayInv /\ [R!Next]_(R!vars) => ReplayInv'
<1> SUFFICES ASSUME ReplayInv, [R!Next]_(R!vars) PROVE ReplayInv'
  OBVIOUS
<1>1. CASE R!Send \/ R!Close \/ R!Return \/ UNCHANGED R!vars
  BY <1>1, ReplayMain
<1>2. ASSUME NEW u \in Repliers, main # "returned",
             R!Take(u) \/ R!Ask(u) \/ R!WriteReply(u) \/ R!Compare(u)
      PROVE  ReplayInv'
  BY <1>2, ReplayTake, ReplayAsk, ReplayWrite, ReplayCompare
<1> QED
  BY <1>1, <1>2 DEF R!Next, R!Ended

(* A replay that ends has judged every query by its own reply; each file   *)
(* has the last reply on top and is made of replies to its queries: for    *)
(* any folder, any replies and any number of workers.                      *)
THEOREM ReplayAlwaysFaithful == Spec => []ReplayFaithful
<1> DEFINE Inv == program = "replay" => ReplayInv
<1>1. Init => Inv
  BY RunsAlone, ReplayInit
<1>2. Inv /\ [Next]_vars => Inv'
  BY RunsAlone, ReplayStep
<1>3. ReplayInv => R!ReplayFaithful
  <2> SUFFICES ASSUME ReplayInv, main = "returned" PROVE R!ReplayFaithful
    BY DEF R!ReplayFaithful
  <2>1. ReplayTypes /\ ReplayOrder /\ ReplayApart /\ FilesMade
    BY DEF ReplayInv
  <2>2. Len(feed) \in Nat /\ DOMAIN feed = Queries /\ line \in 0..Len(feed)
    BY <2>1, QueriesAre DEF ReplayTypes
  <2>3. \A u \in Repliers : pc[u] = "exited" /\ ~Busy(u) /\ \A s : ~Writing(u, s)
    BY <2>1 DEF ReplayOrder, Busy, Writing
  <2>4. Taken = Len(feed)
    BY <2>1, <2>3, ProgramsAssumption DEF ReplayOrder
  <2>5. \A i \in Queries : Judged(i) /\ Rightly(i)
    BY <2>1, <2>3, <2>4 DEF ReplayApart, Queries
  <2>6. count = Len(feed)
    <3>1. JudgedOnes = 1..Len(feed)
      BY <2>5 DEF JudgedOnes, Queries
    <3> QED
      <4>1. count = Cardinality(1..Len(feed))
        BY <2>1, <3>1 DEF ReplayApart
      <4> QED
        BY <2>2, <4>1, FirstNumbers
  <2>7. ASSUME NEW s \in DOMAIN Expected, R!Mine(s) # {} PROVE R!MadeOf(s)
    <3>1. PICK i \in Queries : R!SuffixOf(i) = s
      BY <2>2, <2>7 DEF R!Mine
    <3> QED
      BY <2>1, <2>3, <2>5, <3>1 DEF FilesMade, WasWritten
  <2> QED
    BY <2>2, <2>5, <2>6, <2>7 DEF R!ReplayFaithful, R!FileNames, Rightly
<1>4. Inv => ReplayFaithful
  BY <1>3 DEF ReplayFaithful
<1> QED
  BY <1>1, <1>2, <1>4, PTL DEF Spec

-----------------------------------------------------------------------------
(* bench.sh, phases 3 and 4.                                               *)
(* v or e was finished, or lost its end to a full disk and nobody noticed.  *)
Good(a) == file[a] = "whole" \/ a \in swallowed

(* What the run at hand may rely on, by where it is: before .properties the *)
(* parts of prepare that are behind it, before the RDF the schema, and     *)
(* before the sweep what the skips looked for.                             *)
PhaseInv ==
  /\ phase \in {"fetch", "v", "writing v", "e", "writing e", "properties"} =>
       ~A!There("properties")
  /\ phase \in {"e", "writing e", "properties"} => Good("v")
  /\ phase = "properties" => Good("e")
  /\ phase \in {"writing properties", "reference", "sssp", "writing sssp", "convert?",
                "load dataset", "schema", "writing schema", "rdf"} => A!There("properties")
  /\ phase \in {"load dataset", "schema", "writing schema", "rdf"} => ~A!There("rdf")
  /\ phase = "rdf" => file["schema"] = "whole"
  /\ phase \in {"writing rdf", "bulk?", "bulk", "writing bulk", "sweep", "measured"} =>
       A!There("rdf")
  /\ phase = "bulk" => ~A!There("bulk")
  /\ phase \in {"sweep", "measured"} => A!There("bulk")
  /\ phase = "writing v" => A!There("v")
  /\ phase = "writing e" => A!There("e")
  /\ phase = "writing sssp" => A!There("sssp")

(* What was swallowed had been begun; and the files themselves are in order.*)
FilesInv ==
  /\ \A a \in swallowed : A!There(a)
  /\ A!There("properties") => Good("v") /\ Good("e")
  /\ A!There("rdf") => file["schema"] = "whole" /\ A!There("properties")
  /\ A!There("bulk") => A!There("rdf")

PipelineInv == A!TypeOK /\ PhaseInv /\ FilesInv

-----------------------------------------------------------------------------
(* The machine the script is first started on has none of the files.       *)
LEMMA PipelineInvInit == A!Init => PipelineInv
<1> SUFFICES ASSUME A!Init PROVE PipelineInv
  OBVIOUS
<1>1. A!TypeOK
  BY DEF A!Init, A!TypeOK, A!Phases
<1>2. \A a \in A!Artifacts : file[a] = "absent"
  BY DEF A!Init
<1>3. phase = "stopped" /\ swallowed = {}
  BY DEF A!Init
<1> QED
  BY <1>1, <1>2, <1>3 DEF PipelineInv, PhaseInv, FilesInv, A!There, A!Artifacts

(* The phases of each file, one by one, and which need no input.           *)
LEMMA PhasesOf ==
  /\ A!Writing["v"] = "writing v" /\ A!After["v"] = "e"
  /\ A!Writing["e"] = "writing e" /\ A!After["e"] = "properties"
  /\ A!Writing["properties"] = "writing properties" /\ A!After["properties"] = "reference"
  /\ A!Writing["sssp"] = "writing sssp" /\ A!After["sssp"] = "convert?"
  /\ A!Writing["schema"] = "writing schema" /\ A!After["schema"] = "rdf"
  /\ A!Writing["rdf"] = "writing rdf" /\ A!After["rdf"] = "bulk?"
  /\ A!Writing["bulk"] = "writing bulk" /\ A!After["bulk"] = "sweep"
  /\ A!Inputs["v"] = {} /\ A!Inputs["e"] = {} /\ A!Inputs["schema"] = {}
  BY DEF A!Writing, A!After, A!Inputs

(* One file is begun or finished, the others stay as they are.              *)
LEMMA OneFile ==
  ASSUME A!TypeOK, NEW a \in A!Artifacts, NEW state, A!Becomes(a, state)
  PROVE  /\ file' \in [A!Artifacts -> {"absent", "cut", "whole"} \cup {state}]
         /\ file'[a] = state
         /\ \A x \in A!Artifacts : x # a => file'[x] = file[x]
  BY DEF A!TypeOK, A!Becomes

(* Every step of the script and of its programs keeps it.                  *)
LEMMA PipelineInvStep == PipelineInv /\ [A!Next]_(A!vars) => PipelineInv'
<1> SUFFICES ASSUME PipelineInv, [A!Next]_(A!vars) PROVE PipelineInv'
  OBVIOUS
<1> USE DEF PipelineInv, A!TypeOK, A!Phases, PhaseInv, FilesInv, A!There, Good, A!Artifacts,
            A!Deferred, A!GoTo, A!Die, A!Becomes
<1>1. ASSUME NEW force \in BOOLEAN, A!Start(force) PROVE PipelineInv'
  BY <1>1 DEF A!Start
<1>2. CASE A!SkipOrPrepare
  BY <1>2 DEF A!SkipOrPrepare
<1>3. CASE A!Fetch
  BY <1>3 DEF A!Fetch
<1>4. CASE A!ComputeReference
  BY <1>4 DEF A!ComputeReference
<1>5. ASSUME NEW a \in A!Artifacts, A!Create(a) PROVE PipelineInv'
  <2>1. /\ file' \in [A!Artifacts -> {"absent", "cut", "whole"}]
        /\ file'[a] = "cut" /\ \A x \in A!Artifacts : x # a => file'[x] = file[x]
    BY <1>5, OneFile DEF A!Create
  <2>2. phase = a /\ phase' = A!Writing[a] /\ UNCHANGED <<forceBulk, runs, swallowed>>
    BY <1>5 DEF A!Create
  <2>3. CASE a = "v"
    BY <2>1, <2>2, <2>3, PhasesOf, ZenonT(60)
  <2>4. CASE a = "e"
    BY <2>1, <2>2, <2>4, PhasesOf, ZenonT(60)
  <2>5. CASE a = "properties"
    BY <2>1, <2>2, <2>5, PhasesOf, ZenonT(60)
  <2>6. CASE a = "sssp"
    BY <2>1, <2>2, <2>6, PhasesOf, ZenonT(60)
  <2>7. CASE a = "schema"
    BY <2>1, <2>2, <2>7, PhasesOf, ZenonT(60)
  <2>8. CASE a = "rdf"
    BY <2>1, <2>2, <2>8, PhasesOf, ZenonT(60)
  <2>9. CASE a = "bulk"
    BY <2>1, <2>2, <2>9, PhasesOf, ZenonT(60)
  <2> QED
    BY <2>3, <2>4, <2>5, <2>6, <2>7, <2>8, <2>9 DEF A!Artifacts
<1>6. ASSUME NEW a \in A!Artifacts, A!Finish(a) PROVE PipelineInv'
  <2>1. /\ file' \in [A!Artifacts -> {"absent", "cut", "whole"}]
        /\ file'[a] \in {"cut", "whole"}
        /\ a \in {"v", "e", "schema"} => file'[a] = "whole"
        /\ \A x \in A!Artifacts : x # a => file'[x] = file[x]
    <3> DEFINE state == IF A!Whole(A!Inputs[a]) THEN "whole" ELSE "cut"
    <3>1. A!Becomes(a, state)
      BY <1>6 DEF A!Finish
    <3>2. a \in {"v", "e", "schema"} => state = "whole"
      BY PhasesOf DEF A!Whole
    <3>3. state \in {"cut", "whole"}
      OBVIOUS
    <3> HIDE DEF state
    <3> QED
      BY <3>1, <3>2, <3>3, OneFile
  <2>2. phase = A!Writing[a] /\ phase' = A!After[a] /\ UNCHANGED <<forceBulk, runs>>
    BY <1>6 DEF A!Finish
  <2>3. swallowed' = swallowed \ {a}
    BY <1>6 DEF A!Finish
  <2>4. CASE a = "v"
    BY <2>1, <2>2, <2>3, <2>4, PhasesOf, ZenonT(60)
  <2>5. CASE a = "e"
    BY <2>1, <2>2, <2>3, <2>5, PhasesOf, ZenonT(60)
  <2>6. CASE a = "properties"
    BY <2>1, <2>2, <2>3, <2>6, PhasesOf, ZenonT(60)
  <2>7. CASE a = "sssp"
    BY <2>1, <2>2, <2>3, <2>7, PhasesOf, ZenonT(60)
  <2>8. CASE a = "schema"
    BY <2>1, <2>2, <2>3, <2>8, PhasesOf, ZenonT(60)
  <2>9. CASE a = "rdf"
    BY <2>1, <2>2, <2>3, <2>9, PhasesOf, ZenonT(60)
  <2>10. CASE a = "bulk"
    BY <2>1, <2>2, <2>3, <2>10, PhasesOf, ZenonT(60)
  <2> QED
    BY <2>4, <2>5, <2>6, <2>7, <2>8, <2>9, <2>10 DEF A!Artifacts
<1>7. ASSUME NEW a \in A!Artifacts, A!FinishSwallowed(a) PROVE PipelineInv'
  <2>1. phase = A!Writing[a] /\ phase' = A!After[a] /\ UNCHANGED <<forceBulk, runs, file>>
    BY <1>7 DEF A!FinishSwallowed
  <2>2. a \in A!Deferred /\ swallowed' = swallowed \cup {a}
    BY <1>7 DEF A!FinishSwallowed
  <2>3. CASE a = "v"
    BY <2>1, <2>2, <2>3, PhasesOf
  <2>4. CASE a = "e"
    BY <2>1, <2>2, <2>4, PhasesOf
  <2>5. CASE a \in {"sssp", "rdf"}
    BY <2>1, <2>2, <2>5, PhasesOf, ZenonT(60)
  <2> QED
    BY <2>2, <2>3, <2>4, <2>5
<1>8. ASSUME NEW a \in A!Artifacts, A!WriteFails(a) PROVE PipelineInv'
  BY <1>8 DEF A!WriteFails
<1>9. CASE A!SkipOrConvert
  BY <1>9 DEF A!SkipOrConvert
<1>10. CASE A!LoadDataset
  BY <1>10 DEF A!LoadDataset
<1>11. CASE A!SkipOrBulk
  BY <1>11 DEF A!SkipOrBulk
<1>12. CASE A!Measure
  BY <1>12 DEF A!Measure
<1>13. CASE A!ReferenceFails
  BY <1>13 DEF A!ReferenceFails
<1>14. CASE A!Killed
  BY <1>14 DEF A!Killed
<1>15. CASE UNCHANGED A!vars
  BY <1>15, ZenonT(60) DEF A!vars
<1> QED
  BY <1>1, <1>2, <1>3, <1>4, <1>5, <1>6, <1>7, <1>8, <1>9, <1>10, <1>11, <1>12, <1>13,
     <1>14, <1>15 DEF A!Next, A!Over

(* A step that changes a file another run relied on would start from a phase*)
(* that the invariant excludes.                                            *)
LEMMA KeepsStep == PipelineInv /\ [A!Next]_(A!vars) => A!KeepsArtifacts
<1> SUFFICES ASSUME PipelineInv, [A!Next]_(A!vars) PROVE A!KeepsArtifacts
  OBVIOUS
<1> USE DEF PipelineInv, A!TypeOK, PhaseInv, FilesInv, A!There, A!Artifacts, A!GoTo, A!Die,
            A!Becomes, A!KeepsArtifacts, A!Kept
<1>1. CASE UNCHANGED file
  BY <1>1
<1>2. ASSUME NEW a \in A!Artifacts, A!Create(a) \/ A!Finish(a) PROVE A!KeepsArtifacts
  <2>1. \A x \in A!Artifacts : x # a => file'[x] = file[x]
    BY <1>2, OneFile DEF A!Create, A!Finish
  <2>2. phase \in {a, A!Writing[a]}
    BY <1>2 DEF A!Create, A!Finish
  <2>3. CASE a = "v"
    BY <2>1, <2>2, <2>3, PhasesOf
  <2>4. CASE a = "e"
    BY <2>1, <2>2, <2>4, PhasesOf
  <2>5. CASE a = "properties"
    BY <2>1, <2>2, <2>5, PhasesOf
  <2>6. CASE a = "sssp"
    BY <2>1, <2>2, <2>6, PhasesOf
  <2>7. CASE a = "schema"
    BY <2>1, <2>2, <2>7, PhasesOf
  <2>8. CASE a = "rdf"
    BY <2>1, <2>2, <2>8, PhasesOf
  <2>9. CASE a = "bulk"
    BY <2>1, <2>2, <2>9, PhasesOf
  <2> QED
    BY <2>3, <2>4, <2>5, <2>6, <2>7, <2>8, <2>9 DEF A!Artifacts
<1>3. CASE A!SkipOrBulk
  BY <1>3 DEF A!SkipOrBulk
<1> QED
  BY <1>1, <1>2, <1>3
  DEF A!Next, A!Start, A!SkipOrPrepare, A!Fetch, A!ComputeReference, A!FinishSwallowed, A!WriteFails,
      A!SkipOrConvert, A!LoadDataset, A!Measure, A!ReferenceFails, A!Killed, A!Over, A!vars

(* Wherever runs are killed or fail, .properties is there only if .v and .e *)
(* were finished, the RDF only if the schema was, p/ only if the RDF was   *)
(* begun, and the sweep finds everything but perhaps the reference.        *)
THEOREM MarkersAlwaysHold == Spec => []MarkersHold
<1> DEFINE Inv == program = "artifacts" => PipelineInv
<1>1. Init => Inv
  BY RunsAlone, PipelineInvInit
<1>2. Inv /\ [Next]_vars => Inv'
  BY RunsAlone, PipelineInvStep
<1>3. PipelineInv => A!MarkersHold
  BY DEF PipelineInv, PhaseInv, FilesInv, A!MarkersHold, A!There, Good, A!Artifacts
<1>4. Inv => MarkersHold
  BY <1>3 DEF MarkersHold
<1> QED
  BY <1>1, <1>2, <1>4, PTL DEF Spec

(* No run rewrites what another relied on when it skipped a phase.         *)
THEOREM ArtifactsKept == Spec => NeverRewritten
<1> DEFINE Inv == program = "artifacts" => PipelineInv
<1>1. Init => Inv
  BY RunsAlone, PipelineInvInit
<1>2. Inv /\ [Next]_vars => Inv'
  BY RunsAlone, PipelineInvStep
<1>3. Inv /\ [Next]_vars => [program = "artifacts" => A!KeepsArtifacts]_vars
  BY RunsAlone, KeepsStep
<1> QED
  BY <1>1, <1>2, <1>3, PTL DEF Spec, NeverRewritten
=============================================================================
