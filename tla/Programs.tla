------------------------------ MODULE Programs ------------------------------
(***************************************************************************)
(* The programs that run alone, side by side: program says which one a     *)
(* behaviour is of, and the variables of the others stay Idle.             *)
(***************************************************************************)
EXTENDS Naturals, Sequences, FiniteSets

CONSTANTS
  Users,                                                (* all but bench.sh  *)
  Nothing,                                              (* two or more       *)
  QueueCap,                                             (* feeds and replay  *)
  Pairs, HeapSizes,                                     (* perf              *)
  Lines, NumRdf, MaxRetries,                            (* mutations         *)
  Rounds, Latencies, MaxQueries, LatCap,                (* latency           *)
  Feeds, WriterSize, Open, Comma, End, LineFeed,        (* feeds             *)
  Folders, Expected, Repliers,                          (* replay            *)
  MaxRuns,                                              (* artifacts         *)
  Idle                                                  (* none of them      *)

ASSUME ProgramsAssumption ==
  /\ IsFiniteSet(Users)
  /\ Pairs \in Nat /\ HeapSizes \subseteq Nat
  /\ Lines \in Nat /\ NumRdf \in Nat
  /\ Latencies \subseteq Nat /\ LatCap \in Nat
  /\ Feeds \subseteq Seq({"tweet", "other", "unread"}) /\ WriterSize \in Nat \ {0}
  /\ Folders \subseteq Seq([parts : Nat, suffix : DOMAIN Expected,
                            reply : Seq(Nat) \cup {Nothing}])
  /\ Repliers # {}

VARIABLES
  program,
  main, pc, queue, closed,                              (* all but artifacts *)
  line, held, report, count, file, feed,                (* two or more       *)
  sent, recorder, sampler, measured, stopped, heapPeak, stored, (* perf      *)
  buf, num, reply, code, failed, applied, masked,               (* mutations *)
  round, total, dat, countC, totalP, mover, allLat,             (* latency   *)
  tool, noErr, writer, broken, taken, skipped,                  (* feeds     *)
  verdict,                                                      (* replay    *)
  phase, forceBulk, runs, swallowed                             (* artifacts *)

vars == <<program, main, pc, queue, closed, line, held, report, count, file,
          feed, sent, recorder, sampler, measured, stopped, heapPeak, stored, buf, num,
          reply, code, failed, applied, masked, round, total, dat, countC,
          totalP, mover, allLat, tool, noErr, writer, broken, taken, skipped,
          verdict, phase, forceBulk, runs, swallowed>>

Suite == {"perf", "mutations", "latency", "feeds", "replay", "artifacts"}

P == INSTANCE PerfPool           \* cmd/bench in perf mode
M == INSTANCE MutationLoader     \* scripts/mutations
T == INSTANCE LatencyFunnel      \* throughputtest
F == INSTANCE FeedFiles          \* twitterdata
R == INSTANCE Replay WITH Users <- Repliers \* regression/replay
A == INSTANCE ArtifactPipeline   \* bench.sh, phases 3 and 4
-----------------------------------------------------------------------------
Starts(S, v) == IF program \in S THEN TRUE ELSE v = Idle
Keeps(S, v) == IF program \in S THEN TRUE ELSE UNCHANGED v
All == Suite \ {"artifacts"}

(* What program does not use.                                              *)
OthersIdle ==
  /\ Starts(All, main) /\ Starts(All, pc) /\ Starts(All, queue) /\ Starts(All, closed)
  /\ Starts({"mutations", "feeds", "replay"}, line)
  /\ Starts({"mutations", "feeds", "replay"}, held)
  /\ Starts({"perf", "latency"}, report) /\ Starts({"latency", "replay"}, count)
  /\ Starts({"feeds", "replay", "artifacts"}, file) /\ Starts({"feeds", "replay"}, feed)
  /\ Starts({"perf"}, sent) /\ Starts({"perf"}, recorder) /\ Starts({"perf"}, sampler)
  /\ Starts({"perf"}, measured)
  /\ Starts({"perf"}, stopped) /\ Starts({"perf"}, heapPeak) /\ Starts({"perf"}, stored)
  /\ Starts({"mutations"}, buf) /\ Starts({"mutations"}, num) /\ Starts({"mutations"}, reply)
  /\ Starts({"mutations"}, code) /\ Starts({"mutations"}, failed)
  /\ Starts({"mutations"}, applied) /\ Starts({"mutations"}, masked)
  /\ Starts({"latency"}, round) /\ Starts({"latency"}, total) /\ Starts({"latency"}, dat)
  /\ Starts({"latency"}, countC) /\ Starts({"latency"}, totalP)
  /\ Starts({"latency"}, mover) /\ Starts({"latency"}, allLat)
  /\ Starts({"feeds"}, tool) /\ Starts({"feeds"}, noErr)
  /\ Starts({"feeds"}, writer) /\ Starts({"feeds"}, broken)
  /\ Starts({"feeds"}, taken) /\ Starts({"feeds"}, skipped)
  /\ Starts({"replay"}, verdict)
  /\ Starts({"artifacts"}, phase) /\ Starts({"artifacts"}, forceBulk)
  /\ Starts({"artifacts"}, runs) /\ Starts({"artifacts"}, swallowed)

Init ==
  /\ \/ program = "perf" /\ P!Init
     \/ program = "mutations" /\ M!Init
     \/ program = "latency" /\ T!Init
     \/ program = "feeds" /\ F!Init
     \/ program = "replay" /\ R!Init
     \/ program = "artifacts" /\ A!Init
  /\ OthersIdle

Next ==
  /\ UNCHANGED program
  /\ \/ program = "perf" /\ P!Next
     \/ program = "mutations" /\ M!Next
     \/ program = "latency" /\ T!Next
     \/ program = "feeds" /\ F!Next
     \/ program = "replay" /\ R!Next
     \/ program = "artifacts" /\ A!Next
  /\ Keeps(All, <<main, pc, queue, closed>>)
  /\ Keeps({"mutations", "feeds", "replay"}, <<line, held>>)
  /\ Keeps({"perf", "latency"}, report) /\ Keeps({"latency", "replay"}, count)
  /\ Keeps({"feeds", "replay", "artifacts"}, file) /\ Keeps({"feeds", "replay"}, feed)
  /\ Keeps({"perf"}, <<sent, recorder, sampler, measured, stopped, heapPeak, stored>>)
  /\ Keeps({"mutations"}, <<buf, num, reply, code, failed, applied, masked>>)
  /\ Keeps({"latency"}, <<round, total, dat, countC, totalP, mover, allLat>>)
  /\ Keeps({"feeds"}, <<tool, noErr, writer, broken, taken, skipped>>)
  /\ Keeps({"replay"}, verdict)
  /\ Keeps({"artifacts"}, <<phase, forceBulk, runs, swallowed>>)

Spec == Init /\ [][Next]_vars
-----------------------------------------------------------------------------
(* Each property is the one of the program's own module, whose comment     *)
(* states it, in the behaviours of that program.                           *)

(* Perf mode: every pair in the report once, and the heap peak.            *)
PerfReported == program = "perf" => P!PerfReported

(* The mutations loader: every line sent, and what may be missing or twice.*)
LoadAccounted == program = "mutations" => M!LoadAccounted

(* throughputtest: every query in the report, and what the percentiles miss.*)
FunnelConserved == program = "latency" => T!FunnelConserved

(* twitterdata: the files of stream and postprocess.                       *)
FilesComplete == program = "feeds" => F!FilesComplete

(* regression/replay: every query judged, and the files of the replies.    *)
ReplayFaithful == program = "replay" => R!ReplayFaithful


(* bench.sh, phases 3 and 4: the order of the files on disk.               *)
MarkersHold == program = "artifacts" => A!MarkersHold

(* bench.sh, phases 3 and 4: what was skipped stays as it is.              *)
NeverRewritten ==
  [][program = "artifacts" => A!KeepsArtifacts]_vars
=============================================================================
