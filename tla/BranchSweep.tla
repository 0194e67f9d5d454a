----------------------------- MODULE BranchSweep ----------------------------
(***************************************************************************)
(* scripts/bench.sh, phase 5, with scripts/lib/alpha.sh: for every branch, *)
(* build and install dgraph, verify the binary, stop whatever alpha runs,  *)
(* start a fresh one, wait until it is healthy and serves data, bench it,  *)
(* stop it.  Alphas are processes of their own: they crash, hang, take     *)
(* their time to terminate, and the one that listens answers every request.*)
(* A signal ends the script between any two of its commands, and it is run *)
(* again on what it left behind: alphas, the pid file, a bench at work.    *)
(***************************************************************************)
EXTENDS Integers, Sequences, FiniteSets

CONSTANTS
  Branches,     (* the branches to measure, in order                       *)
  Stray,        (* the binary of an alpha nobody knows the pid of          *)
  NoPid,        (* no pid file, or one without a pid                       *)
  MaxRuns,      (* bound: how often the script is run                      *)
  Prompts       (* the values of prompt to consider                        *)

ASSUME SweepAssumption ==
  /\ Branches \in Seq(STRING) /\ Branches # <<>>
  /\ NoPid \notin Nat
  /\ MaxRuns \in Nat \ {0} /\ Prompts \subseteq BOOLEAN

VARIABLES
  prompt,       (* TRUE: an alpha is gone 2 seconds after its SIGTERM      *)
  pc,           (* where the script is, see Stops and TypeOK               *)
  b,            (* the branch at hand                                      *)
  bin,          (* the branch the installed binary was built from          *)
  running,      (* RUNNING_ALPHA                                           *)
  pidfile,      (* /tmp/dgraph-alpha.pid                                   *)
  procs,        (* live alphas: pid -> its binary, the run that launched   *)
                (* it (0: none), and how far start_alpha got with it       *)
  listener,     (* the alpha that holds the ports, or NoPid                *)
  stuck,        (* the listener does not answer any more                   *)
  launched,     (* alphas launched so far; pids are 1..launched            *)
  run,          (* the script runs so far                                  *)
  left,         (* labels of the benches that outlived their script        *)
  results       (* history: label and binary that answered, of each bench, *)
                (* and whether its script was there when it ended          *)

vars == <<prompt, pc, b, bin, running, pidfile, procs, listener, stuck,
          launched, run, left, results>>

alphas == <<procs, listener, stuck>>
books  == <<prompt, launched, run>>
-----------------------------------------------------------------------------
Binaries == {Branches[i] : i \in DOMAIN Branches} \cup {Stray}
Live == DOMAIN procs
Without(S) == [p \in Live \ S |-> procs[p]]

(* The processes in S exit; the ports are free if one of them held them.   *)
Exit(S) ==
  /\ procs' = Without(S)
  /\ listener' = IF listener \in S THEN NoPid ELSE listener
  /\ stuck' = (stuck /\ listener \notin S)

(* How far start_alpha got: nothing but the process, its pid is in the     *)
(* file, RUNNING_ALPHA is set.                                             *)
Known == {"launched", "recorded", "marked"}
Marked(p, k) == [procs EXCEPT ![p] = [@ EXCEPT !.known = k]]

(* Each call of stop_alpha, and where the script goes on after it.         *)
Return == [stopFirst |-> "build", stopBranch |-> "reset", stopSkip |-> "next",
           stopAfter |-> "next", stopTrap |-> "exited"]
Stops == DOMAIN Return
ScanOf == [stopFirst |-> "scanFirst", stopBranch |-> "scanBranch", stopSkip |-> "scanSkip",
           stopAfter |-> "scanAfter", stopTrap |-> "scanTrap"]
Scans == {ScanOf[s] : s \in Stops}
Over  == {"exited", "killed"}                       \* the script is gone
Last  == {"trap", "stopTrap", "scanTrap"} \cup Over \* it is in its EXIT trap

Init ==
  /\ prompt \in Prompts
  /\ pc = "stopFirst" /\ b = 1
  /\ bin \in Binaries
  /\ running = FALSE
  /\ pidfile = NoPid
  /\ \/ procs = <<>> /\ listener = NoPid /\ launched = 0
     \/ /\ procs = <<[bin |-> Stray, run |-> 0, known |-> "launched"]>>
        /\ listener = 1 /\ launched = 1
  /\ stuck = FALSE
  /\ run = 1
  /\ left = {} /\ results = {}

-----------------------------------------------------------------------------
(* Mutant: the pid in the file is left to itself when it does not exit in   *)
(* time.                                                                   *)
StopManagedNoKill(s) ==
  /\ pc = s
  /\ pidfile' = NoPid
  /\ \/ pidfile \in Live /\ Exit({pidfile})
     \/ UNCHANGED alphas
  /\ pc' = ScanOf[s]
  /\ UNCHANGED <<books, b, bin, running, left, results>>

(* stop_alpha, first half: SIGTERM to the pid in the file and up to 30     *)
(* seconds for it to exit, in which case the function returns; SIGKILL     *)
(* after that.  A file without a live pid is removed.  A script that ends  *)
(* half-way leaves what it found, or the file of a pid that is gone.       *)
StopManaged(s) ==
  /\ pc = s
  /\ pidfile' = NoPid
  /\ IF pidfile \in Live
     THEN /\ Exit({pidfile})
          /\ \/ pc' = Return[s] /\ running' = FALSE
             \/ pc' = ScanOf[s] /\ UNCHANGED running
     ELSE /\ pc' = ScanOf[s]
          /\ UNCHANGED <<running, alphas>>
  /\ UNCHANGED <<books, b, bin, left, results>>

(* stop_alpha, second half: SIGTERM to every other alpha, then two seconds *)
(* during which any of them exits.                                         *)
StopStrays(s) ==
  /\ pc = ScanOf[s]
  /\ \E S \in SUBSET Live : (prompt => S = Live) /\ Exit(S)
  /\ pc' = Return[s] /\ running' = FALSE
  /\ UNCHANGED <<books, b, bin, pidfile, left, results>>

(* The alphas the first pgrep saw are gone at the second: its pipeline     *)
(* fails, and set -e ends the script, but for the call in the trap.        *)
StrayVanishes(s) ==
  /\ pc = ScanOf[s] /\ s # "stopTrap"
  /\ Live # {} /\ Exit(Live)
  /\ pc' = "trap"
  /\ UNCHANGED <<books, b, bin, running, pidfile, left, results>>

StopAlpha == \E s \in Stops : StopManaged(s) \/ StopStrays(s) \/ StrayVanishes(s)
-----------------------------------------------------------------------------
(* git checkout and make install.  A failed checkout is not noticed: what  *)
(* is installed then is the branch that was checked out before.            *)
Build ==
  /\ pc = "build"
  /\ \/ bin' = Branches[b] /\ pc' = "verify"
     \/ bin' = bin /\ pc' = "verify"
     \/ bin' = bin /\ pc' = "next"
  /\ UNCHANGED <<books, b, running, pidfile, alphas, left, results>>

(* The script goes on, with nothing but pc changed. *)
Goto(from, to) ==
  /\ pc = from /\ pc' = to
  /\ UNCHANGED <<books, b, bin, running, pidfile, alphas, left, results>>

(* Mutant: the binary is not verified. *)
VerifyNothing == Goto("verify", "stopBranch")

(* The commit of the installed binary must be the branch's, else die.      *)
Verify == Goto("verify", IF bin = Branches[b] THEN "stopBranch" ELSE "trap")

(* reset_data: the guards or the copy may fail, which ends the script.     *)
ResetData == Goto("reset", "start") \/ Goto("reset", "trap")

(* start_alpha, first the process, ...                                     *)
Launch ==
  /\ pc = "start" /\ pc' = "record"
  /\ launched' = launched + 1
  /\ procs' = [p \in Live \cup {launched'} |->
                 IF p = launched' THEN [bin |-> bin, run |-> run, known |-> "launched"]
                 ELSE procs[p]]
  /\ UNCHANGED <<prompt, run, b, bin, running, pidfile, listener, stuck, left, results>>

(* The pid of the alpha last launched is written to the file. *)
Recorded ==
  /\ pidfile' = launched
  /\ procs' = IF launched \in Live THEN Marked(launched, "recorded") ELSE procs
  /\ UNCHANGED <<listener, stuck>>

(* ... then its pid file, whose write can fail, ...                        *)
RecordPid ==
  /\ pc = "record"
  /\ \/ Recorded /\ pc' = "mark"
     \/ UNCHANGED <<pidfile, alphas>> /\ pc' = "trap"
  /\ UNCHANGED <<books, b, bin, running, left, results>>

(* ... and last the flag that the EXIT trap looks at.                      *)
MarkRunning ==
  /\ pc = "mark" /\ pc' = "wait"
  /\ running' = TRUE
  /\ procs' = IF launched \in Live THEN Marked(launched, "marked") ELSE procs
  /\ UNCHANGED <<books, b, bin, pidfile, listener, stuck, left, results>>

(* wait_alpha asks whoever listens, until its deadline.                    *)
Healthy == listener # NoPid /\ ~stuck /\ Goto("wait", "poll")

(* Mutant: wait_alpha has no deadline. *)
GivesUpNever == pc = "wait" /\ UNCHANGED vars

GivesUp == Goto("wait", "stopSkip")

(* The data poll: data is served, or 90 answers come without any; an answer*)
(* that does not come in 5 seconds, or is not JSON, fails the pipeline and *)
(* with it, by set -e, the script.                                         *)
Poll ==
  \/ listener # NoPid /\ ~stuck /\ (Goto("poll", "bench") \/ Goto("poll", "stopSkip"))
  \/ Goto("poll", "trap")

(* What a bench with this label leaves when it ends: its answers come from *)
(* the alpha that listens; without one that answers it fails.              *)
ResultOf(label, waited) ==
  IF listener = NoPid \/ stuck THEN {}
  ELSE {[label |-> label, bin |-> procs[listener].bin, waited |-> waited]}

RunBench ==
  /\ pc = "bench" /\ pc' = "stopAfter"
  /\ results' = results \cup ResultOf(Branches[b], TRUE)
  /\ UNCHANGED <<books, b, bin, running, pidfile, alphas, left>>

NextBranch ==
  /\ pc = "next"
  /\ IF b < Len(Branches) THEN b' = b + 1 /\ pc' = "build"
                          ELSE b' = b /\ pc' = "trap"
  /\ UNCHANGED <<books, bin, running, pidfile, alphas, left, results>>

(* alpha_cleanup_on_exit, on every exit but SIGKILL.                       *)
ExitTrap == Goto("trap", IF running THEN "stopTrap" ELSE "exited")

-----------------------------------------------------------------------------
(* The alphas.                                                             *)
Listen ==
  /\ listener = NoPid
  /\ listener' \in Live
  /\ UNCHANGED <<books, pc, b, bin, running, pidfile, procs, stuck, left, results>>

(* The listener answers nobody any more, and keeps the ports.              *)
Hangs ==
  /\ listener # NoPid /\ ~stuck /\ stuck' = TRUE
  /\ UNCHANGED <<books, pc, b, bin, running, pidfile, procs, listener, left, results>>

(* A crash, an OOM kill, the end of a graceful shutdown, or an alpha that  *)
(* finds the ports taken.                                                  *)
AlphaExits ==
  /\ \E p \in Live : Exit({p})
  /\ UNCHANGED <<books, pc, b, bin, running, pidfile, left, results>>

(* A signal ends the script.  The subshell of start_alpha may still write  *)
(* the pid file, and a bench goes on alone unless it got the signal too.   *)
CutTo(to) ==
  /\ pc' = to
  /\ \/ pc = "record" /\ Recorded
     \/ UNCHANGED <<pidfile, alphas>>
  /\ \/ pc = "bench" /\ left' = left \cup {Branches[b]}
     \/ UNCHANGED left
  /\ UNCHANGED <<books, b, bin, running, results>>

(* SIGTERM or SIGINT: the trap runs.                                       *)
Interrupted == pc \notin Last /\ CutTo("trap")

(* SIGKILL, or a second signal in the trap.                                *)
ScriptKilled == pc \notin Over /\ CutTo("killed")

(* A bench that was left behind ends.                                      *)
LeftBenchEnds ==
  \E l \in left :
    /\ left' = left \ {l}
    /\ results' = results \cup ResultOf(l, FALSE)
    /\ UNCHANGED <<books, pc, b, bin, running, pidfile, alphas>>

(* The script is run again.                                                *)
RunAgain ==
  /\ pc \in Over /\ run < MaxRuns
  /\ run' = run + 1
  /\ pc' = "stopFirst" /\ b' = 1 /\ running' = FALSE
  /\ UNCHANGED <<prompt, launched, bin, pidfile, alphas, left, results>>

Finished == pc \in Over /\ UNCHANGED vars

Script == \/ StopAlpha \/ Build \/ Verify \/ ResetData \/ Launch \/ RecordPid
          \/ MarkRunning \/ Healthy \/ GivesUp \/ Poll \/ RunBench \/ NextBranch
          \/ ExitTrap
Environment == \/ Listen \/ Hangs \/ AlphaExits \/ Interrupted \/ ScriptKilled
               \/ LeftBenchEnds \/ RunAgain

Next == Script \/ Environment \/ Finished

(* A bench whose alpha hangs: it fetches the uid map on                    *)
(* context.Background(), and the script waits for a curl without a limit.  *)
Blocked == pc = "bench" /\ stuck

(* Every other command works on local files or has a deadline of its own.  *)
Spec == Init /\ [][Next]_vars /\ WF_vars(~Blocked /\ Script)
-----------------------------------------------------------------------------
TypeOK ==
  /\ prompt \in Prompts
  /\ pc \in Stops \cup Scans \cup Last
       \cup {"build", "verify", "reset", "start", "record", "mark", "wait", "poll", "bench",
             "next"}
  /\ b \in DOMAIN Branches
  /\ bin \in Binaries
  /\ running \in BOOLEAN /\ stuck \in BOOLEAN
  /\ pidfile \in 1..launched \cup {NoPid}
  /\ Live \subseteq 1..launched
  /\ \A p \in Live : procs[p] \in [bin : Binaries, run : 0..run, known : Known]
  /\ listener \in Live \cup {NoPid}
  /\ stuck => listener # NoPid
  /\ launched \in Nat
  /\ run \in 1..MaxRuns
  /\ left \subseteq Binaries
  /\ results \subseteq [label : Binaries, bin : Binaries, waited : BOOLEAN]

(* A result labelled with a branch was measured on that branch's binary,   *)
(* however often the script is cut short and run again, provided alphas    *)
(* obey SIGTERM promptly.  Said of the benches whose script was there until*)
(* they ended: one that outlives it may be answered by another branch.     *)
MeasuresItsBranch == prompt => \A r \in results : r.waited => r.label = r.bin

(* The alphas of all runs of the script that are alive, and this run's.    *)
Ours == {p \in Live : procs[p].run # 0}
Mine == {p \in Live : procs[p].run = run}

(* An alpha that outlives a script that ended through its EXIT trap, even  *)
(* one that ignores SIGTERM, is one whose start was cut short, between the *)
(* launch and RUNNING_ALPHA=1.                                             *)
OnlyCutStartLeaks == pc = "exited" => \A p \in Mine : procs[p].known # "marked"

(* Of all the alphas the script ever started, in this run and in those that*)
(* were cut short before it, at most one is alive: two at a time take the  *)
(* machine's memory.  An alpha whose pid nobody recorded is beyond reach if*)
(* it ignores SIGTERM, and counts only if alphas obey.                     *)
OneAtATime ==
  /\ Cardinality({p \in Ours : procs[p].known # "launched"}) <= 1
  /\ prompt => Cardinality(Ours) <= 1

(* The script ends, whatever the alphas do, unless it waits for good for a *)
(* bench whose alpha hangs.                                                *)
SweepEnds == <>[](pc \in Over \/ Blocked)

(* The header of alpha.sh: stop_alpha stops any running alpha, managed and *)
(* stray, so none is alive when the data directory is replaced; and        *)
(* alpha_cleanup_on_exit stops alpha if the script started it.             *)
StopAlphaStopsAll == pc = "reset" => Live = {}
CleanupStopsAlpha == pc = "exited" => Mine = {}

(* At least one of these two promises is kept, whatever happens.           *)
HeaderHolds == []StopAlphaStopsAll \/ []CleanupStopsAlpha
=============================================================================
