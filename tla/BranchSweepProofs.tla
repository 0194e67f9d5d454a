------------------------- MODULE BranchSweepProofs --------------------------
(***************************************************************************)
(* Proofs about BranchSweep, for any list of branches and any number of    *)
(* runs of the script, each cut short wherever a signal finds it.          *)
(***************************************************************************)
EXTENDS BranchSweep, FiniteSetTheorems, TLAPS

(* Pids are numbered, only a live alpha listens, and a run launches its own.*)
PidsOK ==
  /\ launched \in Nat /\ run \in Nat \ {0}
  /\ b \in DOMAIN Branches /\ bin \in Binaries
  /\ Live \subseteq 1..launched
  /\ \A p \in Live : procs[p] \in [bin : Binaries, run : 0..run, known : Known]
  /\ listener \in Live \cup {NoPid}

(* The alphas of the script whose pid was written down.                    *)
OnFile == {p \in Ours : procs[p].known # "launched"}

(* Where such an alpha may be alive.                                       *)
Up == {"mark", "wait", "poll", "bench", "stopFirst", "stopSkip", "stopAfter", "stopTrap"}
        \cup {"trap"} \cup Over

(* The pid file knows the only one, and every way to a new start leads     *)
(* through a stop_alpha.                                                   *)
FileOK ==
  /\ OnFile \subseteq {pidfile}
  /\ pc \notin Up => OnFile = {}
  /\ pc = "mark" => pidfile = launched

(* The EXIT trap is told of every alpha of this run whose start got through.*)
FlagOK ==
  /\ \A p \in Mine : procs[p].known = "marked" => running
  /\ OnlyCutStartLeaks

(* If alphas are prompt no two are ever alive, and but where a run begins, *)
(* launches or is over, the one there is has its pid in the file.          *)
OnlyManaged ==
  /\ \A p, q \in Live : p = q
  /\ pc \notin {"stopFirst", "scanFirst", "record"} \cup Last => Live \subseteq {pidfile}
  /\ pc \in {"reset", "start"} => Live = {}
  /\ pc = "record" => Live \subseteq {launched}

(* What is launched was verified, and what was measured was launched.      *)
Verified ==
  /\ pc \in {"stopBranch", "scanBranch", "reset", "start", "record", "mark", "wait", "poll",
             "bench"} => bin = Branches[b]
  /\ pc \in {"record", "mark", "wait", "poll", "bench"} =>
       \A p \in Live : procs[p].bin = Branches[b]
  /\ \A r \in results : r.waited => r.label = r.bin

SweepInv == PidsOK /\ FileOK /\ FlagOK /\ (prompt => OnlyManaged /\ Verified)

-----------------------------------------------------------------------------
(* The stops and scans, one by one, and where each returns to.             *)
LEMMA StopsOf ==
  /\ Stops = {"stopFirst", "stopBranch", "stopSkip", "stopAfter", "stopTrap"}
  /\ Return["stopFirst"] = "build" /\ ScanOf["stopFirst"] = "scanFirst"
  /\ Return["stopBranch"] = "reset" /\ ScanOf["stopBranch"] = "scanBranch"
  /\ Return["stopSkip"] = "next" /\ ScanOf["stopSkip"] = "scanSkip"
  /\ Return["stopAfter"] = "next" /\ ScanOf["stopAfter"] = "scanAfter"
  /\ Return["stopTrap"] = "exited" /\ ScanOf["stopTrap"] = "scanTrap"
  BY DEF Stops, Return, ScanOf

(* When alphas exit, fewer are alive, the others are what they were, and   *)
(* nobody listens who is gone.                                             *)
LEMMA ExitFacts ==
  ASSUME PidsOK, NEW S, Exit(S)
  PROVE  /\ Live' = Live \ S
         /\ \A p \in Live' : procs'[p] = procs[p]
         /\ listener' \in Live' \cup {NoPid}
  BY DEF PidsOK, Exit, Without, Live

(* A stray alpha may be alive when the script is first started.            *)
LEMMA SweepInvInit == Init => SweepInv
<1> SUFFICES ASSUME Init PROVE SweepInv
  OBVIOUS
<1>1. /\ Live \subseteq {1} /\ Live \subseteq 1..launched
      /\ launched \in Nat /\ listener \in Live \cup {NoPid}
      /\ \A p \in Live : procs[p] = [bin |-> Stray, run |-> 0, known |-> "launched"]
  <2>1. CASE procs = <<>> /\ listener = NoPid /\ launched = 0
    BY <2>1 DEF Live
  <2>2. CASE /\ procs = <<[bin |-> Stray, run |-> 0, known |-> "launched"]>>
             /\ listener = 1 /\ launched = 1
    BY <2>2 DEF Live
  <2> QED
    BY <2>1, <2>2 DEF Init
<1>2. Ours = {} /\ Mine = {}
  <2>1. \A p \in Live : procs[p].run = 0
    BY <1>1
  <2>2. run = 1
    BY DEF Init
  <2> QED
    BY <2>1, <2>2 DEF Ours, Mine
<1>3. PidsOK
  BY <1>1, SweepAssumption DEF Init, PidsOK, Binaries, Known
<1>4. FileOK /\ FlagOK
  BY <1>2 DEF Init, FileOK, OnFile, FlagOK, OnlyCutStartLeaks, Up, Over
<1>5. OnlyManaged /\ Verified
  BY <1>1 DEF Init, OnlyManaged, Verified, Last, Over
<1> QED
  BY <1>3, <1>4, <1>5 DEF SweepInv

(* Fewer alphas, each what it was: nothing the script relies on is lost.   *)
LEMMA FewerAlphas ==
  ASSUME SweepInv, UNCHANGED <<run, launched>>,
         Live' \subseteq Live, \A p \in Live' : procs'[p] = procs[p]
  PROVE  /\ Ours' \subseteq Ours /\ Mine' \subseteq Mine /\ OnFile' \subseteq OnFile
         /\ Live' \subseteq 1..launched'
         /\ \A p \in Live' : procs'[p] \in [bin : Binaries, run : 0..run, known : Known]'
<1>1. Ours' \subseteq Ours /\ Mine' \subseteq Mine
  BY DEF Ours, Mine
<1>2. OnFile' \subseteq OnFile
  BY <1>1 DEF OnFile, Ours
<1>3. \A p \in Live' : procs'[p] \in [bin : Binaries, run : 0..run, known : Known]'
  BY DEF SweepInv, PidsOK, Binaries, Known
<1> QED
  BY <1>1, <1>2, <1>3 DEF SweepInv, PidsOK

(* Alphas that exit by themselves.                                         *)
LEMMA AlphaExitsStep == ASSUME SweepInv, AlphaExits PROVE SweepInv'
<1>1. PICK p \in Live : Exit({p})
  BY DEF AlphaExits
<1>2. UNCHANGED <<prompt, launched, run, pc, b, bin, running, pidfile, results>>
  BY DEF AlphaExits, books
<1>3. /\ Live' \subseteq Live /\ \A q \in Live' : procs'[q] = procs[q]
      /\ listener' \in Live' \cup {NoPid}
  BY <1>1, ExitFacts DEF SweepInv
<1>4. /\ Mine' \subseteq Mine /\ OnFile' \subseteq OnFile
      /\ Live' \subseteq 1..launched'
      /\ \A q \in Live' : procs'[q] \in [bin : Binaries, run : 0..run, known : Known]'
  BY <1>2, <1>3, FewerAlphas
<1>5. PidsOK'
  BY <1>2, <1>3, <1>4 DEF SweepInv, PidsOK, Binaries
<1>6. FileOK'
  BY <1>2, <1>4 DEF SweepInv, FileOK
<1>7. FlagOK'
  BY <1>2, <1>3, <1>4 DEF SweepInv, FlagOK, OnlyCutStartLeaks, Mine
<1>8. prompt' => OnlyManaged' /\ Verified'
  BY <1>2, <1>3 DEF SweepInv, OnlyManaged, Verified
<1> QED
  BY <1>5, <1>6, <1>7, <1>8 DEF SweepInv

(* stop_alpha's first half takes care of the pid in the file: no alpha on  *)
(* file is alive after it, and on a machine where alphas obey SIGTERM      *)
(* nobody is, but perhaps the stray of the first scan.                     *)
LEMMA StopManagedStep ==
  ASSUME SweepInv, NEW s \in Stops, StopManaged(s)
  PROVE  SweepInv'
<1>1. /\ pc = s /\ pidfile' = NoPid /\ pc' \in {Return[s], ScanOf[s]}
      /\ running' \in {FALSE, running}
      /\ UNCHANGED <<prompt, b, bin, launched, run, results>>
  BY DEF StopManaged, books
<1>2. /\ Live' = Live \ {pidfile}
      /\ \A p \in Live' : procs'[p] = procs[p]
      /\ listener' \in Live' \cup {NoPid}
  <2>1. CASE pidfile \in Live
    BY <2>1, ExitFacts DEF StopManaged, SweepInv
  <2>2. CASE pidfile \notin Live
    BY <2>2 DEF StopManaged, SweepInv, PidsOK, Live, alphas
  <2> QED
    BY <2>1, <2>2
<1>3. /\ Mine' \subseteq Mine /\ OnFile' \subseteq OnFile
      /\ Live' \subseteq 1..launched'
      /\ \A p \in Live' : procs'[p] \in [bin : Binaries, run : 0..run, known : Known]'
  BY <1>1, <1>2, FewerAlphas
<1>4. OnFile' = {}
  BY <1>2, <1>3 DEF SweepInv, FileOK, OnFile, Ours
<1>5. PidsOK'
  BY <1>1, <1>2, <1>3 DEF SweepInv, PidsOK, Binaries
<1>6. FileOK'
  BY <1>1, <1>4, StopsOf DEF FileOK
<1>7. \A p \in Mine' : procs'[p].known # "marked"
  <2> SUFFICES ASSUME NEW p \in Mine', procs'[p].known = "marked" PROVE FALSE
    OBVIOUS
  <2>1. p \in Ours'
    BY <1>1 DEF Mine, Ours, SweepInv, PidsOK
  <2> QED
    BY <2>1, <1>4 DEF OnFile
<1>8. FlagOK'
  BY <1>7 DEF FlagOK, OnlyCutStartLeaks
<1>9. pidfile \notin Live => pc' = ScanOf[s]
  BY DEF StopManaged
<1>10. ASSUME prompt PROVE OnlyManaged'
  <2>1. \A p, q \in Live' : p = q
    BY <1>2, <1>10 DEF SweepInv, OnlyManaged
  <2>2. CASE s = "stopFirst"
    <3>1. pidfile \in Live => Live' = {}
      BY <1>2, <1>10 DEF SweepInv, OnlyManaged
    <3> QED
      BY <1>1, <1>9, <2>1, <2>2, <3>1, StopsOf DEF OnlyManaged
  <2>3. CASE s = "stopTrap"
    BY <1>1, <2>1, <2>3, StopsOf DEF OnlyManaged, Last, Over
  <2>4. CASE s \notin {"stopFirst", "stopTrap"}
    <3>1. Live' = {}
      BY <1>1, <1>2, <1>10, <2>4, StopsOf DEF SweepInv, OnlyManaged, Last, Over
    <3> QED
      BY <3>1 DEF OnlyManaged
  <2> QED
    BY <2>2, <2>3, <2>4
<1>11. ASSUME prompt PROVE Verified'
  BY <1>1, <1>2, <1>11, StopsOf DEF SweepInv, Verified
<1> QED
  BY <1>1, <1>5, <1>6, <1>8, <1>10, <1>11 DEF SweepInv

(* Its second half removes alphas only, all of them when they are prompt.  *)
LEMMA StopStraysStep ==
  ASSUME SweepInv, NEW s \in Stops, StopStrays(s) \/ StrayVanishes(s)
  PROVE  SweepInv'
<1>1. PICK S \in SUBSET Live : Exit(S) /\ (prompt => S = Live)
  BY DEF StopStrays, StrayVanishes
<1>2. /\ pc = ScanOf[s] /\ pc' \in {Return[s], "trap"} /\ running' \in {FALSE, running}
      /\ UNCHANGED <<prompt, launched, run, b, bin, pidfile, results>>
  BY DEF StopStrays, StrayVanishes, books
<1>3. /\ Live' = Live \ S /\ \A p \in Live' : procs'[p] = procs[p]
      /\ listener' \in Live' \cup {NoPid}
      /\ prompt => Live' = {}
  BY <1>1, ExitFacts DEF SweepInv
<1>4. /\ Mine' \subseteq Mine /\ OnFile' \subseteq OnFile
      /\ Live' \subseteq 1..launched'
      /\ \A p \in Live' : procs'[p] \in [bin : Binaries, run : 0..run, known : Known]'
  BY <1>2, <1>3, FewerAlphas
<1>5. OnFile' = {}
  BY <1>2, <1>4, StopsOf DEF SweepInv, FileOK, Up, Over
<1>6. PidsOK'
  BY <1>2, <1>3, <1>4 DEF SweepInv, PidsOK, Binaries
<1>7. FileOK'
  BY <1>2, <1>5, StopsOf DEF FileOK
<1>8. \A p \in Mine' : procs'[p].known # "marked"
  <2> SUFFICES ASSUME NEW p \in Mine', procs'[p].known = "marked" PROVE FALSE
    OBVIOUS
  <2>1. p \in Ours'
    BY <1>2 DEF Mine, Ours, SweepInv, PidsOK
  <2> QED
    BY <2>1, <1>5 DEF OnFile
<1>9. FlagOK'
  BY <1>8 DEF FlagOK, OnlyCutStartLeaks
<1>10. prompt => OnlyManaged' /\ Verified'
  BY <1>2, <1>3, StopsOf DEF SweepInv, OnlyManaged, Verified
<1> QED
  BY <1>2, <1>6, <1>7, <1>9, <1>10 DEF SweepInv

(* start_alpha: the new alpha runs the verified binary, on no file yet.    *)
LEMMA LaunchStep == ASSUME SweepInv, Launch PROVE SweepInv'
<1> DEFINE new == [bin |-> bin, run |-> run, known |-> "launched"]
<1>1. /\ pc = "start" /\ pc' = "record" /\ launched' = launched + 1
      /\ procs' = [p \in Live \cup {launched'} |-> IF p = launched' THEN new ELSE procs[p]]
      /\ UNCHANGED <<prompt, run, b, bin, running, pidfile, listener, results>>
  BY DEF Launch
<1>2. /\ Live' = Live \cup {launched'} /\ launched' \notin Live /\ launched' \in Nat
      /\ procs'[launched'] = new /\ \A p \in Live : procs'[p] = procs[p]
  BY <1>1 DEF SweepInv, PidsOK, Live
<1>3. new \in [bin : Binaries, run : 0..run, known : Known]
  BY DEF SweepInv, PidsOK, Known
<1>4. PidsOK'
  BY <1>1, <1>2, <1>3 DEF SweepInv, PidsOK, Binaries, Known
<1>5. OnFile' = {}
  BY <1>1, <1>2 DEF SweepInv, FileOK, OnFile, Ours, Up, Over
<1>6. FileOK'
  BY <1>1, <1>5 DEF FileOK
<1>7. FlagOK'
  BY <1>1, <1>2 DEF SweepInv, FlagOK, OnlyCutStartLeaks, Mine
<1>8. prompt => OnlyManaged' /\ Verified'
  BY <1>1, <1>2 DEF SweepInv, OnlyManaged, Verified
<1> QED
  BY <1>1, <1>4, <1>6, <1>7, <1>8 DEF SweepInv

(* One alpha gets further in start_alpha; nothing else about the alphas    *)
(* changes.                                                                *)
LEMMA KnownFacts ==
  ASSUME SweepInv, NEW k \in Known, UNCHANGED <<run, launched>>,
         procs' = IF launched \in Live THEN Marked(launched, k) ELSE procs
  PROVE  /\ Live' = Live
         /\ \A p \in Live : p # launched => procs'[p] = procs[p]
         /\ launched \in Live => procs'[launched].known = k
         /\ \A p \in Live : procs'[p].bin = procs[p].bin /\ procs'[p].run = procs[p].run
         /\ \A p \in Live : procs'[p] \in [bin : Binaries, run : 0..run, known : Known]'
<1>1. Live' = Live
  BY DEF Live, Marked
<1>2. \A p \in Live : p # launched => procs'[p] = procs[p]
  BY DEF Live, Marked
<1>3. launched \in Live => procs'[launched] = [procs[launched] EXCEPT !.known = k]
  BY DEF Live, Marked
<1>4. \A p \in Live : procs[p] \in [bin : Binaries, run : 0..run, known : Known]
  BY DEF SweepInv, PidsOK
<1>5. launched \in Live =>
        /\ procs'[launched].known = k
        /\ procs'[launched].bin = procs[launched].bin
        /\ procs'[launched].run = procs[launched].run
        /\ procs'[launched] \in [bin : Binaries, run : 0..run, known : Known]
  BY <1>3, <1>4
<1>6. [bin : Binaries, run : 0..run, known : Known]'
        = [bin : Binaries, run : 0..run, known : Known]
  BY DEF Binaries, Known
<1> QED
  BY <1>1, <1>2, <1>4, <1>5, <1>6

(* The pid of the new alpha is written to the file, by the script that goes*)
(* on or by what is left of it.                                            *)
LEMMA RecordedStep ==
  ASSUME SweepInv, pc = "record", Recorded, pc' \in {"mark", "trap", "killed"},
         UNCHANGED <<prompt, run, launched, b, bin, running, results>>
  PROVE  SweepInv'
<1>1. pidfile' = launched /\ listener' = listener
  BY DEF Recorded
<1>2. /\ Live' = Live
      /\ \A p \in Live : p # launched => procs'[p] = procs[p]
      /\ launched \in Live => procs'[launched].known = "recorded"
      /\ \A p \in Live : procs'[p].bin = procs[p].bin /\ procs'[p].run = procs[p].run
      /\ \A p \in Live : procs'[p] \in [bin : Binaries, run : 0..run, known : Known]'
  <2>1. procs' = IF launched \in Live THEN Marked(launched, "recorded") ELSE procs
    BY DEF Recorded
  <2>2. "recorded" \in Known
    BY DEF Known
  <2> HIDE DEF Recorded
  <2> QED
    BY <2>1, <2>2, KnownFacts
<1>3. PidsOK'
  BY <1>1, <1>2 DEF SweepInv, PidsOK, Binaries
<1>4. OnFile = {}
  BY DEF SweepInv, FileOK, Up, Over
<1>5. OnFile' \subseteq {launched}
  BY <1>2, <1>4 DEF OnFile, Ours
<1>6. FileOK'
  BY <1>1, <1>5 DEF FileOK, Up, Over
<1>7. FlagOK'
  BY <1>2 DEF SweepInv, FlagOK, OnlyCutStartLeaks, Mine
<1>8. ASSUME prompt PROVE OnlyManaged' /\ Verified'
  <2>1. (\A p, q \in Live' : p = q) /\ Verified'
    BY <1>2, <1>8 DEF SweepInv, OnlyManaged, Verified
  <2>2. OnlyManaged'
    BY <2>1, <1>1, <1>2, <1>8 DEF SweepInv, OnlyManaged, Last, Over
  <2> QED
    BY <2>1, <2>2
<1> QED
  BY <1>3, <1>6, <1>7, <1>8 DEF SweepInv

(* The script ends with nothing changed but where it is.                   *)
LEMMA CutKeepsIt ==
  ASSUME SweepInv, UNCHANGED <<pidfile, alphas>>, pc' \in {"trap", "killed"},
         UNCHANGED <<prompt, run, launched, b, bin, running, results>>
  PROVE  SweepInv'
<1>1. UNCHANGED <<procs, listener>>
  BY DEF alphas
<1>2. Live' = Live /\ Ours' = Ours /\ OnFile' = OnFile /\ Mine' = Mine
  BY <1>1 DEF Live, Ours, OnFile, Mine
<1>3. PidsOK'
  BY <1>1, <1>2 DEF SweepInv, PidsOK, Binaries, Known
<1>4. FileOK' /\ FlagOK'
  BY <1>1, <1>2 DEF SweepInv, FileOK, FlagOK, OnlyCutStartLeaks, Up, Over
<1>5. prompt => OnlyManaged' /\ Verified'
  BY <1>1, <1>2 DEF SweepInv, OnlyManaged, Verified, Last, Over
<1> QED
  BY <1>3, <1>4, <1>5 DEF SweepInv

(* A bench ends: the script's has only alphas of its branch to ask.        *)
LEMMA RunBenchStep == ASSUME SweepInv, RunBench PROVE SweepInv'
<1>1. /\ pc = "bench" /\ pc' = "stopAfter"
      /\ UNCHANGED <<prompt, run, launched, b, bin, running, pidfile, procs, listener>>
      /\ results' = results \cup ResultOf(Branches[b], TRUE)
  BY DEF RunBench, alphas, books
<1>2. Live' = Live /\ Ours' = Ours /\ OnFile' = OnFile /\ Mine' = Mine
  BY <1>1 DEF Live, Ours, OnFile, Mine
<1>3. PidsOK' /\ FileOK' /\ FlagOK'
  BY <1>1, <1>2 DEF SweepInv, PidsOK, FileOK, FlagOK, OnlyCutStartLeaks, Binaries, Known,
                    Up, Over
<1>4. ASSUME prompt PROVE OnlyManaged'
  BY <1>1, <1>2, <1>4 DEF SweepInv, OnlyManaged, Last, Over
<1>5. ASSUME prompt, NEW r \in ResultOf(Branches[b], TRUE) PROVE r.label = r.bin
  <2>1. listener \in Live /\ procs[listener].bin = Branches[b]
    BY <1>1, <1>5 DEF ResultOf, SweepInv, PidsOK, Verified
  <2> QED
    BY <1>5, <2>1 DEF ResultOf
<1>6. ASSUME prompt PROVE Verified'
  BY <1>1, <1>2, <1>5, <1>6 DEF SweepInv, Verified
<1> QED
  BY <1>1, <1>3, <1>4, <1>6 DEF SweepInv

(* A bench that was left behind is nobody's.                               *)
LEMMA LeftBenchStep == ASSUME SweepInv, LeftBenchEnds PROVE SweepInv'
<1>1. PICK l \in left : results' = results \cup ResultOf(l, FALSE)
  BY DEF LeftBenchEnds
<1>2. UNCHANGED <<prompt, run, launched, pc, b, bin, running, pidfile, procs, listener>>
  BY DEF LeftBenchEnds, alphas, books
<1>3. Live' = Live /\ Ours' = Ours /\ OnFile' = OnFile /\ Mine' = Mine
  BY <1>2 DEF Live, Ours, OnFile, Mine
<1>4. PidsOK' /\ FileOK' /\ FlagOK'
  BY <1>2, <1>3 DEF SweepInv, PidsOK, FileOK, FlagOK, OnlyCutStartLeaks, Binaries, Known
<1>5. \A r \in ResultOf(l, FALSE) : ~r.waited
  BY DEF ResultOf
<1>6. prompt => OnlyManaged' /\ Verified'
  BY <1>1, <1>2, <1>3, <1>5 DEF SweepInv, OnlyManaged, Verified
<1> QED
  BY <1>2, <1>4, <1>6 DEF SweepInv

(* start_alpha, the pid file: written, or the script ends without it.      *)
LEMMA RecordPidStep == ASSUME SweepInv, RecordPid PROVE SweepInv'
<1>1. CASE Recorded /\ pc' = "mark"
  BY <1>1, RecordedStep DEF RecordPid, books
<1>2. CASE UNCHANGED <<pidfile, alphas>> /\ pc' = "trap"
  BY <1>2, CutKeepsIt DEF RecordPid, books
<1> QED
  BY <1>1, <1>2 DEF RecordPid

(* start_alpha, the flag.                                                  *)
LEMMA MarkRunningStep == ASSUME SweepInv, MarkRunning PROVE SweepInv'
<1>1. /\ pc = "mark" /\ pc' = "wait" /\ running' = TRUE
      /\ UNCHANGED <<prompt, launched, run, b, bin, pidfile, listener, results>>
  BY DEF MarkRunning, books
<1>2. /\ Live' = Live
      /\ \A p \in Live : p # launched => procs'[p] = procs[p]
      /\ \A p \in Live : procs'[p].bin = procs[p].bin /\ procs'[p].run = procs[p].run
      /\ \A p \in Live : procs'[p] \in [bin : Binaries, run : 0..run, known : Known]'
  <2>1. procs' = IF launched \in Live THEN Marked(launched, "marked") ELSE procs
    BY DEF MarkRunning
  <2>2. "marked" \in Known
    BY DEF Known
  <2> QED
    BY <1>1, <2>1, <2>2, KnownFacts
<1>3. PidsOK'
  BY <1>1, <1>2 DEF SweepInv, PidsOK, Binaries
<1>4. OnFile \subseteq {launched} /\ pidfile = launched
  BY <1>1 DEF SweepInv, FileOK
<1>5. OnFile' \subseteq {launched}
  BY <1>2, <1>4 DEF OnFile, Ours
<1>6. FileOK'
  BY <1>1, <1>4, <1>5 DEF FileOK, Up, Over
<1>7. FlagOK'
  BY <1>1 DEF FlagOK, OnlyCutStartLeaks
<1>8. prompt => OnlyManaged' /\ Verified'
  BY <1>1, <1>2 DEF SweepInv, OnlyManaged, Verified, Last, Over
<1> QED
  BY <1>1, <1>3, <1>6, <1>7, <1>8 DEF SweepInv

(* A signal: the trap or nobody finds what the script left.                *)
LEMMA CutStep ==
  ASSUME SweepInv, Interrupted \/ ScriptKilled
  PROVE  SweepInv'
<1>1. /\ pc' \in {"trap", "killed"} /\ (pc \notin Last \/ pc' = "killed")
      /\ UNCHANGED <<prompt, launched, run, b, bin, running, results>>
  BY DEF Interrupted, ScriptKilled, CutTo, books
<1>2. (pc = "record" /\ Recorded) \/ UNCHANGED <<pidfile, alphas>>
  BY DEF Interrupted, ScriptKilled, CutTo
<1>3. CASE pc = "record" /\ Recorded
  BY <1>1, <1>3, RecordedStep
<1>4. CASE UNCHANGED <<pidfile, alphas>>
  BY <1>1, <1>4, CutKeepsIt
<1> QED
  BY <1>2, <1>3, <1>4

(* The script is run again: the alphas it finds are not this run's.        *)
LEMMA RunAgainStep == ASSUME SweepInv, RunAgain PROVE SweepInv'
<1>1. /\ pc \in Over /\ pc' = "stopFirst" /\ run' = run + 1 /\ b' = 1 /\ running' = FALSE
      /\ UNCHANGED <<prompt, launched, bin, pidfile, procs, listener, results>>
  BY DEF RunAgain, alphas
<1>2. Live' = Live /\ Ours' = Ours /\ OnFile' = OnFile
  BY <1>1 DEF Live, Ours, OnFile
<1>3. 0..run \subseteq 0..run'
  BY <1>1 DEF SweepInv, PidsOK
<1>4. \A p \in Live' : procs'[p] \in [bin : Binaries, run : 0..run, known : Known]'
  <2>1. \A p \in Live : procs[p] \in [bin : Binaries, run : 0..run, known : Known]
    BY DEF SweepInv, PidsOK
  <2>2. [bin : Binaries, run : 0..run, known : Known]
          \subseteq [bin : Binaries, run : 0..run', known : Known]
    BY <1>3
  <2> QED
    BY <1>1, <1>2, <2>1, <2>2 DEF Binaries, Known
<1>5. PidsOK'
  BY <1>1, <1>2, <1>4, SweepAssumption DEF SweepInv, PidsOK, Binaries
<1>6. FileOK'
  BY <1>1, <1>2 DEF SweepInv, FileOK, Up
<1>7. Mine' = {}
  <2>1. \A p \in Live : procs[p].run \in 0..run
    BY DEF SweepInv, PidsOK
  <2>2. \A p \in Live : procs[p].run # run + 1
    BY <2>1 DEF SweepInv, PidsOK
  <2> QED
    BY <1>1, <1>2, <2>2 DEF Mine
<1>8. FlagOK'
  BY <1>7 DEF FlagOK, OnlyCutStartLeaks
<1>9. prompt => OnlyManaged' /\ Verified'
  BY <1>1, <1>2 DEF SweepInv, OnlyManaged, Verified
<1> QED
  BY <1>1, <1>5, <1>6, <1>8, <1>9 DEF SweepInv

(* Every step of the script, of the alphas and of the signals keeps it.    *)
LEMMA SweepInvStep == SweepInv /\ [Next]_vars => SweepInv'
<1> SUFFICES ASSUME SweepInv, [Next]_vars PROVE SweepInv'
  OBVIOUS
<1>1. CASE StopAlpha
  BY <1>1, StopManagedStep, StopStraysStep DEF StopAlpha
<1>2. CASE Launch
  BY <1>2, LaunchStep
<1>3. CASE RecordPid
  BY <1>3, RecordPidStep
<1>4. CASE MarkRunning
  BY <1>4, MarkRunningStep
<1>5. CASE AlphaExits
  BY <1>5, AlphaExitsStep
<1>6. CASE Interrupted \/ ScriptKilled
  BY <1>6, CutStep
<1>7. CASE RunAgain
  BY <1>7, RunAgainStep
<1> USE DEF SweepInv, PidsOK, FileOK, OnFile, Ours, Mine, Up, Over, Last, FlagOK,
            OnlyCutStartLeaks, OnlyManaged, Verified, alphas, books, Live, Binaries, Known
<1>8. CASE Build
  BY <1>8 DEF Build
<1>9. CASE Verify
  BY <1>9 DEF Verify, Goto
<1>10. CASE ResetData
  BY <1>10 DEF ResetData, Goto
<1>11. CASE Healthy \/ GivesUp
  BY <1>11 DEF Healthy, GivesUp, Goto
<1>12. CASE Poll
  BY <1>12 DEF Poll, Goto
<1>13. CASE RunBench
  BY <1>13, RunBenchStep
<1>14. CASE NextBranch
  BY <1>14 DEF NextBranch
<1>15. CASE ExitTrap
  BY <1>15 DEF ExitTrap, Goto
<1>16. CASE Listen
  BY <1>16 DEF Listen
<1>17. CASE Hangs
  BY <1>17 DEF Hangs
<1>18. CASE LeftBenchEnds
  BY <1>18, LeftBenchStep
<1>19. CASE UNCHANGED vars
  BY <1>19 DEF vars
<1> QED
  BY <1>1, <1>2, <1>3, <1>4, <1>5, <1>6, <1>7, <1>8, <1>9, <1>10, <1>11, <1>12, <1>13,
     <1>14, <1>15, <1>16, <1>17, <1>18, <1>19
  DEF Next, Script, Environment, Finished

(* However often the script is cut short and run again: a result it waited *)
(* for carries the label of the branch whose binary answered, if alphas    *)
(* obey SIGTERM; an alpha that outlives its EXIT trap is one whose start   *)
(* was cut; and of all it ever started, at most one that is on file lives, *)
(* or at most one at all if alphas obey.                                   *)
THEOREM SweepIsSound == Spec => [](MeasuresItsBranch /\ OnlyCutStartLeaks /\ OneAtATime)
<1>1. SweepInv => MeasuresItsBranch /\ OnlyCutStartLeaks
  BY DEF SweepInv, FlagOK, Verified, MeasuresItsBranch
<1>2. SweepInv => OneAtATime
  <2> SUFFICES ASSUME SweepInv PROVE OneAtATime
    OBVIOUS
  <2>1. Cardinality(OnFile) <= 1
    <3>1. OnFile = {} \/ OnFile = {pidfile}
      BY DEF SweepInv, FileOK
    <3>2. Cardinality({}) = 0 /\ Cardinality({pidfile}) = 1
      BY FS_EmptySet, FS_Singleton
    <3> QED
      BY <3>1, <3>2
  <2>2. ASSUME prompt PROVE Cardinality(Ours) <= 1
    <3>1. \A p, q \in Ours : p = q
      BY <2>2 DEF SweepInv, OnlyManaged, Ours
    <3>2. Ours = {} \/ \E p : Ours = {p}
      BY <3>1
    <3>3. Cardinality({}) = 0 /\ \A p : Cardinality({p}) = 1
      BY FS_EmptySet, FS_Singleton
    <3> QED
      BY <3>2, <3>3
  <2> QED
    BY <2>1, <2>2 DEF OneAtATime, OnFile
<1> QED
  BY <1>1, <1>2, SweepInvInit, SweepInvStep, PTL DEF Spec
=============================================================================
