-------------------------- MODULE ArtifactPipeline --------------------------
(***************************************************************************)
(* Phases 3 and 4 of scripts/bench.sh with the programs they run.          *)
(* cmd/prepare writes the dataset, cmd/convert the triples, dgraph bulk    *)
(* the directory p/; then the sweep reads them.  Each is skipped when what *)
(* it makes is there, so what a run that was killed or failed left behind  *)
(* decides what the next one does.                                         *)
(*                                                                         *)
(* A file is absent, whole, or "cut": begun and not finished, or made from *)
(* something that was.                                                     *)
(***************************************************************************)
EXTENDS Naturals

CONSTANT MaxRuns        (* how often the script is started                 *)

Artifacts == {"v", "e", "properties", "sssp", "schema", "rdf", "bulk"}

VARIABLES
  file,         (* artifact -> "absent" | "cut" | "whole"                  *)
  phase,        (* what the script and its program are about to do         *)
  forceBulk,    (* --force-bulk was given to this run                      *)
  runs,         (* how often the script was started                        *)
  swallowed     (* history: artifacts whose last flush failed unnoticed    *)

vars == <<file, phase, forceBulk, runs, swallowed>>

Init ==
  /\ file = [a \in Artifacts |-> "absent"]
  /\ phase = "stopped"
  /\ forceBulk = FALSE
  /\ runs = 0
  /\ swallowed = {}

There(a) == file[a] # "absent"
Whole(S) == \A a \in S : file[a] = "whole"
Becomes(a, state) == file' = [file EXCEPT ![a] = state]

(* What each file is made from, and what is done after it.                 *)
Inputs ==
  [v |-> {}, e |-> {}, properties |-> {}, sssp |-> {}, schema |-> {},
   rdf |-> {"v", "e", "properties"}, bulk |-> {"rdf", "schema"}]
After ==
  [v |-> "e", e |-> "properties", properties |-> "reference",
   sssp |-> "convert?", schema |-> "rdf", rdf |-> "bulk?", bulk |-> "sweep"]

(* The phase in which the program that makes a file writes it.             *)
Writing ==
  [v |-> "writing v", e |-> "writing e", properties |-> "writing properties",
   sssp |-> "writing sssp", schema |-> "writing schema", rdf |-> "writing rdf",
   bulk |-> "writing bulk"]

Phases ==
  {"stopped", "prepare?", "fetch", "reference", "convert?", "load dataset", "bulk?",
   "sweep", "measured",
   "v", "e", "properties", "sssp", "schema", "rdf", "bulk",
   "writing v", "writing e", "writing properties", "writing sssp", "writing schema",
   "writing rdf", "writing bulk"}

(* The flush and the close of these are deferred and their errors dropped; *)
(* the others are written by os.WriteFile, or are dgraph's.                *)
Deferred == {"v", "e", "sssp", "rdf"}

GoTo(next) == phase' = next /\ UNCHANGED <<forceBulk, runs>>
Die == GoTo("stopped") /\ UNCHANGED <<file, swallowed>>
-----------------------------------------------------------------------------
Start(force) ==
  /\ phase = "stopped" /\ runs < MaxRuns
  /\ runs' = runs + 1
  /\ forceBulk' = force
  /\ phase' = "prepare?"
  /\ UNCHANGED <<file, swallowed>>

(* Phase 3: cmd/prepare runs if there is no .properties.                   *)
SkipOrPrepare ==
  /\ phase = "prepare?"
  /\ GoTo(IF There("properties") THEN "convert?" ELSE "fetch")
  /\ UNCHANGED <<file, swallowed>>

(* Mutant: the marker is written first. *)
FetchThenProperties ==
  /\ phase = "fetch"
  /\ Becomes("properties", "whole")
  /\ GoTo("v")
  /\ UNCHANGED swallowed

(* fetch and parse, before anything is written; either may fail.           *)
Fetch ==
  /\ phase = "fetch"
  /\ \/ GoTo("v") /\ UNCHANGED <<file, swallowed>>
     \/ Die

(* os.Create truncates what was there.                                     *)
Create(a) ==
  /\ phase = a
  /\ Becomes(a, "cut")
  /\ GoTo(Writing[a])
  /\ UNCHANGED swallowed

(* The last byte: as good as what it was made from.                        *)
Finish(a) ==
  /\ phase = Writing[a]
  /\ Becomes(a, IF Whole(Inputs[a]) THEN "whole" ELSE "cut")
  /\ GoTo(After[a])
  /\ swallowed' = swallowed \ {a}

(* The disk is full at the deferred flush: the program goes on.            *)
FinishSwallowed(a) ==
  /\ phase = Writing[a]
  /\ a \in Deferred
  /\ GoTo(After[a])
  /\ swallowed' = swallowed \cup {a}
  /\ UNCHANGED file

(* The disk is full before, a line of the input does not parse, or dgraph  *)
(* bulk exits with an error: log.Fatal, die.                               *)
WriteFails(a) == phase = Writing[a] /\ Die

(* main of cmd/prepare, after .properties: the source may not be in the    *)
(* graph, a weight may be negative.                                        *)
ComputeReference ==
  /\ phase = "reference"
  /\ \/ GoTo("sssp") /\ UNCHANGED <<file, swallowed>>
     \/ Die

(* Mutant: convert is run again over its old output. *)
AlwaysConvert ==
  /\ phase = "convert?"
  /\ GoTo("load dataset")
  /\ UNCHANGED <<file, swallowed>>

(* cmd/convert runs unless both its files are there; it loads the dataset  *)
(* first, for which .v, .e and .properties must be there; of .properties   *)
(* any beginning will do that does not end within the source's number.     *)
SkipOrConvert ==
  /\ phase = "convert?"
  /\ \/ There("rdf") /\ There("schema") /\ GoTo("bulk?")
     \/ ~(There("rdf") /\ There("schema")) /\ GoTo("load dataset")
  /\ UNCHANGED <<file, swallowed>>

LoadDataset ==
  /\ phase = "load dataset"
  /\ \/ There("v") /\ There("e") /\ There("properties")
        /\ GoTo("schema") /\ UNCHANGED <<file, swallowed>>
     \/ ~Whole({"v", "e", "properties"}) /\ Die

(* Phase 4: dgraph bulk runs if there is no p/, or after it was removed.   *)
SkipOrBulk ==
  /\ phase = "bulk?"
  /\ GoTo(IF There("bulk") /\ ~forceBulk THEN "sweep" ELSE "bulk")
  /\ file' = IF forceBulk THEN [file EXCEPT !.bulk = "absent"] ELSE file
  /\ UNCHANGED swallowed

(* Phase 5, as far as the files go: ReadSSSP of a reference that is not    *)
(* there is fatal, one that was cut is an error in its last line or not.   *)
Measure ==
  /\ phase = "sweep"
  /\ There("sssp")
  /\ GoTo("measured")
  /\ UNCHANGED <<file, swallowed>>

ReferenceFails == phase = "sweep" /\ ~Whole({"sssp"}) /\ Die

(* The script and its children are killed, at any point.                   *)
Killed == phase # "stopped" /\ Die

(* The script has ended and nobody starts it again.                        *)
Over == phase = "stopped" /\ runs = MaxRuns /\ UNCHANGED vars

Next ==
  \/ \E force \in BOOLEAN : Start(force)
  \/ SkipOrPrepare \/ Fetch \/ ComputeReference
  \/ \E a \in Artifacts : Create(a) \/ Finish(a) \/ FinishSwallowed(a) \/ WriteFails(a)
  \/ SkipOrConvert \/ LoadDataset \/ SkipOrBulk
  \/ Measure \/ ReferenceFails \/ Killed \/ Over

Spec == Init /\ [][Next]_vars
-----------------------------------------------------------------------------
TypeOK ==
  /\ file \in [Artifacts -> {"absent", "cut", "whole"}]
  /\ phase \in Phases
  /\ forceBulk \in BOOLEAN
  /\ runs \in Nat
  /\ swallowed \subseteq Deferred

(* The order of the writes is what makes a skipped phase safe, as far as   *)
(* it is: .properties is there only if .v and .e were finished, the RDF    *)
(* only if the schema was, and p/ only if the RDF was begun, no matter     *)
(* where runs were killed or failed.  (Nothing like it holds of the files  *)
(* that come after the last check: the reference, the RDF and p/.)         *)
MarkersHold ==
  /\ There("properties") => \A a \in {"v", "e"} : file[a] = "whole" \/ a \in swallowed
  /\ There("rdf") => file["schema"] = "whole" /\ There("properties")
  /\ There("bulk") => There("rdf")
  /\ phase \in {"sweep", "measured"} => \A a \in Artifacts \ {"sssp"} : There(a)

(* No run touches what an earlier phase was skipped for: once .properties  *)
(* is there .v and .e stay as they are, once the RDF is finished or given  *)
(* up so does it, and p/ is only replaced on --force-bulk.                 *)
Kept(a) == file'[a] = file[a]
KeepsArtifacts ==
  /\ There("properties") => Kept("v") /\ Kept("e")
  /\ There("rdf") => Kept("schema") /\ (phase # "writing rdf" => Kept("rdf"))
  /\ There("bulk") /\ ~Kept("bulk") => forceBulk \/ phase = "writing bulk"
NeverRewritten == [][KeepsArtifacts]_vars

(* "dataset ready", says bench.sh before phase 4: when it goes on to the   *)
(* bulk load, all that prepare and convert write is whole.                 *)
ReadyMeansWhole ==
  phase = "bulk?" /\ swallowed = {} => Whole(Artifacts \ {"bulk"})
=============================================================================
