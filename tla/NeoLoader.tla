----------------------------- MODULE NeoLoader ------------------------------
(***************************************************************************)
(* neo/loader.go, HandleRdfReader: loads a file of RDF lines into a graph  *)
(* database.  readLines shuffles the lines through a window and sends them *)
(* down the channel input; parsers turn them into quads and send those     *)
(* down cnq; handlers write each quad to the database, by several requests *)
(* that are atomic one by one; the caller waits for the parsers, closes    *)
(* cnq and waits for the handlers.  glog.Fatal stops everything.           *)
(***************************************************************************)
EXTENDS Integers, Sequences, FiniteSets

CONSTANTS
  Files,        (* files to load: sequences of [kind, subj, pred, obj]      *)
  Sampled,      (* the subjects whose fingerprint is 0 modulo mod          *)
  Window,       (* lines kept back for shuffling (1000 in the code)        *)
  ChanCap,      (* capacity of input and of cnq (10000 in the code)        *)
  Parsers,      (* parseStream goroutines, GOMAXPROCS of them              *)
  Handlers,     (* handleNQuads goroutines (3000 in the code)              *)
  Faults,       (* TRUE: reading the file or a request may fail            *)
  Undecided,    (* a line no handler has dealt with                        *)
  Unpublished   (* HandleRdfReader has not returned                        *)

Kinds == {"value", "edge", "empty", "bad"}
None == 0     \* no line

ASSUME LoaderAssumption ==
  /\ Files \subseteq Seq([kind : Kinds, subj : STRING, pred : STRING, obj : STRING])
  /\ Window \in Nat \ {0} /\ ChanCap \in Nat \ {0}
  /\ IsFiniteSet(Parsers) /\ Parsers # {}
  /\ IsFiniteSet(Handlers) /\ Handlers # {}
  /\ Faults \in BOOLEAN
  /\ Undecided \notin {"processed", "ignored"}
  /\ Unpublished \notin [{"processed", "ignored"} -> Nat]

VARIABLES
  Lines,        (* the file                                                *)
  reader,       (* readLines: "fill" | "scan" | "drain" | "exited"         *)
  next,         (* the line the scanner is at                              *)
  buf,          (* the window                                              *)
  input, inputClosed,
  ppc,          (* parser -> "range" | "send" | "count" | "exited"         *)
  pline,        (* parser -> the line it holds                             *)
  done,         (* what the parsers sent down done and nobody took yet     *)
  cnq, cnqClosed,
  hpc,          (* handler -> "range" | "entity" | "object" | "relate" |   *)
                (*            "read" | "write" | "count" | "exited"        *)
  hline,        (* handler -> the line it holds                            *)
  hprops,       (* handler -> the properties it read                       *)
  nodes,        (* database: the nodes, by _xid_                           *)
  rels,         (* database: the relationships, by the line they are from  *)
  props,        (* database: subject -> predicate -> line of its value     *)
  ctr,          (* the counters parsed, processed and ignored              *)
  wg,           (* the WaitGroup's counter                                 *)
  main,         (* "collect" | "wait" | "returned" | "fatal"               *)
  left,         (* parsers the caller still waits for                      *)
  verdict,      (* history: what became of each line                       *)
  report        (* history: the counters when HandleRdfReader returned     *)

vars == <<Lines, reader, next, buf, input, inputClosed, ppc, pline, done,
          cnq, cnqClosed, hpc, hline, hprops, nodes, rels, props, ctr, wg, main,
          left, verdict, report>>
readerVars  == <<Lines, reader, next, buf>>
parserVars  == <<ppc, pline>>
handlerVars == <<hpc, hline, hprops>>
db          == <<nodes, rels, props>>
caller      == <<main, left>>
history     == <<verdict, report>>
-----------------------------------------------------------------------------
Nums == DOMAIN Lines
Quads == {i \in Nums : Lines[i].kind \in {"value", "edge"}}
Wanted == {i \in Quads : Lines[i].subj \in Sampled}
Subjects == {Lines[i].subj : i \in Quads}
Preds == {Lines[i].pred : i \in Quads}
Alive == main # "fatal"                \* the process has not exited

Init ==
  /\ Lines \in Files
  /\ reader = "fill" /\ next = 1 /\ buf = <<>>
  /\ input = <<>> /\ inputClosed = FALSE
  /\ ppc = [p \in Parsers |-> "range"] /\ pline = [p \in Parsers |-> None]
  /\ done = <<>>
  /\ cnq = <<>> /\ cnqClosed = FALSE
  /\ hpc = [h \in Handlers |-> "range"] /\ hline = [h \in Handlers |-> None]
  /\ hprops = [h \in Handlers |-> [q \in Preds |-> None]]
  /\ nodes = {} /\ rels = {}
  /\ props = [s \in Subjects |-> [q \in Preds |-> None]]
  /\ ctr = [parsed |-> 0, processed |-> 0, ignored |-> 0]
  /\ wg = Cardinality(Handlers)
  /\ main = "collect" /\ left = Cardinality(Parsers)
  /\ verdict = [i \in Quads |-> Undecided]
  /\ report = Unpublished

-----------------------------------------------------------------------------
(* readLines.                                                              *)
FillWindow ==
  /\ Alive /\ reader = "fill"
  /\ IF Len(buf) < Window /\ next <= Len(Lines)
     THEN /\ buf' = Append(buf, next) /\ next' = next + 1
          /\ UNCHANGED reader
     ELSE reader' = "scan" /\ UNCHANGED <<buf, next>>
  /\ UNCHANGED <<Lines, input, inputClosed, parserVars, done, cnq, cnqClosed,
                 handlerVars, db, ctr, wg, caller, history>>

(* Mutant: the line just read is sent and the one in the window dropped.   *)
SwapLineDrops ==
  /\ Alive /\ reader = "scan" /\ next <= Len(Lines) /\ Len(input) < ChanCap
  /\ \E k \in DOMAIN buf : buf' = [buf EXCEPT ![k] = next]
  /\ input' = Append(input, next)
  /\ next' = next + 1
  /\ UNCHANGED <<Lines, reader, inputClosed, parserVars, done, cnq, cnqClosed,
                 handlerVars, db, ctr, wg, caller, history>>

(* A line of the window is sent and the line just read takes its place.    *)
SwapLine ==
  /\ Alive /\ reader = "scan" /\ next <= Len(Lines) /\ Len(input) < ChanCap
  /\ \E k \in DOMAIN buf :
       /\ input' = Append(input, buf[k])
       /\ buf' = [buf EXCEPT ![k] = next]
  /\ next' = next + 1
  /\ UNCHANGED <<Lines, reader, inputClosed, parserVars, done, cnq, cnqClosed,
                 handlerVars, db, ctr, wg, caller, history>>

(* Mutant: the end of the file is not noticed. *)
EndOfFileNever == Alive /\ reader = "scan" /\ next > Len(Lines) /\ UNCHANGED vars

EndOfFile ==
  /\ Alive /\ reader = "scan" /\ next > Len(Lines)
  /\ reader' = "drain"
  /\ UNCHANGED <<Lines, next, buf, input, inputClosed, parserVars, done, cnq,
                 cnqClosed, handlerVars, db, ctr, wg, caller, history>>

(* The window is sent in its order, and input closed behind it.            *)
Drain ==
  /\ Alive /\ reader = "drain"
  /\ IF buf # <<>>
     THEN /\ Len(input) < ChanCap
          /\ input' = Append(input, Head(buf)) /\ buf' = Tail(buf)
          /\ UNCHANGED <<reader, inputClosed>>
     ELSE /\ inputClosed' = TRUE /\ reader' = "exited"
          /\ UNCHANGED <<input, buf>>
  /\ UNCHANGED <<Lines, next, parserVars, done, cnq, cnqClosed, handlerVars,
                 db, ctr, wg, caller, history>>

ReadLines == FillWindow \/ SwapLine \/ EndOfFile \/ Drain

-----------------------------------------------------------------------------
(* parseStream.  A parser that meets a line it cannot parse reports it and *)
(* stops; an empty line is skipped.                                        *)
ParseLine(p) ==
  /\ Alive /\ ppc[p] = "range" /\ input # <<>>
  /\ input' = Tail(input)
  /\ LET i == Head(input) IN
       CASE Lines[i].kind = "empty" -> UNCHANGED <<parserVars, done>>
         [] Lines[i].kind = "bad" ->
              /\ ppc' = [ppc EXCEPT ![p] = "exited"]
              /\ done' = Append(done, "err")
              /\ UNCHANGED pline
         [] i \in Quads ->
              /\ ppc' = [ppc EXCEPT ![p] = "send"]
              /\ pline' = [pline EXCEPT ![p] = i]
              /\ UNCHANGED done
  /\ UNCHANGED <<readerVars, inputClosed, cnq, cnqClosed, handlerVars, db, ctr,
                 wg, caller, history>>

SendQuad(p) ==
  /\ Alive /\ ppc[p] = "send" /\ Len(cnq) < ChanCap
  /\ cnq' = Append(cnq, pline[p])
  /\ ppc' = [ppc EXCEPT ![p] = "count"]
  /\ UNCHANGED <<readerVars, input, inputClosed, pline, done, cnqClosed,
                 handlerVars, db, ctr, wg, caller, history>>

(* The counter is raised after the quad is on its way.                     *)
CountParsed(p) ==
  /\ Alive /\ ppc[p] = "count"
  /\ ctr' = [ctr EXCEPT !.parsed = @ + 1]
  /\ ppc' = [ppc EXCEPT ![p] = "range"]
  /\ pline' = [pline EXCEPT ![p] = None]
  /\ UNCHANGED <<readerVars, input, inputClosed, done, cnq, cnqClosed,
                 handlerVars, db, wg, caller, history>>

ParserExit(p) ==
  /\ Alive /\ ppc[p] = "range" /\ input = <<>> /\ inputClosed
  /\ ppc' = [ppc EXCEPT ![p] = "exited"]
  /\ done' = Append(done, "nil")
  /\ UNCHANGED <<readerVars, input, inputClosed, pline, cnq, cnqClosed,
                 handlerVars, db, ctr, wg, caller, history>>

ParseStream(p) == ParseLine(p) \/ SendQuad(p) \/ CountParsed(p) \/ ParserExit(p)

-----------------------------------------------------------------------------
(* handleNQuads.                                                           *)
(* A quad whose subject is not sampled is counted and forgotten.           *)
TakeQuad(h) ==
  /\ Alive /\ hpc[h] = "range" /\ cnq # <<>>
  /\ cnq' = Tail(cnq)
  /\ LET i == Head(cnq) IN
       IF i \in Wanted
       THEN /\ hline' = [hline EXCEPT ![h] = i]
            /\ hpc' = [hpc EXCEPT ![h] = "entity"]
            /\ UNCHANGED <<ctr, verdict>>
       ELSE /\ ctr' = [ctr EXCEPT !.ignored = @ + 1]
            /\ verdict' = [verdict EXCEPT ![i] = "ignored"]
            /\ UNCHANGED <<hline, hpc>>
  /\ UNCHANGED <<readerVars, input, inputClosed, parserVars, done, cnqClosed,
                 hprops, db, wg, caller, report>>

Quad(h) == Lines[hline[h]]

(* One request of a handler: the database changes by Effect.               *)
Request(h, from, to, Effect) ==
  /\ Alive /\ hpc[h] = from
  /\ hpc' = [hpc EXCEPT ![h] = to]
  /\ Effect
  /\ UNCHANGED <<readerVars, input, inputClosed, parserVars, done, cnq,
                 cnqClosed, hline, ctr, wg, caller, history>>

(* getEntity(nq.Subject): GetOrCreateNode.                                 *)
GetSubject(h) ==
  Request(h, "entity", IF Quad(h).kind = "edge" THEN "object" ELSE "read",
    nodes' = nodes \cup {Quad(h).subj} /\ UNCHANGED <<rels, props, hprops>>)

(* getEntity(nq.ObjectId).                                                 *)
GetObject(h) ==
  Request(h, "object", "relate",
    nodes' = nodes \cup {Quad(h).obj} /\ UNCHANGED <<rels, props, hprops>>)

Relate(h) ==
  Request(h, "relate", "count",
    rels' = rels \cup {hline[h]} /\ UNCHANGED <<nodes, props, hprops>>)

(* e1.Properties().                                                        *)
ReadProps(h) ==
  Request(h, "read", "write",
    hprops' = [hprops EXCEPT ![h] = props[Quad(h).subj]] /\ UNCHANGED db)

(* e1.SetProperties(props): all the properties are replaced.               *)
WriteProps(h) ==
  Request(h, "write", "count",
    /\ props' = [props EXCEPT ![Quad(h).subj] =
                   [hprops[h] EXCEPT ![Quad(h).pred] = hline[h]]]
    /\ UNCHANGED <<nodes, rels, hprops>>)

CountProcessed(h) ==
  /\ Alive /\ hpc[h] = "count"
  /\ ctr' = [ctr EXCEPT !.processed = @ + 1]
  /\ verdict' = [verdict EXCEPT ![hline[h]] = "processed"]
  /\ hpc' = [hpc EXCEPT ![h] = "range"]
  /\ hline' = [hline EXCEPT ![h] = None]
  /\ UNCHANGED <<readerVars, input, inputClosed, parserVars, done, cnq,
                 cnqClosed, hprops, db, wg, caller, report>>

HandlerExit(h) ==
  /\ Alive /\ hpc[h] = "range" /\ cnq = <<>> /\ cnqClosed
  /\ hpc' = [hpc EXCEPT ![h] = "exited"]
  /\ wg' = wg - 1
  /\ UNCHANGED <<readerVars, input, inputClosed, parserVars, done, cnq,
                 cnqClosed, hline, hprops, db, ctr, caller, history>>

HandleNQuads(h) ==
  \/ TakeQuad(h) \/ GetSubject(h) \/ GetObject(h) \/ Relate(h)
  \/ ReadProps(h) \/ WriteProps(h) \/ CountProcessed(h) \/ HandlerExit(h)

-----------------------------------------------------------------------------
(* HandleRdfReader.                                                        *)
(* Mutant: cnq is closed when the first parser is finished. *)
ParserDoneFirst ==
  /\ main = "collect" /\ done # <<>>
  /\ done' = Tail(done) /\ left' = left - 1
  /\ main' = IF Head(done) = "err" THEN "fatal" ELSE "wait"
  /\ cnqClosed' = (Head(done) # "err")
  /\ UNCHANGED <<readerVars, input, inputClosed, parserVars, cnq, handlerVars,
                 db, ctr, wg, history>>

(* One value from done; after the last one cnq is closed.                  *)
ParserDone ==
  /\ main = "collect" /\ done # <<>>
  /\ done' = Tail(done) /\ left' = left - 1
  /\ main' = IF Head(done) = "err" THEN "fatal"
             ELSE IF left' = 0 THEN "wait" ELSE main
  /\ cnqClosed' = (main' = "wait")
  /\ UNCHANGED <<readerVars, input, inputClosed, parserVars, cnq, handlerVars,
                 db, ctr, wg, history>>

(* Mutant: the counters are returned without waiting for the handlers. *)
ReturnNoWait ==
  /\ main = "wait"
  /\ main' = "returned"
  /\ report' = [v \in {"processed", "ignored"} |-> ctr[v]]
  /\ UNCHANGED <<readerVars, input, inputClosed, parserVars, done, cnq,
                 cnqClosed, handlerVars, db, ctr, wg, left, verdict>>

Return ==
  /\ main = "wait" /\ wg = 0
  /\ main' = "returned"
  /\ report' = [v \in {"processed", "ignored"} |-> ctr[v]]
  /\ UNCHANGED <<readerVars, input, inputClosed, parserVars, done, cnq,
                 cnqClosed, handlerVars, db, ctr, wg, left, verdict>>

HandleRdfReader == ParserDone \/ Return

(* scanner.Err() or an error from the database: glog.Fatal.                *)
Fatal ==
  /\ Faults /\ Alive
  /\ \/ reader \in {"fill", "scan"}
     \/ \E h \in Handlers : hpc[h] \in {"entity", "object", "relate", "read", "write"}
  /\ main' = "fatal"
  /\ UNCHANGED <<readerVars, input, inputClosed, parserVars, done, cnq,
                 cnqClosed, handlerVars, db, ctr, wg, left, history>>

Finished == main \in {"returned", "fatal"} /\ UNCHANGED vars

Next ==
  \/ ReadLines
  \/ \E p \in Parsers : ParseStream(p)
  \/ \E h \in Handlers : HandleNQuads(h)
  \/ HandleRdfReader
  \/ Fatal
  \/ Finished

(* Every goroutine that can run does, and the database answers.            *)
Fairness ==
  /\ WF_vars(ReadLines)
  /\ \A p \in Parsers : WF_vars(ParseStream(p))
  /\ \A h \in Handlers : WF_vars(HandleNQuads(h))
  /\ WF_vars(HandleRdfReader)

Spec == Init /\ [][Next]_vars /\ Fairness
-----------------------------------------------------------------------------
(* The types of the state, goroutine by goroutine.                         *)
ReaderTypes ==
  /\ Lines \in Files
  /\ reader \in {"fill", "scan", "drain", "exited"}
  /\ next \in 1..Len(Lines) + 1
  /\ buf \in Seq(Nums) /\ Len(buf) <= Window
  /\ input \in Seq(Nums) /\ Len(input) <= ChanCap
  /\ inputClosed \in BOOLEAN
ParserTypes ==
  /\ ppc \in [Parsers -> {"range", "send", "count", "exited"}]
  /\ pline \in [Parsers -> Quads \cup {None}]
  /\ done \in Seq({"nil", "err"}) /\ Len(done) <= Cardinality(Parsers)
HandlerTypes ==
  /\ hpc \in [Handlers -> {"range", "entity", "object", "relate", "read",
                           "write", "count", "exited"}]
  /\ hline \in [Handlers -> Wanted \cup {None}]
  /\ hprops \in [Handlers -> [Preds -> Nums \cup {None}]]
  /\ nodes \subseteq Subjects \cup {Lines[i].obj : i \in Nums}
  /\ rels \subseteq Wanted
  /\ props \in [Subjects -> [Preds -> Nums \cup {None}]]
CallerTypes ==
  /\ cnq \in Seq(Quads) /\ Len(cnq) <= ChanCap
  /\ cnqClosed \in BOOLEAN
  /\ wg \in 0..Cardinality(Handlers)
  /\ main \in {"collect", "wait", "returned", "fatal"}
  /\ left \in 0..Cardinality(Parsers)
CounterTypes ==
  /\ ctr \in [parsed : Nat, processed : Nat, ignored : Nat]
  /\ verdict \in [Quads -> {"processed", "ignored", Undecided}]
  /\ report \in [{"processed", "ignored"} -> Nat] \cup {Unpublished}

TypeOK == ReaderTypes /\ ParserTypes /\ HandlerTypes /\ CallerTypes /\ CounterTypes

(* Nobody sends on a closed channel, which would panic: cnq is closed only *)
(* when no parser can reach its send any more.                             *)
NoSendOnClosedCnq == cnqClosed => \A p \in Parsers : ppc[p] = "exited"

(* When HandleRdfReader returns, every line parsed and every quad was dealt*)
(* with, the sampled ones by requests to the database: their nodes and     *)
(* relationships are there and no others, and the properties a node has    *)
(* come from its own lines, each under its own predicate.                  *)
LoadComplete ==
  main = "returned" =>
    /\ \A i \in Nums : Lines[i].kind # "bad"
    /\ \A i \in Quads : verdict[i] = IF i \in Wanted THEN "processed" ELSE "ignored"
    /\ ctr.parsed = Cardinality(Quads)
    /\ rels = {i \in Wanted : Lines[i].kind = "edge"}
    /\ nodes = {Lines[i].subj : i \in Wanted} \cup {Lines[i].obj : i \in rels}
    /\ \A s \in Subjects, q \in Preds :
         props[s][q] # None =>
           /\ props[s][q] \in Wanted
           /\ Lines[props[s][q]].subj = s /\ Lines[props[s][q]].pred = q

(* The loader comes to an end: it returns or stops at an error.            *)
LoaderReturns == <>(main \in {"returned", "fatal"})

(* The comment in readLines: the lines are randomized to avoid contention  *)
(* on the same subject.  No handler writes back properties it read before  *)
(* another handler changed them.                                           *)
NoContention ==
  \A h \in Handlers : hpc[h] = "write" => hprops[h] = props[Quad(h).subj]

(* The loader implements Ledger: each quad is judged once, and the count is*)
(* published when all of them are.                                         *)
Verdicts == {"processed", "ignored"}
L == INSTANCE Ledger WITH ledger <- verdict
ImplementsLedger == L!LSpec
=============================================================================
