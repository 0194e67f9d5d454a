--------------------------- MODULE NeoLoaderProofs --------------------------
(***************************************************************************)
(* Proofs about NeoLoader and NeoPrinter, for every file of lines, sampling, window,      *)
(* channel capacity and number of parsers and handlers, with and without   *)
(* failures of the file and the database.                                  *)
(***************************************************************************)
EXTENDS NeoPrinter, FiniteSetTheorems, SequenceTheorems, TLAPS

(* A line is in a sequence, replaces the k-th one, is there only once.     *)
InSeq(s, i) == \E k \in 1..Len(s) : s[k] = i
Replaced(s, k, e) == [s EXCEPT ![k] = e]
Once(s) == \A j, k \in 1..Len(s) : s[j] = s[k] => j = k

(* The parsers and the handlers that have not returned, and the handlers   *)
(* between taking a quad and counting it.                                  *)
Live == {p \in Parsers : ppc[p] # "exited"}
Running == {h \in Handlers : hpc[h] # "exited"}
Busy(h) == hpc[h] \notin {"range", "exited"}

(* Where a line is on its way from the file to the database.               *)
AtParser(i)  == \E p \in Parsers : ppc[p] = "send" /\ pline[p] = i
AtHandler(i) == \E h \in Handlers : Busy(h) /\ hline[h] = i
Decided(i)   == i \in Quads /\ verdict[i] # Undecided

(* What it has still before it.                                            *)
ToRead(i)    == i >= next
ToShuffle(i) == ToRead(i) \/ InSeq(buf, i)
ToParse(i)   == ToShuffle(i) \/ InSeq(input, i)
ToSend(i)    == ToParse(i) \/ AtParser(i)
ToHandle(i)  == ToSend(i) \/ InSeq(cnq, i)
ToJudge(i)   == ToHandle(i) \/ AtHandler(i)

(* A parser has reported a line it could not parse.                        *)
Stopped == main = "fatal" \/ InSeq(done, "err")

-----------------------------------------------------------------------------
(* The inductive invariant, by parts.                                      *)

(* A goroutine that is to send or write a line holds one.                  *)
Holding ==
  /\ \A p \in Parsers : ppc[p] = "send" => pline[p] # None
  /\ \A h \in Handlers : Busy(h) => hline[h] # None

(* input is closed behind the last line of the file.                       *)
ReaderOrder ==
  /\ inputClosed <=> reader = "exited"
  /\ reader \in {"drain", "exited"} => next = Len(Lines) + 1
  /\ reader = "exited" => buf = <<>>

(* The caller waits for each parser once, and closes cnq behind the last.  *)
ParserOrder ==
  /\ Cardinality(Live) + Len(done) <= Cardinality(Parsers)
  /\ main = "collect" => left = Cardinality(Live) + Len(done) /\ ~cnqClosed
  /\ main \in {"wait", "returned"} => cnqClosed /\ done = <<>>
  /\ cnqClosed => Live = {}

(* A parser returns because input is at its end or because a line is bad.  *)
ParserEnds == Live # Parsers => Stopped \/ (input = <<>> /\ inputClosed)

(* A handler returns when cnq is at its end; the caller waits for all.     *)
HandlerOrder ==
  /\ wg = Cardinality(Running)
  /\ Running # Handlers => cnq = <<>> /\ cnqClosed
  /\ main = "returned" => Running = {}
  /\ report # Unpublished => Running = {}
  /\ main \in {"collect", "wait"} => report = Unpublished

(* A line is in one place only, and once.                                  *)
ParsersApart ==
  \A p, q \in Parsers :
    ppc[p] = "send" /\ ppc[q] = "send" /\ pline[p] = pline[q] => p = q
HandlersApart ==
  \A g, h \in Handlers : Busy(g) /\ Busy(h) /\ hline[g] = hline[h] => g = h
OncePlaced == Once(buf) /\ Once(input) /\ Once(cnq) /\ ParsersApart /\ HandlersApart

Apart ==
  \A i \in Nums :
    /\ InSeq(buf, i) => ~ToRead(i)
    /\ InSeq(input, i) => ~ToShuffle(i)
    /\ AtParser(i) => ~ToParse(i)
    /\ InSeq(cnq, i) => ~ToSend(i)
    /\ AtHandler(i) => ~ToHandle(i)
    /\ Decided(i) => ~ToJudge(i)

(* No quad is lost, and no line that cannot be parsed goes unnoticed.      *)
NoneLost ==
  /\ \A i \in Quads : ToJudge(i) \/ Decided(i)
  /\ \A i \in Nums : Lines[i].kind = "bad" => ToParse(i) \/ Stopped

(* The counters count lines.                                               *)
Sent == {i \in Quads : InSeq(cnq, i) \/ AtHandler(i) \/ Decided(i)}
Counting == {p \in Parsers : ppc[p] = "count"}
Given(v) == {i \in Quads : verdict[i] = v}

CountersRight ==
  /\ ctr.parsed + Cardinality(Counting) = Cardinality(Sent)
  /\ ctr.processed = Cardinality(Given("processed"))
  /\ ctr.ignored = Cardinality(Given("ignored"))

(* What a sampled line has left in the database so far.                    *)
Past(i, pcs) ==
  \/ verdict[i] = "processed"
  \/ \E h \in Handlers : hpc[h] \in pcs /\ hline[h] = i
AfterSubject == {"object", "relate", "read", "write", "count"}
AfterObject  == {"relate", "count"}
HasSubject(i) == Past(i, AfterSubject)
HasObject(i)  == Past(i, AfterObject)
HasEdge(i)    == Past(i, {"count"})

(* A property value is one of the sampled lines of its node and predicate. *)
OwnValue(i, s, q) == i \in Wanted /\ Lines[i].subj = s /\ Lines[i].pred = q

Route ==
  /\ \A i \in Quads :
       /\ verdict[i] = "processed" => i \in Wanted
       /\ verdict[i] = "ignored" => i \notin Wanted
  /\ \A h \in Handlers :
       /\ hpc[h] \in {"object", "relate"} => Lines[hline[h]].kind = "edge"
       /\ hpc[h] \in {"read", "write"} => Lines[hline[h]].kind # "edge"

RelsRight == rels = {i \in Wanted : Lines[i].kind = "edge" /\ HasEdge(i)}
NodesRight ==
  nodes = {Lines[i].subj : i \in {j \in Wanted : HasSubject(j)}}
            \cup {Lines[i].obj : i \in {j \in Wanted : Lines[j].kind = "edge" /\ HasObject(j)}}
PropsRight ==
  /\ \A s \in Subjects, q \in Preds :
       props[s][q] # None => OwnValue(props[s][q], s, q)
  /\ \A h \in Handlers : hpc[h] = "write" =>
       \A q \in Preds :
         hprops[h][q] # None => OwnValue(hprops[h][q], Lines[hline[h]].subj, q)

TypeInv == TypeOK /\ Holding
OrderInv == ReaderOrder /\ ParserOrder /\ ParserEnds /\ HandlerOrder
PlaceInv == OncePlaced /\ Apart /\ NoneLost
DataInv == Route /\ RelsRight /\ NodesRight /\ PropsRight
LoaderInv == TypeInv /\ OrderInv /\ PlaceInv /\ CountersRight /\ DataInv
-----------------------------------------------------------------------------
(* A channel or a window nothing is in.                                    *)
LEMMA NothingIn == \A i : ~InSeq(<<>>, i) /\ Once(<<>>)
  BY EmptySeq DEF InSeq, Once

(* Sending a line on a channel.                                            *)
LEMMA AppendHas ==
  ASSUME NEW S, NEW s \in Seq(S), NEW e \in S
  PROVE  /\ Append(s, e) \in Seq(S) /\ Len(Append(s, e)) = Len(s) + 1
         /\ \A i : InSeq(Append(s, e), i) <=> InSeq(s, i) \/ i = e
         /\ Once(s) /\ ~InSeq(s, e) => Once(Append(s, e))
<1> DEFINE t == Append(s, e)
<1>1. /\ t \in Seq(S) /\ Len(t) = Len(s) + 1 /\ Len(s) \in Nat
      /\ \A k \in 1..Len(s) : t[k] = s[k]
      /\ t[Len(s) + 1] = e
  BY AppendProperties, LenProperties
<1> HIDE DEF t
<1>2. \A i : InSeq(t, i) <=> InSeq(s, i) \/ i = e
  BY <1>1 DEF InSeq
<1>3. Once(s) /\ ~InSeq(s, e) => Once(t)
  BY <1>1 DEF InSeq, Once
<1> QED
  BY <1>1, <1>2, <1>3 DEF t

(* Receiving a line from a channel.                                        *)
LEMMA TailHas ==
  ASSUME NEW S, NEW s \in Seq(S), s # <<>>
  PROVE  /\ Head(s) \in S /\ Tail(s) \in Seq(S)
         /\ Len(s) >= 1 /\ Len(Tail(s)) = Len(s) - 1
         /\ \A i : InSeq(s, i) <=> InSeq(Tail(s), i) \/ i = Head(s)
         /\ Once(s) => Once(Tail(s)) /\ ~InSeq(Tail(s), Head(s))
<1> DEFINE t == Tail(s)
<1>1. /\ Head(s) \in S /\ t \in Seq(S)
      /\ Len(s) \in Nat /\ Len(s) >= 1 /\ Len(t) = Len(s) - 1 /\ Len(t) \in Nat
      /\ Head(s) = s[1]
      /\ \A k \in 1..Len(t) : t[k] = s[k + 1]
  BY HeadTailProperties, EmptySeq, LenProperties
<1> HIDE DEF t
<1>2. \A i : InSeq(t, i) => InSeq(s, i)
  BY <1>1 DEF InSeq
<1>3. InSeq(s, Head(s))
  BY <1>1 DEF InSeq
<1>4. ASSUME NEW i, InSeq(s, i), i # Head(s) PROVE InSeq(t, i)
  <2>1. PICK k \in 1..Len(s) : s[k] = i
    BY <1>4 DEF InSeq
  <2>2. k - 1 \in 1..Len(t) /\ (k - 1) + 1 = k
    BY <1>1, <1>4, <2>1
  <2>3. t[k - 1] = i
    BY <1>1, <2>1, <2>2
  <2> QED
    BY <2>2, <2>3 DEF InSeq
<1>5. Once(s) => Once(t) /\ ~InSeq(t, Head(s))
  BY <1>1 DEF InSeq, Once
<1> QED
  BY <1>1, <1>2, <1>3, <1>4, <1>5 DEF t

(* Putting a line in the place of another in the window.                   *)
LEMMA ReplaceHas ==
  ASSUME NEW S, NEW s \in Seq(S), NEW k \in DOMAIN s, NEW e \in S
  PROVE  /\ Replaced(s, k, e) \in Seq(S) /\ Len(Replaced(s, k, e)) = Len(s)
         /\ s[k] \in S /\ InSeq(s, s[k]) /\ InSeq(Replaced(s, k, e), e)
         /\ \A i : InSeq(Replaced(s, k, e), i) => InSeq(s, i) \/ i = e
         /\ \A i : InSeq(s, i) => InSeq(Replaced(s, k, e), i) \/ i = s[k]
         /\ Once(s) /\ ~InSeq(s, e) =>
              Once(Replaced(s, k, e)) /\ ~InSeq(Replaced(s, k, e), s[k])
<1> DEFINE t == Replaced(s, k, e)
<1>1. /\ Len(s) \in Nat /\ DOMAIN s = 1..Len(s) /\ s \in [1..Len(s) -> S]
  BY LenProperties
<1>2. /\ t \in Seq(S) /\ Len(t) = Len(s)
      /\ \A j \in 1..Len(s) : t[j] = IF j = k THEN e ELSE s[j]
  BY <1>1, ExceptSeq DEF Replaced
<1> HIDE DEF t
<1>3. s[k] \in S /\ InSeq(s, s[k]) /\ InSeq(t, e)
  BY <1>1, <1>2 DEF InSeq
<1>4. \A i : InSeq(t, i) => InSeq(s, i) \/ i = e
  BY <1>1, <1>2 DEF InSeq
<1>5. \A i : InSeq(s, i) => InSeq(t, i) \/ i = s[k]
  BY <1>1, <1>2 DEF InSeq
<1>6. Once(s) /\ ~InSeq(s, e) => Once(t) /\ ~InSeq(t, s[k])
  BY <1>1, <1>2 DEF InSeq, Once
<1> QED
  BY <1>2, <1>3, <1>4, <1>5, <1>6 DEF t

-----------------------------------------------------------------------------
(* What the loader can do next.                                            *)
LEMMA Steps ==
  [Next]_vars =>
    \/ FillWindow \/ SwapLine \/ EndOfFile \/ Drain
    \/ \E p \in Parsers : ParseLine(p) \/ SendQuad(p) \/ CountParsed(p) \/ ParserExit(p)
    \/ \E h \in Handlers :
         \/ TakeQuad(h) \/ GetSubject(h) \/ GetObject(h) \/ Relate(h)
         \/ ReadProps(h) \/ WriteProps(h) \/ CountProcessed(h) \/ HandlerExit(h)
    \/ ParserDone \/ Return \/ Fatal
    \/ UNCHANGED vars
  BY DEF Next, ReadLines, ParseStream, HandleNQuads, HandleRdfReader, Finished

(* The file does not change under the loader.                              *)
LEMMA FileKept ==
  [Next]_vars =>
    /\ Lines' = Lines /\ Nums' = Nums /\ Quads' = Quads /\ Wanted' = Wanted
    /\ Subjects' = Subjects /\ Preds' = Preds
<1> SUFFICES ASSUME [Next]_vars
             PROVE  /\ Lines' = Lines /\ Nums' = Nums /\ Quads' = Quads
                    /\ Wanted' = Wanted /\ Subjects' = Subjects /\ Preds' = Preds
  OBVIOUS
<1>1. Lines' = Lines
  BY Steps
  DEF FillWindow, SwapLine, EndOfFile, Drain, ParseLine, SendQuad, CountParsed,
      ParserExit, TakeQuad, GetSubject, GetObject, Relate, ReadProps, WriteProps,
      CountProcessed, HandlerExit, Request, ParserDone, Return, Fatal, readerVars,
      vars
<1> QED
  BY <1>1 DEF Nums, Quads, Wanted, Subjects, Preds

(* The lines of a file are numbered, and 0 is the number of none.          *)
LEMMA FileFacts ==
  TypeOK =>
    /\ Len(Lines) \in Nat /\ Nums = 1..Len(Lines)
    /\ Quads \subseteq Nums /\ Wanted \subseteq Quads /\ None \notin Nums
    /\ \A i \in Nums : Lines[i].kind \in Kinds
    /\ \A i \in Quads : Lines[i].subj \in Subjects /\ Lines[i].pred \in Preds
    /\ IsFiniteSet(Quads)
<1> SUFFICES ASSUME TypeOK
             PROVE  /\ Len(Lines) \in Nat /\ Nums = 1..Len(Lines)
                    /\ Quads \subseteq Nums /\ Wanted \subseteq Quads /\ None \notin Nums
                    /\ \A i \in Nums : Lines[i].kind \in Kinds
                    /\ \A i \in Quads : Lines[i].subj \in Subjects /\ Lines[i].pred \in Preds
                    /\ IsFiniteSet(Quads)
  OBVIOUS
<1> DEFINE R == [kind : Kinds, subj : STRING, pred : STRING, obj : STRING]
<1>1. Lines \in Seq(R)
  BY LoaderAssumption DEF TypeOK, ReaderTypes
<1>2. Len(Lines) \in Nat /\ Nums = 1..Len(Lines) /\ \A i \in Nums : Lines[i] \in R
  BY <1>1, LenProperties DEF Nums
<1>3. \A i \in Nums : Lines[i].kind \in Kinds
  BY <1>2
<1>4. Quads \subseteq Nums /\ Wanted \subseteq Quads /\ None \notin Nums
  BY <1>2 DEF Quads, Wanted, None
<1>5. \A i \in Quads : Lines[i].subj \in Subjects /\ Lines[i].pred \in Preds
  BY DEF Subjects, Preds
<1>6. IsFiniteSet(Quads)
  <2>1. IsFiniteSet(1..Len(Lines))
    BY <1>2, FS_Interval
  <2> QED
    BY <1>2, <1>4, <2>1, FS_Subset
<1> QED
  BY <1>2, <1>3, <1>4, <1>5, <1>6

(* The parsers and the handlers that run are finitely many.                *)
LEMMA RunningFinite ==
  /\ IsFiniteSet(Live) /\ Cardinality(Live) \in Nat
  /\ IsFiniteSet(Running) /\ Cardinality(Running) \in Nat
  /\ Cardinality(Parsers) \in Nat /\ Cardinality(Handlers) \in Nat
  /\ Cardinality(Live) <= Cardinality(Parsers)
  /\ Cardinality(Running) <= Cardinality(Handlers)
<1>1. Live \subseteq Parsers /\ Running \subseteq Handlers
  BY DEF Live, Running
<1>2. IsFiniteSet(Parsers) /\ IsFiniteSet(Handlers)
  BY LoaderAssumption
<1> QED
  BY <1>1, <1>2, FS_Subset, FS_CardinalityType

(* The loader starts well typed.                                           *)
LEMMA TypeInvInit == Init => TypeInv
<1> SUFFICES ASSUME Init PROVE TypeInv
  OBVIOUS
<1>1. Lines \in Files /\ Len(Lines) \in Nat
  BY LoaderAssumption, LenProperties DEF Init
<1>2. <<>> \in Seq(Nums) /\ <<>> \in Seq(Quads) /\ <<>> \in Seq({"nil", "err"}) /\ Len(<<>>) = 0
  BY EmptySeq
<1>3. Window \in Nat /\ ChanCap \in Nat /\ Cardinality(Parsers) \in Nat /\ Cardinality(Handlers) \in Nat
  BY RunningFinite, LoaderAssumption
<1>4. /\ reader \in {"fill", "scan", "drain", "exited"} /\ next \in 1..Len(Lines) + 1
      /\ buf \in Seq(Nums) /\ Len(buf) <= Window
      /\ input \in Seq(Nums) /\ Len(input) <= ChanCap
      /\ cnq \in Seq(Quads) /\ Len(cnq) <= ChanCap
      /\ inputClosed \in BOOLEAN /\ cnqClosed \in BOOLEAN
      /\ done \in Seq({"nil", "err"}) /\ Len(done) <= Cardinality(Parsers)
      /\ wg \in 0..Cardinality(Handlers) /\ left \in 0..Cardinality(Parsers)
  <2>1. /\ reader = "fill" /\ next = 1 /\ buf = <<>> /\ input = <<>> /\ cnq = <<>>
        /\ inputClosed = FALSE /\ cnqClosed = FALSE /\ done = <<>>
        /\ wg = Cardinality(Handlers) /\ left = Cardinality(Parsers)
    BY DEF Init
  <2>2. 1 \in 1..Len(Lines) + 1
    BY <1>1
  <2>3. Cardinality(Handlers) \in 0..Cardinality(Handlers) /\ Cardinality(Parsers) \in 0..Cardinality(Parsers)
    BY <1>3
  <2>4. 0 <= Window /\ 0 <= ChanCap /\ 0 <= Cardinality(Parsers)
    BY <1>3
  <2> QED
    BY <1>2, <2>1, <2>2, <2>3, <2>4
<1>5. /\ ppc \in [Parsers -> {"range", "send", "count", "exited"}]
      /\ pline \in [Parsers -> Quads \cup {None}]
      /\ hpc \in [Handlers -> {"range", "entity", "object", "relate", "read",
                               "write", "count", "exited"}]
      /\ hline \in [Handlers -> Wanted \cup {None}]
      /\ hprops \in [Handlers -> [Preds -> Nums \cup {None}]]
      /\ props \in [Subjects -> [Preds -> Nums \cup {None}]]
      /\ verdict \in [Quads -> {"processed", "ignored", Undecided}]
  BY DEF Init
<1>6. /\ nodes \subseteq Subjects \cup {Lines[i].obj : i \in Nums} /\ rels \subseteq Wanted
      /\ ctr \in [parsed : Nat, processed : Nat, ignored : Nat]
      /\ main \in {"collect", "wait", "returned", "fatal"}
      /\ report \in [{"processed", "ignored"} -> Nat] \cup {Unpublished}
  BY DEF Init
<1>7. TypeOK
  BY <1>1, <1>4, <1>5, <1>6
  DEF TypeOK, ReaderTypes, ParserTypes, HandlerTypes, CallerTypes, CounterTypes
<1>8. Holding
  BY DEF Init, Holding, Busy
<1> QED
  BY <1>7, <1>8 DEF TypeInv

(* A parser that returns is one parser fewer and one value more in done;   *)
(* done never has more values than there are parsers.                      *)
LEMMA OneFewer ==
  ASSUME TypeOK, ParserOrder, NEW p \in Parsers, ppc[p] = "range", NEW e \in {"nil", "err"},
         ppc' = [ppc EXCEPT ![p] = "exited"], done' = Append(done, e)
  PROVE  /\ Live' = Live \ {p} /\ p \in Live
         /\ Cardinality(Live') + Len(done') = Cardinality(Live) + Len(done)
         /\ done' \in Seq({"nil", "err"}) /\ Len(done') <= Cardinality(Parsers)
         /\ \A i : InSeq(done', i) <=> InSeq(done, i) \/ i = e
<1>1. p \in Live /\ Live' = Live \ {p}
  BY DEF TypeOK, ParserTypes, Live
<1>2. Cardinality(Live') = Cardinality(Live) - 1
  BY <1>1, RunningFinite, FS_RemoveElement
<1>3. Cardinality(Live) # 0
  BY <1>1, RunningFinite, FS_EmptySet
<1>4. done \in Seq({"nil", "err"}) /\ Len(done) \in Nat
  BY LenProperties DEF TypeOK, ParserTypes
<1>5. /\ done' \in Seq({"nil", "err"}) /\ Len(done') = Len(done) + 1
      /\ \A i : InSeq(done', i) <=> InSeq(done, i) \/ i = e
  BY <1>4, AppendHas
<1> QED
  BY <1>1, <1>2, <1>3, <1>4, <1>5, RunningFinite DEF ParserOrder

(* A handler that returns is one fewer for the WaitGroup.                  *)
LEMMA OneHandlerFewer ==
  ASSUME TypeOK, HandlerOrder, NEW h \in Handlers, hpc[h] = "range",
         hpc' = [hpc EXCEPT ![h] = "exited"], wg' = wg - 1
  PROVE  /\ Running' = Running \ {h} /\ h \in Running
         /\ wg' = Cardinality(Running') /\ wg' \in 0..Cardinality(Handlers)
<1>1. h \in Running /\ Running' = Running \ {h}
  BY DEF TypeOK, HandlerTypes, Running
<1>2. Cardinality(Running') = Cardinality(Running) - 1
  BY <1>1, RunningFinite, FS_RemoveElement
<1>3. Cardinality(Running) # 0
  BY <1>1, RunningFinite, FS_EmptySet
<1> QED
  BY <1>1, <1>2, <1>3, RunningFinite DEF HandlerOrder

(* Who changes what: the file and input are touched by readLines and by    *)
(* the parser that takes a line, and by nobody else.                       *)
LEMMA ReaderSteps ==
  [Next]_vars =>
    \/ FillWindow \/ SwapLine \/ EndOfFile \/ Drain
    \/ \E p \in Parsers : ParseLine(p)
    \/ UNCHANGED <<reader, next, buf, input, inputClosed>>
  BY Steps
  DEF SendQuad, CountParsed, ParserExit, TakeQuad, GetSubject, GetObject, Relate,
      ReadProps, WriteProps, CountProcessed, HandlerExit, Request, ParserDone,
      Return, Fatal, readerVars, vars

(* The parsers and done are touched by the parsers and by the caller that  *)
(* takes a value from done.                                                *)
LEMMA ParserSteps ==
  [Next]_vars =>
    \/ \E p \in Parsers : ParseLine(p) \/ SendQuad(p) \/ CountParsed(p) \/ ParserExit(p)
    \/ ParserDone
    \/ UNCHANGED <<ppc, pline, done>>
  BY Steps
  DEF FillWindow, SwapLine, EndOfFile, Drain, TakeQuad, GetSubject, GetObject,
      Relate, ReadProps, WriteProps, CountProcessed, HandlerExit, Request, Return,
      Fatal, parserVars, vars

(* The handlers and the database are touched by the handlers alone.        *)
LEMMA HandlerSteps ==
  [Next]_vars =>
    \/ \E h \in Handlers :
         \/ TakeQuad(h) \/ GetSubject(h) \/ GetObject(h) \/ Relate(h)
         \/ ReadProps(h) \/ WriteProps(h) \/ CountProcessed(h) \/ HandlerExit(h)
    \/ UNCHANGED <<hpc, hline, hprops, nodes, rels, props>>
  BY Steps
  DEF FillWindow, SwapLine, EndOfFile, Drain, ParseLine, SendQuad, CountParsed,
      ParserExit, ParserDone, Return, Fatal, handlerVars, db, vars

(* cnq is touched at its two ends and by the caller that closes it, the    *)
(* WaitGroup by the handlers that return, the caller by itself and by      *)
(* glog.Fatal.                                                             *)
LEMMA CallerSteps ==
  [Next]_vars =>
    \/ \E p \in Parsers : SendQuad(p)
    \/ \E h \in Handlers : TakeQuad(h) \/ HandlerExit(h)
    \/ ParserDone \/ Return \/ Fatal
    \/ UNCHANGED <<cnq, cnqClosed, wg, main, left>>
  BY Steps
  DEF FillWindow, SwapLine, EndOfFile, Drain, ParseLine, CountParsed, ParserExit,
      GetSubject, GetObject, Relate, ReadProps, WriteProps, CountProcessed,
      Request, caller, vars

(* The counters and what they are compared with change where a quad is     *)
(* counted, and the report where HandleRdfReader returns.                  *)
LEMMA CounterSteps ==
  [Next]_vars =>
    \/ \E p \in Parsers : CountParsed(p)
    \/ \E h \in Handlers : TakeQuad(h) \/ CountProcessed(h)
    \/ Return
    \/ UNCHANGED <<ctr, verdict, report>>
  BY Steps
  DEF FillWindow, SwapLine, EndOfFile, Drain, ParseLine, SendQuad, ParserExit,
      GetSubject, GetObject, Relate, ReadProps, WriteProps, HandlerExit, Request,
      ParserDone, Fatal, history, vars

-----------------------------------------------------------------------------
(* What one step of readLines does: a line moves into the window, from the *)
(* window into input, or nothing moves.                                    *)
LEMMA FillEffect ==
  ASSUME TypeOK, FillWindow
  PROVE  /\ reader = "fill" /\ UNCHANGED <<Lines, input, inputClosed>>
         /\ \/ /\ next \in Nums /\ next' = next + 1 /\ reader' = reader
               /\ buf' \in Seq(Nums) /\ Len(buf') <= Window
               /\ \A i : InSeq(buf', i) <=> InSeq(buf, i) \/ i = next
               /\ Once(buf) /\ ~InSeq(buf, next) => Once(buf')
            \/ reader' = "scan" /\ UNCHANGED <<next, buf>>
<1>1. /\ Len(Lines) \in Nat /\ Nums = 1..Len(Lines) /\ next \in 1..Len(Lines) + 1
      /\ buf \in Seq(Nums) /\ Len(buf) \in Nat /\ Window \in Nat
  BY FileFacts, LenProperties, LoaderAssumption DEF TypeOK, ReaderTypes
<1>2. CASE Len(buf) < Window /\ next <= Len(Lines)
  <2>1. next \in Nums /\ next' = next + 1 /\ reader' = reader /\ buf' = Append(buf, next)
    BY <1>1, <1>2 DEF FillWindow
  <2>2. /\ buf' \in Seq(Nums) /\ Len(buf') = Len(buf) + 1
        /\ \A i : InSeq(buf', i) <=> InSeq(buf, i) \/ i = next
        /\ Once(buf) /\ ~InSeq(buf, next) => Once(buf')
    BY <1>1, <2>1, AppendHas
  <2>3. Len(buf') <= Window
    BY <1>1, <1>2, <2>2
  <2> QED
    BY <2>1, <2>2, <2>3 DEF FillWindow
<1>3. CASE ~(Len(buf) < Window /\ next <= Len(Lines))
  BY <1>3 DEF FillWindow
<1> QED
  BY <1>2, <1>3

(* In the scan loop of readLines a line of the window goes to input and    *)
(* the line just read takes its place.                                     *)
LEMMA SwapEffect ==
  ASSUME TypeOK, SwapLine
  PROVE  /\ reader = "scan" /\ reader' = reader /\ UNCHANGED <<Lines, inputClosed>>
         /\ next \in Nums /\ next' = next + 1
         /\ buf' \in Seq(Nums) /\ Len(buf') <= Window
         /\ input' \in Seq(Nums) /\ Len(input') <= ChanCap
         /\ \E i \in Nums :
              /\ InSeq(buf, i) /\ InSeq(buf', next)
              /\ \A j : InSeq(input', j) <=> InSeq(input, j) \/ j = i
              /\ \A j : InSeq(buf', j) => InSeq(buf, j) \/ j = next
              /\ \A j : InSeq(buf, j) => InSeq(buf', j) \/ j = i
              /\ Once(input) /\ ~InSeq(input, i) => Once(input')
              /\ Once(buf) /\ ~InSeq(buf, next) => Once(buf') /\ ~InSeq(buf', i)
<1>1. /\ Len(Lines) \in Nat /\ Nums = 1..Len(Lines) /\ next \in 1..Len(Lines) + 1
      /\ buf \in Seq(Nums) /\ Len(buf) <= Window
      /\ input \in Seq(Nums) /\ Len(input) \in Nat /\ ChanCap \in Nat
  BY FileFacts, LenProperties, LoaderAssumption DEF TypeOK, ReaderTypes
<1>2. /\ reader = "scan" /\ reader' = reader /\ UNCHANGED <<Lines, inputClosed>>
      /\ next <= Len(Lines) /\ next' = next + 1 /\ Len(input) < ChanCap
  BY DEF SwapLine, readerVars
<1>3. next \in Nums
  BY <1>1, <1>2
<1>4. PICK k \in DOMAIN buf : input' = Append(input, buf[k]) /\ buf' = [buf EXCEPT ![k] = next]
  BY DEF SwapLine
<1>5. /\ buf' \in Seq(Nums) /\ Len(buf') = Len(buf) /\ buf[k] \in Nums /\ InSeq(buf, buf[k])
      /\ \A j : InSeq(buf', j) => InSeq(buf, j) \/ j = next
      /\ \A j : InSeq(buf, j) => InSeq(buf', j) \/ j = buf[k]
      /\ InSeq(buf', next)
      /\ Once(buf) /\ ~InSeq(buf, next) => Once(buf') /\ ~InSeq(buf', buf[k])
  <2>1. buf' = Replaced(buf, k, next)
    BY <1>4 DEF Replaced
  <2>2. k \in DOMAIN buf /\ buf \in Seq(Nums)
    BY <1>1
  <2>3. /\ Replaced(buf, k, next) \in Seq(Nums) /\ Len(Replaced(buf, k, next)) = Len(buf)
        /\ buf[k] \in Nums /\ InSeq(buf, buf[k]) /\ InSeq(Replaced(buf, k, next), next)
        /\ \A j : InSeq(Replaced(buf, k, next), j) => InSeq(buf, j) \/ j = next
        /\ \A j : InSeq(buf, j) => InSeq(Replaced(buf, k, next), j) \/ j = buf[k]
        /\ Once(buf) /\ ~InSeq(buf, next) =>
             Once(Replaced(buf, k, next)) /\ ~InSeq(Replaced(buf, k, next), buf[k])
    BY <1>3, <2>2, ReplaceHas
  <2> QED
    BY <2>1, <2>3
<1>6. /\ input' \in Seq(Nums) /\ Len(input') = Len(input) + 1
      /\ \A j : InSeq(input', j) <=> InSeq(input, j) \/ j = buf[k]
      /\ Once(input) /\ ~InSeq(input, buf[k]) => Once(input')
  BY <1>1, <1>4, <1>5, AppendHas
<1>7. Len(input') <= ChanCap
  BY <1>1, <1>2, <1>6
<1> QED
  BY <1>1, <1>2, <1>3, <1>5, <1>6, <1>7

(* At the end of the file the first line of the window goes to input, or   *)
(* input is closed.                                                        *)
LEMMA DrainEffect ==
  ASSUME TypeOK, Drain
  PROVE  /\ reader = "drain" /\ UNCHANGED <<Lines, next>>
         /\ buf' \in Seq(Nums) /\ Len(buf') <= Window
         /\ input' \in Seq(Nums) /\ Len(input') <= ChanCap
         /\ \/ /\ reader' = reader /\ UNCHANGED inputClosed
               /\ \E i \in Nums :
                    /\ InSeq(buf, i)
                    /\ \A j : InSeq(input', j) <=> InSeq(input, j) \/ j = i
                    /\ \A j : InSeq(buf, j) <=> InSeq(buf', j) \/ j = i
                    /\ Once(input) /\ ~InSeq(input, i) => Once(input')
                    /\ Once(buf) => Once(buf') /\ ~InSeq(buf', i)
            \/ /\ buf = <<>> /\ inputClosed' = TRUE /\ reader' = "exited"
               /\ UNCHANGED <<input, buf>>
<1>1. /\ buf \in Seq(Nums) /\ Len(buf) <= Window /\ Len(buf) \in Nat /\ Window \in Nat
      /\ input \in Seq(Nums) /\ Len(input) \in Nat /\ ChanCap \in Nat
      /\ Len(input) <= ChanCap
  BY LenProperties, LoaderAssumption DEF TypeOK, ReaderTypes
<1>2. reader = "drain" /\ UNCHANGED <<Lines, next>>
  BY DEF Drain
<1>3. CASE buf # <<>>
  <2>1. /\ Len(input) < ChanCap /\ input' = Append(input, Head(buf)) /\ buf' = Tail(buf)
        /\ UNCHANGED <<reader, inputClosed>>
    BY <1>3 DEF Drain
  <2>2. /\ Head(buf) \in Nums /\ buf' \in Seq(Nums) /\ Len(buf') = Len(buf) - 1
        /\ \A j : InSeq(buf, j) <=> InSeq(buf', j) \/ j = Head(buf)
        /\ Once(buf) => Once(buf') /\ ~InSeq(buf', Head(buf))
    BY <1>1, <1>3, <2>1, TailHas
  <2>3. /\ input' \in Seq(Nums) /\ Len(input') = Len(input) + 1
        /\ \A j : InSeq(input', j) <=> InSeq(input, j) \/ j = Head(buf)
        /\ Once(input) /\ ~InSeq(input, Head(buf)) => Once(input')
    BY <1>1, <2>1, <2>2, AppendHas
  <2>4. Len(buf') <= Window /\ Len(input') <= ChanCap
    BY <1>1, <2>1, <2>2, <2>3
  <2> QED
    BY <1>2, <2>1, <2>2, <2>3, <2>4
<1>4. CASE buf = <<>>
  <2>1. inputClosed' = TRUE /\ reader' = "exited" /\ UNCHANGED <<input, buf>>
    BY <1>4 DEF Drain
  <2> QED
    BY <1>1, <1>2, <1>4, <2>1
<1> QED
  BY <1>3, <1>4

(* What one turn of a parser does: a line leaves input, and is skipped, is *)
(* reported, or is the quad the parser holds.                              *)
LEMMA ParseEffect ==
  ASSUME TypeOK, NEW p \in Parsers, ParseLine(p)
  PROVE  /\ ppc[p] = "range" /\ main # "fatal"
         /\ UNCHANGED <<Lines, reader, next, buf, inputClosed, cnq, cnqClosed, main, left>>
         /\ input' \in Seq(Nums) /\ Len(input') <= ChanCap
         /\ \E i \in Nums :
              /\ InSeq(input, i)
              /\ \A j : InSeq(input, j) <=> InSeq(input', j) \/ j = i
              /\ Once(input) => Once(input') /\ ~InSeq(input', i)
              /\ \/ /\ Lines[i].kind = "empty" /\ i \notin Quads
                    /\ UNCHANGED <<ppc, pline, done>>
                 \/ /\ Lines[i].kind = "bad" /\ i \notin Quads
                    /\ ppc' = [ppc EXCEPT ![p] = "exited"]
                    /\ done' = Append(done, "err") /\ UNCHANGED pline
                 \/ /\ Lines[i].kind # "bad" /\ i \in Quads
                    /\ ppc' = [ppc EXCEPT ![p] = "send"]
                    /\ pline' = [pline EXCEPT ![p] = i] /\ UNCHANGED done
<1> DEFINE i == Head(input)
<1>1. /\ input \in Seq(Nums) /\ Len(input) \in Nat /\ Len(input) <= ChanCap /\ ChanCap \in Nat
      /\ \A j \in Nums : Lines[j].kind \in Kinds
  BY LenProperties, FileFacts, LoaderAssumption DEF TypeOK, ReaderTypes
<1>2. /\ ppc[p] = "range" /\ main # "fatal" /\ input # <<>> /\ input' = Tail(input)
      /\ UNCHANGED <<Lines, reader, next, buf, inputClosed, cnq, cnqClosed, main, left>>
  BY DEF ParseLine, Alive, readerVars, caller
<1>3. /\ i \in Nums /\ input' \in Seq(Nums) /\ Len(input') = Len(input) - 1 /\ InSeq(input, i)
      /\ \A j : InSeq(input, j) <=> InSeq(input', j) \/ j = i
      /\ Once(input) => Once(input') /\ ~InSeq(input', i)
  BY <1>1, <1>2, TailHas
<1>4. Len(input') <= ChanCap
  BY <1>1, <1>3
<1>5. \/ /\ Lines[i].kind = "empty" /\ UNCHANGED <<ppc, pline, done>>
      \/ /\ Lines[i].kind = "bad" /\ ppc' = [ppc EXCEPT ![p] = "exited"]
         /\ done' = Append(done, "err") /\ UNCHANGED pline
      \/ /\ Lines[i].kind \notin {"empty", "bad"} /\ i \in Quads
         /\ ppc' = [ppc EXCEPT ![p] = "send"]
         /\ pline' = [pline EXCEPT ![p] = i] /\ UNCHANGED done
  <2>1. CASE Lines[i].kind = "empty"
    <3>1. Lines[i].kind # "bad" /\ i \notin Quads
      BY <2>1 DEF Quads
    <3> QED
      BY <2>1, <3>1 DEF ParseLine, parserVars
  <2>2. CASE Lines[i].kind = "bad"
    <3>1. Lines[i].kind # "empty" /\ i \notin Quads
      BY <2>2 DEF Quads
    <3> QED
      BY <2>2, <3>1 DEF ParseLine
  <2>3. CASE Lines[i].kind \in {"value", "edge"}
    <3>1. i \in Quads
      BY <1>3, <2>3 DEF Quads
    <3>2. /\ ppc' = [ppc EXCEPT ![p] = "send"] /\ pline' = [pline EXCEPT ![p] = i]
          /\ UNCHANGED done
      BY <2>3, <3>1 DEF ParseLine
    <3> QED
      BY <2>3, <3>1, <3>2
  <2> QED
    BY <1>1, <1>3, <2>1, <2>2, <2>3 DEF Kinds
<1> HIDE DEF i
<1>6. Lines[i].kind \in {"empty", "bad"} => i \notin Quads
  BY DEF Quads
<1> QED
  BY <1>2, <1>3, <1>4, <1>5, <1>6

(* A parser that sends puts the quad it holds at the end of cnq.           *)
LEMMA SendEffect ==
  ASSUME TypeOK, Holding, NEW p \in Parsers, SendQuad(p)
  PROVE  /\ ppc[p] = "send" /\ main # "fatal" /\ pline[p] \in Quads
         /\ UNCHANGED <<Lines, reader, next, buf, input, inputClosed, pline, done,
                        cnqClosed, hpc, hline, verdict, wg, main, left, ctr, report>>
         /\ ppc' = [ppc EXCEPT ![p] = "count"]
         /\ cnq' \in Seq(Quads) /\ Len(cnq') <= ChanCap /\ cnq' # <<>>
         /\ \A j : InSeq(cnq', j) <=> InSeq(cnq, j) \/ j = pline[p]
         /\ Once(cnq) /\ ~InSeq(cnq, pline[p]) => Once(cnq')
<1>1. /\ cnq \in Seq(Quads) /\ Len(cnq) \in Nat /\ ChanCap \in Nat
      /\ pline \in [Parsers -> Quads \cup {None}]
  BY LenProperties, LoaderAssumption DEF TypeOK, CallerTypes, ParserTypes
<1>2. /\ ppc[p] = "send" /\ main # "fatal" /\ Len(cnq) < ChanCap
      /\ UNCHANGED <<Lines, reader, next, buf, input, inputClosed, pline, done,
                     cnqClosed, hpc, hline, verdict, wg, main, left, ctr, report>>
      /\ ppc' = [ppc EXCEPT ![p] = "count"] /\ cnq' = Append(cnq, pline[p])
  BY DEF SendQuad, Alive, readerVars, handlerVars, caller, history
<1>3. pline[p] \in Quads
  BY <1>1, <1>2 DEF Holding
<1>4. /\ cnq' \in Seq(Quads) /\ Len(cnq') = Len(cnq) + 1
      /\ \A j : InSeq(cnq', j) <=> InSeq(cnq, j) \/ j = pline[p]
      /\ Once(cnq) /\ ~InSeq(cnq, pline[p]) => Once(cnq')
  BY <1>1, <1>2, <1>3, AppendHas
<1>5. Len(cnq') <= ChanCap /\ cnq' # <<>>
  BY <1>1, <1>2, <1>4, NothingIn
<1> QED
  BY <1>2, <1>3, <1>4, <1>5

(* What taking a quad from cnq does: it is held, or counted as ignored.    *)
LEMMA TakeEffect ==
  ASSUME TypeOK, NEW h \in Handlers, TakeQuad(h)
  PROVE  /\ hpc[h] = "range" /\ main # "fatal" /\ cnq # <<>>
         /\ UNCHANGED <<Lines, reader, next, buf, input, inputClosed, ppc, pline, done,
                        cnqClosed, hprops, nodes, rels, props, wg, main, left, report>>
         /\ cnq' \in Seq(Quads) /\ Len(cnq') <= ChanCap
         /\ \E i \in Quads :
              /\ InSeq(cnq, i)
              /\ \A j : InSeq(cnq, j) <=> InSeq(cnq', j) \/ j = i
              /\ Once(cnq) => Once(cnq') /\ ~InSeq(cnq', i)
              /\ \/ /\ i \in Wanted
                    /\ hline' = [hline EXCEPT ![h] = i]
                    /\ hpc' = [hpc EXCEPT ![h] = "entity"]
                    /\ UNCHANGED <<ctr, verdict>>
                 \/ /\ i \notin Wanted
                    /\ ctr' = [ctr EXCEPT !.ignored = @ + 1]
                    /\ verdict' = [verdict EXCEPT ![i] = "ignored"]
                    /\ UNCHANGED <<hline, hpc>>
<1> DEFINE i == Head(cnq)
<1>1. /\ cnq \in Seq(Quads) /\ Len(cnq) \in Nat /\ Len(cnq) <= ChanCap /\ ChanCap \in Nat
  BY LenProperties, LoaderAssumption DEF TypeOK, CallerTypes
<1>2. /\ hpc[h] = "range" /\ main # "fatal" /\ cnq # <<>> /\ cnq' = Tail(cnq)
      /\ UNCHANGED <<Lines, reader, next, buf, input, inputClosed, ppc, pline, done,
                     cnqClosed, hprops, nodes, rels, props, wg, main, left, report>>
  BY DEF TakeQuad, Alive, readerVars, parserVars, db, caller
<1>3. /\ i \in Quads /\ cnq' \in Seq(Quads) /\ Len(cnq') = Len(cnq) - 1 /\ InSeq(cnq, i)
      /\ \A j : InSeq(cnq, j) <=> InSeq(cnq', j) \/ j = i
      /\ Once(cnq) => Once(cnq') /\ ~InSeq(cnq', i)
  BY <1>1, <1>2, TailHas
<1>4. Len(cnq') <= ChanCap
  BY <1>1, <1>3
<1>5. \/ /\ i \in Wanted
         /\ hline' = [hline EXCEPT ![h] = i] /\ hpc' = [hpc EXCEPT ![h] = "entity"]
         /\ UNCHANGED <<ctr, verdict>>
      \/ /\ i \notin Wanted
         /\ ctr' = [ctr EXCEPT !.ignored = @ + 1]
         /\ verdict' = [verdict EXCEPT ![i] = "ignored"]
         /\ UNCHANGED <<hline, hpc>>
  BY DEF TakeQuad
<1> HIDE DEF i
<1> QED
  BY <1>2, <1>3, <1>4, <1>5

-----------------------------------------------------------------------------
(* Every step of the loader keeps the types of the window and of input,    *)
(* and input within its capacity.                                          *)
LEMMA ReaderTypesStep == TypeOK /\ [Next]_vars => ReaderTypes'
<1> SUFFICES ASSUME TypeOK, [Next]_vars PROVE ReaderTypes'
  OBVIOUS
<1>a. Lines' = Lines /\ Nums' = Nums
  BY FileKept
<1>b. Len(Lines) \in Nat /\ Nums = 1..Len(Lines)
  BY FileFacts
<1> USE <1>a, <1>b DEF TypeOK, ReaderTypes
<1>1. CASE FillWindow
  BY <1>1, FillEffect
<1>2. CASE SwapLine
  BY <1>2, SwapEffect
<1>3. CASE EndOfFile
  BY <1>3 DEF EndOfFile
<1>4. CASE Drain
  BY <1>4, DrainEffect
<1>5. ASSUME NEW p \in Parsers, ParseLine(p) PROVE ReaderTypes'
  BY <1>5, ParseEffect
<1>6. CASE UNCHANGED <<reader, next, buf, input, inputClosed>>
  BY <1>6
<1> QED
  BY <1>1, <1>2, <1>3, <1>4, <1>5, <1>6, ReaderSteps

(* A parser that is to send a quad holds one.                              *)
ParserHolds == \A p \in Parsers : ppc[p] = "send" => pline[p] # None

(* Every step keeps the types of the parsers, the quads they are to send,  *)
(* and done within the room it has: a parser reports once.                 *)
LEMMA ParserTypesStep ==
  TypeInv /\ OrderInv /\ [Next]_vars => ParserTypes' /\ ParserHolds'
<1> SUFFICES ASSUME TypeInv, OrderInv, [Next]_vars PROVE ParserTypes' /\ ParserHolds'
  OBVIOUS
<1>a. Lines' = Lines /\ Nums' = Nums /\ Quads' = Quads
  BY FileKept
<1>b. Quads \subseteq Nums /\ None \notin Nums /\ TypeOK /\ Holding /\ ParserOrder
  BY FileFacts DEF TypeInv, OrderInv
<1>c. /\ ppc \in [Parsers -> {"range", "send", "count", "exited"}]
      /\ pline \in [Parsers -> Quads \cup {None}]
      /\ done \in Seq({"nil", "err"}) /\ Len(done) <= Cardinality(Parsers)
      /\ ParserHolds
  BY <1>b DEF TypeOK, ParserTypes, Holding, ParserHolds
<1> USE <1>a, <1>b, <1>c DEF ParserTypes, ParserHolds
<1>1. ASSUME NEW p \in Parsers, ParseLine(p) PROVE ParserTypes' /\ ParserHolds'
  <2>1. PICK i \in Nums :
          \/ UNCHANGED <<ppc, pline, done>>
          \/ /\ ppc' = [ppc EXCEPT ![p] = "exited"]
             /\ done' = Append(done, "err") /\ UNCHANGED pline
          \/ /\ i \in Quads /\ ppc' = [ppc EXCEPT ![p] = "send"]
             /\ pline' = [pline EXCEPT ![p] = i] /\ UNCHANGED done
    BY <1>1, ParseEffect
  <2>2. CASE UNCHANGED <<ppc, pline, done>>
    BY <2>2
  <2>3. CASE /\ ppc' = [ppc EXCEPT ![p] = "exited"]
             /\ done' = Append(done, "err") /\ UNCHANGED pline
    <3>1. ppc[p] = "range"
      BY <1>1, ParseEffect
    <3>2. Len(done') <= Cardinality(Parsers) /\ done' \in Seq({"nil", "err"})
      BY <2>3, <3>1, OneFewer
    <3> QED
      BY <2>3, <3>2
  <2>4. CASE /\ i \in Quads /\ ppc' = [ppc EXCEPT ![p] = "send"]
             /\ pline' = [pline EXCEPT ![p] = i] /\ UNCHANGED done
    BY <2>4
  <2> QED
    BY <2>1, <2>2, <2>3, <2>4
<1>2. ASSUME NEW p \in Parsers, SendQuad(p) PROVE ParserTypes' /\ ParserHolds'
  BY <1>2 DEF SendQuad
<1>3. ASSUME NEW p \in Parsers, CountParsed(p) PROVE ParserTypes' /\ ParserHolds'
  BY <1>3 DEF CountParsed
<1>4. ASSUME NEW p \in Parsers, ParserExit(p) PROVE ParserTypes' /\ ParserHolds'
  <2>1. /\ ppc[p] = "range" /\ ppc' = [ppc EXCEPT ![p] = "exited"]
        /\ done' = Append(done, "nil") /\ pline' = pline
    BY <1>4 DEF ParserExit
  <2>2. Len(done') <= Cardinality(Parsers) /\ done' \in Seq({"nil", "err"})
    BY <2>1, OneFewer
  <2> QED
    BY <2>1, <2>2
<1>5. CASE ParserDone
  <2>1. done # <<>> /\ done' = Tail(done) /\ UNCHANGED <<ppc, pline>>
    BY <1>5 DEF ParserDone, parserVars
  <2>2. done' \in Seq({"nil", "err"}) /\ Len(done') = Len(done) - 1 /\ Len(done) \in Nat
    BY <2>1, TailHas, LenProperties
  <2>3. Len(done') <= Cardinality(Parsers)
    BY <2>2, RunningFinite
  <2> QED
    BY <2>1, <2>2, <2>3
<1>6. CASE UNCHANGED <<ppc, pline, done>>
  BY <1>6
<1> QED
  BY <1>1, <1>2, <1>3, <1>4, <1>5, <1>6, ParserSteps

(* A handler between taking a quad and counting it holds it.               *)
HandlerHolds == \A h \in Handlers : Busy(h) => hline[h] # None

(* Every step keeps the types of the handlers and of the database, and the *)
(* quads the handlers hold: only sampled quads are written.                *)
LEMMA HandlerTypesStep ==
  TypeInv /\ [Next]_vars => HandlerTypes' /\ HandlerHolds'
<1> SUFFICES ASSUME TypeInv, [Next]_vars PROVE HandlerTypes' /\ HandlerHolds'
  OBVIOUS
<1>a. /\ Lines' = Lines /\ Nums' = Nums /\ Wanted' = Wanted
      /\ Subjects' = Subjects /\ Preds' = Preds
  BY FileKept
<1>b. /\ Quads \subseteq Nums /\ Wanted \subseteq Quads /\ None \notin Nums
      /\ \A i \in Quads : Lines[i].subj \in Subjects /\ Lines[i].pred \in Preds
  BY FileFacts DEF TypeInv
<1>c. HandlerTypes /\ HandlerHolds /\ TypeOK
  BY DEF TypeInv, TypeOK, Holding, HandlerHolds
<1> DEFINE Objects == {Lines[i].obj : i \in Nums}
<1>d. Objects' = Objects
  BY <1>a
<1>e. \A i \in Nums : Lines[i].obj \in Objects
  OBVIOUS
<1> HIDE DEF Objects
<1> USE <1>a, <1>b, <1>d, <1>e DEF HandlerTypes, HandlerHolds, Busy
<1>f. ASSUME NEW h \in Handlers, hpc[h] \notin {"range", "exited"}
      PROVE  /\ hline[h] \in Wanted /\ Quad(h).subj \in Subjects
             /\ Quad(h).pred \in Preds /\ Quad(h).obj \in Objects
  BY <1>c, <1>f DEF Quad
<1>g. nodes \subseteq Subjects \cup Objects
  BY <1>c DEF Objects
<1>h. nodes' \subseteq Subjects \cup Objects =>
        nodes' \subseteq Subjects' \cup {Lines'[i].obj : i \in Nums'}
  BY DEF Objects
<1>1. ASSUME NEW h \in Handlers, TakeQuad(h) PROVE HandlerTypes' /\ HandlerHolds'
  <2>1. PICK i \in Quads :
          \/ /\ i \in Wanted /\ hline' = [hline EXCEPT ![h] = i]
             /\ hpc' = [hpc EXCEPT ![h] = "entity"]
          \/ UNCHANGED <<hline, hpc>>
    BY <1>1, <1>c, TakeEffect
  <2>2. UNCHANGED <<hprops, nodes, rels, props>>
    BY <1>1, <1>c, TakeEffect
  <2> QED
    BY <1>c, <1>g, <1>h, <2>1, <2>2, ZenonT(60)
<1>2. ASSUME NEW h \in Handlers, GetSubject(h) PROVE HandlerTypes' /\ HandlerHolds'
  <2>1. /\ hpc[h] = "entity" /\ nodes' = nodes \cup {Quad(h).subj}
        /\ \E t \in {"object", "read"} : hpc' = [hpc EXCEPT ![h] = t]
        /\ UNCHANGED <<hline, rels, props, hprops>>
    BY <1>2 DEF GetSubject, Request
  <2> QED
    BY <1>c, <1>f, <1>g, <1>h, <2>1
<1>3. ASSUME NEW h \in Handlers, GetObject(h) PROVE HandlerTypes' /\ HandlerHolds'
  <2>1. /\ hpc[h] = "object" /\ nodes' = nodes \cup {Quad(h).obj}
        /\ hpc' = [hpc EXCEPT ![h] = "relate"]
        /\ UNCHANGED <<hline, rels, props, hprops>>
    BY <1>3 DEF GetObject, Request
  <2> QED
    BY <1>c, <1>f, <1>g, <1>h, <2>1
<1>4. ASSUME NEW h \in Handlers, Relate(h) PROVE HandlerTypes' /\ HandlerHolds'
  <2>1. /\ hpc[h] = "relate" /\ rels' = rels \cup {hline[h]}
        /\ hpc' = [hpc EXCEPT ![h] = "count"]
        /\ UNCHANGED <<hline, nodes, props, hprops>>
    BY <1>4 DEF Relate, Request
  <2> QED
    BY <1>c, <1>f, <1>g, <1>h, <2>1
<1>5. ASSUME NEW h \in Handlers, ReadProps(h) PROVE HandlerTypes' /\ HandlerHolds'
  <2>1. /\ hpc[h] = "read" /\ hprops' = [hprops EXCEPT ![h] = props[Quad(h).subj]]
        /\ hpc' = [hpc EXCEPT ![h] = "write"]
        /\ UNCHANGED <<hline, nodes, rels, props>>
    BY <1>5 DEF ReadProps, Request, db
  <2>2. props[Quad(h).subj] \in [Preds -> Nums \cup {None}]
    BY <1>c, <1>f, <2>1
  <2> QED
    BY <1>c, <1>f, <1>g, <1>h, <2>1, <2>2
<1>6. ASSUME NEW h \in Handlers, WriteProps(h) PROVE HandlerTypes' /\ HandlerHolds'
  <2>1. /\ hpc[h] = "write"
        /\ props' = [props EXCEPT ![Quad(h).subj] = [hprops[h] EXCEPT ![Quad(h).pred] = hline[h]]]
        /\ hpc' = [hpc EXCEPT ![h] = "count"]
        /\ UNCHANGED <<hline, nodes, rels, hprops>>
    BY <1>6 DEF WriteProps, Request
  <2>2. hprops[h] \in [Preds -> Nums \cup {None}] /\ hline[h] \in Nums
    BY <1>c, <1>f, <2>1
  <2>3. [hprops[h] EXCEPT ![Quad(h).pred] = hline[h]] \in [Preds -> Nums \cup {None}]
    BY <2>2
  <2> QED
    BY <1>c, <1>f, <1>g, <1>h, <2>1, <2>3
<1>7. ASSUME NEW h \in Handlers, CountProcessed(h) PROVE HandlerTypes' /\ HandlerHolds'
  <2>1. /\ hpc' = [hpc EXCEPT ![h] = "range"] /\ hline' = [hline EXCEPT ![h] = None]
        /\ UNCHANGED <<hprops, nodes, rels, props>>
    BY <1>7 DEF CountProcessed, db
  <2> QED
    BY <1>c, <1>g, <1>h, <2>1
<1>8. ASSUME NEW h \in Handlers, HandlerExit(h) PROVE HandlerTypes' /\ HandlerHolds'
  <2>1. /\ hpc' = [hpc EXCEPT ![h] = "exited"]
        /\ UNCHANGED <<hline, hprops, nodes, rels, props>>
    BY <1>8 DEF HandlerExit, db
  <2> QED
    BY <1>c, <1>g, <1>h, <2>1
<1>9. CASE UNCHANGED <<hpc, hline, hprops, nodes, rels, props>>
  BY <1>9, <1>c, <1>g, <1>h
<1> QED
  BY <1>1, <1>2, <1>3, <1>4, <1>5, <1>6, <1>7, <1>8, <1>9, HandlerSteps

(* Every step keeps the types of cnq and of the caller, cnq within its     *)
(* capacity and the WaitGroup at zero or above.                            *)
LEMMA CallerTypesStep == TypeInv /\ OrderInv /\ [Next]_vars => CallerTypes'
<1> SUFFICES ASSUME TypeInv, OrderInv, [Next]_vars PROVE CallerTypes'
  OBVIOUS
<1>a. Quads' = Quads
  BY FileKept
<1>b. TypeOK /\ Holding /\ CallerTypes /\ ParserOrder /\ HandlerOrder
  BY DEF TypeInv, OrderInv, TypeOK
<1> USE <1>a, <1>b DEF CallerTypes
<1>1. ASSUME NEW p \in Parsers, SendQuad(p) PROVE CallerTypes'
  BY <1>1, SendEffect
<1>2. ASSUME NEW h \in Handlers, TakeQuad(h) PROVE CallerTypes'
  BY <1>2, TakeEffect
<1>3. ASSUME NEW h \in Handlers, HandlerExit(h) PROVE CallerTypes'
  <2>1. wg' \in 0..Cardinality(Handlers)
    BY <1>3, OneHandlerFewer DEF HandlerExit
  <2> QED
    BY <1>3, <2>1 DEF HandlerExit, caller
<1>4. CASE ParserDone
  <2>1. /\ main = "collect" /\ done # <<>> /\ left' = left - 1 /\ UNCHANGED <<cnq, wg>>
        /\ main' \in {"collect", "wait", "fatal"} /\ cnqClosed' \in BOOLEAN
    BY <1>4 DEF ParserDone
  <2>2. Len(done) >= 1 /\ Len(done) \in Nat
    BY <2>1, TailHas, LenProperties DEF TypeOK, ParserTypes
  <2>3. left' \in 0..Cardinality(Parsers)
    BY <2>1, <2>2, RunningFinite DEF ParserOrder
  <2> QED
    BY <2>1, <2>3
<1>5. CASE Return
  BY <1>5 DEF Return
<1>6. CASE Fatal
  BY <1>6 DEF Fatal
<1>7. CASE UNCHANGED <<cnq, cnqClosed, wg, main, left>>
  BY <1>7
<1> QED
  BY <1>1, <1>2, <1>3, <1>4, <1>5, <1>6, <1>7, CallerSteps

(* Every step keeps the types of the counters and of the history.          *)
LEMMA CounterTypesStep == TypeInv /\ [Next]_vars => CounterTypes'
<1> SUFFICES ASSUME TypeInv, [Next]_vars PROVE CounterTypes'
  OBVIOUS
<1>a. Quads' = Quads
  BY FileKept
<1>b. TypeOK /\ CounterTypes
  BY DEF TypeInv, TypeOK
<1> USE <1>a, <1>b DEF CounterTypes
<1>1. ASSUME NEW p \in Parsers, CountParsed(p) PROVE CounterTypes'
  BY <1>1 DEF CountParsed, history
<1>2. ASSUME NEW h \in Handlers, TakeQuad(h) PROVE CounterTypes'
  BY <1>2, TakeEffect
<1>3. ASSUME NEW h \in Handlers, CountProcessed(h) PROVE CounterTypes'
  <2>1. /\ ctr' = [ctr EXCEPT !.processed = @ + 1] /\ UNCHANGED report
        /\ verdict' = [verdict EXCEPT ![hline[h]] = "processed"]
    BY <1>3 DEF CountProcessed
  <2>2. verdict' \in [Quads -> {"processed", "ignored", Undecided}]
    BY <2>1
  <2>3. ctr' \in [parsed : Nat, processed : Nat, ignored : Nat]
    BY <2>1
  <2> QED
    BY <2>1, <2>2, <2>3
<1>4. CASE Return
  <2>1. ctr.processed \in Nat /\ ctr.ignored \in Nat
    OBVIOUS
  <2>2. ctr["processed"] \in Nat /\ ctr["ignored"] \in Nat
    BY <2>1
  <2>3. \A v \in {"processed", "ignored"} : ctr[v] \in Nat
    BY <2>2
  <2>4. report' \in [{"processed", "ignored"} -> Nat]
    BY <1>4, <2>3 DEF Return
  <2> QED
    BY <1>4, <2>4 DEF Return
<1>5. CASE UNCHANGED <<ctr, verdict, report>>
  BY <1>5
<1> QED
  BY <1>1, <1>2, <1>3, <1>4, <1>5, CounterSteps

(* Every step of the loader keeps the state well typed, and a goroutine    *)
(* that is to send or to write holding a line.                             *)
LEMMA TypeInvStep == TypeInv /\ OrderInv /\ [Next]_vars => TypeInv'
  BY ReaderTypesStep, ParserTypesStep, HandlerTypesStep, CallerTypesStep, CounterTypesStep
  DEF TypeInv, TypeOK, Holding, ParserHolds, HandlerHolds

-----------------------------------------------------------------------------
(* Nothing is closed and nobody has returned at the start.                 *)
LEMMA OrderInvInit == Init => OrderInv
<1> SUFFICES ASSUME Init PROVE OrderInv
  OBVIOUS
<1>1. Live = Parsers /\ Running = Handlers /\ Handlers # {}
  BY LoaderAssumption DEF Init, Live, Running
<1>2. done = <<>> /\ Len(done) = 0 /\ Cardinality(Parsers) \in Nat
  BY RunningFinite, EmptySeq DEF Init
<1>3. /\ left = Cardinality(Parsers) /\ wg = Cardinality(Handlers) /\ main = "collect"
      /\ inputClosed = FALSE /\ reader = "fill" /\ cnqClosed = FALSE /\ report = Unpublished
  BY DEF Init
<1> QED
  BY <1>1, <1>2, <1>3 DEF OrderInv, ReaderOrder, ParserOrder, ParserEnds, HandlerOrder

(* input is closed behind the last line, once the window is empty.         *)
LEMMA ReaderOrderStep == TypeInv /\ ReaderOrder /\ [Next]_vars => ReaderOrder'
<1> SUFFICES ASSUME TypeInv, ReaderOrder, [Next]_vars PROVE ReaderOrder'
  OBVIOUS
<1>a. Lines' = Lines /\ TypeOK /\ next \in 1..Len(Lines) + 1 /\ Len(Lines) \in Nat
  BY FileKept, FileFacts DEF TypeInv, TypeOK, ReaderTypes
<1> USE <1>a DEF ReaderOrder
<1>1. CASE FillWindow
  BY <1>1, FillEffect
<1>2. CASE SwapLine
  BY <1>2, SwapEffect
<1>3. CASE EndOfFile
  BY <1>3 DEF EndOfFile
<1>4. CASE Drain
  <2>1. reader = "drain" /\ next' = next
    BY <1>4, DrainEffect
  <2>2. \/ reader' = reader /\ inputClosed' = inputClosed
        \/ buf = <<>> /\ inputClosed' = TRUE /\ reader' = "exited" /\ buf' = buf
    BY <1>4, DrainEffect
  <2> QED
    BY <2>1, <2>2
<1>5. ASSUME NEW p \in Parsers, ParseLine(p) PROVE ReaderOrder'
  BY <1>5, ParseEffect
<1>6. CASE UNCHANGED <<reader, next, buf, input, inputClosed>>
  BY <1>6
<1> QED
  BY <1>1, <1>2, <1>3, <1>4, <1>5, <1>6, ReaderSteps

(* Who changes what the caller waits for.                                  *)
LEMMA WaitSteps ==
  [Next]_vars =>
    \/ \E p \in Parsers : ParseLine(p) \/ SendQuad(p) \/ CountParsed(p) \/ ParserExit(p)
    \/ ParserDone \/ Return \/ Fatal
    \/ UNCHANGED <<ppc, done, main, left, cnqClosed>>
  BY Steps
  DEF FillWindow, SwapLine, EndOfFile, Drain, TakeQuad, GetSubject, GetObject,
      Relate, ReadProps, WriteProps, CountProcessed, HandlerExit, Request,
      parserVars, caller, vars

(* The caller waits once for each parser: it closes cnq when the last one  *)
(* has returned.                                                           *)
LEMMA ParserOrderStep == TypeInv /\ OrderInv /\ [Next]_vars => ParserOrder'
<1> SUFFICES ASSUME TypeInv, OrderInv, [Next]_vars PROVE ParserOrder'
  OBVIOUS
<1>a. /\ TypeOK /\ Holding /\ ParserOrder /\ main \in {"collect", "wait", "returned", "fatal"}
      /\ ppc \in [Parsers -> {"range", "send", "count", "exited"}]
      /\ done \in Seq({"nil", "err"}) /\ Len(done) \in Nat /\ left \in Nat
  BY LenProperties, RunningFinite
  DEF TypeInv, OrderInv, TypeOK, ParserTypes, CallerTypes
<1>b. /\ Cardinality(Live) \in Nat /\ IsFiniteSet(Live)
  BY RunningFinite
<1> USE <1>a, <1>b DEF ParserOrder
<1>1. ASSUME NEW p \in Parsers, NEW e \in {"nil", "err"}, ppc[p] = "range",
             ppc' = [ppc EXCEPT ![p] = "exited"], done' = Append(done, e),
             UNCHANGED <<main, left, cnqClosed>>
      PROVE  ParserOrder'
  <2>1. /\ Live' = Live \ {p} /\ p \in Live
        /\ Cardinality(Live') + Len(done') = Cardinality(Live) + Len(done)
    BY <1>1, OneFewer
  <2>2. main \notin {"wait", "returned"} /\ ~cnqClosed
    BY <2>1
  <2> QED
    BY <1>1, <2>1, <2>2
<1>2. ASSUME NEW p \in Parsers, NEW s \in {"send", "count", "range"}, ppc[p] # "exited",
             ppc' = [ppc EXCEPT ![p] = s], UNCHANGED <<done, main, left, cnqClosed>>
      PROVE  ParserOrder'
  <2>1. Live' = Live
    BY <1>2 DEF Live
  <2> QED
    BY <1>2, <2>1
<1>3. CASE UNCHANGED <<ppc, done, main, left, cnqClosed>>
  <2>1. Live' = Live
    BY <1>3 DEF Live
  <2> QED
    BY <1>3, <2>1
<1>4. ASSUME NEW p \in Parsers, ParseLine(p) PROVE ParserOrder'
  <2>1. /\ ppc[p] = "range" /\ UNCHANGED <<cnqClosed, main, left>>
        /\ \/ UNCHANGED <<ppc, done>>
           \/ ppc' = [ppc EXCEPT ![p] = "exited"] /\ done' = Append(done, "err")
           \/ ppc' = [ppc EXCEPT ![p] = "send"] /\ UNCHANGED done
    BY <1>4, ParseEffect
  <2> QED
    BY <1>1, <1>2, <1>3, <2>1
<1>5. ASSUME NEW p \in Parsers, SendQuad(p) PROVE ParserOrder'
  BY <1>2, <1>5, SendEffect
<1>6. ASSUME NEW p \in Parsers, CountParsed(p) PROVE ParserOrder'
  <2>1. /\ ppc[p] = "count" /\ ppc' = [ppc EXCEPT ![p] = "range"]
        /\ UNCHANGED <<done, main, left, cnqClosed>>
    BY <1>6 DEF CountParsed, caller
  <2> QED
    BY <1>2, <2>1
<1>7. ASSUME NEW p \in Parsers, ParserExit(p) PROVE ParserOrder'
  BY <1>1, <1>7 DEF ParserExit, caller
<1>8. CASE ParserDone
  <2>1. /\ main = "collect" /\ done # <<>> /\ done' = Tail(done) /\ left' = left - 1
        /\ ppc' = ppc
        /\ main' = IF Head(done) = "err" THEN "fatal" ELSE IF left' = 0 THEN "wait" ELSE main
        /\ cnqClosed' = (main' = "wait")
    BY <1>8 DEF ParserDone, parserVars
  <2>2. /\ Len(done) >= 1 /\ Len(done') = Len(done) - 1 /\ done' \in Seq({"nil", "err"})
        /\ Len(done') \in Nat
    BY <2>1, TailHas, LenProperties
  <2>3. Live' = Live
    BY <2>1 DEF Live
  <2>4. main' \in {"wait", "returned"} => left = 1
    BY <2>1
  <2>5. left = Cardinality(Live) + Len(done)
    BY <2>1
  <2>6. left = 1 => Cardinality(Live) = 0 /\ Len(done') = 0
    BY <2>2, <2>5
  <2>7. left = 1 => Live = {} /\ done' = <<>>
    BY <2>2, <2>6, FS_EmptySet, EmptySeq
  <2>8. Cardinality(Live') + Len(done') <= Cardinality(Parsers)
    BY <2>2, <2>3, RunningFinite
  <2>9. main' = "collect" => left' = Cardinality(Live') + Len(done') /\ ~cnqClosed'
    <3>1. cnqClosed' => main' = "wait"
      BY <2>1, Zenon
    <3>2. left' = Cardinality(Live') + Len(done')
      BY <2>1, <2>2, <2>3, <2>5
    <3> QED
      BY <3>1, <3>2
  <2>10. main' \in {"wait", "returned"} => cnqClosed' /\ done' = <<>>
    <3>1. main' \in {"wait", "returned"} => main' = "wait"
      BY <2>1
    <3>2. main' = "wait" => cnqClosed'
      BY <2>1, Zenon
    <3> QED
      BY <2>4, <2>7, <3>1, <3>2
  <2>11. cnqClosed' => Live' = {}
    <3>1. cnqClosed' => main' = "wait"
      BY <2>1, Zenon
    <3> QED
      BY <2>3, <2>4, <2>7, <3>1
  <2> QED
    BY <2>8, <2>9, <2>10, <2>11
<1>9. CASE Return
  <2>1. Live' = Live
    BY <1>9 DEF Return, Live, parserVars
  <2> QED
    BY <1>9, <2>1 DEF Return
<1>10. CASE Fatal
  <2>1. Live' = Live
    BY <1>10 DEF Fatal, Live, parserVars
  <2> QED
    BY <1>10, <2>1 DEF Fatal
<1> QED
  BY <1>3, <1>4, <1>5, <1>6, <1>7, <1>8, <1>9, <1>10, WaitSteps

(* A parser returns at the end of input or at a line that cannot be parsed;*)
(* the second is reported in done and stops the loader.                    *)
LEMMA ParserEndsStep == TypeInv /\ OrderInv /\ [Next]_vars => ParserEnds'
<1> SUFFICES ASSUME TypeInv, OrderInv, [Next]_vars PROVE ParserEnds'
  OBVIOUS
<1>a. /\ TypeOK /\ Holding /\ ReaderOrder /\ ParserOrder /\ ParserEnds
      /\ ppc \in [Parsers -> {"range", "send", "count", "exited"}]
      /\ done \in Seq({"nil", "err"})
      /\ input \in Seq(Nums)
  BY DEF TypeInv, OrderInv, TypeOK, ParserTypes, ReaderTypes
<1> DEFINE Drained == input = <<>> /\ inputClosed
<1>b. Stopped \/ Drained \/ Live = Parsers
  BY <1>a DEF ParserEnds
<1>c. Drained' \/ Stopped' => ParserEnds'
  BY DEF ParserEnds
<1>1. ASSUME NEW p \in Parsers, NEW e \in {"nil", "err"}, ppc[p] = "range",
             ppc' = [ppc EXCEPT ![p] = "exited"], done' = Append(done, e),
             UNCHANGED main, Drained' \/ e = "err"
      PROVE  ParserEnds'
  <2>1. \A i : InSeq(done', i) <=> InSeq(done, i) \/ i = e
    BY <1>1, <1>a, OneFewer
  <2> QED
    BY <1>1, <2>1, <1>c DEF Stopped
<1>2. ASSUME \A p \in Parsers : ppc'[p] = "exited" => ppc[p] = "exited",
             UNCHANGED <<done, main>>, Drained => Drained'
      PROVE  ParserEnds'
  <2>1. Live = Parsers => Live' = Parsers
    BY <1>2 DEF Live
  <2>2. Stopped => Stopped'
    BY <1>2 DEF Stopped
  <2> QED
    BY <1>2, <1>b, <1>c, <2>1, <2>2 DEF ParserEnds
<1>3. CASE FillWindow
  BY <1>2, <1>3, FillEffect, <1>a DEF FillWindow, parserVars, caller
<1>4. CASE SwapLine
  BY <1>2, <1>4, <1>a DEF SwapLine, parserVars, caller, ReaderOrder
<1>5. CASE EndOfFile
  BY <1>2, <1>5 DEF EndOfFile, parserVars, caller
<1>6. CASE Drain
  BY <1>2, <1>6, <1>a DEF Drain, parserVars, caller, ReaderOrder
<1>7. ASSUME NEW p \in Parsers, ParseLine(p) PROVE ParserEnds'
  <2>1. input # <<>> /\ ppc[p] = "range" /\ main' = main
    BY <1>7, <1>a, ParseEffect DEF ParseLine
  <2>2. CASE UNCHANGED <<ppc, done>>
    BY <1>2, <2>1, <2>2
  <2>3. CASE ppc' = [ppc EXCEPT ![p] = "exited"] /\ done' = Append(done, "err")
    BY <1>1, <2>1, <2>3
  <2>4. CASE ppc' = [ppc EXCEPT ![p] = "send"] /\ UNCHANGED done
    BY <1>2, <1>a, <2>1, <2>4
  <2> QED
    BY <1>7, <1>a, <2>2, <2>3, <2>4, ParseEffect
<1>8. ASSUME NEW p \in Parsers, SendQuad(p) PROVE ParserEnds'
  BY <1>2, <1>8, <1>a, SendEffect
<1>9. ASSUME NEW p \in Parsers, CountParsed(p) PROVE ParserEnds'
  BY <1>2, <1>9, <1>a DEF CountParsed, caller
<1>10. ASSUME NEW p \in Parsers, ParserExit(p) PROVE ParserEnds'
  <2>1. /\ ppc[p] = "range" /\ ppc' = [ppc EXCEPT ![p] = "exited"]
        /\ done' = Append(done, "nil") /\ UNCHANGED main
        /\ Drained'
    BY <1>10 DEF ParserExit, caller
  <2> QED
    BY <1>1, <2>1
<1>11. CASE ParserDone
  <2>1. /\ done # <<>> /\ done' = Tail(done) /\ main = "collect"
        /\ Head(done) = "err" => main' = "fatal"
        /\ UNCHANGED <<ppc, input, inputClosed>>
    BY <1>11 DEF ParserDone, parserVars
  <2>2. InSeq(done, "err") => InSeq(done', "err") \/ Head(done) = "err"
    BY <1>a, <2>1, TailHas
  <2>3. Stopped => Stopped'
    BY <2>1, <2>2 DEF Stopped
  <2>4. Live' = Live
    BY <2>1 DEF Live
  <2> QED
    BY <1>b, <1>c, <2>1, <2>3, <2>4 DEF ParserEnds
<1>12. CASE Return
  <2>1. ~Stopped \/ done # <<>>
    BY <1>12, NothingIn DEF Return, Stopped
  <2>2. done = <<>>
    BY <1>12, <1>a DEF Return, ParserOrder
  <2>3. Drained \/ Live = Parsers
    BY <1>b, <2>1, <2>2
  <2> QED
    BY <1>12, <1>c, <2>3 DEF Return, parserVars, ParserEnds, Live
<1>13. CASE Fatal
  BY <1>13, <1>c DEF Fatal, Stopped
<1>14. ASSUME NEW h \in Handlers,
             \/ TakeQuad(h) \/ GetSubject(h) \/ GetObject(h) \/ Relate(h)
             \/ ReadProps(h) \/ WriteProps(h) \/ CountProcessed(h) \/ HandlerExit(h)
      PROVE  ParserEnds'
  <2>1. UNCHANGED <<ppc, done, main, input, inputClosed>>
    BY <1>14 DEF TakeQuad, GetSubject, GetObject, Relate, ReadProps, WriteProps,
         CountProcessed, HandlerExit, Request, parserVars, caller
  <2> QED
    BY <1>2, <2>1
<1>15. CASE UNCHANGED vars
  BY <1>2, <1>15 DEF vars
<1> QED
  BY <1>3, <1>4, <1>5, <1>6, <1>7, <1>8, <1>9, <1>10, <1>11, <1>12, <1>13, <1>14,
     <1>15, Steps

(* A handler returns at the end of a closed cnq, wg counts those that run, *)
(* and HandleRdfReader returns after all of them.                          *)
LEMMA HandlerOrderStep == TypeInv /\ OrderInv /\ [Next]_vars => HandlerOrder'
<1> SUFFICES ASSUME TypeInv, OrderInv, [Next]_vars PROVE HandlerOrder'
  OBVIOUS
<1>a. /\ TypeOK /\ Holding /\ ParserOrder /\ HandlerOrder
      /\ hpc \in [Handlers -> {"range", "entity", "object", "relate", "read",
                               "write", "count", "exited"}]
      /\ cnqClosed \in BOOLEAN
  BY DEF TypeInv, OrderInv, TypeOK, HandlerTypes, CallerTypes
<1> USE <1>a DEF HandlerOrder
<1>1. ASSUME \A h \in Handlers : hpc'[h] = "exited" <=> hpc[h] = "exited",
             UNCHANGED <<wg, cnqClosed, main, report>>,
             cnq' = cnq \/ Running = Handlers
      PROVE  HandlerOrder'
  <2>1. Running' = Running
    BY <1>1 DEF Running
  <2> QED
    BY <1>1, <2>1
<1>2. ASSUME NEW p \in Parsers, SendQuad(p) PROVE HandlerOrder'
  <2>1. /\ ppc[p] = "send"
        /\ UNCHANGED <<hpc, wg, cnqClosed, main, report>>
    BY <1>2, SendEffect
  <2>2. p \in Live
    BY <2>1 DEF Live
  <2>3. Running = Handlers
    BY <2>2 DEF ParserOrder
  <2> QED
    BY <1>1, <2>1, <2>3
<1>3. ASSUME NEW h \in Handlers, TakeQuad(h) PROVE HandlerOrder'
  <2>1. /\ hpc[h] = "range" /\ cnq # <<>>
        /\ UNCHANGED <<wg, cnqClosed, main, report>>
        /\ hpc' = [hpc EXCEPT ![h] = "entity"] \/ hpc' = hpc
    BY <1>3, TakeEffect
  <2>2. \A g \in Handlers : hpc'[g] = "exited" <=> hpc[g] = "exited"
    BY <2>1
  <2> QED
    BY <1>1, <2>1, <2>2
<1>4. ASSUME NEW h \in Handlers, \/ GetSubject(h) \/ GetObject(h) \/ Relate(h)
                                 \/ ReadProps(h) \/ WriteProps(h) \/ CountProcessed(h)
      PROVE  HandlerOrder'
  <2>1. /\ hpc[h] # "exited" /\ \E t : t # "exited" /\ hpc' = [hpc EXCEPT ![h] = t]
        /\ UNCHANGED <<cnq, wg, cnqClosed, main, report>>
    <3>1. CASE GetSubject(h)
      BY <3>1 DEF GetSubject, Request, caller, history
    <3>2. CASE GetObject(h)
      BY <3>2 DEF GetObject, Request, caller, history
    <3>3. CASE Relate(h)
      BY <3>3 DEF Relate, Request, caller, history
    <3>4. CASE ReadProps(h)
      BY <3>4 DEF ReadProps, Request, caller, history
    <3>5. CASE WriteProps(h)
      BY <3>5 DEF WriteProps, Request, caller, history
    <3>6. CASE CountProcessed(h)
      BY <3>6 DEF CountProcessed, caller
    <3> QED
      BY <1>4, <3>1, <3>2, <3>3, <3>4, <3>5, <3>6
  <2>2. \A g \in Handlers : hpc'[g] = "exited" <=> hpc[g] = "exited"
    BY <2>1
  <2> QED
    BY <1>1, <2>1, <2>2
<1>5. ASSUME NEW h \in Handlers, HandlerExit(h) PROVE HandlerOrder'
  <2>1. /\ hpc[h] = "range" /\ cnq = <<>> /\ cnqClosed
        /\ hpc' = [hpc EXCEPT ![h] = "exited"] /\ wg' = wg - 1
        /\ UNCHANGED <<cnq, cnqClosed, main, report>>
    BY <1>5 DEF HandlerExit, caller, history
  <2>2. Running' = Running \ {h} /\ h \in Running /\ wg' = Cardinality(Running')
    BY <2>1, OneHandlerFewer
  <2> QED
    BY <2>1, <2>2
<1>6. CASE ParserDone
  <2>1. /\ main = "collect" /\ main' \in {"collect", "wait", "fatal"}
        /\ UNCHANGED <<cnq, wg, hpc, report>>
    BY <1>6 DEF ParserDone, handlerVars, history
  <2>2. Running' = Running
    BY <2>1 DEF Running
  <2>3. Running = Handlers
    BY <2>1 DEF ParserOrder
  <2> QED
    BY <2>1, <2>2, <2>3
<1>7. CASE Return
  <2>1. /\ main = "wait" /\ wg = 0 /\ main' = "returned"
        /\ UNCHANGED <<cnq, cnqClosed, wg, hpc>>
    BY <1>7 DEF Return, handlerVars
  <2>2. Running' = Running /\ Running = {}
    BY <2>1, RunningFinite, FS_EmptySet DEF Running
  <2> QED
    BY <2>1, <2>2
<1>8. CASE Fatal
  <2>1. main' = "fatal" /\ UNCHANGED <<cnq, cnqClosed, wg, hpc, report>>
    BY <1>8 DEF Fatal, handlerVars, history
  <2>2. Running' = Running
    BY <2>1 DEF Running
  <2> QED
    BY <2>1, <2>2
<1>9. CASE \/ FillWindow \/ SwapLine \/ EndOfFile \/ Drain
           \/ \E p \in Parsers : ParseLine(p) \/ CountParsed(p) \/ ParserExit(p)
  <2>1. UNCHANGED <<hpc, wg, cnq, cnqClosed, main, report>>
    BY <1>9
    DEF FillWindow, SwapLine, EndOfFile, Drain, ParseLine, CountParsed, ParserExit,
        handlerVars, caller, history
  <2> QED
    BY <1>1, <2>1
<1>10. CASE UNCHANGED vars
  BY <1>1, <1>10 DEF vars
<1> QED
  BY <1>2, <1>3, <1>4, <1>5, <1>6, <1>7, <1>8, <1>9, <1>10, Steps

(* Every step of the loader keeps the order in which the channels are      *)
(* closed and the goroutines return.                                       *)
LEMMA OrderInvStep == TypeInv /\ OrderInv /\ [Next]_vars => OrderInv'
  BY ReaderOrderStep, ParserOrderStep, ParserEndsStep, HandlerOrderStep DEF OrderInv

(* Nobody sends on the closed cnq, however many parsers there are.         *)
THEOREM NobodySendsOnClosed == Spec => []NoSendOnClosedCnq
<1>1. Spec => [](TypeInv /\ OrderInv)
  BY TypeInvInit, TypeInvStep, OrderInvInit, OrderInvStep, PTL DEF Spec
<1>2. TypeInv /\ OrderInv => NoSendOnClosedCnq
  BY DEF OrderInv, ParserOrder, NoSendOnClosedCnq, Live
<1> QED
  BY <1>1, <1>2, PTL

-----------------------------------------------------------------------------
(* At the start every line is in the file and nowhere else.                *)
LEMMA PlaceInvInit == Init => PlaceInv
<1> SUFFICES ASSUME Init PROVE PlaceInv
  OBVIOUS
<1>1. TypeOK
  BY TypeInvInit DEF TypeInv
<1>2. /\ next = 1 /\ buf = <<>> /\ input = <<>> /\ cnq = <<>>
      /\ \A p \in Parsers : ppc[p] = "range"
      /\ \A h \in Handlers : ~Busy(h)
      /\ \A i \in Quads : verdict[i] = Undecided
  BY DEF Init, Busy
<1>3. \A i \in Nums : i >= next
  BY <1>1, <1>2, FileFacts
<1>4. \A i : ~AtParser(i) /\ ~AtHandler(i) /\ ~Decided(i)
  BY <1>2 DEF AtParser, AtHandler, Decided
<1>5. OncePlaced
  BY <1>2, NothingIn DEF OncePlaced, ParsersApart, HandlersApart
<1>6. Apart
  BY <1>2, <1>4, NothingIn DEF Apart
<1>7. NoneLost
  BY <1>1, <1>3, FileFacts
  DEF NoneLost, ToJudge, ToHandle, ToSend, ToParse, ToShuffle, ToRead
<1> QED
  BY <1>5, <1>6, <1>7 DEF PlaceInv

(* A reported line is not forgotten: the caller stops, or will.            *)
LEMMA StoppedStays == TypeInv /\ OrderInv /\ [Next]_vars => (Stopped => Stopped')
<1> SUFFICES ASSUME TypeInv, OrderInv, [Next]_vars, Stopped PROVE Stopped'
  OBVIOUS
<1>a. TypeOK /\ ParserOrder /\ done \in Seq({"nil", "err"})
  BY DEF TypeInv, OrderInv, TypeOK, ParserTypes
<1>1. ASSUME NEW e \in {"nil", "err"}, done' = Append(done, e), main' = main PROVE Stopped'
  <2>1. \A i : InSeq(done', i) <=> InSeq(done, i) \/ i = e
    BY <1>1, <1>a, AppendHas
  <2> QED
    BY <1>1, <2>1 DEF Stopped
<1>2. CASE ParserDone
  <2>1. /\ done # <<>> /\ done' = Tail(done) /\ main = "collect"
        /\ Head(done) = "err" => main' = "fatal"
    BY <1>2 DEF ParserDone
  <2>2. InSeq(done, "err") => InSeq(done', "err") \/ Head(done) = "err"
    BY <1>a, <2>1, TailHas
  <2> QED
    BY <2>1, <2>2 DEF Stopped
<1>3. CASE Return
  BY <1>3, <1>a, NothingIn DEF Return, Stopped, ParserOrder
<1>4. CASE Fatal
  BY <1>4 DEF Fatal, Stopped
<1>5. ASSUME NEW p \in Parsers, ParseLine(p) PROVE Stopped'
  <2>1. main' = main /\ (UNCHANGED done \/ done' = Append(done, "err"))
    BY <1>5, <1>a, ParseEffect
  <2> QED
    BY <1>1, <2>1 DEF Stopped
<1>6. ASSUME NEW p \in Parsers, SendQuad(p) \/ CountParsed(p) \/ ParserExit(p) PROVE Stopped'
  <2>1. main' = main /\ (UNCHANGED done \/ done' = Append(done, "nil"))
    BY <1>6 DEF SendQuad, CountParsed, ParserExit, caller
  <2> QED
    BY <1>1, <2>1 DEF Stopped
<1>7. CASE UNCHANGED <<ppc, done, main, left, cnqClosed>>
  BY <1>7 DEF Stopped
<1> QED
  BY <1>2, <1>3, <1>4, <1>5, <1>6, <1>7, WaitSteps

(* The quad a parser holds, and is sent: from one to the next.             *)
LEMMA ParserPlaces ==
  ASSUME TypeOK, NEW p \in Parsers, ParsersApart
  PROVE  /\ UNCHANGED <<ppc, pline>> =>
              ParsersApart' /\ \A j : AtParser(j)' <=> AtParser(j)
         /\ \A i : /\ ppc[p] = "range" /\ ~AtParser(i)
                   /\ ppc' = [ppc EXCEPT ![p] = "send"] /\ pline' = [pline EXCEPT ![p] = i]
                   => ParsersApart' /\ \A j : AtParser(j)' <=> AtParser(j) \/ j = i
         /\ ppc[p] = "send" /\ ppc' = [ppc EXCEPT ![p] = "count"] /\ pline' = pline =>
              ParsersApart' /\ \A j : AtParser(j)' <=> AtParser(j) /\ j # pline[p]
         /\ \A s \in {"range", "exited"} :
              /\ ppc[p] # "send" /\ ppc' = [ppc EXCEPT ![p] = s]
              /\ \A q \in Parsers : q # p => pline'[q] = pline[q]
              => ParsersApart' /\ \A j : AtParser(j)' <=> AtParser(j)
<1>a. /\ ppc \in [Parsers -> {"range", "send", "count", "exited"}]
      /\ pline \in [Parsers -> Quads \cup {None}]
  BY DEF TypeOK, ParserTypes
<1> USE <1>a DEF ParsersApart, AtParser
<1>1. UNCHANGED <<ppc, pline>> => ParsersApart' /\ \A j : AtParser(j)' <=> AtParser(j)
  OBVIOUS
<1>2. ASSUME NEW i, ppc[p] = "range", ~AtParser(i),
             ppc' = [ppc EXCEPT ![p] = "send"], pline' = [pline EXCEPT ![p] = i]
      PROVE  ParsersApart' /\ \A j : AtParser(j)' <=> AtParser(j) \/ j = i
  <2>1. /\ ppc'[p] = "send" /\ pline'[p] = i
        /\ \A q \in Parsers : q # p => ppc'[q] = ppc[q] /\ pline'[q] = pline[q]
    BY <1>2
  <2> QED
    BY <1>2, <2>1
<1>3. ASSUME ppc[p] = "send", ppc' = [ppc EXCEPT ![p] = "count"], pline' = pline
      PROVE  ParsersApart' /\ \A j : AtParser(j)' <=> AtParser(j) /\ j # pline[p]
  <2>1. ppc'[p] = "count" /\ \A q \in Parsers : q # p => ppc'[q] = ppc[q]
    BY <1>3
  <2> QED
    BY <1>3, <2>1
<1>4. ASSUME NEW s \in {"range", "exited"}, ppc[p] # "send", ppc' = [ppc EXCEPT ![p] = s],
             \A q \in Parsers : q # p => pline'[q] = pline[q]
      PROVE  ParsersApart' /\ \A j : AtParser(j)' <=> AtParser(j)
  <2>1. ppc'[p] # "send" /\ \A q \in Parsers : q # p => ppc'[q] = ppc[q]
    BY <1>4
  <2> QED
    BY <1>4, <2>1
<1> QED
  BY <1>1, <1>2, <1>3, <1>4

(* The quad a handler takes, and has dealt with.                           *)
LEMMA HandlerPlaces ==
  ASSUME TypeOK, NEW h \in Handlers, HandlersApart
  PROVE  /\ UNCHANGED <<hpc, hline>> =>
              HandlersApart' /\ \A j : AtHandler(j)' <=> AtHandler(j)
         /\ \A i : /\ hpc[h] = "range" /\ ~AtHandler(i)
                   /\ hpc' = [hpc EXCEPT ![h] = "entity"] /\ hline' = [hline EXCEPT ![h] = i]
                   => HandlersApart' /\ \A j : AtHandler(j)' <=> AtHandler(j) \/ j = i
         /\ Busy(h) /\ hpc' = [hpc EXCEPT ![h] = "range"] /\ hline' = [hline EXCEPT ![h] = None] =>
              HandlersApart' /\ \A j : AtHandler(j)' <=> AtHandler(j) /\ j # hline[h]
         /\ \A s : /\ Busy(h) <=> s \notin {"range", "exited"}
                   /\ hpc' = [hpc EXCEPT ![h] = s] /\ hline' = hline
                   => HandlersApart' /\ \A j : AtHandler(j)' <=> AtHandler(j)
<1>a. /\ hpc \in [Handlers -> {"range", "entity", "object", "relate", "read",
                               "write", "count", "exited"}]
      /\ hline \in [Handlers -> Wanted \cup {None}]
  BY DEF TypeOK, HandlerTypes
<1> USE <1>a DEF HandlersApart, AtHandler, Busy
<1>1. UNCHANGED <<hpc, hline>> => HandlersApart' /\ \A j : AtHandler(j)' <=> AtHandler(j)
  OBVIOUS
<1>2. ASSUME NEW i, hpc[h] = "range", ~AtHandler(i),
             hpc' = [hpc EXCEPT ![h] = "entity"], hline' = [hline EXCEPT ![h] = i]
      PROVE  HandlersApart' /\ \A j : AtHandler(j)' <=> AtHandler(j) \/ j = i
  <2>1. /\ hpc'[h] = "entity" /\ hline'[h] = i
        /\ \A g \in Handlers : g # h => hpc'[g] = hpc[g] /\ hline'[g] = hline[g]
    BY <1>2
  <2> QED
    BY <1>2, <2>1
<1>3. ASSUME Busy(h), hpc' = [hpc EXCEPT ![h] = "range"], hline' = [hline EXCEPT ![h] = None]
      PROVE  HandlersApart' /\ \A j : AtHandler(j)' <=> AtHandler(j) /\ j # hline[h]
  <2>1. /\ hpc'[h] = "range"
        /\ \A g \in Handlers : g # h => hpc'[g] = hpc[g] /\ hline'[g] = hline[g]
    BY <1>3
  <2> QED
    BY <1>3, <2>1
<1>4. ASSUME NEW s, Busy(h) <=> s \notin {"range", "exited"},
             hpc' = [hpc EXCEPT ![h] = s], hline' = hline
      PROVE  HandlersApart' /\ \A j : AtHandler(j)' <=> AtHandler(j)
  <2>1. hpc'[h] = s /\ \A g \in Handlers : g # h => hpc'[g] = hpc[g]
    BY <1>4
  <2> QED
    BY <1>4, <2>1
<1> QED
  BY <1>1, <1>2, <1>3, <1>4

(* A step that moves no line keeps every line in its place.                *)
LEMMA NothingMoves ==
  ASSUME TypeInv, OrderInv, PlaceInv, [Next]_vars,
         UNCHANGED <<next, buf, input, cnq, verdict>>,
         ParsersApart' /\ \A j : AtParser(j)' <=> AtParser(j),
         HandlersApart' /\ \A j : AtHandler(j)' <=> AtHandler(j)
  PROVE  PlaceInv'
<1>a. Lines' = Lines /\ Nums' = Nums /\ Quads' = Quads /\ (Stopped => Stopped')
  BY FileKept, StoppedStays
<1>b. \A j : Decided(j)' <=> Decided(j)
  BY <1>a DEF Decided
<1>c. OncePlaced /\ Apart /\ NoneLost
  BY DEF PlaceInv
<1>1. OncePlaced'
  BY <1>c DEF OncePlaced
<1>2. Apart'
  BY <1>a, <1>b, <1>c DEF Apart, ToJudge, ToHandle, ToSend, ToParse, ToShuffle, ToRead
<1>3. NoneLost'
  BY <1>a, <1>b, <1>c DEF NoneLost, ToJudge, ToHandle, ToSend, ToParse, ToShuffle, ToRead
<1> QED
  BY <1>1, <1>2, <1>3 DEF PlaceInv

(* readLines takes each line of the file once and sends each line once.    *)
LEMMA ReaderPlaces ==
  TypeInv /\ OrderInv /\ PlaceInv /\ [Next]_vars /\ ReadLines => PlaceInv'
<1> SUFFICES ASSUME TypeInv, OrderInv, PlaceInv, [Next]_vars, ReadLines PROVE PlaceInv'
  OBVIOUS
<1>a. Lines' = Lines /\ Nums' = Nums /\ Quads' = Quads /\ (Stopped => Stopped')
  BY FileKept, StoppedStays
<1>b. OncePlaced /\ Apart /\ NoneLost /\ TypeOK
  BY DEF PlaceInv, TypeInv
<1>c. UNCHANGED <<ppc, pline, hpc, hline, cnq, verdict>>
  BY DEF ReadLines, FillWindow, SwapLine, EndOfFile, Drain, parserVars, handlerVars, history
<1>d. /\ ParsersApart' /\ \A j : AtParser(j)' <=> AtParser(j)
      /\ HandlersApart' /\ \A j : AtHandler(j)' <=> AtHandler(j)
      /\ \A j : Decided(j)' <=> Decided(j)
  BY <1>a, <1>b, <1>c
  DEF OncePlaced, ParsersApart, HandlersApart, AtParser, AtHandler, Busy, Decided
<1>e. next \in Nat /\ Nums \subseteq Nat /\ Quads \subseteq Nums
  BY <1>b, FileFacts DEF TypeOK, ReaderTypes
<1>f. \A i \in Nums : InSeq(buf, i) => ~InSeq(input, i) /\ ~ToRead(i)
  BY <1>b DEF Apart, ToShuffle
<1>g. next' = next + 1 => \A j \in Nums : ToRead(j)' <=> ToRead(j) /\ j # next
  BY <1>e DEF ToRead
<1>h. next' = next => \A j \in Nums : ToRead(j)' <=> ToRead(j)
  BY DEF ToRead
<1>i. next \in Nums => ToRead(next)
  BY <1>e DEF ToRead
<1> HIDE DEF PlaceInv
<1>1. CASE UNCHANGED <<next, buf, input>>
  BY <1>1, <1>c, <1>d, NothingMoves
<1>2. ASSUME next \in Nums, next' = next + 1, UNCHANGED input,
             \A j : InSeq(buf', j) <=> InSeq(buf, j) \/ j = next,
             Once(buf) /\ ~InSeq(buf, next) => Once(buf')
      PROVE  PlaceInv'
  <2>1. OncePlaced'
    BY <1>2, <1>b, <1>c, <1>d, <1>f, <1>i DEF OncePlaced
  <2>2. Apart'
    BY <1>2, <1>a, <1>b, <1>c, <1>d, <1>g, <1>i
    DEF Apart, ToJudge, ToHandle, ToSend, ToParse, ToShuffle
  <2>3. NoneLost'
    BY <1>2, <1>a, <1>b, <1>c, <1>d, <1>e, <1>g
    DEF NoneLost, ToJudge, ToHandle, ToSend, ToParse, ToShuffle
  <2> QED
    BY <2>1, <2>2, <2>3 DEF PlaceInv
<1>3. ASSUME NEW i \in Nums, next \in Nums, next' = next + 1,
             InSeq(buf, i), InSeq(buf', next),
             \A j : InSeq(input', j) <=> InSeq(input, j) \/ j = i,
             \A j : InSeq(buf', j) => InSeq(buf, j) \/ j = next,
             \A j : InSeq(buf, j) => InSeq(buf', j) \/ j = i,
             Once(input) /\ ~InSeq(input, i) => Once(input'),
             Once(buf) /\ ~InSeq(buf, next) => Once(buf') /\ ~InSeq(buf', i)
      PROVE  PlaceInv'
  <2>0. i # next /\ ~InSeq(input, i) /\ ~InSeq(buf, next) /\ ~InSeq(buf', i)
    BY <1>3, <1>b, <1>f, <1>i DEF OncePlaced
  <2>1. OncePlaced'
    BY <1>3, <1>b, <1>c, <1>d, <2>0 DEF OncePlaced
  <2>2. Apart'
    BY <1>3, <1>a, <1>b, <1>c, <1>d, <1>g, <1>i, <2>0
    DEF Apart, ToJudge, ToHandle, ToSend, ToParse, ToShuffle
  <2>3. NoneLost'
    BY <1>3, <1>a, <1>b, <1>c, <1>d, <1>e, <1>g
    DEF NoneLost, ToJudge, ToHandle, ToSend, ToParse, ToShuffle
  <2> QED
    BY <2>1, <2>2, <2>3 DEF PlaceInv
<1>4. ASSUME NEW i \in Nums, UNCHANGED next,
             InSeq(buf, i),
             \A j : InSeq(input', j) <=> InSeq(input, j) \/ j = i,
             \A j : InSeq(buf, j) <=> InSeq(buf', j) \/ j = i,
             Once(input) /\ ~InSeq(input, i) => Once(input'),
             Once(buf) => Once(buf') /\ ~InSeq(buf', i)
      PROVE  PlaceInv'
  <2>0. ~InSeq(input, i) /\ ~InSeq(buf', i)
    BY <1>4, <1>b, <1>f DEF OncePlaced
  <2>1. OncePlaced'
    BY <1>4, <1>b, <1>c, <1>d, <2>0 DEF OncePlaced
  <2>2. Apart'
    BY <1>4, <1>a, <1>b, <1>c, <1>d, <1>h, <2>0
    DEF Apart, ToJudge, ToHandle, ToSend, ToParse, ToShuffle
  <2>3. NoneLost'
    BY <1>4, <1>a, <1>b, <1>c, <1>d, <1>e, <1>h
    DEF NoneLost, ToJudge, ToHandle, ToSend, ToParse, ToShuffle
  <2> QED
    BY <2>1, <2>2, <2>3 DEF PlaceInv
<1>5. CASE FillWindow
  BY <1>1, <1>2, <1>5, <1>b, FillEffect
<1>6. CASE SwapLine
  <2>1. next \in Nums /\ next' = next + 1
    BY <1>6, <1>b, SwapEffect
  <2>2. PICK i \in Nums :
              /\ InSeq(buf, i) /\ InSeq(buf', next)
              /\ \A j : InSeq(input', j) <=> InSeq(input, j) \/ j = i
              /\ \A j : InSeq(buf', j) => InSeq(buf, j) \/ j = next
              /\ \A j : InSeq(buf, j) => InSeq(buf', j) \/ j = i
              /\ Once(input) /\ ~InSeq(input, i) => Once(input')
              /\ Once(buf) /\ ~InSeq(buf, next) => Once(buf') /\ ~InSeq(buf', i)
    BY <1>6, <1>b, SwapEffect
  <2> QED
    BY <2>1, <2>2, <1>3
<1>7. CASE EndOfFile
  BY <1>1, <1>7 DEF EndOfFile
<1>8. CASE Drain
  <2>1. UNCHANGED next
    BY <1>8, <1>b, DrainEffect
  <2>2. CASE UNCHANGED <<input, buf>>
    BY <1>1, <2>1, <2>2
  <2>3. CASE \E i \in Nums :
               /\ InSeq(buf, i)
               /\ \A j : InSeq(input', j) <=> InSeq(input, j) \/ j = i
               /\ \A j : InSeq(buf, j) <=> InSeq(buf', j) \/ j = i
               /\ Once(input) /\ ~InSeq(input, i) => Once(input')
               /\ Once(buf) => Once(buf') /\ ~InSeq(buf', i)
    BY <1>4, <2>1, <2>3
  <2> QED
    BY <1>8, <1>b, <2>2, <2>3, DrainEffect
<1> QED
  BY <1>5, <1>6, <1>7, <1>8 DEF ReadLines

(* A parser takes each line from input once and sends each quad once.      *)
LEMMA ParseStreamPlaces ==
  ASSUME TypeInv, OrderInv, PlaceInv, [Next]_vars, NEW p \in Parsers, ParseStream(p)
  PROVE  PlaceInv'
<1>a. Lines' = Lines /\ Nums' = Nums /\ Quads' = Quads /\ (Stopped => Stopped')
  BY FileKept, StoppedStays
<1>b. /\ OncePlaced /\ Apart /\ NoneLost /\ ParsersApart /\ TypeOK /\ Holding
      /\ done \in Seq({"nil", "err"})
  BY DEF PlaceInv, OncePlaced, TypeInv, TypeOK, ParserTypes
<1>c. UNCHANGED <<next, buf, hpc, hline, verdict>>
  BY DEF ParseStream, ParseLine, SendQuad, CountParsed, ParserExit, readerVars,
         handlerVars, history
<1>d. /\ HandlersApart' /\ \A j : AtHandler(j)' <=> AtHandler(j)
      /\ \A j : Decided(j)' <=> Decided(j)
      /\ \A j : ToShuffle(j)' <=> ToShuffle(j)
  BY <1>a, <1>b, <1>c
  DEF OncePlaced, HandlersApart, AtHandler, Busy, Decided, ToShuffle, ToRead
<1>e. Quads \subseteq Nums
  BY <1>b, FileFacts
<1>f. \A i \in Nums : /\ InSeq(buf, i) => ~ToRead(i)
                      /\ InSeq(buf', i) => ~ToRead(i)'
  BY <1>b, <1>c DEF Apart, ToRead
<1> HIDE DEF PlaceInv
<1>1. CASE ParseLine(p)
  <2>1. /\ ppc[p] = "range" /\ cnq' = cnq /\ main' = main
    BY <1>1, <1>b, ParseEffect
  <2>2. PICK i \in Nums :
              /\ InSeq(input, i)
              /\ \A j : InSeq(input, j) <=> InSeq(input', j) \/ j = i
              /\ Once(input) => Once(input') /\ ~InSeq(input', i)
              /\ \/ /\ Lines[i].kind = "empty" /\ i \notin Quads
                    /\ UNCHANGED <<ppc, pline, done>>
                 \/ /\ Lines[i].kind = "bad" /\ i \notin Quads
                    /\ ppc' = [ppc EXCEPT ![p] = "exited"]
                    /\ done' = Append(done, "err") /\ UNCHANGED pline
                 \/ /\ Lines[i].kind # "bad" /\ i \in Quads
                    /\ ppc' = [ppc EXCEPT ![p] = "send"]
                    /\ pline' = [pline EXCEPT ![p] = i] /\ UNCHANGED done
    BY <1>1, <1>b, ParseEffect
  <2>3. ~AtParser(i) /\ ~InSeq(input', i) /\ Once(input')
    BY <2>2, <1>b DEF Apart, ToParse, OncePlaced
  <2>4. CASE /\ i \notin Quads /\ (Lines[i].kind = "bad" => Stopped')
             /\ ParsersApart' /\ \A j : AtParser(j)' <=> AtParser(j)
    <3>1. OncePlaced'
      BY <2>1, <2>3, <2>4, <1>b, <1>c, <1>d DEF OncePlaced
    <3>2. Apart'
      BY <2>1, <2>2, <2>3, <2>4, <1>a, <1>b, <1>c, <1>d, <1>f
      DEF Apart, ToJudge, ToHandle, ToSend, ToParse
    <3>3. NoneLost'
      BY <2>1, <2>2, <2>3, <2>4, <1>a, <1>b, <1>c, <1>d
      DEF NoneLost, ToJudge, ToHandle, ToSend, ToParse
    <3> QED
      BY <3>1, <3>2, <3>3 DEF PlaceInv
  <2>5. CASE /\ i \in Quads /\ Lines[i].kind # "bad"
             /\ ParsersApart' /\ \A j : AtParser(j)' <=> AtParser(j) \/ j = i
    <3>1. OncePlaced'
      BY <2>1, <2>3, <2>5, <1>b, <1>c, <1>d DEF OncePlaced
    <3>2. Apart'
      BY <2>1, <2>2, <2>3, <2>5, <1>a, <1>b, <1>c, <1>d, <1>f
      DEF Apart, ToJudge, ToHandle, ToSend, ToParse
    <3>3. NoneLost'
      BY <2>1, <2>2, <2>3, <2>5, <1>a, <1>b, <1>c, <1>d
      DEF NoneLost, ToJudge, ToHandle, ToSend, ToParse
    <3> QED
      BY <3>1, <3>2, <3>3 DEF PlaceInv
  <2>6. CASE Lines[i].kind = "empty" /\ i \notin Quads /\ UNCHANGED <<ppc, pline, done>>
    BY <2>4, <2>6, <1>b, ParserPlaces
  <2>7. CASE /\ Lines[i].kind = "bad" /\ i \notin Quads
             /\ ppc' = [ppc EXCEPT ![p] = "exited"]
             /\ done' = Append(done, "err") /\ UNCHANGED pline
    <3>1. Stopped'
      BY <2>7, <1>b, AppendHas DEF Stopped
    <3>2. ParsersApart' /\ \A j : AtParser(j)' <=> AtParser(j)
      BY <2>1, <2>7, <1>b, ParserPlaces
    <3> QED
      BY <2>4, <2>7, <3>1, <3>2
  <2>8. CASE /\ Lines[i].kind # "bad" /\ i \in Quads
             /\ ppc' = [ppc EXCEPT ![p] = "send"]
             /\ pline' = [pline EXCEPT ![p] = i] /\ UNCHANGED done
    <3>1. ParsersApart' /\ \A j : AtParser(j)' <=> AtParser(j) \/ j = i
      BY <2>1, <2>3, <2>8, <1>b, ParserPlaces
    <3> QED
      BY <2>5, <2>8, <3>1
  <2> QED
    BY <2>2, <2>6, <2>7, <2>8
<1>2. CASE SendQuad(p)
  <2> DEFINE i == pline[p]
  <2>1. /\ ppc[p] = "send" /\ i \in Nums /\ UNCHANGED <<input, pline>>
        /\ ppc' = [ppc EXCEPT ![p] = "count"]
        /\ \A j : InSeq(cnq', j) <=> InSeq(cnq, j) \/ j = i
        /\ Once(cnq) /\ ~InSeq(cnq, i) => Once(cnq')
    BY <1>2, <1>b, <1>e, SendEffect
  <2>2. AtParser(i)
    BY <2>1 DEF AtParser
  <2>3. ParsersApart' /\ \A j : AtParser(j)' <=> AtParser(j) /\ j # i
    BY <2>1, <1>b, ParserPlaces
  <2>4. ~InSeq(cnq, i) /\ ~ToParse(i)
    BY <2>1, <2>2, <1>b DEF Apart, ToSend
  <2> HIDE DEF i
  <2>5. OncePlaced'
    BY <2>1, <2>3, <2>4, <1>b, <1>c, <1>d DEF OncePlaced
  <2>6. Apart'
    BY <2>1, <2>2, <2>3, <2>4, <1>a, <1>b, <1>c, <1>d, <1>f
    DEF Apart, ToJudge, ToHandle, ToSend, ToParse
  <2>7. NoneLost'
    BY <2>1, <2>3, <1>a, <1>b, <1>c, <1>d
    DEF NoneLost, ToJudge, ToHandle, ToSend, ToParse
  <2> QED
    BY <2>5, <2>6, <2>7 DEF PlaceInv
<1>3. ASSUME ppc[p] # "send", UNCHANGED <<input, cnq>>,
             \E s \in {"range", "exited"} : ppc' = [ppc EXCEPT ![p] = s],
             \A q \in Parsers : q # p => pline'[q] = pline[q]
      PROVE  PlaceInv'
  <2>1. ParsersApart' /\ \A j : AtParser(j)' <=> AtParser(j)
    BY <1>3, <1>b, ParserPlaces
  <2> QED
    BY <1>3, <2>1, <1>c, <1>d, NothingMoves
<1>4. CASE CountParsed(p)
  <2>1. \A q \in Parsers : q # p => pline'[q] = pline[q]
    BY <1>4, <1>b DEF CountParsed, TypeOK, ParserTypes
  <2> QED
    BY <1>3, <1>4, <2>1 DEF CountParsed
<1>5. CASE ParserExit(p)
  BY <1>3, <1>5 DEF ParserExit
<1> QED
  BY <1>1, <1>2, <1>4, <1>5 DEF ParseStream

(* A handler takes each quad from cnq once and decides it once.            *)
LEMMA HandleNQuadsPlaces ==
  ASSUME TypeInv, OrderInv, PlaceInv, [Next]_vars, NEW h \in Handlers, HandleNQuads(h)
  PROVE  PlaceInv'
<1>a. Lines' = Lines /\ Nums' = Nums /\ Quads' = Quads /\ (Stopped => Stopped')
  BY FileKept, StoppedStays
<1>b. OncePlaced /\ Apart /\ NoneLost /\ HandlersApart /\ TypeOK /\ Holding
  BY DEF PlaceInv, OncePlaced, TypeInv
<1>c. UNCHANGED <<next, buf, input, ppc, pline>>
  BY DEF HandleNQuads, TakeQuad, GetSubject, GetObject, Relate, ReadProps, WriteProps,
         CountProcessed, HandlerExit, Request, readerVars, parserVars
<1>d. /\ ParsersApart' /\ \A j : AtParser(j)' <=> AtParser(j)
      /\ \A j : ToParse(j)' <=> ToParse(j)
      /\ \A j : ToSend(j)' <=> ToSend(j)
  BY <1>b, <1>c DEF OncePlaced, ParsersApart, AtParser, ToSend, ToParse, ToShuffle, ToRead
<1>e. Quads \subseteq Nums /\ Wanted \subseteq Quads
  BY <1>b, FileFacts
<1>f. \A i \in Nums : /\ InSeq(buf', i) => ~ToRead(i)'
                      /\ InSeq(input', i) => ~ToShuffle(i)'
                      /\ AtParser(i)' => ~ToParse(i)'
  BY <1>b, <1>c, <1>d DEF Apart, ToShuffle, ToRead
<1>g. /\ hpc \in [Handlers -> {"range", "entity", "object", "relate", "read",
                               "write", "count", "exited"}]
      /\ hline \in [Handlers -> Wanted \cup {None}]
      /\ verdict \in [Quads -> {"processed", "ignored", Undecided}]
      /\ Undecided \notin {"processed", "ignored"}
  BY <1>b, LoaderAssumption DEF TypeOK, HandlerTypes, CounterTypes
<1> HIDE DEF PlaceInv
<1>1. CASE TakeQuad(h)
  <2>1. PICK i \in Quads :
              /\ InSeq(cnq, i)
              /\ \A j : InSeq(cnq, j) <=> InSeq(cnq', j) \/ j = i
              /\ Once(cnq) => Once(cnq') /\ ~InSeq(cnq', i)
              /\ \/ /\ hline' = [hline EXCEPT ![h] = i]
                    /\ hpc' = [hpc EXCEPT ![h] = "entity"]
                    /\ UNCHANGED verdict
                 \/ /\ verdict' = [verdict EXCEPT ![i] = "ignored"]
                    /\ UNCHANGED <<hline, hpc>>
    BY <1>1, <1>b, TakeEffect
  <2>2. hpc[h] = "range"
    BY <1>1, <1>b, TakeEffect
  <2>3. ~AtHandler(i) /\ ~Decided(i) /\ ~ToSend(i) /\ ~InSeq(cnq', i) /\ Once(cnq')
    BY <2>1, <1>b, <1>e DEF Apart, ToHandle, ToJudge, OncePlaced
  <2>4. \/ /\ HandlersApart' /\ \A j : AtHandler(j)' <=> AtHandler(j) \/ j = i
           /\ \A j : Decided(j)' <=> Decided(j)
        \/ /\ HandlersApart' /\ \A j : AtHandler(j)' <=> AtHandler(j)
           /\ \A j : Decided(j)' <=> Decided(j) \/ j = i
    <3>1. CASE /\ hline' = [hline EXCEPT ![h] = i] /\ hpc' = [hpc EXCEPT ![h] = "entity"]
               /\ UNCHANGED verdict
      <4>1. HandlersApart' /\ \A j : AtHandler(j)' <=> AtHandler(j) \/ j = i
        BY <2>2, <2>3, <3>1, <1>b, HandlerPlaces
      <4>2. \A j : Decided(j)' <=> Decided(j)
        BY <3>1, <1>a DEF Decided
      <4> QED
        BY <4>1, <4>2
    <3>2. CASE verdict' = [verdict EXCEPT ![i] = "ignored"] /\ UNCHANGED <<hline, hpc>>
      <4>1. HandlersApart' /\ \A j : AtHandler(j)' <=> AtHandler(j)
        BY <3>2, <1>b, HandlerPlaces
      <4>2. \A j : Decided(j)' <=> Decided(j) \/ j = i
        BY <2>1, <3>2, <1>a, <1>g DEF Decided
      <4> QED
        BY <4>1, <4>2
    <3> QED
      BY <2>1, <3>1, <3>2
  <2>5. OncePlaced'
    BY <2>3, <2>4, <1>b, <1>c, <1>d DEF OncePlaced
  <2>6. Apart'
    BY <2>1, <2>3, <2>4, <1>a, <1>b, <1>d, <1>f DEF Apart, ToJudge, ToHandle
  <2>7. NoneLost'
    BY <2>1, <2>4, <1>a, <1>b, <1>d DEF NoneLost, ToJudge, ToHandle
  <2> QED
    BY <2>5, <2>6, <2>7 DEF PlaceInv
<1>2. CASE CountProcessed(h)
  <2> DEFINE i == hline[h]
  <2>1. /\ hpc[h] = "count" /\ Busy(h) /\ i \in Quads /\ cnq' = cnq
        /\ hpc' = [hpc EXCEPT ![h] = "range"] /\ hline' = [hline EXCEPT ![h] = None]
        /\ verdict' = [verdict EXCEPT ![i] = "processed"]
    BY <1>2, <1>b, <1>e, <1>g DEF CountProcessed, Busy, Holding
  <2>2. AtHandler(i)
    BY <2>1 DEF AtHandler
  <2>3. HandlersApart' /\ \A j : AtHandler(j)' <=> AtHandler(j) /\ j # i
    BY <2>1, <1>b, HandlerPlaces
  <2>4. ~Decided(i) /\ ~ToHandle(i)
    BY <2>1, <2>2, <1>b, <1>e DEF Apart, ToJudge
  <2> HIDE DEF i
  <2>5. \A j : Decided(j)' <=> Decided(j) \/ j = i
    BY <2>1, <1>a, <1>g DEF Decided
  <2>6. OncePlaced'
    BY <2>1, <2>3, <1>b, <1>c, <1>d DEF OncePlaced
  <2>7. Apart'
    BY <2>1, <2>2, <2>3, <2>4, <2>5, <1>a, <1>b, <1>d, <1>f DEF Apart, ToJudge, ToHandle
  <2>8. NoneLost'
    BY <2>1, <2>3, <2>5, <1>a, <1>b, <1>d DEF NoneLost, ToJudge, ToHandle
  <2> QED
    BY <2>6, <2>7, <2>8 DEF PlaceInv
<1>3. ASSUME NEW s, Busy(h) <=> s \notin {"range", "exited"},
             hpc' = [hpc EXCEPT ![h] = s], UNCHANGED <<hline, cnq, verdict>>
      PROVE  PlaceInv'
  <2>1. HandlersApart' /\ \A j : AtHandler(j)' <=> AtHandler(j)
    BY <1>3, <1>b, HandlerPlaces
  <2> QED
    BY <1>3, <2>1, <1>c, <1>d, NothingMoves
<1>4. CASE GetSubject(h)
  BY <1>3, <1>4 DEF GetSubject, Request, history, Busy
<1>5. CASE GetObject(h)
  BY <1>3, <1>5 DEF GetObject, Request, history, Busy
<1>6. CASE Relate(h)
  BY <1>3, <1>6 DEF Relate, Request, history, Busy
<1>7. CASE ReadProps(h)
  BY <1>3, <1>7 DEF ReadProps, Request, history, Busy
<1>8. CASE WriteProps(h)
  BY <1>3, <1>8 DEF WriteProps, Request, history, Busy
<1>9. CASE HandlerExit(h)
  BY <1>3, <1>9 DEF HandlerExit, history, Busy
<1> QED
  BY <1>1, <1>2, <1>4, <1>5, <1>6, <1>7, <1>8, <1>9 DEF HandleNQuads

(* Every line stays in one place, and none is lost, whatever step is taken.*)
LEMMA PlaceInvStep == TypeInv /\ OrderInv /\ PlaceInv /\ [Next]_vars => PlaceInv'
<1> SUFFICES ASSUME TypeInv, OrderInv, PlaceInv, [Next]_vars PROVE PlaceInv'
  OBVIOUS
<1>1. ASSUME UNCHANGED <<next, buf, input, cnq, verdict, ppc, pline, hpc, hline>>
      PROVE  PlaceInv'
  <2>1. /\ ParsersApart' /\ \A j : AtParser(j)' <=> AtParser(j)
        /\ HandlersApart' /\ \A j : AtHandler(j)' <=> AtHandler(j)
    BY <1>1 DEF PlaceInv, OncePlaced, ParsersApart, HandlersApart, AtParser, AtHandler, Busy
  <2> QED
    BY <1>1, <2>1, NothingMoves
<1>2. CASE ReadLines
  BY <1>2, ReaderPlaces
<1>3. ASSUME NEW p \in Parsers, ParseStream(p) PROVE PlaceInv'
  BY <1>3, ParseStreamPlaces
<1>4. ASSUME NEW h \in Handlers, HandleNQuads(h) PROVE PlaceInv'
  BY <1>4, HandleNQuadsPlaces
<1>5. CASE ParserDone \/ Return \/ Fatal \/ UNCHANGED vars
  BY <1>1, <1>5
  DEF ParserDone, Return, Fatal, vars, readerVars, parserVars, handlerVars, history
<1> QED
  BY <1>2, <1>3, <1>4, <1>5 DEF Next, HandleRdfReader, Finished

-----------------------------------------------------------------------------
(* The quads sent are those that are not on their way to cnq.              *)
LEMMA SentIs == TypeInv /\ PlaceInv => Sent = {i \in Quads : ~ToSend(i)}
<1> SUFFICES ASSUME TypeInv, PlaceInv PROVE Sent = {i \in Quads : ~ToSend(i)}
  OBVIOUS
<1>1. Quads \subseteq Nums
  BY FileFacts DEF TypeInv
<1> QED
  BY <1>1 DEF PlaceInv, Apart, NoneLost, Sent, ToJudge, ToHandle

(* What the counters count is finite.                                      *)
LEMMA CountsFinite ==
  TypeOK =>
    /\ IsFiniteSet(Sent) /\ Cardinality(Sent) \in Nat
    /\ IsFiniteSet(Counting) /\ Cardinality(Counting) \in Nat
    /\ \A v : IsFiniteSet(Given(v)) /\ Cardinality(Given(v)) \in Nat
<1> SUFFICES ASSUME TypeOK
             PROVE  /\ IsFiniteSet(Sent) /\ Cardinality(Sent) \in Nat
                    /\ IsFiniteSet(Counting) /\ Cardinality(Counting) \in Nat
                    /\ \A v : IsFiniteSet(Given(v)) /\ Cardinality(Given(v)) \in Nat
  OBVIOUS
<1>1. IsFiniteSet(Quads) /\ IsFiniteSet(Parsers)
  BY FileFacts, LoaderAssumption
<1>2. Sent \subseteq Quads /\ Counting \subseteq Parsers /\ \A v : Given(v) \subseteq Quads
  BY DEF Sent, Counting, Given
<1> QED
  BY <1>1, <1>2, FS_Subset, FS_CardinalityType

(* The counters start at zero, and no quad is anywhere.                    *)
LEMMA CountersInit == Init => CountersRight
<1> SUFFICES ASSUME Init PROVE CountersRight
  OBVIOUS
<1>1. /\ ctr.parsed = 0 /\ ctr.processed = 0 /\ ctr.ignored = 0
      /\ cnq = <<>> /\ \A p \in Parsers : ppc[p] = "range"
      /\ \A h \in Handlers : hpc[h] = "range"
      /\ \A i \in Quads : verdict[i] = Undecided
  BY DEF Init
<1>2. Sent = {} /\ Counting = {}
  BY <1>1, NothingIn DEF Sent, Counting, AtHandler, Busy, Decided
<1>3. Given("processed") = {} /\ Given("ignored") = {}
  BY <1>1, LoaderAssumption DEF Given
<1>4. /\ Cardinality(Sent) = 0 /\ Cardinality(Counting) = 0
      /\ Cardinality(Given("processed")) = 0 /\ Cardinality(Given("ignored")) = 0
  BY <1>2, <1>3, FS_EmptySet
<1> QED
  BY <1>1, <1>4 DEF CountersRight

(* A quad decided is one quad more with its verdict.                       *)
LEMMA GivenGrows ==
  ASSUME TypeOK, NEW i \in Quads, NEW v \in {"processed", "ignored"},
         verdict[i] = Undecided, verdict' = [verdict EXCEPT ![i] = v], Quads' = Quads
  PROVE  /\ Cardinality(Given(v)') = Cardinality(Given(v)) + 1
         /\ \A w \in {"processed", "ignored"} : w # v => Given(w)' = Given(w)
<1>1. /\ verdict \in [Quads -> {"processed", "ignored", Undecided}]
      /\ Undecided \notin {"processed", "ignored"}
  BY LoaderAssumption DEF TypeOK, CounterTypes
<1>2. Given(v)' = Given(v) \cup {i} /\ i \notin Given(v)
  BY <1>1 DEF Given
<1>3. Cardinality(Given(v) \cup {i}) = Cardinality(Given(v)) + 1
  BY <1>2, CountsFinite, FS_AddElement
<1>4. ASSUME NEW w \in {"processed", "ignored"}, w # v PROVE Given(w)' = Given(w)
  BY <1>1, <1>4 DEF Given
<1> QED
  BY <1>2, <1>3, <1>4

(* The counters count quads: parsed those sent on cnq, behind by those the *)
(* parsers have just sent, the others those decided.                       *)
LEMMA CountersStep ==
  TypeInv /\ OrderInv /\ PlaceInv /\ CountersRight /\ [Next]_vars => CountersRight'
<1> SUFFICES ASSUME TypeInv, OrderInv, PlaceInv, CountersRight, [Next]_vars
             PROVE  CountersRight'
  OBVIOUS
<1>a. Lines' = Lines /\ Quads' = Quads /\ Wanted \subseteq Quads /\ Quads \subseteq Nums
  BY FileKept, FileFacts DEF TypeInv
<1>b. TypeInv' /\ PlaceInv'
  BY TypeInvStep, PlaceInvStep
<1>c. /\ TypeOK /\ Holding /\ Apart
      /\ ctr \in [parsed : Nat, processed : Nat, ignored : Nat]
      /\ ppc \in [Parsers -> {"range", "send", "count", "exited"}]
      /\ verdict \in [Quads -> {"processed", "ignored", Undecided}]
      /\ hline \in [Handlers -> Wanted \cup {None}]
      /\ Undecided \notin {"processed", "ignored"}
  BY LoaderAssumption
  DEF TypeInv, TypeOK, ParserTypes, HandlerTypes, CounterTypes, PlaceInv
<1>d. /\ IsFiniteSet(Sent) /\ Cardinality(Sent) \in Nat
      /\ IsFiniteSet(Counting) /\ Cardinality(Counting) \in Nat
  BY <1>c, CountsFinite
<1>e. /\ ctr.parsed + Cardinality(Counting) = Cardinality(Sent)
      /\ ctr.processed = Cardinality(Given("processed"))
      /\ ctr.ignored = Cardinality(Given("ignored"))
  BY DEF CountersRight
<1>f. verdict' = verdict => \A v : Given(v)' = Given(v)
  BY <1>a DEF Given
<1>g. UNCHANGED <<cnq, hpc, hline, verdict>> => Sent' = Sent
  BY <1>a DEF Sent, AtHandler, Busy, Decided
<1>h. UNCHANGED <<next, buf, input, ppc, pline>> => Sent' = Sent
  <2>1. ASSUME UNCHANGED <<next, buf, input, ppc, pline>>
        PROVE  Sent' = Sent
    <3>1. \A j : ToSend(j)' <=> ToSend(j)
      BY <2>1 DEF ToSend, ToParse, ToShuffle, ToRead, AtParser
    <3>2. (Sent = {i \in Quads : ~ToSend(i)})'
      BY <1>b, SentIs, PTL
    <3>3. Sent = {i \in Quads : ~ToSend(i)}
      BY SentIs
    <3> QED
      BY <1>a, <3>1, <3>2, <3>3
  <2> QED
    BY <2>1
<1>1. ASSUME Sent' = Sent, Counting' = Counting, UNCHANGED <<ctr, verdict>>
      PROVE  CountersRight'
  BY <1>1, <1>e, <1>f DEF CountersRight
<1>2. ASSUME NEW p \in Parsers, SendQuad(p) PROVE CountersRight'
  <2> DEFINE i == pline[p]
  <2>1. /\ ppc[p] = "send" /\ i \in Quads /\ ppc' = [ppc EXCEPT ![p] = "count"]
        /\ \A j : InSeq(cnq', j) <=> InSeq(cnq, j) \/ j = i
        /\ UNCHANGED <<hpc, hline, verdict, ctr>>
    BY <1>2, <1>c, SendEffect
  <2>2. AtParser(i)
    BY <2>1 DEF AtParser
  <2>3. i \notin Sent
    BY <2>1, <2>2, <1>a, <1>c DEF Sent, Apart, ToSend, ToHandle, ToJudge
  <2> HIDE DEF i
  <2>4. Sent' = Sent \cup {i}
    BY <2>1, <1>a DEF Sent, AtHandler, Busy, Decided
  <2>5. Counting' = Counting \cup {p} /\ p \notin Counting
    BY <2>1, <1>c DEF Counting
  <2>6. /\ Cardinality(Sent') = Cardinality(Sent) + 1
        /\ Cardinality(Counting') = Cardinality(Counting) + 1
    BY <2>3, <2>4, <2>5, <1>d, FS_AddElement
  <2>7. ctr'.parsed + Cardinality(Counting') = Cardinality(Sent')
    BY <2>1, <2>6, <1>c, <1>d, <1>e
  <2> QED
    BY <2>1, <2>7, <1>e, <1>f DEF CountersRight
<1>3. ASSUME NEW p \in Parsers, CountParsed(p) PROVE CountersRight'
  <2>1. /\ ppc[p] = "count" /\ ppc' = [ppc EXCEPT ![p] = "range"]
        /\ ctr' = [ctr EXCEPT !.parsed = @ + 1]
        /\ UNCHANGED <<cnq, hpc, hline, verdict>>
    BY <1>3 DEF CountParsed, handlerVars, history
  <2>2. Counting' = Counting \ {p} /\ p \in Counting
    BY <2>1, <1>c DEF Counting
  <2>3. Cardinality(Counting') = Cardinality(Counting) - 1
    BY <2>2, <1>d, FS_RemoveElement
  <2>4. /\ ctr'.parsed = ctr.parsed + 1 /\ ctr'.processed = ctr.processed
        /\ ctr'.ignored = ctr.ignored
    BY <2>1, <1>c
  <2>5. ctr'.parsed + Cardinality(Counting') = Cardinality(Sent')
    BY <2>1, <2>3, <2>4, <1>c, <1>d, <1>e, <1>g
  <2> QED
    BY <2>1, <2>4, <2>5, <1>e, <1>f DEF CountersRight
<1>4. ASSUME NEW h \in Handlers, TakeQuad(h) PROVE CountersRight'
  <2>1. UNCHANGED <<next, buf, input, ppc, pline>>
    BY <1>4, <1>c, TakeEffect
  <2>2. Sent' = Sent /\ Counting' = Counting
    BY <2>1, <1>h DEF Counting
  <2>3. PICK i \in Quads :
              /\ InSeq(cnq, i)
              /\ \/ UNCHANGED <<ctr, verdict>>
                 \/ /\ ctr' = [ctr EXCEPT !.ignored = @ + 1]
                    /\ verdict' = [verdict EXCEPT ![i] = "ignored"]
    BY <1>4, <1>c, TakeEffect
  <2>4. CASE UNCHANGED <<ctr, verdict>>
    BY <1>1, <2>2, <2>4
  <2>5. CASE /\ ctr' = [ctr EXCEPT !.ignored = @ + 1]
             /\ verdict' = [verdict EXCEPT ![i] = "ignored"]
    <3>1. verdict[i] = Undecided
      BY <2>3, <1>a, <1>c DEF Apart, Decided, ToJudge, ToHandle
    <3>2. /\ Cardinality(Given("ignored")') = Cardinality(Given("ignored")) + 1
          /\ Given("processed")' = Given("processed")
      BY <2>5, <3>1, <1>a, <1>c, GivenGrows
    <3>3. /\ ctr'.parsed = ctr.parsed /\ ctr'.processed = ctr.processed
          /\ ctr'.ignored = ctr.ignored + 1
      BY <2>5, <1>c
    <3> QED
      BY <2>2, <3>2, <3>3, <1>e DEF CountersRight
  <2> QED
    BY <2>3, <2>4, <2>5
<1>5. ASSUME NEW h \in Handlers, CountProcessed(h) PROVE CountersRight'
  <2> DEFINE i == hline[h]
  <2>1. /\ hpc[h] = "count" /\ ctr' = [ctr EXCEPT !.processed = @ + 1]
        /\ verdict' = [verdict EXCEPT ![i] = "processed"]
        /\ UNCHANGED <<next, buf, input, ppc, pline>>
    BY <1>5 DEF CountProcessed, readerVars, parserVars
  <2>2. Sent' = Sent /\ Counting' = Counting
    BY <2>1, <1>h DEF Counting
  <2>3. i \in Quads /\ AtHandler(i)
    BY <2>1, <1>a, <1>c DEF Holding, Busy, AtHandler
  <2>4. verdict[i] = Undecided
    BY <2>3, <1>a, <1>c DEF Apart, Decided, ToJudge
  <2> HIDE DEF i
  <2>5. /\ Cardinality(Given("processed")') = Cardinality(Given("processed")) + 1
        /\ Given("ignored")' = Given("ignored")
    BY <2>1, <2>3, <2>4, <1>a, <1>c, GivenGrows
  <2>6. /\ ctr'.parsed = ctr.parsed /\ ctr'.processed = ctr.processed + 1
        /\ ctr'.ignored = ctr.ignored
    BY <2>1, <1>c
  <2> QED
    BY <2>2, <2>5, <2>6, <1>e DEF CountersRight
<1>6. ASSUME NEW h \in Handlers,
             \/ GetSubject(h) \/ GetObject(h) \/ Relate(h) \/ ReadProps(h)
             \/ WriteProps(h) \/ HandlerExit(h)
      PROVE  CountersRight'
  <2>1. UNCHANGED <<next, buf, input, ppc, pline, ctr, verdict>>
    BY <1>6 DEF GetSubject, GetObject, Relate, ReadProps, WriteProps, HandlerExit,
         Request, readerVars, parserVars, history
  <2> QED
    BY <1>1, <2>1, <1>h DEF Counting
<1>7. ASSUME NEW p \in Parsers, ParseLine(p) \/ ParserExit(p) PROVE CountersRight'
  <2>1. UNCHANGED <<cnq, hpc, hline, verdict, ctr>>
    BY <1>7 DEF ParseLine, ParserExit, handlerVars, history
  <2>2. ppc[p] = "range" /\ (ppc' = ppc \/ \E s \in {"send", "exited"} : ppc' = [ppc EXCEPT ![p] = s])
    BY <1>7, <1>c, ParseEffect DEF ParserExit
  <2>3. Counting' = Counting
    BY <2>2, <1>c DEF Counting
  <2> QED
    BY <1>1, <2>1, <2>3, <1>g
<1>8. CASE \/ FillWindow \/ SwapLine \/ EndOfFile \/ Drain
           \/ ParserDone \/ Return \/ Fatal \/ UNCHANGED vars
  <2>1. UNCHANGED <<ppc, cnq, hpc, hline, verdict, ctr>>
    BY <1>8 DEF FillWindow, SwapLine, EndOfFile, Drain, ParserDone, Return, Fatal,
         vars, parserVars, handlerVars, history
  <2> QED
    BY <1>1, <2>1, <1>g DEF Counting
<1> QED
  BY <1>2, <1>3, <1>4, <1>5, <1>6, <1>7, <1>8, Steps

(* The invariant that the counters need.                                   *)
CountInv == TypeInv /\ OrderInv /\ PlaceInv /\ CountersRight

(* A quad can be handled before it is counted as parsed, by one per parser *)
(* at most.                                                                *)
LEMMA PendingNow ==
  CountInv => ctr.processed + ctr.ignored <= ctr.parsed + Cardinality(Parsers)
<1> SUFFICES ASSUME CountInv
             PROVE  ctr.processed + ctr.ignored <= ctr.parsed + Cardinality(Parsers)
  OBVIOUS
<1> USE DEF CountInv
<1> DEFINE P == Given("processed")
           I == Given("ignored")
<1>1. TypeOK /\ Undecided \notin {"processed", "ignored"}
  BY LoaderAssumption DEF TypeInv
<1>2. P \cap I = {} /\ P \cup I \subseteq Sent
  BY <1>1 DEF Given, Sent, Decided
<1>3. IsFiniteSet(P) /\ IsFiniteSet(I) /\ IsFiniteSet(Sent) /\ Cardinality(Sent) \in Nat
  BY <1>1, CountsFinite
<1>4. Cardinality(P) \in Nat /\ Cardinality(I) \in Nat
  BY <1>1, CountsFinite
<1>5. Cardinality(P \cup I) = Cardinality(P) + Cardinality(I) - Cardinality(P \cap I)
  BY <1>3, FS_Union
<1>6. Cardinality(P \cap I) = 0
  BY <1>2, FS_EmptySet
<1>7. Cardinality(P \cup I) <= Cardinality(Sent)
  BY <1>2, <1>3, FS_Subset
<1> HIDE DEF P, I
<1>8. Cardinality(P) + Cardinality(I) <= Cardinality(Sent)
  BY <1>4, <1>5, <1>6, <1>7
<1>9. /\ ctr.processed = Cardinality(P) /\ ctr.ignored = Cardinality(I)
      /\ ctr.parsed + Cardinality(Counting) = Cardinality(Sent)
  BY DEF CountersRight, P, I
<1>10. Cardinality(Counting) <= Cardinality(Parsers) /\ Cardinality(Counting) \in Nat
  <2>1. IsFiniteSet(Parsers) /\ Counting \subseteq Parsers
    BY LoaderAssumption DEF Counting
  <2> QED
    BY <2>1, FS_Subset, FS_CardinalityType
<1>11. ctr.parsed \in Nat /\ Cardinality(Parsers) \in Nat
  BY <1>1, LoaderAssumption, FS_CardinalityType DEF TypeOK, CounterTypes
<1> QED
  BY <1>4, <1>8, <1>9, <1>10, <1>11

(* No step of the loader takes a counter back.                             *)
LEMMA CountersGrow ==
  ASSUME CountInv, [Next]_vars
  PROVE  \A v \in {"parsed", "processed", "ignored"} : ctr'[v] \in Nat /\ ctr[v] <= ctr'[v]
<1>1. ctr \in [parsed : Nat, processed : Nat, ignored : Nat]
  BY DEF CountInv, TypeInv, TypeOK, CounterTypes
<1>2. CASE \E p \in Parsers : CountParsed(p)
  BY <1>1, <1>2 DEF CountParsed
<1>3. CASE \E h \in Handlers : TakeQuad(h)
  BY <1>1, <1>3 DEF TakeQuad
<1>4. CASE \E h \in Handlers : CountProcessed(h)
  BY <1>1, <1>4 DEF CountProcessed
<1>5. CASE UNCHANGED ctr
  BY <1>1, <1>5
<1> QED
  BY <1>2, <1>3, <1>4, <1>5, Steps
  DEF ParseLine, SendQuad, ParserExit, GetSubject, GetObject, Relate, ReadProps, WriteProps,
      Request, HandlerExit, FillWindow, SwapLine, EndOfFile, Drain, ParserDone, Return, Fatal,
      vars

(* What the printer relies on, besides the loader's invariant.             *)
PrintInv ==
  /\ PTypeOK /\ PrintedSlack
  /\ seen.processed <= ctr.processed

(* The printer starts with nothing loaded and nothing counted.             *)
LEMMA PrintInvInit == PInit => PrintInv
<1> SUFFICES ASSUME PInit PROVE PrintInv
  OBVIOUS
<1>1. /\ at = 1 /\ seen = [parsed |-> 0, processed |-> 0, ignored |-> 0]
      /\ ctr = [parsed |-> 0, processed |-> 0, ignored |-> 0]
  BY DEF PInit, Init
<1>2. Cardinality(Parsers) \in Nat
  BY LoaderAssumption, FS_CardinalityType
<1> QED
  BY <1>1, <1>2 DEF PrintInv, PTypeOK, PrintedSlack

(* The loader raises its counters under the printer.                       *)
LEMMA PrintInvLoader ==
  ASSUME CountInv, PrintInv, [Next]_vars, UNCHANGED <<at, seen>>
  PROVE  PrintInv'
<1>1. /\ ctr'.processed \in Nat /\ ctr.processed <= ctr'.processed
      /\ ctr'.parsed \in Nat /\ ctr.parsed <= ctr'.parsed
  BY CountersGrow
<1>2. ctr \in [parsed : Nat, processed : Nat, ignored : Nat]
  BY DEF CountInv, TypeInv, TypeOK, CounterTypes
<1>3. Cardinality(Parsers) \in Nat
  BY LoaderAssumption, FS_CardinalityType
<1>4. /\ seen.processed \in Nat /\ seen.parsed \in Nat /\ seen.ignored \in Nat
  BY DEF PrintInv, PTypeOK
<1> QED
  BY <1>1, <1>2, <1>3, <1>4 DEF PrintInv, PTypeOK, PrintedSlack

(* One load: processed first, so that what it leaves behind is less than   *)
(* what parsed and ignored, loaded later, can be ahead of.                 *)
LEMMA PrintInvLoad == ASSUME CountInv, PrintInv, Load PROVE PrintInv'
<1>1. /\ at \in 1..3 /\ at' = (at % 3) + 1 /\ ctr' = ctr
      /\ seen' = [seen EXCEPT ![Loads[at]] = ctr[Loads[at]]]
  BY DEF Load, vars, PrintInv, PTypeOK
<1>2. /\ ctr.processed \in Nat /\ ctr.parsed \in Nat /\ ctr.ignored \in Nat
  BY DEF CountInv, TypeInv, TypeOK, CounterTypes
<1>3. /\ seen.processed \in Nat /\ seen.parsed \in Nat /\ seen.ignored \in Nat
      /\ seen \in [{"parsed", "processed", "ignored"} -> Nat]
  BY DEF PrintInv, PTypeOK
<1>4. Cardinality(Parsers) \in Nat
  BY LoaderAssumption, FS_CardinalityType
<1>5. ctr.processed + ctr.ignored <= ctr.parsed + Cardinality(Parsers)
  BY PendingNow
<1>6. seen.processed <= ctr.processed
  BY DEF PrintInv
<1>7. CASE at = 1
  <2>1. at' = 2 /\ seen' = [seen EXCEPT !["processed"] = ctr.processed]
    BY <1>1, <1>7 DEF Loads
  <2>2. seen'.processed = ctr.processed /\ seen' \in [{"parsed", "processed", "ignored"} -> Nat]
    BY <1>2, <1>3, <2>1
  <2> QED
    BY <1>1, <1>2, <2>1, <2>2 DEF PrintInv, PTypeOK, PrintedSlack
<1>8. CASE at = 2
  <2>1. at' = 3 /\ seen' = [seen EXCEPT !["parsed"] = ctr.parsed]
    BY <1>1, <1>8 DEF Loads
  <2>2. /\ seen'.processed = seen.processed /\ seen'.parsed = ctr.parsed
        /\ seen' \in [{"parsed", "processed", "ignored"} -> Nat]
    BY <1>2, <1>3, <2>1
  <2>3. seen'.processed <= seen'.parsed + Cardinality(Parsers)
    BY <1>2, <1>3, <1>4, <1>5, <1>6, <2>2
  <2> QED
    BY <1>1, <1>6, <2>1, <2>2, <2>3 DEF PrintInv, PTypeOK, PrintedSlack
<1>9. CASE at = 3
  <2>1. at' = 1 /\ seen' = [seen EXCEPT !["ignored"] = ctr.ignored]
    BY <1>1, <1>9 DEF Loads
  <2>2. /\ seen'.processed = seen.processed /\ seen'.parsed = seen.parsed
        /\ seen'.ignored = ctr.ignored
        /\ seen' \in [{"parsed", "processed", "ignored"} -> Nat]
    BY <1>2, <1>3, <2>1
  <2>3. seen'.processed + seen'.ignored <= ctr.parsed + Cardinality(Parsers)
    BY <1>2, <1>3, <1>4, <1>5, <1>6, <2>2
  <2>4. seen'.processed <= seen'.parsed + Cardinality(Parsers)
    BY <1>9, <2>2 DEF PrintInv, PrintedSlack
  <2> QED
    BY <1>1, <1>6, <2>1, <2>2, <2>3, <2>4 DEF PrintInv, PTypeOK, PrintedSlack
<1> QED
  BY <1>1, <1>7, <1>8, <1>9

(* The counters printed were loaded one after the other: processed is ahead*)
(* of parsed by one per parser at most, and pending wraps by that and by   *)
(* what was parsed between the loads, however many goroutines there are.   *)
THEOREM PrintedIsBounded == PSpec => []PrintedSlack
<1>1. PInit => CountInv /\ PrintInv
  BY TypeInvInit, OrderInvInit, PlaceInvInit, CountersInit, PrintInvInit DEF PInit, CountInv
<1>2. CountInv /\ [Next]_vars => CountInv'
  BY TypeInvStep, OrderInvStep, PlaceInvStep, CountersStep DEF CountInv
<1>3. CountInv /\ PrintInv /\ [PNext]_allVars => CountInv' /\ PrintInv'
  <2> SUFFICES ASSUME CountInv, PrintInv, [PNext]_allVars PROVE CountInv' /\ PrintInv'
    OBVIOUS
  <2>1. CASE [Next]_vars /\ UNCHANGED <<at, seen>>
    BY <1>2, <2>1, PrintInvLoader
  <2>2. CASE Load
    <3>1. [Next]_vars
      BY <2>2 DEF Load
    <3> QED
      BY <1>2, <2>2, <3>1, PrintInvLoad
  <2> QED
    BY <2>1, <2>2 DEF PNext, allVars
<1>4. PrintInv => PrintedSlack
  BY DEF PrintInv
<1> QED
  BY <1>1, <1>3, <1>4, PTL DEF PSpec

-----------------------------------------------------------------------------
(* The database is empty at the start.                                     *)
LEMMA DataInit == Init => DataInv
<1> SUFFICES ASSUME Init PROVE DataInv
  OBVIOUS
<1>1. /\ rels = {} /\ nodes = {}
      /\ \A h \in Handlers : hpc[h] = "range"
      /\ \A i \in Quads : verdict[i] = Undecided
      /\ \A s \in Subjects, q \in Preds : props[s][q] = None
  BY DEF Init
<1>2. Wanted \subseteq Quads /\ Undecided \notin {"processed", "ignored"}
  BY LoaderAssumption DEF Wanted
<1>3. Route /\ PropsRight
  BY <1>1, <1>2 DEF Route, PropsRight
<1>4. \A i \in Wanted : ~HasSubject(i) /\ ~HasObject(i) /\ ~HasEdge(i)
  BY <1>1, <1>2 DEF HasSubject, HasObject, HasEdge, Past, AfterSubject, AfterObject
<1>5. RelsRight /\ NodesRight
  BY <1>1, <1>4 DEF RelsRight, NodesRight
<1> QED
  BY <1>3, <1>5 DEF DataInv

(* A request takes its line one stage further, and no other.               *)
LEMMA PastGrows ==
  ASSUME TypeOK, NEW h \in Handlers, NEW S, NEW t, hpc[h] \in S => t \in S,
         hpc' = [hpc EXCEPT ![h] = t], UNCHANGED <<hline, verdict>>
  PROVE  \A j : Past(j, S)' <=> Past(j, S) \/ (j = hline[h] /\ t \in S)
<1>1. hpc'[h] = t /\ \A g \in Handlers : g # h => hpc'[g] = hpc[g]
  BY DEF TypeOK, HandlerTypes
<1> QED
  BY <1>1 DEF Past

(* No other step takes a line further than it is.                          *)
LEMMA PastKept ==
  ASSUME TypeInv, PlaceInv, [Next]_vars,
         \A h \in Handlers : ~(\/ GetSubject(h) \/ GetObject(h) \/ Relate(h)
                               \/ ReadProps(h) \/ WriteProps(h)),
         NEW S \in SUBSET {"object", "relate", "read", "write", "count"}, "count" \in S
  PROVE  \A j \in Quads : Past(j, S)' <=> Past(j, S)
<1>a. /\ TypeOK /\ Holding /\ Apart
      /\ hpc \in [Handlers -> {"range", "entity", "object", "relate", "read",
                               "write", "count", "exited"}]
      /\ hline \in [Handlers -> Wanted \cup {None}]
      /\ verdict \in [Quads -> {"processed", "ignored", Undecided}]
      /\ Undecided \notin {"processed", "ignored"}
  BY LoaderAssumption DEF TypeInv, TypeOK, HandlerTypes, CounterTypes, PlaceInv
<1>b. Wanted \subseteq Quads /\ Quads \subseteq Nums
  BY <1>a, FileFacts
<1>1. CASE UNCHANGED <<hpc, hline, verdict>>
  BY <1>1 DEF Past
<1>2. ASSUME NEW h \in Handlers, TakeQuad(h)
      PROVE  \A j \in Quads : Past(j, S)' <=> Past(j, S)
  <2>1. hpc[h] = "range"
    BY <1>2, <1>a, TakeEffect
  <2>2. PICK i \in Quads :
              /\ InSeq(cnq, i)
              /\ \/ /\ hline' = [hline EXCEPT ![h] = i]
                    /\ hpc' = [hpc EXCEPT ![h] = "entity"]
                    /\ UNCHANGED verdict
                 \/ /\ verdict' = [verdict EXCEPT ![i] = "ignored"]
                    /\ UNCHANGED <<hline, hpc>>
    BY <1>2, <1>a, TakeEffect
  <2>3. CASE /\ hline' = [hline EXCEPT ![h] = i] /\ hpc' = [hpc EXCEPT ![h] = "entity"]
             /\ UNCHANGED verdict
    <3>1. /\ hpc[h] \notin S /\ hpc'[h] \notin S
          /\ \A g \in Handlers : g # h => hpc'[g] = hpc[g] /\ hline'[g] = hline[g]
      BY <2>1, <2>3, <1>a
    <3> QED
      BY <2>3, <3>1 DEF Past
  <2>4. CASE verdict' = [verdict EXCEPT ![i] = "ignored"] /\ UNCHANGED <<hline, hpc>>
    <3>1. verdict[i] = Undecided
      BY <2>2, <1>a, <1>b DEF Apart, Decided, ToJudge, ToHandle
    <3>2. \A j \in Quads : verdict'[j] = "processed" <=> verdict[j] = "processed"
      BY <2>4, <3>1, <1>a
    <3> QED
      BY <2>4, <3>2 DEF Past
  <2> QED
    BY <2>2, <2>3, <2>4
<1>3. ASSUME NEW h \in Handlers, CountProcessed(h)
      PROVE  \A j \in Quads : Past(j, S)' <=> Past(j, S)
  <2>1. /\ hpc[h] = "count" /\ hline[h] \in Quads
        /\ verdict' = [verdict EXCEPT ![hline[h]] = "processed"]
        /\ hpc' = [hpc EXCEPT ![h] = "range"] /\ hline' = [hline EXCEPT ![h] = None]
    BY <1>3, <1>a, <1>b DEF CountProcessed, Holding, Busy
  <2>2. /\ hpc'[h] \notin S /\ verdict'[hline[h]] = "processed"
        /\ \A g \in Handlers : g # h => hpc'[g] = hpc[g] /\ hline'[g] = hline[g]
        /\ \A j \in Quads : j # hline[h] => verdict'[j] = verdict[j]
    BY <2>1, <1>a
  <2> QED
    BY <2>1, <2>2 DEF Past
<1>4. ASSUME NEW h \in Handlers, HandlerExit(h)
      PROVE  \A j \in Quads : Past(j, S)' <=> Past(j, S)
  <2>1. /\ hpc[h] = "range" /\ hpc' = [hpc EXCEPT ![h] = "exited"]
        /\ UNCHANGED <<hline, verdict>>
    BY <1>4 DEF HandlerExit, history
  <2>2. /\ hpc[h] \notin S /\ hpc'[h] \notin S
        /\ \A g \in Handlers : g # h => hpc'[g] = hpc[g]
    BY <2>1, <1>a
  <2> QED
    BY <2>1, <2>2 DEF Past
<1>5. CASE \/ FillWindow \/ SwapLine \/ EndOfFile \/ Drain
           \/ \E p \in Parsers : ParseLine(p) \/ SendQuad(p) \/ CountParsed(p) \/ ParserExit(p)
           \/ ParserDone \/ Return \/ Fatal \/ UNCHANGED vars
  <2>1. UNCHANGED <<hpc, hline, verdict>>
    BY <1>5 DEF FillWindow, SwapLine, EndOfFile, Drain, ParseLine, SendQuad, CountParsed,
         ParserExit, ParserDone, Return, Fatal, vars, handlerVars, history
  <2> QED
    BY <1>1, <2>1
<1> QED
  BY <1>2, <1>3, <1>4, <1>5, Steps

(* A line is processed when it is sampled and ignored when it is not, and  *)
(* the requests made for it are those of its kind.                         *)
LEMMA RouteStep == TypeInv /\ PlaceInv /\ Route /\ [Next]_vars => Route'
<1> SUFFICES ASSUME TypeInv, PlaceInv, Route, [Next]_vars PROVE Route'
  OBVIOUS
<1>a. /\ TypeOK /\ Holding
      /\ hpc \in [Handlers -> {"range", "entity", "object", "relate", "read",
                               "write", "count", "exited"}]
      /\ hline \in [Handlers -> Wanted \cup {None}]
      /\ verdict \in [Quads -> {"processed", "ignored", Undecided}]
      /\ Undecided \notin {"processed", "ignored"}
  BY LoaderAssumption DEF TypeInv, TypeOK, HandlerTypes, CounterTypes
<1>b. Lines' = Lines /\ Quads' = Quads /\ Wanted' = Wanted /\ Wanted \subseteq Quads
  BY FileKept, <1>a, FileFacts
<1> USE <1>b DEF Route
<1>1. CASE UNCHANGED <<hpc, hline, verdict>>
  BY <1>1
<1>2. ASSUME NEW h \in Handlers, NEW t, hpc' = [hpc EXCEPT ![h] = t], UNCHANGED <<hline, verdict>>,
             t \in {"object", "relate"} => Lines[hline[h]].kind = "edge",
             t \in {"read", "write"} => Lines[hline[h]].kind # "edge"
      PROVE  Route'
  <2>1. hpc'[h] = t /\ \A g \in Handlers : g # h => hpc'[g] = hpc[g]
    BY <1>2, <1>a
  <2> QED
    BY <1>2, <2>1
<1>3. ASSUME NEW h \in Handlers, TakeQuad(h) PROVE Route'
  <2>1. PICK i \in Quads :
              \/ /\ i \in Wanted /\ hline' = [hline EXCEPT ![h] = i]
                 /\ hpc' = [hpc EXCEPT ![h] = "entity"]
                 /\ UNCHANGED verdict
              \/ /\ i \notin Wanted /\ verdict' = [verdict EXCEPT ![i] = "ignored"]
                 /\ UNCHANGED <<hline, hpc>>
    BY <1>3, <1>a, TakeEffect
  <2>2. CASE /\ hline' = [hline EXCEPT ![h] = i] /\ hpc' = [hpc EXCEPT ![h] = "entity"]
             /\ UNCHANGED verdict
    <3>1. /\ hpc'[h] = "entity"
          /\ \A g \in Handlers : g # h => hpc'[g] = hpc[g] /\ hline'[g] = hline[g]
      BY <2>2, <1>a
    <3> QED
      BY <2>2, <3>1
  <2>3. CASE /\ i \notin Wanted /\ verdict' = [verdict EXCEPT ![i] = "ignored"]
             /\ UNCHANGED <<hline, hpc>>
    <3>1. verdict'[i] = "ignored" /\ \A j \in Quads : j # i => verdict'[j] = verdict[j]
      BY <2>3, <1>a
    <3> QED
      BY <2>3, <3>1
  <2> QED
    BY <2>1, <2>2, <2>3
<1>4. ASSUME NEW h \in Handlers, CountProcessed(h) PROVE Route'
  <2>1. /\ hline[h] \in Wanted /\ verdict' = [verdict EXCEPT ![hline[h]] = "processed"]
        /\ hpc' = [hpc EXCEPT ![h] = "range"] /\ hline' = [hline EXCEPT ![h] = None]
    BY <1>4, <1>a DEF CountProcessed, Holding, Busy
  <2>2. /\ hpc'[h] = "range" /\ verdict'[hline[h]] = "processed"
        /\ \A g \in Handlers : g # h => hpc'[g] = hpc[g] /\ hline'[g] = hline[g]
        /\ \A j \in Quads : j # hline[h] => verdict'[j] = verdict[j]
    BY <2>1, <1>a
  <2> QED
    BY <2>1, <2>2
<1>5. ASSUME NEW h \in Handlers, GetSubject(h) PROVE Route'
  BY <1>2, <1>5 DEF GetSubject, Request, Quad, history
<1>6. ASSUME NEW h \in Handlers, GetObject(h) PROVE Route'
  BY <1>2, <1>6 DEF GetObject, Request, history
<1>7. ASSUME NEW h \in Handlers, Relate(h) PROVE Route'
  BY <1>2, <1>7 DEF Relate, Request, history
<1>8. ASSUME NEW h \in Handlers, ReadProps(h) PROVE Route'
  BY <1>2, <1>8 DEF ReadProps, Request, history
<1>9. ASSUME NEW h \in Handlers, WriteProps(h) PROVE Route'
  BY <1>2, <1>9 DEF WriteProps, Request, history
<1>10. ASSUME NEW h \in Handlers, HandlerExit(h) PROVE Route'
  BY <1>2, <1>10 DEF HandlerExit, history
<1>11. CASE \/ FillWindow \/ SwapLine \/ EndOfFile \/ Drain
            \/ \E p \in Parsers : ParseLine(p) \/ SendQuad(p) \/ CountParsed(p) \/ ParserExit(p)
            \/ ParserDone \/ Return \/ Fatal \/ UNCHANGED vars
  <2>1. UNCHANGED <<hpc, hline, verdict>>
    BY <1>11 DEF FillWindow, SwapLine, EndOfFile, Drain, ParseLine, SendQuad, CountParsed,
         ParserExit, ParserDone, Return, Fatal, vars, handlerVars, history
  <2> QED
    BY <1>1, <2>1
<1> QED
  BY <1>3, <1>4, <1>5, <1>6, <1>7, <1>8, <1>9, <1>10, <1>11, Steps

(* What a request changes in the database.                                 *)
LEMMA RequestEffect ==
  ASSUME TypeInv, Route, NEW h \in Handlers
  PROVE  /\ GetSubject(h) =>
              /\ hpc[h] = "entity" /\ hline[h] \in Wanted
              /\ \E t \in {"object", "read"} : hpc' = [hpc EXCEPT ![h] = t]
              /\ nodes' = nodes \cup {Lines[hline[h]].subj}
              /\ UNCHANGED <<rels, props, hprops, hline, verdict>>
         /\ GetObject(h) =>
              /\ hpc[h] = "object" /\ hline[h] \in Wanted
              /\ Lines[hline[h]].kind = "edge"
              /\ hpc' = [hpc EXCEPT ![h] = "relate"]
              /\ nodes' = nodes \cup {Lines[hline[h]].obj}
              /\ UNCHANGED <<rels, props, hprops, hline, verdict>>
         /\ Relate(h) =>
              /\ hpc[h] = "relate" /\ hline[h] \in Wanted
              /\ Lines[hline[h]].kind = "edge"
              /\ hpc' = [hpc EXCEPT ![h] = "count"]
              /\ rels' = rels \cup {hline[h]}
              /\ UNCHANGED <<nodes, props, hprops, hline, verdict>>
         /\ ReadProps(h) =>
              /\ hpc[h] = "read" /\ hline[h] \in Wanted
              /\ hpc' = [hpc EXCEPT ![h] = "write"]
              /\ hprops' = [hprops EXCEPT ![h] = props[Lines[hline[h]].subj]]
              /\ UNCHANGED <<nodes, rels, props, hline, verdict>>
         /\ WriteProps(h) =>
              /\ hpc[h] = "write" /\ hline[h] \in Wanted
              /\ Lines[hline[h]].kind # "edge"
              /\ hpc' = [hpc EXCEPT ![h] = "count"]
              /\ props' = [props EXCEPT ![Lines[hline[h]].subj] =
                             [hprops[h] EXCEPT ![Lines[hline[h]].pred] = hline[h]]]
              /\ UNCHANGED <<nodes, rels, hprops, hline, verdict>>
<1>1. Busy(h) => hline[h] \in Wanted
  BY DEF TypeInv, TypeOK, HandlerTypes, Holding
<1>2. /\ hpc[h] \in {"object", "relate"} => Lines[hline[h]].kind = "edge"
      /\ hpc[h] \in {"read", "write"} => Lines[hline[h]].kind # "edge"
  BY DEF Route
<1>3. GetSubject(h) =>
        /\ hpc[h] = "entity"
        /\ \E t \in {"object", "read"} : hpc' = [hpc EXCEPT ![h] = t]
        /\ nodes' = nodes \cup {Lines[hline[h]].subj}
        /\ UNCHANGED <<rels, props, hprops, hline, verdict>>
  BY DEF GetSubject, Request, Quad, history
<1>4. GetObject(h) =>
        /\ hpc[h] = "object" /\ hpc' = [hpc EXCEPT ![h] = "relate"]
        /\ nodes' = nodes \cup {Lines[hline[h]].obj}
        /\ UNCHANGED <<rels, props, hprops, hline, verdict>>
  BY DEF GetObject, Request, Quad, history
<1>5. Relate(h) =>
        /\ hpc[h] = "relate" /\ hpc' = [hpc EXCEPT ![h] = "count"]
        /\ rels' = rels \cup {hline[h]}
        /\ UNCHANGED <<nodes, props, hprops, hline, verdict>>
  BY DEF Relate, Request, history
<1>6. ReadProps(h) =>
        /\ hpc[h] = "read" /\ hpc' = [hpc EXCEPT ![h] = "write"]
        /\ hprops' = [hprops EXCEPT ![h] = props[Lines[hline[h]].subj]]
        /\ UNCHANGED <<nodes, rels, props, hline, verdict>>
  BY DEF ReadProps, Request, Quad, db, history
<1>7. WriteProps(h) =>
        /\ hpc[h] = "write" /\ hpc' = [hpc EXCEPT ![h] = "count"]
        /\ props' = [props EXCEPT ![Lines[hline[h]].subj] =
                       [hprops[h] EXCEPT ![Lines[hline[h]].pred] = hline[h]]]
        /\ UNCHANGED <<nodes, rels, hprops, hline, verdict>>
  BY DEF WriteProps, Request, Quad, history
<1> QED
  BY <1>1, <1>2, <1>3, <1>4, <1>5, <1>6, <1>7 DEF Busy

(* The relationships are those of the sampled edges related so far.        *)
LEMMA RelsStep ==
  TypeInv /\ PlaceInv /\ Route /\ RelsRight /\ [Next]_vars => RelsRight'
<1> SUFFICES ASSUME TypeInv, PlaceInv, Route, RelsRight, [Next]_vars PROVE RelsRight'
  OBVIOUS
<1>a. TypeOK /\ Wanted \subseteq Quads /\ Lines' = Lines /\ Wanted' = Wanted
  BY FileKept, FileFacts DEF TypeInv
<1> USE <1>a DEF RelsRight
<1>1. CASE \A h \in Handlers : ~(\/ GetSubject(h) \/ GetObject(h) \/ Relate(h)
                                 \/ ReadProps(h) \/ WriteProps(h))
  <2>1. \A j \in Quads : HasEdge(j)' <=> HasEdge(j)
    BY <1>1, PastKept DEF HasEdge
  <2>2. rels' = rels
    BY <1>1, Steps
    DEF FillWindow, SwapLine, EndOfFile, Drain, ParseLine, SendQuad, CountParsed,
        ParserExit, TakeQuad, CountProcessed, HandlerExit, ParserDone, Return, Fatal,
        vars, db
  <2> QED
    BY <2>1, <2>2
<1>2. ASSUME NEW h \in Handlers, NEW t, hpc' = [hpc EXCEPT ![h] = t],
             UNCHANGED <<hline, verdict>>, hpc[h] # "count",
             t = "count" => rels' = rels \cup {i \in {hline[h]} : Lines[i].kind = "edge"},
             t # "count" => rels' = rels, hline[h] \in Wanted
      PROVE  RelsRight'
  <2>1. \A j : HasEdge(j)' <=> HasEdge(j) \/ (j = hline[h] /\ t \in {"count"})
    BY <1>2, PastGrows DEF HasEdge
  <2> QED
    BY <1>2, <2>1
<1>3. ASSUME NEW h \in Handlers, GetSubject(h) PROVE RelsRight'
  BY <1>2, <1>3, RequestEffect
<1>4. ASSUME NEW h \in Handlers, GetObject(h) PROVE RelsRight'
  BY <1>2, <1>4, RequestEffect
<1>5. ASSUME NEW h \in Handlers, Relate(h) PROVE RelsRight'
  <2>1. {i \in {hline[h]} : Lines[i].kind = "edge"} = {hline[h]}
    BY <1>5, RequestEffect
  <2> QED
    BY <1>2, <1>5, <2>1, RequestEffect
<1>6. ASSUME NEW h \in Handlers, ReadProps(h) PROVE RelsRight'
  BY <1>2, <1>6, RequestEffect
<1>7. ASSUME NEW h \in Handlers, WriteProps(h) PROVE RelsRight'
  <2>1. {i \in {hline[h]} : Lines[i].kind = "edge"} = {}
    BY <1>7, RequestEffect
  <2> QED
    BY <1>2, <1>7, <2>1, RequestEffect
<1> QED
  BY <1>1, <1>3, <1>4, <1>5, <1>6, <1>7

(* The nodes are those of the sampled quads that got that far.             *)
LEMMA NodesStep ==
  TypeInv /\ PlaceInv /\ Route /\ NodesRight /\ [Next]_vars => NodesRight'
<1> SUFFICES ASSUME TypeInv, PlaceInv, Route, NodesRight, [Next]_vars PROVE NodesRight'
  OBVIOUS
<1>a. TypeOK /\ Wanted \subseteq Quads /\ Lines' = Lines /\ Wanted' = Wanted
  BY FileKept, FileFacts DEF TypeInv
<1> DEFINE Subj == {j \in Wanted : HasSubject(j)}
           Obj  == {j \in Wanted : Lines[j].kind = "edge" /\ HasObject(j)}
<1>b. nodes = {Lines[i].subj : i \in Subj} \cup {Lines[i].obj : i \in Obj}
  BY DEF NodesRight
<1>c. NodesRight' <=> nodes' = {Lines[i].subj : i \in Subj'} \cup {Lines[i].obj : i \in Obj'}
  BY <1>a DEF NodesRight
<1>1. CASE \A h \in Handlers : ~(\/ GetSubject(h) \/ GetObject(h) \/ Relate(h)
                                 \/ ReadProps(h) \/ WriteProps(h))
  <2>1. \A j \in Quads : HasSubject(j)' <=> HasSubject(j)
    BY <1>1, PastKept DEF HasSubject, AfterSubject
  <2>2. \A j \in Quads : HasObject(j)' <=> HasObject(j)
    BY <1>1, PastKept DEF HasObject, AfterObject
  <2>3. nodes' = nodes
    BY <1>1, Steps
    DEF FillWindow, SwapLine, EndOfFile, Drain, ParseLine, SendQuad, CountParsed,
        ParserExit, TakeQuad, CountProcessed, HandlerExit, ParserDone, Return, Fatal,
        vars, db
  <2>4. Subj' = Subj /\ Obj' = Obj
    BY <2>1, <2>2, <1>a
  <2> QED
    BY <2>3, <2>4, <1>b, <1>c
<1>2. ASSUME NEW h \in Handlers, GetSubject(h) PROVE NodesRight'
  <2>1. /\ hpc[h] = "entity" /\ hline[h] \in Wanted
        /\ nodes' = nodes \cup {Lines[hline[h]].subj} /\ UNCHANGED <<hline, verdict>>
    BY <1>2, RequestEffect
  <2>2. PICK t \in {"object", "read"} : hpc' = [hpc EXCEPT ![h] = t]
    BY <1>2, RequestEffect
  <2>a. /\ hpc[h] \notin AfterSubject /\ t \in AfterSubject
        /\ hpc[h] \notin AfterObject /\ t \notin AfterObject
    BY <2>1, <2>2 DEF AfterSubject, AfterObject
  <2>3. \A j : HasSubject(j)' <=> HasSubject(j) \/ (j = hline[h] /\ t \in AfterSubject)
    BY <2>1, <2>2, <2>a, <1>a, PastGrows DEF HasSubject
  <2>4. \A j : HasObject(j)' <=> HasObject(j) \/ (j = hline[h] /\ t \in AfterObject)
    BY <2>1, <2>2, <2>a, <1>a, PastGrows DEF HasObject
  <2>5. Subj' = Subj \cup {hline[h]} /\ Obj' = Obj
    BY <2>1, <2>a, <2>3, <2>4, <1>a
  <2> QED
    BY <2>1, <2>5, <1>b, <1>c
<1>3. ASSUME NEW h \in Handlers, GetObject(h) PROVE NodesRight'
  <2>1. /\ hpc[h] = "object" /\ hline[h] \in Wanted /\ Lines[hline[h]].kind = "edge"
        /\ hpc' = [hpc EXCEPT ![h] = "relate"]
        /\ nodes' = nodes \cup {Lines[hline[h]].obj} /\ UNCHANGED <<hline, verdict>>
    BY <1>3, RequestEffect
  <2>a. /\ hpc[h] \in AfterSubject /\ "relate" \in AfterSubject
        /\ hpc[h] \notin AfterObject /\ "relate" \in AfterObject
    BY <2>1 DEF AfterSubject, AfterObject
  <2>2. \A j : HasSubject(j)' <=> HasSubject(j) \/ (j = hline[h] /\ "relate" \in AfterSubject)
    BY <2>1, <2>a, <1>a, PastGrows DEF HasSubject
  <2>3. HasSubject(hline[h])
    BY <2>a DEF HasSubject, Past
  <2>4. \A j : HasObject(j)' <=> HasObject(j) \/ (j = hline[h] /\ "relate" \in AfterObject)
    BY <2>1, <2>a, <1>a, PastGrows DEF HasObject
  <2>5. Subj' = Subj /\ Obj' = Obj \cup {hline[h]}
    BY <2>1, <2>a, <2>2, <2>3, <2>4, <1>a
  <2> QED
    BY <2>1, <2>5, <1>b, <1>c
<1>4. ASSUME NEW h \in Handlers, Relate(h) \/ ReadProps(h) \/ WriteProps(h) PROVE NodesRight'
  <2>1. /\ hpc[h] \in {"relate", "read", "write"} /\ UNCHANGED <<nodes, hline, verdict>>
        /\ hpc[h] # "relate" => Lines[hline[h]].kind # "edge"
        /\ \E t \in {"write", "count"} :
             hpc' = [hpc EXCEPT ![h] = t] /\ (hpc[h] = "relate" => t = "count")
    <3>1. CASE Relate(h)
      BY <3>1, RequestEffect
    <3>2. CASE ReadProps(h)
      BY <3>2, RequestEffect DEF Route
    <3>3. CASE WriteProps(h)
      BY <3>3, RequestEffect
    <3> QED
      BY <1>4, <3>1, <3>2, <3>3
  <2>2. PICK t \in {"write", "count"} :
          hpc' = [hpc EXCEPT ![h] = t] /\ (hpc[h] = "relate" => t = "count")
    BY <2>1
  <2>a. /\ hpc[h] \in AfterSubject /\ t \in AfterSubject
        /\ hpc[h] \in AfterObject <=> hpc[h] = "relate"
        /\ hpc[h] \in AfterObject => t \in AfterObject
    BY <2>1, <2>2 DEF AfterSubject, AfterObject
  <2>3. \A j : HasSubject(j)' <=> HasSubject(j) \/ (j = hline[h] /\ t \in AfterSubject)
    BY <2>1, <2>2, <2>a, <1>a, PastGrows DEF HasSubject
  <2>4. HasSubject(hline[h])
    BY <2>a DEF HasSubject, Past
  <2>5. \A j : HasObject(j)' <=> HasObject(j) \/ (j = hline[h] /\ t \in AfterObject)
    BY <2>1, <2>2, <2>a, <1>a, PastGrows DEF HasObject
  <2>6. hpc[h] = "relate" => HasObject(hline[h])
    BY <2>a DEF HasObject, Past
  <2>7. Subj' = Subj /\ Obj' = Obj
    BY <2>1, <2>3, <2>4, <2>5, <2>6, <1>a
  <2> QED
    BY <2>1, <2>7, <1>b, <1>c
<1> QED
  BY <1>1, <1>2, <1>3, <1>4

(* A property value is that of a sampled line of its node and predicate,   *)
(* in the database and in what a handler is about to write back.           *)
LEMMA PropsStep == TypeInv /\ Route /\ PropsRight /\ [Next]_vars => PropsRight'
<1> SUFFICES ASSUME TypeInv, Route, PropsRight, [Next]_vars PROVE PropsRight'
  OBVIOUS
<1>a. /\ Lines' = Lines /\ Wanted' = Wanted /\ Subjects' = Subjects /\ Preds' = Preds
  BY FileKept
<1>b. /\ TypeOK /\ Holding /\ Wanted \subseteq Quads
      /\ \A i \in Quads : Lines[i].subj \in Subjects /\ Lines[i].pred \in Preds
      /\ hpc \in [Handlers -> {"range", "entity", "object", "relate", "read",
                               "write", "count", "exited"}]
      /\ hline \in [Handlers -> Wanted \cup {None}]
      /\ hprops \in [Handlers -> [Preds -> Nums \cup {None}]]
      /\ props \in [Subjects -> [Preds -> Nums \cup {None}]]
  BY FileFacts DEF TypeInv, TypeOK, HandlerTypes
<1>c. \A i, s, q : OwnValue(i, s, q)' <=> OwnValue(i, s, q)
  BY <1>a DEF OwnValue
<1>d. /\ \A s \in Subjects, q \in Preds : props[s][q] # None => OwnValue(props[s][q], s, q)
      /\ \A h \in Handlers : hpc[h] = "write" =>
           \A q \in Preds :
             hprops[h][q] # None => OwnValue(hprops[h][q], Lines[hline[h]].subj, q)
  BY DEF PropsRight
<1>1. ASSUME NEW h \in Handlers, NEW t, t # "write", UNCHANGED <<props, hprops>>,
             hpc' = [hpc EXCEPT ![h] = t],
             hline' = hline \/ \E i \in Wanted \cup {None} : hline' = [hline EXCEPT ![h] = i]
      PROVE  PropsRight'
  <2>1. /\ hpc'[h] = t
        /\ \A g \in Handlers : g # h => hpc'[g] = hpc[g] /\ hline'[g] = hline[g]
    BY <1>1, <1>b
  <2> QED
    BY <1>1, <2>1, <1>a, <1>c, <1>d DEF PropsRight
<1>2. CASE UNCHANGED <<hpc, hline, props, hprops>>
  BY <1>2, <1>a, <1>c, <1>d DEF PropsRight
<1>3. ASSUME NEW h \in Handlers, TakeQuad(h) PROVE PropsRight'
  <2>1. /\ UNCHANGED <<props, hprops>>
        /\ \/ UNCHANGED <<hline, hpc>>
           \/ /\ hpc' = [hpc EXCEPT ![h] = "entity"]
              /\ \E i \in Wanted : hline' = [hline EXCEPT ![h] = i]
    BY <1>3, <1>b, TakeEffect
  <2> QED
    BY <2>1, <1>1, <1>2
<1>4. ASSUME NEW h \in Handlers, GetSubject(h) PROVE PropsRight'
  BY <1>1, <1>4, RequestEffect
<1>5. ASSUME NEW h \in Handlers, GetObject(h) PROVE PropsRight'
  BY <1>1, <1>5, RequestEffect
<1>6. ASSUME NEW h \in Handlers, Relate(h) PROVE PropsRight'
  BY <1>1, <1>6, RequestEffect
<1>7. ASSUME NEW h \in Handlers, ReadProps(h) PROVE PropsRight'
  <2> DEFINE s == Lines[hline[h]].subj
  <2>1. /\ hline[h] \in Wanted /\ hpc' = [hpc EXCEPT ![h] = "write"]
        /\ hprops' = [hprops EXCEPT ![h] = props[s]] /\ UNCHANGED <<props, hline>>
    BY <1>7, RequestEffect
  <2>2. s \in Subjects
    BY <2>1, <1>b
  <2>3. /\ hprops'[h] = props[s]
        /\ \A g \in Handlers : g # h => hpc'[g] = hpc[g] /\ hprops'[g] = hprops[g]
    BY <2>1, <1>b
  <2>4. \A q \in Preds : props[s][q] # None => OwnValue(props[s][q], s, q)
    BY <2>2, <1>d
  <2>5. ASSUME NEW g \in Handlers, hpc'[g] = "write", NEW q \in Preds, hprops'[g][q] # None
        PROVE  OwnValue(hprops'[g][q], Lines[hline[g]].subj, q)
    <3>1. CASE g = h
      BY <2>3, <2>4, <2>5, <3>1
    <3>2. CASE g # h
      BY <2>3, <2>5, <3>2, <1>d
    <3> QED
      BY <3>1, <3>2
  <2> QED
    BY <2>1, <2>5, <1>a, <1>c, <1>d DEF PropsRight
<1>8. ASSUME NEW h \in Handlers, WriteProps(h) PROVE PropsRight'
  <2> DEFINE i == hline[h]
             s == Lines[i].subj
             r == Lines[i].pred
  <2>1. /\ hpc[h] = "write" /\ i \in Wanted /\ hpc' = [hpc EXCEPT ![h] = "count"]
        /\ props' = [props EXCEPT ![s] = [hprops[h] EXCEPT ![r] = i]]
        /\ UNCHANGED <<hprops, hline>>
    BY <1>8, RequestEffect
  <2>2. s \in Subjects /\ r \in Preds /\ OwnValue(i, s, r)
    BY <2>1, <1>b DEF OwnValue
  <2>3. /\ props'[s][r] = i
        /\ \A q \in Preds : q # r => props'[s][q] = hprops[h][q]
        /\ \A x \in Subjects : x # s => props'[x] = props[x]
    <3>1. props'[s] = [hprops[h] EXCEPT ![r] = i]
      BY <2>1, <2>2, <1>b
    <3>2. hprops[h] \in [Preds -> Nums \cup {None}]
      BY <1>b
    <3>3. \A x \in Subjects : x # s => props'[x] = props[x]
      BY <2>1, <1>b
    <3> QED
      BY <2>2, <3>1, <3>2, <3>3
  <2>4. \A q \in Preds : hprops[h][q] # None => OwnValue(hprops[h][q], s, q)
    BY <2>1, <1>d
  <2>5. ASSUME NEW x \in Subjects, NEW q \in Preds, props'[x][q] # None
        PROVE  OwnValue(props'[x][q], x, q)
    <3>1. CASE x = s /\ q = r
      BY <2>2, <2>3, <3>1
    <3>2. CASE x = s /\ q # r
      BY <2>3, <2>4, <2>5, <3>2
    <3>3. CASE x # s
      BY <2>3, <2>5, <3>3, <1>d
    <3> QED
      BY <3>1, <3>2, <3>3
  <2>6. \A g \in Handlers : hpc'[g] = "write" => hpc[g] = "write"
    BY <2>1, <1>b
  <2> QED
    BY <2>1, <2>5, <2>6, <1>a, <1>c, <1>d DEF PropsRight
<1>9. ASSUME NEW h \in Handlers, CountProcessed(h) PROVE PropsRight'
  BY <1>1, <1>9 DEF CountProcessed, db
<1>10. ASSUME NEW h \in Handlers, HandlerExit(h) PROVE PropsRight'
  BY <1>1, <1>10 DEF HandlerExit, db
<1>11. CASE UNCHANGED <<hpc, hline, hprops, nodes, rels, props>>
  BY <1>2, <1>11
<1> QED
  BY <1>3, <1>4, <1>5, <1>6, <1>7, <1>8, <1>9, <1>10, <1>11, HandlerSteps

-----------------------------------------------------------------------------
(* The whole invariant holds when the loader starts.                       *)
LEMMA LoaderInvInit == Init => LoaderInv
  BY TypeInvInit, OrderInvInit, PlaceInvInit, CountersInit, DataInit DEF LoaderInv

(* Every step of the loader keeps the whole invariant.                     *)
LEMMA LoaderInvStep == LoaderInv /\ [Next]_vars => LoaderInv'
  BY TypeInvStep, OrderInvStep, PlaceInvStep, CountersStep, RouteStep, RelsStep,
     NodesStep, PropsStep
  DEF LoaderInv, DataInv

(* When all handlers have returned, the last line of the file has been read*)
(* and every quad has been dealt with.                                     *)
LEMMA NothingLeft ==
  ASSUME LoaderInv, Running = {}, main # "fatal"
  PROVE  /\ \A i \in Nums : Lines[i].kind # "bad"
         /\ \A i \in Quads : verdict[i] = IF i \in Wanted THEN "processed" ELSE "ignored"
         /\ Live = {} /\ Sent = Quads
<1>1. /\ TypeOK /\ ReaderOrder /\ ParserOrder /\ ParserEnds /\ HandlerOrder
      /\ NoneLost /\ Route /\ Handlers # {} /\ Parsers # {}
      /\ verdict \in [Quads -> {"processed", "ignored", Undecided}]
      /\ main \in {"collect", "wait", "returned", "fatal"}
  BY LoaderAssumption
  DEF LoaderInv, TypeInv, TypeOK, CallerTypes, CounterTypes, OrderInv, PlaceInv, DataInv
<1>2. cnq = <<>> /\ cnqClosed
  BY <1>1 DEF HandlerOrder
<1>3. Live = {} /\ done = <<>>
  BY <1>1, <1>2 DEF ParserOrder
<1>4. ~Stopped
  BY <1>3, NothingIn DEF Stopped
<1>5. input = <<>> /\ inputClosed
  BY <1>1, <1>3, <1>4 DEF ParserEnds
<1>6. next = Len(Lines) + 1 /\ buf = <<>>
  BY <1>1, <1>5 DEF ReaderOrder
<1>7. \A i \in Nums : ~ToRead(i)
  BY <1>1, <1>6, FileFacts DEF ToRead
<1>8. \A i \in Nums : ~ToParse(i)
  BY <1>5, <1>6, <1>7, NothingIn DEF ToParse, ToShuffle
<1>9. \A i : ~AtParser(i) /\ ~AtHandler(i)
  BY <1>3 DEF AtParser, AtHandler, Live, Running, Busy
<1>10. \A i \in Nums : ~ToJudge(i)
  BY <1>2, <1>8, <1>9, NothingIn DEF ToJudge, ToHandle, ToSend
<1>11. \A i \in Nums : Lines[i].kind # "bad"
  BY <1>1, <1>4, <1>8 DEF NoneLost
<1>12. \A i \in Quads : Decided(i)
  BY <1>1, <1>10, FileFacts DEF NoneLost
<1>13. \A i \in Quads : verdict[i] \in {"processed", "ignored"}
  BY <1>1, <1>12 DEF Decided
<1>14. \A i \in Quads : verdict[i] = IF i \in Wanted THEN "processed" ELSE "ignored"
  BY <1>1, <1>13 DEF Route
<1>15. Sent = Quads
  BY <1>12 DEF Sent
<1> QED
  BY <1>3, <1>11, <1>14, <1>15

(* When HandleRdfReader returns, the whole file is in the database: no line*)
(* is lost between the channels, however many goroutines there are.        *)
THEOREM LoadIsComplete == Spec => []LoadComplete
<1>1. LoaderInv => LoadComplete
  <2> SUFFICES ASSUME LoaderInv, main = "returned" PROVE LoadComplete
    BY DEF LoadComplete
  <2>1. Running = {} /\ TypeOK /\ CountersRight /\ RelsRight /\ NodesRight /\ PropsRight
    BY DEF LoaderInv, TypeInv, OrderInv, HandlerOrder, DataInv
  <2>2. /\ \A i \in Nums : Lines[i].kind # "bad"
        /\ \A i \in Quads : verdict[i] = IF i \in Wanted THEN "processed" ELSE "ignored"
        /\ Live = {} /\ Sent = Quads
    BY <2>1, NothingLeft
  <2>3. ctr.parsed = Cardinality(Quads)
    <3>1. Counting = {}
      BY <2>2 DEF Counting, Live
    <3>2. Cardinality(Counting) = 0
      BY <3>1, FS_EmptySet
    <3>3. ctr.parsed \in Nat
      BY <2>1 DEF TypeOK, CounterTypes
    <3> QED
      BY <2>1, <2>2, <3>2, <3>3 DEF CountersRight
  <2>4. Wanted \subseteq Quads
    BY <2>1, FileFacts
  <2>5. \A i \in Wanted : HasSubject(i) /\ HasObject(i) /\ HasEdge(i)
    BY <2>2, <2>4 DEF HasSubject, HasObject, HasEdge, Past
  <2>6. rels = {i \in Wanted : Lines[i].kind = "edge"}
    BY <2>1, <2>5 DEF RelsRight
  <2>7. nodes = {Lines[i].subj : i \in Wanted} \cup {Lines[i].obj : i \in rels}
    <3>1. {j \in Wanted : HasSubject(j)} = Wanted
      BY <2>5
    <3>2. {j \in Wanted : Lines[j].kind = "edge" /\ HasObject(j)} = rels
      BY <2>5, <2>6
    <3> QED
      BY <2>1, <3>1, <3>2 DEF NodesRight
  <2>8. \A s \in Subjects, q \in Preds :
          props[s][q] # None =>
            /\ props[s][q] \in Wanted
            /\ Lines[props[s][q]].subj = s /\ Lines[props[s][q]].pred = q
    BY <2>1 DEF PropsRight, OwnValue
  <2> QED
    BY <2>2, <2>3, <2>6, <2>7, <2>8 DEF LoadComplete
<1> QED
  BY <1>1, LoaderInvInit, LoaderInvStep, PTL DEF Spec

-----------------------------------------------------------------------------
(* The cardinality Ledger counts with is the one of FiniteSets.            *)
LEMMA LedgerCardinality == \A S : L!Cardinality(S) = Cardinality(S)
  BY DEF L!Cardinality, Cardinality

(* The loader starts as the ledger does.                                   *)
LEMMA LedgerInit == Init => L!LInit
  BY DEF Init, L!LInit, L!Items

(* A quad a handler counts, as ignored or as processed, is an item the     *)
(* ledger judges; the counters HandleRdfReader returns are the ledger's    *)
(* tally; everything else the loader does, the ledger does not see.        *)
LEMMA LedgerStep == LoaderInv /\ [Next]_vars => [L!LNext]_(L!lvars)
<1> SUFFICES ASSUME LoaderInv, [Next]_vars PROVE [L!LNext]_(L!lvars)
  OBVIOUS
<1>a. /\ TypeOK /\ Holding /\ Apart /\ CountersRight /\ HandlerOrder
      /\ ctr \in [parsed : Nat, processed : Nat, ignored : Nat]
      /\ verdict \in [Quads -> {"processed", "ignored", Undecided}]
      /\ hline \in [Handlers -> Wanted \cup {None}]
      /\ wg \in Nat
      /\ main \in {"collect", "wait", "returned", "fatal"}
      /\ Undecided \notin {"processed", "ignored"}
  BY RunningFinite, LoaderAssumption
  DEF LoaderInv, TypeInv, TypeOK, HandlerTypes, CallerTypes, CounterTypes, OrderInv,
      PlaceInv
<1>b. Wanted \subseteq Quads /\ Quads \subseteq Nums
  BY <1>a, FileFacts
<1>c. L!Items = Quads
  BY <1>a DEF L!Items
<1>d. ASSUME NEW h \in Handlers, hpc[h] # "exited" PROVE report = Unpublished
  BY <1>a, <1>d DEF HandlerOrder, Running
<1>1. ASSUME NEW h \in Handlers, TakeQuad(h) PROVE [L!LNext]_(L!lvars)
  <2>1. hpc[h] = "range" /\ UNCHANGED report
    BY <1>1, <1>a, TakeEffect
  <2>2. PICK i \in Quads :
              /\ InSeq(cnq, i)
              /\ \/ UNCHANGED verdict
                 \/ verdict' = [verdict EXCEPT ![i] = "ignored"]
    BY <1>1, <1>a, TakeEffect
  <2>3. CASE UNCHANGED verdict
    BY <2>1, <2>3 DEF L!lvars
  <2>4. CASE verdict' = [verdict EXCEPT ![i] = "ignored"]
    <3>1. verdict[i] = Undecided
      BY <2>2, <1>a, <1>b DEF Apart, Decided, ToJudge, ToHandle
    <3>2. L!Judge(i)
      BY <2>1, <2>4, <3>1, <1>d DEF L!Judge, Verdicts
    <3> QED
      BY <3>2, <1>c DEF L!LNext
  <2> QED
    BY <2>2, <2>3, <2>4
<1>2. ASSUME NEW h \in Handlers, CountProcessed(h) PROVE [L!LNext]_(L!lvars)
  <2> DEFINE i == hline[h]
  <2>1. /\ hpc[h] = "count" /\ UNCHANGED report
        /\ verdict' = [verdict EXCEPT ![i] = "processed"]
    BY <1>2 DEF CountProcessed
  <2>2. i \in Quads /\ AtHandler(i)
    BY <2>1, <1>a, <1>b DEF Holding, Busy, AtHandler
  <2>3. verdict[i] = Undecided
    BY <2>2, <1>a, <1>b DEF Apart, Decided, ToJudge
  <2>4. L!Judge(i)
    BY <2>1, <2>3, <1>d DEF L!Judge, Verdicts
  <2> QED
    BY <2>2, <2>4, <1>c DEF L!LNext
<1>3. CASE Return
  <2>1. /\ main = "wait" /\ wg = 0 /\ UNCHANGED verdict
        /\ report' = [v \in {"processed", "ignored"} |-> ctr[v]]
    BY <1>3 DEF Return
  <2>2. report = Unpublished
    BY <2>1, <1>a DEF HandlerOrder
  <2>3. Running = {}
    BY <2>1, <1>a, RunningFinite, FS_EmptySet DEF HandlerOrder
  <2>4. \A i \in Quads : verdict[i] \in Verdicts
    BY <2>1, <2>3, NothingLeft DEF Verdicts
  <2>5. \A v : L!Judged(v) = Given(v)
    BY <1>c DEF L!Judged, Given
  <2>6. \A v \in Verdicts : ctr[v] = Cardinality(L!Judged(v))
    <3>1. /\ ctr["processed"] = Cardinality(Given("processed"))
          /\ ctr["ignored"] = Cardinality(Given("ignored"))
      BY <1>a DEF CountersRight
    <3> QED
      BY <2>5, <3>1, Zenon DEF Verdicts
  <2>7. report' = L!Tally
    <3>1. [v \in Verdicts |-> ctr[v]] = [v \in Verdicts |-> Cardinality(L!Judged(v))]
      BY <2>6, Zenon
    <3>2. L!Tally = [v \in Verdicts |-> Cardinality(L!Judged(v))]
      BY LedgerCardinality, Zenon DEF L!Tally
    <3>3. report' = [v \in Verdicts |-> ctr[v]]
      BY <2>1, Zenon DEF Verdicts
    <3> QED
      BY <3>1, <3>2, <3>3, Zenon
  <2>8. L!Publish
    BY <2>1, <2>2, <2>4, <2>7, <1>c DEF L!Publish
  <2> QED
    BY <2>8 DEF L!LNext
<1>4. ASSUME NEW p \in Parsers, CountParsed(p) PROVE [L!LNext]_(L!lvars)
  BY <1>4 DEF CountParsed, history, L!lvars
<1>5. CASE UNCHANGED <<ctr, verdict, report>>
  BY <1>5 DEF L!lvars
<1> QED
  BY <1>1, <1>2, <1>3, <1>4, <1>5, CounterSteps

(* The loader keeps the promise of Ledger: every quad judged once, and the *)
(* counters returned once, after the last judgement, and equal to what the *)
(* handlers judged.                                                        *)
THEOREM LoaderImplementsLedger == Spec => ImplementsLedger
<1>1. Spec => []LoaderInv
  BY LoaderInvInit, LoaderInvStep, PTL DEF Spec
<1> QED
  BY <1>1, LedgerInit, LedgerStep, PTL DEF Spec, ImplementsLedger, L!LSpec
=============================================================================
