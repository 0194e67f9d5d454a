---------------------------- MODULE MCNeoLoader -----------------------------
(* Instances of NeoLoader and NeoPrinter for TLC.                          *)
EXTENDS NeoPrinter

Value(s, p) == [kind |-> "value", subj |-> s, pred |-> p, obj |-> ""]
Edge(s, o) == [kind |-> "edge", subj |-> s, pred |-> "knows", obj |-> o]
Other(k) == [kind |-> k, subj |-> "", pred |-> "", obj |-> ""]

(* Two values of one subject, one of another, and an edge between them.    *)
MixedFile ==
  <<Value("a", "name"), Edge("a", "b"), Value("a", "age"), Value("b", "age")>>

(* A subject that is not sampled and an empty line.                        *)
SparseFile == <<Value("c", "name"), Other("empty"), Value("b", "age")>>

(* Two values of one subject and nothing else.                             *)
SmallFile == <<Value("a", "name"), Value("a", "age")>>

(* A line that does not parse and an empty one, between lines that do.     *)
BadFile == <<Value("a", "name"), Other("bad"), Other("empty"), Edge("a", "b")>>

(* As many quads as processed can be ahead of parsed, and one more.        *)
PlainFile == <<Value("a", "name"), Value("b", "name"), Value("b", "age")>>

TheFiles == {MixedFile, SparseFile, BadFile, PlainFile}
SlowFiles == {SparseFile, PlainFile}
SmallFiles == {SmallFile}
=============================================================================
