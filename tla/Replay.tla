------------------------------- MODULE Replay -------------------------------
(***************************************************************************)
(* regression/replay: main walks the folder of queries and sends them down *)
(* qch; each worker asks the server, writes the reply to the file of the   *)
(* query's suffix in the folder -dest, and, with -src, compares the reply  *)
(* with the file of that suffix there.  The name of a query is split at    *)
(* "-" and only its last part is kept: two queries may share a file, and   *)
(* ioutil.WriteFile truncates first and writes then.                       *)
(*                                                                         *)
(* A reply is a sequence of blocks, so that a longer one written beneath a *)
(* shorter one is seen.                                                    *)
(***************************************************************************)
EXTENDS Naturals, Sequences, FiniteSets, SequencesExt

CONSTANTS
  Folders,      (* folders to be tried: sequences of queries; a query has  *)
                (* parts (of its name), suffix and reply (a sequence, or   *)
                (* Nothing for an error)                                   *)
  Expected,     (* -src: suffix -> the reply of an earlier replay          *)
  Users,        (* the workers, -c of them                                 *)
  QueueCap,     (* the room in qch (100)                                   *)
  Nothing       (* no file, no query, an error                             *)

VARIABLES
  feed,         (* the folder, in the order of the walk                    *)
  main,         (* "walk" | "wait" | "returned" | "fatal"                  *)
  line,         (* queries sent                                            *)
  queue, closed,(* qch: the indices of the queries                         *)
  pc,           (* worker -> "range" | "ask" | "write" | "compare" |       *)
                (*           "exited"                                      *)
  held,         (* worker -> the index of its query, 0 if none             *)
  file,         (* suffix -> the file in -dest                             *)
  verdict,      (* what was said of each query                             *)
  count         (* the queries done                                        *)

vars == <<feed, main, line, queue, closed, pc, held, file, verdict, count>>

SuffixOf(i) == feed[i].suffix
Answer(i) == feed[i].reply
FileNames == DOMAIN Expected

Init ==
  /\ feed \in Folders
  /\ main = "walk" /\ line = 0
  /\ queue = <<>> /\ closed = FALSE
  /\ pc = [u \in Users |-> "range"]
  /\ held = [u \in Users |-> 0]
  /\ file = [s \in FileNames |-> Nothing]
  /\ verdict = [i \in DOMAIN feed |-> "none"]
  /\ count = 0

(* walk: a name without "-" fails the assertion.                           *)
Send ==
  /\ main = "walk" /\ line < Len(feed)
  /\ IF feed[line + 1].parts < 2
     THEN main' = "fatal" /\ UNCHANGED <<line, queue>>
     ELSE /\ Len(queue) < QueueCap
          /\ line' = line + 1
          /\ queue' = Append(queue, line + 1)
          /\ UNCHANGED main
  /\ UNCHANGED <<feed, closed, pc, held, file, verdict, count>>

Close ==
  /\ main = "walk" /\ line = Len(feed)
  /\ closed' = TRUE
  /\ main' = "wait"
  /\ UNCHANGED <<feed, line, queue, pc, held, file, verdict, count>>

Take(u) ==
  /\ pc[u] = "range"
  /\ \/ /\ queue # <<>>
        /\ held' = [held EXCEPT ![u] = Head(queue)]
        /\ queue' = Tail(queue)
        /\ pc' = [pc EXCEPT ![u] = "ask"]
     \/ /\ queue = <<>> /\ closed
        /\ pc' = [pc EXCEPT ![u] = "exited"]
        /\ UNCHANGED <<queue, held>>
  /\ UNCHANGED <<feed, main, line, closed, file, verdict, count>>

(* getResponse, which ends the program on any error; then WriteFile opens  *)
(* the file with O_TRUNC.                                                  *)
Ask(u) ==
  /\ pc[u] = "ask"
  /\ IF Answer(held[u]) = Nothing
     THEN main' = "fatal" /\ UNCHANGED <<pc, file>>
     ELSE /\ file' = [file EXCEPT ![SuffixOf(held[u])] = <<>>]
          /\ pc' = [pc EXCEPT ![u] = "write"]
          /\ UNCHANGED main
  /\ UNCHANGED <<feed, line, queue, closed, held, verdict, count>>

(* One write at offset 0: what is there behind it stays.                   *)
Over(new, old) == new \o SubSeq(old, Len(new) + 1, Len(old))

WriteReply(u) ==
  /\ pc[u] = "write"
  /\ file' = [file EXCEPT ![SuffixOf(held[u])] = Over(Answer(held[u]), @)]
  /\ pc' = [pc EXCEPT ![u] = "compare"]
  /\ UNCHANGED <<feed, main, line, queue, closed, held, verdict, count>>

(* Mutant: the file in -dest is compared, not the reply. *)
CompareFile(u) ==
  /\ pc[u] = "compare"
  /\ verdict' = [verdict EXCEPT ![held[u]] =
       IF file[SuffixOf(held[u])] = Expected[SuffixOf(held[u])] THEN "matched" ELSE "differs"]
  /\ count' = count + 1
  /\ pc' = [pc EXCEPT ![u] = "range"]
  /\ UNCHANGED <<feed, main, line, queue, closed, held, file>>

(* bytes.Equal with the file of -src, which must be there; count.          *)
Compare(u) ==
  /\ pc[u] = "compare"
  /\ IF Expected[SuffixOf(held[u])] = Nothing
     THEN main' = "fatal" /\ UNCHANGED <<pc, verdict, count>>
     ELSE /\ verdict' = [verdict EXCEPT ![held[u]] =
               IF Answer(held[u]) = Expected[SuffixOf(held[u])] THEN "matched" ELSE "differs"]
          /\ count' = count + 1
          /\ pc' = [pc EXCEPT ![u] = "range"]
          /\ UNCHANGED main
  /\ UNCHANGED <<feed, line, queue, closed, held, file>>

Return ==
  /\ main = "wait" /\ \A u \in Users : pc[u] = "exited"
  /\ main' = "returned"
  /\ UNCHANGED <<feed, line, queue, closed, pc, held, file, verdict, count>>

Ended == main \in {"returned", "fatal"} /\ UNCHANGED vars

Next ==
  \/ /\ main \notin {"returned", "fatal"}
     /\ \/ Send \/ Close \/ Return
        \/ \E u \in Users : Take(u) \/ Ask(u) \/ WriteReply(u) \/ Compare(u)
  \/ Ended

-----------------------------------------------------------------------------
(* A replay that ends has judged every query by its own reply, whoever     *)
(* wrote to its file meanwhile.  A file of -dest has the reply of a query  *)
(* with its suffix, the one written last, on top of what others left: it   *)
(* is as long as one of their replies, and each of its blocks is that of a *)
(* reply at this place; so a file only one query has is its reply.         *)
Mine(s) == {i \in DOMAIN feed : SuffixOf(i) = s}
BlockOf(i, s, p) ==
  /\ p \in DOMAIN Answer(i) /\ p \in DOMAIN file[s]
  /\ file[s][p] = Answer(i)[p]
MadeOf(s) ==
  /\ \E last \in Mine(s) : \A p \in DOMAIN Answer(last) : BlockOf(last, s, p)
  /\ \E longest \in Mine(s) : Len(file[s]) = Len(Answer(longest))
  /\ \A p \in DOMAIN file[s] : \E i \in Mine(s) : BlockOf(i, s, p)

ReplayFaithful ==
  main = "returned" =>
    /\ count = Len(feed)
    /\ \A i \in DOMAIN feed :
         verdict[i] = IF Answer(i) = Expected[SuffixOf(i)] THEN "matched" ELSE "differs"
    /\ \A s \in FileNames : Mine(s) # {} => MadeOf(s)
=============================================================================
