----------------------------- MODULE FeedFiles ------------------------------
(***************************************************************************)
(* twitterdata: stream and postprocess.  Both have workers that take       *)
(* messages from one channel and write a file each through a bufio.Writer. *)
(* The worker of stream writes a line for each message, goes on to the     *)
(* next when one cannot be marshalled or written, and never flushes; the   *)
(* worker of postprocess writes a JSON array, with a separator BEFORE each *)
(* message, flushes, and is awaited.                                       *)
(*                                                                         *)
(* A message is a number; Fate says what becomes of it.  The feed is the   *)
(* channel of the stream, or the lines of the files postprocess walks.     *)
(***************************************************************************)
EXTENDS Naturals, Sequences, FiniteSets, SequencesExt

CONSTANTS
  Feeds,        (* feeds to be tried: sequences of fates, which are        *)
                (* "tweet", "other" (postprocess: no tweet, or not parsed; *)
                (* stream: not marshalled) or "unread"                     *)
  Users,        (* the workers, -n of them                                 *)
  WriterSize,   (* tokens that fit into a bufio.Writer                     *)
  QueueCap,     (* the room in the channel                                 *)
  Open, Comma, End, (* "[", "," and "]" in a file                          *)
  LineFeed      (* the end of a line                                       *)

VARIABLES
  tool,         (* "stream" | "postprocess"                                *)
  feed,         (* the fates of the messages 1..Len(feed)                  *)
  main,         (* "walk" | "wait" | "returned" | "panic"                  *)
  line,         (* messages sent                                           *)
  queue, closed,(* the channel work                                        *)
  pc,           (* worker -> "start" | "range" | "message" | "exited"      *)
  held,         (* worker -> its message, 0 if none                        *)
  noErr,        (* worker -> its variable noErr                            *)
  writer,       (* worker -> what the bufio.Writer holds                   *)
  broken,       (* worker -> the bufio.Writer has met an error             *)
  file,         (* worker -> what the file holds                           *)
  taken,        (* history: worker -> the messages it took, in stream the  *)
                (* ones it gave to a writer that had met no error          *)
  skipped       (* history: worker -> the others                           *)

vars == <<tool, feed, main, line, queue, closed, pc, held, noErr, writer, broken, file,
          taken, skipped>>
files == <<writer, broken, file>>
history == <<taken, skipped>>

Init ==
  /\ tool \in {"stream", "postprocess"}
  /\ feed \in Feeds
  /\ main = "walk" /\ line = 0
  /\ queue = <<>> /\ closed = FALSE
  /\ pc = [u \in Users |-> "start"]
  /\ held = [u \in Users |-> 0]
  /\ noErr = [u \in Users |-> FALSE]
  /\ writer = [u \in Users |-> <<>>]
  /\ broken = [u \in Users |-> FALSE]
  /\ file = [u \in Users |-> <<>>]
  /\ taken = [u \in Users |-> <<>>]
  /\ skipped = [u \in Users |-> {}]

(* bufio.Writer: what does not fit any more pushes full buffers out.       *)
PushedOut(all) == IF all = <<>> THEN 0 ELSE ((Len(all) - 1) \div WriterSize) * WriterSize

Write(u, tokens) ==
  LET all == writer[u] \o tokens IN
  /\ file' = [file EXCEPT ![u] = @ \o SubSeq(all, 1, PushedOut(all))]
  /\ writer' = [writer EXCEPT ![u] = SubSeq(all, PushedOut(all) + 1, Len(all))]
  /\ UNCHANGED broken

(* The file takes less than what is pushed out, but what it took before;   *)
(* the error stays, and no later write does anything.                      *)
PushFails(u, all, before, out) ==
  \E n \in before..out :
    /\ n < out
    /\ file' = [file EXCEPT ![u] = @ \o SubSeq(all, 1, n)]
    /\ writer' = [writer EXCEPT ![u] = SubSeq(all, n + 1, Len(all))]
    /\ broken' = [broken EXCEPT ![u] = TRUE]

WriteFails(u, tokens) == PushFails(u, writer[u] \o tokens, 0, PushedOut(writer[u] \o tokens))

(* WriteString of one token may come back with an error.                   *)
MayFail(u, token) == broken[u] \/ PushedOut(Append(writer[u], token)) > 0

WriteAndFlush(u, tokens) ==
  LET all == writer[u] \o tokens IN
  \/ /\ file' = [file EXCEPT ![u] = @ \o all]
     /\ writer' = [writer EXCEPT ![u] = <<>>]
     /\ UNCHANGED broken
  \/ PushFails(u, all, PushedOut(all), Len(all))

(* A line the Scanner cannot hold ends processFile and the walk: panic.    *)
Send ==
  /\ main = "walk" /\ line < Len(feed)
  /\ IF tool = "postprocess" /\ feed[line + 1] = "unread"
     THEN main' = "panic" /\ UNCHANGED <<line, queue>>
     ELSE /\ Len(queue) < QueueCap
          /\ line' = line + 1
          /\ queue' = Append(queue, line + 1)
          /\ UNCHANGED main
  /\ UNCHANGED <<tool, feed, closed, pc, held, noErr, files, history>>

(* close(work); c.Wait().  The channel of the stream ends with the feed.   *)
Close ==
  /\ main = "walk" /\ line = Len(feed)
  /\ closed' = TRUE
  /\ main' = "wait"
  /\ UNCHANGED <<tool, feed, line, queue, pc, held, noErr, files, history>>

(* os.Create, and the head of the array.                                   *)
StartWork(u) ==
  /\ pc[u] = "start"
  /\ pc' = [pc EXCEPT ![u] = "range"]
  /\ Write(u, IF tool = "postprocess" THEN <<Open>> ELSE <<>>)
  /\ UNCHANGED <<tool, feed, main, line, queue, closed, held, noErr, history>>

Take(u) ==
  /\ pc[u] = "range" /\ queue # <<>>
  /\ held' = [held EXCEPT ![u] = Head(queue)]
  /\ queue' = Tail(queue)
  /\ pc' = [pc EXCEPT ![u] = "message"]
  /\ UNCHANGED <<tool, feed, main, line, closed, noErr, files, history>>

TakenToo(u) == taken' = [taken EXCEPT ![u] = Append(@, held[u])]

(* Mutant: the separator after every message but the first. *)
WriteTweetKeepsNoErr(u) ==
  LET good == feed[held[u]] = "tweet"
      separator == IF noErr[u] THEN <<Comma>> ELSE <<>> IN
  /\ tool = "postprocess" /\ pc[u] = "message"
  /\ IF broken[u] THEN UNCHANGED files ELSE Write(u, separator \o IF good THEN <<held[u]>> ELSE <<>>)
  /\ noErr' = [noErr EXCEPT ![u] = good \/ @]
  /\ TakenToo(u)
  /\ pc' = [pc EXCEPT ![u] = "range"]
  /\ UNCHANGED <<tool, feed, main, line, queue, closed, held, skipped>>

(* postprocess: the separator if the message BEFORE was good, and then the *)
(* message if it is a tweet.  A message that cannot be written is one more *)
(* that is not good.                                                       *)
WriteTweet(u) ==
  LET good == feed[held[u]] = "tweet"
      separator == IF noErr[u] THEN <<Comma>> ELSE <<>>
      message == IF good THEN <<held[u]>> ELSE <<>> IN
  /\ tool = "postprocess" /\ pc[u] = "message"
  /\ \/ /\ ~broken[u]
        /\ Write(u, separator \o message)
        /\ noErr' = [noErr EXCEPT ![u] = good]
     \/ /\ ~broken[u] /\ good
        /\ WriteFails(u, separator \o message)
        /\ noErr' = [noErr EXCEPT ![u] = FALSE]
     \/ /\ broken[u]
        /\ noErr' = [noErr EXCEPT ![u] = FALSE]
        /\ UNCHANGED files
  /\ TakenToo(u)
  /\ pc' = [pc EXCEPT ![u] = "range"]
  /\ UNCHANGED <<tool, feed, main, line, queue, closed, held, skipped>>

(* The separator cannot be written: panic.                                 *)
SeparatorFails(u) ==
  /\ tool = "postprocess" /\ pc[u] = "message" /\ noErr[u]
  /\ MayFail(u, Comma)
  /\ main' = "panic"
  /\ UNCHANGED <<tool, feed, line, queue, closed, pc, held, noErr, files, history>>

(* stream: what json.Marshal makes of it, and a line feed.                 *)
WriteMessage(u) ==
  /\ tool = "stream" /\ pc[u] = "message"
  /\ feed[held[u]] = "tweet" /\ ~broken[u]
  /\ Write(u, <<held[u], LineFeed>>) \/ WriteFails(u, <<held[u], LineFeed>>)
  /\ TakenToo(u)
  /\ pc' = [pc EXCEPT ![u] = "range"]
  /\ UNCHANGED <<tool, feed, main, line, queue, closed, held, noErr, skipped>>

(* An error of json.Marshal, or of the writer again: continue.             *)
SkipMessage(u) ==
  /\ tool = "stream" /\ pc[u] = "message"
  /\ feed[held[u]] # "tweet" \/ broken[u]
  /\ skipped' = [skipped EXCEPT ![u] = @ \cup {held[u]}]
  /\ pc' = [pc EXCEPT ![u] = "range"]
  /\ UNCHANGED <<tool, feed, main, line, queue, closed, held, noErr, files, taken>>

(* The end of the range: "\n]", or a panic, and Flush, whose error nobody   *)
(* looks at; or nothing in stream.  fd.Close, c.Done.                      *)
ExitWork(u) ==
  /\ pc[u] = "range" /\ queue = <<>> /\ closed
  /\ \/ /\ tool = "postprocess" /\ MayFail(u, End)
        /\ main' = "panic" /\ UNCHANGED <<pc, files>>
     \/ /\ ~(tool = "postprocess" /\ broken[u])
        /\ IF tool = "postprocess" THEN WriteAndFlush(u, <<End>>) ELSE UNCHANGED files
        /\ pc' = [pc EXCEPT ![u] = "exited"]
        /\ UNCHANGED main
  /\ UNCHANGED <<tool, feed, line, queue, closed, held, noErr, history>>

Return ==
  /\ main = "wait" /\ \A u \in Users : pc[u] = "exited"
  /\ main' = "returned"
  /\ UNCHANGED <<tool, feed, line, queue, closed, pc, held, noErr, files, history>>

Ended == main \in {"returned", "panic"} /\ UNCHANGED vars

Next ==
  \/ /\ main \notin {"returned", "panic"}
     /\ \/ Send \/ Close \/ Return
        \/ \E u \in Users : \/ StartWork(u) \/ Take(u) \/ WriteTweet(u) \/ SeparatorFails(u)
                            \/ WriteMessage(u) \/ SkipMessage(u) \/ ExitWork(u)
  \/ Ended

-----------------------------------------------------------------------------
(* The tweets in s, in order (a recursive function, to be proved about).   *)
Tweets(fates, s) ==
  LET upto[n \in 0..Len(s)] ==
        IF n = 0 THEN <<>>
        ELSE IF fates[s[n]] = "tweet" THEN Append(upto[n - 1], s[n]) ELSE upto[n - 1]
  IN upto[Len(s)]
Between(s) == [i \in 1..2 * Len(s) - 1 |-> IF i % 2 = 1 THEN s[(i + 1) \div 2] ELSE Comma]
EndsGood(fates, s) == s # <<>> /\ fates[Last(s)] = "tweet"
Array(fates, s) ==
  <<Open>> \o Between(Tweets(fates, s))
    \o IF Tweets(fates, s) # <<>> /\ ~EndsGood(fates, s) THEN <<Comma>> ELSE <<>>

(* A line for each message.                                                *)
AsLines(s) == [i \in 1..2 * Len(s) |-> IF i % 2 = 1 THEN s[(i + 1) \div 2] ELSE LineFeed]

(* When the tools return, every message was taken by one worker, which in  *)
(* stream gave it to its writer, or skipped it because it could not be     *)
(* marshalled or the writer had met an error.  A file of postprocess is an *)
(* array of the tweets its worker took, in order and separated once,       *)
(* except that it has a comma too many, and is no JSON, exactly if the     *)
(* last message was no tweet and one before it was; a file of stream lacks *)
(* what its writer held, at most a full buffer.  If the disk did not take  *)
(* it all, a file is cut.                                                  *)
FilesComplete ==
  main = "returned" =>
    \A u \in Users :
      /\ tool = "postprocess" =>
           /\ IsPrefix(file[u], Array(feed, taken[u]) \o <<End>>)
           /\ ~broken[u] => file[u] = Array(feed, taken[u]) \o <<End>>
      /\ tool = "stream" =>
           /\ IsPrefix(file[u], AsLines(taken[u]))
           /\ ~broken[u] => Len(AsLines(taken[u])) - Len(file[u]) <= WriterSize
      /\ \A i \in skipped[u] : tool = "stream" /\ (broken[u] \/ feed[i] # "tweet")
      /\ \A i \in 1..Len(feed) :
           Cardinality({w \in Users : Contains(taken[w], i) \/ i \in skipped[w]}) = 1

(* What postprocess writes can be loaded: its files are JSON arrays, where *)
(* the disk took them.                                                     *)
ArraysParse ==
  main = "returned" /\ tool = "postprocess" =>
    \A u \in Users :
      ~broken[u] => file[u] = <<Open>> \o Between(Tweets(feed, taken[u])) \o <<End>>

(* Each line that stream leaves is a message, where the disk took it.      *)
LinesWhole ==
  main = "returned" /\ tool = "stream" =>
    \A u \in Users : ~broken[u] /\ file[u] # <<>> => Last(file[u]) = LineFeed

=============================================================================
