--------------------------- MODULE MutationLoader ---------------------------
(***************************************************************************)
(* scripts/mutations: main cuts the RDF file into batches and sends them   *)
(* down a channel, a pool of goroutines posts each one to the server.  A   *)
(* request that fails is sent again until there is a reply; the reply is   *)
(* unmarshalled into ONE global variable r, and r.Code is read afterwards. *)
(*                                                                         *)
(* The file is the numbers 1..Lines; a batch is a sequence of them.        *)
(***************************************************************************)
EXTENDS Naturals, Sequences, FiniteSets, SequencesExt

CONSTANTS
  Lines,        (* lines of the file                                       *)
  NumRdf,       (* -m                                                      *)
  Users,        (* the goroutines, -c of them                              *)
  MaxRetries,   (* bound: requests of one batch that fail                  *)
  Nothing       (* no batch in hand                                        *)

VARIABLES
  main,         (* "read" | "wait" | "returned" | "fatal"                  *)
  line,         (* lines read                                              *)
  buf, num,     (* the lines in the buffer, and the counter of main        *)
  queue, closed,(* the channel mutation                                    *)
  pc,           (* user -> "range" | "post" | "unmarshal" | "check"        *)
                (*         | "exited"                                      *)
  held,         (* user -> the batch in hand                               *)
  reply,        (* user -> the reply: "ErrorOk", "Error", "none", "bad"    *)
  code,         (* r.Code, shared by all                                   *)
  failed,       (* line -> the requests with its batch that failed         *)
  applied,      (* external: the server, line -> how often it was set      *)
  masked        (* history: lines rejected, and the code read was not      *)

vars == <<main, line, buf, num, queue, closed, pc, held, reply, code, failed, applied, masked>>
batches == <<main, line, buf, num, closed>>
server == <<failed, applied>>

Init ==
  /\ main = "read" /\ line = 0 /\ buf = <<>> /\ num = 0
  /\ queue = <<>> /\ closed = FALSE
  /\ pc = [u \in Users |-> "range"]
  /\ held = [u \in Users |-> Nothing]
  /\ reply = [u \in Users |-> "none"]
  /\ code = ""
  /\ failed = [l \in 1..Lines |-> 0]
  /\ applied = [l \in 1..Lines |-> 0]
  /\ masked = {}

HasRoom == Len(queue) < 3 * Cardinality(Users)

(* Mutant: the buffer is not reset after it was sent. *)
ReadLineNoReset ==
  /\ main = "read" /\ line < Lines
  /\ line' = line + 1
  /\ IF num >= NumRdf
     THEN HasRoom /\ queue' = Append(queue, Append(buf, line + 1)) /\ buf' = Append(buf, line + 1) /\ num' = 1
     ELSE buf' = Append(buf, line + 1) /\ num' = num + 1 /\ UNCHANGED queue
  /\ UNCHANGED <<main, closed, pc, held, reply, code, server, masked>>

(* The line goes into the buffer before num is looked at: the first batch  *)
(* has NumRdf + 1 lines.                                                   *)
ReadLine ==
  /\ main = "read" /\ line < Lines
  /\ line' = line + 1
  /\ LET more == Append(buf, line + 1) IN
     IF num >= NumRdf
     THEN HasRoom /\ queue' = Append(queue, more) /\ buf' = <<>> /\ num' = 1
     ELSE buf' = more /\ num' = num + 1 /\ UNCHANGED queue
  /\ UNCHANGED <<main, closed, pc, held, reply, code, server, masked>>

(* io.EOF: the rest, close(mutation).                                      *)
LastBatch ==
  /\ main = "read" /\ line = Lines
  /\ buf # <<>> => HasRoom
  /\ queue' = IF buf # <<>> THEN Append(queue, buf) ELSE queue
  /\ closed' = TRUE
  /\ main' = "wait"
  /\ UNCHANGED <<line, buf, num, pc, held, reply, code, server, masked>>

(* Any other error of the reader: log.Fatalf.                              *)
ReadFails ==
  /\ main = "read" /\ main' = "fatal"
  /\ UNCHANGED <<line, buf, num, queue, closed, pc, held, reply, code, server, masked>>

Take(u) ==
  /\ pc[u] = "range"
  /\ \/ /\ queue # <<>>
        /\ held' = [held EXCEPT ![u] = Head(queue)]
        /\ queue' = Tail(queue)
        /\ pc' = [pc EXCEPT ![u] = "post"]
     \/ /\ queue = <<>> /\ closed
        /\ pc' = [pc EXCEPT ![u] = "exited"]
        /\ UNCHANGED <<queue, held>>
  /\ UNCHANGED <<batches, reply, code, server, masked>>

CountUp(counts, b) == [l \in 1..Lines |-> IF Contains(b, l) THEN counts[l] + 1 ELSE counts[l]]
Apply(b) == applied' = CountUp(applied, b)

(* hc.Do fails, by the minute's timeout for one: the server may have       *)
(* applied the batch.  goto RETRY.                                         *)
Retry(u) ==
  /\ pc[u] = "post" /\ \A l \in ToSet(held[u]) : failed[l] < MaxRetries
  /\ failed' = CountUp(failed, held[u])
  /\ Apply(held[u]) \/ UNCHANGED applied
  /\ UNCHANGED <<batches, queue, pc, held, reply, code, masked>>

(* A reply with a code, a JSON reply without the field, or no JSON.        *)
Reply(u) ==
  /\ pc[u] = "post"
  /\ \E got \in {"ErrorOk", "Error", "none", "bad"} :
       /\ reply' = [reply EXCEPT ![u] = got]
       /\ IF got = "ErrorOk" THEN Apply(held[u]) ELSE UNCHANGED applied
  /\ pc' = [pc EXCEPT ![u] = "unmarshal"]
  /\ UNCHANGED <<batches, queue, held, code, failed, masked>>

(* x.Check(json.Unmarshal(body, &r)): a field that is not there is kept.   *)
UnmarshalReply(u) ==
  /\ pc[u] = "unmarshal"
  /\ IF reply[u] = "bad"
     THEN main' = "fatal" /\ UNCHANGED <<pc, code>>
     ELSE /\ code' = IF reply[u] = "none" THEN code ELSE reply[u]
          /\ pc' = [pc EXCEPT ![u] = "check"]
          /\ UNCHANGED main
  /\ UNCHANGED <<line, buf, num, queue, closed, held, reply, server, masked>>

(* if r.Code != "ErrorOk" { log.Fatalf }: the code of whoever wrote last;  *)
(* read while another goroutine writes it, it may be torn and so no code.  *)
Check(u) ==
  /\ pc[u] = "check"
  /\ \/ /\ code # "ErrorOk" \/ \E v \in Users \ {u} : pc[v] = "unmarshal"
        /\ main' = "fatal" /\ UNCHANGED <<pc, masked>>
     \/ /\ code = "ErrorOk"
        /\ pc' = [pc EXCEPT ![u] = "range"]
        /\ masked' = IF reply[u] # "ErrorOk" THEN masked \cup ToSet(held[u]) ELSE masked
        /\ UNCHANGED main
  /\ UNCHANGED <<line, buf, num, queue, closed, held, reply, code, server>>

Return ==
  /\ main = "wait" /\ \A u \in Users : pc[u] = "exited"
  /\ main' = "returned"
  /\ UNCHANGED <<line, buf, num, queue, closed, pc, held, reply, code, server, masked>>

Ended == main \in {"returned", "fatal"} /\ UNCHANGED vars

Next ==
  \/ /\ main \notin {"returned", "fatal"}
     /\ \/ ReadLine \/ LastBatch \/ ReadFails \/ Return
        \/ \E u \in Users : Take(u) \/ Retry(u) \/ Reply(u) \/ UnmarshalReply(u) \/ Check(u)
  \/ Ended

-----------------------------------------------------------------------------
(* A load that ends without an error has sent every line, and a line the   *)
(* server does not have is one whose rejection was hidden by r: by the     *)
(* code another goroutine wrote between Unmarshal and the check, or by an  *)
(* earlier one if the reply had none.  No line was set more often than     *)
(* once for each request with its own batch that failed, and once more.    *)
LoadAccounted ==
  main = "returned" =>
    \A l \in 1..Lines :
      /\ applied[l] = 0 => l \in masked
      /\ applied[l] <= 1 + failed[l]
=============================================================================
