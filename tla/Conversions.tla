---------------------------- MODULE Conversions -----------------------------
(***************************************************************************)
(* The generated protobuf code beside the other pure algorithms, and in    *)
(* the same way: what it writes and reads, compared with what it is to     *)
(* keep.                                                                   *)
(***************************************************************************)
EXTENDS Algorithms, PbWire

CONSTANTS
  Written,      (* [name, msg]: messages to be written                     *)
  Buffers       (* [name, buf]: bytes to be read                           *)

AllInputs ==
  \/ InputInit
  \/ algorithm = "marshal" /\ input \in Written
  \/ algorithm = "unmarshal" /\ input \in Buffers

AllSpec == AllInputs /\ [][InputNext]_inputVars
-----------------------------------------------------------------------------
Read(name, buf) == Unmarshal(name, Empty(name), buf)

(* A field and a group of number 100, which no type knows. *)
Unknown == <<160, 6, 7, 163, 6, 8, 5, 164, 6>>

(* What Marshal writes is as long as Size says (it is written backwards    *)
(* into a buffer of that size).  Unmarshal gives back every field, whether *)
(* or not fields it does not know come before and after; and a buffer that *)
(* was cut is an error unless it was cut between two fields or elements.   *)
MarshalRoundTrip ==
  algorithm = "marshal" =>
    LET bytes == Marshal(input.name, input.msg)
        padded == Unknown \o bytes \o Unknown
    IN /\ Len(bytes) = Size(input.name, input.msg)
       /\ Read(input.name, bytes) = Got(input.msg, Len(bytes) + 1)
       /\ Read(input.name, padded) = Got(input.msg, Len(padded) + 1)
       /\ \A k \in 0..Len(bytes) - 1 :
            LET cut == Read(input.name, SubSeq(bytes, 1, k)) IN
            cut.err = OK => Marshal(input.name, cut.val) = SubSeq(bytes, 1, k)

(* Whatever bytes come, Unmarshal ends in an error or at the last of them; *)
(* and what it made of them is a message it would make again of what       *)
(* Marshal writes.                                                         *)
UnmarshalStable ==
  algorithm = "unmarshal" =>
    LET r == Read(input.name, input.buf) IN
    r.err = OK =>
      /\ r.at = Len(input.buf) + 1
      /\ Read(input.name, Marshal(input.name, r.val)).val = r.val
=============================================================================
