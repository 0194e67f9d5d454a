------------------------------ MODULE PbScalars ------------------------------
(***************************************************************************)
(* The protobuf code of bitmap/pb.pb.go for what is not a message: numbers *)
(* and strings of bytes, as every Unmarshal, MarshalToSizedBuffer and Size *)
(* has it.                                                                 *)
(*                                                                         *)
(* A buffer is a sequence of bytes; at is iNdEx + 1.                       *)
(***************************************************************************)
EXTENDS Integers, SequencesExt

CONSTANTS
  Groups,       (* bytes a varint has at most (10)                         *)
  Wide,         (* the number of uint64 values (2^64)                      *)
  Narrow        (* the number of uint32 values (2^32)                      *)

(* How many numbers fit k bytes of seven bits: 1 << shift.                 *)
Septets[k \in 0..Groups] == IF k = 0 THEN 1 ELSE 128 * Septets[k - 1]

ASSUME WireAssumption ==
  /\ Groups \in Nat \ {0} /\ Wide \in Nat /\ Wide <= Septets[Groups]
  /\ Narrow \in Nat \ {0, 1} /\ Narrow <= Wide /\ Wide % Narrow = 0

OK == "ok"
Got(val, at) == [err |-> OK, val |-> val, at |-> at]
Bad(err) == [err |-> err, val |-> 0, at |-> 0]

(* if err != nil { return err }, and what is done with what was read.      *)
Then(r, Next(_, _)) == IF r.err = OK THEN Next(r.val, r.at) ELSE r

(* A conversion to a signed type of the same size. *)
Signed(v, size) == IF 2 * v < size THEN v ELSE v - size

-----------------------------------------------------------------------------
(* for shift := uint(0); ; shift += 7 { ... }: seven bits of each byte up  *)
(* to the first below 0x80; bits beyond the type's width are lost.         *)
Finals(buf, at) == {k \in 0..Groups - 1 : at + k <= Len(buf) /\ buf[at + k] < 128}
Varint(buf, at) ==
  LET n == Min(Finals(buf, at))
      read[k \in 0..n + 1] ==
        IF k = 0 THEN 0
        ELSE (read[k - 1] + (buf[at + k - 1] % 128) * Septets[k - 1]) % Wide
  IN IF Finals(buf, at) = {}
     THEN Bad(IF at + Groups - 1 <= Len(buf) THEN "overflow" ELSE "EOF")
     ELSE Got(read[n + 1], at + n + 1)

(* A length read into an int, and the index behind so many bytes.          *)
Length(buf, at) ==
  Then(Varint(buf, at), LAMBDA v, next :
    LET n == Signed(v, Wide) IN
    IF n < 0 \/ 2 * (next + n) > Wide THEN Bad("length") ELSE Got(next, next + n))

Chunk(buf, at) ==
  Then(Length(buf, at), LAMBDA from, to :
    IF to > Len(buf) + 1 THEN Bad("EOF") ELSE Got(SubSeq(buf, from, to - 1), to))

WireType(kind) ==
  CASE kind \in {"uint64", "int64", "uint32", "int32", "bool"} -> 0
    [] kind = "fixed64" -> 1
    [] OTHER -> 2

Converted(kind, v) ==
  CASE kind = "uint64" -> v
    [] kind = "int64"  -> Signed(v, Wide)
    [] kind = "uint32" -> v % Narrow
    [] kind = "int32"  -> Signed(v % Narrow, Narrow)
    [] kind = "bool"   -> v # 0

Scalar(kind, buf, at) ==
  IF kind # "fixed64"
  THEN Then(Varint(buf, at), LAMBDA v, next : Got(Converted(kind, v), next))
  ELSE IF at + 7 > Len(buf) THEN Bad("EOF")
  ELSE Got(SubSeq(buf, at, at + 7), at + 8)

-----------------------------------------------------------------------------
(* Mutant: 128 fits seven bits, too. *)
SovPbOffByOne(x) ==
  CHOOSE n \in 1..Groups : x <= Septets[n] /\ (n = 1 \/ x > Septets[n - 1])

(* sovPb: (Len64(x|1) + 6) / 7 *)
SovPb(x) == CHOOSE n \in 1..Groups : x < Septets[n] /\ (n = 1 \/ x >= Septets[n - 1])

(* encodeVarintPb: for v >= 1<<7 { ...; v >>= 7 }, and what is left of v.  *)
PutVarint(x) ==
  LET v[k \in 0..Groups] == IF k = 0 THEN x ELSE v[k - 1] \div 128
      n == Min({k \in 0..Groups - 1 : v[k] < 128})
  IN [i \in 1..n + 1 |-> IF i <= n THEN (v[i - 1] % 128) + 128 ELSE v[n]]

PutChunk(bytes) == PutVarint(Len(bytes)) \o bytes

(* uint64(v): a negative number takes all its bytes.                       *)
PutScalar(kind, v) ==
  CASE kind = "fixed64" -> v
    [] kind = "bool" -> IF v THEN <<1>> ELSE <<0>>
    [] OTHER -> PutVarint(v % Wide)

SizeScalar(kind, v) ==
  CASE kind = "fixed64" -> 8
    [] kind = "bool" -> 1
    [] OTHER -> SovPb(v % Wide)
=============================================================================
