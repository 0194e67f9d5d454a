------------------------------- MODULE PbWire -------------------------------
(***************************************************************************)
(* The protobuf code of bitmap/pb.pb.go: Unmarshal, Marshal and Size of    *)
(* every message, and skipPb.  The methods of one type differ from those   *)
(* of another in the fields alone, which are in PbSchemas.                 *)
(*                                                                         *)
(* A buffer is a sequence of bytes; at is iNdEx + 1.  A message is a     *)
(* record of its fields: a number, a boolean, eight bytes, a sequence of   *)
(* bytes, a sequence of elements, a function for a map.  A field that is a *)
(* pointer to a message is a sequence of at most one.                      *)
(***************************************************************************)
EXTENDS PbSchemas, PbScalars, Bitwise

Zero(kind) ==
  CASE kind \in {"uint64", "int64", "uint32", "int32"} -> 0
    [] kind = "bool" -> FALSE
    [] kind = "fixed64" -> [i \in 1..8 |-> 0]
    [] OTHER -> <<>>

(* &T{}; a type of another package is its bytes.                           *)
Empty(name) ==
  IF name \notin DOMAIN Schemas THEN <<>>
  ELSE LET kindOf(n) == (CHOOSE f \in Schemas[name] : f.name = n).kind
       IN [n \in {f.name : f \in Schemas[name]} |-> Zero(kindOf(n))]

-----------------------------------------------------------------------------
(* skipPb: past one field of any kind, groups and all that is in them.     *)
RECURSIVE SkipFrom(_, _, _)
SkipFrom(buf, at, depth) ==
  IF at > Len(buf) THEN Bad("EOF")
  ELSE Then(Varint(buf, at), LAMBDA tag, next :
    LET inside == CASE tag % 8 = 3 -> depth + 1
                    [] tag % 8 = 4 -> depth - 1
                    [] OTHER -> depth
    IN Then(CASE tag % 8 = 0 -> Varint(buf, next)
              [] tag % 8 = 1 -> Got(0, next + 8)
              [] tag % 8 = 2 -> Length(buf, next)
              [] tag % 8 = 3 -> Got(0, next)
              [] tag % 8 = 4 -> IF depth = 0 THEN Bad("end of group") ELSE Got(0, next)
              [] tag % 8 = 5 -> Got(0, next + 4)
              [] OTHER -> Bad("illegal wireType"),
            LAMBDA any, end : IF inside = 0 THEN Got(0, end) ELSE SkipFrom(buf, end, inside)))

(* Mutant: the end of the buffer is not looked at. *)
SkippedUnchecked(m, buf, at, post) ==
  Then(SkipFrom(buf, at, 0), LAMBDA any, end : Got(m, end))

(* The default case of every Unmarshal; post is one past what it may use. *)
Skipped(m, buf, at, post) ==
  Then(SkipFrom(buf, at, 0), LAMBDA any, end :
    IF end > post THEN Bad("EOF") ELSE Got(m, end))

FieldNum(tag) == Signed((tag \div 8) % Narrow, Narrow)

(* for iNdEx < postIndex { ... }: the loop looks at the packed length only *)
(* before each element, which may itself reach beyond it.                  *)
RECURSIVE ElementsFrom(_, _, _, _, _)
ElementsFrom(kind, elements, buf, at, post) ==
  IF at >= post THEN Got(elements, at)
  ELSE Then(Scalar(kind, buf, at), LAMBDA v, next :
         ElementsFrom(kind, Append(elements, v), buf, next, post))

RECURSIVE UnmarshalFrom(_, _, _, _)
RECURSIVE EntryFrom(_, _, _, _, _)

(* T.Unmarshal into the message m, which need not be empty.             *)
Unmarshal(name, m, buf) ==
  IF name \in DOMAIN Schemas THEN UnmarshalFrom(Schemas[name], m, buf, 1)
                             ELSE Got(m \o buf, Len(buf) + 1)

(* case no of a pointer to a message: what is there already is kept.      *)
ReadMessage(f, old, buf, at) ==
  Then(Chunk(buf, at), LAMBDA bytes, next :
    Then(Unmarshal(f.of, IF old = <<>> THEN Empty(f.of) ELSE old[1], bytes),
         LAMBDA new, end : Got(<<new>>, next)))

(* One half of a map entry, of which the wire type is not looked at.  A    *)
(* number that comes twice is or-ed with the one before.                   *)
ReadHalf(f, old, buf, at) ==
  CASE f.kind = "bytes"   -> Chunk(buf, at)
    [] f.kind = "message" -> ReadMessage(f, <<>>, buf, at)
    [] OTHER -> Then(Varint(buf, at), LAMBDA v, next :
         Got(old | (v % (IF f.kind \in {"uint32", "int32"} THEN Narrow ELSE Wide)), next))

EntryFrom(f, e, buf, at, post) ==
  IF at >= post THEN Got(e, at)
  ELSE Then(Varint(buf, at), LAMBDA tag, next :
    Then(CASE FieldNum(tag) = 1 -> Then(ReadHalf(f.key, e.key, buf, next),
                                        LAMBDA v, end : Got([e EXCEPT !.key = v], end))
           [] FieldNum(tag) = 2 -> Then(ReadHalf(f.value, e.value, buf, next),
                                        LAMBDA v, end : Got([e EXCEPT !.value = v], end))
           [] OTHER -> Skipped(e, buf, at, post),
         LAMBDA read, end : EntryFrom(f, read, buf, end, post)))

(* case no of a map: the entry is stored even if it has no key or value,  *)
(* and reading goes on behind it wherever its parts ended.                 *)
ReadEntry(f, map, buf, at) ==
  LET of(h, v) == IF h.kind \in {"bytes", "message"} THEN v ELSE Converted(h.kind, v)
      none == [key |-> Zero(f.key.kind), value |-> Zero(f.value.kind)]
  IN Then(Chunk(buf, at), LAMBDA bytes, next :
       Then(EntryFrom(f, none, buf, next - Len(bytes), next), LAMBDA e, end :
         Got((of(f.key, e.key) :> of(f.value, e.value)) @@ map, next)))

(* case no of a packed field.                                             *)
ReadPacked(f, old, wireType, buf, at) ==
  IF wireType = WireType(f.of)
  THEN Then(Scalar(f.of, buf, at), LAMBDA v, next : Got(Append(old, v), next))
  ELSE Then(Chunk(buf, at), LAMBDA bytes, next :
         ElementsFrom(f.of, old, buf, next - Len(bytes), next))

ReadField(f, old, wireType, buf, at) ==
  CASE f.kind = "packed" /\ wireType \in {WireType(f.of), 2} ->
         ReadPacked(f, old, wireType, buf, at)
    [] f.kind = "packed" /\ wireType \notin {WireType(f.of), 2} -> Bad("wireType")
    [] f.kind # "packed" /\ wireType # WireType(f.kind) -> Bad("wireType")
    [] f.kind = "bytes" /\ wireType = 2 -> Chunk(buf, at)
    [] f.kind = "list of bytes" /\ wireType = 2 ->
         Then(Chunk(buf, at), LAMBDA bytes, next : Got(Append(old, bytes), next))
    [] f.kind = "message" /\ wireType = 2 -> ReadMessage(f, old, buf, at)
    [] f.kind = "list of messages" /\ wireType = 2 ->
         Then(ReadMessage(f, <<>>, buf, at), LAMBDA new, next : Got(old \o new, next))
    [] f.kind = "map" /\ wireType = 2 -> ReadEntry(f, old, buf, at)
    [] OTHER -> Scalar(f.kind, buf, at)

UnmarshalFrom(fields, m, buf, at) ==
  IF at > Len(buf) THEN Got(m, at)
  ELSE Then(Varint(buf, at), LAMBDA tag, next :
    LET known == {f \in fields : f.number = FieldNum(tag)}
        f == CHOOSE g \in known : TRUE
    IN IF tag % 8 = 4 THEN Bad("end group")
       ELSE IF FieldNum(tag) <= 0 THEN Bad("tag")
       ELSE Then(IF known = {} THEN Skipped(m, buf, at, Len(buf) + 1)
                 ELSE Then(ReadField(f, m[f.name], tag % 8, buf, next),
                           LAMBDA v, end : Got([m EXCEPT ![f.name] = v], end)),
                 LAMBDA read, end : UnmarshalFrom(fields, read, buf, end)))
-----------------------------------------------------------------------------
Concat(parts) == FoldLeft(LAMBDA a, b : a \o b, <<>>, parts)
Tag(f, wireType) == PutVarint(8 * f.number + wireType)

(* The fields of a message in the order they are written. *)
Ordered ==
  [name \in DOMAIN Schemas |->
     LET nums == {f.number : f \in Schemas[name]}
         asc  == SelectSeq([i \in 1..Max(nums) |-> i], LAMBDA i : i \in nums)
     IN [i \in DOMAIN asc |-> CHOOSE f \in Schemas[name] : f.number = asc[i]]]

RECURSIVE Marshal(_, _)

(* A field of Go's zero value is not written, but both halves of a map's   *)
(* entry are, unless the value is a nil pointer.                           *)
PutHalf(f, v) ==
  CASE f.kind = "bytes" -> Tag(f, 2) \o PutChunk(v)
    [] f.kind = "message" ->
         Concat([i \in DOMAIN v |-> Tag(f, 2) \o PutChunk(Marshal(f.of, v[i]))])
    [] OTHER -> Tag(f, 0) \o PutScalar(f.kind, v)

(* The entries of a map come in any order: Go's ranging over it; the order *)
(* does not matter to what Unmarshal makes of them.                        *)
PutField(f, v) ==
  IF v = Zero(f.kind) THEN <<>>
  ELSE CASE f.kind = "bytes" -> Tag(f, 2) \o PutChunk(v)
    [] f.kind = "list of bytes" ->
         Concat([i \in DOMAIN v |-> Tag(f, 2) \o PutChunk(v[i])])
    [] f.kind \in {"message", "list of messages"} ->
         Concat([i \in DOMAIN v |-> Tag(f, 2) \o PutChunk(Marshal(f.of, v[i]))])
    [] f.kind = "map" ->
         Concat([i \in DOMAIN SetToSeq(DOMAIN v) |->
                   LET k == SetToSeq(DOMAIN v)[i] IN
                   Tag(f, 2) \o PutChunk(PutHalf(f.key, k) \o PutHalf(f.value, v[k]))])
    [] f.kind = "packed" ->
         Tag(f, 2) \o PutChunk(Concat([i \in DOMAIN v |-> PutScalar(f.of, v[i])]))
    [] OTHER -> Tag(f, WireType(f.kind)) \o PutScalar(f.kind, v)

(* T.Marshal *)
Marshal(name, m) ==
  IF name \notin DOMAIN Schemas THEN m
  ELSE LET fs == Ordered[name]
       IN Concat([i \in DOMAIN fs |-> PutField(fs[i], m[fs[i].name])])

-----------------------------------------------------------------------------
RECURSIVE Size(_, _)

SizeChunk(f, l) == SovPb(8 * f.number) + SovPb(l) + l
SumOfSizes(parts) == FoldLeft(LAMBDA a, b : a + b, 0, parts)

SizeHalf(f, v) ==
  CASE f.kind = "bytes" -> SizeChunk(f, Len(v))
    [] f.kind = "message" ->
         SumOfSizes([i \in DOMAIN v |-> SizeChunk(f, Size(f.of, v[i]))])
    [] OTHER -> SovPb(8 * f.number) + SizeScalar(f.kind, v)

SizeField(f, v) ==
  IF v = Zero(f.kind) THEN 0
  ELSE CASE f.kind = "bytes" -> SizeChunk(f, Len(v))
    [] f.kind = "list of bytes" ->
         SumOfSizes([i \in DOMAIN v |-> SizeChunk(f, Len(v[i]))])
    [] f.kind \in {"message", "list of messages"} ->
         SumOfSizes([i \in DOMAIN v |-> SizeChunk(f, Size(f.of, v[i]))])
    [] f.kind = "map" ->
         SumOfSizes([i \in DOMAIN SetToSeq(DOMAIN v) |->
                  LET k == SetToSeq(DOMAIN v)[i] IN
                  SizeChunk(f, SizeHalf(f.key, k) + SizeHalf(f.value, v[k]))])
    [] f.kind = "packed" ->
         SizeChunk(f, SumOfSizes([i \in DOMAIN v |-> SizeScalar(f.of, v[i])]))
    [] OTHER -> SovPb(8 * f.number) + SizeScalar(f.kind, v)

(* T.Size, by which Marshal allocates its buffer.                       *)
Size(name, m) ==
  IF name \notin DOMAIN Schemas THEN Len(m)
  ELSE LET fs == Ordered[name]
       IN SumOfSizes([i \in DOMAIN fs |-> SizeField(fs[i], m[fs[i].name])])
=============================================================================
