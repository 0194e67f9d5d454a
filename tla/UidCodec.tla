------------------------------ MODULE UidCodec ------------------------------
(***************************************************************************)
(* bitmap/codec.go: a list of uids packed into blocks, a block being its   *)
(* first uid and the deltas between the others, and the decoder's searches *)
(* over the blocks.  A uid is a word of two halves; a delta keeps only the *)
(* low half (uint32), in groups of GroupSize (groupvarint's four), the     *)
(* last one filled up with zeros.  Blocks are numbered from 0, as there.   *)
(***************************************************************************)
EXTENDS Integers, Sequences, SequencesExt

CONSTANTS
  Low,          (* values of the low half of a uid (2^32 in the code)      *)
  MaxUid,       (* math.MaxUint64                                          *)
  GroupSize,    (* deltas in a group (4)                                   *)
  SeekStart, SeekCurrent

ASSUME UidCodecAssumption ==
  /\ Low \in Nat \ {0} /\ MaxUid \in Nat /\ GroupSize \in Nat \ {0}
  /\ SeekStart # SeekCurrent

(* Mutant: any two uids may share a block. *)
Match32MSBAlways(a, b) == TRUE

Match32MSB(a, b) == a \div Low = b \div Low

-----------------------------------------------------------------------------
(* What packBlock makes of the uids of a block: the last group of deltas   *)
(* is filled up with zeros.                                                *)
BlockOf(uids) ==
  LET rest == Len(uids) - 1
      groups == IF rest = 0 THEN 1 ELSE (rest + GroupSize - 1) \div GroupSize
      delta(i) == IF i > rest THEN 0 ELSE (uids[i + 1] - uids[i]) % Low
  IN [Base |-> Head(uids), NumUids |-> Len(uids),
      Deltas |-> [i \in 1..GroupSize * groups |-> delta(i)]]

(* The encoder e: the uids of the block at hand, and the blocks packed.    *)
PackBlock(e) ==
  IF e.uids = <<>> THEN e
  ELSE [uids |-> <<>>, blocks |-> Append(e.blocks, BlockOf(e.uids))]

(* Encoder.Add: a uid of another upper half starts a block, and a full     *)
(* block is packed at once.                                                *)
Add(e, uid, size) ==
  LET f == IF e.uids # <<>> /\ ~Match32MSB(Last(e.uids), uid)
           THEN PackBlock(e) ELSE e
      g == [uids |-> Append(f.uids, uid), blocks |-> f.blocks]
  IN IF Len(g.uids) >= size THEN PackBlock(g) ELSE g

(* Encode: Add for each uid, and Done.                                     *)
Encode(uids, size) ==
  LET added[k \in 0..Len(uids)] ==
        IF k = 0 THEN [uids |-> <<>>, blocks |-> <<>>]
        ELSE Add(added[k - 1], uids[k], size)
  IN PackBlock(added[Len(uids)]).blocks

-----------------------------------------------------------------------------
NumBlocks(pack) == Len(pack)
Block(pack, idx) == pack[idx + 1]

(* UnpackBlock: nothing when the decoder is past the last block.           *)
Unpack(pack, idx) ==
  IF idx >= NumBlocks(pack) THEN <<>>
  ELSE LET b == Block(pack, idx)
           sum[i \in 0..b.NumUids - 1] ==
             IF i = 0 THEN b.Base ELSE sum[i - 1] + b.Deltas[i]
       IN [i \in 1..b.NumUids |-> sum[i - 1]]

(* A decoder d is at a block and holds uids of it.                         *)
At(pack, idx) == [blockIdx |-> idx, uids |-> Unpack(pack, idx)]
Advance(pack, d) == At(pack, d.blockIdx + 1)

(* sort.Search: the first index below n that hits, or n.                   *)
Search(n, hits) == CHOOSE i \in hits \cup {n} : \A j \in hits : i <= j

Beyond(v, uid, whence) == IF whence = SeekStart THEN v >= uid ELSE v > uid

(* Decoder.Seek, by binary search over the bases and over the uids of the  *)
(* block before the one found.                                             *)
Seek(pack, uid, whence) ==
  LET n == NumBlocks(pack)
      idx == Search(n, {i \in 0..n - 1 : Beyond(Block(pack, i).Base, uid, whence)})
      uids == Unpack(pack, idx - 1)
      uidx == Search(Len(uids), {i \in 0..Len(uids) - 1 : Beyond(uids[i + 1], uid, whence)})
  IN IF uid = 0 \/ idx = 0 THEN At(pack, 0)
     ELSE IF idx < n /\ Block(pack, idx).Base = uid THEN At(pack, idx)
     ELSE IF uidx < Len(uids)
     THEN [blockIdx |-> idx - 1, uids |-> SubSeq(uids, uidx + 1, Len(uids))]
     ELSE At(pack, idx)

(* PeekNextBase: the greatest uid stands for "no next block".              *)
PeekNextBase(pack, idx) ==
  IF idx + 1 < NumBlocks(pack) THEN Block(pack, idx + 1).Base ELSE MaxUid

(* The blocks at which LinearSeek's loop stops.                            *)
Stops(pack, idx, seek) ==
  {i \in idx..idx + NumBlocks(pack) : seek < PeekNextBase(pack, i)}

(* LinearSeek from block idx, when its loop ends at all.                   *)
LinearSeek(pack, idx, seek) ==
  At(pack, CHOOSE i \in Stops(pack, idx, seek) :
             \A j \in Stops(pack, idx, seek) : i <= j)

(* The loop of Decode: what a decoder holds and the blocks behind it, up   *)
(* to the first that unpacks to nothing.                                   *)
DecodeRound(pack, r) ==
  IF r.d.uids = <<>> THEN r
  ELSE [d |-> Advance(pack, r.d), out |-> r.out \o r.d.uids]

Drained(pack, d) ==
  LET rounds[k \in 0..NumBlocks(pack)] ==
        IF k = 0 THEN [d |-> d, out |-> <<>>]
        ELSE DecodeRound(pack, rounds[k - 1])
  IN rounds[NumBlocks(pack)].out

Decode(pack, seek) == Drained(pack, Seek(pack, seek, SeekStart))

(* ExactLen, and ApproxLen for a pack of blocks of the given size.         *)
ExactLen(pack) ==
  LET num[k \in 0..Len(pack)] == IF k = 0 THEN 0 ELSE num[k - 1] + pack[k].NumUids
  IN num[Len(pack)]
ApproxLen(pack, size) == NumBlocks(pack) * size
=============================================================================
