------------------------------ MODULE FecFile ------------------------------
(***************************************************************************)
(* The archive with forward error correction (fec.go): its bytes are split *)
(* into data shards, to which parity shards are added, behind a header     *)
(* that holds the number of both in one byte each, the size of a shard in  *)
(* four and the size of the archive in eight.  The Reed-Solomon code is a  *)
(* library (klauspost/reedsolomon); what it is asked to do is modelled.    *)
(***************************************************************************)
EXTENDS Integers

CONSTANTS CountRange,  \* 2^8, what the number of shards is taken modulo
          SizeRange    \* 2^32, what the size of a shard is taken modulo

ASSUME RangesAssumption == CountRange \in Nat \ {0} /\ SizeRange \in Nat \ {0}

(* reedsolomon.NewStream takes that many shards.                           *)
MaxShards == 256
NewStream(data, parity) == data >= 1 /\ parity >= 0 /\ data + parity <= MaxShards

(* What a preset of -fec-level stands for.                                 *)
Presets == [low |-> <<10, 3>>, medium |-> <<8, 4>>, high |-> <<5, 5>>]

(* enc.Split: the length of a shard, the last ones filled up with zeros.   *)
PerShard(size, data) == (size + data - 1) \div data

(* Mutant of Header: the size of a shard is rounded down.                  *)
HeaderRoundedDown(size, data, parity) ==
  [data |-> data % CountRange, parity |-> parity % CountRange,
   shardSize |-> (size \div data) % SizeRange, dataSize |-> size]

Header(size, data, parity) ==
  [data |-> data % CountRange, parity |-> parity % CountRange,
   shardSize |-> PerShard(size, data) % SizeRange, dataSize |-> size]

(* The byte of the archive at an offset behind the header: shards begin    *)
(* shardSize apart, and where they overlap the last one written stands.    *)
ByteAt(size, data, parity, offset) ==
  LET apart == Header(size, data, parity).shardSize
      shard == IF offset \div apart < data THEN offset \div apart ELSE data - 1
  IN shard * PerShard(size, data) + (offset - shard * apart)

(* encodeWithFEC: enc.Encode refuses shards without data.                  *)
Encodes(size, data, parity) ==
  NewStream(data, parity) /\ Header(size, data, parity).shardSize > 0

(* decodeWithFEC on a file that is complete: the data shards joined, which *)
(* have to make up dataSize bytes.  The shards lie one behind the other,   *)
(* so that what is joined is what lies behind the header.                  *)
Joins(size, data, parity) ==
  LET hdr == Header(size, data, parity)
  IN NewStream(hdr.data, hdr.parity) /\ hdr.data * hdr.shardSize >= hdr.dataSize
Decodes(size, data, parity) ==
  /\ Joins(size, data, parity)
  /\ \A k \in 0 .. size - 1 : ByteAt(size, data, parity, k) = k
=============================================================================
