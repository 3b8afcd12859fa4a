--------------------------- MODULE PartitionRange ---------------------------
(***************************************************************************)
(* partition/range.go: the ID space split into contiguous partitions.  An  *)
(* ID is a number of Width digits to the base Base: a UUID is 16 bytes,    *)
(* the instances are smaller.                                              *)
(***************************************************************************)
EXTENDS Integers, Sequences

CONSTANTS Base, Width

ASSUME SizeAssumption == Base \in Nat /\ Base > 1 /\ Width \in Nat /\ Width > 0

IDs     == 0 .. Base^Width - 1
MaxUUID == Base^Width - 1

(* big.Int.Bytes has no leading zeros and uuid.FromBytes takes Width bytes *)
(* only, so a small bound is refused.                                      *)
FromBytesFails(n) == n < Base^(Width - 1)

PartSize(start, end, n) == (end - start + 1) \div n

(* The upper bounds of the partitions; start is not added to them.         *)
RangeSplits(start, end, n) ==
  [i \in 1..n |-> IF i = n THEN end ELSE PartSize(start, end, n) * i]

NewRangeFails(start, end, n) ==
  \/ start >= end
  \/ n <= 0
  \/ \E i \in 1..(n - 1) : FromBytesFails(RangeSplits(start, end, n)[i])

NewFullRangeFails(n) == NewRangeFails(0, MaxUUID, n)

(* Variant with a bug: partitions are taken to be numbered from one.       *)
PartitionExtentsFromOne(n, i) ==
  LET splits == RangeSplits(0, MaxUUID, n) IN
  IF i <= 1 THEN <<0, splits[1]>> ELSE <<splits[i - 1], splits[i]>>

(* Of the full range: [from, to), where i is numbered from zero.           *)
PartitionExtentsFails(n, i) == i < 0 \/ i >= n
PartitionExtents(n, i) ==
  LET splits == RangeSplits(0, MaxUUID, n) IN
  IF i = 0 THEN <<0, splits[1]>> ELSE <<splits[i], splits[i + 1]>>

=============================================================================
