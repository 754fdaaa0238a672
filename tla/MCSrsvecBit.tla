----------------------------- MODULE MCSrsvecBit -----------------------------
(* Lengths up to ten bits cover a whole byte, a partial byte alone, and a  *)
(* whole byte followed by a partial one.  The packed input bytes of        *)
(* bit_unpack are the extremes and two asymmetric patterns, so a reversed  *)
(* or shifted bit order shows.                                              *)
EXTENDS SrsvecBit

MCAllSizes == 1..10
MCUnalignedSizes == {3, 9}
MCByteSizes == {8, 16}
MCOneByte == {8}
MCByteVals == {0, 1, 128, 165, 255}

(* bit_pack gets every length up to ten bits without HAVE_SSE and a whole *)
(* byte with it, whose 2^8 inputs cover every byte value.                  *)
MCPackSizes == [b \in BOOLEAN |-> IF b THEN MCOneByte ELSE MCAllSizes]
=============================================================================
