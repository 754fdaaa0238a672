------------------------------- MODULE SrsvecBit -------------------------------
(***************************************************************************)
(* Bit packing and unpacking of lib/srsvec/bit.cpp.                       *)
(*                                                                         *)
(* The value-level helpers bit_unpack(bits, value, nof_bits) and          *)
(* bit_pack(bits, nof_bits) move nof_bits bits, most significant first,   *)
(* between an unsigned value and a span of one-bit bytes, and advance the *)
(* span.  The byte-level bit_unpack(unpacked, packed) and                 *)
(* bit_pack(packed, unpacked) loop over the bytes of the packed buffer;   *)
(* every loop iteration is a step here, so the state records how far the  *)
(* loop has gone and what it has written.  An access outside a buffer is  *)
(* undefined behaviour (or an assertion failure in a debug build): the    *)
(* model stops in pc = "fault".  The variable sse is the build: TRUE for  *)
(* a build that defines HAVE_SSE.                                          *)
(***************************************************************************)
EXTENDS Integers, Sequences

CONSTANTS
    Builds,        \* the builds considered: FALSE without HAVE_SSE, TRUE with it
    PackSizes,     \* PackSizes[b]: the lengths nbits = unpacked.size() given to bit_pack in build b
    UnpackSizes,   \* the lengths nbits = unpacked.size() given to bit_unpack
    ByteVals       \* the byte values the packed input of bit_unpack is made of

ASSUME BitAssumption ==
    /\ Builds \subseteq BOOLEAN
    /\ \A b \in Builds : PackSizes[b] \subseteq Nat \ {0}
    /\ UnpackSizes \subseteq Nat \ {0}
    /\ ByteVals \subseteq 0..255

VARIABLES
    sse,       \* the build defines HAVE_SSE
    op,        \* "pack" or "unpack": the byte-level call being run
    nbits,     \* unpacked.size()
    inBits,    \* bit_pack: the unpacked input bits
    inBytes,   \* bit_unpack: the packed input bytes
    bitsOut,   \* bit_unpack: the unpacked output buffer
    bytesOut,  \* bit_pack: the packed output buffer
    i,         \* the loop counter i (bytes done)
    pc         \* "loop", "done" or "fault"

vars == <<sse, op, nbits, inBits, inBytes, bitsOut, bytesOut, i, pc>>

(* divide_ceil(nbits, 8): the size of the packed buffer. *)
NBytes(n) == (n + 7) \div 8

Unwritten == 2         \* a bit the loop has not written
UnwrittenByte == 256   \* a byte the loop has not written

TypeOK ==
    /\ sse \in BOOLEAN
    /\ op \in {"pack", "unpack"}
    /\ nbits \in Nat \ {0}
    /\ inBits \in Seq({0, 1})
    /\ inBytes \in Seq(0..255)
    /\ bitsOut \in Seq({0, 1, Unwritten})
    /\ bytesOut \in Seq(0..255 \cup {UnwrittenByte})
    /\ i \in Nat
    /\ pc \in {"loop", "done", "fault"}

(* Mutant: bit_unpack leaves out the & 0x1 mask. *)
BitUnpackValueNoMask(value, n) == [j \in 1..n |-> value \div 2^(n - j)]

(* Mutant: bit_unpack emits the least significant bit first. *)
BitUnpackValueLsbFirst(value, n) == [j \in 1..n |-> (value \div 2^(j - 1)) % 2]

(***************************************************************************)
(* bit_unpack(bits, value, nof_bits): bits[i] = (value >> (nof_bits - i -  *)
(* 1)) & 0x1 for i < nof_bits, here with j = i + 1.                        *)
(***************************************************************************)
BitUnpackValue(value, n) == [j \in 1..n |-> (value \div 2^(n - j)) % 2]

(***************************************************************************)
(* bit_pack(bits, nof_bits): value |= bits[i] << (nof_bits - i - 1) for   *)
(* i < nof_bits.  The bits are 0 or 1, so the OR of the shifted bits is    *)
(* their sum.                                                              *)
(***************************************************************************)
BitPackValue(bits, n) ==
    LET acc[k \in 0..n] == IF k = 0 THEN 0 ELSE acc[k - 1] + bits[k] * 2^(n - k)
    IN  acc[n]

(* Overwrite positions from + 1 .. from + Len(s) of buffer b with s. *)
Write(b, from, s) ==
    [p \in 1..Len(b) |-> IF p - from \in 1..Len(s) THEN s[p - from] ELSE b[p]]

Init ==
    /\ sse \in Builds
    /\ \/ /\ op = "pack"
          /\ nbits \in PackSizes[sse]
          /\ inBits \in [1..nbits -> {0, 1}]
          /\ inBytes = <<>>
          /\ bitsOut = <<>>
          /\ bytesOut = [b \in 1..NBytes(nbits) |-> UnwrittenByte]
          /\ i = 0
          /\ pc = "loop"
       \/ /\ op = "unpack"
          /\ nbits \in UnpackSizes
          /\ inBits = <<>>
          /\ inBytes \in [1..NBytes(nbits) -> ByteVals]
          /\ bitsOut = [p \in 1..nbits |-> Unwritten]
          /\ bytesOut = <<>>
          /\ i = 0
          /\ pc = "loop"

(***************************************************************************)
(* One iteration of bit_unpack's loop, i < nbytes: bit_unpack(unpacked,   *)
(* packed[i], 8) writes the next 8 bits and advances unpacked.  Its       *)
(* assert(bits.size() >= nof_bits) fails when fewer than 8 bits are left. *)
(***************************************************************************)
UnpackByte ==
    /\ op = "unpack" /\ pc = "loop" /\ i < NBytes(nbits)
    /\ IF nbits - 8 * i >= 8
       THEN /\ bitsOut' = Write(bitsOut, 8 * i, BitUnpackValue(inBytes[i + 1], 8))
            /\ i' = i + 1
            /\ UNCHANGED pc
       ELSE /\ pc' = "fault"
            /\ UNCHANGED <<bitsOut, i>>
    /\ UNCHANGED <<sse, op, nbits, inBits, inBytes, bytesOut>>

(***************************************************************************)
(* The end of bit_unpack's loop: when nbits % 8 != 0 the remaining bits   *)
(* are read from packed[i] with i = nbytes, one byte past the buffer.     *)
(***************************************************************************)
UnpackExit ==
    /\ op = "unpack" /\ pc = "loop" /\ i = NBytes(nbits)
    /\ pc' = IF nbits % 8 # 0 THEN "fault" ELSE "done"
    /\ UNCHANGED <<sse, op, nbits, inBits, inBytes, bitsOut, bytesOut, i>>

(***************************************************************************)
(* One iteration of bit_pack's loop without HAVE_SSE, i < nbits / 8:       *)
(* packed[i] = bit_pack(unpack_tmp, 8).                                    *)
(***************************************************************************)
PackByte ==
    /\ op = "pack" /\ pc = "loop" /\ ~sse /\ i < nbits \div 8
    /\ bytesOut' = [bytesOut EXCEPT ![i + 1] =
                      BitPackValue(SubSeq(inBits, 8 * i + 1, 8 * i + 8), 8)]
    /\ i' = i + 1
    /\ UNCHANGED <<sse, op, nbits, inBits, inBytes, bitsOut, pc>>

(***************************************************************************)
(* One iteration of bit_pack's loop with HAVE_SSE, i < nbytes: an 8-byte  *)
(* load from unpacked + 8 i, compared with zero and reversed.  Where the  *)
(* load reaches past the end of unpacked it reads whatever is there: any  *)
(* value, so any bit.                                                      *)
(***************************************************************************)
PackByteSse ==
    /\ op = "pack" /\ pc = "loop" /\ sse /\ i < NBytes(nbits)
    /\ \E beyond \in [1..8 -> {0, 1}] :
         LET loaded == [k \in 1..8 |-> IF 8 * i + k <= nbits THEN inBits[8 * i + k]
                                       ELSE beyond[k]]
         IN  bytesOut' = [bytesOut EXCEPT ![i + 1] = BitPackValue(loaded, 8)]
    /\ i' = i + 1
    /\ UNCHANGED <<sse, op, nbits, inBits, inBytes, bitsOut, pc>>

(* Mutant: the partial last byte is written without the final shift. *)
PackExitNoShift ==
    /\ op = "pack" /\ pc = "loop"
    /\ i = IF sse THEN NBytes(nbits) ELSE nbits \div 8
    /\ IF nbits % 8 = 0
       THEN pc' = "done" /\ UNCHANGED bytesOut
       ELSE IF i + 1 > Len(bytesOut)
       THEN pc' = "fault" /\ UNCHANGED bytesOut
       ELSE /\ bytesOut' = [bytesOut EXCEPT ![i + 1] =
                   BitPackValue(SubSeq(inBits, 8 * i + 1, nbits), nbits % 8)]
            /\ pc' = "done"
    /\ UNCHANGED <<sse, op, nbits, inBits, inBytes, bitsOut, i>>

(***************************************************************************)
(* The end of bit_pack's loop: when nbits % 8 != 0, packed[i] =           *)
(* bit_pack(unpack_tmp, nbits % 8) << (8 - nbits % 8), truncated to a     *)
(* byte.  With HAVE_SSE the loop has already run to i = nbytes, so this   *)
(* writes one byte past the packed buffer.                                *)
(***************************************************************************)
PackExit ==
    /\ op = "pack" /\ pc = "loop"
    /\ i = IF sse THEN NBytes(nbits) ELSE nbits \div 8
    /\ IF nbits % 8 = 0
       THEN pc' = "done" /\ UNCHANGED bytesOut
       ELSE IF i + 1 > Len(bytesOut)
       THEN pc' = "fault" /\ UNCHANGED bytesOut
       ELSE /\ bytesOut' = [bytesOut EXCEPT ![i + 1] =
                   (BitPackValue(SubSeq(inBits, 8 * i + 1, nbits), nbits % 8)
                      * 2^(8 - (nbits % 8))) % 256]
            /\ pc' = "done"
    /\ UNCHANGED <<sse, op, nbits, inBits, inBytes, bitsOut, i>>

Next ==
    \/ UnpackByte \/ UnpackExit
    \/ PackByte \/ PackByteSse \/ PackExit

Spec == Init /\ [][Next]_vars

-----------------------------------------------------------------------------
(***************************************************************************)
(* The reference: the packed form of a bit string puts bit p (counting    *)
(* from 1) in byte (p - 1) \div 8 + 1 at weight 2^(7 - ((p - 1) % 8)), and  *)
(* the padding bits of the last byte are 0.                               *)
(***************************************************************************)
BitOfByte(v, k) == (v \div 2^(7 - k)) % 2

RefUnpack(bytes, n) == [p \in 1..n |-> BitOfByte(bytes[((p - 1) \div 8) + 1], (p - 1) % 8)]

RefPack(bits) ==
    LET n == Len(bits)
        padded(p) == IF p <= n THEN bits[p] ELSE 0
    IN  [b \in 1..NBytes(n) |->
           CHOOSE v \in 0..255 : \A k \in 0..7 : BitOfByte(v, k) = padded(8 * (b - 1) + k + 1)]

(* bit_pack(packed, unpacked) accepts every length that passes its size   *)
(* assertion, never accesses memory outside its two buffers, and leaves   *)
(* in packed exactly the MSB-first packing of unpacked with zero padding. *)
BitPackCorrect ==
    op = "pack" => pc # "fault" /\ (pc = "done" => bytesOut = RefPack(inBits))

(* bit_unpack(unpacked, packed) accepts every length that passes its size *)
(* assertion, never accesses memory outside its two buffers, and leaves   *)
(* in unpacked exactly the first nbits bits of packed, MSB first.         *)
BitUnpackCorrect ==
    op = "unpack" => pc # "fault" /\ (pc = "done" => bitsOut = RefUnpack(inBytes, nbits))

=============================================================================
