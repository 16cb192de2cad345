---------------------------- MODULE ByteStrings ----------------------------
(***************************************************************************)
(* Sequences of bytes, as the parsers and the codec go through them: at    *)
(* offsets that count from 0, as in the code.                              *)
(***************************************************************************)
EXTENDS Integers, Sequences

Byte == 0 .. 255
Word == {n \in Nat : n < 65536}

At(data, i) == data[i + 1]

Slice(data, i, j) == SubSeq(data, i + 1, j)
=============================================================================
