---------------------------- MODULE MCFrameCodec ----------------------------
(***************************************************************************)
(* FrameCodec at the scale G = 3, W = 10, T = 5: a varint byte carries 3  *)
(* payload bits under a continuation bit 8, the accumulator has 10 bits so *)
(* the overflow check sits at bitpos 9 = 3 * 3, as 63 = 9 * 7 in the code, *)
(* and the fourth byte of a varint, like the tenth, may add only its low  *)
(* bit.  The header fields are cast to 5 bits.                            *)
(***************************************************************************)
EXTENDS FrameCodec

\* Ids at both ends of each varint length and of the uint32_t range.
MCIds == {0, 1, 7, 8, 31}

\* Every length the 10-bit accumulator can hold.
MCWideLens == 0..(2^10 - 1)
====
