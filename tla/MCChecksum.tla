----------------------------- MODULE MCChecksum -----------------------------
(***************************************************************************)
(* Every byte sequence of length at most 3 over the bytes 0, 1, 0x80 and   *)
(* 0xFF (carries, odd lengths and the empty input), and inputs of 16, 17,  *)
(* 32 and 33 bytes that take the NEON and AVX2 vector loops with and       *)
(* without a scalar tail.                                                  *)
(***************************************************************************)
EXTENDS Checksum

MCBytes == {0, 1, 128, 255}

MCLong == { [i \in 1..n |-> 255] : n \in {16, 17, 32, 33} }
          \cup { [i \in 1..n |-> 1] : n \in {16, 32} }

MCInputs == SeqOf(MCBytes, 3) \cup MCLong
==============================================================================
