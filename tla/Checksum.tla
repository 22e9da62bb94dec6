------------------------------ MODULE Checksum ------------------------------
(***************************************************************************)
(* The Internet checksum of src/src/hev-simd.c: the scalar fallback, the   *)
(* AVX2 and NEON variants, and the compile-time dispatch of                *)
(* hev_simd_checksum, as pure operators on a byte sequence.  They are      *)
(* compared with the one's-complement sum of RFC 1071, written here as a   *)
(* word-by-word addition with end-around carry (a different formulation    *)
(* from the code's 32-bit accumulate-then-fold), over every short input    *)
(* and a few inputs long enough to reach the vector loops.                 *)
(*                                                                         *)
(* Words are read through a uint16_t pointer on a little-endian machine   *)
(* (x86-64 and aarch64, the two SIMD targets).  The 16-bit AVX2 lanes      *)
(* keep their width; the uint32_t accumulators cannot wrap for inputs      *)
(* shorter than 2^17 bytes (each word adds less than 2^16), which          *)
(* MaxInputLen keeps the inputs below, so they are unbounded naturals.     *)
(***************************************************************************)
EXTENDS Naturals, Sequences, SequencesExt

CONSTANTS
  Inputs,  \* the byte sequences checked
  SIMD     \* the HEV_SIMD_* macro the build defines (hev-simd.h)

\* Inputs are at most MaxInputLen bytes long, so no uint32_t sum wraps.
MaxInputLen == 2^16

ASSUME /\ SIMD \in {"AVX2", "SSE2", "NEON", "NONE"}
       /\ \A d \in Inputs : Len(d) <= MaxInputLen

U16 == 2^16

\* The little-endian 16-bit word at byte offset i (1-based) of d.
Word(d, i) == d[i] + 256 * d[i + 1]

ByteSum(d) == FoldLeft(LAMBDA a, b : a + b, 0, d)

\* while (sum >> 16) sum = (sum & 0xFFFF) + (sum >> 16);
RECURSIVE Fold(_)
Fold(sum) == IF sum \div U16 = 0 THEN sum
             ELSE Fold((sum % U16) + (sum \div U16))

\* (uint16_t)~sum
Complement16(x) == (U16 - 1) - (x % U16)

\* checksum_scalar: the uint32_t sum of the 16-bit words, the odd byte added
\* as is, folded and inverted.
RECURSIVE ScalarSum(_)
ScalarSum(d) ==
  CASE Len(d) > 1 -> Word(d, 1) + ScalarSum(SubSeq(d, 3, Len(d)))
    [] Len(d) = 1 -> d[1]
    [] OTHER      -> 0

checksum_scalar(d) == Complement16(Fold(ScalarSum(d)))

\* The byte count of d that the vector loop consumes, chunk bytes at a time.
VectorPart(d, chunk) == (Len(d) \div chunk) * chunk

\* The bytes left for the scalar tail.
Rest(d, chunk) == SubSeq(d, VectorPart(d, chunk) + 1, Len(d))

\* The tail: if (len > 0) result += checksum_scalar(data, len); the value
\* added is already inverted.
WithTail(result, d, chunk) ==
  IF Rest(d, chunk) = <<>> THEN result
  ELSE result + checksum_scalar(Rest(d, chunk))

\* checksum_avx2: the 32-byte chunks' bytes, zero-extended, added into
\* sixteen 16-bit lanes (_mm256_add_epi16) and summed horizontally with
\* _mm_add_epi16, so the vector sum is the byte sum modulo 2^16; then the
\* scalar tail, the fold and the inversion.
checksum_avx2(d) ==
  LET vec == ByteSum(SubSeq(d, 1, VectorPart(d, 32))) % U16
  IN  Complement16(Fold(WithTail(vec, d, 32)))

\* checksum_neon: the 16-byte chunks' bytes widened into four 32-bit lanes
\* (vaddw_u16) and the lanes added in uint32_t; then the same tail.
checksum_neon(d) ==
  LET vec == ByteSum(SubSeq(d, 1, VectorPart(d, 16)))
  IN  Complement16(Fold(WithTail(vec, d, 16)))

\* hev_simd_checksum: AVX2 if built with it, else NEON, else the scalar
\* code (an SSE2 build has no SSE2 checksum).
hev_simd_checksum(d) ==
  CASE SIMD = "AVX2" -> checksum_avx2(d)
    [] SIMD = "NEON" -> checksum_neon(d)
    [] OTHER         -> checksum_scalar(d)

\* RFC 1071: the 16-bit one's-complement sum, each addition wrapping its
\* carry around, an odd final byte padded with a zero byte, inverted.
OnesAdd(a, b) == IF a + b >= U16 THEN a + b - U16 + 1 ELSE a + b

RECURSIVE OnesSum(_)
OnesSum(d) ==
  CASE Len(d) >= 2 -> OnesAdd(Word(d, 1), OnesSum(SubSeq(d, 3, Len(d))))
    [] Len(d) = 1  -> d[1]
    [] OTHER       -> 0

Rfc1071(d) == Complement16(OnesSum(d))

VARIABLE input

Init == input \in Inputs

Next == UNCHANGED input

Spec == Init /\ [][Next]_input

\* The checksum hev_simd_checksum returns, in the variant the build
\* selects, is the RFC 1071 Internet checksum of the bytes it is given.
ChecksumIsRfc1071 == hev_simd_checksum(input) = Rfc1071(input)
==============================================================================
