\* hev_simd_checksum as built for aarch64 (HEV_SIMD_NEON).
CONSTANTS
  Inputs <- MCInputs
  SIMD = "NEON"
INIT Init
NEXT Next
INVARIANT ChecksumIsRfc1071
