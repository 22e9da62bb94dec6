\* The adaptive pool: idle accounting, delivery of submitted work, destroy.
CONSTANTS
  min_threads <- MCMinThreads
  max_threads <- MCMaxThreads
  scale_up_threshold <- MCUpThreshold
  scale_down_threshold <- MCDownThreshold
  RING_BUFFER_SIZE <- MCRingSize
  MaxSubmits <- MCMaxSubmits
  MaxThreads <- MCThreadBound
SPECIFICATION Spec
INVARIANT NoUseAfterFree
