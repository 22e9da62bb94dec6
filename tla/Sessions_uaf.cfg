\* A session still running in the pool writes through the tunnel I/O that
\* fini has already destroyed.
CONSTANTS
  Flows <- MCFlows
  Workers <- MCWorkers
  MAX_QUEUE_SIZE <- MCQueueSize
  MaxOutputs <- MCMaxOutputs
  NULL = NULL
SPECIFICATION Spec
INVARIANT NoUseAfterFree
