\* Two concurrent wait_all callers.  A caller left blocked is what this
\* run looks for, so a final state is not reported as a deadlock.
CONSTANTS
  Workers <- MCWorkers
  Waiters <- TwoWaiters
  MAX_QUEUE_SIZE <- MCQueueSize
  MaxItems <- MCMaxItems
  num_threads <- MCNumThreads
  nprocs <- MCNprocs
SPECIFICATION Spec

PROPERTY WaitAllReturns
CHECK_DEADLOCK FALSE
