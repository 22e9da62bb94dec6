\* One wait_all caller.  The model ends when hev_thread_pool_destroy
\* returns: every thread has finished, which is not a deadlock.
CONSTANTS
  Workers <- MCWorkers
  Waiters <- OneWaiter
  MAX_QUEUE_SIZE <- MCQueueSize
  MaxItems <- MCMaxItems
  num_threads <- MCNumThreads
  nprocs <- MCNprocs
SPECIFICATION Spec
INVARIANT TypeOK ItemsAccountedFor WaitAllSound NothingDrained
PROPERTY DestroyCompletes WaitAllReturns WorkQueueSpec
CHECK_DEADLOCK FALSE
