\* stop() called from a thread other than the one that runs run() and fini().
CONSTANTS
  Readers <- MCReaders
  Writers <- MCWriters
  Inputs <- AllInputs
  WRITE_QUEUE_SIZE <- MCQueueSize
  WRITE_BATCH_SIZE <- MCBatchSize
  MaxReads <- MCMaxReads
  MaxOutputs <- MCMaxOutputs
  StopOnMainThread = FALSE
  NoThread = NoThread
SPECIFICATION Spec
INVARIANT NoUseAfterFree
