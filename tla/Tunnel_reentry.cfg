\* Datagrams that complete a handshake or open a UDP flow reach the handlers.
CONSTANTS
  Readers <- MCReaders
  Writers <- MCWriters
  Inputs <- AllInputs
  WRITE_QUEUE_SIZE <- MCQueueSize
  WRITE_BATCH_SIZE <- MCBatchSize
  MaxReads <- MCMaxReads
  MaxOutputs <- MCMaxOutputs
  StopOnMainThread = TRUE
  NoThread = NoThread
SPECIFICATION Spec
INVARIANT NoStackReentry
