\* Every kind of datagram, stop() as a signal on the main thread, one reader
\* and two writers.  The reader's callbacks are serialised by callback_mutex
\* and the stack runs under lwip_mutex, so a second reader only changes
\* which thread holds them; the runs tunnel_uaf and tunnel_reentry keep two.
\* A reader that re-locks lwip_mutex in a handler blocks for good, and stop()
\* then blocks joining it: the engine really does stop there (see the run
\* tunnel_reentry), so deadlock is not checked in this run.
CONSTANTS
  Readers <- OneReader
  Writers <- MCWriters
  Inputs <- AllInputs
  WRITE_QUEUE_SIZE <- MCQueueSize
  WRITE_BATCH_SIZE <- MCBatchSize
  MaxReads <- MCMaxReads
  MaxOutputs <- MCMaxOutputs
  StopOnMainThread = TRUE
  NoThread = NoThread
SPECIFICATION Spec
INVARIANT TypeOK
INVARIANT PacketsAccountedFor
INVARIANT PerWriterFifo
INVARIANT NoUseAfterFree
PROPERTY StopAfterRunTerminates
CHECK_DEADLOCK FALSE
