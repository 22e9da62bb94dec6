\* Two readers and a writer forwarding through the enhanced I/O batch path.
CONSTANTS
  Readers <- MCReaders
  Writer = w
  BUFFER_COUNT <- MCBufferCount
  WORD_BITS <- MCWordBits
  SIZE_BITS <- MCSizeBits
  MaxOps <- MCMaxOps
  MaxCount <- MCMaxCount
  MaxCalls <- MCMaxCalls
  MaxPackets <- MCMaxPackets
  MaxWriteFails <- MCMaxWriteFails
SPECIFICATION Spec
INVARIANT TypeOK ExclusiveLending NullOnlyWhenExhausted Conservation PeakCoversAllocated BuffersAccountedFor ForwardedInOrder
PROPERTY ReadPacketsWritten
CHECK_DEADLOCK FALSE
