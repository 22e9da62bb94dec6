\* SPSC ring: slot exclusivity, refinement of BoundedFifo, and delivery.
CONSTANTS
  RING_BUFFER_SIZE <- MCRingSize
  MaxPush <- MCMaxPush
  NULL = NULL
SPECIFICATION Spec
INVARIANT TypeOK NoSlotRace
PROPERTY FifoSpec PublishedArePopped
