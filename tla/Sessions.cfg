\* Session dispatch, registry, pool and teardown: the registry and delivery.
CONSTANTS
  Flows <- MCFlows
  Workers <- MCWorkers
  MAX_QUEUE_SIZE <- MCQueueSize
  MaxOutputs <- MCMaxOutputs
  NULL = NULL
SPECIFICATION Spec
INVARIANT TypeOK RegistryTracksLive
PROPERTY QueuedSessionsRun
