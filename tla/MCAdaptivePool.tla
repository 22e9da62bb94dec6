--------------------------- MODULE MCAdaptivePool ---------------------------
(* One worker at start and room for two, scale-up whenever work is queued  *)
(* and scale-down whenever a worker idles, so that the adjuster can grow,  *)
(* shrink and grow the pool again (three threads created).  A ring of four *)
(* slots holds three items, so the fourth of four submits can find it      *)
(* full, and a push and pop between adjust's two index loads make its      *)
(* queue_depth wrap.                                                       *)
EXTENDS AdaptivePool

MCMinThreads == 1
MCMaxThreads == 2
MCUpThreshold == 0
MCDownThreshold == 0
MCRingSize == 4
MCMaxSubmits == 4
MCThreadBound == 3
==============================================================================
