----------------------------- MODULE MCSpscRing -----------------------------
(* A ring of 4 slots (capacity 3) and 6 pushes: the indices wrap around    *)
(* more than once, the ring fills and a push is refused, and it empties.   *)
EXTENDS SpscRing

MCRingSize == 4
MCMaxPush == 6
==============================================================================
