------------------------------ MODULE SpscRing ------------------------------
(***************************************************************************)
(* The lock-free single-producer single-consumer ring buffer of            *)
(* src/src/hev-ring-buffer.h and src/src/hev-ring-buffer.c.                        *)
(*                                                                         *)
(* One producer thread runs hev_ring_buffer_push and one consumer thread   *)
(* runs hev_ring_buffer_pop, each as a sequence of steps, one per access   *)
(* to memory the other thread also touches: the acquire reload of the     *)
(* other side's index, the store into or load from the slot, and the      *)
(* release store of the own index.  A thread's own index and its cached    *)
(* copy of the other's are private, so reading them is part of the step    *)
(* that starts the call.  The acquire/release pairs make the program free  *)
(* of data races as long as the slot accesses never overlap, so the steps  *)
(* interleave sequentially; NoSlotRace checks that they never overlap.     *)
(*                                                                         *)
(* Values pushed are the numbers 1..MaxPush in order, so that the order in *)
(* which they come out shows the order in which they went in.             *)
(***************************************************************************)
EXTENDS Integers, Sequences, SequencesExt, Bitwise

CONSTANTS
  RING_BUFFER_SIZE,  \* a power of two (4096 in the source)
  MaxPush,           \* number of pushes the producer makes
  NULL               \* what pop returns when the ring is empty

ASSUME /\ RING_BUFFER_SIZE \in {2^k : k \in 1..12}
       /\ MaxPush \in Nat
       /\ NULL \notin Nat

Values == 1..MaxPush

\* hev_ring_buffer_new: mask = RING_BUFFER_SIZE - 1.
mask == RING_BUFFER_SIZE - 1
Idx == 0..mask

VARIABLES
  head, tail,               \* the shared atomic indices
  cached_tail, cached_head, \* the producer's copy of tail, the consumer's of head
  buffer,                   \* buffer[RING_BUFFER_SIZE]
  ppc, ph, pnext, pval,     \* producer: pc and the locals head, next, data
  cpc, cdata, cres,         \* consumer: pc, the local data, the last result
  nextVal,                  \* the next value the producer will push
  pushed, popped, refused   \* history: values published, returned, refused

vars == <<head, tail, cached_tail, cached_head, buffer, ppc, ph, pnext, pval,
          cpc, cdata, cres, nextVal, pushed, popped, refused>>

\* hev_ring_buffer_size: (head - tail) & mask, the subtraction in size_t.
hev_ring_buffer_size(h, t) == ((h - t) % RING_BUFFER_SIZE) & mask

\* hev_ring_buffer_new: a zeroed ring, every index 0.
Init ==
  /\ head = 0 /\ tail = 0
  /\ cached_tail = 0 /\ cached_head = 0
  /\ buffer = [i \in Idx |-> NULL]
  /\ ppc = "idle" /\ ph = 0 /\ pnext = 0 /\ pval = NULL
  /\ cpc = "idle" /\ cdata = NULL /\ cres = NULL
  /\ nextVal = 1
  /\ pushed = <<>> /\ popped = <<>> /\ refused = <<>>

(***************************************************************************)
(* Producer: hev_ring_buffer_push.                                         *)
(***************************************************************************)

\* A bug in the full test: trusting the cached tail without reloading it.
PushCall_NoReload ==
  /\ ppc = "idle" /\ nextVal <= MaxPush
  /\ LET next == (head + 1) & mask IN
       /\ ph' = head /\ pnext' = next /\ pval' = nextVal
       /\ IF next = cached_tail
            THEN ppc' = "idle" /\ refused' = Append(refused, nextVal)
            ELSE ppc' = "p_store" /\ UNCHANGED refused
  /\ nextVal' = nextVal + 1
  /\ UNCHANGED <<head, tail, cached_tail, cached_head, buffer, cpc, cdata,
                 cres, pushed, popped>>

\* Relaxed load of the own head, next = (head + 1) & mask, and the test of
\* next against the cached tail; a match sends the producer to reload tail.
PushCall ==
  /\ ppc = "idle" /\ nextVal <= MaxPush
  /\ LET next == (head + 1) & mask IN
       /\ ph' = head /\ pnext' = next /\ pval' = nextVal
       /\ ppc' = IF next = cached_tail THEN "p_reload" ELSE "p_store"
  /\ nextVal' = nextVal + 1
  /\ UNCHANGED <<head, tail, cached_tail, cached_head, buffer, cpc, cdata,
                 cres, pushed, popped, refused>>

\* cached_tail = acquire load of tail; still next == cached_tail: return -1.
PushReload ==
  /\ ppc = "p_reload"
  /\ cached_tail' = tail
  /\ IF pnext = tail
       THEN ppc' = "idle" /\ refused' = Append(refused, pval)
       ELSE ppc' = "p_store" /\ UNCHANGED refused
  /\ UNCHANGED <<head, tail, cached_head, buffer, ph, pnext, pval, cpc, cdata,
                 cres, nextVal, pushed, popped>>

\* rb->buffer[head] = data.
PushStore ==
  /\ ppc = "p_store"
  /\ buffer' = [buffer EXCEPT ![ph] = pval]
  /\ ppc' = "p_publish"
  /\ UNCHANGED <<head, tail, cached_tail, cached_head, ph, pnext, pval, cpc,
                 cdata, cres, nextVal, pushed, popped, refused>>

\* A bug in the wrap-around: the new head taken as head + 1, unmasked.
PushPublish_NoMask ==
  /\ ppc = "p_publish"
  /\ head' = ph + 1
  /\ pushed' = Append(pushed, pval)
  /\ ppc' = "idle"
  /\ UNCHANGED <<tail, cached_tail, cached_head, buffer, ph, pnext, pval, cpc,
                 cdata, cres, nextVal, popped, refused>>

\* Release store head = next; push returns 0.
PushPublish ==
  /\ ppc = "p_publish"
  /\ head' = pnext
  /\ pushed' = Append(pushed, pval)
  /\ ppc' = "idle"
  /\ UNCHANGED <<tail, cached_tail, cached_head, buffer, ph, pnext, pval, cpc,
                 cdata, cres, nextVal, popped, refused>>

(***************************************************************************)
(* Consumer: hev_ring_buffer_pop.                                          *)
(***************************************************************************)

\* A bug in the empty test: the consumer never consults the cached head.
PopCall_NoCheck ==
  /\ cpc = "idle"
  /\ cpc' = "c_load"
  /\ UNCHANGED <<head, tail, cached_tail, cached_head, buffer, ppc, ph, pnext,
                 pval, cdata, cres, nextVal, pushed, popped, refused>>

\* Relaxed load of the own tail and the test against the cached head; a
\* match sends the consumer to reload head.
PopCall ==
  /\ cpc = "idle"
  /\ cpc' = IF tail = cached_head THEN "c_reload" ELSE "c_load"
  /\ UNCHANGED <<head, tail, cached_tail, cached_head, buffer, ppc, ph, pnext,
                 pval, cdata, cres, nextVal, pushed, popped, refused>>

\* A bug in the reload: the empty test repeated on the stale cached head.
PopReload_Stale ==
  /\ cpc = "c_reload"
  /\ IF tail = cached_head
       THEN cpc' = "idle" /\ cres' = NULL
       ELSE cpc' = "c_load" /\ UNCHANGED cres
  /\ UNCHANGED <<head, tail, cached_tail, cached_head, buffer, ppc, ph, pnext,
                 pval, cdata, nextVal, pushed, popped, refused>>

\* cached_head = acquire load of head; still tail == cached_head: NULL.
PopReload ==
  /\ cpc = "c_reload"
  /\ cached_head' = head
  /\ IF tail = head
       THEN cpc' = "idle" /\ cres' = NULL
       ELSE cpc' = "c_load" /\ UNCHANGED cres
  /\ UNCHANGED <<head, tail, cached_tail, buffer, ppc, ph, pnext, pval, cdata,
                 nextVal, pushed, popped, refused>>

\* data = rb->buffer[tail].
PopLoad ==
  /\ cpc = "c_load"
  /\ cdata' = buffer[tail]
  /\ cpc' = "c_publish"
  /\ UNCHANGED <<head, tail, cached_tail, cached_head, buffer, ppc, ph, pnext,
                 pval, cres, nextVal, pushed, popped, refused>>

\* Release store tail = (tail + 1) & mask; pop returns data.
PopPublish ==
  /\ cpc = "c_publish"
  /\ tail' = (tail + 1) & mask
  /\ cres' = cdata
  /\ popped' = Append(popped, cdata)
  /\ cpc' = "idle"
  /\ UNCHANGED <<head, cached_tail, cached_head, buffer, ppc, ph, pnext, pval,
                 cdata, nextVal, pushed, refused>>

Next ==
  \/ PushCall \/ PushReload \/ PushStore \/ PushPublish
  \/ PopCall \/ PopReload \/ PopLoad \/ PopPublish

\* Once push is called it runs to its end; the consumer keeps polling, as
\* the workers of the adaptive pool do.  Whether the producer calls push
\* again is up to its caller, so PushCall has no fairness.
Fairness ==
  /\ WF_vars(PushReload) /\ WF_vars(PushStore) /\ WF_vars(PushPublish)
  /\ WF_vars(PopCall) /\ WF_vars(PopReload) /\ WF_vars(PopLoad)
  /\ WF_vars(PopPublish)

Spec == Init /\ [][Next]_vars /\ Fairness

(***************************************************************************)
(* Properties.                                                             *)
(***************************************************************************)

TypeOK ==
  /\ head \in Idx /\ tail \in Idx
  /\ cached_tail \in Idx /\ cached_head \in Idx
  /\ buffer \in [Idx -> Values \cup {NULL}]
  /\ ppc \in {"idle", "p_reload", "p_store", "p_publish"}
  /\ cpc \in {"idle", "c_reload", "c_load", "c_publish"}
  /\ ph \in Idx /\ pnext \in Idx

\* The slot the producer is filling (from the store of buffer[head] until
\* the release of head) is never the slot the consumer is reading (from
\* the load of buffer[tail] until the release of tail): the cached-index
\* tests of push and pop keep the two threads on different slots, so the
\* non-atomic slot accesses never race.
NoSlotRace ==
  (ppc \in {"p_store", "p_publish"} /\ cpc \in {"c_load", "c_publish"})
    => ph # tail

\* The ring refines the abstract queue: the published slots from tail up
\* to head, read through hev_ring_buffer_size, are the queue; push is a put
\* when it publishes head and a refusal when it returns -1; pop is a take
\* when it publishes tail and an empty take when it returns NULL.  This is
\* FIFO order, no loss or duplication, and -1/NULL only when really full or
\* empty, across every interleaving of the two threads' steps.
Queue == [i \in 1..hev_ring_buffer_size(head, tail) |->
            buffer[(tail + i - 1) & mask]]

Fifo == INSTANCE BoundedFifo
          WITH Capacity <- mask, Values <- Values, Empty <- NULL,
               q <- Queue, out <- popped, refused <- refused, polled <- cres

FifoSpec == Fifo!Spec

\* Every value push published is eventually returned by pop, given that the
\* consumer keeps polling.
PublishedArePopped ==
  \A v \in Values : Contains(pushed, v) ~> Contains(popped, v)
==============================================================================
