----------------------------- MODULE EnhancedIO -----------------------------
(***************************************************************************)
(* The batch path of src/src/hev-tunnel-io-enhanced.c composed with the    *)
(* buffer pool it owns (MemoryPool).                                       *)
(*                                                                         *)
(* Reader threads call hev_tunnel_io_enhanced_read_batch, which takes a    *)
(* buffer from the pool for every packet it reads; one writer thread calls *)
(* hev_tunnel_io_enhanced_write_batch, which writes the buffers to the TUN *)
(* fd and frees each one it wrote back to the pool.  The pool is private   *)
(* to the I/O object, so write_batch is the only way a buffer from         *)
(* read_batch goes back.  Every pool call is the MemoryPool model's own    *)
(* sequence of atomic steps, interleaved with everything else.             *)
(*                                                                         *)
(* The caller is the forwarding loop the API is built for: a reader hands  *)
(* each non-empty batch to the writer (pipe), and the writer, when         *)
(* write_batch returns written < count, keeps buffers[written..count) and  *)
(* passes them to its next write_batch call.  A packet is a number: the    *)
(* TUN fd yields 1, 2, 3, ... and a buffer holds the number last read into *)
(* it.  The stats counters are not modelled (see the README).             *)
(***************************************************************************)
EXTENDS Naturals, Sequences, SequencesExt, FiniteSets

CONSTANTS
  Readers,        \* threads calling read_batch
  Writer,         \* the thread calling write_batch
  BUFFER_COUNT, WORD_BITS, SIZE_BITS, MaxOps,  \* of the pool, as in MemoryPool
  MaxCount,       \* max_count passed to read_batch (BATCH_SIZE in the source)
  MaxCalls,       \* bound: read_batch calls, all readers together
  MaxPackets,     \* bound: packets the TUN fd yields
  MaxWriteFails   \* bound: writes the TUN fd refuses

ASSUME /\ Writer \notin Readers /\ MaxCount \in Nat \ {0}
       /\ MaxCalls \in Nat /\ MaxPackets \in Nat /\ MaxWriteFails \in Nat

Threads == Readers \cup {Writer}

VARIABLES
  free_bitmap, allocated, peak_usage, pc, wi, bm, mine, av, pk, held, ops,
  intact,   \* history of the pool (MemoryPool): buffers free throughout a call
  epc,      \* epc[t]: where t is in read_batch or write_batch, or "idle"
  rbatch,   \* rbatch[r]: buffers[0..count) of r's read_batch call
  rcalls,   \* read_batch calls made so far
  content,  \* content[b]: the packet last read into buffer b (0: none)
  nextPkt,  \* the next packet the TUN fd yields
  pipe,     \* batches read and not yet given to write_batch, oldest first
  wbatch,   \* the buffers of the writer's current or next write_batch call
  written,  \* write_batch's written (and loop index i)
  wfails,   \* writes the TUN fd refused so far
  sent,     \* history: the packets written to the TUN fd, in order
  handed    \* history: the packets of the batches read, in hand-off order

poolVars == <<free_bitmap, allocated, peak_usage, pc, wi, bm, mine, av, pk,
              held, ops, intact>>
ioVars == <<epc, rbatch, rcalls, content, nextPkt, pipe, wbatch, written,
            wfails, sent, handed>>
vars == <<poolVars, ioVars>>

Pool == INSTANCE MemoryPool

Buffers == Pool!Buffers
Packets == 1..MaxPackets

\* The buffer alloc has just returned to reader r, if any: the one r holds
\* that is not yet in its batch.
Got(r) == held[r] \ ToSet(rbatch[r])

\* A buffer of the pool in the caller's hands passes to another thread.
Lend(from, to, bs) ==
  held' = [held EXCEPT ![from] = @ \ bs, ![to] = @ \cup bs]

-----------------------------------------------------------------------------
(* hev_tunnel_io_enhanced_new: the pool of hev_memory_pool_new, no packet  *)
(* read, nothing written.                                                  *)
Init ==
  /\ Pool!Init
  /\ epc = [t \in Threads |-> "idle"]
  /\ rbatch = [r \in Readers |-> <<>>] /\ rcalls = 0
  /\ content = [b \in Buffers |-> 0] /\ nextPkt = 1
  /\ pipe = <<>> /\ wbatch = <<>> /\ written = 0 /\ wfails = 0
  /\ sent = <<>> /\ handed = <<>>

(* A step of a pool call in progress in thread t.                          *)
PoolStep(t) ==
  /\ \/ Pool!AllocLoad(t) \/ Pool!AllocCas(t) \/ Pool!AllocAdd(t)
     \/ Pool!AllocPeakLoad(t) \/ Pool!AllocPeakCas(t)
     \/ Pool!FreeOr(t) \/ Pool!FreeSub(t)
  /\ UNCHANGED ioVars

SetE(t, l) == epc' = [epc EXCEPT ![t] = l]

-----------------------------------------------------------------------------
(* read_batch (io, buffers, sizes, max_count): count = 0.                  *)
ReadBatchCall(r) ==
  /\ epc[r] = "idle" /\ rcalls < MaxCalls
  /\ SetE(r, "r_loop") /\ rbatch' = [rbatch EXCEPT ![r] = <<>>]
  /\ rcalls' = rcalls + 1
  /\ UNCHANGED <<poolVars, content, nextPkt, pipe, wbatch, written,
                 wfails, sent, handed>>

(* for (i < max_count): buf = hev_memory_pool_alloc (io->buffer_pool).     *)
ReadLoop(r) ==
  /\ epc[r] = "r_loop" /\ Len(rbatch[r]) < MaxCount
  /\ Pool!AllocCall(r) /\ SetE(r, "r_alloc")
  /\ UNCHANGED <<rbatch, rcalls, content, nextPkt, pipe, wbatch, written,
                 wfails, sent, handed>>

(* read () returns a packet n > 0: buffers[i] = buf, count++.              *)
ReadPacket(r) ==
  /\ epc[r] = "r_alloc" /\ pc[r] = "idle" /\ nextPkt <= MaxPackets
  /\ \E b \in Got(r) :
       /\ content' = [content EXCEPT ![b] = nextPkt]
       /\ rbatch' = [rbatch EXCEPT ![r] = Append(@, b)]
  /\ nextPkt' = nextPkt + 1 /\ SetE(r, "r_loop")
  /\ UNCHANGED <<poolVars, rcalls, pipe, wbatch, written, wfails, sent,
                 handed>>

(* Mutation: one of the three failure branches forgets to free the buffer. *)
ReadFails_NoFree(r) ==
  /\ epc[r] = "r_alloc" /\ pc[r] = "idle" /\ Got(r) # {}
  /\ SetE(r, "r_break")
  /\ UNCHANGED <<poolVars, rbatch, rcalls, content, nextPkt, pipe, wbatch,
                 written, wfails, sent, handed>>

(* read () returns -1 (EAGAIN or another error) or 0: the buffer goes back *)
(* with hev_memory_pool_free and the loop breaks.                          *)
ReadFails(r) ==
  /\ epc[r] = "r_alloc" /\ pc[r] = "idle"
  /\ \E b \in Got(r) : Pool!FreeBuf(r, b)
  /\ SetE(r, "r_break")
  /\ UNCHANGED <<rbatch, rcalls, content, nextPkt, pipe, wbatch, written,
                 wfails, sent, handed>>

(* read_batch returns count: after max_count packets, after an alloc that *)
(* returned NULL, or after the free of a failed read has completed.  The   *)
(* caller hands a non-empty batch to the writer.                           *)
ReadReturn(r) ==
  /\ pc[r] = "idle"
  /\ \/ epc[r] = "r_loop" /\ Len(rbatch[r]) = MaxCount
     \/ epc[r] = "r_alloc" /\ Got(r) = {}
     \/ epc[r] = "r_break"
  /\ IF rbatch[r] # <<>>
       THEN /\ pipe' = Append(pipe, rbatch[r])
            /\ handed' = handed \o [i \in 1..Len(rbatch[r]) |->
                                      content[rbatch[r][i]]]
            /\ Lend(r, Writer, ToSet(rbatch[r]))
       ELSE UNCHANGED <<pipe, handed, held>>
  /\ SetE(r, "idle")
  /\ UNCHANGED <<free_bitmap, allocated, peak_usage, pc, wi, bm, mine, av, pk,
                 ops, intact, rbatch, rcalls, content, nextPkt, wbatch, written, wfails,
                 sent>>

-----------------------------------------------------------------------------
(* write_batch (io, buffers, sizes, count), count > 0, written = 0: on the *)
(* buffers a previous call left, or else on the oldest batch read.         *)
WriteBatchCall ==
  /\ epc[Writer] = "idle" /\ (wbatch # <<>> \/ pipe # <<>>)
  /\ IF wbatch = <<>>
       THEN wbatch' = Head(pipe) /\ pipe' = Tail(pipe)
       ELSE UNCHANGED <<wbatch, pipe>>
  /\ written' = 0 /\ SetE(Writer, "w_loop")
  /\ UNCHANGED <<poolVars, rbatch, rcalls, content, nextPkt, wfails, sent,
                 handed>>

(* write () succeeds: written++, and hev_memory_pool_free (buffers[i]).    *)
WriteOk ==
  /\ epc[Writer] = "w_loop" /\ pc[Writer] = "idle"
  /\ written < Len(wbatch)
  /\ sent' = Append(sent, content[wbatch[written + 1]])
  /\ Pool!FreeBuf(Writer, wbatch[written + 1])
  /\ written' = written + 1
  /\ UNCHANGED <<epc, rbatch, rcalls, content, nextPkt, pipe, wbatch, wfails,
                 handed>>

(* Mutation: the buffer is freed whatever write () returned, as read_batch *)
(* does on its error path.                                                 *)
WriteFail_Frees ==
  /\ epc[Writer] = "w_loop" /\ pc[Writer] = "idle"
  /\ written < Len(wbatch) /\ wfails < MaxWriteFails
  /\ Pool!FreeBuf(Writer, wbatch[written + 1])
  /\ wbatch' = SubSeq(wbatch, written + 1, Len(wbatch))
  /\ wfails' = wfails + 1 /\ SetE(Writer, "idle")
  /\ UNCHANGED <<rbatch, rcalls, content, nextPkt, pipe, written, sent, handed>>

(* write () returns -1, EAGAIN or another error: break, return written;    *)
(* buffers[written..count) stay with the caller, unfreed.                  *)
WriteFail ==
  /\ epc[Writer] = "w_loop" /\ pc[Writer] = "idle"
  /\ written < Len(wbatch) /\ wfails < MaxWriteFails
  /\ wbatch' = SubSeq(wbatch, written + 1, Len(wbatch))
  /\ wfails' = wfails + 1 /\ SetE(Writer, "idle")
  /\ UNCHANGED <<poolVars, rbatch, rcalls, content, nextPkt, pipe, written,
                 sent, handed>>

(* Mutation: the loop runs while i < count - 1, so it returns with the    *)
(* last buffer unwritten, and the caller keeps that buffer for a retry.   *)
WriteDone_OffByOne ==
  /\ epc[Writer] = "w_loop" /\ pc[Writer] = "idle"
  /\ written = Len(wbatch) - 1
  /\ wbatch' = SubSeq(wbatch, written + 1, Len(wbatch)) /\ SetE(Writer, "idle")
  /\ UNCHANGED <<poolVars, rbatch, rcalls, content, nextPkt, pipe, written,
                 wfails, sent, handed>>

(* The loop ends with every buffer written: return written = count.        *)
WriteDone ==
  /\ epc[Writer] = "w_loop" /\ pc[Writer] = "idle"
  /\ written = Len(wbatch)
  /\ wbatch' = <<>> /\ SetE(Writer, "idle")
  /\ UNCHANGED <<poolVars, rbatch, rcalls, content, nextPkt, pipe, written,
                 wfails, sent, handed>>

-----------------------------------------------------------------------------
Reader(r) == ReadLoop(r) \/ ReadPacket(r) \/ ReadFails(r) \/ ReadReturn(r)

WriterStep == WriteOk \/ WriteFail \/ WriteDone

Next ==
  \/ \E t \in Threads : PoolStep(t)
  \/ \E r \in Readers : ReadBatchCall(r) \/ Reader(r)
  \/ WriteBatchCall \/ WriterStep

(* Threads run: a call once made, and a pool step once begun, goes on.     *)
(* The forwarding loop gives the writer whatever was read (WriteBatchCall *)
(* is fair); whether a reader calls read_batch again is its own choice.   *)
(* MaxWriteFails bounds the writes the fd refuses: it accepts eventually. *)
Fairness ==
  /\ \A t \in Threads : WF_vars(PoolStep(t))
  /\ \A r \in Readers : WF_vars(Reader(r))
  /\ WF_vars(WriteBatchCall) /\ WF_vars(WriterStep)

Spec == Init /\ [][Next]_vars /\ Fairness

-----------------------------------------------------------------------------
TypeOK ==
  /\ Pool!TypeOK
  /\ epc \in [Threads -> {"idle", "r_loop", "r_alloc", "r_break", "w_loop"}]
  /\ rbatch \in [Readers -> Seq(Buffers)]
  /\ content \in [Buffers -> 0..MaxPackets]
  /\ pipe \in Seq(Seq(Buffers)) /\ wbatch \in Seq(Buffers)
  /\ written \in 0..MaxCount

(* The pool's own invariants hold under the call pattern of the batch     *)
(* path, where the thread that frees a buffer is not the one that got it. *)
(* A buffer is lent to one caller at a time and is marked used meanwhile. *)
ExclusiveLending == Pool!ExclusiveLending

(* A reader's alloc returns NULL, ending its batch early, only when every *)
(* buffer was taken at some point of the call: none that stayed free is   *)
(* skipped by the word-by-word scan racing the other reader and the writer.*)
NullOnlyWhenExhausted == Pool!NullOnlyWhenExhausted

(* At quiescence of the pool the free bits and allocated sum to capacity. *)
Conservation == Pool!Conservation

(* At quiescence of the pool, peak_usage covers allocated.                *)
PeakCoversAllocated == Pool!PeakCoversAllocated

\* The buffers write_batch has yet to write: buffers[written..count) while
\* it runs, all of the caller's kept buffers between calls.
Pending ==
  IF epc[Writer] = "w_loop" THEN SubSeq(wbatch, written + 1, Len(wbatch))
  ELSE wbatch

BitOf(b) == Pool!BitOf(b)
WordOf(b) == Pool!WordOf(b)

Occ(s, b) == Cardinality({i \in DOMAIN s : s[i] = b})

\* The copies of b a reader's read_batch call has: in buffers[0..count),
\* or just returned by alloc.  Once the call returns they are the writer's.
InCall(r, b) ==
  IF epc[r] = "idle" THEN 0
  ELSE Occ(rbatch[r], b) + (IF epc[r] = "r_alloc" /\ b \in Got(r) THEN 1 ELSE 0)

\* The places buffer b is in: free in the bitmap, inside a pool call, in a
\* reader's hand or batch, handed to the writer, or pending a write.
Owners(b) ==
  (IF BitOf(b) \in free_bitmap[WordOf(b)] THEN 1 ELSE 0)
  + Cardinality({t \in Threads : mine[t] = b})
  + MapThenSumSet(LAMBDA r : InCall(r, b), Readers)
  + MapThenSumSet(LAMBDA i : Occ(pipe[i], b), DOMAIN pipe)
  + Occ(Pending, b)

(* Every buffer is in exactly one place at every step: none leaks on the  *)
(* three early exits of read_batch (NULL alloc, failed read, EOF), and     *)
(* none is both back in the pool and still held by the caller after a     *)
(* write_batch that stopped part-way, across the pool's CAS races.         *)
BuffersAccountedFor == \A b \in Buffers : Owners(b) = 1

(* What reaches the TUN fd is, in order, a prefix of the packets read, in  *)
(* the order their batches were handed over: a write that fails and is     *)
(* retried from buffers[written] neither loses, repeats nor reorders a     *)
(* packet, and no buffer is refilled by a reader before it is written.     *)
ForwardedInOrder == IsPrefix(sent, handed)

(* Every packet read into a batch is eventually written to the TUN fd,    *)
(* given that the fd refuses only finitely many writes.                   *)
ReadPacketsWritten ==
  \A p \in Packets : Contains(handed, p) ~> Contains(sent, p)
==============================================================================
