---------------------------- MODULE MCEnhancedIO ----------------------------
(* Two readers and the writer over a pool of three buffers in words of two *)
(* bits (so a scan crosses a word and the last word is partial).  Batches *)
(* of up to two packets, two read_batch calls per reader, three packets,  *)
(* one refused write: enough for a full batch, a batch cut short by an    *)
(* empty pool or a failed read, two readers racing for one bit, and a     *)
(* write_batch that stops part-way and is resumed.                        *)
EXTENDS EnhancedIO

MCReaders == {"r1", "r2"}
MCBufferCount == 3
MCWordBits == 2
MCSizeBits == 3
MCMaxCount == 2
MCMaxCalls == 2
MCMaxPackets == 3
MCMaxWriteFails == 1
\* Never binding: a reader makes at most MaxCalls * MaxCount allocs and as
\* many frees, the writer one free per packet.
MCMaxOps == 2 * MCMaxCalls * MCMaxCount
====
