----------------------------- MODULE MemoryPool -----------------------------
(***************************************************************************)
(* The lock-free buffer pool of src/src/hev-memory-pool.c.                  *)
(*                                                                         *)
(* Every atomic operation of hev_memory_pool_alloc and                     *)
(* hev_memory_pool_free is one step: the load of a bitmap word, the CAS    *)
(* that claims a bit, the fetch_add of allocated, the load of peak_usage   *)
(* and each CAS of the peak loop; the fetch_or of the freed bit and the    *)
(* fetch_sub of allocated.  A bitmap word is modelled as the set of its    *)
(* bits that are 1 (free); __builtin_ffs (x) - 1 is then the least member. *)
(* allocated and peak_usage are size_t: they wrap modulo 2^SIZE_BITS.      *)
(* A weak CAS that fails spuriously reloads the value it compared, which   *)
(* leaves the state as it was, so it needs no step of its own.             *)
(***************************************************************************)
EXTENDS Naturals, FiniteSets, FiniteSetsExt

CONSTANTS
  Threads,        \* threads calling alloc and free
  BUFFER_COUNT,   \* buffer_count (at most POOL_MAX_BUFFERS = 2048)
  WORD_BITS,      \* width of a free_bitmap word (32), scaled down
  SIZE_BITS,      \* width of size_t, scaled down
  MaxOps          \* bound: alloc and free calls per thread

ASSUME /\ Threads # {} /\ BUFFER_COUNT \in Nat \ {0}
       /\ WORD_BITS \in Nat \ {0} /\ SIZE_BITS \in Nat \ {0}
       /\ MaxOps \in Nat

Buffers == 0..(BUFFER_COUNT - 1)
SizeMod == 2^SIZE_BITS
NoBuffer == BUFFER_COUNT

(* bitmap_size = (buffer_count + 31) / 32 *)
bitmap_size == (BUFFER_COUNT + WORD_BITS - 1) \div WORD_BITS
Words == 0..(bitmap_size - 1)
WordOf(b) == b \div WORD_BITS
BitOf(b) == b % WORD_BITS

(* hev_memory_pool_new: every word all ones, except that the last word     *)
(* keeps only the bits of the buffers that exist, (1U << remaining) - 1.   *)
InitialWord(i) ==
  LET remaining == BUFFER_COUNT - i * WORD_BITS
  IN IF i = bitmap_size - 1 /\ remaining < WORD_BITS
       THEN 0..(remaining - 1) ELSE 0..(WORD_BITS - 1)

AllocPcs == {"a_load", "a_cas", "a_add", "a_peak_load", "a_peak_cas"}

VARIABLES
  free_bitmap,  \* free_bitmap[i]: the set bits (free buffers) of word i
  allocated,    \* pool->allocated
  peak_usage,   \* pool->peak_usage
  pc,           \* pc[t]: "idle", an alloc label or a free label
  wi,           \* wi[t]: word index i of alloc's scan
  bm,           \* bm[t]: alloc's local copy bitmap of word i
  mine,         \* mine[t]: index of the buffer alloc claimed, or being freed
  av,           \* av[t]: alloc's local allocated (fetch_add result + 1)
  pk,           \* pk[t]: alloc's local peak (the CAS expected value)
  held,         \* held[t]: buffers alloc returned to t and t has not freed
  ops,          \* ops[t]: calls t has made
  intact        \* history: intact[t], the buffers free at every step of
                \* t's current alloc call so far

vars == <<free_bitmap, allocated, peak_usage, pc, wi, bm, mine, av, pk, held,
          ops, intact>>

Set(f, t, v) == f' = [f EXCEPT ![t] = v]

\* The buffers whose bit is set in the bitmap.
FreeBuffers == {b \in Buffers : BitOf(b) \in free_bitmap[WordOf(b)]}

\* A successful CAS claims buffer b: it is no longer free for any caller.
Claimed(b) == intact' = [u \in DOMAIN intact |-> intact[u] \ {b}]

-----------------------------------------------------------------------------
(* hev_memory_pool_alloc is called.                                        *)
AllocCall(t) ==
  /\ pc[t] = "idle" /\ ops[t] < MaxOps
  /\ Set(pc, t, "a_load") /\ Set(wi, t, 0) /\ Set(ops, t, ops[t] + 1)
  /\ Set(intact, t, FreeBuffers)
  /\ UNCHANGED <<free_bitmap, allocated, peak_usage, bm, mine, av, pk, held>>

(* The for loop over the words: past the last word the pool is full and    *)
(* alloc returns NULL; otherwise word i is loaded (acquire).               *)
AllocLoad(t) ==
  /\ pc[t] = "a_load"
  /\ IF wi[t] = bitmap_size
       THEN Set(pc, t, "idle") /\ UNCHANGED bm
       ELSE Set(bm, t, free_bitmap[wi[t]]) /\ Set(pc, t, "a_cas")
  /\ UNCHANGED <<free_bitmap, allocated, peak_usage, wi, mine, av, pk, held, ops, intact>>

(* Mutation: the claimed index forgets the - 1 of __builtin_ffs.           *)
AllocCas_FfsOffByOne(t) ==
  /\ pc[t] = "a_cas"
  /\ IF bm[t] = {}
       THEN Set(wi, t, wi[t] + 1) /\ Set(pc, t, "a_load")
            /\ UNCHANGED <<free_bitmap, bm, mine, intact>>
       ELSE LET bit == Min(bm[t]) IN
            \/ /\ free_bitmap[wi[t]] = bm[t]
               /\ free_bitmap' = [free_bitmap EXCEPT ![wi[t]] = bm[t] \ {bit}]
               /\ Set(mine, t, wi[t] * WORD_BITS + bit + 1)
               /\ Claimed(wi[t] * WORD_BITS + bit)
               /\ Set(pc, t, "a_add")  /\ UNCHANGED <<wi, bm>>
            \/ /\ free_bitmap[wi[t]] # bm[t]
               /\ Set(bm, t, free_bitmap[wi[t]])
               /\ UNCHANGED <<free_bitmap, pc, wi, mine, intact>>
  /\ UNCHANGED <<allocated, peak_usage, av, pk, held, ops>>

(* Mutation: the bit is cleared by a plain store, not a compare-exchange.  *)
AllocCas_Store(t) ==
  /\ pc[t] = "a_cas"
  /\ IF bm[t] = {}
       THEN Set(wi, t, wi[t] + 1) /\ Set(pc, t, "a_load")
            /\ UNCHANGED <<free_bitmap, bm, mine, intact>>
       ELSE LET bit == Min(bm[t]) IN
            /\ free_bitmap' = [free_bitmap EXCEPT ![wi[t]] = bm[t] \ {bit}]
            /\ Set(mine, t, wi[t] * WORD_BITS + bit)
            /\ Claimed(wi[t] * WORD_BITS + bit)
            /\ Set(pc, t, "a_add")  /\ UNCHANGED <<wi, bm>>
  /\ UNCHANGED <<allocated, peak_usage, av, pk, held, ops>>

(* Mutation: a failed CAS gives the word up and moves on to the next one. *)
AllocCas_NextOnFail(t) ==
  /\ pc[t] = "a_cas"
  /\ IF bm[t] = {}
       THEN Set(wi, t, wi[t] + 1) /\ Set(pc, t, "a_load")
            /\ UNCHANGED <<free_bitmap, bm, mine, intact>>
       ELSE LET bit == Min(bm[t]) IN
            \/ /\ free_bitmap[wi[t]] = bm[t]
               /\ free_bitmap' = [free_bitmap EXCEPT ![wi[t]] = bm[t] \ {bit}]
               /\ Set(mine, t, wi[t] * WORD_BITS + bit)
               /\ Claimed(wi[t] * WORD_BITS + bit)
               /\ Set(pc, t, "a_add")  /\ UNCHANGED <<wi, bm>>
            \/ /\ free_bitmap[wi[t]] # bm[t]
               /\ Set(wi, t, wi[t] + 1) /\ Set(pc, t, "a_load")
               /\ UNCHANGED <<free_bitmap, bm, mine, intact>>
  /\ UNCHANGED <<allocated, peak_usage, av, pk, held, ops>>

(* while (bitmap != 0): claim the first set bit with a weak CAS of the     *)
(* whole word; on failure reload the word and retry.  An empty word moves  *)
(* the scan to the next one.                                               *)
AllocCas(t) ==
  /\ pc[t] = "a_cas"
  /\ IF bm[t] = {}
       THEN Set(wi, t, wi[t] + 1) /\ Set(pc, t, "a_load")
            /\ UNCHANGED <<free_bitmap, bm, mine, intact>>
       ELSE LET bit == Min(bm[t]) IN
            \/ /\ free_bitmap[wi[t]] = bm[t]
               /\ free_bitmap' = [free_bitmap EXCEPT ![wi[t]] = bm[t] \ {bit}]
               /\ Set(mine, t, wi[t] * WORD_BITS + bit)
               /\ Claimed(wi[t] * WORD_BITS + bit)
               /\ Set(pc, t, "a_add")  /\ UNCHANGED <<wi, bm>>
            \/ /\ free_bitmap[wi[t]] # bm[t]
               /\ Set(bm, t, free_bitmap[wi[t]])
               /\ UNCHANGED <<free_bitmap, pc, wi, mine, intact>>
  /\ UNCHANGED <<allocated, peak_usage, av, pk, held, ops>>

(* allocated = fetch_add (&pool->allocated, 1) + 1.                        *)
AllocAdd(t) ==
  /\ pc[t] = "a_add"
  /\ allocated' = (allocated + 1) % SizeMod
  /\ Set(av, t, (allocated + 1) % SizeMod) /\ Set(pc, t, "a_peak_load")
  /\ UNCHANGED <<free_bitmap, peak_usage, wi, bm, mine, pk, held, ops, intact>>

AllocPeakLoad(t) ==
  /\ pc[t] = "a_peak_load"
  /\ Set(pk, t, peak_usage) /\ Set(pc, t, "a_peak_cas")
  /\ UNCHANGED <<free_bitmap, allocated, peak_usage, wi, bm, mine, av, held,
                 ops, intact>>

(* alloc returns pool->buffers[index] to its caller.                       *)
AllocReturn(t) ==
  /\ Set(pc, t, "idle") /\ Set(held, t, held[t] \cup {mine[t]})
  /\ Set(mine, t, NoBuffer)

(* Mutation: a failed CAS of peak_usage gives up instead of retrying.     *)
AllocPeakCas_NoRetry(t) ==
  /\ pc[t] = "a_peak_cas"
  /\ IF av[t] > pk[t] /\ peak_usage = pk[t]
       THEN peak_usage' = av[t] ELSE UNCHANGED peak_usage
  /\ AllocReturn(t) /\ UNCHANGED pk
  /\ UNCHANGED <<free_bitmap, allocated, wi, bm, av, ops, intact>>

(* while (allocated > peak): weak CAS of peak_usage from peak to           *)
(* allocated; a failure loads the current peak into peak and loops.        *)
AllocPeakCas(t) ==
  /\ pc[t] = "a_peak_cas"
  /\ \/ /\ av[t] <= pk[t]
        /\ AllocReturn(t) /\ UNCHANGED <<peak_usage, pk>>
     \/ /\ av[t] > pk[t] /\ peak_usage = pk[t]
        /\ peak_usage' = av[t] /\ AllocReturn(t) /\ UNCHANGED pk
     \/ /\ av[t] > pk[t] /\ peak_usage # pk[t]
        /\ Set(pk, t, peak_usage) /\ UNCHANGED <<peak_usage, pc, held, mine>>
  /\ UNCHANGED <<free_bitmap, allocated, wi, bm, av, ops, intact>>

-----------------------------------------------------------------------------
(* hev_memory_pool_free (pool, ptr): the linear scan finds ptr's index.    *)
(* The caller passes a buffer it holds; a free of a buffer not allocated  *)
(* is caller misuse the pool does not detect, and is not modelled.        *)
FreeBuf(t, b) ==
  /\ pc[t] = "idle" /\ ops[t] < MaxOps /\ b \in held[t]
  /\ Set(held, t, held[t] \ {b}) /\ Set(mine, t, b)
  /\ Set(pc, t, "f_or") /\ Set(ops, t, ops[t] + 1)
  /\ UNCHANGED <<free_bitmap, allocated, peak_usage, wi, bm, av, pk, intact>>

FreeCall(t) == \E b \in held[t] : FreeBuf(t, b)

(* atomic_fetch_or of the buffer's bit (release).                          *)
FreeOr(t) ==
  /\ pc[t] = "f_or"
  /\ free_bitmap' = [free_bitmap EXCEPT ![WordOf(mine[t])] =
                       @ \cup {BitOf(mine[t])}]
  /\ Set(pc, t, "f_sub") /\ Set(mine, t, NoBuffer)
  /\ UNCHANGED <<allocated, peak_usage, wi, bm, av, pk, held, ops, intact>>

(* Mutation: free does not decrement allocated.                            *)
FreeSub_NoDecrement(t) ==
  /\ pc[t] = "f_sub"
  /\ Set(pc, t, "idle")
  /\ UNCHANGED <<free_bitmap, allocated, peak_usage, wi, bm, mine, av, pk, held,
                 ops, intact>>

(* atomic_fetch_sub (&pool->allocated, 1), whether or not the bit was      *)
(* already set.                                                            *)
FreeSub(t) ==
  /\ pc[t] = "f_sub"
  /\ allocated' = (allocated + SizeMod - 1) % SizeMod
  /\ Set(pc, t, "idle")
  /\ UNCHANGED <<free_bitmap, peak_usage, wi, bm, mine, av, pk, held, ops, intact>>

-----------------------------------------------------------------------------
(* After hev_memory_pool_new: no buffer lent, counters zero.               *)
Init ==
  /\ free_bitmap = [i \in Words |-> InitialWord(i)]
  /\ allocated = 0 /\ peak_usage = 0
  /\ pc = [t \in Threads |-> "idle"]
  /\ wi = [t \in Threads |-> 0] /\ bm = [t \in Threads |-> {}]
  /\ mine = [t \in Threads |-> NoBuffer]
  /\ av = [t \in Threads |-> 0] /\ pk = [t \in Threads |-> 0]
  /\ held = [t \in Threads |-> {}] /\ ops = [t \in Threads |-> 0]
  /\ intact = [t \in Threads |-> {}]

Next ==
  \E t \in Threads :
    \/ AllocCall(t) \/ AllocLoad(t) \/ AllocCas(t) \/ AllocAdd(t)
    \/ AllocPeakLoad(t) \/ AllocPeakCas(t)
    \/ FreeCall(t) \/ FreeOr(t) \/ FreeSub(t)

Spec == Init /\ [][Next]_vars

-----------------------------------------------------------------------------
Quiescent == \A t \in Threads : pc[t] = "idle"

TypeOK ==
  /\ free_bitmap \in [Words -> SUBSET (0..(WORD_BITS - 1))]
  /\ allocated \in 0..(SizeMod - 1) /\ peak_usage \in 0..(SizeMod - 1)
  /\ pc \in [Threads -> {"idle", "f_or", "f_sub"} \cup AllocPcs]
  /\ held \in [Threads -> SUBSET Buffers]
  /\ mine \in [Threads -> Buffers \cup {NoBuffer}]
  /\ ops \in [Threads -> 0..MaxOps]

(* A buffer is lent to at most one caller, and the bitmap marks it used    *)
(* while it is lent: the CAS on the whole word is what keeps two scans     *)
(* that loaded the same word from claiming the same bit.                   *)
ExclusiveLending ==
  \A t \in Threads :
    /\ \A b \in held[t] : BitOf(b) \notin free_bitmap[WordOf(b)]
    /\ \A u \in Threads \ {t} : held[t] \cap held[u] = {}

(* Buffer pool conservation (spec section 7): whenever no call is in       *)
(* progress, the free bits and allocated add up to the capacity.           *)
Conservation ==
  Quiescent =>
    MapThenSumSet(LAMBDA i : Cardinality(free_bitmap[i]), Words) + allocated
      = BUFFER_COUNT

(* alloc returns NULL only when no buffer stayed free for the whole call:  *)
(* the scan leaves a word only once it has seen it empty, and a failed CAS *)
(* reloads the word rather than moving on, so a buffer that is free from   *)
(* the call to the end of the scan is always claimed.  What the scan may   *)
(* miss is a buffer freed, during the call, in a word it has passed.       *)
NullOnlyWhenExhausted ==
  \A t \in Threads :
    pc[t] \in {"a_load", "a_cas"} => \A b \in intact[t] : WordOf(b) >= wi[t]

(* Whenever no call is in progress, peak_usage is at least allocated: the  *)
(* CAS loop of alloc leaves no increase of allocated unrecorded.           *)
PeakCoversAllocated == Quiescent => allocated <= peak_usage

====
