------------------------------- MODULE Tunnel -------------------------------
(***************************************************************************)
(* The tunnel orchestrator (src/src/hev-socks5-tunnel.c) composed with the *)
(* multi-threaded TUN I/O engine (src/src/hev-tunnel-io.c).                *)
(*                                                                         *)
(* Actors: the reader threads, the writer threads, the timer thread, the   *)
(* main thread that calls hev_socks5_tunnel_run and then                   *)
(* hev_socks5_tunnel_fini, and the caller of hev_socks5_tunnel_stop.  The  *)
(* embedded TCP/IP stack is abstracted to what it does to the engine: it   *)
(* consumes a datagram, may emit one through the netif output hook         *)
(* (hev_tunnel_io_write) and, for the datagram that completes a TCP        *)
(* handshake or opens a UDP flow, calls the accept or receive handler.     *)
(* A critical section that holds a mutex only inside one step is one       *)
(* atomic action; lwipHolder and cbHolder record a mutex that stays held   *)
(* across steps.                                                           *)
(***************************************************************************)
EXTENDS Naturals, Sequences, FiniteSets, Functions

CONSTANTS
  Readers,           \* reader thread ids (num_readers is 1 or 2)
  Writers,           \* writer thread ids (num_writers is 1 or 2)
  Inputs,            \* kinds of datagram the TUN fd yields, see Kinds
  WRITE_QUEUE_SIZE,  \* hev-tunnel-io.c:23 (4096), scaled down
  WRITE_BATCH_SIZE,  \* hev-tunnel-io.c:25 (16), scaled down
  MaxReads,          \* bound: datagrams read from the TUN fd
  MaxOutputs,        \* bound: datagrams emitted by the stack
  StopOnMainThread,  \* TRUE: stop() runs as a signal handler on the main thread
  NoThread           \* model value: no thread holds the mutex

(* Plain: handled by the stack without calling back into this code;       *)
(* TcpAccept: completes a handshake, the stack calls tcp_accept_handler;   *)
(* UdpFlow / DnsQuery: the stack calls udp_recv_handler, for a DnsQuery     *)
(* the destination is the mapped-DNS anycast address and port.             *)
Kinds == {"Plain", "TcpAccept", "UdpFlow", "DnsQuery"}

ASSUME /\ Readers # {} /\ Writers # {} /\ Readers \cap Writers = {}
       /\ Inputs \subseteq Kinds /\ Inputs # {}
       /\ WRITE_QUEUE_SIZE \in Nat \ {0} /\ WRITE_BATCH_SIZE \in Nat \ {0}
       /\ MaxReads \in Nat /\ MaxOutputs \in Nat
       /\ StopOnMainThread \in BOOLEAN

Threads == Readers \cup Writers \cup {"timer", "main", "stopper"}

VARIABLES
  run,         \* static volatile int run (hev-socks5-tunnel.c:41)
  ioRunning,   \* io->running (hev-tunnel-io.c:39)
  io,          \* the HevTunnelIO object: "live", "freed", then tunnel_io = NULL
  pc,          \* program counter of every thread
  kind,        \* kind of the datagram a reader is handing to the stack
  lwipHolder,  \* lwip_mutex, when held across steps
  cbHolder,    \* io->callback_mutex, when held across steps
  wq,          \* the write queue: packet ids, head first
  batch,       \* batch[w]: the nodes writer w took off the queue
  tun,         \* datagrams written to the TUN fd, as <<writer, packet>>
  dropped,     \* packets a failed TUN write dropped
  refused,     \* packets hev_tunnel_io_write refused (queue full)
  freed,       \* packets freed from the queue by hev_tunnel_io_destroy
  nextPkt,     \* id of the next packet the stack emits
  reads,       \* datagrams read from the TUN fd so far
  uaf,         \* history: some thread dereferenced the freed HevTunnelIO
  stopEarly    \* history: stop() was called before run() set run = 1

vars == <<run, ioRunning, io, pc, kind, lwipHolder, cbHolder, wq, batch, tun,
          dropped, refused, freed, nextPkt, reads, uaf, stopEarly>>

(* A thread that dereferences io records a use after free when io is freed. *)
Deref == uaf' = (uaf \/ io = "freed")

Move(t, to) == pc' = [pc EXCEPT ![t] = to]

-----------------------------------------------------------------------------
(* Mutation: the queue-full test of hev_tunnel_io_write off by one.       *)
hev_tunnel_io_write_OffByOne ==
  /\ nextPkt <= MaxOutputs
  /\ IF io = "null"
       THEN refused' = refused \cup {nextPkt} /\ UNCHANGED wq
       ELSE IF Len(wq) > WRITE_QUEUE_SIZE
            THEN refused' = refused \cup {nextPkt} /\ UNCHANGED wq
            ELSE wq' = Append(wq, nextPkt) /\ UNCHANGED refused
  /\ nextPkt' = nextPkt + 1

(* netif_output_handler -> hev_tunnel_io_write: a packet the stack emits   *)
(* while the caller holds lwip_mutex.  A NULL tunnel_io returns -1; a full *)
(* queue drops the added reference; otherwise the node is appended.        *)
hev_tunnel_io_write ==
  /\ nextPkt <= MaxOutputs
  /\ IF io = "null"
       THEN refused' = refused \cup {nextPkt} /\ UNCHANGED wq
       ELSE IF Len(wq) >= WRITE_QUEUE_SIZE
            THEN refused' = refused \cup {nextPkt} /\ UNCHANGED wq
            ELSE wq' = Append(wq, nextPkt) /\ UNCHANGED refused
  /\ nextPkt' = nextPkt + 1

(* The stack may or may not emit a datagram while it runs; the caller     *)
(* records its own dereference of io.                                      *)
StackRuns == hev_tunnel_io_write \/ UNCHANGED <<wq, refused, nextPkt>>

-----------------------------------------------------------------------------
(* reader_thread: the loop test reads io->running.                         *)
ReaderExit(r) ==
  /\ pc[r] = "r_top" /\ ~ioRunning
  /\ Move(r, "r_done") /\ Deref
  /\ UNCHANGED <<run, ioRunning, io, kind, lwipHolder, cbHolder, wq, batch,
                 tun, dropped, refused, freed, nextPkt, reads, stopEarly>>

(* The read buffer's malloc fails, or read() fails with an errno other    *)
(* than EAGAIN/EWOULDBLOCK/EINTR: the reader ends.  EAGAIN, EINTR and a    *)
(* zero read only go round the loop again and change nothing.              *)
ReaderReadError(r) ==
  /\ pc[r] = "r_top" /\ ioRunning
  /\ Move(r, "r_done") /\ Deref
  /\ UNCHANGED <<run, ioRunning, io, kind, lwipHolder, cbHolder, wq, batch,
                 tun, dropped, refused, freed, nextPkt, reads, stopEarly>>

(* A datagram is read.  pbuf_alloc may fail (the datagram is dropped);     *)
(* otherwise the reader goes on to invoke the read callback.               *)
ReaderRead(r) ==
  /\ pc[r] = "r_top" /\ ioRunning /\ reads < MaxReads
  /\ reads' = reads + 1 /\ Deref
  /\ \/ UNCHANGED <<pc, kind>>
     \/ \E k \in Inputs : kind' = [kind EXCEPT ![r] = k] /\ Move(r, "r_cb")
  /\ UNCHANGED <<run, ioRunning, io, lwipHolder, cbHolder, wq, batch, tun,
                 dropped, refused, freed, nextPkt, stopEarly>>

(* What a handler does before it returns to the stack: "return", or       *)
(* "relock" when it reaches pthread_mutex_lock(&lwip_mutex).               *)
(* tcp_accept_handler: !run answers ERR_RST, otherwise it locks.           *)
tcp_accept_handler == IF run = 0 THEN {"return"} ELSE {"relock"}

(* udp_recv_handler: !run frees and removes the pcb; a query to the        *)
(* mapped-DNS address locks only if the 512-byte reply pbuf_alloc          *)
(* succeeds; any other datagram locks to create the UDP session.           *)
udp_recv_handler(k) ==
  CASE run = 0         -> {"return"}
    [] k = "DnsQuery"  -> {"return", "relock"}
    [] OTHER           -> {"relock"}

(* packet_read_callback: lock lwip_mutex, netif.input, which hands a       *)
(* handshake-completing segment to the accept handler and a datagram of a  *)
(* new flow to the receive handler.                                        *)
packet_read_callback(k) ==
  CASE k = "Plain"     -> {"return"}
    [] k = "TcpAccept" -> tcp_accept_handler
    [] OTHER           -> udp_recv_handler(k)

(* Under io->callback_mutex the reader calls the read callback.  When the  *)
(* handler returns, the stack may emit a datagram (an ACK, a reset) and    *)
(* both mutexes are released.  A handler that relocks goes on holding      *)
(* both mutexes and waits for lwip_mutex, which nothing will release.      *)
ReaderCallback(r) ==
  /\ pc[r] = "r_cb" /\ cbHolder = NoThread /\ lwipHolder = NoThread
  /\ Deref
  /\ \E o \in packet_read_callback(kind[r]) :
       IF o = "return"
         THEN /\ StackRuns
              /\ Move(r, "r_top")
              /\ UNCHANGED <<lwipHolder, cbHolder>>
         ELSE /\ lwipHolder' = r /\ cbHolder' = r
              /\ Move(r, "r_relock")
              /\ UNCHANGED <<wq, refused, nextPkt>>
  /\ UNCHANGED <<run, ioRunning, io, kind, batch, tun, dropped, freed, reads,
                 stopEarly>>

-----------------------------------------------------------------------------
(* writer_thread: loop while io->running || io->write_queue_size > 0.      *)
WriterLoop(w) ==
  /\ pc[w] = "w_top"
  /\ Deref
  /\ IF ioRunning \/ wq # <<>> THEN Move(w, "w_take") ELSE Move(w, "w_done")
  /\ UNCHANGED <<run, ioRunning, io, kind, lwipHolder, cbHolder, wq, batch,
                 tun, dropped, refused, freed, nextPkt, reads, stopEarly>>

(* Under write_mutex: the timed wait ends once the queue is non-empty or   *)
(* running is clear; then up to WRITE_BATCH_SIZE nodes leave the head.     *)
WriterTake(w) ==
  /\ pc[w] = "w_take" /\ (wq # <<>> \/ ~ioRunning)
  /\ Deref
  /\ LET n == IF Len(wq) < WRITE_BATCH_SIZE THEN Len(wq) ELSE WRITE_BATCH_SIZE
     IN /\ batch' = [batch EXCEPT ![w] = SubSeq(wq, 1, n)]
        /\ wq' = SubSeq(wq, n + 1, Len(wq))
  /\ Move(w, "w_write")
  /\ UNCHANGED <<run, ioRunning, io, kind, lwipHolder, cbHolder, tun, dropped,
                 refused, freed, nextPkt, reads, stopEarly>>

(* Mutation: the batch is written from its last node to its first.       *)
WriterWrite_Reversed(w) ==
  /\ pc[w] = "w_write"
  /\ Deref
  /\ IF batch[w] = <<>>
       THEN Move(w, "w_top") /\ UNCHANGED <<batch, tun, dropped>>
       ELSE LET n == Len(batch[w]) IN
            /\ batch' = [batch EXCEPT ![w] = SubSeq(@, 1, n - 1)]
            /\ \/ tun' = Append(tun, <<w, batch[w][n]>>) /\ UNCHANGED dropped
               \/ dropped' = dropped \cup {batch[w][n]} /\ UNCHANGED tun
            /\ UNCHANGED pc
  /\ UNCHANGED <<run, ioRunning, io, kind, lwipHolder, cbHolder, wq, refused,
                 freed, nextPkt, reads, stopEarly>>

(* One node of the batch: write() succeeds or fails; the pbuf and the node *)
(* are freed either way.                                                   *)
WriterWrite(w) ==
  /\ pc[w] = "w_write"
  /\ Deref
  /\ IF batch[w] = <<>>
       THEN Move(w, "w_top") /\ UNCHANGED <<batch, tun, dropped>>
       ELSE /\ batch' = [batch EXCEPT ![w] = Tail(@)]
            /\ \/ tun' = Append(tun, <<w, Head(batch[w])>>) /\ UNCHANGED dropped
               \/ dropped' = dropped \cup {Head(batch[w])} /\ UNCHANGED tun
            /\ UNCHANGED pc
  /\ UNCHANGED <<run, ioRunning, io, kind, lwipHolder, cbHolder, wq, refused,
                 freed, nextPkt, reads, stopEarly>>

-----------------------------------------------------------------------------
(* Mutation: the timer loop does not test run.                           *)
TimerLoop_IgnoresRun ==
  /\ pc["timer"] = "t_top"
  /\ Move("timer", "t_tick")
  /\ UNCHANGED <<run, ioRunning, io, kind, lwipHolder, cbHolder, wq, batch, tun,
                 dropped, refused, freed, nextPkt, reads, uaf, stopEarly>>

(* timer_thread_func: while (run) { usleep; lock; tcp_tmr and, every       *)
(* fourth tick, the reassembly and ND timers; unlock }.                    *)
TimerLoop ==
  /\ pc["timer"] = "t_top"
  /\ Move("timer", IF run = 1 THEN "t_tick" ELSE "t_done")
  /\ UNCHANGED <<run, ioRunning, io, kind, lwipHolder, cbHolder, wq, batch, tun,
                 dropped, refused, freed, nextPkt, reads, uaf, stopEarly>>

TimerTick ==
  /\ pc["timer"] = "t_tick" /\ lwipHolder = NoThread
  /\ StackRuns /\ Deref
  /\ Move("timer", "t_top")
  /\ UNCHANGED <<run, ioRunning, io, kind, lwipHolder, cbHolder, batch, tun,
                 dropped, freed, reads, stopEarly>>

-----------------------------------------------------------------------------
(* With StopOnMainThread, stop() runs inside the main thread, which makes  *)
(* no step of its own until the handler returns.                           *)
MainMayStep ==
  ~StopOnMainThread \/ pc["stopper"] \in {"s_idle", "s_done"}

(* hev_socks5_tunnel_run: run = 1, create the timer thread.                *)
RunStart ==
  /\ pc["main"] = "m_init" /\ MainMayStep
  /\ run' = 1
  /\ pc' = [pc EXCEPT !["main"] = "m_io_start", !["timer"] = "t_top"]
  /\ UNCHANGED <<ioRunning, io, kind, lwipHolder, cbHolder, wq, batch, tun,
                 dropped, refused, freed, nextPkt, reads, uaf, stopEarly>>

(* hev_tunnel_io_start: running = 1, create the readers and the writers.   *)
IoStart ==
  /\ pc["main"] = "m_io_start" /\ MainMayStep
  /\ ioRunning' = TRUE
  /\ pc' = [t \in Threads |->
              CASE t \in Readers -> "r_top"
                [] t \in Writers -> "w_top"
                [] t = "main"    -> "m_join_timer"
                [] OTHER         -> pc[t]]
  /\ Deref
  /\ UNCHANGED <<run, io, kind, lwipHolder, cbHolder, wq, batch, tun, dropped,
                 refused, freed, nextPkt, reads, stopEarly>>

(* Mutation: hev_tunnel_io_destroy frees without calling                 *)
(* hev_tunnel_io_stop, so nothing joins the readers and writers.          *)
MainFiniStop_NoJoin ==
  /\ pc["main"] = "m_join_timer" /\ MainMayStep /\ pc["timer"] = "t_done"
  /\ Deref
  /\ ioRunning' = FALSE /\ Move("main", "m_free")
  /\ UNCHANGED <<run, io, kind, lwipHolder, cbHolder, wq, batch, tun, dropped,
                 refused, freed, nextPkt, reads, stopEarly>>

(* pthread_join(timer_thread), then hev_socks5_tunnel_fini starts with     *)
(* hev_tunnel_io_destroy, whose hev_tunnel_io_stop returns at once when    *)
(* io->running is already clear.                                           *)
MainFiniStop ==
  /\ pc["main"] = "m_join_timer" /\ MainMayStep /\ pc["timer"] = "t_done"
  /\ Deref
  /\ IF ioRunning
       THEN ioRunning' = FALSE /\ Move("main", "m_join_readers")
       ELSE Move("main", "m_free") /\ UNCHANGED ioRunning
  /\ UNCHANGED <<run, io, kind, lwipHolder, cbHolder, wq, batch, tun, dropped,
                 refused, freed, nextPkt, reads, stopEarly>>

AllDone(S) == \A t \in S : pc[t] = "r_done" \/ pc[t] = "w_done"

MainJoinReaders ==
  /\ pc["main"] = "m_join_readers" /\ MainMayStep /\ AllDone(Readers)
  /\ Deref /\ Move("main", "m_join_writers")
  /\ UNCHANGED <<run, ioRunning, io, kind, lwipHolder, cbHolder, wq, batch, tun,
                 dropped, refused, freed, nextPkt, reads, stopEarly>>

MainJoinWriters ==
  /\ pc["main"] = "m_join_writers" /\ MainMayStep /\ AllDone(Writers)
  /\ Deref /\ Move("main", "m_free")
  /\ UNCHANGED <<run, ioRunning, io, kind, lwipHolder, cbHolder, wq, batch, tun,
                 dropped, refused, freed, nextPkt, reads, stopEarly>>

(* Mutation: hev_tunnel_io_destroy unlinks the queue without freeing it.  *)
MainFree_LeaksQueue ==
  /\ pc["main"] = "m_free" /\ MainMayStep
  /\ wq' = <<>>
  /\ io' = "freed"
  /\ Move("main", "m_null")
  /\ UNCHANGED <<run, ioRunning, kind, lwipHolder, cbHolder, batch, tun,
                 dropped, refused, freed, nextPkt, reads, uaf, stopEarly>>

(* hev_tunnel_io_destroy frees the nodes left in the queue and the object. *)
MainFree ==
  /\ pc["main"] = "m_free" /\ MainMayStep
  /\ freed' = freed \cup {wq[i] : i \in DOMAIN wq}
  /\ wq' = <<>>
  /\ io' = "freed"
  /\ Move("main", "m_null")
  /\ UNCHANGED <<run, ioRunning, kind, lwipHolder, cbHolder, batch, tun,
                 dropped, refused, nextPkt, reads, uaf, stopEarly>>

(* tunnel_io = NULL; the thread pool, mapped DNS, gateway and TUN device   *)
(* are torn down after it and touch nothing modelled here.                 *)
MainNull ==
  /\ pc["main"] = "m_null" /\ MainMayStep
  /\ io' = "null"
  /\ Move("main", "m_done")
  /\ UNCHANGED <<run, ioRunning, kind, lwipHolder, cbHolder, wq, batch, tun,
                 dropped, refused, freed, nextPkt, reads, uaf, stopEarly>>

-----------------------------------------------------------------------------
(* hev_socks5_tunnel_stop, called once: run = 0, then hev_tunnel_io_stop   *)
(* when tunnel_io is not NULL, which returns at once unless io->running.   *)
StopBegin ==
  /\ pc["stopper"] = "s_idle"
  /\ run' = 0
  /\ stopEarly' = (pc["main"] = "m_init")
  /\ IF io = "null"
       THEN Move("stopper", "s_done") /\ UNCHANGED <<ioRunning, uaf>>
       ELSE /\ Deref
            /\ IF ioRunning
                 THEN ioRunning' = FALSE /\ Move("stopper", "s_join_readers")
                 ELSE Move("stopper", "s_done") /\ UNCHANGED ioRunning
  /\ UNCHANGED <<io, kind, lwipHolder, cbHolder, wq, batch, tun, dropped,
                 refused, freed, nextPkt, reads>>

StopJoinReaders ==
  /\ pc["stopper"] = "s_join_readers" /\ AllDone(Readers)
  /\ Deref /\ Move("stopper", "s_join_writers")
  /\ UNCHANGED <<run, ioRunning, io, kind, lwipHolder, cbHolder, wq, batch, tun,
                 dropped, refused, freed, nextPkt, reads, stopEarly>>

StopJoinWriters ==
  /\ pc["stopper"] = "s_join_writers" /\ AllDone(Writers)
  /\ Deref /\ Move("stopper", "s_done")
  /\ UNCHANGED <<run, ioRunning, io, kind, lwipHolder, cbHolder, wq, batch, tun,
                 dropped, refused, freed, nextPkt, reads, stopEarly>>

-----------------------------------------------------------------------------
(* After hev_socks5_tunnel_init: the TUN fd, the gateway and the I/O       *)
(* object exist, no thread of the engine has been started.                *)
(* hev_tunnel_io_new: a zeroed object (running = 0), an empty write queue *)
(* and free mutexes; its reader and writer threads are created later, by   *)
(* hev_tunnel_io_start.                                                    *)
IoNew ==
  /\ ioRunning = FALSE /\ io = "live"
  /\ cbHolder = NoThread
  /\ wq = <<>> /\ batch = [w \in Writers |-> <<>>]

Init ==
  /\ run = 0 /\ IoNew
  /\ pc = [t \in Threads |->
             CASE t = "main" -> "m_init" [] t = "stopper" -> "s_idle"
               [] OTHER -> "unstarted"]
  /\ kind = [r \in Readers |-> "Plain"]
  /\ lwipHolder = NoThread /\ tun = <<>>
  /\ dropped = {} /\ refused = {} /\ freed = {}
  /\ nextPkt = 1 /\ reads = 0 /\ uaf = FALSE /\ stopEarly = FALSE

Terminated == pc["main"] = "m_done" /\ pc["stopper"] = "s_done"

Next ==
  \/ \E r \in Readers : ReaderExit(r) \/ ReaderReadError(r) \/ ReaderRead(r)
                        \/ ReaderCallback(r)
  \/ \E w \in Writers : WriterLoop(w) \/ WriterTake(w) \/ WriterWrite(w)
  \/ TimerLoop \/ TimerTick
  \/ RunStart \/ IoStart \/ MainFiniStop \/ MainJoinReaders
  \/ MainJoinWriters \/ MainFree \/ MainNull
  \/ StopBegin \/ StopJoinReaders \/ StopJoinWriters
  \/ Terminated /\ UNCHANGED vars

(* Every thread is an OS thread the scheduler keeps running; the caller of *)
(* stop() is not obliged to call it, so StopBegin has no fairness.         *)
Fairness ==
  /\ \A r \in Readers : WF_vars(ReaderExit(r) \/ ReaderRead(r) \/ ReaderCallback(r))
  /\ \A w \in Writers : WF_vars(WriterLoop(w) \/ WriterTake(w) \/ WriterWrite(w))
  /\ WF_vars(TimerLoop \/ TimerTick)
  /\ WF_vars(RunStart \/ IoStart \/ MainFiniStop \/ MainJoinReaders
             \/ MainJoinWriters \/ MainFree \/ MainNull)
  /\ WF_vars(StopJoinReaders \/ StopJoinWriters)

Spec == Init /\ [][Next]_vars /\ Fairness

-----------------------------------------------------------------------------
TypeOK ==
  /\ run \in {0, 1} /\ ioRunning \in BOOLEAN /\ io \in {"live", "freed", "null"}
  /\ kind \in [Readers -> Kinds]
  /\ lwipHolder \in Readers \cup {NoThread} /\ cbHolder \in Readers \cup {NoThread}
  /\ wq \in Seq(1..MaxOutputs) /\ Len(wq) <= WRITE_QUEUE_SIZE
  /\ batch \in [Writers -> Seq(1..MaxOutputs)]
  /\ tun \in Seq(Writers \X (1..MaxOutputs))
  /\ dropped \cup refused \cup freed \subseteq 1..MaxOutputs
  /\ nextPkt \in 1..(MaxOutputs + 1) /\ reads \in 0..MaxReads
  /\ uaf \in BOOLEAN /\ stopEarly \in BOOLEAN

(* No thread that holds lwip_mutex asks for it again: the handlers the     *)
(* stack calls from netif.input (packet_read_callback, which holds it)     *)
(* must not lock it (spec section 5, "the stack lock is non-reentrant").   *)
NoStackReentry ==
  \A t \in Readers : pc[t] = "r_relock" => lwipHolder # t

(* Ownership of the packets the stack emitted: each is, exactly once, in   *)
(* the write queue, in one writer's batch, written to the TUN fd, dropped  *)
(* by a failed write, refused at a full queue, or freed by                 *)
(* hev_tunnel_io_destroy -- none lost, none released twice.                *)
PacketsAccountedFor ==
  LET inBatches == UNION {Range(batch[w]) : w \in Writers}
      written   == {tun[i][2] : i \in DOMAIN tun}
      count     == Len(wq) + Len(tun) + Cardinality(dropped)
                   + Cardinality(refused) + Cardinality(freed)
                   + SumFunction([w \in Writers |-> Len(batch[w])])
  IN /\ Range(wq) \cup inBatches \cup written \cup dropped \cup refused \cup freed
          = 1..(nextPkt - 1)
     /\ count = nextPkt - 1

(* Every writer puts the packets it dequeued on the TUN fd in the order    *)
(* hev_tunnel_io_write queued them (the per-batch FIFO of spec section 5). *)
PerWriterFifo ==
  \A i, j \in DOMAIN tun :
    i < j /\ tun[i][1] = tun[j][1] => tun[i][2] < tun[j][2]

(* No thread dereferences the HevTunnelIO object after                     *)
(* hev_tunnel_io_destroy freed it: every reader and writer has been joined *)
(* and no stop() is still inside it.                                       *)
NoUseAfterFree == ~uaf

(* A stop() issued once run() has begun ends with the engine torn down:    *)
(* readers and writers joined, the timer joined, fini finished.            *)
StopAfterRunTerminates ==
  (pc["stopper"] = "s_done" /\ ~stopEarly) ~> Terminated
=============================================================================
