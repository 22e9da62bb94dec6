------------------------------ MODULE Sessions ------------------------------
(***************************************************************************)
(* The life of a proxied flow in src/src/hev-socks5-tunnel.c: the lwIP    *)
(* handler that accepts it (tcp_accept_handler, udp_recv_handler), the     *)
(* session registry (insert_session, remove_session, session_mutex), the   *)
(* worker of the thread pool that runs it (session_task_wrapper), the      *)
(* packets the session sends back through netif_output_handler into the    *)
(* tunnel I/O, and the teardown in stop() and hev_socks5_tunnel_fini.      *)
(*                                                                         *)
(* Handlers run on the reader threads one at a time (callback_mutex), so   *)
(* one dispatcher process stands for them.  The thread pool is abstracted  *)
(* to its queue and its workers' loop: ThreadPool checks its condition-    *)
(* variable protocol.  What a session does between its packets is code     *)
(* outside src/: it sends at most MaxOutputs packets and then ends.        *)
(***************************************************************************)
EXTENDS Naturals, Sequences, SequencesExt

CONSTANTS
  Flows,           \* the flows (sessions) lwIP may hand to a handler
  Workers,         \* worker threads of the thread pool
  MAX_QUEUE_SIZE,  \* the pool's queue bound (scaled down from 10000)
  MaxOutputs,      \* bound: packets one session sends
  NULL             \* the value of tunnel_io once fini has cleared it

ASSUME /\ IsFiniteSet(Flows) /\ Workers # {}
       /\ MAX_QUEUE_SIZE \in Nat \ {0} /\ MaxOutputs \in Nat

VARIABLES
  run,        \* the global run flag
  ioState,    \* the HevTunnelIO object: "running", "stopped" or "freed"
  tunnel_io,  \* the global pointer to it: "io" or NULL
  pending,    \* flows lwIP has not yet handed to a handler
  dpc, dcur,  \* the dispatcher (reader thread in a handler): pc, flow
  reg,        \* the session list, head first
  queue,      \* the thread pool's work queue of session tasks
  shutdown,   \* the pool's shutdown flag
  wpc, wcur,  \* each worker's pc and the session it runs
  wouts,      \* packets the running session of each worker has sent
  mpc,        \* the main thread: run(), stop() and fini()
  finished,   \* history: sessions whose task has completed
  uaf         \* history: a session wrote through a freed tunnel_io

vars == <<run, ioState, tunnel_io, pending, dpc, dcur, reg, queue, shutdown,
          wpc, wcur, wouts, mpc, finished, uaf>>

disp == <<dpc, dcur>>
pool == <<queue, shutdown, wpc, wcur, wouts>>

Init ==
  /\ run = TRUE /\ ioState = "running" /\ tunnel_io = "io"
  /\ pending = Flows
  /\ dpc = "idle" /\ dcur = NULL
  /\ reg = <<>> /\ queue = <<>> /\ shutdown = FALSE
  /\ wpc = [w \in Workers |-> "w_idle"]
  /\ wcur = [w \in Workers |-> NULL]
  /\ wouts = [w \in Workers |-> 0]
  /\ mpc = "m_running"
  /\ finished = {} /\ uaf = FALSE

(***************************************************************************)
(* The dispatcher: tcp_accept_handler / udp_recv_handler.                  *)
(***************************************************************************)

\* A reader, while io->running, hands a flow to a handler.  The handler
\* rejects it when !run; otherwise hev_socks5_session_*_new may fail
\* (ERR_MEM); otherwise it goes on to allocate the task data.
HandlerStart ==
  /\ dpc = "idle" /\ ioState = "running"
  /\ \E f \in pending :
       /\ pending' = pending \ {f}
       /\ IF run
            THEN \/ dpc' = "d_task" /\ dcur' = f
                 \/ UNCHANGED disp
            ELSE UNCHANGED disp
  /\ UNCHANGED <<run, ioState, tunnel_io, reg, pool, mpc, finished, uaf>>

\* malloc of the SessionTaskData: on failure the handler returns (the TCP
\* session object is leaked, the UDP pcb removed).
HandlerTaskAlloc ==
  /\ dpc = "d_task"
  /\ \/ dpc' = "d_insert" /\ UNCHANGED dcur
     \/ dpc' = "idle" /\ dcur' = NULL
  /\ UNCHANGED <<run, ioState, tunnel_io, pending, reg, pool, mpc,
                 finished, uaf>>

\* insert_session: a node is appended under session_mutex, or, when its
\* malloc fails, the session is not tracked at all.
insert_session ==
  /\ dpc = "d_insert"
  /\ \/ reg' = Append(reg, dcur)
     \/ UNCHANGED reg
  /\ dpc' = "d_submit"
  /\ UNCHANGED <<dcur, run, ioState, tunnel_io, pending, pool, mpc, finished,
                 uaf>>

\* A bug in the failure path: the session stays registered.
HandlerSubmit_NoRemove ==
  /\ dpc = "d_submit"
  /\ \/ /\ Len(queue) < MAX_QUEUE_SIZE
        /\ queue' = Append(queue, dcur)
     \/ UNCHANGED queue
  /\ dpc' = "idle" /\ dcur' = NULL
  /\ UNCHANGED <<run, ioState, tunnel_io, pending, reg, shutdown, wpc, wcur,
                 wouts, mpc, finished, uaf>>

\* A bug in submit: the queue_size limit not tested.
HandlerSubmit_NoLimit ==
  /\ dpc = "d_submit"
  /\ \/ /\ queue' = Append(queue, dcur)
        /\ dpc' = "idle" /\ dcur' = NULL
     \/ /\ dpc' = "d_remove"
        /\ UNCHANGED <<queue, dcur>>
  /\ UNCHANGED <<run, ioState, tunnel_io, pending, reg, shutdown, wpc, wcur,
                 wouts, mpc, finished, uaf>>

\* hev_thread_pool_submit: the item is queued (and a worker signalled), or
\* submit fails (malloc, or queue_size >= MAX_QUEUE_SIZE) and the handler
\* goes on to remove_session.
HandlerSubmit ==
  /\ dpc = "d_submit"
  /\ \/ /\ Len(queue) < MAX_QUEUE_SIZE
        /\ queue' = Append(queue, dcur)
        /\ dpc' = "idle" /\ dcur' = NULL
     \/ /\ dpc' = "d_remove"
        /\ UNCHANGED <<queue, dcur>>
  /\ UNCHANGED <<run, ioState, tunnel_io, pending, reg, shutdown, wpc, wcur,
                 wouts, mpc, finished, uaf>>

\* remove_session: under session_mutex, unlink the first node of session s.
Unlinked(s) ==
  IF Contains(reg, s) THEN RemoveFirst(reg, s) ELSE reg

\* The submit failure path: remove_session, free the task data, return.
HandlerRemove ==
  /\ dpc = "d_remove"
  /\ reg' = Unlinked(dcur)
  /\ dpc' = "idle" /\ dcur' = NULL
  /\ UNCHANGED <<run, ioState, tunnel_io, pending, pool, mpc, finished, uaf>>

(***************************************************************************)
(* The workers of the thread pool running session_task_wrapper.            *)
(***************************************************************************)

\* worker_thread takes the head of the queue.
WorkerTake(w) ==
  /\ wpc[w] = "w_idle" /\ queue # <<>>
  /\ wcur' = [wcur EXCEPT ![w] = Head(queue)]
  /\ queue' = Tail(queue)
  /\ wpc' = [wpc EXCEPT ![w] = "w_session"]
  /\ wouts' = [wouts EXCEPT ![w] = 0]
  /\ UNCHANGED <<run, ioState, tunnel_io, pending, disp, reg, shutdown, mpc,
                 finished, uaf>>

\* A bug in the worker loop: leaving on shutdown with work still queued.
WorkerExit_Early(w) ==
  /\ wpc[w] = "w_idle" /\ shutdown
  /\ wpc' = [wpc EXCEPT ![w] = "exited"]
  /\ UNCHANGED <<run, ioState, tunnel_io, pending, disp, reg, queue, shutdown,
                 wcur, wouts, mpc, finished, uaf>>

\* worker_thread leaves its loop when shutdown is set and the queue is empty.
WorkerExit(w) ==
  /\ wpc[w] = "w_idle" /\ shutdown /\ queue = <<>>
  /\ wpc' = [wpc EXCEPT ![w] = "exited"]
  /\ UNCHANGED <<run, ioState, tunnel_io, pending, disp, reg, queue, shutdown,
                 wcur, wouts, mpc, finished, uaf>>

\* The session sends a packet: lwIP calls netif_output_handler, which
\* passes the global tunnel_io to hev_tunnel_io_write.  NULL makes the write
\* fail (-1); a freed object is written through.
SessionOutput(w) ==
  /\ wpc[w] = "w_session" /\ wouts[w] < MaxOutputs
  /\ wouts' = [wouts EXCEPT ![w] = wouts[w] + 1]
  /\ uaf' = (uaf \/ (tunnel_io = "io" /\ ioState = "freed"))
  /\ UNCHANGED <<run, ioState, tunnel_io, pending, disp, reg, queue, shutdown,
                 wpc, wcur, mpc, finished>>

\* hev_socks5_session_run returns; session_task_wrapper calls
\* remove_session and frees its task data; the worker loops.
SessionEnd(w) ==
  /\ wpc[w] = "w_session"
  /\ reg' = Unlinked(wcur[w])
  /\ finished' = finished \cup {wcur[w]}
  /\ wpc' = [wpc EXCEPT ![w] = "w_idle"]
  /\ wcur' = [wcur EXCEPT ![w] = NULL]
  /\ UNCHANGED <<run, ioState, tunnel_io, pending, disp, queue, shutdown,
                 wouts, mpc, uaf>>

(***************************************************************************)
(* The main thread: stop(), then run() returns and fini() tears down.      *)
(***************************************************************************)

\* hev_socks5_tunnel_stop: run = 0.
StopRun ==
  /\ mpc = "m_running"
  /\ run' = FALSE
  /\ mpc' = "m_io_stop"
  /\ UNCHANGED <<ioState, tunnel_io, pending, disp, reg, pool, finished, uaf>>

\* hev_tunnel_io_stop: io->running = 0; readers leave their loop.
StopIo ==
  /\ mpc = "m_io_stop"
  /\ ioState' = "stopped"
  /\ mpc' = "m_join_readers"
  /\ UNCHANGED <<run, tunnel_io, pending, disp, reg, pool, finished, uaf>>

\* hev_tunnel_io_stop joins the reader threads: a reader in a handler
\* finishes it first.
JoinReaders ==
  /\ mpc = "m_join_readers" /\ dpc = "idle"
  /\ dpc' = "exited"
  /\ mpc' = "m_io_destroy"
  /\ UNCHANGED <<dcur, run, ioState, tunnel_io, pending, reg, pool, finished,
                 uaf>>

\* fini: hev_tunnel_io_destroy frees the write queue and the object.
IoDestroy ==
  /\ mpc = "m_io_destroy"
  /\ ioState' = "freed"
  /\ mpc' = "m_io_null"
  /\ UNCHANGED <<run, tunnel_io, pending, disp, reg, pool, finished, uaf>>

\* fini: tunnel_io = NULL.
IoNull ==
  /\ mpc = "m_io_null"
  /\ tunnel_io' = NULL
  /\ mpc' = "m_pool_shutdown"
  /\ UNCHANGED <<run, ioState, pending, disp, reg, pool, finished, uaf>>

\* hev_thread_pool_destroy: shutdown = 1 and broadcast queue_cond.
PoolShutdown ==
  /\ mpc = "m_pool_shutdown"
  /\ shutdown' = TRUE
  /\ mpc' = "m_pool_join"
  /\ UNCHANGED <<run, ioState, tunnel_io, pending, disp, reg, queue, wpc, wcur,
                 wouts, finished, uaf>>

\* hev_thread_pool_destroy joins every worker, then frees what is left in
\* the queue without running it.
PoolJoin ==
  /\ mpc = "m_pool_join"
  /\ \A w \in Workers : wpc[w] = "exited"
  /\ queue' = <<>>
  /\ mpc' = "m_clear"
  /\ UNCHANGED <<run, ioState, tunnel_io, pending, disp, reg, shutdown, wpc,
                 wcur, wouts, finished, uaf>>

\* fini clears the session list under session_mutex, session_count = 0.
ClearSessions ==
  /\ mpc = "m_clear"
  /\ reg' = <<>>
  /\ mpc' = "m_done"
  /\ UNCHANGED <<run, ioState, tunnel_io, pending, disp, pool, finished, uaf>>

Done == mpc = "m_done"

Next ==
  \/ HandlerStart \/ HandlerTaskAlloc \/ insert_session \/ HandlerSubmit
  \/ HandlerRemove
  \/ \E w \in Workers :
       WorkerTake(w) \/ WorkerExit(w) \/ SessionOutput(w) \/ SessionEnd(w)
  \/ StopRun \/ StopIo \/ JoinReaders \/ IoDestroy \/ IoNull \/ PoolShutdown \/ PoolJoin
  \/ ClearSessions
  \/ Done /\ UNCHANGED vars

\* A handler, once entered, runs to its end; a worker keeps taking work and
\* a session ends (its peer or its timeout closes it); fini runs to its end.
\* When flows arrive and whether stop() is called is up to the environment.
Fairness ==
  /\ WF_vars(HandlerTaskAlloc) /\ WF_vars(insert_session)
  /\ WF_vars(HandlerSubmit) /\ WF_vars(HandlerRemove)
  /\ \A w \in Workers : WF_vars(WorkerTake(w)) /\ WF_vars(WorkerExit(w))
                        /\ WF_vars(SessionEnd(w))
  /\ WF_vars(StopIo) /\ WF_vars(JoinReaders) /\ WF_vars(IoDestroy) /\ WF_vars(IoNull)
  /\ WF_vars(PoolShutdown) /\ WF_vars(PoolJoin) /\ WF_vars(ClearSessions)

Spec == Init /\ [][Next]_vars /\ Fairness

(***************************************************************************)
(* Properties.                                                             *)
(***************************************************************************)

MainPcs == {"m_running", "m_io_stop", "m_join_readers", "m_io_destroy",
            "m_io_null", "m_pool_shutdown", "m_pool_join", "m_clear",
            "m_done"}

TypeOK ==
  /\ run \in BOOLEAN /\ shutdown \in BOOLEAN /\ uaf \in BOOLEAN
  /\ ioState \in {"running", "stopped", "freed"}
  /\ tunnel_io \in {"io", NULL}
  /\ pending \subseteq Flows /\ finished \subseteq Flows
  /\ dpc \in {"idle", "d_task", "d_insert", "d_submit", "d_remove", "exited"}
  /\ dcur \in Flows \cup {NULL}
  /\ reg \in Seq(Flows) /\ queue \in Seq(Flows)
  /\ Len(queue) <= MAX_QUEUE_SIZE
  /\ wpc \in [Workers -> {"w_idle", "w_session", "exited"}]
  /\ wcur \in [Workers -> Flows \cup {NULL}]
  /\ wouts \in [Workers -> 0..MaxOutputs]
  /\ mpc \in MainPcs

\* A session is between insert_session and the end of its handler, queued
\* in the pool, or being run by a worker.
Live(f) ==
  \/ dcur = f /\ dpc \in {"d_submit", "d_remove"}
  \/ Contains(queue, f)
  \/ \E w \in Workers : wcur[w] = f

\* Every session in the list is still live: insert_session comes before the
\* submit that lets a worker run and remove it, and a failed submit removes
\* it again, so neither a fast worker nor a full queue leaves a node behind
\* for a session that is gone (which the list would then keep until fini).
RegistryTracksLive == \A f \in ToSet(reg) : Live(f)

\* Every session task that reaches the queue is run to its end, including
\* those still queued when fini shuts the pool down: the workers drain the
\* queue before they leave.
QueuedSessionsRun ==
  \A f \in Flows : Contains(queue, f) ~> (f \in finished)

\* No session writes through tunnel_io after hev_tunnel_io_destroy freed it:
\* fini destroys the tunnel I/O before the thread pool, whose workers may
\* still be running sessions that send packets.
NoUseAfterFree == ~uaf
==============================================================================
