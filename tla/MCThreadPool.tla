---------------------------- MODULE MCThreadPool ----------------------------
(* The pool hev_socks5_tunnel_init creates, hev_thread_pool_new (0), on a  *)
(* single processor: get_cpu_count raises 1 to MIN_THREADS and the pool    *)
(* doubles it, so four workers -- a broadcast and a signal differ and the  *)
(* three items can all run at once.  A queue of two items, so that submit  *)
(* meets a full queue.                                                     *)
EXTENDS ThreadPool

MCWorkers == {"k1", "k2", "k3", "k4"}
MCNumThreads == 0
MCNprocs == 1
OneWaiter == {"v1"}
TwoWaiters == {"v1", "v2"}
MCQueueSize == 2
MCMaxItems == 3
====
