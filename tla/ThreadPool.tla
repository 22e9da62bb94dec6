----------------------------- MODULE ThreadPool -----------------------------
(***************************************************************************)
(* The fixed worker pool of src/src/hev-thread-pool.c.                     *)
(*                                                                         *)
(* Actors: the worker threads; the submitters (the stack's accept and      *)
(* receive handlers), abstracted to one nondeterministic submit step since *)
(* submit is a single critical section; the callers of                     *)
(* hev_thread_pool_wait_all; and the main thread, whose                    *)
(* hev_socks5_tunnel_fini first stops every submitter (the TUN readers)    *)
(* and then calls hev_thread_pool_destroy.                                 *)
(*                                                                         *)
(* queue_mutex is held only inside single steps.  A thread blocked in      *)
(* pthread_cond_wait is one whose pc is a wait label; a signal moves one   *)
(* such thread, a broadcast all of them, back to the label where it        *)
(* re-acquires the mutex and re-tests its loop condition.                  *)
(***************************************************************************)
EXTENDS Naturals, Sequences, FiniteSets, Functions

CONSTANTS
  Workers,         \* worker thread ids (num_threads)
  Waiters,         \* threads that call hev_thread_pool_wait_all once
  MAX_QUEUE_SIZE,  \* hev-thread-pool.c:27 (10000), scaled down
  MaxItems,        \* bound: work items submitted
  num_threads,     \* the argument of hev_thread_pool_new (0: auto-detect)
  nprocs           \* what get_nprocs reports

MIN_THREADS == 2
MAX_THREADS == 64

\* get_cpu_count: the processor count clamped to MIN_THREADS..MAX_THREADS.
get_cpu_count ==
  IF nprocs < MIN_THREADS THEN MIN_THREADS
  ELSE IF nprocs > MAX_THREADS THEN MAX_THREADS ELSE nprocs

\* hev_thread_pool_new: num_threads <= 0 asks for twice the clamped
\* processor count, capped at MAX_THREADS; the pool starts that many workers.
PoolSize ==
  IF num_threads <= 0
    THEN IF get_cpu_count * 2 > MAX_THREADS THEN MAX_THREADS
         ELSE get_cpu_count * 2
    ELSE num_threads

ASSUME /\ Workers \cap Waiters = {}
       /\ MAX_QUEUE_SIZE \in Nat \ {0} /\ MaxItems \in Nat
       /\ num_threads \in Int /\ nprocs \in Nat \ {0}
       /\ Cardinality(Workers) = PoolSize

Items == 1..MaxItems
NoItem == 0

VARIABLES
  queue,      \* queue_head .. queue_tail: the ids of the enqueued items
  shutdown,   \* pool->shutdown
  active,     \* pool->active_threads
  pc,         \* program counter of every worker, waiter and of "main"
  cur,        \* cur[w]: the item worker w dequeued (item), or NoItem
  nextItem,   \* id of the next item a submitter hands to submit
  rejected,   \* items submit returned -1 for (no memory, queue full)
  ran,        \* items whose task has run
  drained,    \* items hev_thread_pool_destroy freed from the queue
  joined,     \* fini has stopped every submitter
  waitFrom,   \* waitFrom[v]: nextItem when waiter v called wait_all
  created     \* the workers pthread_create started: threads[0..num_threads)

vars == <<queue, shutdown, active, pc, cur, nextItem, rejected, ran, drained,
          joined, waitFrom, created>>

Waiting(ws) == {t \in ws : pc[t] = "w_wait" \/ pc[t] = "v_wait"}

(* The label a thread blocked in pthread_cond_wait returns to, to take     *)
(* queue_mutex again and re-test its loop condition.                       *)
Resume(t) == IF t \in Workers THEN "w_top" ELSE "v_top"

(* pthread_cond_signal on a condition the threads ws wait on: the program  *)
(* counters p with one blocked thread, if any, resumed.                    *)
WakeOne(p, ws) ==
  IF Waiting(ws) = {} THEN {p}
  ELSE {[p EXCEPT ![t] = Resume(t)] : t \in Waiting(ws)}

(* pthread_cond_broadcast: every blocked thread of ws resumes.             *)
WakeAll(p, ws) ==
  [t \in DOMAIN p |-> IF t \in Waiting(ws) THEN Resume(t) ELSE p[t]]

-----------------------------------------------------------------------------
(* Mutation: the queue-full test of submit off by one.                    *)
hev_thread_pool_submit_OffByOne ==
  /\ pc["main"] # "m_new" /\ ~joined /\ nextItem <= MaxItems
  /\ \/ rejected' = rejected \cup {nextItem} /\ UNCHANGED <<queue, pc>>
     \/ /\ Len(queue) > MAX_QUEUE_SIZE
        /\ rejected' = rejected \cup {nextItem} /\ UNCHANGED <<queue, pc>>
     \/ /\ Len(queue) <= MAX_QUEUE_SIZE
        /\ queue' = Append(queue, nextItem) /\ pc' \in WakeOne(pc, Workers)
        /\ UNCHANGED rejected
  /\ nextItem' = nextItem + 1
  /\ UNCHANGED <<shutdown, active, cur, ran, drained, joined, waitFrom,
                 created>>

(* hev_thread_pool_submit: malloc of the work item may fail; under         *)
(* queue_mutex a full queue rejects the item, otherwise it is appended and *)
(* one worker blocked on queue_cond is woken.  It does not test shutdown.  *)
hev_thread_pool_submit ==
  /\ pc["main"] # "m_new" /\ ~joined /\ nextItem <= MaxItems
  /\ \/ rejected' = rejected \cup {nextItem} /\ UNCHANGED <<queue, pc>>
     \/ /\ Len(queue) >= MAX_QUEUE_SIZE
        /\ rejected' = rejected \cup {nextItem} /\ UNCHANGED <<queue, pc>>
     \/ /\ Len(queue) < MAX_QUEUE_SIZE
        /\ queue' = Append(queue, nextItem) /\ pc' \in WakeOne(pc, Workers)
        /\ UNCHANGED rejected
  /\ nextItem' = nextItem + 1
  /\ UNCHANGED <<shutdown, active, cur, ran, drained, joined, waitFrom,
                 created>>

-----------------------------------------------------------------------------
(* Mutation: the worker leaves once shutdown is set, queue or not.        *)
WorkerLock_ExitOnShutdown(w) ==
  /\ pc[w] = "w_top"
  /\ \/ /\ queue = <<>> /\ ~shutdown
        /\ pc' = [pc EXCEPT ![w] = "w_wait"]
        /\ UNCHANGED <<queue, active, cur>>
     \/ /\ shutdown
        /\ pc' = [pc EXCEPT ![w] = "w_done"]
        /\ UNCHANGED <<queue, active, cur>>
     \/ /\ queue # <<>> /\ ~shutdown
        /\ cur' = [cur EXCEPT ![w] = Head(queue)] /\ queue' = Tail(queue)
        /\ active' = active + 1
        /\ pc' = [pc EXCEPT ![w] = "w_run"]
  /\ UNCHANGED <<shutdown, nextItem, rejected, ran, drained, joined, waitFrom,
                 created>>

(* Mutation: the worker takes the head without unlinking it.            *)
WorkerLock_NoPop(w) ==
  /\ pc[w] = "w_top"
  /\ \/ /\ queue = <<>> /\ ~shutdown
        /\ pc' = [pc EXCEPT ![w] = "w_wait"]
        /\ UNCHANGED <<queue, active, cur>>
     \/ /\ queue = <<>> /\ shutdown
        /\ pc' = [pc EXCEPT ![w] = "w_done"]
        /\ UNCHANGED <<queue, active, cur>>
     \/ /\ queue # <<>>
        /\ cur' = [cur EXCEPT ![w] = Head(queue)] /\ UNCHANGED queue
        /\ active' = active + 1
        /\ pc' = [pc EXCEPT ![w] = "w_run"]
  /\ UNCHANGED <<shutdown, nextItem, rejected, ran, drained, joined, waitFrom,
                 created>>

(* Mutation: the worker unlinks the newest item (queue_tail), not the head. *)
WorkerLock_Lifo(w) ==
  /\ pc[w] = "w_top"
  /\ \/ /\ queue = <<>> /\ ~shutdown
        /\ pc' = [pc EXCEPT ![w] = "w_wait"]
        /\ UNCHANGED <<queue, active, cur>>
     \/ /\ queue = <<>> /\ shutdown
        /\ pc' = [pc EXCEPT ![w] = "w_done"]
        /\ UNCHANGED <<queue, active, cur>>
     \/ /\ queue # <<>>
        /\ cur' = [cur EXCEPT ![w] = queue[Len(queue)]]
        /\ queue' = SubSeq(queue, 1, Len(queue) - 1)
        /\ active' = active + 1
        /\ pc' = [pc EXCEPT ![w] = "w_run"]
  /\ UNCHANGED <<shutdown, nextItem, rejected, ran, drained, joined, waitFrom,
                 created>>

(* worker_thread, under queue_mutex: wait while the queue is empty and no  *)
(* shutdown; leave when shutdown and the queue is empty; otherwise pop the *)
(* head and count the worker active.                                       *)
WorkerLock(w) ==
  /\ pc[w] = "w_top"
  /\ \/ /\ queue = <<>> /\ ~shutdown
        /\ pc' = [pc EXCEPT ![w] = "w_wait"]
        /\ UNCHANGED <<queue, active, cur>>
     \/ /\ queue = <<>> /\ shutdown
        /\ pc' = [pc EXCEPT ![w] = "w_done"]
        /\ UNCHANGED <<queue, active, cur>>
     \/ /\ queue # <<>>
        /\ cur' = [cur EXCEPT ![w] = Head(queue)] /\ queue' = Tail(queue)
        /\ active' = active + 1
        /\ pc' = [pc EXCEPT ![w] = "w_run"]
  /\ UNCHANGED <<shutdown, nextItem, rejected, ran, drained, joined, waitFrom,
                 created>>

(* Outside the mutex: item->task (item->data), then free (item).           *)
WorkerRun(w) ==
  /\ pc[w] = "w_run"
  /\ ran' = ran \cup {cur[w]}
  /\ cur' = [cur EXCEPT ![w] = NoItem]
  /\ pc' = [pc EXCEPT ![w] = "w_finish"]
  /\ UNCHANGED <<queue, shutdown, active, nextItem, rejected, drained, joined,
                 waitFrom, created>>

(* Mutation: the idle test reads active_threads before the decrement.      *)
WorkerFinish_StaleActive(w) ==
  /\ pc[w] = "w_finish"
  /\ active' = active - 1
  /\ LET back == [pc EXCEPT ![w] = "w_top"]
     IN pc' \in IF active = 0 /\ queue = <<>> THEN WakeOne(back, Waiters)
                                             ELSE {back}
  /\ UNCHANGED <<queue, shutdown, cur, nextItem, rejected, ran, drained, joined,
                 waitFrom, created>>

(* Under queue_mutex: active_threads--, and done_cond is signalled when    *)
(* the pool is idle; the worker then goes round its loop.                  *)
WorkerFinish(w) ==
  /\ pc[w] = "w_finish"
  /\ active' = active - 1
  /\ LET back == [pc EXCEPT ![w] = "w_top"]
     IN pc' \in IF active - 1 = 0 /\ queue = <<>> THEN WakeOne(back, Waiters)
                                                 ELSE {back}
  /\ UNCHANGED <<queue, shutdown, cur, nextItem, rejected, ran, drained, joined,
                 waitFrom, created>>

-----------------------------------------------------------------------------
(* A caller enters hev_thread_pool_wait_all while the pool is in use.      *)
WaitAllCall(v) ==
  /\ pc[v] = "v_idle" /\ pc["main"] # "m_new" /\ ~joined
  /\ waitFrom' = [waitFrom EXCEPT ![v] = nextItem]
  /\ pc' = [pc EXCEPT ![v] = "v_top"]
  /\ UNCHANGED <<queue, shutdown, active, cur, nextItem, rejected, ran, drained,
                 joined, created>>

(* Mutation: wait_all waits only for the queue to empty.                 *)
WaitAllLock_QueueOnly(v) ==
  /\ pc[v] = "v_top"
  /\ pc' = [pc EXCEPT ![v] = IF Len(queue) > 0 THEN "v_wait" ELSE "v_done"]
  /\ UNCHANGED <<queue, shutdown, active, cur, nextItem, rejected, ran, drained,
                 joined, waitFrom, created>>

(* Under queue_mutex: wait on done_cond while work is queued or running.   *)
WaitAllLock(v) ==
  /\ pc[v] = "v_top"
  /\ pc' = [pc EXCEPT ![v] = IF Len(queue) > 0 \/ active > 0 THEN "v_wait"
                                                             ELSE "v_done"]
  /\ UNCHANGED <<queue, shutdown, active, cur, nextItem, rejected, ran, drained,
                 joined, waitFrom, created>>

-----------------------------------------------------------------------------
(* hev_socks5_tunnel_fini destroys the TUN I/O engine first, which joins   *)
(* the readers, so nothing submits afterwards; the wait_all callers of the *)
(* embedding have returned before it tears the pool down.                  *)
JoinSubmitters ==
  /\ pc["main"] = "m_run"
  /\ \A v \in Waiters : pc[v] \in {"v_idle", "v_done"}
  /\ joined' = TRUE
  /\ pc' = [pc EXCEPT !["main"] = "m_shutdown"]
  /\ UNCHANGED <<queue, shutdown, active, cur, nextItem, rejected, ran, drained,
                 waitFrom, created>>

(* hev_thread_pool_destroy, under queue_mutex: shutdown = 1 and broadcast  *)
(* queue_cond.                                                             *)
DestroyShutdown ==
  /\ pc["main"] = "m_shutdown"
  /\ shutdown' = TRUE
  /\ pc' = WakeAll([pc EXCEPT !["main"] = "m_join"], Workers)
  /\ UNCHANGED <<queue, active, cur, nextItem, rejected, ran, drained, joined,
                 waitFrom, created>>

(* Mutation: destroy joins every handle of threads[], also those that      *)
(* pthread_create never filled when new failed part-way.                  *)
DestroyJoinDrain_AllWorkers ==
  /\ pc["main"] = "m_join"
  /\ \A w \in Workers : pc[w] = "w_done"
  /\ drained' = Range(queue) /\ queue' = <<>>
  /\ pc' = [pc EXCEPT !["main"] = "m_done"]
  /\ UNCHANGED <<shutdown, active, cur, nextItem, rejected, ran, joined,
                 waitFrom, created>>

(* pthread_join of the num_threads workers created, then the items left   *)
(* in the queue are freed without being run, and the pool itself freed.   *)
DestroyJoinDrain ==
  /\ pc["main"] = "m_join"
  /\ \A w \in created : pc[w] = "w_done"
  /\ drained' = Range(queue) /\ queue' = <<>>
  /\ pc' = [pc EXCEPT !["main"] = "m_done"]
  /\ UNCHANGED <<shutdown, active, cur, nextItem, rejected, ran, joined,
                 waitFrom, created>>

-----------------------------------------------------------------------------
(* hev_thread_pool_new, its queue and conditions set up: no worker yet,    *)
(* nothing queued; main is in the loop that creates the workers.          *)
Init ==
  /\ queue = <<>> /\ shutdown = FALSE /\ active = 0
  /\ pc = [t \in Workers \cup Waiters \cup {"main"} |->
             CASE t \in Workers -> "unstarted"
               [] t \in Waiters -> "v_idle"
               [] OTHER        -> "m_new"]
  /\ cur = [w \in Workers |-> NoItem]
  /\ nextItem = 1 /\ rejected = {} /\ ran = {} /\ drained = {}
  /\ joined = FALSE /\ waitFrom = [v \in Waiters |-> 0] /\ created = {}

(* pthread_create of the next worker succeeds; it runs at once.           *)
CreateWorker(w) ==
  /\ pc["main"] = "m_new" /\ w \notin created
  /\ created' = created \cup {w}
  /\ pc' = [pc EXCEPT ![w] = "w_top"]
  /\ UNCHANGED <<queue, shutdown, active, cur, nextItem, rejected, ran, drained,
                 joined, waitFrom>>

(* Every worker created: new returns the pool to its caller.              *)
CreateDone ==
  /\ pc["main"] = "m_new" /\ created = Workers
  /\ pc' = [pc EXCEPT !["main"] = "m_run"]
  /\ UNCHANGED <<queue, shutdown, active, cur, nextItem, rejected, ran, drained,
                 joined, waitFrom, created>>

(* pthread_create fails: num_threads = i, the workers already created and *)
(* running, and new calls hev_thread_pool_destroy and returns NULL, so no *)
(* caller ever submits to this pool.                                      *)
CreateFail ==
  /\ pc["main"] = "m_new" /\ created # Workers
  /\ pc' = [pc EXCEPT !["main"] = "m_shutdown"] /\ joined' = TRUE
  /\ UNCHANGED <<queue, shutdown, active, cur, nextItem, rejected, ran, drained,
                 waitFrom, created>>

PoolNew == CreateDone \/ CreateFail \/ \E w \in Workers : CreateWorker(w)

Next ==
  \/ hev_thread_pool_submit
  \/ \E w \in Workers : WorkerLock(w) \/ WorkerRun(w) \/ WorkerFinish(w)
  \/ \E v \in Waiters : WaitAllCall(v) \/ WaitAllLock(v)
  \/ PoolNew \/ JoinSubmitters \/ DestroyShutdown \/ DestroyJoinDrain

(* Workers and wait_all callers are OS threads the scheduler keeps         *)
(* running; so is the main thread once it tears down.  Submitting and      *)
(* calling wait_all are the embedding's choice and carry no fairness.      *)
Fairness ==
  /\ \A w \in Workers : WF_vars(WorkerLock(w) \/ WorkerRun(w) \/ WorkerFinish(w))
  /\ \A v \in Waiters : WF_vars(WaitAllLock(v))
  /\ WF_vars(PoolNew \/ JoinSubmitters \/ DestroyShutdown \/ DestroyJoinDrain)

Spec == Init /\ [][Next]_vars /\ Fairness

-----------------------------------------------------------------------------
TypeOK ==
  /\ queue \in Seq(Items) /\ Len(queue) <= MAX_QUEUE_SIZE
  /\ shutdown \in BOOLEAN /\ active \in 0..Cardinality(Workers)
  /\ cur \in [Workers -> Items \cup {NoItem}]
  /\ nextItem \in 1..(MaxItems + 1)
  /\ rejected \cup ran \cup drained \subseteq Items
  /\ joined \in BOOLEAN /\ waitFrom \in [Waiters -> 0..(MaxItems + 1)]

(* Work-item ownership (spec section 3): every submitted item is, exactly  *)
(* once, rejected by submit, in the queue, held by one worker, run, or     *)
(* freed by destroy; none is run twice or lost between submit, the worker  *)
(* loop and destroy.                                                       *)
ItemsAccountedFor ==
  LET held == {cur[w] : w \in Workers} \ {NoItem}
      count == Cardinality(rejected) + Len(queue)
               + Cardinality({w \in Workers : cur[w] # NoItem})
               + Cardinality(ran) + Cardinality(drained)
  IN /\ rejected \cup Range(queue) \cup held \cup ran \cup drained = 1..(nextItem - 1)
     /\ count = nextItem - 1

(* hev_thread_pool_wait_all returns only when every item accepted before   *)
(* the call has finished running: active_threads covers a task that was    *)
(* dequeued but has not yet returned.                                      *)
WaitAllSound ==
  \A v \in Waiters :
    pc[v] = "v_done" =>
      \A i \in 1..(waitFrom[v] - 1) : i \in rejected \/ i \in ran

(* hev_thread_pool_destroy runs every item accepted before it: the workers *)
(* drain the queue before they leave, so destroy frees none unrun.         *)
NothingDrained == drained = {}

(* hev_thread_pool_destroy returns: the shutdown broadcast reaches every   *)
(* blocked worker and each then leaves, so every join completes.           *)
DestroyCompletes == pc["main"] = "m_shutdown" ~> pc["main"] = "m_done"

(* A caller of hev_thread_pool_wait_all returns once the pool is idle      *)
(* (spec section 7, "wait_all unblocks within bounded time after the last  *)
(* task returns").                                                         *)
WaitAllReturns == \A v \in Waiters : pc[v] = "v_top" ~> pc[v] = "v_done"

(* The pool implements the work queue it promises (WorkQueue): submit     *)
(* accepts only below MAX_QUEUE_SIZE, workers start items oldest first    *)
(* and run each once, wait_all returns only when nothing is queued or     *)
(* running, and destroy finishes only once every accepted item has run,   *)
(* across every interleaving of workers, submitters, waiters and main.    *)
WQ == INSTANCE WorkQueue
        WITH Capacity <- MAX_QUEUE_SIZE, Items <- Items, Callers <- Waiters,
             q <- queue, running <- {cur[w] : w \in Workers} \ {NoItem},
             done <- ran, refused <- rejected, next <- nextItem,
             caller <- [v \in Waiters |->
                          CASE pc[v] = "v_idle" -> "idle"
                            [] pc[v] = "v_done" -> "done"
                            [] OTHER            -> "waiting"],
             state <- CASE pc["main"] \in {"m_new", "m_run"} -> "open"
                        [] pc["main"] = "m_done" -> "closed"
                        [] OTHER                 -> "closing"

WorkQueueSpec == WQ!Spec
====
