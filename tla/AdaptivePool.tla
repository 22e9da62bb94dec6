---------------------------- MODULE AdaptivePool ----------------------------
(***************************************************************************)
(* The adaptive worker pool of src/src/hev-adaptive-pool.c: workers that   *)
(* wait on pool->cond for work in the ring buffer, an adjuster thread that *)
(* starts a worker when the queue grows and lowers current_threads when    *)
(* workers idle, submit, and destroy.                                      *)
(*                                                                         *)
(* Every critical section under pool->mutex is one step; the ring's push  *)
(* and pop happen under the mutex, so the ring is its FIFO of work items,  *)
(* with head and tail kept as counts modulo RING_BUFFER_SIZE for the       *)
(* unlocked hev_ring_buffer_size of adjust.  Threads are numbered in the  *)
(* order they are created; workers[i] holds the handle of thread slot[i].  *)
(***************************************************************************)
EXTENDS Integers, Sequences, SequencesExt, FiniteSets

CONSTANTS
  min_threads, max_threads,                   \* HevAdaptivePoolConfig
  scale_up_threshold, scale_down_threshold,   \* HevAdaptivePoolConfig
  RING_BUFFER_SIZE,  \* ring slots (4096 in the source), a power of two
  MaxSubmits,        \* bound: hev_adaptive_pool_submit calls
  MaxThreads         \* bound: worker threads ever created

ASSUME /\ 1 <= min_threads /\ min_threads <= max_threads
       /\ min_threads <= MaxThreads
       /\ scale_up_threshold \in Nat /\ scale_down_threshold \in Nat
       /\ RING_BUFFER_SIZE \in {2^k : k \in 1..12}
       /\ MaxSubmits \in Nat

Threads == 1..MaxThreads
Slots == 0..(max_threads - 1)
Works == 1..MaxSubmits
mask == RING_BUFFER_SIZE - 1

VARIABLES
  running,     \* pool->running
  current,     \* pool->current_threads
  idle,        \* pool->idle_threads
  slot,        \* workers[i].thread: the thread whose handle is in slot i, or 0
  active,      \* workers[i].active
  tpc,         \* each thread's pc ("none" before it is created)
  tw,          \* the work item a thread popped, or 0
  queue,       \* the ring's items, oldest first
  head, tail,  \* the ring's indices (pushes and pops modulo the ring size)
  nextWork,    \* the next work item a caller submits
  ran,         \* history: work items whose task has run
  apc, ah,     \* the adjuster thread's pc and the head it loaded
  mpc, count, ji, \* destroy: pc, the count it read, the join loop index
  freed,       \* the pool has been freed
  uaf          \* history: a thread touched the pool after it was freed

vars == <<running, current, idle, slot, active, tpc, tw, queue, head, tail,
          nextWork, ran, apc, ah, mpc, count, ji, freed, uaf>>

destroyVars == <<mpc, count, ji, freed>>

\* hev_ring_buffer_size: (head - tail) & mask.
RingSize(h, t) == (h - t) % RING_BUFFER_SIZE

\* hev_ring_buffer_is_empty: hev_ring_buffer_size == 0, here under the mutex.
hev_ring_buffer_is_empty == RingSize(head, tail) = 0

\* A pool thread's step touches *pool; after free that is a use after free.
Touch == uaf' = (uaf \/ freed)

\* hev_adaptive_pool_new: min_threads workers in slots 0..min_threads-1,
\* running, the adjuster started, an empty ring.
Init ==
  /\ running = TRUE
  /\ current = min_threads /\ idle = 0
  /\ slot = [i \in Slots |-> IF i < min_threads THEN i + 1 ELSE 0]
  /\ active = [i \in Slots |-> i < min_threads]
  /\ tpc = [t \in Threads |-> IF t <= min_threads THEN "top" ELSE "none"]
  /\ tw = [t \in Threads |-> 0]
  /\ queue = <<>> /\ head = 0 /\ tail = 0
  /\ nextWork = 1 /\ ran = {}
  /\ apc = "a_top" /\ ah = 0
  /\ mpc = "m_idle" /\ count = 0 /\ ji = 0
  /\ freed = FALSE /\ uaf = FALSE

(***************************************************************************)
(* worker_thread_func.                                                     *)
(***************************************************************************)

threadVars == <<tpc, tw>>

\* while (atomic_load (&pool->running)).
WorkerTop(t) ==
  /\ tpc[t] = "top"
  /\ tpc' = [tpc EXCEPT ![t] = IF running THEN "lock" ELSE "exited"]
  /\ Touch
  /\ UNCHANGED <<running, current, idle, slot, active, tw, queue, head, tail,
                 nextWork, ran, apc, ah, destroyVars>>

\* A bug: hev_ring_buffer_pop returns buffer[tail] without storing the
\* advanced tail, so the item stays in the ring.
WaitLoop_NoAdvance(t, i) ==
  IF running /\ hev_ring_buffer_is_empty
    THEN /\ tpc' = [tpc EXCEPT ![t] = "wait"] /\ idle' = i
         /\ UNCHANGED <<tw, queue, tail>>
    ELSE /\ idle' = i - 1
         /\ IF ~running
              THEN /\ tpc' = [tpc EXCEPT ![t] = "exited"]
                   /\ UNCHANGED <<tw, queue, tail>>
              ELSE /\ tpc' = [tpc EXCEPT ![t] = "run"]
                   /\ tw' = [tw EXCEPT ![t] = Head(queue)]
                   /\ UNCHANGED <<queue, tail>>

\* The inner loop under pool->mutex, entered with idle_threads = i: wait on
\* pool->cond while running and the ring is empty; otherwise lower
\* idle_threads and either leave (!running) or pop the oldest work.
WaitLoop(t, i) ==
  IF running /\ hev_ring_buffer_is_empty
    THEN /\ tpc' = [tpc EXCEPT ![t] = "wait"] /\ idle' = i
         /\ UNCHANGED <<tw, queue, tail>>
    ELSE /\ idle' = i - 1
         /\ IF ~running
              THEN /\ tpc' = [tpc EXCEPT ![t] = "exited"]
                   /\ UNCHANGED <<tw, queue, tail>>
              ELSE /\ tpc' = [tpc EXCEPT ![t] = "run"]
                   /\ tw' = [tw EXCEPT ![t] = Head(queue)]
                   /\ queue' = Tail(queue)
                   /\ tail' = (tail + 1) % RING_BUFFER_SIZE

\* A bug: entering the wait loop without counting the thread as idle.
WorkerLock_NoIdle(t) ==
  /\ tpc[t] = "lock"
  /\ WaitLoop(t, idle)
  /\ Touch
  /\ UNCHANGED <<running, current, slot, active, head, nextWork, ran, apc, ah,
                 destroyVars>>

\* pthread_mutex_lock; atomic_fetch_add (&pool->idle_threads, 1); the
\* inner loop; pop; pthread_mutex_unlock.
WorkerLock(t) ==
  /\ tpc[t] = "lock"
  /\ WaitLoop(t, idle + 1)
  /\ Touch
  /\ UNCHANGED <<running, current, slot, active, head, nextWork, ran, apc, ah,
                 destroyVars>>

WorkerWoken(t) ==
  /\ tpc[t] = "woken"
  /\ WaitLoop(t, idle)
  /\ Touch
  /\ UNCHANGED <<running, current, slot, active, head, nextWork, ran, apc, ah,
                 destroyVars>>

\* work->task (work->data); free (work); back to the top of the loop.
WorkerRun(t) ==
  /\ tpc[t] = "run"
  /\ ran' = ran \cup {tw[t]}
  /\ tpc' = [tpc EXCEPT ![t] = "top"]
  /\ tw' = [tw EXCEPT ![t] = 0]
  /\ Touch
  /\ UNCHANGED <<running, current, idle, slot, active, queue, head, tail,
                 nextWork, apc, ah, destroyVars>>

\* pthread_cond_signal wakes one waiting thread, if any; pthread_cond_
\* broadcast wakes them all.
Waiting == {t \in Threads : tpc[t] = "wait"}

SignalOne(pc) ==
  IF Waiting = {} THEN {pc}
  ELSE {[pc EXCEPT ![t] = "woken"] : t \in Waiting}

Broadcast(pc) == [t \in Threads |-> IF pc[t] = "wait" THEN "woken" ELSE pc[t]]

(***************************************************************************)
(* adjuster_thread_func and hev_adaptive_pool_adjust.                      *)
(***************************************************************************)

adjVars == <<apc, ah>>

\* while (atomic_load (&pool->running)): then sleep (adjustment_interval).
AdjusterTop ==
  /\ apc = "a_top"
  /\ apc' = IF running THEN "a_check" ELSE "a_exited"
  /\ Touch
  /\ UNCHANGED <<running, current, idle, slot, active, threadVars, queue, head,
                 tail, nextWork, ran, ah, destroyVars>>

\* After the sleep: if (!atomic_load (&pool->running)) break.
AdjusterCheck ==
  /\ apc = "a_check"
  /\ apc' = IF running THEN "a_head" ELSE "a_exited"
  /\ Touch
  /\ UNCHANGED <<running, current, idle, slot, active, threadVars, queue, head,
                 tail, nextWork, ran, ah, destroyVars>>

\* hev_ring_buffer_size, first half: the acquire load of head.  The ring's
\* indices are read without pool->mutex, so pushes and pops can happen
\* between the load of head and the load of tail.
AdjustLoadHead ==
  /\ apc = "a_head"
  /\ ah' = head
  /\ apc' = "a_decide"
  /\ Touch
  /\ UNCHANGED <<running, current, idle, slot, active, threadVars, queue, head,
                 tail, nextWork, ran, destroyVars>>

\* The next thread pthread_create would start, if the bound allows one.
Created == {t \in Threads : tpc[t] # "none"}
NewThread == Cardinality(Created) + 1

\* The load of tail, queue_depth = (head - tail) & mask, the loads of
\* idle_threads and current_threads, then: scale up by starting a worker
\* in workers[current] and raising current_threads; else scale down by
\* lowering current_threads alone (no thread is told to stop).  Beyond
\* MaxThreads created threads a scale-up is skipped.
AdjustDecide ==
  /\ apc = "a_decide"
  /\ LET queue_depth == RingSize(ah, tail) IN
       IF /\ queue_depth > scale_up_threshold
          /\ idle < 2
          /\ current < max_threads
         THEN IF NewThread <= MaxThreads
                THEN /\ slot' = [slot EXCEPT ![current] = NewThread]
                     /\ active' = [active EXCEPT ![current] = TRUE]
                     /\ tpc' = [tpc EXCEPT ![NewThread] = "top"]
                     /\ current' = current + 1
                ELSE UNCHANGED <<slot, active, tpc, current>>
       ELSE /\ UNCHANGED <<slot, active, tpc>>
            /\ current' = IF /\ idle > scale_down_threshold
                             /\ queue_depth < 10
                             /\ current > min_threads
                          THEN current - 1 ELSE current
  /\ apc' = "a_top"
  /\ Touch
  /\ UNCHANGED <<running, idle, tw, queue, head, tail, nextWork, ran, ah,
                 destroyVars>>

(***************************************************************************)
(* hev_adaptive_pool_submit, by the pool's user before destroy.            *)
(***************************************************************************)

\* A bug: the work is pushed but no waiting worker is signalled.
Submit_NoSignal ==
  /\ mpc = "m_idle" /\ nextWork <= MaxSubmits
  /\ IF Len(queue) = mask
       THEN UNCHANGED <<queue, head>>
       ELSE /\ queue' = Append(queue, nextWork)
            /\ head' = (head + 1) % RING_BUFFER_SIZE
  /\ nextWork' = nextWork + 1
  /\ UNCHANGED <<running, current, idle, slot, active, threadVars, tail, ran,
                 adjVars, destroyVars, uaf>>

\* Under pool->mutex: hev_ring_buffer_push, which fails (return -1, the work
\* freed) when the ring holds mask items; else pthread_cond_signal.
Submit ==
  /\ mpc = "m_idle" /\ nextWork <= MaxSubmits
  /\ IF Len(queue) = mask
       THEN UNCHANGED <<queue, head, tpc>>
       ELSE /\ queue' = Append(queue, nextWork)
            /\ head' = (head + 1) % RING_BUFFER_SIZE
            /\ tpc' \in SignalOne(tpc)
  /\ nextWork' = nextWork + 1
  /\ UNCHANGED <<running, current, idle, slot, active, tw, tail, ran, adjVars,
                 destroyVars, uaf>>

(***************************************************************************)
(* hev_adaptive_pool_destroy, by the pool's user.                          *)
(***************************************************************************)

poolVars == <<current, idle, slot, active, queue, head, tail, nextWork, ran>>

\* atomic_store (&pool->running, false), outside the mutex.
DestroyStop ==
  /\ mpc = "m_idle"
  /\ running' = FALSE
  /\ mpc' = "m_bcast"
  /\ UNCHANGED <<poolVars, threadVars, adjVars, count, ji, freed, uaf>>

\* A bug: waking one waiting worker instead of all of them.
DestroyWake_Signal ==
  /\ mpc = "m_bcast"
  /\ tpc' \in SignalOne(tpc)
  /\ mpc' = "m_join_adj"
  /\ UNCHANGED <<running, poolVars, tw, adjVars, count, ji, freed, uaf>>

\* pthread_mutex_lock; pthread_cond_broadcast; pthread_mutex_unlock.
DestroyWake ==
  /\ mpc = "m_bcast"
  /\ tpc' = Broadcast(tpc)
  /\ mpc' = "m_join_adj"
  /\ UNCHANGED <<running, poolVars, tw, adjVars, count, ji, freed, uaf>>

\* pthread_join (adjuster_thread); count = atomic_load (&current_threads).
DestroyJoinAdjuster ==
  /\ mpc = "m_join_adj" /\ apc = "a_exited"
  /\ count' = current /\ ji' = 0
  /\ mpc' = "m_join"
  /\ UNCHANGED <<running, poolVars, threadVars, adjVars, freed, uaf>>

\* for (i = 0; i < count; i++) if (workers[i].active) pthread_join: the
\* join of workers[i] returns once the thread whose handle is there exited.
DestroyJoinWorker ==
  /\ mpc = "m_join" /\ ji < count
  /\ active[ji] => tpc[slot[ji]] = "exited"
  /\ ji' = ji + 1
  /\ UNCHANGED <<running, poolVars, threadVars, adjVars, mpc, count, freed,
                 uaf>>

\* The loop is over: destroy the ring, mutex and cond; free the pool.
DestroyFree ==
  /\ mpc = "m_join" /\ ji = count
  /\ freed' = TRUE
  /\ mpc' = "m_done"
  /\ UNCHANGED <<running, poolVars, threadVars, adjVars, count, ji, uaf>>

\* destroy has returned and every thread has ended.
Finished ==
  /\ mpc = "m_done" /\ apc = "a_exited"
  /\ \A t \in Threads : tpc[t] \in {"none", "exited"}
  /\ UNCHANGED vars

Worker(t) == WorkerTop(t) \/ WorkerLock(t) \/ WorkerWoken(t) \/ WorkerRun(t)

Adjuster == AdjusterTop \/ AdjusterCheck \/ AdjustLoadHead \/ AdjustDecide

Destroy ==
  DestroyWake \/ DestroyJoinAdjuster \/ DestroyJoinWorker \/ DestroyFree

Next ==
  \/ \E t \in Threads : Worker(t)
  \/ Adjuster
  \/ Submit
  \/ DestroyStop
  \/ Destroy
  \/ Finished

\* Threads are scheduled fairly by the OS.  Whether and when the user
\* submits work or calls destroy is up to the user: no fairness.
Fairness ==
  /\ \A t \in Threads : WF_vars(Worker(t))
  /\ WF_vars(Adjuster)
  /\ WF_vars(Destroy)

Spec == Init /\ [][Next]_vars /\ Fairness

(***************************************************************************)
(* Properties.                                                             *)
(***************************************************************************)

Pcs == {"none", "top", "lock", "wait", "woken", "run", "exited"}

TypeOK ==
  /\ running \in BOOLEAN /\ freed \in BOOLEAN /\ uaf \in BOOLEAN
  /\ current \in min_threads..max_threads
  /\ idle \in 0..MaxThreads
  /\ slot \in [Slots -> 0..MaxThreads] /\ active \in [Slots -> BOOLEAN]
  /\ tpc \in [Threads -> Pcs] /\ tw \in [Threads -> 0..MaxSubmits]
  /\ queue \in Seq(Works) /\ Len(queue) <= mask
  /\ head \in 0..mask /\ tail \in 0..mask
  /\ apc \in {"a_top", "a_check", "a_head", "a_decide", "a_exited"}
  /\ mpc \in {"m_idle", "m_bcast", "m_join_adj", "m_join", "m_done"}

SubmittedWorkRuns ==
  \A w \in Works : Contains(queue, w) ~> (w \in ran \/ ~running)

\* Once destroy has stored running = false it returns: the broadcast wakes
\* every waiting worker, each sees !running and ends, so every join ends.
DestroyTerminates == (mpc = "m_bcast") ~> (mpc = "m_done")

\* No pool thread reads *pool after destroy freed it.
NoUseAfterFree == ~uaf

(* The pool implements the work queue it promises (WorkQueue), with no    *)
(* wait_all caller: submit accepts only while the ring holds fewer than   *)
(* mask items, workers pop the oldest work and run each item once, and no *)
(* item is lost, across scale-ups, scale-downs that forget a worker, and  *)
(* destroy.  An item submitted and neither queued, held nor run is one     *)
(* the full ring refused.  destroy leaves queued work unrun, so the       *)
(* mapped state goes from open to closing and never to closed.            *)
WQ == INSTANCE WorkQueue
        WITH Capacity <- mask, Items <- Works, Callers <- {},
             q <- queue, running <- {tw[t] : t \in Threads} \ {0},
             done <- ran,
             refused <- {w \in 1..(nextWork - 1) :
                           /\ ~Contains(queue, w) /\ w \notin ran
                           /\ \A t \in Threads : tw[t] # w},
             next <- nextWork, caller <- [c \in {} |-> "idle"],
             state <- IF mpc = "m_idle" THEN "open" ELSE "closing"

WorkQueueSpec == WQ!Spec

==============================================================================
