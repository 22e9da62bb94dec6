------------------------------ MODULE WorkQueue ------------------------------
(***************************************************************************)
(* What a fixed worker pool promises its users, each operation one step:   *)
(* submit accepts an item only below the capacity (and may always refuse   *)
(* it); accepted items are started oldest first and each finishes once;    *)
(* wait_all returns only when nothing is queued or running; and the pool   *)
(* closes only when everything accepted has run.  The pool of              *)
(* src/src/hev-thread-pool.c is shown to implement it (ThreadPool).        *)
(***************************************************************************)
EXTENDS Naturals, Sequences

CONSTANTS Capacity, Items, Callers

VARIABLES
  q,         \* accepted items not yet started, oldest first
  running,   \* items started and not finished
  done,      \* items finished
  refused,   \* items refused
  next,      \* the next item offered
  caller,    \* caller[c]: "idle", "waiting" (in wait_all) or "done"
  state      \* "open", "closing" (no more submits) or "closed"

wqVars == <<q, running, done, refused, next, caller, state>>

Init ==
  /\ q = <<>> /\ running = {} /\ done = {} /\ refused = {}
  /\ next = 1 /\ caller = [c \in Callers |-> "idle"] /\ state = "open"

Offer(accept) ==
  /\ state = "open" /\ next \in Items
  /\ IF accept THEN Len(q) < Capacity /\ q' = Append(q, next)
                    /\ UNCHANGED refused
               ELSE refused' = refused \cup {next} /\ UNCHANGED q
  /\ next' = next + 1
  /\ UNCHANGED <<running, done, caller, state>>

Start ==
  /\ q # <<>>
  /\ running' = running \cup {Head(q)} /\ q' = Tail(q)
  /\ UNCHANGED <<done, refused, next, caller, state>>

Finish(i) ==
  /\ i \in running
  /\ running' = running \ {i} /\ done' = done \cup {i}
  /\ UNCHANGED <<q, refused, next, caller, state>>

Idle == q = <<>> /\ running = {}

WaitCall(c) ==
  /\ state = "open" /\ caller[c] = "idle"
  /\ caller' = [caller EXCEPT ![c] = "waiting"]
  /\ UNCHANGED <<q, running, done, refused, next, state>>

WaitReturn(c) ==
  /\ caller[c] = "waiting" /\ Idle
  /\ caller' = [caller EXCEPT ![c] = "done"]
  /\ UNCHANGED <<q, running, done, refused, next, state>>

Close ==
  /\ state = "open" /\ \A c \in Callers : caller[c] # "waiting"
  /\ state' = "closing"
  /\ UNCHANGED <<q, running, done, refused, next, caller>>

Closed ==
  /\ state = "closing" /\ Idle
  /\ state' = "closed"
  /\ UNCHANGED <<q, running, done, refused, next, caller>>

Next ==
  \/ Offer(TRUE) \/ Offer(FALSE) \/ Start \/ \E i \in Items : Finish(i)
  \/ \E c \in Callers : WaitCall(c) \/ WaitReturn(c)
  \/ Close \/ Closed

Spec == Init /\ [][Next]_wqVars
==============================================================================
