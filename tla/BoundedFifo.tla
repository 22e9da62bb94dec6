----------------------------- MODULE BoundedFifo -----------------------------
(***************************************************************************)
(* What a bounded single-producer single-consumer queue promises its two   *)
(* callers, with every operation taking effect in one step: a put either   *)
(* appends its value or, only when the queue holds Capacity values, is     *)
(* refused; a take either returns the oldest value or, only when the queue *)
(* is empty, reports that it is empty.  The ring buffer of                 *)
(* src/src/hev-ring-buffer.h is shown to implement this module (SpscRing).     *)
(***************************************************************************)
EXTENDS Naturals, Sequences

CONSTANTS Capacity, Values, Empty

ASSUME Capacity \in Nat \ {0} /\ Empty \notin Values

VARIABLES
  q,        \* the values put and not yet taken, oldest first
  out,      \* every value taken, in the order taken
  refused,  \* every value whose put was refused
  polled    \* the result of the latest take: a value, or Empty

fifoVars == <<q, out, refused, polled>>

Init ==
  /\ q = <<>>
  /\ out = <<>>
  /\ refused = <<>>
  /\ polled = Empty

Put(v) ==
  /\ Len(q) < Capacity
  /\ q' = Append(q, v)
  /\ UNCHANGED <<out, refused, polled>>

Refuse(v) ==
  /\ Len(q) = Capacity
  /\ refused' = Append(refused, v)
  /\ UNCHANGED <<q, out, polled>>

Take ==
  /\ q # <<>>
  /\ out' = Append(out, Head(q))
  /\ polled' = Head(q)
  /\ q' = Tail(q)
  /\ UNCHANGED refused

TakeEmpty ==
  /\ q = <<>>
  /\ polled' = Empty
  /\ UNCHANGED <<q, out, refused>>

Next ==
  \/ \E v \in Values : Put(v) \/ Refuse(v)
  \/ Take
  \/ TakeEmpty

Spec == Init /\ [][Next]_fifoVars
==============================================================================
