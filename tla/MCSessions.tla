----------------------------- MODULE MCSessions -----------------------------
(* Three flows, two workers and a queue of one task: a flow can find the   *)
(* queue full while both workers run sessions, a session can still be     *)
(* queued when fini shuts the pool down, and each session sends up to two  *)
(* packets, so that one can go out before and one after the teardown.     *)
EXTENDS Sessions

MCFlows == {"f1", "f2", "f3"}
MCWorkers == {"k1", "k2"}
MCQueueSize == 1
MCMaxOutputs == 2
==============================================================================
