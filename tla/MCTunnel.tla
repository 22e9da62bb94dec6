------------------------------ MODULE MCTunnel ------------------------------
(* Instantiates Tunnel for TLC: two readers and two writers (a host with   *)
(* four or more CPUs, hev-tunnel-io.c:236-237), a write queue of 2 nodes   *)
(* and batches of 2 so that a full queue and a split batch both occur.     *)
EXTENDS Tunnel

MCReaders == {"r1", "r2"}
MCWriters == {"w1", "w2"}
OneReader == {"r1"}
MCQueueSize == 2
MCBatchSize == 2
MCMaxReads == 3
MCMaxOutputs == 3

AllInputs == Kinds
PlainInputs == {"Plain"}
=============================================================================
