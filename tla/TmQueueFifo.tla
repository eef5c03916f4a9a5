------------------------------- MODULE TmQueueFifo ------------------------------
(***************************************************************************)
(* The ring and its chain of tmq_refs implement a queue: what is pending   *)
(* is spelt out by walking the chain, as the transmitter will.             *)
(***************************************************************************)
EXTENDS TmQueue, SequencesExt

(* What the transmitter will send when it reaches chain[i]. *)
StampOf(i) ==
  LET before == IF i = 1 THEN cur_tsp ELSE q.chain[i - 1].tsp
  IN IF q.chain[i].tsp # before THEN <<TstampItem(q.chain[i].tsp)>> ELSE <<>>

ItemsOf(i) == StampOf(i) \o RowItems(q.chain[i], q.chain[i].n_Qrows)

Pending == FlattenSeq([i \in 1 .. Len(q.chain) |-> ItemsOf(i)])

Fifo == INSTANCE TmFifo WITH pending <- Pending, delivered <- sent

(* The telemetry queue is a FIFO queue of time stamps and labelled rows: none
   is lost, repeated, reordered or altered between the writer's commit and
   the transmission (tm_queue.cc, tm_gen.cc:77-129). *)
ImplementsFifo == Fifo!Spec
=============================================================================
