----------------------------- MODULE HvtRingFifo -----------------------------
(***************************************************************************)
(* The network ring of HvtRing implements the queue of NetFifo.            *)
(***************************************************************************)
EXTENDS HvtRing, Sequences

NoReply == -1

(* A read leaves the queue when its commit is published, one step before   *)
(* process_read_entry advances ent_head.                                   *)
FirstPending == IF hpc = "ent_head" THEN Add(ent_head_h, 1) ELSE Next_ent

(* The requests not served yet, oldest first; the id the next call will    *)
(* get; the id of an answer not taken yet.                                 *)
Pending == [k \in 1 .. Sub(ent_tail_g, FirstPending) |->
               entries[Slot(Add(FirstPending, k - 1))]]
NextRequest == IF gpc = "submit" THEN Sub(ring_req_id, 1) ELSE ring_req_id
Reply == IF com_tail_h # com_head THEN commits[Slot(com_head)] ELSE NoReply

Fifo == INSTANCE NetFifo WITH
    Capacity <- HVT_RING_SIZE - 1,
    Ids      <- Index,
    NextId   <- LAMBDA i : Add(i, 1),
    queue    <- Pending,
    next     <- NextRequest,
    waiting  <- InRead,
    reply    <- Reply

(* The two sides together behave as one FIFO queue of requests: nothing is *)
(* lost, duplicated or reordered between ring_submit and the TAP device,   *)
(* and a read returns with its own answer after everything before it.      *)
ImplementsFifo == Fifo!Spec
=============================================================================
