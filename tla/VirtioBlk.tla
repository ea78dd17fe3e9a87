------------------------------ MODULE VirtioBlk ------------------------------
(***************************************************************************)
(* The virtio block driver (bindings/virtio/virtio_blk.c): one synchronous *)
(* request at a time, of three descriptors for header, data and status.    *)
(* As three does not divide the queue size, a slot that carried a header   *)
(* last time carries data or a status next time.  The device, modelled     *)
(* from how the driver uses it, follows the descriptors of a chain, fails  *)
(* a request when it likes, and leaves a failed write done or not done.    *)
(***************************************************************************)
EXTENDS Virtq, Sequences

CONSTANTS Capacity,   \* sectors of the device
          Contents    \* what a sector may hold; 0 to begin with

ASSUME BlkAssumption == Capacity \in Nat \ {0} /\ 0 \in Contents /\ Num >= 3

VARIABLES
    b_event,    \* blkq.uses_event_idx
    b_pc,       \* the guest: where in solo5_block_write or _read
    b_req,      \* the arguments of the call
    b_head,     \* head of its chain
    b_result,   \* of the last call: code and data read
    blkq,       \* struct virtq: num_avail, last_used, next_avail, last_notified_idx
    b_bufs,     \* blkq.bufs: data and extra_flags
    b_desc,     \* descriptors: flags and next
    b_avail,    \* avail ring: idx, ring
    b_used,     \* used ring: idx, ring, avail_event
    b_kicked,
    b_dev,      \* the device: what it does, its index, the chain it serves
    disk,
    was         \* history: the disk at the call

b_guest == <<b_pc, b_req, b_head, b_result, blkq, was>>
b_rings == <<b_bufs, b_desc, b_avail>>
b_device == <<b_used, b_dev, disk>>
b_vars == <<b_event, b_guest, b_rings, b_device, b_kicked>>

Sectors == 0 .. Capacity - 1
Types == {"IN", "OUT"}
NoResult == [code |-> "none", data |-> <<>>]
NoReq == [type |-> "IN", sector |-> 0, data |-> 0]

(* virtio_blk_config and virtq_init_rings.  Interrupts, which are          *)
(* suppressed and have no handler, are left out.                           *)
BlkInit ==
    /\ b_event \in BOOLEAN
    /\ b_pc = "app" /\ b_req = NoReq /\ b_head = 0
    /\ b_result = NoResult
    /\ blkq = [num_avail |-> Num, last_used |-> 0, next_avail |-> 0,
               last_notified_idx |-> 0]
    /\ b_bufs = [s \in Slots |-> [data |-> <<"zero">>, extra_flags |-> {}]]
    /\ b_desc = [s \in Slots |-> [flags |-> {}, next |-> 0]]
    /\ b_avail = [idx |-> 0, ring |-> [s \in Slots |-> 0]]
    /\ b_used = [idx |-> 0, ring |-> [s \in Slots |-> 0], avail_event |-> 0]
    /\ b_kicked = FALSE
    /\ b_dev = [at |-> "idle", idx |-> 0, chain |-> <<>>]
    /\ disk = [s \in Sectors |-> 0] /\ was = disk

-----------------------------------------------------------------------------
(* solo5_block_write and solo5_block_read up to virtio_blk_op_sync, for a  *)
(* handle of a block device.                                               *)
BlkCall ==
    /\ b_pc = "app"
    /\ \E type \in Types, sector \in 0 .. Capacity, data \in Contents,
          aligned \in BOOLEAN, one \in BOOLEAN :   \* size is one sector
          /\ type = "IN" => data = 0
          /\ IF aligned /\ sector < Capacity /\ one
               THEN /\ b_pc' = "op" /\ b_result' = NoResult
                    /\ b_req' = [type |-> type, sector |-> sector, data |-> data]
               ELSE /\ b_result' = [code |-> "EINVAL", data |-> <<>>]
                    /\ UNCHANGED b_pc /\ b_req' = NoReq
    /\ was' = disk
    /\ UNCHANGED <<b_event, b_head, blkq, b_rings, b_device, b_kicked>>

Chain(head) == [i \in 1 .. 3 |-> Slot(head + i - 1)]
Header == <<"header", b_req.type, b_req.sector>>

(* virtio_blk_op: what it makes of the three buffers.  (FillNoReset keeps  *)
(* the flags the header's buffer had in its last role.)                    *)
FillNoReset(c) ==
    [b_bufs EXCEPT
        ![c[1]] = [@ EXCEPT !.data = Header],
        ![c[2]] = [data |-> IF b_req.type = "OUT" THEN <<"data", b_req.data>> ELSE @.data,
                   extra_flags |-> IF b_req.type = "OUT" THEN {} ELSE {"WRITE"}],
        ![c[3]] = [@ EXCEPT !.extra_flags = {"WRITE"}]]
Fill(c) ==
    [b_bufs EXCEPT
        ![c[1]] = [data |-> Header, extra_flags |-> {}],
        ![c[2]] = [data |-> IF b_req.type = "OUT" THEN <<"data", b_req.data>> ELSE @.data,
                   extra_flags |-> IF b_req.type = "OUT" THEN {} ELSE {"WRITE"}],
        ![c[3]] = [@ EXCEPT !.extra_flags = {"WRITE"}]]

(* virtq_add_descriptor_chain for three descriptors.                       *)
Link(c, bufs) ==
    [s \in Slots |->
        CASE s \in {c[1], c[2]} -> [flags |-> {"NEXT"} \cup bufs[s].extra_flags,
                                    next |-> Slot(s + 1)]
          [] s = c[3] -> [flags |-> bufs[s].extra_flags, next |-> 0]
          [] OTHER -> b_desc[s]]

(* virtio_blk_op up to the notification; the guest stops if its assertion  *)
(* fails.                                                                  *)
BlkOp ==
    /\ b_pc = "op"
    /\ LET head == Slot(blkq.next_avail)
           bufs == Fill(Chain(head))
       IN  /\ b_head' = head /\ b_bufs' = bufs
           /\ IF blkq.num_avail < 3
                THEN b_pc' = "abort" /\ UNCHANGED <<blkq, b_desc, b_avail>>
                ELSE /\ b_pc' = "notify"
                     /\ b_desc' = Link(Chain(head), bufs)
                     /\ b_avail' = [idx |-> Plus(b_avail.idx, 1),
                                    ring |-> [b_avail.ring EXCEPT ![Slot(b_avail.idx)] = head]]
                     /\ blkq' = [blkq EXCEPT !.num_avail = @ - 3,
                                             !.next_avail = Plus(@, 3)]
    /\ UNCHANGED <<b_event, b_req, b_result, was, b_device, b_kicked>>

(* virtq_notify_needed.                                                    *)
BlkNotify ==
    /\ b_pc = "notify" /\ b_pc' = "spin"
    /\ b_kicked' = \/ b_kicked
                   \/ IF b_event
                        THEN NeedEvent(b_used.avail_event, b_avail.idx, blkq.last_notified_idx)
                        ELSE b_dev.at = "idle"
    /\ blkq' = IF b_event THEN [blkq EXCEPT !.last_notified_idx = b_avail.idx] ELSE blkq
    /\ UNCHANGED <<b_event, b_req, b_head, b_result, was, b_rings, b_device>>

(* virtio_blk_op_sync: loop until the device used all of our descriptors.  *)
BlkSpin ==
    /\ b_pc = "spin" /\ b_used.idx = b_avail.idx /\ b_pc' = "consume"
    /\ UNCHANGED <<b_event, b_req, b_head, b_result, blkq, was, b_rings, b_device, b_kicked>>

(* One used chain, which must be ours.                                     *)
BlkConsume ==
    /\ b_pc = "consume" /\ b_used.idx # blkq.last_used
    /\ IF b_used.ring[Slot(blkq.last_used)] = b_head
         THEN /\ blkq' = [blkq EXCEPT !.last_used = Plus(@, 1), !.num_avail = @ + 3]
              /\ UNCHANGED b_pc
         ELSE b_pc' = "abort" /\ UNCHANGED blkq
    /\ UNCHANGED <<b_event, b_req, b_head, b_result, was, b_rings, b_device, b_kicked>>

(* The status, the data of a read, and the result of the call.             *)
BlkReturn ==
    /\ b_pc = "consume" /\ b_used.idx = blkq.last_used /\ b_pc' = "app"
    /\ LET c == Chain(b_head)
           ok == b_bufs[c[3]].data = <<"status", "OK">>
           data == b_bufs[c[2]].data
       IN  b_result' = [code |-> IF ok THEN "OK" ELSE "EUNSPEC",
                        data |-> IF ok /\ b_req.type = "IN" THEN data ELSE <<>>]
    /\ UNCHANGED <<b_event, b_req, b_head, blkq, was, b_rings, b_device, b_kicked>>

-----------------------------------------------------------------------------
(* The device.                                                             *)

(* Follows the next available chain as far as its descriptors link.        *)
Followed(head) ==
    LET more(d) == "NEXT" \in b_desc[d].flags
        second == b_desc[head].next
        third == b_desc[second].next
    IN  CASE ~more(head) -> <<head>>
          [] more(head) /\ ~more(second) -> <<head, second>>
          [] more(head) /\ more(second) -> <<head, second, third>>

BdevTake ==
    /\ b_dev.at = "run" /\ b_dev.idx # b_avail.idx
    /\ b_dev' = [at |-> "serve", idx |-> Plus(b_dev.idx, 1),
                 chain |-> Followed(b_avail.ring[Slot(b_dev.idx)])]
    /\ UNCHANGED <<b_event, b_guest, b_rings, b_used, disk, b_kicked>>

(* Moves the data, or fails.                                               *)
BdevTransfer ==
    /\ b_dev.at = "serve"
    /\ LET hdr == b_bufs[b_dev.chain[1]].data
           d == b_dev.chain[2]
       IN  \E ok, done \in BOOLEAN :
              /\ ok => done
              /\ hdr[2] = "IN" => ok = done
              /\ disk' = IF hdr[2] = "OUT" /\ done
                           THEN [disk EXCEPT ![hdr[3]] = b_bufs[d].data[2]] ELSE disk
              /\ b_bufs' = IF hdr[2] = "IN" /\ done
                             THEN [b_bufs EXCEPT ![d].data = <<"data", disk[hdr[3]]>>] ELSE b_bufs
              /\ b_dev' = [b_dev EXCEPT !.at = IF ok THEN "OK" ELSE "IOERR"]
    /\ UNCHANGED <<b_event, b_guest, b_desc, b_avail, b_used, b_kicked>>

BdevStatus ==
    /\ b_dev.at \in {"OK", "IOERR"}
    /\ b_bufs' = [b_bufs EXCEPT ![b_dev.chain[3]].data = <<"status", b_dev.at>>]
    /\ b_dev' = [b_dev EXCEPT !.at = "use"]
    /\ UNCHANGED <<b_event, b_guest, b_desc, b_avail, b_used, disk, b_kicked>>

BdevUse ==
    /\ b_dev.at = "use"
    /\ b_used' = [b_used EXCEPT !.ring[Slot(b_used.idx)] = b_dev.chain[1],
                                !.idx = Plus(@, 1)]
    /\ b_dev' = [b_dev EXCEPT !.at = "run", !.chain = <<>>]
    /\ UNCHANGED <<b_event, b_guest, b_rings, disk, b_kicked>>

(* Nothing left: ask for notifications, look again, sleep.                 *)
BdevEmpty ==
    /\ b_dev.at = "run" /\ b_dev.idx = b_avail.idx
    /\ b_dev' = [b_dev EXCEPT !.at = "recheck"]
    /\ b_used' = [b_used EXCEPT !.avail_event = b_dev.idx]
    /\ UNCHANGED <<b_event, b_guest, b_rings, disk, b_kicked>>
BdevRecheck ==
    /\ b_dev.at = "recheck"
    /\ b_dev' = [b_dev EXCEPT !.at = IF b_dev.idx # b_avail.idx THEN "run" ELSE "idle"]
    /\ UNCHANGED <<b_event, b_guest, b_rings, b_used, disk, b_kicked>>
BdevKicked ==
    /\ b_dev.at = "idle" /\ b_kicked /\ b_kicked' = FALSE
    /\ b_dev' = [b_dev EXCEPT !.at = "run"]
    /\ UNCHANGED <<b_event, b_guest, b_rings, b_used, disk>>

BlkGuest == BlkOp \/ BlkNotify \/ BlkSpin \/ BlkConsume \/ BlkReturn
BlkDevice == \/ BdevTake \/ BdevTransfer \/ BdevStatus \/ BdevUse
             \/ BdevEmpty \/ BdevRecheck \/ BdevKicked
BlkNext == BlkCall \/ BlkGuest \/ BlkDevice

-----------------------------------------------------------------------------
(* Type invariant; the driver never counts more free descriptors than      *)
(* there are.                                                              *)
BlkTypeOK ==
    /\ b_pc \in {"app", "op", "notify", "spin", "consume", "abort"}
    /\ b_req \in [type : Types, sector : Sectors, data : Contents]
    /\ blkq.num_avail \in 0 .. Num /\ blkq.last_used \in Indexes
    /\ blkq.next_avail \in Indexes /\ blkq.last_notified_idx \in Indexes
    /\ b_avail.idx \in Indexes /\ b_used.idx \in Indexes /\ b_dev.idx \in Indexes
    /\ disk \in [Sectors -> Contents]

(* What the device is given: header, data in the direction of the request  *)
(* and a status to write, whatever roles the slots had before.             *)
WellFormed(c) ==
    /\ Len(c) = 3 /\ b_bufs[c[1]].data = Header
    /\ b_desc[c[1]].flags = {"NEXT"} /\ b_desc[c[3]].flags = {"WRITE"}
    /\ b_desc[c[2]].flags = {"NEXT"} \cup IF b_req.type = "IN" THEN {"WRITE"} ELSE {}

(* solo5_block_write and solo5_block_read keep their promise across the    *)
(* wrap of the indexes and of the chain: the device only gets well-formed  *)
(* requests, no assertion of the driver fails, a read returns the sector,  *)
(* a write that succeeded is on it, and one that failed has changed        *)
(* nothing else.                                                           *)
BlkKept ==
    /\ BlkTypeOK /\ b_pc # "abort"
    /\ b_dev.at = "serve" => WellFormed(b_dev.chain)
    /\ b_pc = "app" =>
          LET written == [was EXCEPT ![b_req.sector] = b_req.data]
          IN  CASE b_result.code = "OK" /\ b_req.type = "IN" ->
                     disk = was /\ b_result.data = <<"data", disk[b_req.sector]>>
                [] b_result.code = "OK" /\ b_req.type = "OUT" -> disk = written
                [] OTHER -> disk \in {was, written}

(* Every call returns with a device that keeps working: it is told of each *)
(* request, and the spin sees the answer.                                  *)
BlkReturns == b_pc # "app" ~> b_pc = "app"
=============================================================================
