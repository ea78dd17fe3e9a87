----------------------------- MODULE VirtioXmit -----------------------------
(***************************************************************************)
(* The transmit queue of a virtio network device: virtio_net_xmit_packet() *)
(* and the device.  A packet takes two descriptors, a header and its data; *)
(* packets are numbered in the order of the calls.  The device, modelled   *)
(* from how the driver uses it, transmits and returns chains in order.     *)
(***************************************************************************)
EXTENDS Virtq

CONSTANTS
    RecvNum,      \* size of the receive queue
    MaxPackets    \* bound on the packets written

VARIABLES
    uses_event_idx, bufs_len,       \* bufs_len: entries allocated in xmitq.bufs
    pc, packet,                     \* the guest; packets written so far
    last_used, next_avail, num_avail, last_notified_idx,
    avail_idx, avail_ring, bufs,    \* bufs[s]: the packet whose data s holds
    used_idx, avail_event,
    dev, dev_avail, kicked,         \* the device
    wire                            \* packets sent, or -1 after a wrong one

config == <<uses_event_idx, bufs_len>>
guest == <<pc, packet, last_used, next_avail, num_avail, last_notified_idx>>
avail == <<avail_idx, avail_ring, bufs>>
device == <<used_idx, avail_event, dev, dev_avail, wire>>
vars == <<config, guest, avail, device, kicked>>

(* virtio_net_config and virtq_init_rings.  xmitq.bufs is allocated for    *)
(* recvq.num entries.  Transmit interrupts, which virtio_net_config        *)
(* suppresses and the handler would ignore, are left out.                  *)
Init ==
    /\ uses_event_idx \in BOOLEAN /\ bufs_len = RecvNum
    /\ pc = "app" /\ packet = 0
    /\ last_used = 0 /\ next_avail = 0 /\ num_avail = Num /\ last_notified_idx = 0
    /\ avail_idx = 0 /\ avail_ring = [s \in Slots |-> 0] /\ bufs = [s \in Slots |-> -1]
    /\ used_idx = 0 /\ avail_event = 0
    /\ dev = "idle" /\ dev_avail = 0 /\ kicked = FALSE /\ wire = 0

(* Consume used descriptors from all the previous transmissions.           *)
ReclaimHalf ==
    /\ num_avail' = num_avail + Minus(used_idx, last_used)
    /\ last_used' = used_idx
ReclaimAll ==
    /\ num_avail' = num_avail + 2 * Minus(used_idx, last_used)
    /\ last_used' = used_idx

NetWrite ==
    /\ pc = "app" /\ packet < MaxPackets
    /\ ReclaimAll
    /\ pc' = IF num_avail' < 2 THEN "full" ELSE "add"
    /\ UNCHANGED <<config, packet, next_avail, last_notified_idx, avail, device, kicked>>

(* The queue is full: kick the host, then spin.                            *)
KickFull ==
    /\ pc = "full" /\ pc' = "spin" /\ kicked' = TRUE
    /\ UNCHANGED <<config, packet, last_used, next_avail, num_avail, last_notified_idx,
                   avail, device>>
SpinOnce ==
    /\ pc = "spin" /\ ReclaimAll /\ pc' = "add"
    /\ UNCHANGED <<config, packet, next_avail, last_notified_idx, avail, device, kicked>>
SpinHoisted == pc = "spin" /\ UNCHANGED vars
Spin ==
    /\ pc = "spin" /\ last_used # used_idx
    /\ ReclaimAll /\ pc' = "add"
    /\ UNCHANGED <<config, packet, next_avail, last_notified_idx, avail, device, kicked>>

(* Fill the buffers; virtq_add_descriptor_chain, whose result is ignored.  *)
AddChain ==
    /\ pc = "add" /\ pc' = "notify" /\ packet' = packet + 1
    /\ bufs' = [bufs EXCEPT ![Slot(next_avail + 1)] = packet]
    /\ IF num_avail < 2
         THEN UNCHANGED <<num_avail, next_avail, avail_idx, avail_ring>>
         ELSE /\ avail_ring' = [avail_ring EXCEPT ![Slot(avail_idx)] = Slot(next_avail)]
              /\ avail_idx' = Plus(avail_idx, 1)
              /\ num_avail' = num_avail - 2 /\ next_avail' = Plus(next_avail, 2)
    /\ UNCHANGED <<config, last_used, last_notified_idx, device, kicked>>

NotifyNeeded ==
    IF uses_event_idx THEN NeedEvent(avail_event, avail_idx, last_notified_idx)
                      ELSE dev # "run"

Notify ==
    /\ pc = "notify" /\ pc' = "app"
    /\ last_notified_idx' = IF uses_event_idx THEN avail_idx ELSE last_notified_idx
    /\ kicked' = (kicked \/ NotifyNeeded)
    /\ UNCHANGED <<config, packet, last_used, next_avail, num_avail, avail, device>>

-----------------------------------------------------------------------------
(* The device.                                                             *)

(* Reads the data of the next chain and sends it.                          *)
DevSend ==
    /\ dev = "run" /\ dev_avail # avail_idx
    /\ LET data == bufs[Slot(avail_ring[Slot(dev_avail)] + 1)]
       IN  wire' = IF data = wire THEN wire + 1 ELSE -1
    /\ dev_avail' = Plus(dev_avail, 1)
    /\ UNCHANGED <<config, guest, avail, used_idx, avail_event, dev, kicked>>

(* Returns a chain it has sent.                                            *)
DevUse ==
    /\ used_idx # dev_avail /\ used_idx' = Plus(used_idx, 1)
    /\ UNCHANGED <<config, guest, avail, avail_event, dev, dev_avail, wire, kicked>>

DevEmpty ==
    /\ dev = "run" /\ dev_avail = avail_idx
    /\ dev' = "recheck" /\ avail_event' = dev_avail
    /\ UNCHANGED <<config, guest, avail, used_idx, dev_avail, wire, kicked>>
DevRecheck ==
    /\ dev = "recheck" /\ dev' = IF dev_avail # avail_idx THEN "run" ELSE "idle"
    /\ UNCHANGED <<config, guest, avail, used_idx, avail_event, dev_avail, wire, kicked>>
DevKicked ==
    /\ dev = "idle" /\ kicked /\ kicked' = FALSE /\ dev' = "run"
    /\ UNCHANGED <<config, guest, avail, used_idx, avail_event, dev_avail, wire>>

Guest == KickFull \/ Spin \/ AddChain \/ Notify
Device == DevSend \/ DevUse \/ DevEmpty \/ DevRecheck \/ DevKicked
Next == NetWrite \/ Guest \/ Device

Spec == Init /\ [][Next]_vars

(* The host runs the guest and serves its device.                           *)
FairSpec ==
    /\ Spec /\ WF_vars(Guest)
    /\ WF_vars(DevSend \/ DevEmpty \/ DevRecheck \/ DevKicked) /\ WF_vars(DevUse)

-----------------------------------------------------------------------------
(* Type invariant: indexes wrap at Word and the driver never counts more   *)
(* free descriptors than the queue has.                                    *)
TypeOK ==
    /\ pc \in {"app", "full", "spin", "add", "notify"}
    /\ last_used \in Indexes /\ next_avail \in Indexes /\ num_avail \in 0 .. Num
    /\ avail_idx \in Indexes /\ used_idx \in Indexes /\ dev_avail \in Indexes
    /\ avail_ring \in [Slots -> Slots] /\ last_notified_idx \in Indexes
    /\ avail_event \in Indexes

(* Every accepted packet goes out once, in order, with its own data: a     *)
(* buffer is not filled again before the device has returned its chain.    *)
SentInOrder == wire \in 0 .. packet

(* Descriptors are neither lost nor freed twice across the 16-bit wrap of  *)
(* the indexes: those not free are those of the chains the driver has not  *)
(* reclaimed.                                                              *)
DescriptorsConserved == num_avail + 2 * Minus(avail_idx, last_used) = Num

(* A packet is never stranded: when the device waits although a chain is   *)
(* available, a notification is on its way.                                *)
NoLostKick == dev = "idle" /\ dev_avail # avail_idx => kicked \/ pc = "notify"

(* The state of the queue between the guest's steps and the device's: all  *)
(* of the above.                                                           *)
QueueSound == TypeOK /\ DescriptorsConserved /\ NoLostKick

(* An even, or odd, number of packets has been sent, and not all of them.  *)
Waiting(r) == wire % 2 = r /\ wire < packet

(* Every packet solo5_net_write accepts is sent by a device that keeps     *)
(* working: the driver's notifications suffice to get each next one out.   *)
EverySent == \A r \in 0 .. 1 : Waiting(r) ~> ~Waiting(r)

(* Every call of solo5_net_write returns, also one that spins on a full    *)
(* queue, with a device that keeps working: the spin sees what it returns. *)
WritesReturn == pc # "app" ~> pc = "app"

(* "An array of io_buffer's of size virtq.num (same as virtq.desc) is      *)
(* allocated during init."                                                 *)
BufsAllocated == \A s \in Slots : bufs[s] # -1 => s < bufs_len
=============================================================================
