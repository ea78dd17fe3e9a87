----------------------------- MODULE VirtioRecv -----------------------------
(***************************************************************************)
(* The receive queue of a virtio network device: virtio_net_recv(), the    *)
(* blocking loop of solo5_yield() with cpu_block(), the interrupt handler, *)
(* and the device.  Packets are numbered by arrival.                       *)
(*                                                                         *)
(* The guest stores to used_event (or to avail->flags, when the device     *)
(* does not offer event indexes) without a fence, so on x86 the store may  *)
(* stay in the store buffer sb while later loads of used->idx execute.     *)
(* mfence and OUT empty the buffer.  The stores to the avail ring are      *)
(* always followed by mfence, and take effect at once.                     *)
(*                                                                         *)
(* The device is modelled from how the driver uses it: it consumes and     *)
(* returns buffers in order, which the driver relies on.                   *)
(***************************************************************************)
EXTENDS Virtq, Sequences

CONSTANTS
    StoreBuffer,   \* stores the store buffer holds
    MaxPackets     \* bound on the packets that arrive

ASSUME RecvAssumption == StoreBuffer \in Nat /\ MaxPackets \in Nat

VARIABLES
    uses_event_idx,
    pc,                                   \* the guest
    last_used, next_avail, num_avail, last_notified_idx,
    got, delivered,                       \* packet last copied, packets read
    ready,                                \* the result of solo5_yield
    avail_idx, avail_ring,                \* written by the guest
    used_event,                           \* event index, or NO_INTERRUPT
    sb,                                   \* stores to used_event on their way
    used_idx, used_ring, buf, avail_event,   \* written by the device
    dev, dev_avail, signalled, arrived, kicked, isr

guest == <<pc, last_used, next_avail, num_avail, last_notified_idx, got, delivered, ready>>
avail == <<avail_idx, avail_ring>>
event == <<used_event, sb>>
used == <<used_idx, used_ring, buf>>
device == <<avail_event, dev, dev_avail, signalled, arrived>>
vars == <<uses_event_idx, guest, avail, event, used, device, kicked, isr>>

Interrupt == "INTERRUPT"
NoInterrupt == "NO_INTERRUPT"

(* After virtio_net_config and recv_setup: every buffer is available.      *)
Init ==
    /\ uses_event_idx \in BOOLEAN
    /\ pc = "app" /\ last_used = 0 /\ next_avail = Plus(0, Num) /\ num_avail = 0
    /\ last_notified_idx = 0 /\ got = -1 /\ delivered = 0 /\ ready = FALSE
    /\ avail_idx = Plus(0, Num) /\ avail_ring = [s \in Slots |-> s]
    /\ used_event = [idx |-> 0, flag |-> Interrupt] /\ sb = <<>>
    /\ used_idx = 0 /\ used_ring = [s \in Slots |-> 0] /\ buf = [s \in Slots |-> -1]
    /\ avail_event = 0 /\ dev = "idle" /\ dev_avail = 0 /\ signalled = 0
    /\ arrived = 0 /\ kicked = TRUE /\ isr = FALSE

Fence == used_event' = (IF sb = <<>> THEN used_event ELSE sb[Len(sb)]) /\ sb' = <<>>

Drain ==
    /\ sb # <<>>
    /\ used_event' = Head(sb) /\ sb' = Tail(sb)
    /\ UNCHANGED <<uses_event_idx, guest, avail, used, device, kicked, isr>>

(* Suppressing and asking for interrupts.                                  *)
SuppressAt(idx) ==
    IF uses_event_idx THEN [idx |-> Plus(idx, -1), flag |-> Interrupt]
                      ELSE [idx |-> 0, flag |-> NoInterrupt]
RequestAt(idx) == [idx |-> IF uses_event_idx THEN idx ELSE 0, flag |-> Interrupt]

Store(v) == Len(sb) < StoreBuffer /\ sb' = Append(sb, v) /\ UNCHANGED used_event

Goto(from, to) == pc = from /\ pc' = to

-----------------------------------------------------------------------------
(* virtio_net_recv, called by solo5_net_read.                              *)

Recv ==
    /\ Goto("app", "get") /\ Store(SuppressAt(used_idx))
    /\ UNCHANGED <<uses_event_idx, last_used, next_avail, num_avail, last_notified_idx,
                   got, delivered, ready, avail, used, device, kicked, isr>>

PktGetUnchecked ==
    /\ Goto("get", "put") /\ delivered' = delivered + 1
    /\ got' = buf[used_ring[Slot(last_used)]]
    /\ UNCHANGED <<uses_event_idx, last_used, next_avail, num_avail, last_notified_idx,
                   ready, avail, event, used, device, kicked, isr>>
PktGetPutAnyway ==
    /\ Goto("get", "put")
    /\ delivered' = IF last_used = used_idx THEN delivered ELSE delivered + 1
    /\ got' = delivered' - 1
    /\ UNCHANGED <<uses_event_idx, last_used, next_avail, num_avail, last_notified_idx,
                   ready, avail, event, used, device, kicked, isr>>

(* virtio_net_recv_pkt_get.                                                *)
PktGet ==
    /\ pc = "get"
    /\ IF last_used = used_idx
         THEN pc' = "rearm" /\ UNCHANGED <<got, delivered>>
         ELSE /\ pc' = "put" /\ delivered' = delivered + 1
              /\ got' = buf[used_ring[Slot(last_used)]]
    /\ UNCHANGED <<uses_event_idx, last_used, next_avail, num_avail, last_notified_idx,
                   ready, avail, event, used, device, kicked, isr>>

(* The buffer just read goes back: last_used++, num_avail++ and            *)
(* virtio_net_recv_pkt_put with virtq_add_descriptor_chain.                *)
GiveBack(freed) ==
    /\ pc = "put" /\ Fence
    /\ last_used' = Plus(last_used, 1)
    /\ IF num_avail + freed < 1
         THEN /\ pc' = "assertion failed" /\ num_avail' = num_avail + freed
              /\ UNCHANGED <<next_avail, avail>>
         ELSE /\ pc' = "notify" /\ num_avail' = num_avail + freed - 1
              /\ avail_ring' = [avail_ring EXCEPT ![Slot(avail_idx)] = Slot(next_avail)]
              /\ avail_idx' = Plus(avail_idx, 1) /\ next_avail' = Plus(next_avail, 1)
    /\ UNCHANGED <<uses_event_idx, last_notified_idx, got, delivered, ready, used,
                   device, kicked, isr>>

PktPutNotFreed == GiveBack(0)
PktPutTwo == GiveBack(2)
PktPut == GiveBack(1)

(* virtq_notify_needed and the doorbell.                                   *)
NotifyNeeded ==
    IF uses_event_idx THEN NeedEvent(avail_event, avail_idx, last_notified_idx)
                      ELSE dev # "run"

Notify ==
    /\ Goto("notify", "rearm")
    /\ last_notified_idx' = IF uses_event_idx THEN avail_idx ELSE last_notified_idx
    /\ kicked' = (kicked \/ NotifyNeeded)
    /\ UNCHANGED <<uses_event_idx, last_used, next_avail, num_avail, got, delivered,
                   ready, avail, event, used, device, isr>>

Rearm ==
    /\ Goto("rearm", "app") /\ Store(RequestAt(used_idx))
    /\ UNCHANGED <<uses_event_idx, last_used, next_avail, num_avail, last_notified_idx,
                   got, delivered, ready, avail, used, device, kicked, isr>>

-----------------------------------------------------------------------------
(* solo5_yield, with interrupts disabled but in hlt.                       *)

YieldStep == UNCHANGED <<uses_event_idx, last_used, next_avail, num_avail, last_notified_idx,
                         got, delivered, avail, used, device, kicked>>

Yield == Goto("app", "poll") /\ YieldStep /\ UNCHANGED <<event, isr, ready>>

Poll ==
    /\ pc = "poll" /\ YieldStep /\ UNCHANGED <<event, isr>>
    /\ IF last_used # used_idx THEN pc' = "app" /\ ready' = TRUE
                               ELSE pc' = "block" /\ UNCHANGED ready

(* cpu_block: the deadline has passed; it is nearer than the timer can     *)
(* tell, and interrupts are let in for an instant; or the timer is         *)
(* programmed with OUT and the CPU halts.                                  *)
BlockTooLate == Goto("block", "check") /\ YieldStep /\ UNCHANGED <<event, isr, ready>>
BlockTooShort == Goto("block", "check") /\ isr' = FALSE /\ YieldStep /\ UNCHANGED <<event, ready>>
BlockHalt == Goto("block", "hlt") /\ Fence /\ YieldStep /\ UNCHANGED <<isr, ready>>

WakeByDevice ==
    /\ isr /\ Goto("hlt", "check") /\ isr' = FALSE
    /\ YieldStep /\ UNCHANGED <<event, ready>>
WakeByTimer == Goto("hlt", "check") /\ YieldStep /\ UNCHANGED <<event, isr, ready>>

(* The deadline has not been reached, or it has.                           *)
Again == Goto("check", "poll") /\ YieldStep /\ UNCHANGED <<event, isr, ready>>
Timeout(is_ready) ==
    /\ Goto("check", "app") /\ ready' = is_ready
    /\ YieldStep /\ UNCHANGED <<event, isr>>
TimeoutNotReady == Timeout(FALSE)
TimeoutPoll == Timeout(last_used # used_idx)

(* handle_virtio_net_interrupt: acknowledges, and nothing else.            *)
Handler ==
    /\ pc \in {"app", "get", "put", "notify", "rearm"} /\ isr /\ isr' = FALSE
    /\ UNCHANGED <<uses_event_idx, guest, avail, event, used, device, kicked>>

-----------------------------------------------------------------------------
(* The device.                                                             *)

(* A packet arrives and a buffer is used for it.  A batch that is not      *)
(* signalled yet never exceeds the queue.                                  *)
DevReceive ==
    /\ dev = "run" /\ dev_avail # avail_idx /\ arrived < MaxPackets
    /\ Minus(used_idx, signalled) < Num
    /\ LET s == avail_ring[Slot(dev_avail)]
       IN  /\ buf' = [buf EXCEPT ![s] = arrived]
           /\ used_ring' = [used_ring EXCEPT ![Slot(used_idx)] = s]
    /\ used_idx' = Plus(used_idx, 1) /\ dev_avail' = Plus(dev_avail, 1)
    /\ arrived' = arrived + 1
    /\ UNCHANGED <<uses_event_idx, guest, avail, event, avail_event, dev, signalled,
                   kicked, isr>>

WantsInterrupt ==
    IF uses_event_idx THEN NeedEvent(used_event.idx, used_idx, signalled)
                      ELSE used_event.flag = Interrupt

DevSignal ==
    /\ signalled # used_idx /\ signalled' = used_idx
    /\ isr' = (isr \/ WantsInterrupt)
    /\ UNCHANGED <<uses_event_idx, guest, avail, event, used, avail_event, dev, dev_avail,
                   arrived, kicked>>

(* Out of buffers: ask for a notification, look again, wait.               *)
DevEmpty ==
    /\ dev = "run" /\ dev_avail = avail_idx /\ signalled = used_idx
    /\ dev' = "recheck" /\ avail_event' = dev_avail
    /\ UNCHANGED <<uses_event_idx, guest, avail, event, used, dev_avail, signalled,
                   arrived, kicked, isr>>
DevRecheck ==
    /\ dev = "recheck" /\ dev' = IF dev_avail # avail_idx THEN "run" ELSE "idle"
    /\ UNCHANGED <<uses_event_idx, guest, avail, event, used, avail_event, dev_avail,
                   signalled, arrived, kicked, isr>>
DevKicked ==
    /\ dev = "idle" /\ kicked /\ kicked' = FALSE /\ dev' = "run"
    /\ UNCHANGED <<uses_event_idx, guest, avail, event, used, avail_event, dev_avail,
                   signalled, arrived, isr>>

RecvStep == PktGet \/ PktPut \/ Notify \/ Rearm
YieldLoop == Poll \/ BlockTooLate \/ BlockTooShort \/ BlockHalt \/ Again \/ TimeoutPoll
Device == DevReceive \/ DevSignal \/ DevEmpty \/ DevRecheck \/ DevKicked

Next ==
    \/ Recv \/ Yield \/ RecvStep \/ YieldLoop \/ WakeByDevice \/ WakeByTimer
    \/ Handler \/ Drain \/ Device

Spec == Init /\ [][Next]_vars

(* The guest runs, its stores drain, and the programmed timer fires.       *)
FairSpec == Spec /\ WF_vars(RecvStep) /\ WF_vars(YieldLoop) /\ WF_vars(WakeByTimer)
            /\ WF_vars(Drain)

-----------------------------------------------------------------------------
Event == [idx : Indexes, flag : {Interrupt, NoInterrupt}]
InYield == pc \in {"poll", "block", "hlt", "check"}

(* Type invariant: indexes wrap at Word, the driver never counts more free *)
(* descriptors than there are, slots and events are of their kind.         *)
TypeOK ==
    /\ last_used \in Indexes /\ next_avail \in Indexes /\ num_avail \in 0 .. Num
    /\ avail_idx \in Indexes /\ used_idx \in Indexes
    /\ avail_ring \in [Slots -> Slots] /\ used_ring \in [Slots -> Slots]
    /\ used_event \in Event /\ sb \in Seq(Event) /\ Len(sb) <= StoreBuffer
    /\ last_notified_idx \in Indexes /\ avail_event \in Indexes
    /\ dev_avail \in Indexes /\ signalled \in Indexes

(* Every packet is read once, in the order of arrival, with its own        *)
(* contents, although buffers are given back in next_avail order and not   *)
(* by the descriptor just read.                                            *)
DeliveredInOrder == got = delivered - 1

(* A packet the device has delivered stays in its buffer until it is read: *)
(* the driver has not given that buffer back.                              *)
UnreadIntact ==
    \A k \in 0 .. Num - 1 :
        delivered + k < arrived =>
            buf[used_ring[(delivered + k) % Num]] = delivered + k

(* Between calls every buffer is with the device or holds an unread        *)
(* packet, and virtq_add_descriptor_chain never finds the queue full.      *)
BuffersConserved ==
    /\ pc # "assertion failed"
    /\ pc \notin {"put", "assertion failed"} => num_avail = 0
    /\ pc # "put" => Minus(avail_idx, last_used) = Num % Word

(* The device never waits for buffers it has been given: when it is idle   *)
(* with buffers available, a notification is on its way.                   *)
NoLostKick == dev = "idle" /\ dev_avail # avail_idx => kicked \/ pc = "notify"

(* The state of the queue between the guest's steps and the device's: all  *)
(* of the above.                                                           *)
BuffersSound == TypeOK /\ UnreadIntact /\ BuffersConserved /\ NoLostKick

(* solo5_yield reports a packet that is there while it runs: however the   *)
(* interrupt was missed, the timer brings the loop back to the poll, and   *)
(* the deadline is followed by a last poll.                                *)
YieldReports == (InYield /\ last_used # used_idx) ~> (pc = "app" /\ ready)

(* "We only need interrupts to wake up the application when it's sleeping  *)
(* and waiting for incoming packets": a halted guest with a packet waiting *)
(* has an interrupt raised or about to be.                                 *)
InterruptComing ==
    pc = "hlt" /\ last_used # used_idx => isr \/ (signalled # used_idx /\ WantsInterrupt)
=============================================================================
