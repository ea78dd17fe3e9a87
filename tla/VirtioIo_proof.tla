--------------------------- MODULE VirtioIo_proof ---------------------------
(***************************************************************************)
(* The queues through which a virtio guest sends, for every queue size,    *)
(* every index word that is a multiple of it, any number of packets and    *)
(* requests and every disk.                                                *)
(*                                                                         *)
(* First the transmit queue (XmitInv), then the block queue (BlkInv), then *)
(* the guest that has both.                                                *)
(***************************************************************************)
EXTENDS VirtioIo, Arithmetic

(* The sizes, as the steps below use them.                                 *)
LEMMA QueueSizes ==
    Num \in Nat \ {0} /\ Word \in Nat \ {0} /\ Num < Word /\ 1 < Word /\ Word % Num = 0
BY VirtqAssumption

(* Without their wraps the indexes are counts of chains: l the driver has  *)
(* reclaimed, u the device has returned, wire it has sent and packet the   *)
(* driver has added.                                                       *)
Counted(l, u) ==
    /\ l <= u /\ u <= wire /\ wire <= packet
    /\ num_avail + 2 * (packet - l) = Num
    /\ last_used = l % Word /\ used_idx = u % Word
    /\ dev_avail = wire % Word /\ avail_idx = packet % Word
    /\ next_avail = (2 * packet) % Word

(* The chains not yet reclaimed are in the ring, with their data.          *)
Chained(l) ==
    \A k \in Nat : l <= k /\ k < packet =>
        avail_ring[k % Num] = (2 * k) % Num /\ bufs[(2 * k + 1) % Num] = k

(* The last chain has been announced but in "notify"; an idle device that  *)
(* is not kicked lacks that chain at most, and asked to be told of it.     *)
Announced ==
    /\ uses_event_idx => last_notified_idx = (IF pc = "notify" THEN packet - 1 ELSE packet) % Word
    /\ dev \in {"idle", "recheck"} => avail_event = dev_avail
    /\ dev = "idle" /\ ~kicked => wire = packet \/ (pc = "notify" /\ wire = packet - 1)
    /\ pc = "notify" => packet > 0

(* The rest of the queue's state.                                          *)
XmitTypes ==
    /\ pc \in {"app", "full", "spin", "add", "notify"}
    /\ dev \in {"idle", "run", "recheck"}
    /\ num_avail \in Nat /\ packet \in Nat /\ wire \in Nat
    /\ avail_ring \in [Slots -> Slots] /\ bufs = [s \in Slots |-> bufs[s]]
    /\ last_notified_idx \in Indexes /\ avail_event \in Indexes
    /\ pc = "add" => num_avail >= 2

XmitInv == XmitTypes /\ Announced /\ \E l, u \in Nat : Counted(l, u) /\ Chained(l)

(* Counts that differ by less than a word differ as indexes.               *)
LEMMA Apart2 ==
    ASSUME NEW x \in Nat, NEW y \in Nat, y <= x, x <= y + Num
    PROVE  Minus(x % Word, y % Word) = x - y /\ (x % Word = y % Word <=> x = y)
<1>1. ((x % Word) - (y % Word)) % Word = x - y
  <2>1. y <= x /\ x < y + Word
    BY QueueSizes
  <2> QED
    BY <2>1, QueueSizes, WrapMinus, Zenon
<1>2. x % Word \in Nat /\ y % Word \in Nat
  BY QueueSizes
<1>3. Minus(x % Word, y % Word) = x - y
  BY <1>1, <1>2 DEF Minus
<1>4. x % Word = y % Word => x - y = 0
  <2> SUFFICES ASSUME x % Word = y % Word PROVE x - y = 0
    OBVIOUS
  <2>1. (x % Word) - (y % Word) = 0
    BY <1>2
  <2>2. 0 % Word = 0
    BY QueueSizes
  <2> QED
    BY <1>3, <2>1, <2>2 DEF Minus
<1> QED
  BY <1>3, <1>4

(* Advancing an index is advancing its count.                              *)
LEMMA PlusWraps ==
    ASSUME NEW x \in Nat, NEW n \in Nat PROVE Plus(x % Word, n) = (x + n) % Word
BY QueueSizes, WrapPlus, Zenon DEF Plus

(* An index and its count select the same slot.                            *)
LEMMA SlotWraps ==
    ASSUME NEW x \in Nat, NEW n \in Nat
    PROVE  /\ Slot((x % Word) + n) = (x + n) % Num /\ Slot(x % Word) = x % Num
           /\ Slot((x % Num) + n) = (x + n) % Num /\ x % Num \in Slots
<1>0. x % Word \in Nat
  BY QueueSizes
<1>1. (x % Word) % Num = x % Num
  BY QueueSizes, WrapSlot, Zenon
<1>2. (((x % Word) % Num) + n) % Num = ((x % Word) + n) % Num
  BY <1>0, QueueSizes, WrapPlus, Zenon
<1>3. ((x % Num) + n) % Num = (x + n) % Num
  BY QueueSizes, WrapPlus, Zenon
<1>4. x % Num \in Slots
  BY QueueSizes DEF Slots
<1> QED
  BY <1>1, <1>2, <1>3, <1>4 DEF Slot

(* The queue starts empty, with all descriptors free.                      *)
LEMMA XmitInitInv == Init => XmitInv
<1> SUFFICES ASSUME Init PROVE XmitInv
  OBVIOUS
<1>1. 0 % Word = 0 /\ 0 \in Indexes /\ 0 \in Slots
  BY QueueSizes DEF Indexes, Slots
<1>2. XmitTypes
  BY <1>1, QueueSizes DEF Init, XmitTypes
<1>3. Announced
  BY <1>1 DEF Init, Announced
<1>4. Counted(0, 0)
  <2>1. (2 * 0) % Word = 0 /\ Num + 2 * (0 - 0) = Num
    BY <1>1, QueueSizes
  <2> QED
    BY <1>1, <2>1 DEF Init, Counted
<1>5. Chained(0)
  BY DEF Init, Chained
<1> QED
  BY <1>2, <1>3, <1>4, <1>5 DEF XmitInv

(* Reclaiming brings the driver's count of free descriptors up to what the *)
(* device has returned.                                                    *)
LEMMA ReclaimCounts ==
    ASSUME XmitTypes, NEW l \in Nat, NEW u \in Nat, Counted(l, u), Chained(l), ReclaimAll,
           UNCHANGED <<packet, wire, used_idx, dev_avail, avail_idx, next_avail, avail_ring, bufs>>
    PROVE  /\ Counted(u, u)' /\ Chained(u)' /\ num_avail' \in Nat
           /\ last_used # used_idx => num_avail' >= 2
<1>1. l <= u /\ u <= wire /\ wire <= packet /\ num_avail + 2 * (packet - l) = Num
      /\ num_avail \in Nat /\ packet \in Nat /\ wire \in Nat
  BY DEF Counted, XmitTypes
<1>2. Minus(used_idx, last_used) = u - l /\ (used_idx = last_used <=> u = l)
  <2>1. u <= l + Num
    BY <1>1, QueueSizes
  <2> QED
    BY <1>1, <2>1, Apart2 DEF Counted
<1>3. num_avail' = num_avail + 2 * (u - l) /\ last_used' = u % Word
  BY <1>2 DEF ReclaimAll, Counted
<1>4. num_avail' \in Nat /\ num_avail' + 2 * (packet - u) = Num /\ (u # l => num_avail' >= 2)
  BY <1>1, <1>3
<1>5. Counted(u, u)'
  BY <1>1, <1>3, <1>4 DEF Counted
<1>6. Chained(u)'
  BY <1>1 DEF Chained
<1> QED
  BY <1>2, <1>4, <1>5, <1>6

(* virtio_net_xmit_packet up to its buffers.                               *)
LEMMA XmitCallInv == ASSUME XmitInv, NetWrite \/ KickFull \/ Spin PROVE XmitInv'
<1>1. PICK l \in Nat, u \in Nat : Counted(l, u) /\ Chained(l)
  BY DEF XmitInv
<1>2. CASE NetWrite \/ Spin
  <2>1. /\ ReclaimAll /\ pc \in {"app", "spin"} /\ pc' \in {"full", "add"}
        /\ (pc' = "add" => num_avail' >= 2 \/ last_used # used_idx)
        /\ UNCHANGED <<config, packet, next_avail, last_notified_idx, avail, device, kicked>>
    <3>1. num_avail' \in Nat
      BY <1>1, <1>2, ReclaimCounts DEF NetWrite, Spin, XmitInv, avail, device
    <3> QED
      BY <1>2, <3>1 DEF NetWrite, Spin
  <2>2. /\ Counted(u, u)' /\ Chained(u)' /\ num_avail' \in Nat
        /\ last_used # used_idx => num_avail' >= 2
    BY <1>1, <2>1, ReclaimCounts DEF XmitInv, avail, device
  <2>3. XmitTypes'
    BY <2>1, <2>2 DEF XmitInv, XmitTypes, avail, device
  <2>4. Announced'
    BY <2>1 DEF XmitInv, Announced, config, device
  <2> QED
    BY <2>2, <2>3, <2>4 DEF XmitInv
<1>3. CASE KickFull
  <2>1. /\ pc = "full" /\ pc' = "spin" /\ kicked' = TRUE
        /\ UNCHANGED <<config, packet, last_used, next_avail, num_avail, last_notified_idx, avail, device>>
    BY <1>3 DEF KickFull
  <2>2. XmitTypes' /\ Announced'
    BY <2>1 DEF XmitInv, XmitTypes, Announced, config, avail, device
  <2>3. Counted(l, u)' /\ Chained(l)'
    BY <1>1, <2>1 DEF Counted, Chained, avail, device
  <2> QED
    BY <2>2, <2>3 DEF XmitInv
<1> QED
  BY <1>2, <1>3

(* A chain goes into descriptors, into a slot of the ring and into a       *)
(* buffer that no chain still out uses.                                    *)
LEMMA AddChainInv == ASSUME XmitInv, AddChain PROVE XmitInv'
<1>1. PICK l \in Nat, u \in Nat : Counted(l, u) /\ Chained(l)
  BY DEF XmitInv
<1>2. /\ l <= u /\ u <= wire /\ wire <= packet /\ num_avail + 2 * (packet - l) = Num
      /\ num_avail \in Nat /\ packet \in Nat /\ wire \in Nat /\ num_avail >= 2
      /\ avail_idx = packet % Word /\ next_avail = (2 * packet) % Word
  BY <1>1 DEF Counted, XmitInv, XmitTypes, AddChain
<1>3. /\ pc = "add" /\ pc' = "notify" /\ packet' = packet + 1
      /\ bufs' = [bufs EXCEPT ![Slot(next_avail + 1)] = packet]
      /\ avail_ring' = [avail_ring EXCEPT ![Slot(avail_idx)] = Slot(next_avail)]
      /\ avail_idx' = Plus(avail_idx, 1)
      /\ num_avail' = num_avail - 2 /\ next_avail' = Plus(next_avail, 2)
      /\ UNCHANGED <<uses_event_idx, last_used, last_notified_idx, used_idx, avail_event, dev,
                     dev_avail, wire, kicked>>
  BY <1>2 DEF AddChain, config, device
<1> DEFINE n == 2 * packet
<1>4. n \in Nat
  BY <1>2
<1>5. /\ Slot(next_avail + 1) = (n + 1) % Num /\ Slot(next_avail) = n % Num
      /\ n % Num \in Slots /\ (n + 1) % Num \in Slots
      /\ Slot(avail_idx) = packet % Num /\ packet % Num \in Slots
  <2>1. next_avail = n % Word
    BY <1>2
  <2> HIDE DEF n
  <2>2. Slot(next_avail + 1) = (n + 1) % Num
    BY <1>4, <2>1, SlotWraps
  <2>3. Slot(next_avail) = n % Num /\ n % Num \in Slots
    BY <1>4, <2>1, SlotWraps
  <2>4. (n + 1) % Num \in Slots
    BY <1>4, SlotWraps, n + 1 \in Nat
  <2>5. Slot(avail_idx) = packet % Num /\ packet % Num \in Slots
    BY <1>2, SlotWraps
  <2> QED
    BY <2>2, <2>3, <2>4, <2>5
<1>6. avail_idx' = (packet + 1) % Word /\ next_avail' = (2 * (packet + 1)) % Word
  <2>1. Plus(packet % Word, 1) = (packet + 1) % Word
    BY <1>2, PlusWraps
  <2>2. Plus(n % Word, 2) = (n + 2) % Word
    BY <1>4, PlusWraps
  <2>3. n + 2 = 2 * (packet + 1)
    BY <1>2
  <2> QED
    BY <1>2, <1>3, <2>1, <2>2, <2>3
<1>7. /\ avail_ring' \in [Slots -> Slots] /\ bufs' = [s \in Slots |-> bufs'[s]]
      /\ avail_ring'[packet % Num] = n % Num /\ bufs'[(n + 1) % Num] = packet
      /\ \A s \in Slots : s # packet % Num => avail_ring'[s] = avail_ring[s]
      /\ \A s \in Slots : s # (n + 1) % Num => bufs'[s] = bufs[s]
  <2> HIDE DEF n
  <2> QED
    BY <1>3, <1>5 DEF XmitInv, XmitTypes
<1>8. Chained(l)'
  <2> SUFFICES ASSUME NEW k \in Nat, l <= k, k < packet + 1
               PROVE  avail_ring'[k % Num] = (2 * k) % Num /\ bufs'[(2 * k + 1) % Num] = k
    BY <1>3 DEF Chained
  <2>1. CASE k = packet
    BY <1>7, <2>1
  <2>2. CASE k < packet
    <3>1. packet < k + Num /\ 2 * k + 1 < n + 1 /\ n + 1 < 2 * k + 1 + Num
          /\ 2 * k + 1 \in Nat /\ n + 1 \in Nat
      BY <1>2, <2>2
    <3>2. packet % Num # k % Num
      BY <1>2, <2>2, <3>1, QueueSizes, Apart, Zenon
    <3>3. (n + 1) % Num # (2 * k + 1) % Num
      <4> HIDE DEF n
      <4> QED
        BY <3>1, QueueSizes, Apart, Zenon
    <3>4. k % Num \in Slots /\ (2 * k + 1) % Num \in Slots
      BY <3>1, SlotWraps
    <3>5. avail_ring[k % Num] = (2 * k) % Num /\ bufs[(2 * k + 1) % Num] = k
      BY <1>1, <2>2 DEF Chained
    <3> QED
      BY <1>7, <3>2, <3>3, <3>4, <3>5
  <2> QED
    BY <1>2, <2>1, <2>2
<1>9. Counted(l, u)'
  <2>1. num_avail' + 2 * (packet' - l) = Num /\ wire <= packet + 1
    BY <1>2, <1>3
  <2> QED
    BY <1>1, <1>3, <1>6, <2>1 DEF Counted
<1>10. XmitTypes'
  BY <1>2, <1>3, <1>7 DEF XmitInv, XmitTypes
<1>11. Announced'
  <2>1. packet' - 1 = packet /\ packet' > 0
    BY <1>2, <1>3
  <2> QED
    BY <1>3, <2>1 DEF XmitInv, Announced
<1> QED
  BY <1>8, <1>9, <1>10, <1>11 DEF XmitInv

(* An idle device is told of the chain it asked to be told of.             *)
LEMMA NotifyInv == ASSUME XmitInv, Notify PROVE XmitInv'
<1>1. PICK l \in Nat, u \in Nat : Counted(l, u) /\ Chained(l)
  BY DEF XmitInv
<1>2. /\ pc = "notify" /\ pc' = "app"
      /\ last_notified_idx' = (IF uses_event_idx THEN avail_idx ELSE last_notified_idx)
      /\ kicked' = (kicked \/ NotifyNeeded)
      /\ UNCHANGED <<config, packet, last_used, next_avail, num_avail, avail, device>>
  BY DEF Notify
<1>3. packet \in Nat /\ packet > 0 /\ wire \in Nat /\ avail_idx = packet % Word
      /\ dev_avail = wire % Word /\ avail_idx \in Indexes
  <2>1. packet % Word \in Indexes
    BY QueueSizes DEF XmitInv, XmitTypes, Indexes
  <2> QED
    BY <1>1, <1>2, <2>1 DEF XmitInv, XmitTypes, Announced, Counted
<1>4. ASSUME dev = "idle", wire = packet - 1 PROVE NotifyNeeded
  <2>1. CASE ~uses_event_idx
    BY <1>4, <2>1 DEF NotifyNeeded
  <2>2. CASE uses_event_idx
    <3>1. avail_event = (packet - 1) % Word /\ last_notified_idx = (packet - 1) % Word
      BY <1>2, <1>3, <1>4, <2>2 DEF XmitInv, Announced
    <3>2. packet - 1 \in Nat /\ packet - 1 <= packet /\ packet <= (packet - 1) + Num
      BY <1>3, QueueSizes
    <3>3. Minus(avail_idx, last_notified_idx) = 1
      <4>1. Minus(packet % Word, (packet - 1) % Word) = packet - (packet - 1)
        BY <1>3, <3>2, Apart2
      <4> QED
        BY <1>3, <3>1, <4>1
    <3>4. Minus(avail_idx, avail_event + 1) = 0
      <4>1. packet - 1 < packet /\ packet <= (packet - 1) + Word
        BY <1>3, QueueSizes
      <4>2. ((packet % Word) - (((packet - 1) % Word) + 1)) % Word = packet - (packet - 1) - 1
        BY <1>3, <3>2, <4>1, QueueSizes, WrapNext, ZenonT(30)
      <4>3. packet - (packet - 1) - 1 = 0
        BY <1>3
      <4> QED
        BY <1>3, <3>1, <4>2, <4>3 DEF Minus
    <3> QED
      BY <2>2, <3>3, <3>4 DEF NotifyNeeded, NeedEvent
  <2> QED
    BY <2>1, <2>2
<1>5. Announced'
  BY <1>2, <1>3, <1>4, Zenon DEF XmitInv, Announced, config, avail, device
<1>6. XmitTypes'
  BY <1>2, <1>3 DEF XmitInv, XmitTypes, config, avail, device
<1>7. Counted(l, u)' /\ Chained(l)'
  BY <1>1, <1>2 DEF Counted, Chained, avail, device
<1> QED
  BY <1>5, <1>6, <1>7 DEF XmitInv

(* The device sends the data of the next chain, not of a later one.        *)
LEMMA DevSendInv == ASSUME XmitInv, DevSend PROVE XmitInv'
<1>1. PICK l \in Nat, u \in Nat : Counted(l, u) /\ Chained(l)
  BY DEF XmitInv
<1>2. /\ dev = "run" /\ dev_avail # avail_idx /\ dev_avail' = Plus(dev_avail, 1)
      /\ wire' = (IF bufs[Slot(avail_ring[Slot(dev_avail)] + 1)] = wire THEN wire + 1 ELSE -1)
      /\ UNCHANGED <<config, guest, avail, used_idx, avail_event, dev, kicked>>
  BY DEF DevSend
<1>3. /\ l <= u /\ u <= wire /\ wire < packet /\ packet \in Nat /\ wire \in Nat
      /\ dev_avail = wire % Word
  <2>1. wire # packet
    BY <1>1, <1>2 DEF Counted
  <2>2. /\ l <= u /\ u <= wire /\ wire <= packet /\ packet \in Nat /\ wire \in Nat
        /\ dev_avail = wire % Word
    BY <1>1 DEF Counted, XmitInv, XmitTypes
  <2> QED
    BY <2>1, <2>2
<1>4. Slot(dev_avail) = wire % Num /\ l <= wire
  BY <1>3, SlotWraps
<1>5. avail_ring[Slot(dev_avail)] = (2 * wire) % Num /\ bufs[(2 * wire + 1) % Num] = wire
  BY <1>1, <1>3, <1>4 DEF Chained
<1>6. Slot(avail_ring[Slot(dev_avail)] + 1) = (2 * wire + 1) % Num
  BY <1>3, <1>5, SlotWraps, 2 * wire \in Nat
<1>7. wire' = wire + 1 /\ dev_avail' = (wire + 1) % Word
  BY <1>2, <1>3, <1>5, <1>6, PlusWraps, Zenon
<1>8. Counted(l, u)' /\ Chained(l)'
  <2>1. u <= wire + 1 /\ wire + 1 <= packet
    BY <1>3
  <2> QED
    BY <1>1, <1>2, <1>7, <2>1 DEF Counted, Chained, guest, avail
<1>9. XmitTypes' /\ Announced'
  BY <1>2, <1>3, <1>7 DEF XmitInv, XmitTypes, Announced, config, guest, avail
<1> QED
  BY <1>8, <1>9 DEF XmitInv

(* It returns chains it has sent.                                          *)
LEMMA DevUseInv == ASSUME XmitInv, DevUse PROVE XmitInv'
<1>1. PICK l \in Nat, u \in Nat : Counted(l, u) /\ Chained(l)
  BY DEF XmitInv
<1>2. /\ used_idx # dev_avail /\ used_idx' = Plus(used_idx, 1)
      /\ UNCHANGED <<config, guest, avail, avail_event, dev, dev_avail, wire, kicked>>
  BY DEF DevUse
<1>3. l <= u /\ u < wire /\ wire \in Nat /\ used_idx' = (u + 1) % Word
  <2>1. u # wire
    BY <1>1, <1>2 DEF Counted
  <2>2. l <= u /\ u <= wire /\ wire \in Nat /\ used_idx = u % Word
    BY <1>1 DEF Counted, XmitInv, XmitTypes
  <2>3. used_idx' = (u + 1) % Word
    BY <1>2, <2>2, PlusWraps
  <2> QED
    BY <2>1, <2>2, <2>3
<1>4. Counted(l, u + 1)' /\ Chained(l)' /\ u + 1 \in Nat
  <2>1. l <= u + 1 /\ u + 1 <= wire
    BY <1>3
  <2> QED
    BY <1>1, <1>2, <1>3, <2>1 DEF Counted, Chained, guest, avail
<1>5. XmitTypes' /\ Announced'
  BY <1>2 DEF XmitInv, XmitTypes, Announced, config, guest, avail
<1> QED
  BY <1>4, <1>5 DEF XmitInv

(* It sleeps only with nothing left, after asking for the next chain.      *)
LEMMA DevSleepInv == ASSUME XmitInv, DevEmpty \/ DevRecheck \/ DevKicked PROVE XmitInv'
<1>1. PICK l \in Nat, u \in Nat : Counted(l, u) /\ Chained(l)
  BY DEF XmitInv
<1>2. UNCHANGED <<config, guest, avail, used_idx, dev_avail, wire>>
  BY DEF DevEmpty, DevRecheck, DevKicked
<1>3. Counted(l, u)' /\ Chained(l)'
  BY <1>1, <1>2 DEF Counted, Chained, guest, avail
<1>4. dev_avail \in Indexes /\ (dev_avail = avail_idx => wire = packet)
  <2>1. l <= u /\ u <= wire /\ wire <= packet /\ num_avail + 2 * (packet - l) = Num
        /\ num_avail \in Nat /\ packet \in Nat /\ wire \in Nat
        /\ avail_idx = packet % Word /\ dev_avail = wire % Word
    BY <1>1 DEF Counted, XmitInv, XmitTypes
  <2>2. packet <= wire + Num
    BY <2>1, QueueSizes
  <2>3. dev_avail = avail_idx => wire = packet
    BY <2>1, <2>2, Apart2
  <2> QED
    BY <2>1, <2>3, QueueSizes DEF Indexes
<1>5. CASE DevEmpty
  BY <1>2, <1>3, <1>4, <1>5 DEF DevEmpty, XmitInv, XmitTypes, Announced, config, guest, avail
<1>6. CASE DevRecheck
  BY <1>2, <1>3, <1>4, <1>6 DEF DevRecheck, XmitInv, XmitTypes, Announced, config, guest, avail
<1>7. CASE DevKicked
  BY <1>2, <1>3, <1>4, <1>7 DEF DevKicked, XmitInv, XmitTypes, Announced, config, guest, avail
<1> QED
  BY <1>5, <1>6, <1>7

(* So no step of the driver or of the device breaks the invariant.         *)
LEMMA XmitNextInv == XmitInv /\ [Next]_vars => XmitInv'
<1>1. ASSUME XmitInv, UNCHANGED vars PROVE XmitInv'
  <2>1. PICK l \in Nat, u \in Nat : Counted(l, u) /\ Chained(l)
    BY <1>1 DEF XmitInv
  <2>2. Counted(l, u)' /\ Chained(l)'
    BY <1>1, <2>1 DEF vars, Counted, Chained, guest, avail, device
  <2> QED
    BY <1>1, <2>2 DEF vars, XmitInv, XmitTypes, Announced, config, guest, avail, device
<1> QED
  BY <1>1, XmitCallInv, AddChainInv, NotifyInv, DevSendInv, DevUseInv, DevSleepInv DEF Next, Guest, Device

(* The invariant says what is claimed of the queue.                        *)
LEMMA XmitSound == XmitInv => QueueSound /\ SentInOrder
<1> SUFFICES ASSUME XmitInv PROVE QueueSound /\ SentInOrder
  OBVIOUS
<1>1. PICK l \in Nat, u \in Nat : Counted(l, u) /\ Chained(l)
  BY DEF XmitInv
<1>2. /\ l <= u /\ u <= wire /\ wire <= packet /\ num_avail + 2 * (packet - l) = Num
      /\ num_avail \in Nat /\ packet \in Nat /\ wire \in Nat
  BY <1>1 DEF Counted, XmitInv, XmitTypes
<1>3. SentInOrder
  BY <1>2 DEF SentInOrder
<1>4. DescriptorsConserved
  <2>1. packet <= l + Num /\ l <= packet
    BY <1>2, QueueSizes
  <2>2. Minus(avail_idx, last_used) = packet - l
    BY <1>1, <1>2, <2>1, Apart2 DEF Counted
  <2> QED
    BY <1>2, <2>2 DEF DescriptorsConserved
<1>5. NoLostKick
  BY <1>1 DEF NoLostKick, XmitInv, Announced, Counted
<1>6. TypeOK
  <2>1. \A x \in Nat : x % Word \in Indexes
    BY QueueSizes DEF Indexes
  <2>2. last_used \in Indexes /\ used_idx \in Indexes /\ dev_avail \in Indexes
        /\ avail_idx \in Indexes /\ next_avail \in Indexes
    <3>1. 2 * packet \in Nat
      BY <1>2
    <3> QED
      BY <1>1, <1>2, <2>1, <3>1 DEF Counted
  <2>3. num_avail \in 0 .. Num
    BY <1>2, QueueSizes
  <2> QED
    BY <2>2, <2>3 DEF TypeOK, XmitInv, XmitTypes
<1> QED
  BY <1>3, <1>4, <1>5, <1>6 DEF QueueSound

-----------------------------------------------------------------------------
(* The slots of a chain, what the device does, where the driver waits.     *)
Second(head) == Slot(head + 1)
Third(head) == Slot(head + 2)
Serving == {"serve", "OK", "IOERR", "use"}
Resting == {"idle", "run", "recheck"}
Current == {"notify", "spin", "consume"}
Flagged(r) == r = [data |-> r.data, extra_flags |-> r.extra_flags]

BlkTypes ==
    /\ b_pc \in {"app", "op"} \cup Current
    /\ b_req \in [type : Types, sector : Sectors, data : Contents] /\ b_head \in Slots
    /\ blkq \in [num_avail : 0 .. Num, last_used : Indexes, next_avail : Indexes,
                 last_notified_idx : Indexes]
    /\ b_avail \in [idx : Indexes, ring : [Slots -> Slots]]
    /\ b_used \in [idx : Indexes, ring : [Slots -> Slots], avail_event : Indexes]
    /\ b_dev = [at |-> b_dev.at, idx |-> b_dev.idx, chain |-> b_dev.chain]
    /\ b_dev.at \in Serving \cup Resting /\ b_dev.idx \in Indexes
    /\ b_bufs = [s \in Slots |-> b_bufs[s]] /\ \A s \in Slots : Flagged(b_bufs[s])
    /\ disk \in [Sectors -> Contents] /\ was \in [Sectors -> Contents]

(* At most one request is out: posted, then taken by the device, then      *)
(* used, then reclaimed.                                                   *)
IndexInv ==
    /\ blkq.num_avail = IF b_avail.idx = blkq.last_used THEN Num ELSE Num - 3
    /\ b_pc \in {"app", "op"} => b_avail.idx = blkq.last_used
    /\ b_pc \in {"notify", "spin"} => b_avail.idx # blkq.last_used
    /\ b_pc = "consume" => b_used.idx = b_avail.idx
    /\ b_avail.idx \in {blkq.last_used, Plus(blkq.last_used, 1)}
    /\ b_used.idx \in {blkq.last_used, b_avail.idx}
    /\ b_used.idx # blkq.last_used => b_used.ring[Slot(blkq.last_used)] = b_head
    /\ b_dev.at \in Serving => /\ b_dev.idx = b_avail.idx /\ b_used.idx = blkq.last_used
                               /\ b_avail.idx # blkq.last_used
    /\ b_dev.at \in Resting => b_dev.idx = b_used.idx

Written == [was EXCEPT ![b_req.sector] = b_req.data]

(* The request is out and the device has not moved its data.               *)
Open == b_avail.idx # blkq.last_used /\ b_used.idx = blkq.last_used
        /\ b_dev.at \in Resting \cup {"serve"}

(* The status is there.                                                    *)
Answered == b_pc \in Current /\ (b_dev.at = "use" \/ b_used.idx = b_avail.idx)

Succeeded ==
    IF b_req.type = "IN"
      THEN disk = was /\ b_bufs[Second(b_head)].data = <<"data", disk[b_req.sector]>>
      ELSE disk = Written

(* The chain as the driver made it.                                        *)
Made ==
    /\ b_desc[b_head] = [flags |-> {"NEXT"}, next |-> Second(b_head)]
    /\ b_desc[Second(b_head)] =
          [flags |-> {"NEXT"} \cup (IF b_req.type = "IN" THEN {"WRITE"} ELSE {}), next |-> Third(b_head)]
    /\ b_desc[Third(b_head)] = [flags |-> {"WRITE"}, next |-> 0]
    /\ b_bufs[b_head].data = Header
    /\ b_req.type = "OUT" => b_bufs[Second(b_head)].data = <<"data", b_req.data>>

Told ==
    CASE b_result.code = "OK" /\ b_req.type = "IN" ->
           disk = was /\ b_result.data = <<"data", disk[b_req.sector]>>
      [] b_result.code = "OK" /\ b_req.type = "OUT" -> disk = Written
      [] OTHER -> disk \in {was, Written}

RequestInv ==
    /\ Open => Made /\ disk = was
    /\ Open /\ b_dev.at # "serve" => b_avail.ring[Slot(blkq.last_used)] = b_head
    /\ b_dev.at \in Serving => b_dev.chain = <<b_head, Second(b_head), Third(b_head)>>
    /\ b_dev.at = "OK" => Succeeded
    /\ b_dev.at = "IOERR" => disk \in {was, Written}
    /\ Answered => /\ disk \in {was, Written}
                   /\ b_bufs[Third(b_head)].data = <<"status", "OK">> => Succeeded
    /\ b_pc = "op" => disk = was
    /\ b_pc = "app" => Told

BlkInv == BlkTypes /\ IndexInv /\ RequestInv

(* The sizes, as the steps below use them.                                 *)
LEMMA BlkSizes ==
    /\ Num \in Nat \ {0} /\ Word \in Nat \ {0} /\ Num < Word /\ 3 <= Num
    /\ 0 \in Indexes /\ 0 \in Slots /\ 0 \in Sectors /\ 0 \in Contents
BY VirtqAssumption, BlkAssumption DEF Indexes, Slots, Sectors

(* Advancing an index yields another index.                                *)
LEMMA Advancing ==
    ASSUME NEW x \in Indexes
    PROVE  Plus(x, 1) \in Indexes /\ Plus(x, 3) \in Indexes /\ Plus(x, 1) # x /\ Slot(x) \in Slots
<1>1. x \in Nat /\ x < Word /\ x + 1 \in Nat /\ x + 3 \in Nat
  BY BlkSizes DEF Indexes
<1>2. Plus(x, 1) \in Indexes /\ Plus(x, 3) \in Indexes /\ Slot(x) \in Slots
  BY <1>1, BlkSizes DEF Plus, Indexes, Slot, Slots
<1>3. x % Word = x
  BY <1>1, BlkSizes
<1>4. (x + 1) % Word # x % Word
  BY <1>1, BlkSizes, Apart, x < x + 1, x + 1 < x + Word, Zenon
<1> QED
  BY <1>2, <1>3, <1>4 DEF Plus

(* The three slots of a chain are different and follow each other.         *)
LEMMA ChainSlots ==
    ASSUME NEW head \in Slots
    PROVE  /\ Chain(head)[1] = head /\ Chain(head)[2] = Second(head) /\ Chain(head)[3] = Third(head)
           /\ Second(head) \in Slots /\ Third(head) \in Slots
           /\ head # Second(head) /\ head # Third(head) /\ Second(head) # Third(head)
           /\ Slot(head + 1) = Second(head) /\ Slot(Second(head) + 1) = Third(head)
<1>1. head \in Nat /\ head < Num /\ head + 1 \in Nat /\ head + 2 \in Nat
  BY BlkSizes DEF Slots
<1>2. head % Num = head
  BY <1>1, BlkSizes
<1>3. (head + 1) % Num # head % Num
  BY <1>1, BlkSizes, Apart, head < head + 1, head + 1 < head + Num, Zenon
<1>4. (head + 2) % Num # head % Num
  BY <1>1, BlkSizes, Apart, head < head + 2, head + 2 < head + Num, Zenon
<1>5. (head + 2) % Num # (head + 1) % Num
  BY <1>1, BlkSizes, Apart, head + 1 < head + 2, head + 2 < (head + 1) + Num, Zenon
<1>6. (((head + 1) % Num) + 1) % Num = ((head + 1) + 1) % Num
  BY <1>1, BlkSizes, WrapPlus
<1>7. (head + 1) % Num \in Slots /\ (head + 2) % Num \in Slots
  BY <1>1, BlkSizes DEF Slots
<1>8. head + 1 - 1 = head /\ head + 2 - 1 = head + 1 /\ head + 3 - 1 = head + 2 /\ (head + 1) + 1 = head + 2
  BY <1>1
<1>9. Chain(head)[1] = Slot(head + 1 - 1) /\ Chain(head)[2] = Slot(head + 2 - 1)
      /\ Chain(head)[3] = Slot(head + 3 - 1)
  BY DEF Chain
<1> QED
  BY <1>2, <1>3, <1>4, <1>5, <1>6, <1>7, <1>8, <1>9 DEF Slot, Second, Third

(* No request is out to begin with.                                        *)
LEMMA BlkInitInv == BlkInit => BlkInv
<1> SUFFICES ASSUME BlkInit PROVE BlkInv
  OBVIOUS
<1> USE BlkSizes
<1>1. b_req \in [type : Types, sector : Sectors, data : Contents]
  BY DEF BlkInit, NoReq, Types
<1>2. disk \in [Sectors -> Contents] /\ was \in [Sectors -> Contents]
  BY DEF BlkInit
<1>3. /\ blkq \in [num_avail : 0 .. Num, last_used : Indexes, next_avail : Indexes,
                   last_notified_idx : Indexes]
      /\ b_avail \in [idx : Indexes, ring : [Slots -> Slots]]
      /\ b_used \in [idx : Indexes, ring : [Slots -> Slots], avail_event : Indexes]
      /\ b_dev = [at |-> b_dev.at, idx |-> b_dev.idx, chain |-> b_dev.chain]
      /\ b_dev.at = "idle" /\ b_dev.idx = 0 /\ b_head = 0 /\ b_pc = "app"
  BY DEF BlkInit
<1>4. b_bufs = [s \in Slots |-> b_bufs[s]] /\ \A s \in Slots : Flagged(b_bufs[s])
  BY DEF BlkInit, Flagged
<1>5. BlkTypes
  BY <1>1, <1>2, <1>3, <1>4 DEF BlkTypes, Resting
<1>6. IndexInv
  BY DEF BlkInit, IndexInv, Serving, Resting
<1>7. RequestInv
  <2>1. b_result.code = "none" /\ disk = was /\ b_avail.idx = blkq.last_used
    BY DEF BlkInit, NoResult
  <2> QED
    BY <1>3, <2>1 DEF RequestInv, Open, Answered, Serving, Current, Told
<1> QED
  BY <1>5, <1>6, <1>7 DEF BlkInv

(* A call is refused before it reaches the queue, or recorded.             *)
LEMMA BlkCallInv == ASSUME BlkInv, BlkCall PROVE BlkInv'
<1> USE BlkSizes
<1>1. /\ b_pc = "app" /\ was' = disk
      /\ UNCHANGED <<b_head, blkq, b_bufs, b_desc, b_avail, b_used, b_dev, disk>>
  BY DEF BlkCall, b_rings, b_device
<1>2. /\ b_req' \in [type : Types, sector : Sectors, data : Contents]
      /\ \/ b_pc' = "op"
         \/ b_pc' = "app" /\ b_result'.code = "EINVAL"
  <2>1. PICK type \in Types, sector \in 0 .. Capacity, data \in Contents,
             aligned \in BOOLEAN, one \in BOOLEAN :
          IF aligned /\ sector < Capacity /\ one
            THEN /\ b_pc' = "op" /\ b_result' = NoResult
                 /\ b_req' = [type |-> type, sector |-> sector, data |-> data]
            ELSE /\ b_result' = [code |-> "EINVAL", data |-> <<>>]
                 /\ UNCHANGED b_pc /\ b_req' = NoReq
    BY DEF BlkCall
  <2>2. CASE aligned /\ sector < Capacity /\ one
    BY <2>1, <2>2, BlkAssumption DEF Sectors
  <2>3. CASE ~(aligned /\ sector < Capacity /\ one)
    BY <1>1, <2>1, <2>3 DEF NoReq, Types
  <2> QED
    BY <2>2, <2>3
<1>3. b_avail.idx = blkq.last_used /\ b_used.idx = blkq.last_used /\ b_dev.at \in Resting
  BY <1>1 DEF BlkInv, BlkTypes, IndexInv
<1>4. BlkTypes'
  BY <1>1, <1>2 DEF BlkInv, BlkTypes
<1>5. IndexInv'
  BY <1>1, <1>2, <1>3, SMTT(30) DEF BlkInv, IndexInv
<1>6. RequestInv'
  <2>1. ~Open' /\ ~Answered' /\ b_dev'.at \notin Serving
    BY <1>1, <1>2, <1>3 DEF Open, Answered, Current, Resting, Serving
  <2>2. b_pc' = "app" => Told'
    BY <1>1, <1>2 DEF Told
  <2> QED
    BY <1>1, <2>1, <2>2 DEF RequestInv, Serving
<1> QED
  BY <1>4, <1>5, <1>6 DEF BlkInv

(* What virtio_blk_op makes of the buffers of a chain: header, data in the *)
(* direction of the request and a status to write, and no other buffer.    *)
LEMMA Filled ==
    ASSUME BlkTypes, NEW head \in Slots, NEW filled, filled = Fill(Chain(head))
    PROVE  /\ filled = [s \in Slots |-> filled[s]] /\ \A s \in Slots : Flagged(filled[s])
           /\ filled[head] = [data |-> Header, extra_flags |-> {}]
           /\ filled[Second(head)].extra_flags = (IF b_req.type = "OUT" THEN {} ELSE {"WRITE"})
           /\ b_req.type = "OUT" => filled[Second(head)].data = <<"data", b_req.data>>
           /\ filled[Third(head)].extra_flags = {"WRITE"}
<1> DEFINE c2 == Second(head)
           c3 == Third(head)
           D == IF b_req.type = "OUT" THEN <<"data", b_req.data>> ELSE b_bufs[c2].data
           F == IF b_req.type = "OUT" THEN {} ELSE {"WRITE"}
<1>1. head # c2 /\ head # c3 /\ c2 # c3 /\ c2 \in Slots /\ c3 \in Slots
  BY ChainSlots
<1>2. b_bufs = [s \in Slots |-> b_bufs[s]] /\ \A s \in Slots : Flagged(b_bufs[s])
  BY DEF BlkTypes
<1>3. filled = [b_bufs EXCEPT
                 ![head] = [data |-> Header, extra_flags |-> {}],
                 ![c2] = [data |-> IF b_req.type = "OUT" THEN <<"data", b_req.data>> ELSE @.data,
                          extra_flags |-> IF b_req.type = "OUT" THEN {} ELSE {"WRITE"}],
                 ![c3] = [@ EXCEPT !.extra_flags = {"WRITE"}]]
  BY ChainSlots, Zenon DEF Fill
<1> HIDE DEF c2, c3
<1>4. /\ filled = [s \in Slots |-> filled[s]]
      /\ filled[head] = [data |-> Header, extra_flags |-> {}]
      /\ filled[c2] = [data |-> D, extra_flags |-> F]
      /\ filled[c3] = [b_bufs[c3] EXCEPT !.extra_flags = {"WRITE"}]
      /\ \A s \in Slots : s \notin {head, c2, c3} => filled[s] = b_bufs[s]
  BY <1>1, <1>2, <1>3, Zenon
<1>5. filled[c3] = [data |-> b_bufs[c3].data, extra_flags |-> {"WRITE"}]
  <2>1. b_bufs[c3] = [data |-> b_bufs[c3].data, extra_flags |-> b_bufs[c3].extra_flags]
    BY <1>1, <1>2 DEF Flagged
  <2> QED
    BY <1>4, <2>1
<1>6. \A s \in Slots : Flagged(filled[s])
  <2> SUFFICES ASSUME NEW s \in Slots PROVE Flagged(filled[s])
    OBVIOUS
  <2>1. CASE s = head
    BY <1>4, <2>1 DEF Flagged
  <2>2. CASE s = c2
    BY <1>4, <2>2 DEF Flagged
  <2>3. CASE s = c3
    BY <1>5, <2>3 DEF Flagged
  <2>4. CASE s \notin {head, c2, c3}
    BY <1>2, <1>4, <2>4
  <2> QED
    BY <2>1, <2>2, <2>3, <2>4
<1> QED
  BY <1>4, <1>5, <1>6 DEF c2, c3

(* The driver's assertion holds, and what it posts is a chain of the three *)
(* descriptors, whatever roles the slots had before.                       *)
LEMMA BlkOpInv == ASSUME BlkInv, BlkOp PROVE BlkInv'
<1> USE BlkSizes
<1> DEFINE head == Slot(blkq.next_avail)
           filled == Fill(Chain(head))
<1>1. /\ b_pc = "op" /\ b_avail.idx = blkq.last_used /\ b_used.idx = blkq.last_used
      /\ b_dev.at \in Resting /\ b_dev.idx = blkq.last_used /\ blkq.num_avail = Num
      /\ disk = was /\ ~(blkq.num_avail < 3)
  BY DEF BlkInv, BlkTypes, IndexInv, RequestInv, BlkOp
<1>2. /\ b_pc' = "notify" /\ b_head' = head /\ b_bufs' = filled
      /\ b_desc' = Link(Chain(head), filled)
      /\ b_avail' = [idx |-> Plus(b_avail.idx, 1),
                     ring |-> [b_avail.ring EXCEPT ![Slot(b_avail.idx)] = head]]
      /\ blkq' = [blkq EXCEPT !.num_avail = @ - 3, !.next_avail = Plus(@, 3)]
      /\ UNCHANGED <<b_req, was, b_used, b_dev, disk>>
  BY <1>1 DEF BlkOp, b_device
<1>3. head \in Slots /\ b_avail.idx \in Indexes /\ blkq.next_avail \in Indexes
  BY Advancing DEF BlkInv, BlkTypes
<1> HIDE DEF head
<1>4. /\ filled = [s \in Slots |-> filled[s]] /\ \A s \in Slots : Flagged(filled[s])
      /\ filled[head] = [data |-> Header, extra_flags |-> {}]
      /\ filled[Second(head)].extra_flags = (IF b_req.type = "OUT" THEN {} ELSE {"WRITE"})
      /\ b_req.type = "OUT" => filled[Second(head)].data = <<"data", b_req.data>>
      /\ filled[Third(head)].extra_flags = {"WRITE"}
  BY <1>3, Filled, Zenon DEF BlkInv
<1> HIDE DEF filled
<1>5. /\ blkq' \in [num_avail : 0 .. Num, last_used : Indexes, next_avail : Indexes,
                     last_notified_idx : Indexes]
      /\ blkq'.last_used = blkq.last_used /\ blkq'.num_avail = Num - 3
  <2>1. Plus(blkq.next_avail, 3) \in Indexes /\ Num - 3 \in 0 .. Num
    BY <1>3, Advancing
  <2> QED
    BY <1>1, <1>2, <2>1, Zenon DEF BlkInv, BlkTypes
<1>6. /\ b_avail' \in [idx : Indexes, ring : [Slots -> Slots]]
      /\ b_avail'.idx = Plus(blkq.last_used, 1) /\ b_avail'.idx # blkq.last_used
      /\ b_avail'.ring[Slot(blkq.last_used)] = head
  <2>1. Plus(b_avail.idx, 1) \in Indexes /\ Slot(b_avail.idx) \in Slots
        /\ Plus(b_avail.idx, 1) # b_avail.idx
    BY <1>3, Advancing
  <2> QED
    BY <1>1, <1>2, <1>3, <2>1 DEF BlkInv, BlkTypes
<1>7. BlkTypes'
  BY <1>2, <1>3, <1>4, <1>5, <1>6 DEF BlkInv, BlkTypes, Current
<1>8. IndexInv'
  BY <1>1, <1>2, <1>5, <1>6 DEF IndexInv, Serving, Resting
<1>9. Made'
  <2> DEFINE c2 == Second(head)
             c3 == Third(head)
  <2>1. head # c2 /\ head # c3 /\ c2 # c3 /\ c2 \in Slots /\ c3 \in Slots
        /\ Slot(head + 1) = c2 /\ Slot(c2 + 1) = c3
    BY <1>3, ChainSlots
  <2>2. b_desc' = [s \in Slots |->
                     CASE s \in {head, c2} -> [flags |-> {"NEXT"} \cup filled[s].extra_flags,
                                               next |-> Slot(s + 1)]
                       [] s = c3 -> [flags |-> filled[s].extra_flags, next |-> 0]
                       [] OTHER -> b_desc[s]]
    BY <1>2, <1>3, ChainSlots DEF Link
  <2> HIDE DEF c2, c3
  <2>3. b_desc'[head] = [flags |-> {"NEXT"} \cup filled[head].extra_flags, next |-> c2]
    BY <1>3, <2>1, <2>2, Zenon
  <2>4. b_desc'[c2] = [flags |-> {"NEXT"} \cup filled[c2].extra_flags, next |-> c3]
    BY <2>1, <2>2, Zenon
  <2>5. b_desc'[c3] = [flags |-> filled[c3].extra_flags, next |-> 0]
    BY <2>1, <2>2
  <2>6. {"NEXT"} \cup filled[head].extra_flags = {"NEXT"}
    BY <1>4
  <2>7. filled[c2].extra_flags = IF b_req.type = "IN" THEN {"WRITE"} ELSE {}
    BY <1>4 DEF c2, BlkInv, BlkTypes, Types
  <2>8. Header' = Header /\ b_head' = head
    BY <1>2 DEF Header
  <2>9. b_desc'[head] = [flags |-> {"NEXT"}, next |-> c2]
    BY <2>3, <2>6
  <2>10. b_desc'[c3] = [flags |-> {"WRITE"}, next |-> 0]
    BY <1>4, <2>5 DEF c3
  <2>11. b_desc'[c2] = [flags |-> {"NEXT"} \cup (IF b_req.type = "IN" THEN {"WRITE"} ELSE {}), next |-> c3]
    BY <2>4, <2>7
  <2>12. b_bufs'[head].data = Header /\ (b_req.type = "OUT" => b_bufs'[c2].data = <<"data", b_req.data>>)
    BY <1>2, <1>4 DEF c2
  <2>13. b_req' = b_req
    BY <1>2
  <2> QED
    BY <2>8, <2>9, <2>10, <2>11, <2>12, <2>13 DEF Made, c2, c3
<1>10. RequestInv'
  <2>1. ~Answered'
    BY <1>1, <1>2, <1>6 DEF Answered, Resting
  <2> QED
    BY <1>1, <1>2, <1>5, <1>6, <1>9, <2>1 DEF RequestInv, Serving, Resting
<1> QED
  BY <1>7, <1>8, <1>10 DEF BlkInv

(* Notifying and spinning change no index but last_notified_idx.           *)
LEMMA BlkWaitInv == ASSUME BlkInv, BlkNotify \/ BlkSpin PROVE BlkInv'
<1>1. /\ b_pc \in {"notify", "spin"} /\ b_pc' \in {"spin", "consume"}
      /\ (b_pc' = "consume" => b_used.idx = b_avail.idx)
      /\ blkq' \in {blkq, [blkq EXCEPT !.last_notified_idx = b_avail.idx]}
      /\ UNCHANGED <<b_req, b_head, b_result, was, b_bufs, b_desc, b_avail, b_used, b_dev, disk>>
  BY Zenon DEF BlkNotify, BlkSpin, b_rings, b_device
<1>2. /\ blkq' \in [num_avail : 0 .. Num, last_used : Indexes, next_avail : Indexes,
                     last_notified_idx : Indexes]
      /\ blkq'.last_used = blkq.last_used /\ blkq'.num_avail = blkq.num_avail
  BY <1>1 DEF BlkInv, BlkTypes
<1>3. BlkTypes'
  BY <1>1, <1>2 DEF BlkInv, BlkTypes, Current
<1>4. IndexInv'
  BY <1>1, <1>2 DEF BlkInv, IndexInv
<1>5. (Open' <=> Open) /\ (Made' <=> Made) /\ (Succeeded' <=> Succeeded) /\ (Answered' <=> Answered)
      /\ Written' = Written
  BY <1>1, <1>2 DEF Open, Made, Header, Succeeded, Written, Answered, Current
<1>6. RequestInv'
  BY <1>1, <1>2, <1>5 DEF BlkInv, RequestInv
<1> QED
  BY <1>3, <1>4, <1>6 DEF BlkInv

(* The chain that comes back is the driver's own.                          *)
LEMMA BlkConsumeInv == ASSUME BlkInv, BlkConsume PROVE BlkInv'
<1> USE BlkSizes
<1>1. /\ b_pc = "consume" /\ b_used.idx # blkq.last_used /\ b_used.idx = b_avail.idx
      /\ b_used.ring[Slot(blkq.last_used)] = b_head
      /\ b_avail.idx = Plus(blkq.last_used, 1) /\ blkq.num_avail = Num - 3
      /\ b_dev.at \in Resting
  BY DEF BlkConsume, BlkInv, BlkTypes, IndexInv
<1>2. /\ blkq' = [blkq EXCEPT !.last_used = Plus(@, 1), !.num_avail = @ + 3] /\ b_pc' = b_pc
      /\ UNCHANGED <<b_req, b_head, b_result, was, b_bufs, b_desc, b_avail, b_used, b_dev, disk>>
  BY <1>1 DEF BlkConsume, b_rings, b_device
<1>3. /\ blkq' \in [num_avail : 0 .. Num, last_used : Indexes, next_avail : Indexes,
                     last_notified_idx : Indexes]
      /\ blkq'.last_used = b_avail.idx /\ blkq'.num_avail = Num
  <2>1. Plus(blkq.last_used, 1) \in Indexes
    BY Advancing DEF BlkInv, BlkTypes
  <2>2. blkq.num_avail + 3 = Num /\ Num \in 0 .. Num
    BY <1>1
  <2>3. blkq' = [blkq EXCEPT !.last_used = Plus(blkq.last_used, 1), !.num_avail = Num]
    BY <1>2, <2>2, Zenon DEF BlkInv, BlkTypes
  <2> QED
    BY <1>1, <2>1, <2>2, <2>3, Zenon DEF BlkInv, BlkTypes
<1>4. BlkTypes'
  BY <1>2, <1>3 DEF BlkInv, BlkTypes
<1>5. IndexInv'
  BY <1>1, <1>2, <1>3 DEF BlkInv, IndexInv, Resting, Serving
<1>6. RequestInv'
  <2>1. ~Open' /\ Answered /\ (Succeeded' <=> Succeeded) /\ Written' = Written
    BY <1>1, <1>2, <1>3 DEF Open, Answered, Succeeded, Written, Current
  <2> QED
    BY <1>1, <1>2, <2>1 DEF BlkInv, RequestInv, Resting, Serving
<1> QED
  BY <1>4, <1>5, <1>6 DEF BlkInv

(* The call returns what the status says.                                  *)
LEMMA BlkReturnInv == ASSUME BlkInv, BlkReturn PROVE BlkInv'
<1>1. /\ b_pc = "consume" /\ b_used.idx = blkq.last_used /\ b_pc' = "app"
      /\ UNCHANGED <<b_req, b_head, blkq, was, b_bufs, b_desc, b_avail, b_used, b_dev, disk>>
  BY DEF BlkReturn, b_rings, b_device
<1>2. b_avail.idx = blkq.last_used /\ b_dev.at \in Resting /\ Answered /\ b_head \in Slots
      /\ b_req.type \in Types
  BY <1>1 DEF BlkInv, BlkTypes, IndexInv, Answered, Current
<1>3. BlkTypes'
  BY <1>1 DEF BlkInv, BlkTypes
<1>4. IndexInv'
  BY <1>1, <1>2 DEF BlkInv, IndexInv, Current
<1> DEFINE ok == b_bufs[Third(b_head)].data = <<"status", "OK">>
<1>5. b_result' = [code |-> IF ok THEN "OK" ELSE "EUNSPEC",
                   data |-> IF ok /\ b_req.type = "IN" THEN b_bufs[Second(b_head)].data ELSE <<>>]
  BY <1>2, ChainSlots DEF BlkReturn
<1>6. disk \in {was, Written} /\ (ok => Succeeded)
  BY <1>2 DEF BlkInv, RequestInv
<1>7. Told'
  <2>0. Written' = Written
    BY <1>1 DEF Written
  <2>1. CASE ok /\ b_req.type = "IN"
    BY <1>1, <1>5, <1>6, <2>1 DEF Told, Succeeded
  <2>2. CASE ok /\ b_req.type = "OUT"
    BY <1>1, <1>5, <1>6, <2>0, <2>2 DEF Told, Succeeded
  <2>3. CASE ~ok
    <3>1. b_result'.code = "EUNSPEC"
      BY <1>5, <2>3
    <3> QED
      BY <1>1, <1>6, <2>0, <3>1 DEF Told
  <2> QED
    BY <1>2, <2>1, <2>2, <2>3 DEF Types
<1>8. RequestInv'
  <2>1. ~Open' /\ ~Answered'
    BY <1>1, <1>2 DEF Open, Answered, Current
  <2> QED
    BY <1>1, <1>2, <1>7, <2>1 DEF RequestInv, Resting, Serving
<1> QED
  BY <1>3, <1>4, <1>8 DEF BlkInv

(* The device follows the chain to its three descriptors.                  *)
LEMMA BdevTakeInv == ASSUME BlkInv, BdevTake PROVE BlkInv'
<1>1. /\ b_dev.at = "run" /\ b_dev.idx # b_avail.idx
      /\ b_dev' = [at |-> "serve", idx |-> Plus(b_dev.idx, 1),
                   chain |-> Followed(b_avail.ring[Slot(b_dev.idx)])]
      /\ UNCHANGED <<b_pc, b_req, b_head, b_result, blkq, was, b_bufs, b_desc, b_avail, b_used, disk>>
  BY DEF BdevTake, b_guest, b_rings
<1>2. /\ b_dev.idx = b_used.idx /\ b_used.idx = blkq.last_used /\ b_avail.idx = Plus(blkq.last_used, 1)
      /\ b_avail.idx # blkq.last_used /\ b_head \in Slots /\ b_avail.idx \in Indexes
      /\ b_pc \notin {"app", "op"}
  BY <1>1, SMTT(30) DEF BlkInv, BlkTypes, IndexInv, Resting
<1>3. Open /\ Made /\ b_avail.ring[Slot(b_dev.idx)] = b_head
  BY <1>1, <1>2 DEF BlkInv, RequestInv, Open, Resting
<1>4. Followed(b_head) = <<b_head, Second(b_head), Third(b_head)>>
  <2>1. /\ "NEXT" \in b_desc[b_head].flags /\ b_desc[b_head].next = Second(b_head)
        /\ "NEXT" \in b_desc[Second(b_head)].flags /\ b_desc[Second(b_head)].next = Third(b_head)
    BY <1>3 DEF Made
  <2> QED
    BY <2>1, SMTT(30) DEF Followed
<1>5. b_dev' = [at |-> "serve", idx |-> b_avail.idx, chain |-> <<b_head, Second(b_head), Third(b_head)>>]
  BY <1>1, <1>2, <1>3, <1>4
<1>6. BlkTypes'
  BY <1>1, <1>2, <1>5, SMTT(30) DEF BlkInv, BlkTypes, Serving
<1>7. IndexInv'
  BY <1>1, <1>2, <1>5, SMTT(30) DEF BlkInv, IndexInv, Serving, Resting
<1>8. RequestInv'
  <2>0. /\ b_dev'.at = "serve" /\ b_used'.idx # b_avail'.idx /\ b_pc' \notin {"app", "op"}
        /\ b_dev'.chain = <<b_head', Second(b_head'), Third(b_head')>>
    BY <1>1, <1>2, <1>5
  <2>1. ~Answered'
    BY <2>0, SMTT(30) DEF Answered
  <2>2. Made' /\ disk' = was'
    BY <1>1, <1>3, Zenon DEF Made, Header, BlkInv, RequestInv
  <2> QED
    BY <2>0, <2>1, <2>2, Zenon DEF RequestInv
<1> QED
  BY <1>6, <1>7, <1>8 DEF BlkInv

(* It moves the data of the request, or fails; a failed write may have     *)
(* been done.                                                              *)
LEMMA BdevTransferInv == ASSUME BlkInv, BdevTransfer PROVE BlkInv'
<1> DEFINE c2 == Second(b_head)
<1>1. /\ b_dev.at = "serve" /\ b_dev.chain = <<b_head, c2, Third(b_head)>> /\ Made /\ disk = was
      /\ b_head \in Slots /\ b_dev = [at |-> b_dev.at, idx |-> b_dev.idx, chain |-> b_dev.chain]
      /\ b_dev.idx = b_avail.idx /\ b_used.idx = blkq.last_used /\ b_avail.idx # blkq.last_used
      /\ b_req \in [type : Types, sector : Sectors, data : Contents]
      /\ b_pc \notin {"app", "op"}
  BY DEF BdevTransfer, BlkInv, BlkTypes, IndexInv, RequestInv, Open, Serving
<1>2. /\ b_bufs[b_head].data[2] = b_req.type /\ b_bufs[b_head].data[3] = b_req.sector
      /\ b_dev.chain[1] = b_head /\ b_dev.chain[2] = c2
      /\ (b_req.type = "OUT" => b_bufs[c2].data[2] = b_req.data)
  BY <1>1 DEF Made, Header
<1>3. UNCHANGED <<b_pc, b_req, b_head, b_result, blkq, was, b_desc, b_avail, b_used>>
  BY DEF BdevTransfer, b_guest
<1>4. PICK ok \in BOOLEAN, done \in BOOLEAN :
        /\ ok => done
        /\ b_req.type = "IN" => ok = done
        /\ disk' = IF b_req.type = "OUT" /\ done THEN [disk EXCEPT ![b_req.sector] = b_req.data] ELSE disk
        /\ b_bufs' = IF b_req.type = "IN" /\ done
                       THEN [b_bufs EXCEPT ![c2].data = <<"data", disk[b_req.sector]>>] ELSE b_bufs
        /\ b_dev' = [b_dev EXCEPT !.at = IF ok THEN "OK" ELSE "IOERR"]
  BY <1>2, Zenon DEF BdevTransfer
<1>5. /\ b_dev' = [at |-> b_dev'.at, idx |-> b_dev.idx, chain |-> b_dev.chain]
      /\ b_dev'.at = (IF ok THEN "OK" ELSE "IOERR") /\ b_dev'.idx = b_dev.idx
      /\ b_dev'.chain = b_dev.chain
  BY <1>1, <1>4
<1>6. c2 \in Slots
  BY <1>1, ChainSlots
<1>7. /\ b_bufs' = [s \in Slots |-> b_bufs'[s]] /\ \A s \in Slots : Flagged(b_bufs'[s])
      /\ b_req.type = "IN" /\ done => b_bufs'[c2].data = <<"data", disk[b_req.sector]>>
  <2>1. b_bufs = [s \in Slots |-> b_bufs[s]] /\ \A s \in Slots : Flagged(b_bufs[s])
    BY DEF BlkInv, BlkTypes
  <2>2. CASE b_req.type = "IN" /\ done
    <3>1. b_bufs' = [b_bufs EXCEPT ![c2] = [b_bufs[c2] EXCEPT !.data = <<"data", disk[b_req.sector]>>]]
      BY <1>4, <2>2
    <3>2. [b_bufs[c2] EXCEPT !.data = <<"data", disk[b_req.sector]>>]
            = [data |-> <<"data", disk[b_req.sector]>>, extra_flags |-> b_bufs[c2].extra_flags]
      <4>1. b_bufs[c2] = [data |-> b_bufs[c2].data, extra_flags |-> b_bufs[c2].extra_flags]
        BY <1>6, <2>1 DEF Flagged
      <4> QED
        BY <4>1
    <3> HIDE DEF c2
    <3>3. /\ b_bufs' = [s \in Slots |-> b_bufs'[s]]
          /\ b_bufs'[c2] = [data |-> <<"data", disk[b_req.sector]>>, extra_flags |-> b_bufs[c2].extra_flags]
          /\ \A s \in Slots : s # c2 => b_bufs'[s] = b_bufs[s]
      BY <1>6, <2>1, <3>1, <3>2
    <3>4. Flagged(b_bufs'[c2])
      BY <3>3 DEF Flagged
    <3> QED
      BY <2>1, <3>3, <3>4
  <2>3. CASE ~(b_req.type = "IN" /\ done)
    <3>1. b_bufs' = b_bufs
      BY <1>4, <2>3
    <3> QED
      BY <2>1, <2>3, <3>1
  <2> QED
    BY <2>2, <2>3
<1>8. disk' \in {was, Written} /\ Written' = Written /\ disk' \in [Sectors -> Contents]
      /\ (ok => Succeeded')
  <2>1. Written \in [Sectors -> Contents] /\ disk \in [Sectors -> Contents]
    BY <1>1 DEF Written, BlkInv, BlkTypes
  <2>2. Written' = Written
    BY <1>3 DEF Written
  <2>3. CASE b_req.type = "IN"
    <3>1. disk' = disk
      BY <1>4, <2>3
    <3> QED
      BY <1>1, <1>3, <1>4, <1>7, <2>1, <2>2, <2>3, <3>1 DEF Succeeded
  <2>4. CASE b_req.type = "OUT"
    <3>1. disk' = IF done THEN Written ELSE was
      BY <1>1, <1>4, <2>4 DEF Written
    <3> QED
      BY <1>3, <1>4, <2>1, <2>2, <2>4, <1>1, <3>1 DEF Succeeded
  <2> QED
    BY <1>1, <2>3, <2>4 DEF Types
<1>9. BlkTypes'
  BY <1>3, <1>5, <1>7, <1>8 DEF BlkInv, BlkTypes, Serving
<1>10. IndexInv'
  BY <1>1, <1>3, <1>5 DEF BlkInv, IndexInv, Serving, Resting
<1>11. RequestInv'
  <2>1. ~Open' /\ ~Answered' /\ b_pc' \notin {"app", "op"}
    BY <1>1, <1>3, <1>5 DEF Open, Answered, Resting
  <2>2. b_dev'.chain = <<b_head', Second(b_head'), Third(b_head')>>
    BY <1>1, <1>3, <1>5
  <2> QED
    BY <1>3, <1>5, <1>8, <2>1, <2>2 DEF RequestInv
<1> QED
  BY <1>9, <1>10, <1>11 DEF BlkInv

(* It writes the status where the driver looks for it.                     *)
LEMMA BdevStatusInv == ASSUME BlkInv, BdevStatus PROVE BlkInv'
<1> DEFINE c3 == Third(b_head)
           status == <<"status", b_dev.at>>
<1>1. /\ b_dev.at \in {"OK", "IOERR"} /\ b_dev.chain = <<b_head, Second(b_head), c3>>
      /\ b_head \in Slots /\ b_dev = [at |-> b_dev.at, idx |-> b_dev.idx, chain |-> b_dev.chain]
      /\ b_dev.idx = b_avail.idx /\ b_used.idx = blkq.last_used /\ b_avail.idx # blkq.last_used
      /\ b_pc \in Current
  BY DEF BdevStatus, BlkInv, BlkTypes, IndexInv, RequestInv, Serving
<1>2. /\ UNCHANGED <<b_pc, b_req, b_head, b_result, blkq, was, b_desc, b_avail, b_used, disk>>
      /\ b_bufs' = [b_bufs EXCEPT ![c3].data = status]
      /\ b_dev' = [b_dev EXCEPT !.at = "use"]
  BY <1>1 DEF BdevStatus, b_guest
<1>3. b_dev' = [at |-> "use", idx |-> b_dev.idx, chain |-> b_dev.chain]
  BY <1>1, <1>2
<1>4. c3 \in Slots /\ Second(b_head) \in Slots /\ Second(b_head) # c3
  BY <1>1, ChainSlots
<1>5. /\ b_bufs' = [s \in Slots |-> b_bufs'[s]] /\ \A s \in Slots : Flagged(b_bufs'[s])
      /\ b_bufs'[c3].data = status /\ b_bufs'[Second(b_head)] = b_bufs[Second(b_head)]
  <2>1. b_bufs = [s \in Slots |-> b_bufs[s]] /\ \A s \in Slots : Flagged(b_bufs[s])
    BY DEF BlkInv, BlkTypes
  <2>2. b_bufs' = [b_bufs EXCEPT ![c3] = [b_bufs[c3] EXCEPT !.data = status]]
    BY <1>2
  <2>3. [b_bufs[c3] EXCEPT !.data = status] = [data |-> status, extra_flags |-> b_bufs[c3].extra_flags]
    <3>1. b_bufs[c3] = [data |-> b_bufs[c3].data, extra_flags |-> b_bufs[c3].extra_flags]
      BY <1>4, <2>1 DEF Flagged
    <3> HIDE DEF status
    <3> QED
      BY <3>1
  <2> HIDE DEF c3, status
  <2>4. /\ b_bufs' = [s \in Slots |-> b_bufs'[s]]
        /\ b_bufs'[c3] = [data |-> status, extra_flags |-> b_bufs[c3].extra_flags]
        /\ \A s \in Slots : s # c3 => b_bufs'[s] = b_bufs[s]
    BY <1>4, <2>1, <2>2, <2>3
  <2>5. Flagged(b_bufs'[c3])
    BY <2>4 DEF Flagged
  <2> QED
    BY <1>4, <2>1, <2>4, <2>5
<1>6. BlkTypes'
  BY <1>2, <1>3, <1>5, Zenon DEF BlkInv, BlkTypes, Serving
<1>7. IndexInv'
  BY <1>1, <1>2, <1>3 DEF BlkInv, IndexInv, Serving, Resting
<1>8. RequestInv'
  <2>1. ~Open' /\ b_pc' \notin {"app", "op"} /\ b_dev'.at = "use"
    BY <1>1, <1>2, <1>3 DEF Open, Resting, Current
  <2>2. b_dev'.chain = <<b_head', Second(b_head'), Third(b_head')>>
    BY <1>1, <1>2, <1>3
  <2>3. Written' = Written /\ (Succeeded' <=> Succeeded)
    BY <1>2, <1>5, Zenon DEF Written, Succeeded
  <2>4. b_dev.at = "OK" => disk \in {was, Written} /\ Succeeded
    BY DEF BlkInv, BlkTypes, RequestInv, Succeeded
  <2>5. b_dev.at = "IOERR" => disk \in {was, Written} /\ b_bufs'[c3].data # <<"status", "OK">>
    BY <1>5 DEF BlkInv, RequestInv
  <2> QED
    BY <1>1, <1>2, <2>1, <2>2, <2>3, <2>4, <2>5 DEF RequestInv
<1> QED
  BY <1>6, <1>7, <1>8 DEF BlkInv

(* It returns the chain.                                                   *)
LEMMA BdevUseInv == ASSUME BlkInv, BdevUse PROVE BlkInv'
<1>1. /\ b_dev.at = "use" /\ b_dev.chain[1] = b_head
      /\ b_dev = [at |-> b_dev.at, idx |-> b_dev.idx, chain |-> b_dev.chain]
      /\ b_dev.idx = b_avail.idx /\ b_used.idx = blkq.last_used
      /\ b_avail.idx = Plus(blkq.last_used, 1) /\ b_avail.idx # blkq.last_used
      /\ b_pc \in Current /\ b_head \in Slots /\ b_used.idx \in Indexes /\ b_avail.idx \in Indexes
  BY DEF BdevUse, BlkInv, BlkTypes, IndexInv, RequestInv, Serving
<1>2. /\ UNCHANGED <<b_pc, b_req, b_head, b_result, blkq, was, b_bufs, b_desc, b_avail, disk>>
      /\ b_used' = [b_used EXCEPT !.ring[Slot(b_used.idx)] = b_head, !.idx = Plus(@, 1)]
      /\ b_dev' = [b_dev EXCEPT !.at = "run", !.chain = <<>>]
  BY <1>1 DEF BdevUse, b_guest, b_rings
<1>3. b_dev' = [at |-> "run", idx |-> b_dev.idx, chain |-> <<>>]
  BY <1>1, <1>2, Zenon
<1>4. /\ b_used' \in [idx : Indexes, ring : [Slots -> Slots], avail_event : Indexes]
      /\ b_used'.idx = b_avail.idx /\ b_used'.ring[Slot(blkq.last_used)] = b_head
  <2>1. Slot(b_used.idx) \in Slots
    BY <1>1, Advancing
  <2> QED
    BY <1>1, <1>2, <2>1, Zenon DEF BlkInv, BlkTypes
<1>5. BlkTypes'
  BY <1>2, <1>3, <1>4, <1>1, Zenon DEF BlkInv, BlkTypes, Resting
<1>6. IndexInv'
  BY <1>1, <1>2, <1>3, <1>4 DEF BlkInv, IndexInv, Serving, Resting, Current
<1>7. RequestInv'
  <2>1. ~Open' /\ Answered /\ b_pc' \notin {"app", "op"} /\ Written' = Written
        /\ (Succeeded' <=> Succeeded)
    BY <1>1, <1>2, <1>3, <1>4 DEF Open, Answered, Current, Written, Succeeded
  <2> QED
    BY <1>2, <1>3, <2>1 DEF BlkInv, RequestInv, Serving
<1> QED
  BY <1>5, <1>6, <1>7 DEF BlkInv

(* It looks for work, sleeps and wakes.                                    *)
LEMMA BdevSleepInv == ASSUME BlkInv, BdevEmpty \/ BdevRecheck \/ BdevKicked PROVE BlkInv'
<1>1. /\ b_dev.at \in Resting /\ b_dev.idx \in Indexes
      /\ b_dev = [at |-> b_dev.at, idx |-> b_dev.idx, chain |-> b_dev.chain]
  BY DEF BdevEmpty, BdevRecheck, BdevKicked, BlkInv, BlkTypes, Resting
<1>2. /\ UNCHANGED <<b_pc, b_req, b_head, b_result, blkq, was, b_bufs, b_desc, b_avail, disk>>
      /\ b_used' \in {b_used, [b_used EXCEPT !.avail_event = b_dev.idx]}
  BY DEF BdevEmpty, BdevRecheck, BdevKicked, b_guest, b_rings
<1>3. /\ b_dev' = [at |-> b_dev'.at, idx |-> b_dev.idx, chain |-> b_dev.chain]
      /\ b_dev'.at \in Resting /\ b_dev'.idx = b_dev.idx /\ b_dev'.chain = b_dev.chain
  <2>1. \E a \in Resting : b_dev' = [b_dev EXCEPT !.at = a]
    BY DEF BdevEmpty, BdevRecheck, BdevKicked, Resting
  <2> QED
    BY <1>1, <2>1
<1>4. /\ b_used' \in [idx : Indexes, ring : [Slots -> Slots], avail_event : Indexes]
      /\ b_used'.idx = b_used.idx /\ b_used'.ring = b_used.ring
  BY <1>1, <1>2 DEF BlkInv, BlkTypes
<1>5. BlkTypes'
  BY <1>1, <1>2, <1>3, <1>4 DEF BlkInv, BlkTypes
<1>6. IndexInv'
  BY <1>1, <1>2, <1>3, <1>4 DEF BlkInv, IndexInv, Serving, Resting
<1>7. RequestInv'
  <2>1. (Open' <=> Open) /\ (Made' <=> Made) /\ (Succeeded' <=> Succeeded) /\ (Answered' <=> Answered)
        /\ Written' = Written /\ (Told' <=> Told)
    BY <1>1, <1>2, <1>3, <1>4 DEF Open, Made, Header, Succeeded, Written, Answered, Told, Resting
  <2> QED
    BY <1>1, <1>2, <1>3, <2>1 DEF BlkInv, RequestInv, Serving, Resting
<1> QED
  BY <1>5, <1>6, <1>7 DEF BlkInv

(* So no step of the driver or of the device breaks the invariant.         *)
LEMMA BlkNextInv == BlkInv /\ [BlkNext]_b_vars => BlkInv'
<1>1. ASSUME BlkInv, UNCHANGED b_vars PROVE BlkInv'
  BY <1>1, ZenonT(30) DEF b_vars, b_guest, b_rings, b_device, BlkInv, BlkTypes, IndexInv, RequestInv, Open, Made,
              Header, Succeeded, Written, Answered, Told, Flagged
<1> QED
  BY <1>1, BlkCallInv, BlkOpInv, BlkWaitInv, BlkConsumeInv, BlkReturnInv, BdevTakeInv,
     BdevTransferInv, BdevStatusInv, BdevUseInv, BdevSleepInv DEF BlkNext, BlkGuest, BlkDevice

(* The invariant says what is claimed of the block calls.                  *)
LEMMA BlkSound == BlkInv => BlkKept
<1> SUFFICES ASSUME BlkInv PROVE BlkKept
  OBVIOUS
<1>1. BlkTypeOK /\ b_pc # "abort"
  BY DEF BlkTypeOK, BlkInv, BlkTypes, Current
<1>2. ASSUME b_dev.at = "serve" PROVE WellFormed(b_dev.chain)
  <2>1. Open /\ Made /\ b_dev.chain = <<b_head, Second(b_head), Third(b_head)>>
    BY <1>2 DEF BlkInv, RequestInv, IndexInv, Open, Serving
  <2>2. /\ b_dev.chain[1] = b_head /\ b_dev.chain[2] = Second(b_head)
        /\ b_dev.chain[3] = Third(b_head) /\ Len(b_dev.chain) = 3
    BY <2>1
  <2> QED
    BY <2>1, <2>2 DEF WellFormed, Made
<1>3. b_pc = "app" => Told
  BY DEF BlkInv, RequestInv
<1> QED
  BY <1>1, <1>2, <1>3 DEF BlkKept, Told, Written

-----------------------------------------------------------------------------
(* The guest keeps both invariants: the queues have no state in common.    *)
LEMMA IoInvariants == IoSpec => [](XmitInv /\ BlkInv)
<1>1. IoInit => XmitInv /\ BlkInv
  BY XmitInitInv, BlkInitInv DEF IoInit
<1>2. XmitInv /\ BlkInv /\ [IoNext]_ioVars => (XmitInv /\ BlkInv)'
  <2>1. [IoNext]_ioVars => [Next]_vars /\ [BlkNext]_b_vars
    BY DEF IoNext, NetIo, BlockIo, ioVars
  <2> QED
    BY <2>1, XmitNextInv, BlkNextInv
<1> QED
  BY <1>1, <1>2, PTL DEF IoSpec

(* The transmit queue loses no descriptor and frees none twice across the  *)
(* wraps of its indexes, and no packet is stranded with a sleeping device, *)
(* with and without event indexes (virtio_net_xmit_packet, virtio_ring.c). *)
THEOREM XmitQueue == IoSpec => []QueueSound
BY IoInvariants, XmitSound, PTL

(* Packets go out once, in order and with their own data: no buffer is     *)
(* filled again before the device has returned its chain.                  *)
THEOREM XmitInOrder == IoSpec => []SentInOrder
BY IoInvariants, XmitSound, PTL

(* The block calls keep their promise: chains of three descriptors are     *)
(* well formed whatever roles their slots had, no assertion of the driver  *)
(* fails, a read returns the sector and a write changes that sector only.  *)
THEOREM BlockCalls == IoSpec => []BlkKept
BY IoInvariants, BlkSound, PTL
=============================================================================
