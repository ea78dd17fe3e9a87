-------------------------------- MODULE Virtq --------------------------------
(***************************************************************************)
(* Index arithmetic of a virtqueue (bindings/virtio/virtio_ring.h): free   *)
(* running indexes that wrap at Word (65536) and select one of Num slots.  *)
(***************************************************************************)
EXTENDS Integers

CONSTANTS Num, Word

ASSUME VirtqAssumption ==
    Num \in Nat \ {0} /\ Word \in Nat \ {0} /\ Word > Num + 1 /\ Word % Num = 0

Slots == 0 .. Num - 1
Indexes == 0 .. Word - 1

Slot(i) == i % Num
Plus(i, n) == (i + n) % Word
Minus(i, j) == (i - j) % Word

(* virtq_need_event.  (NeedEventAfter is off by one.)                      *)
NeedEventAfter(event, new, old) == Minus(new, event) < Minus(new, old)
NeedEvent(event, new, old) == Minus(new, event + 1) < Minus(new, old)
=============================================================================
