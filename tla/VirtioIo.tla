------------------------------ MODULE VirtioIo ------------------------------
(***************************************************************************)
(* The queues through which a virtio guest sends: network transmission     *)
(* (VirtioXmit) and block requests (VirtioBlk).  They have no state in     *)
(* common, so that a behaviour exercises one of them; io says which.       *)
(***************************************************************************)
EXTENDS VirtioXmit, VirtioBlk

VARIABLE io

ioVars == <<vars, b_vars, io>>

IoInit == Init /\ BlkInit /\ b_event = uses_event_idx /\ io \in {"net", "block"}

NetIo(A) == io = "net" /\ A /\ UNCHANGED <<b_vars, io>>
BlockIo(A) == io = "block" /\ A /\ UNCHANGED <<vars, io>>

IoNext == NetIo(Next) \/ BlockIo(BlkNext)
IoSpec == IoInit /\ [][IoNext]_ioVars

(* The host runs the guest and serves its devices.                         *)
FairIoSpec ==
    /\ IoSpec
    /\ WF_ioVars(NetIo(Guest))
    /\ WF_ioVars(NetIo(DevSend \/ DevEmpty \/ DevRecheck \/ DevKicked))
    /\ WF_ioVars(NetIo(DevUse))
    /\ WF_ioVars(BlockIo(BlkGuest)) /\ WF_ioVars(BlockIo(BlkDevice))

(* solo5_net_write and the block calls return to the application, through  *)
(* a full queue and with suppressed notifications alike.                   *)
CallsComeBack == WritesReturn /\ BlkReturns
=============================================================================
