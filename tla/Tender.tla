------------------------------- MODULE Tender -------------------------------
(***************************************************************************)
(* A guest with a tender on a Unix host: what the tender does to start it  *)
(* (module ElfLoad), the calls of solo5.h it makes (HostWait, HostBlock),  *)
(* and a debugger that looks at it (HvtGdb).                               *)
(*                                                                         *)
(* work says which of these a behaviour is about.  A guest has one thread, *)
(* its calls wait for it and for nothing else, and they share the manifest *)
(* only, so that an application that uses both groups of calls interleaves *)
(* whole calls; loading is over when the guest starts; the debugger stops  *)
(* the guest between two instructions.                                     *)
(***************************************************************************)
EXTENDS HostWait, HostBlock, ElfLoad, HvtGdb

CONSTANTS
    Works,           \* subset of {"net", "block", "load", "debug"}
    Offsets, Lens    \* of block requests: words about the limits

ASSUME CallAssumption == Offsets \subseteq 0 .. Word - 1 /\ Lens \subseteq 0 .. Word - 1

VARIABLE work

vars == <<target, mft, work, tscVars, waitVars, blkVars, elfVars, gdbVars>>

(* Any request for a declared handle or one too high; of one that writes,  *)
(* any value.                                                              *)
Requests ==
    [raw : BOOLEAN, op : {"write"}, handle : DOMAIN mft \cup {Cardinality(DOMAIN mft)},
     offset : Offsets, len : Lens, value : Values]
    \cup
    [raw : BOOLEAN, op : {"read"}, handle : DOMAIN mft \cup {Cardinality(DOMAIN mft)},
     offset : Offsets, len : Lens, value : {NoReq.value}]

(* Of what a behaviour is not about, one instance is enough.  The targets  *)
(* differ in yield on Linux and the BSDs, not in block storage, loading is *)
(* the same code on all, and the stub is that of KVM.                      *)
Init ==
    /\ MftInit /\ work \in Works /\ TscInit /\ WaitInit /\ BlockInit /\ ElfInit /\ GdbInit
    /\ work # "net" => freq = Max(Freqs)
    /\ work # "block" => capacity = Max(Capacities) /\ block_size = 0
    /\ work = "block" => target # "hvt_bsd"
    /\ work \in {"load", "debug"} => target = "hvt" /\ Cardinality(DOMAIN mft) = 1
    /\ work # "debug" => code = [a \in Addrs |-> CHOOSE v \in Insns : TRUE]

NetStep ==
    work = "net" /\ WaitNext /\ UNCHANGED <<target, mft, work, blkVars, elfVars, gdbVars>>

BlockStep ==
    /\ work = "block" /\ BlockNext(Requests)
    /\ UNCHANGED <<target, mft, work, tscVars, waitVars, elfVars, gdbVars>>

LoadStep ==
    /\ work = "load" /\ ElfNext
    /\ UNCHANGED <<target, mft, work, tscVars, waitVars, blkVars, gdbVars>>

DebugStep ==
    /\ work = "debug" /\ GdbNext
    /\ UNCHANGED <<target, mft, work, tscVars, waitVars, blkVars, elfVars>>

Next == NetStep \/ BlockStep \/ LoadStep \/ DebugStep

Spec == Init /\ [][Next]_vars

(* Time passes; the guest runs, and the kernel wakes it when it can.       *)
FairSpec ==
    /\ Spec
    /\ WF_vars(NetStep /\ TimePasses)
    /\ WF_vars(NetStep /\ (Scale \/ Base))
    /\ WF_vars(NetStep /\ (YieldClock \/ Arm \/ WaitEnds \/ YieldReturn))

TypeOK ==
    /\ target \in Targets /\ mft \in Manifests /\ work \in Works
    /\ TscTypeOK /\ WaitTypeOK /\ BlockTypeOK /\ ElfTypeOK /\ GdbTypeOK

(* solo5_yield() always returns, also when its deadline has passed and no  *)
(* device is ever readable: the timer it sets is never the zero that means *)
(* none.                                                                   *)
YieldReturns == yield \in {"clock", "arm", "wait", "done"} ~> yield = "app"
=============================================================================
