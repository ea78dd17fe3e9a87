------------------------------- MODULE PvClock -------------------------------
(***************************************************************************)
(* Reading a paravirtualised clock (bindings/xen/pvclock.c and             *)
(* bindings/virtio/pvclock.c): pvclock_monotonic takes the fields of       *)
(* struct pvclock_vcpu_time_info, pvclock_read_wall_clock those of struct  *)
(* pvclock_wall_clock, while the hypervisor may be rewriting them, and     *)
(* both start over unless the version says that all belong together.  The  *)
(* hypervisor's k-th set of values is the number k: a field holds the set  *)
(* it was last written from, and the time computed from the fields is      *)
(* right when they are of one set.                                         *)
(*                                                                         *)
(* Between the fences the loads may come in any order.  The 32-bit version *)
(* is not wrapped: a reader delayed for 2^31 updates is out of bounds.     *)
(***************************************************************************)
EXTENDS Integers

CONSTANTS
    Fields,       \* tsc_timestamp, tsc_shift, ..., or sec and nsec
    MaxUpdates    \* bound on the updates

ASSUME PvClockAssumption == MaxUpdates \in Nat

VARIABLES
    version, field,      \* the structure
    unwritten,           \* fields the hypervisor's update has yet to write
    kpc,                 \* the reader
    seen,                \* its local version
    unread, got,         \* fields it has yet to read; what it read
    called               \* the set in force when the call began

timeinfo == <<version, field, unwritten>>
reader == <<kpc, seen, unread, got, called>>
clkvars == <<timeinfo, reader>>

ClkInit ==
    /\ version = 0 /\ field = [f \in Fields |-> 0] /\ unwritten = {}
    /\ kpc = "idle" /\ seen = 0 /\ unread = {} /\ got = [f \in Fields |-> 0]
    /\ called = 0

-----------------------------------------------------------------------------
(* The hypervisor: an odd version while it writes.                         *)

UpdateBegin ==
    /\ version % 2 = 0 /\ version < 2 * MaxUpdates
    /\ version' = version + 1 /\ unwritten' = Fields
    /\ UNCHANGED <<field, reader>>

UpdateField(f) ==
    /\ f \in unwritten /\ unwritten' = unwritten \ {f}
    /\ field' = [field EXCEPT ![f] = (version + 1) \div 2]
    /\ UNCHANGED <<version, reader>>

UpdateEnd ==
    /\ version % 2 = 1 /\ unwritten = {} /\ version' = version + 1
    /\ UNCHANGED <<field, unwritten, reader>>

UpdateRest == (\E f \in Fields : UpdateField(f)) \/ UpdateEnd
Hypervisor == UpdateBegin \/ UpdateRest

-----------------------------------------------------------------------------
(* The reader.                                                             *)

ClockCall ==
    /\ kpc = "idle" /\ kpc' = "version" /\ called' = version \div 2
    /\ UNCHANGED <<timeinfo, seen, unread, got>>

ReadVersion ==
    /\ kpc = "version" /\ kpc' = "read"
    /\ seen' = version /\ unread' = Fields
    /\ UNCHANGED <<timeinfo, got, called>>

ReadField(f) ==
    /\ kpc = "read" /\ f \in unread /\ unread' = unread \ {f}
    /\ got' = [got EXCEPT ![f] = field[f]]
    /\ UNCHANGED <<timeinfo, kpc, seen, called>>

(* Mutant: the test is the wrong way round.                                *)
CheckEven ==
    /\ kpc = "read" /\ unread = {}
    /\ kpc' = IF version % 2 = 0 THEN "version" ELSE "same"
    /\ UNCHANGED <<timeinfo, seen, unread, got, called>>

(* The loop condition: two loads of the version.                           *)
CheckOdd ==
    /\ kpc = "read" /\ unread = {}
    /\ kpc' = IF version % 2 = 1 THEN "version" ELSE "same"
    /\ UNCHANGED <<timeinfo, seen, unread, got, called>>

(* Mutant: only an update in progress is noticed.                          *)
CheckNothing ==
    /\ kpc = "same" /\ kpc' = "done"
    /\ UNCHANGED <<timeinfo, seen, unread, got, called>>

CheckSame ==
    /\ kpc = "same"
    /\ kpc' = IF version # seen THEN "version" ELSE "done"
    /\ UNCHANGED <<timeinfo, seen, unread, got, called>>

(* The locals die with the call.                                           *)
ClockReturn ==
    /\ kpc = "done" /\ kpc' = "idle"
    /\ seen' = 0 /\ got' = [f \in Fields |-> 0] /\ called' = 0
    /\ UNCHANGED <<timeinfo, unread>>

(* The last call: the structure is not looked at again.                    *)
ClockReturnLast ==
    /\ kpc = "done" /\ kpc' = "idle"
    /\ version' = 0 /\ field' = [f \in Fields |-> 0] /\ unwritten' = {}
    /\ seen' = 0 /\ got' = [f \in Fields |-> 0] /\ called' = 0
    /\ UNCHANGED unread

ClockLoop == ReadVersion \/ (\E f \in Fields : ReadField(f)) \/ CheckOdd \/ CheckSame

ClkNext == Hypervisor \/ ClockCall \/ ClockLoop \/ ClockReturn

ClkSpec == ClkInit /\ [][ClkNext]_clkvars

-----------------------------------------------------------------------------
(* Type invariant; an even version has no field left to write.             *)
ClkTypeOK ==
    /\ version \in Nat /\ field \in [Fields -> Nat] /\ got \in [Fields -> Nat]
    /\ unwritten \subseteq Fields /\ unread \subseteq Fields
    /\ kpc \in {"idle", "version", "read", "same", "done"}
    /\ seen \in Nat /\ called \in Nat
    /\ version % 2 = 0 => unwritten = {}

(* The time is computed from one complete set of values, at least as       *)
(* recent as the one in force at the call: never from a mixture of two,    *)
(* however the hypervisor's updates fall into the loop.                    *)
ClockConsistent ==
    kpc = "done" => \A f \in Fields :
        got[f] >= called /\ \A g \in Fields : got[g] = got[f]
=============================================================================
