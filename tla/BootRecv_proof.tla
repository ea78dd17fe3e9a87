---------------------------- MODULE BootRecv_proof ----------------------------
(***************************************************************************)
(* Two components that do not meet, one after the other.                   *)
(*                                                                         *)
(* Starting a unikernel on hvt, for every manifest and command line, every *)
(* page size and memory limit, and whichever of the host's services fail:  *)
(* the memory layout, the agreement on the ring and the devices are sound  *)
(* when the application starts.                                            *)
(*                                                                         *)
(* The receive queue of a virtio network device, for every queue size, any *)
(* index word that is a multiple of it, any store buffer and any number of *)
(* packets: packets are delivered once, in order and unharmed, no buffer   *)
(* is lost, and the device is never left waiting for a buffer it has.      *)
(***************************************************************************)
EXTENDS HvtBoot, VirtioRecv, Arithmetic

-----------------------------------------------------------------------------
(* Booting: sizes.                                                         *)

(* Rounding up loses nothing, rounding down gives whole pages.             *)
LEMMA Rounding ==
    ASSUME NEW m \in Nat
    PROVE  RoundUp(m) \in Nat /\ RoundUp(m) >= m /\ HvtMemSize(m) \in Nat
<1>1. Page \in Nat \ {0}
  BY BootAssumption
<1>2. ASSUME NEW x \in Nat
      PROVE  (x \div Page) * Page \in Nat /\ (x \div Page) * Page >= x - Page + 1
  <2>1. x \div Page \in Nat /\ x % Page \in 0 .. Page - 1 /\ x = Page * (x \div Page) + (x % Page)
    BY <1>1
  <2>2. ASSUME NEW q \in Nat, NEW r \in 0 .. Page - 1, x = Page * q + r
        PROVE  q * Page \in Nat /\ q * Page >= x - Page + 1
    BY <1>1, <2>2
  <2> QED
    BY <2>1, <2>2
<1>3. m + Page - 1 \in Nat
  BY <1>1
<1>4. RoundUp(m) \in Nat /\ RoundUp(m) >= (m + Page - 1) - Page + 1
  BY <1>2, <1>3 DEF RoundUp
<1>5. RoundDown(m) \in Nat
  BY <1>2 DEF RoundDown
<1> QED
  BY <1>1, <1>4, <1>5 DEF HvtMemSize

(* What the overhead of the ring can be.                                   *)
LEMMA Overhead ==
    /\ NetMemOverhead \in Nat
    /\ NetMemOverhead > 0 => NetMemOverhead >= RingBytes \/ NetMemOverhead = MaxMem
    /\ NetMemOverhead > 0 => Attached("NET_BASIC") # {}
<1>1. RingBytes \in Nat /\ MaxMem \in Nat
  BY BootAssumption
<1>2. RoundUp(RingBytes) \in Nat /\ RoundUp(RingBytes) >= RingBytes
  BY <1>1, Rounding
<1> QED
  BY <1>1, <1>2 DEF NetMemOverhead, Clamp

(* The memory allocated for a guest: no less than asked for, with room for *)
(* the ring unless that is more than the largest guest.                    *)
LEMMA Sizing ==
    ASSUME NEW m \in Nat, HvtMemSize(m) <= MaxMem
    PROVE  LET total == WithOverhead(HvtMemSize(m)) IN
           /\ total \in Nat /\ total <= MaxMem /\ total >= HvtMemSize(m)
           /\ total >= HvtMemSize(m) + NetMemOverhead \/ total = MaxMem
<1> DEFINE h == HvtMemSize(m)
           o == NetMemOverhead
<1>1. h \in Nat /\ o \in Nat /\ MaxMem \in Nat
  BY Rounding, Overhead, BootAssumption
<1>2. RoundUp(h + o) \in Nat /\ RoundUp(h + o) >= h + o
  BY <1>1, Rounding, h + o \in Nat
<1> HIDE DEF h, o
<1>3. ASSUME NEW t, t = IF o > 0 THEN Clamp(h + o) ELSE h, h <= MaxMem
      PROVE  t \in Nat /\ t <= MaxMem /\ t >= h /\ (t >= h + o \/ t = MaxMem)
  BY <1>1, <1>2, <1>3 DEF Clamp
<1> QED
  BY <1>3 DEF h, o, WithOverhead

-----------------------------------------------------------------------------
(* The invariant.                                                          *)

Parsing == {"manifest", "args"}
Setting == {"setup", "boot_info", "start", "app"}
Placed == {"vcpu"} \cup Setting
Allocated == {"load", "reserve"} \cup Placed

(* Sizes and places, from the command line to the application.             *)
PlaceInv ==
    /\ phase \in Parsing => mem_size = asked
    /\ phase \in {"init"} \cup Allocated =>
          HvtMemSize(asked) <= MaxMem /\ mem_size = WithOverhead(HvtMemSize(asked))
    /\ phase \in Allocated => alloc_size = mem_size
    /\ phase \in Parsing \cup {"init", "load", "reserve"} => reserved_ring_gpa = 0
    /\ phase \in {"load", "reserve"} => guest_mem_size = mem_size
    /\ phase \in Placed =>
          IF reserved_ring_gpa = 0 THEN guest_mem_size = mem_size
          ELSE /\ NetMemOverhead > 0 /\ NetMemOverhead < MaxMem
               /\ reserved_ring_gpa = guest_mem_size
               /\ guest_mem_size + NetMemOverhead = mem_size
    /\ phase \in Setting => rsp = guest_mem_size

(* The ring's thread, its eventfd and its halt hook come and go together.  *)
RingInv ==
    /\ "net" \in pending => ~efd_open /\ ~io_thread /\ ~halt_hook
    /\ efd_open <=> io_thread
    /\ efd_open => /\ halt_hook /\ has_ioeventfd
                       /\ net_ring_gpa = reserved_ring_gpa /\ reserved_ring_gpa # 0
    /\ phase \in Parsing \cup {"init", "load", "reserve", "vcpu"} => "net" \in pending
    /\ phase = "halted" => ~efd_open

(* What the guest is told, and what it makes of it.                        *)
ToldInv ==
    /\ phase \in {"start", "app"} =>
          bi = [mem_size |-> guest_mem_size, ring_io |-> efd_open,
                net_ring |-> IF efd_open THEN net_ring_gpa ELSE 0]
    /\ phase = "app" => EnoughMemory /\ net_ring = IF efd_open THEN net_ring_gpa ELSE 0

(* A device whose module's setup() has run.                                *)
NetReady(i) ==
    {"NET_WRITE", "NET_READ"} \subseteq hypercalls /\ i \in pollfds /\ entry[i].mac # "none"
BlockReady(i) ==
    /\ {"BLOCK_WRITE", "BLOCK_READ"} \subseteq hypercalls
    /\ entry[i].block_size > 0 /\ entry[i].capacity >= entry[i].block_size
    /\ entry[i].capacity % entry[i].block_size = 0

ReadyInv ==
    /\ phase \in Setting =>
          /\ "core" \notin pending => "POLL" \in hypercalls
          /\ "net" \notin pending => \A i \in Attached("NET_BASIC") : NetReady(i)
          /\ "block" \notin pending => \A i \in Attached("BLOCK_BASIC") : BlockReady(i)
    /\ phase \in {"boot_info", "start", "app"} => pending = {} /\ AllAttached
    /\ phase \in Parsing \cup {"init", "load", "reserve", "vcpu"} =>
          pending = {"core", "net", "block"}

Phases == Parsing \cup {"init"} \cup Allocated \cup {"halted", "dead"}

BootInv == BootTypeOK /\ phase \in Phases /\ PlaceInv /\ RingInv /\ ToldInv /\ ReadyInv

(* Nothing is attached after the command line, so the overhead is fixed.   *)
LEMMA Fixed ==
    ASSUME UNCHANGED <<mft, entry>>
    PROVE  /\ Attached("NET_BASIC")' = Attached("NET_BASIC")
           /\ Attached("BLOCK_BASIC")' = Attached("BLOCK_BASIC")
           /\ NetMemOverhead' = NetMemOverhead
           /\ \A m : WithOverhead(m)' = WithOverhead(m)
BY DEF Attached, NetMemOverhead, WithOverhead

(* The program starts.                                                     *)
LEMMA BootInitInv == BootInit => BootInv
<1> SUFFICES ASSUME BootInit PROVE BootInv
  OBVIOUS
<1> USE DEF BootInit
<1>1. BootTypeOK
  <2>1. Unattached \in EntryState
    BY DEF Unattached, EntryState
  <2>2. 0 \in 0 .. MaxArgs
    BY BootAssumption
  <2>3. NoBootInfo \in [mem_size : Nat, ring_io : BOOLEAN, net_ring : Nat]
    BY DEF NoBootInfo
  <2> QED
    BY <2>1, <2>2, <2>3, BootAssumption, Zenon DEF BootTypeOK
<1>2. phase \in Phases /\ PlaceInv /\ RingInv /\ ToldInv /\ ReadyInv
  BY DEF Phases, PlaceInv, RingInv, ToldInv, ReadyInv, Parsing, Allocated, Placed, Setting
<1> QED
  BY <1>1, <1>2 DEF BootInv

(* Before setup() only the type, the sizes and the phase are at stake.     *)
Early == Parsing \cup {"init", "load", "reserve", "vcpu"}

LEMMA EarlyInv ==
    ASSUME BootInv, phase \in Early, phase' \in Early \cup {"dead"},
           UNCHANGED <<pending, efd_open, io_thread, halt_hook>>
    PROVE  phase' \in Phases /\ RingInv' /\ ToldInv' /\ ReadyInv'
<1> USE DEF Early, Parsing, Allocated, Placed, Setting
<1>1. phase' \in Phases
  BY DEF Phases
<1>2. RingInv'
  BY DEF RingInv, BootInv
<1>3. ToldInv'
  BY DEF ToldInv
<1>4. ReadyInv'
  BY DEF ReadyInv, BootInv
<1> QED
  BY <1>1, <1>2, <1>3, <1>4

(* mft_get_by_name finds an entry of the manifest.                         *)
LEMMA FoundEntry == \A name, type : GetByName(name, type) \subseteq 1 .. Len(mft)
BY DEF GetByName

(* The manifest and the command line.                                      *)
LEMMA ArgsInv ==
    ASSUME BootInv, ValidateManifest \/ MemOption \/ BadOption \/ NetOption \/ BlockOption
    PROVE  BootInv'
<1> USE DEF Option, Die, cmdline, sizes, kvm, tables, handover
<1>1. phase \in Parsing /\ phase' \in {"args", "dead"}
  BY Zenon DEF ValidateManifest, MemOption, BadOption, NetOption, BlockOption, Parsing
<1>2. /\ UNCHANGED <<mft, guest_mem_size, alloc_size, rsp, kend, reserved_ring_gpa,
                     kvm, tables, handover>>
      /\ args' \in 0 .. MaxArgs /\ asked' \in MemArgs \cup {DefaultMem}
      /\ mem_size' = asked'
  <2>1. mem_size = asked /\ args \in 0 .. MaxArgs /\ asked \in MemArgs \cup {DefaultMem}
    BY <1>1 DEF BootInv, PlaceInv, BootTypeOK
  <2>2. args' = args \/ (args < MaxArgs /\ args' = args + 1)
    BY Zenon DEF ValidateManifest, MemOption, BadOption, NetOption, BlockOption
  <2>3. args' \in 0 .. MaxArgs
    BY <2>1, <2>2, BootAssumption
  <2> QED
    BY <2>1, <2>3, Zenon DEF ValidateManifest, MemOption, BadOption, NetOption, BlockOption
<1>3. entry' \in [1 .. Len(mft) -> EntryState]
  <2>1. entry \in [1 .. Len(mft) -> EntryState]
    BY DEF BootInv, BootTypeOK
  <2>2. CASE NetOption
    BY <2>1, <2>2, FoundEntry, ZenonT(90) DEF NetOption, EntryState
  <2>3. CASE BlockOption
    <3>1. \A s : ValidSectorSize(s) => s \in Nat
      BY DEF ValidSectorSize
    <3>2. PICK i \in 1 .. Len(mft) :
             \/ \E c \in Capacities :
                   entry' = [entry EXCEPT ![i].attached = TRUE, ![i].capacity = c]
             \/ \E s \in Nat : entry' = [entry EXCEPT ![i].block_size = s]
      BY <2>3, <3>1, FoundEntry, Zenon DEF BlockOption
    <3>3. CASE \E s \in Nat : entry' = [entry EXCEPT ![i].block_size = s]
      BY <2>1, <3>2, <3>3, Zenon DEF EntryState
    <3>4. ASSUME NEW c \in Capacities,
                 entry' = [entry EXCEPT ![i].attached = TRUE, ![i].capacity = c]
          PROVE  entry' = [entry EXCEPT ![i] = [entry[i] EXCEPT !.attached = TRUE, !.capacity = c]]
      BY <2>1, <3>2, <3>4, Zenon
    <3>5. ASSUME NEW c \in Capacities
          PROVE  [entry[i] EXCEPT !.attached = TRUE, !.capacity = c] \in EntryState
      <4>1. c \in Nat
        BY BootAssumption
      <4> QED
        BY <2>1, <3>2, <4>1, ZenonT(30) DEF EntryState
    <3>6. CASE \E c \in Capacities :
                  entry' = [entry EXCEPT ![i].attached = TRUE, ![i].capacity = c]
      <4>1. PICK r \in EntryState : entry' = [entry EXCEPT ![i] = r]
        BY <3>4, <3>5, <3>6, Zenon
      <4> QED
        BY <2>1, <4>1
    <3> QED
      BY <3>2, <3>3, <3>6, Zenon
  <2>4. CASE ValidateManifest \/ MemOption \/ BadOption
    BY <2>1, <2>4, Zenon DEF ValidateManifest, MemOption, BadOption
  <2> QED
    BY <2>2, <2>3, <2>4
<1>4. BootTypeOK'
  <2>1. mem_size' \in Nat
    BY <1>2, BootAssumption
  <2> QED
    BY <1>2, <1>3, <2>1 DEF BootInv, BootTypeOK
<1>5. PlaceInv'
  BY <1>1, <1>2 DEF BootInv, PlaceInv, Parsing, Allocated, Placed, Setting
<1>6. phase' \in Phases /\ RingInv' /\ ToldInv' /\ ReadyInv'
  BY <1>1, <1>2, EarlyInv DEF Early, Parsing
<1> QED
  BY <1>4, <1>5, <1>6 DEF BootInv

(* Sizing and allocating guest memory, and loading.                        *)
LEMMA MemoryInv ==
    ASSUME BootInv, SizeMemory \/ HvtInit \/ ElfLoad
    PROVE  BootInv'
<1> USE DEF Die, cmdline, sizes, kvm, tables, handover
<1>0. /\ UNCHANGED <<mft, entry, args, asked, rsp, reserved_ring_gpa, net_ring_gpa, io_thread,
                     halt_hook, tables, handover>>
      /\ NetMemOverhead' = NetMemOverhead /\ \A m : WithOverhead(m)' = WithOverhead(m)
  BY Fixed DEF SizeMemory, HvtInit, ElfLoad
<1>1. CASE SizeMemory
  <2>1. mem_size = asked /\ mem_size \in Nat /\ reserved_ring_gpa = 0
    BY <1>1 DEF SizeMemory, BootInv, PlaceInv, BootTypeOK, Parsing
  <2>2. CASE HvtMemSize(mem_size) > MaxMem
    <3>1. phase' = "dead" /\ mem_size' = mem_size
      BY <1>1, <2>2 DEF SizeMemory
    <3>2. BootTypeOK'
      BY <1>0, <1>1, <3>1 DEF SizeMemory, BootInv, BootTypeOK
    <3>3. PlaceInv'
      BY <3>1 DEF PlaceInv, Parsing, Allocated, Placed, Setting
    <3>4. phase' \in Phases /\ RingInv' /\ ToldInv' /\ ReadyInv'
      BY <1>1, <3>1, EarlyInv DEF SizeMemory, Early, Parsing
    <3> QED
      BY <3>2, <3>3, <3>4 DEF BootInv
  <2>3. CASE ~(HvtMemSize(mem_size) > MaxMem)
    <3>1. phase' = "init" /\ mem_size' = WithOverhead(HvtMemSize(mem_size))
      BY <1>1, <2>3 DEF SizeMemory
    <3>2. HvtMemSize(mem_size) <= MaxMem
      BY <2>1, <2>3, Rounding, BootAssumption
    <3>3. BootTypeOK'
      BY <1>0, <1>1, <2>1, <3>1, <3>2, Sizing DEF SizeMemory, BootInv, BootTypeOK
    <3>4. HvtMemSize(asked)' = HvtMemSize(asked)
      BY <1>0 DEF HvtMemSize, RoundDown
    <3>5. PlaceInv'
      BY <1>0, <2>1, <3>1, <3>2, <3>4 DEF PlaceInv, Parsing, Allocated, Placed, Setting
    <3>6. phase' \in Phases /\ RingInv' /\ ToldInv' /\ ReadyInv'
      BY <1>1, <3>1, EarlyInv DEF SizeMemory, Early, Parsing
    <3> QED
      BY <3>3, <3>5, <3>6 DEF BootInv
  <2> QED
    BY <2>2, <2>3
<1>2. CASE HvtInit
  <2>1. ~efd_open
    BY <1>2 DEF HvtInit, BootInv, RingInv
  <2>2. BootTypeOK'
    BY <1>0, <1>2, Zenon DEF HvtInit, BootInv, BootTypeOK
  <2>3. PlaceInv'
    BY <1>0, <1>2 DEF HvtInit, BootInv, PlaceInv, Parsing, Allocated, Placed, Setting
  <2>4. phase' \in Phases /\ RingInv' /\ ToldInv' /\ ReadyInv'
    BY <1>2, <2>1, EarlyInv, Zenon DEF HvtInit, Early, BootInv, BootTypeOK
  <2> QED
    BY <2>2, <2>3, <2>4 DEF BootInv
<1>3. CASE ElfLoad
  <2>1. BootTypeOK'
    BY <1>0, <1>3, BootAssumption DEF ElfLoad, BootInv, BootTypeOK
  <2>2. PlaceInv'
    BY <1>0, <1>3 DEF ElfLoad, BootInv, PlaceInv, Parsing, Allocated, Placed, Setting
  <2>3. phase' \in Phases /\ RingInv' /\ ToldInv' /\ ReadyInv'
    BY <1>3, EarlyInv DEF ElfLoad, Early
  <2> QED
    BY <2>1, <2>2, <2>3 DEF BootInv
<1> QED
  BY <1>1, <1>2, <1>3

(* The ring takes the top of guest memory, the stack starts below it.      *)
LEMMA ReserveInv ==
    ASSUME BootInv, ReserveRing \/ VcpuInit
    PROVE  BootInv'
<1> USE DEF Die, cmdline, sizes, kvm, tables, handover
<1>0. /\ UNCHANGED <<mft, entry, args, asked, mem_size, alloc_size, kend, kvm, tables, handover>>
      /\ NetMemOverhead' = NetMemOverhead /\ \A m : WithOverhead(m)' = WithOverhead(m)
  BY Fixed DEF ReserveRing, VcpuInit
<1>1. HvtMemSize(asked)' = HvtMemSize(asked)
  BY <1>0 DEF HvtMemSize, RoundDown
<1>2. CASE ReserveRing
  <2>1. /\ guest_mem_size = mem_size /\ alloc_size = mem_size /\ reserved_ring_gpa = 0
        /\ asked \in Nat /\ HvtMemSize(asked) <= MaxMem
        /\ mem_size = WithOverhead(HvtMemSize(asked))
    BY <1>2, BootAssumption DEF ReserveRing, BootInv, PlaceInv, BootTypeOK, Allocated
  <2>2. mem_size \in Nat /\ mem_size <= MaxMem /\ NetMemOverhead \in Nat /\ MaxMem \in Nat
    BY <2>1, Sizing, Overhead, BootAssumption, SMTT(30)
  <2>3. \/ reserved_ring_gpa' = 0 /\ guest_mem_size' = mem_size
        \/ /\ reserved_ring_gpa' # 0 /\ NetMemOverhead > 0 /\ NetMemOverhead < MaxMem
           /\ reserved_ring_gpa' = guest_mem_size' /\ guest_mem_size' \in Nat
           /\ guest_mem_size' + NetMemOverhead = mem_size
    BY <1>2, <2>1, <2>2 DEF ReserveRing
  <2>4. BootTypeOK'
    <3>1. guest_mem_size' \in Nat /\ reserved_ring_gpa' \in Nat
      BY <2>2, <2>3
    <3> QED
      BY <1>0, <1>2, <3>1 DEF ReserveRing, BootInv, BootTypeOK
  <2>5. PlaceInv'
    BY <1>0, <1>1, <1>2, <2>1, <2>3 DEF ReserveRing, PlaceInv, Parsing, Allocated, Placed, Setting
  <2>6. phase' \in Phases /\ RingInv' /\ ToldInv' /\ ReadyInv'
    BY <1>0, <1>2, EarlyInv DEF ReserveRing, Early
  <2> QED
    BY <2>4, <2>5, <2>6 DEF BootInv
<1>3. CASE VcpuInit
  <2>1. BootTypeOK'
    BY <1>0, <1>3 DEF VcpuInit, BootInv, BootTypeOK
  <2>2. PlaceInv'
    BY <1>0, <1>1, <1>3 DEF VcpuInit, BootInv, PlaceInv, Parsing, Allocated, Placed, Setting
  <2>3. phase' \in Phases
    BY <1>3 DEF VcpuInit, Phases, Allocated, Placed, Setting
  <2>4. RingInv'
    BY <1>0, <1>3 DEF VcpuInit, BootInv, RingInv, Parsing
  <2>5. ToldInv'
    BY <1>3 DEF VcpuInit, ToldInv
  <2>6. ReadyInv'
    BY <1>0, <1>3 DEF VcpuInit, BootInv, ReadyInv, Parsing, Setting
  <2> QED
    BY <2>1, <2>2, <2>3, <2>4, <2>5, <2>6 DEF BootInv
<1> QED
  BY <1>2, <1>3

-----------------------------------------------------------------------------
(* setup_modules.                                                          *)

(* A setup() changes addresses and sector sizes, never what is attached.   *)
LEMMA SetupFrame ==
    ASSUME BootInv, phase = "setup", phase' \in {"setup", "dead"},
           UNCHANGED <<mft, args, asked, sizes, has_ioeventfd, handover>>,
           entry' \in [1 .. Len(mft) -> EntryState],
           \A i \in 1 .. Len(mft) : entry'[i].attached = entry[i].attached
    PROVE  /\ \A type : Attached(type)' = Attached(type)
           /\ PlaceInv' /\ ToldInv' /\ phase' \in Phases
<1> USE DEF sizes, handover
<1>1. \A type : Attached(type)' = Attached(type)
  BY DEF Attached
<1>2. NetMemOverhead' = NetMemOverhead
  BY <1>1 DEF NetMemOverhead
<1>3. \A m : WithOverhead(m)' = WithOverhead(m)
  BY <1>2 DEF WithOverhead
<1>4. HvtMemSize(asked)' = HvtMemSize(asked)
  BY DEF HvtMemSize, RoundDown
<1>5. PlaceInv'
  BY <1>2, <1>3, <1>4, SMTT(30) DEF BootInv, PlaceInv, Parsing, Allocated, Placed, Setting
<1>6. ToldInv' /\ phase' \in Phases
  BY DEF ToldInv, Phases, Parsing, Allocated, Placed, Setting
<1> QED
  BY <1>1, <1>5, <1>6

LEMMA SetupCoreInv == BootInv /\ SetupCore => BootInv'
<1> SUFFICES ASSUME BootInv, SetupCore PROVE BootInv'
  OBVIOUS
<1> USE DEF SetupCore, SetupOf
<1>1. /\ \A type : Attached(type)' = Attached(type)
      /\ PlaceInv' /\ ToldInv' /\ phase' \in Phases
  BY SetupFrame DEF BootInv, BootTypeOK
<1>2. BootTypeOK'
  BY DEF BootInv, BootTypeOK, sizes, handover
<1>3. RingInv'
  BY DEF BootInv, RingInv, sizes, Parsing
<1>4. ReadyInv'
  BY <1>1 DEF BootInv, ReadyInv, Parsing, Setting, NetReady, BlockReady
<1> QED
  BY <1>1, <1>2, <1>3, <1>4 DEF BootInv

LEMMA SetupNetInv == BootInv /\ SetupNet => BootInv'
<1> SUFFICES ASSUME BootInv, SetupNet PROVE BootInv'
  OBVIOUS
<1> USE DEF SetupNet, SetupOf, Nets
<1>1. entry \in [1 .. Len(mft) -> EntryState]
  BY DEF BootInv, BootTypeOK
<1>2. /\ entry' \in [1 .. Len(mft) -> EntryState]
      /\ \A i \in 1 .. Len(mft) :
            /\ entry'[i].attached = entry[i].attached /\ entry'[i].capacity = entry[i].capacity
            /\ entry'[i].block_size = entry[i].block_size
            /\ i \in Nets => entry'[i].mac # "none"
  BY <1>1 DEF EntryState
<1>3. /\ \A type : Attached(type)' = Attached(type)
      /\ PlaceInv' /\ ToldInv' /\ phase' \in Phases
  BY <1>2, SetupFrame
<1>4. Nets \subseteq 1 .. Len(mft)
  BY DEF Attached
<1>5. BootTypeOK'
  <2>1. pollfds' \subseteq 1 .. Len(mft)
    BY <1>4 DEF BootInv, BootTypeOK, PollHandle
  <2>2. /\ efd_open' \in BOOLEAN /\ io_thread' \in BOOLEAN /\ halt_hook' \in BOOLEAN
        /\ net_ring_gpa' \in Nat
    BY Zenon DEF BootInv, BootTypeOK, NoEventFd, GiveUpRing, StartRing
  <2> QED
    BY <1>2, <2>1, <2>2 DEF BootInv, BootTypeOK, sizes, handover
<1>6. RingInv'
  <2>1. ~efd_open /\ ~io_thread /\ ~halt_hook
    BY DEF BootInv, RingInv
  <2>2. \/ ~efd_open' /\ ~io_thread' /\ ~halt_hook'
        \/ /\ efd_open' /\ io_thread' /\ halt_hook' /\ has_ioeventfd
           /\ net_ring_gpa' = reserved_ring_gpa /\ reserved_ring_gpa # 0
    BY <2>1 DEF NoEventFd, GiveUpRing, StartRing
  <2>3. "net" \notin pending' /\ phase' \in {"setup", "dead"}
    OBVIOUS
  <2> QED
    BY <2>2, <2>3 DEF RingInv, Parsing, sizes
<1>7. ReadyInv'
  <2>1. \A i \in Attached("NET_BASIC") : NetReady(i)'
    BY <1>2, <1>4 DEF NetReady, PollHandle
  <2>2. \A i \in Attached("BLOCK_BASIC") : BlockReady(i) => BlockReady(i)'
    <3>1. Attached("BLOCK_BASIC") \subseteq 1 .. Len(mft) /\ hypercalls \subseteq hypercalls'
      BY DEF Attached
    <3> QED
      BY <1>2, <3>1 DEF BlockReady
  <2>3. /\ "core" \notin pending' => "POLL" \in hypercalls'
        /\ "block" \notin pending' => \A i \in Attached("BLOCK_BASIC") : BlockReady(i)'
    BY <2>2 DEF BootInv, ReadyInv, Setting
  <2>4. phase' \in {"setup", "dead"}
    OBVIOUS
  <2> QED
    BY <1>3, <2>1, <2>3, <2>4 DEF ReadyInv, Parsing, Setting
<1> QED
  BY <1>3, <1>5, <1>6, <1>7 DEF BootInv

LEMMA SetupBlockInv == BootInv /\ SetupBlock => BootInv'
<1> SUFFICES ASSUME BootInv, SetupBlock PROVE BootInv'
  OBVIOUS
<1> DEFINE Blocks == Attached("BLOCK_BASIC")
<1>0. /\ SetupOf("block")
      /\ entry' = [i \in DOMAIN entry |-> IF i \in Blocks THEN WithSectorSize(entry[i]) ELSE entry[i]]
      /\ hypercalls \subseteq hypercalls'
      /\ Blocks # {} => {"BLOCK_WRITE", "BLOCK_READ"} \subseteq hypercalls'
      /\ phase' = "dead" \/ /\ phase' = phase
                            /\ \A i \in Blocks : /\ entry'[i].capacity % entry'[i].block_size = 0
                                                 /\ entry'[i].capacity >= entry'[i].block_size
      /\ UNCHANGED <<net_ring_gpa, efd_open, io_thread, halt_hook, pollfds>>
  BY DEF SetupBlock, Die
<1> USE DEF SetupOf
<1>1. entry \in [1 .. Len(mft) -> EntryState]
  BY DEF BootInv, BootTypeOK
<1>2. Blocks \subseteq 1 .. Len(mft)
  BY DEF Attached
<1>3. ASSUME NEW i \in 1 .. Len(mft)
      PROVE  /\ WithSectorSize(entry[i]) \in EntryState
             /\ WithSectorSize(entry[i]).attached = entry[i].attached
             /\ WithSectorSize(entry[i]).mac = entry[i].mac
             /\ WithSectorSize(entry[i]).block_size > 0
  BY <1>1 DEF WithSectorSize, EntryState
<1> HIDE DEF Blocks
<1>4. /\ entry' \in [1 .. Len(mft) -> EntryState]
      /\ \A i \in 1 .. Len(mft) :
            /\ entry'[i].attached = entry[i].attached /\ entry'[i].mac = entry[i].mac
            /\ i \in Blocks => entry'[i].block_size > 0
  BY <1>0, <1>1, <1>3
<1>5. /\ \A type : Attached(type)' = Attached(type)
      /\ PlaceInv' /\ ToldInv' /\ phase' \in Phases
  BY <1>0, <1>4, SetupFrame
<1>6. BootTypeOK'
  BY <1>0, <1>4 DEF BootInv, BootTypeOK, sizes, handover
<1>7. RingInv'
  BY <1>0 DEF BootInv, RingInv, sizes, Parsing
<1>8. ReadyInv'
  <2>1. CASE phase' = "dead"
    BY <2>1 DEF ReadyInv, Parsing, Setting
  <2>2. CASE phase' # "dead"
    <3>1. \A i \in Blocks : BlockReady(i)'
      BY <1>0, <1>2, <1>4, <2>2, Zenon DEF BlockReady
    <3>2. \A i \in Attached("NET_BASIC") : NetReady(i) => NetReady(i)'
      <4>1. Attached("NET_BASIC") \subseteq 1 .. Len(mft)
        BY DEF Attached
      <4> QED
        BY <1>0, <1>4, <4>1 DEF NetReady
    <3>3. /\ "core" \notin pending' => "POLL" \in hypercalls'
          /\ "net" \notin pending' => \A i \in Attached("NET_BASIC") : NetReady(i)'
      BY <1>0, <3>2 DEF BootInv, ReadyInv, Setting
    <3>4. phase' = "setup"
      BY <1>0, <2>2
    <3> QED
      BY <1>5, <3>1, <3>3, <3>4 DEF ReadyInv, Parsing, Setting, Blocks
  <2> QED
    BY <2>1, <2>2
<1> QED
  BY <1>5, <1>6, <1>7, <1>8 DEF BootInv

-----------------------------------------------------------------------------
(* The handover, and halting.                                              *)

LEMMA HandoverInv ==
    ASSUME BootInv, CheckAttached \/ BootInfoInit \/ GuestStart \/ GuestHalt
    PROVE  BootInv'
<1> USE DEF cmdline, sizes, tables
<1>0. /\ UNCHANGED <<mft, entry, args, asked, sizes, net_ring_gpa, has_ioeventfd, halt_hook, tables>>
      /\ phase \in Setting
  BY Zenon DEF CheckAttached, BootInfoInit, GuestStart, GuestHalt, kvm, Setting
<1>1. /\ \A type : Attached(type)' = Attached(type)
      /\ NetMemOverhead' = NetMemOverhead /\ \A m : WithOverhead(m)' = WithOverhead(m)
      /\ HvtMemSize(asked)' = HvtMemSize(asked) /\ AllAttached' = AllAttached
  BY <1>0, Fixed, ZenonT(30) DEF Attached, HvtMemSize, RoundDown, AllAttached
<1>2. \A i : NetReady(i)' = NetReady(i) /\ BlockReady(i)' = BlockReady(i)
  BY <1>0 DEF NetReady, BlockReady
<1>3. phase' \in Setting \cup {"halted", "dead"} => PlaceInv'
  BY <1>0, <1>1 DEF BootInv, PlaceInv, Parsing, Allocated, Placed, Setting
<1>4. CASE CheckAttached
  <2>1. phase = "setup" /\ pending = {} /\ phase' = IF AllAttached THEN "boot_info" ELSE "dead"
    BY <1>4 DEF CheckAttached
  <2>2. BootTypeOK'
    BY <1>4 DEF CheckAttached, BootInv, BootTypeOK, kvm, handover
  <2>3. RingInv' /\ ToldInv'
    BY <1>4, <2>1 DEF CheckAttached, BootInv, RingInv, ToldInv, Parsing, kvm
  <2>4. ReadyInv'
    BY <1>0, <1>1, <1>2, <2>1 DEF BootInv, ReadyInv, Parsing, Setting
  <2> QED
    BY <1>3, <2>1, <2>2, <2>3, <2>4 DEF BootInv, Phases, Allocated, Placed, Setting
<1>5. CASE BootInfoInit
  <2>1. efd_open => has_ioeventfd /\ net_ring_gpa = guest_mem_size
    BY <1>0 DEF BootInv, RingInv, PlaceInv, Placed
  <2>2. /\ phase = "boot_info" /\ phase' \in {"start", "dead"} /\ UNCHANGED <<kvm, net_ring>>
        /\ bi' = [mem_size |-> guest_mem_size, ring_io |-> efd_open,
                  net_ring |-> IF efd_open THEN net_ring_gpa ELSE 0]
    BY <1>5, <2>1, Zenon DEF BootInfoInit, BootInv, BootTypeOK
  <2>3. BootTypeOK'
    <3>1. bi' \in [mem_size : Nat, ring_io : BOOLEAN, net_ring : Nat]
      BY <2>2 DEF BootInv, BootTypeOK
    <3> QED
      BY <1>0, <2>2, <3>1 DEF BootInv, BootTypeOK, kvm
  <2>4. RingInv' /\ ToldInv'
    BY <1>0, <2>2 DEF BootInv, RingInv, ToldInv, Parsing, kvm
  <2>5. ReadyInv'
    BY <1>0, <1>1, <1>2, <2>2 DEF BootInv, ReadyInv, Parsing, Setting
  <2> QED
    BY <1>3, <2>2, <2>3, <2>4, <2>5 DEF BootInv, Phases, Allocated, Placed, Setting
<1>6. CASE GuestStart
  <2>1. /\ phase = "start" /\ phase' = IF EnoughMemory THEN "app" ELSE "dead"
        /\ net_ring' = IF bi.ring_io /\ bi.net_ring # 0 THEN bi.net_ring ELSE 0
        /\ UNCHANGED <<kvm, bi>>
    BY <1>6 DEF GuestStart
  <2>2. net_ring' = IF efd_open THEN net_ring_gpa ELSE 0
    BY <2>1 DEF BootInv, ToldInv
  <2>3. BootTypeOK'
    <3>1. net_ring' \in Nat
      BY <2>2 DEF BootInv, BootTypeOK
    <3> QED
      BY <1>0, <2>1, <3>1 DEF BootInv, BootTypeOK, kvm
  <2>4. EnoughMemory' = EnoughMemory
    BY <1>0, <2>1 DEF EnoughMemory
  <2>5. RingInv' /\ ToldInv'
    BY <1>0, <2>1, <2>2, <2>4 DEF BootInv, RingInv, ToldInv, Parsing, kvm
  <2>6. ReadyInv'
    BY <1>0, <1>1, <1>2, <2>1 DEF BootInv, ReadyInv, Parsing, Setting
  <2> QED
    BY <1>3, <2>1, <2>3, <2>5, <2>6 DEF BootInv, Phases, Allocated, Placed, Setting
<1>7. CASE GuestHalt
  <2>1. /\ phase' = "halted" /\ UNCHANGED <<bi, net_ring>>
        /\ ~efd_open' /\ ~io_thread' /\ efd_open' \in BOOLEAN /\ io_thread' \in BOOLEAN
    BY <1>7, Zenon DEF GuestHalt, BootInv, RingInv, BootTypeOK, handover
  <2>2. BootTypeOK'
    BY <1>0, <2>1, SMTT(30) DEF BootInv, BootTypeOK
  <2>3. RingInv' /\ ToldInv' /\ ReadyInv'
    BY <2>1, <1>0 DEF BootInv, RingInv, ToldInv, ReadyInv, Parsing, Setting
  <2> QED
    BY <1>3, <2>1, <2>2, <2>3 DEF BootInv, Phases
<1> QED
  BY <1>4, <1>5, <1>6, <1>7

(* Every step keeps the invariant.                                         *)
LEMMA BootNextInv == BootInv /\ [BootNext]_bootVars => BootInv'
<1> SUFFICES ASSUME BootInv, [BootNext]_bootVars PROVE BootInv'
  OBVIOUS
<1>1. CASE UNCHANGED bootVars
  <2> USE <1>1 DEF bootVars, cmdline, sizes, kvm, tables, handover
  <2>1. /\ \A type : Attached(type)' = Attached(type)
        /\ NetMemOverhead' = NetMemOverhead /\ \A m : WithOverhead(m)' = WithOverhead(m)
        /\ HvtMemSize(asked)' = HvtMemSize(asked) /\ AllAttached' = AllAttached
        /\ EnoughMemory' = EnoughMemory
    BY Fixed DEF Attached, HvtMemSize, RoundDown, AllAttached, EnoughMemory
  <2>2. \A i : NetReady(i)' = NetReady(i) /\ BlockReady(i)' = BlockReady(i)
    BY DEF NetReady, BlockReady
  <2>3. BootTypeOK' /\ phase' \in Phases
    BY DEF BootInv, BootTypeOK
  <2>4. PlaceInv'
    BY <2>1 DEF BootInv, PlaceInv
  <2>5. RingInv' /\ ToldInv'
    BY <2>1 DEF BootInv, RingInv, ToldInv
  <2>6. ReadyInv'
    BY <2>1, <2>2 DEF BootInv, ReadyInv
  <2> QED
    BY <2>3, <2>4, <2>5, <2>6 DEF BootInv
<1>2. CASE BootNext
  BY <1>1, <1>2, ArgsInv, MemoryInv, ReserveInv, SetupCoreInv, SetupNetInv, SetupBlockInv,
     HandoverInv, Zenon DEF BootNext, Main, Stopped
<1> QED
  BY <1>1, <1>2

LEMMA BootInvariant == BootSpec => []BootInv
BY BootInitInv, BootNextInv, PTL DEF BootSpec

-----------------------------------------------------------------------------
(* What the invariant gives.                                               *)

(* The layout: the ring lies above the guest's memory and within what is   *)
(* mapped, and hvt_boot_info_init's assertion never fails.                 *)
THEOREM BootLayout == BootSpec => []LayoutSound
<1>1. BootInv => LayoutSound
  <2> SUFFICES ASSUME BootInv PROVE RingAboveMemory /\ LayoutDisjoint
    BY DEF LayoutSound, BootInv
  <2>1. RingAboveMemory
    BY Zenon DEF BootInv, RingAboveMemory, Phases, Parsing, Allocated, Placed, Setting
  <2>2. ASSUME phase = "app"
        PROVE  /\ kend + MinFree <= bi.mem_size /\ rsp <= bi.mem_size /\ rsp > kend
               /\ bi.mem_size <= alloc_size
               /\ net_ring # 0 => net_ring >= bi.mem_size /\ net_ring + RingBytes <= alloc_size
    <3>1. /\ kend \in Nat /\ guest_mem_size \in Nat /\ alloc_size \in Nat
          /\ MinFree \in Nat \ {0} /\ NetMemOverhead \in Nat /\ RingBytes \in Nat
      BY Overhead, BootAssumption DEF BootInv, BootTypeOK
    <3>2. bi.mem_size = guest_mem_size /\ kend + MinFree <= guest_mem_size /\ rsp = guest_mem_size
      BY <2>2 DEF BootInv, ToldInv, PlaceInv, EnoughMemory, Setting
    <3>3. \/ reserved_ring_gpa = 0 /\ alloc_size = guest_mem_size
          \/ /\ reserved_ring_gpa = guest_mem_size
             /\ NetMemOverhead > 0 /\ NetMemOverhead < MaxMem
             /\ guest_mem_size + NetMemOverhead = alloc_size
      BY <2>2 DEF BootInv, PlaceInv, Setting, Placed, Allocated
    <3>4. net_ring # 0 => net_ring = reserved_ring_gpa /\ reserved_ring_gpa # 0
      BY <2>2 DEF BootInv, ToldInv, RingInv
    <3>5. NetMemOverhead > 0 /\ NetMemOverhead < MaxMem => NetMemOverhead >= RingBytes
      BY Overhead, BootAssumption
    <3> QED
      BY <3>1, <3>2, <3>3, <3>4, <3>5
  <2> QED
    BY <2>1, <2>2 DEF LayoutDisjoint
<1> QED
  BY <1>1, BootInvariant, PTL

(* The guest uses the ring if and only if a thread serves it that halting  *)
(* stops, whichever of eventfd(), KVM_IOEVENTFD and pthread_create() fail. *)
THEOREM BootRing == BootSpec => []RingAgreed
<1>1. BootInv => RingAgreed
  <2> SUFFICES ASSUME BootInv PROVE RingAgreed
    OBVIOUS
  <2>1. ThreadJoined
    BY DEF BootInv, RingInv, ThreadJoined
  <2>2. phase = "app" => /\ net_ring # 0 <=> io_thread
                         /\ io_thread => /\ halt_hook /\ efd_open
                                         /\ net_ring = reserved_ring_gpa
    BY DEF BootInv, RingInv, ToldInv
  <2> QED
    BY <2>1, <2>2 DEF RingAgreed
<1> QED
  BY <1>1, BootInvariant, PTL

(* Whatever the order of the modules' setup(), every declared device is    *)
(* attached and ready when the application starts.                         *)
THEOREM BootDevices == BootSpec => []DevicesReady
<1>1. BootInv => DevicesReady
  <2> SUFFICES ASSUME BootInv, phase = "app", NEW i \in Devices
      PROVE  /\ entry[i].attached
             /\ mft[i].type = "NET_BASIC" => NetReady(i) /\ "POLL" \in hypercalls
             /\ mft[i].type = "BLOCK_BASIC" => BlockReady(i)
    BY DEF DevicesReady, NetReady, BlockReady
  <2>1. pending = {} /\ AllAttached
    BY DEF BootInv, ReadyInv
  <2>2. i \in 1 .. Len(mft) /\ entry[i].attached
    BY <2>1 DEF Devices, AllAttached
  <2>3. i \in Attached(mft[i].type)
    BY <2>2 DEF Attached
  <2> QED
    BY <2>1, <2>2, <2>3 DEF BootInv, ReadyInv, Setting
<1> QED
  BY <1>1, BootInvariant, PTL

(* The ring is not taken out of the memory asked for, up to the largest    *)
(* guest.                                                                  *)
THEOREM BootMemory == BootSpec => []MemoryAsAsked
<1>1. BootInv => MemoryAsAsked
  <2> SUFFICES ASSUME BootInv, phase = "app"
      PROVE  \/ bi.mem_size >= HvtMemSize(asked)
             \/ alloc_size = MaxMem /\ bi.mem_size + NetMemOverhead = MaxMem
    BY DEF MemoryAsAsked
  <2>1. /\ bi.mem_size = guest_mem_size /\ guest_mem_size \in Nat /\ alloc_size = mem_size
        /\ asked \in Nat /\ HvtMemSize(asked) <= MaxMem
        /\ mem_size = WithOverhead(HvtMemSize(asked))
    BY BootAssumption DEF BootInv, ToldInv, PlaceInv, BootTypeOK, Setting, Placed, Allocated
  <2>2. guest_mem_size = mem_size \/ guest_mem_size + NetMemOverhead = mem_size
    BY DEF BootInv, PlaceInv, Setting, Placed
  <2>3. /\ mem_size >= HvtMemSize(asked)
        /\ mem_size >= HvtMemSize(asked) + NetMemOverhead \/ mem_size = MaxMem
        /\ HvtMemSize(asked) \in Nat /\ NetMemOverhead \in Nat
    BY <2>1, Sizing, Rounding, Overhead
  <2> QED
    BY <2>1, <2>2, <2>3
<1> QED
  BY <1>1, BootInvariant, PTL

-----------------------------------------------------------------------------
(* The virtio receive queue.                                               *)


(* The sizes, as the steps below use them.                                 *)
LEMMA RecvSizes ==
    /\ Num \in Nat \ {0} /\ Word \in Nat \ {0} /\ Num + 1 < Word /\ Word % Num = 0
    /\ StoreBuffer \in Nat
BY VirtqAssumption, RecvAssumption

(* The buffers given back: all the packets read but the one in hand.       *)
Back == IF pc = "put" THEN delivered - 1 ELSE delivered

(* Without their wraps the indexes are counts of buffers: what the driver  *)
(* has given back and the device has used.                                 *)
Indexed ==
    /\ delivered \in Nat /\ arrived \in Nat /\ Back \in Nat
    /\ delivered <= arrived /\ arrived <= Back + Num
    /\ last_used = Back % Word /\ used_idx = arrived % Word /\ dev_avail = arrived % Word
    /\ avail_idx = (Back + Num) % Word /\ next_avail = (Back + Num) % Word

(* Buffers come back in their order: descriptor s always goes to slot s.   *)
(* An unread packet is in the buffer of its number.                        *)
Filled ==
    /\ avail_ring = [s \in Slots |-> s]
    /\ used_ring \in [Slots -> Slots] /\ buf \in [Slots -> Int]
    /\ \A k \in Nat : Back <= k /\ k < arrived => used_ring[k % Num] = k % Num /\ buf[k % Num] = k

(* How far the driver has told the device: not of the buffers it started   *)
(* with, and in "notify" not of the last.                                  *)
Told ==
    IF pc = "notify" THEN IF delivered = 1 THEN 0 ELSE delivered + Num - 1
                     ELSE IF Back = 0 THEN 0 ELSE Back + Num

(* An idle device that is not kicked lacks at most the buffer the driver   *)
(* is about to announce, and asked to be told of it.                       *)
Announced ==
    /\ uses_event_idx => last_notified_idx = Told % Word
    /\ pc = "notify" => delivered > 0
    /\ dev \in {"idle", "recheck"} => avail_event = dev_avail
    /\ dev = "idle" /\ ~kicked =>
          arrived = Back + Num \/ (pc = "notify" /\ arrived = Back + Num - 1)

(* The rest of the state.                                                  *)
RecvTypes ==
    /\ pc \in {"app", "get", "put", "notify", "rearm", "poll", "block", "hlt", "check"}
    /\ dev \in {"idle", "run", "recheck"}
    /\ num_avail = 0
    /\ used_event \in Event /\ sb \in Seq(Event) /\ Len(sb) <= StoreBuffer
    /\ last_notified_idx \in Indexes /\ avail_event \in Indexes /\ signalled \in Indexes
    /\ got = delivered - 1

RecvInv == RecvTypes /\ Indexed /\ Filled /\ Announced

(* Counts that differ by no more than the queue differ as indexes.         *)
LEMMA CountsApart ==
    ASSUME NEW x \in Nat, NEW y \in Nat, y <= x, x <= y + Num + 1
    PROVE  Minus(x % Word, y % Word) = x - y /\ (x % Word = y % Word <=> x = y)
<1>1. ((x % Word) - (y % Word)) % Word = x - y
  <2>1. y <= x /\ x < y + Word
    BY RecvSizes
  <2> QED
    BY <2>1, RecvSizes, WrapMinus, Zenon
<1>2. x % Word \in Nat /\ y % Word \in Nat
  BY RecvSizes
<1>3. Minus(x % Word, y % Word) = x - y
  BY <1>1, <1>2 DEF Minus
<1>4. x % Word = y % Word => x - y = 0
  <2> SUFFICES ASSUME x % Word = y % Word PROVE x - y = 0
    OBVIOUS
  <2>1. (x % Word) - (y % Word) = 0
    BY <1>2
  <2>2. 0 % Word = 0
    BY RecvSizes
  <2> QED
    BY <1>3, <2>1, <2>2 DEF Minus
<1> QED
  BY <1>3, <1>4

(* Advancing an index is advancing its count, and both select one slot.    *)
LEMMA Counts ==
    ASSUME NEW x \in Nat
    PROVE  /\ x % Word \in Indexes /\ x % Num \in Slots
           /\ Plus(x % Word, 1) = (x + 1) % Word /\ Slot(x % Word) = x % Num
           /\ (x + Num) % Num = x % Num
<1>1. Plus(x % Word, 1) = (x + 1) % Word
  BY RecvSizes, WrapPlus, Zenon DEF Plus
<1>2. Slot(x % Word) = x % Num
  BY RecvSizes, WrapSlot, Zenon DEF Slot
<1>3. (x + Num) % Num = x % Num
  <2>1. x % Num \in 0 .. Num - 1 /\ x \div Num \in Nat /\ x = Num * (x \div Num) + (x % Num)
    BY RecvSizes
  <2>2. ASSUME NEW q \in Nat, x = Num * q + (x % Num) PROVE (x + Num) % Num = x % Num
    <3>1. x + Num = Num * (q + 1) + (x % Num)
      BY <2>1, <2>2, RecvSizes
    <3> QED
      BY <2>1, <3>1, Remainder, RecvSizes, q + 1 \in Int, x + Num \in Int, Zenon
  <2> QED
    BY <2>1, <2>2
<1> QED
  BY <1>1, <1>2, <1>3, RecvSizes DEF Indexes, Slots

(* Events: any index of a word with either flag.                           *)
LEMMA Events ==
    ASSUME NEW i \in Indexes
    PROVE  SuppressAt(i) \in Event /\ RequestAt(i) \in Event
<1>1. Plus(i, -1) \in Indexes /\ 0 \in Indexes
  BY RecvSizes DEF Plus, Indexes
<1> QED
  BY <1>1 DEF SuppressAt, RequestAt, Event

(* After virtio_net_config every buffer is with the device, which has been *)
(* told.                                                                   *)
LEMMA RecvInitInv == Init => RecvInv
<1> SUFFICES ASSUME Init PROVE RecvInv
  OBVIOUS
<1>0. 0 % Word = 0 /\ 0 \in Indexes /\ 0 \in Slots /\ Back = 0
  BY RecvSizes DEF Indexes, Slots, Back, Init
<1>1. RecvTypes
  BY <1>0, RecvSizes DEF Init, RecvTypes, Event
<1>2. Indexed
  <2>1. Plus(0, Num) = Num % Word /\ Back + Num = Num /\ 0 <= Num
    BY <1>0, RecvSizes DEF Plus
  <2> QED
    BY <1>0, <2>1 DEF Init, Indexed
<1>3. Filled
  BY <1>0 DEF Init, Filled
<1>4. Announced
  BY <1>0 DEF Init, Announced, Told
<1> QED
  BY <1>1, <1>2, <1>3, <1>4 DEF RecvInv

(* Steps that only move the program counter between points where no packet *)
(* is in hand and no buffer unannounced, and what they leave alone.        *)
Aside == {"app", "get", "rearm", "poll", "block", "hlt", "check"}

LEMMA AsideInv ==
    ASSUME RecvInv, pc \in Aside, pc' \in Aside,
           UNCHANGED <<uses_event_idx, last_used, next_avail, num_avail, last_notified_idx,
                       got, delivered, avail, used, device, kicked>>,
           used_event' \in Event, sb' \in Seq(Event), Len(sb') <= StoreBuffer
    PROVE  RecvInv'
<1> USE DEF RecvInv, avail, used, device, Aside
<1>1. Back' = Back /\ Told' = Told
  BY DEF Back, Told
<1>2. RecvTypes'
  BY DEF RecvTypes
<1>3. Indexed' /\ Filled'
  BY <1>1 DEF Indexed, Filled
<1>4. Announced'
  BY <1>1 DEF Announced
<1> QED
  BY <1>2, <1>3, <1>4

(* What a fence and a store leave in the store buffer.                     *)
LEMMA FenceType ==
    ASSUME RecvTypes, Fence
    PROVE  used_event' \in Event /\ sb' \in Seq(Event) /\ Len(sb') <= StoreBuffer
<1>1. sb # <<>> => sb[Len(sb)] \in Event
  BY DEF RecvTypes
<1> QED
  BY <1>1, RecvSizes DEF RecvTypes, Fence

LEMMA StoreType ==
    ASSUME RecvTypes, NEW v \in Event, Store(v)
    PROVE  used_event' \in Event /\ sb' \in Seq(Event) /\ Len(sb') <= StoreBuffer
BY RecvSizes DEF RecvTypes, Store

(* solo5_yield and the stores to used_event change nothing of the queue.   *)
LEMMA YieldInv ==
    ASSUME RecvInv, Recv \/ Rearm \/ Yield \/ YieldLoop \/ WakeByDevice \/ WakeByTimer
    PROVE  RecvInv'
<1> USE DEF Aside, Goto, YieldStep, avail, used, device, event
<1>1. used_idx \in Indexes
  BY Counts DEF RecvInv, Indexed
<1>2. CASE Recv
  <2>1. used_event' \in Event /\ sb' \in Seq(Event) /\ Len(sb') <= StoreBuffer
    BY <1>1, <1>2, StoreType, Events DEF Recv, RecvInv
  <2> QED
    BY <1>2, <2>1, AsideInv DEF Recv
<1>3. CASE Rearm
  <2>1. used_event' \in Event /\ sb' \in Seq(Event) /\ Len(sb') <= StoreBuffer
    BY <1>1, <1>3, StoreType, Events DEF Rearm, RecvInv
  <2> QED
    BY <1>3, <2>1, AsideInv DEF Rearm
<1>4. CASE BlockHalt
  <2>1. used_event' \in Event /\ sb' \in Seq(Event) /\ Len(sb') <= StoreBuffer
    BY <1>4, FenceType DEF BlockHalt, RecvInv
  <2> QED
    BY <1>4, <2>1, AsideInv DEF BlockHalt
<1>5. CASE \/ Yield \/ Poll \/ BlockTooLate \/ BlockTooShort \/ Again \/ TimeoutPoll
           \/ WakeByDevice \/ WakeByTimer
  <2>1. used_event' \in Event /\ sb' \in Seq(Event) /\ Len(sb') <= StoreBuffer
    <3>1. used_event' = used_event /\ sb' = sb
      BY <1>5, Zenon DEF Yield, Poll, BlockTooLate, BlockTooShort, Again, TimeoutPoll, Timeout,
         WakeByDevice, WakeByTimer
    <3> QED
      BY <3>1, Zenon DEF RecvInv, RecvTypes
  <2>2. /\ pc \in Aside /\ pc' \in Aside
        /\ UNCHANGED <<uses_event_idx, last_used, next_avail, num_avail, last_notified_idx,
                       got, delivered, avail, used, device, kicked>>
    BY <1>5 DEF Yield, Poll, BlockTooLate, BlockTooShort, Again, TimeoutPoll, Timeout,
       WakeByDevice, WakeByTimer
  <2> QED
    BY <2>1, <2>2, AsideInv, SMTT(60)
<1> QED
  BY <1>2, <1>3, <1>4, <1>5 DEF YieldLoop

(* A store drains, the interrupt is acknowledged, the device raises it.    *)
LEMMA SignalInv ==
    ASSUME RecvInv, Drain \/ Handler \/ DevSignal \/ UNCHANGED vars
    PROVE  RecvInv'
<1> USE DEF RecvInv, guest, avail, event, used, device, vars, Drain, Handler, DevSignal
<1>1. Back' = Back /\ Told' = Told
  BY DEF Back, Told
<1>2. signalled' \in Indexes
  BY Counts, ZenonT(30) DEF Indexed, RecvTypes
<1>3. used_event' \in Event /\ sb' \in Seq(Event) /\ Len(sb') <= StoreBuffer
  <2>1. CASE Drain
    <3>1. Head(sb) \in Event /\ Tail(sb) \in Seq(Event) /\ Len(Tail(sb)) <= StoreBuffer
      BY <2>1, RecvSizes, SMTT(30) DEF RecvTypes
    <3> QED
      BY <2>1, <3>1, SMTT(30)
  <2>2. CASE Handler \/ DevSignal \/ UNCHANGED vars
    BY <2>2 DEF RecvTypes
  <2> QED
    BY <2>1, <2>2, Zenon
<1>4. RecvTypes'
  BY <1>2, <1>3, SMTT(30) DEF RecvTypes
<1>5. Indexed' /\ Filled'
  BY <1>1 DEF Indexed, Filled
<1>6. Announced'
  BY <1>1 DEF Announced
<1> QED
  BY <1>4, <1>5, <1>6

(* virtio_net_recv_pkt_get finds the oldest unread packet, if any.         *)
LEMMA PktGetInv ==
    ASSUME RecvInv, PktGet
    PROVE  RecvInv'
<1> USE DEF RecvInv, avail, event, used, device, PktGet
<1>1. /\ Back = delivered /\ Back \in Nat /\ arrived \in Nat
      /\ Back <= arrived /\ arrived <= Back + Num
  BY DEF Back, Indexed
<1>2. last_used = used_idx <=> arrived = Back
  BY <1>1, CountsApart, RecvSizes DEF Indexed
<1>3. CASE last_used = used_idx
  <2>1. Back' = Back /\ Told' = Told
    BY <1>3, Zenon DEF Back, Told
  <2>2. RecvTypes'
    BY <1>3, Zenon DEF RecvTypes
  <2> QED
    BY <1>3, <2>1, <2>2 DEF Indexed, Filled, Announced
<1>4. CASE last_used # used_idx
  <2>0. arrived # Back /\ pc' = "put" /\ delivered' = delivered + 1
    BY <1>2, <1>4, Zenon
  <2>1. Back' = Back /\ delivered' = delivered + 1 /\ delivered' <= arrived
    <3> HIDE DEF RecvInv, PktGet
    <3> QED
      BY <1>1, <2>0 DEF Back
  <2>2. Told' = Told
    BY <1>1, <1>4, <2>1 DEF Told
  <2>3. got' = delivered
    <3>1. Slot(last_used) = Back % Num
      BY <1>1, Counts DEF Indexed
    <3>2. buf[used_ring[Slot(last_used)]] = Back
      BY <1>1, <1>2, <1>4, <3>1 DEF Filled
    <3> QED
      BY <1>1, <1>4, <3>2
  <2>4. RecvTypes'
    BY <1>1, <1>4, <2>1, <2>3 DEF RecvTypes
  <2>5. Indexed'
    BY <1>1, <1>4, <2>1 DEF Indexed
  <2>6. Filled'
    BY <2>1 DEF Filled
  <2>7. Announced'
    BY <1>1, <1>4, <2>1, <2>2 DEF Announced
  <2> QED
    BY <2>4, <2>5, <2>6, <2>7, Zenon
<1> QED
  BY <1>3, <1>4

(* virtio_net_recv_pkt_put gives the next buffer in order back.            *)
LEMMA PktPutInv ==
    ASSUME RecvInv, PktPut
    PROVE  RecvInv'
<1> USE DEF RecvInv, avail, used, device, PktPut, GiveBack
<1>1. /\ Back = delivered - 1 /\ Back \in Nat /\ delivered \in Nat /\ arrived \in Nat
      /\ delivered <= arrived /\ num_avail = 0
  BY DEF Back, Indexed, RecvTypes
<1>2. /\ pc' = "notify" /\ num_avail' = 0
      /\ avail_ring' = [avail_ring EXCEPT ![Slot(avail_idx)] = Slot(next_avail)]
      /\ avail_idx' = Plus(avail_idx, 1) /\ next_avail' = Plus(next_avail, 1)
  BY <1>1
<1>3. Back' = Back + 1 /\ delivered' = delivered
  BY <1>1, <1>2 DEF Back
<1>4. RecvTypes'
  <2>1. used_event' \in Event /\ sb' \in Seq(Event) /\ Len(sb') <= StoreBuffer
    BY FenceType, ZenonT(30)
  <2> QED
    BY <1>2, <2>1 DEF RecvTypes
<1>5. Indexed'
  <2>1. (Back + 1) + Num = (Back + Num) + 1 /\ Back + Num \in Nat
    BY <1>1, RecvSizes, SMTT(30)
  <2>2. Plus(last_used, 1) = (Back + 1) % Word
    BY <1>1, Counts DEF Indexed
  <2>3. Plus(avail_idx, 1) = ((Back + Num) + 1) % Word /\ Plus(next_avail, 1) = ((Back + Num) + 1) % Word
    BY <2>1, Counts, Zenon DEF Indexed
  <2>4. arrived <= (Back + 1) + Num
    BY <1>1, RecvSizes DEF Indexed
  <2> QED
    BY <1>1, <1>2, <1>3, <2>1, <2>2, <2>3, <2>4 DEF Indexed
<1>6. Filled'
  <2>1. Slot(avail_idx) = Slot(next_avail) /\ Slot(avail_idx) \in Slots
    BY <1>1, RecvSizes, Counts, Back + Num \in Nat, Zenon DEF Indexed
  <2>2. avail_ring' = avail_ring
    BY <1>2, <2>1 DEF Filled
  <2>3. \A k \in Nat : Back + 1 <= k => Back <= k
    BY <1>1
  <2> QED
    BY <1>2, <1>3, <2>2, <2>3 DEF Filled
<1>7. Announced'
  <2>1. Told' = Told
    <3>1. Told' = IF delivered = 1 THEN 0 ELSE delivered + Num - 1
      BY <1>2, <1>3 DEF Told
    <3>2. Told = IF Back = 0 THEN 0 ELSE Back + Num
      BY Zenon DEF Told
    <3> QED
      BY <1>1, <3>1, <3>2, RecvSizes
  <2>2. dev = "idle" /\ ~kicked => arrived = Back + Num
    BY Zenon DEF Announced
  <2>3. dev = "idle" /\ ~kicked => arrived = (Back + 1) + Num - 1
    BY <1>1, <2>2, RecvSizes
  <2>4. delivered > 0
    BY <1>1
  <2> QED
    BY <1>2, <1>3, <2>1, <2>3, <2>4 DEF Announced
<1> QED
  BY <1>4, <1>5, <1>6, <1>7, Zenon

(* The doorbell: a device that waits for this buffer is told of it, also   *)
(* the first time, when the indexes are a whole queue apart.               *)
LEMMA NotifyInv ==
    ASSUME RecvInv, Notify
    PROVE  RecvInv'
<1> USE DEF RecvInv, avail, event, used, device, Notify, Goto
<1>1. Back = delivered /\ Back' = Back /\ Back \in Nat /\ Back > 0 /\ Back + Num \in Nat
  BY RecvSizes DEF Back, Indexed, Announced
<1>2. avail_idx = (Back + Num) % Word /\ avail_idx \in Indexes
  BY <1>1, Counts DEF Indexed
<1>3. RecvTypes'
  BY <1>2 DEF RecvTypes
<1>4. Indexed' /\ Filled'
  BY <1>1 DEF Indexed, Filled
<1>5. ASSUME dev = "idle", arrived = Back + Num - 1 PROVE NotifyNeeded
  <2>1. CASE uses_event_idx
    <3>1. avail_event = arrived % Word /\ arrived \in Nat
      BY <1>5 DEF Announced, Indexed
    <3>2. (((Back + Num) % Word) - ((arrived % Word) + 1)) % Word = (Back + Num) - arrived - 1
      <4>1. arrived < Back + Num /\ Back + Num <= arrived + Word
        BY <1>1, <1>5, <3>1, RecvSizes
      <4> QED
        BY <1>1, <3>1, <4>1, RecvSizes, WrapNext, ZenonT(30)
    <3>3. Minus(avail_idx, avail_event + 1) = 0
      BY <1>1, <1>2, <1>5, <3>1, <3>2, RecvSizes DEF Minus
    <3>4. /\ last_notified_idx = Told % Word /\ Told \in Nat
          /\ Told < Back + Num /\ Back + Num <= Told + Num + 1
      BY <1>1, <2>1, RecvSizes DEF Announced, Told
    <3>5. Minus(avail_idx, last_notified_idx) = (Back + Num) - Told
      BY <1>1, <1>2, <3>4, CountsApart
    <3> QED
      BY <1>1, <2>1, <3>3, <3>4, <3>5 DEF NotifyNeeded, NeedEvent
  <2>2. CASE ~uses_event_idx
    BY <1>5, <2>2 DEF NotifyNeeded
  <2> QED
    BY <2>1, <2>2
<1>6. Announced'
  <2>1. Told' = Back + Num
    BY <1>1 DEF Told
  <2>2. dev = "idle" /\ ~kicked' => arrived = Back + Num
    BY <1>5, Zenon DEF Announced
  <2> QED
    BY <1>1, <1>2, <2>1, <2>2 DEF Announced
<1> QED
  BY <1>3, <1>4, <1>6

(* The device fills the buffer of the packet's number: no unread packet is *)
(* in it.                                                                  *)
LEMMA DevReceiveInv ==
    ASSUME RecvInv, DevReceive
    PROVE  RecvInv'
<1> USE DEF RecvInv, guest, avail, event, DevReceive
<1>1. Back' = Back /\ Told' = Told /\ Back \in Nat /\ arrived \in Nat /\ Back <= delivered
  BY DEF Back, Told, Indexed
<1>2. arrived < Back + Num
  <2>1. arrived # Back + Num
    BY DEF Indexed
  <2> QED
    BY <1>1, <2>1, RecvSizes DEF Indexed
<1> DEFINE s == arrived % Num
<1>3. s \in Slots /\ Slot(dev_avail) = s /\ Slot(used_idx) = s /\ avail_ring[Slot(dev_avail)] = s
  BY <1>1, Counts DEF Indexed, Filled
<1>4. buf' = [buf EXCEPT ![s] = arrived] /\ used_ring' = [used_ring EXCEPT ![s] = s]
  BY <1>3
<1>5. RecvTypes'
  BY DEF RecvTypes
<1>6. Indexed'
  <2>1. Plus(used_idx, 1) = (arrived + 1) % Word /\ Plus(dev_avail, 1) = (arrived + 1) % Word
    BY <1>1, Counts DEF Indexed
  <2>2. arrived + 1 \in Nat /\ delivered <= arrived + 1 /\ arrived + 1 <= Back + Num
    BY <1>1, <1>2, RecvSizes DEF Indexed
  <2> QED
    BY <1>1, <2>1, <2>2 DEF Indexed
<1>7. Filled'
  <2> HIDE DEF s
  <2>1. used_ring' \in [Slots -> Slots] /\ buf' \in [Slots -> Int]
    BY <1>1, <1>3, <1>4 DEF Filled
  <2>2. ASSUME NEW k \in Nat, Back <= k, k < arrived + 1
        PROVE  used_ring'[k % Num] = k % Num /\ buf'[k % Num] = k
    <3>1. CASE k = arrived
      BY <1>3, <1>4, <3>1 DEF Filled, s
    <3>2. CASE k < arrived
      <4>1. k % Num \in Slots
        BY Counts
      <4>2. arrived < k + Num
        BY <1>1, <1>2, <2>2, RecvSizes
      <4>3. k % Num # s
        BY <1>1, <3>2, <4>2, RecvSizes, Apart, Zenon DEF s
      <4> QED
        BY <1>4, <2>2, <3>2, <4>1, <4>3 DEF Filled
    <3> QED
      BY <1>1, <2>2, <3>1, <3>2
  <2> QED
    BY <1>1, <2>1, <2>2 DEF Filled
<1>8. Announced'
  BY <1>1 DEF Announced
<1> QED
  BY <1>5, <1>6, <1>7, <1>8

(* The device goes to sleep and wakes up.                                  *)
LEMMA DevWaitInv ==
    ASSUME RecvInv, DevEmpty \/ DevRecheck \/ DevKicked
    PROVE  RecvInv'
<1> USE DEF RecvInv, guest, avail, event, used, DevEmpty, DevRecheck, DevKicked
<1>1. Back' = Back /\ Told' = Told
  BY DEF Back, Told
<1>2. avail_event' \in Indexes
  BY Counts, Zenon DEF Indexed, RecvTypes
<1>3. RecvTypes'
  BY <1>2, SMTT(30) DEF RecvTypes
<1>4. Indexed' /\ Filled'
  BY <1>1 DEF Indexed, Filled
<1>5. Announced'
  <2>1. dev_avail = avail_idx => arrived = Back + Num
    <3>1. Back \in Nat /\ Back + Num \in Nat /\ arrived \in Nat /\ arrived <= Back + Num
          /\ Back + Num <= arrived + Num + 1
      BY RecvSizes DEF Indexed, Back
    <3> QED
      BY <3>1, CountsApart, SMTT(30) DEF Indexed
  <2> QED
    BY <1>1, <2>1, SMTT(30) DEF Announced
<1> QED
  BY <1>3, <1>4, <1>5

(* RecvInv is preserved by every step.                                     *)
LEMMA RecvNextInv == RecvInv /\ [Next]_vars => RecvInv'
<1> SUFFICES ASSUME RecvInv, [Next]_vars PROVE RecvInv'
  OBVIOUS
<1>1. CASE Recv \/ Rearm \/ Yield \/ YieldLoop \/ WakeByDevice \/ WakeByTimer
  BY <1>1, YieldInv
<1>2. CASE Drain \/ Handler \/ DevSignal \/ UNCHANGED vars
  BY <1>2, SignalInv
<1>3. CASE PktGet \/ PktPut \/ Notify
  BY <1>3, PktGetInv, PktPutInv, NotifyInv
<1>4. CASE DevReceive \/ DevEmpty \/ DevRecheck \/ DevKicked
  BY <1>4, DevReceiveInv, DevWaitInv
<1> QED
  BY <1>1, <1>2, <1>3, <1>4 DEF Next, RecvStep, Device

(* What the invariant says of the queue.                                   *)
LEMMA RecvSound == RecvInv => DeliveredInOrder /\ BuffersSound
<1> SUFFICES ASSUME RecvInv PROVE DeliveredInOrder /\ BuffersSound
  OBVIOUS
<1> USE DEF RecvInv
<1>1. /\ Back \in Nat /\ delivered \in Nat /\ arrived \in Nat /\ Back + Num \in Nat
      /\ Back <= delivered /\ delivered <= arrived /\ arrived <= Back + Num
  BY RecvSizes DEF Indexed, Back
<1>2. TypeOK
  <2>1. /\ last_used \in Indexes /\ next_avail \in Indexes /\ avail_idx \in Indexes
        /\ used_idx \in Indexes /\ dev_avail \in Indexes
    BY <1>1, Counts DEF Indexed
  <2>2. num_avail \in 0 .. Num
    BY RecvSizes DEF RecvTypes
  <2> QED
    BY <2>1, <2>2 DEF TypeOK, RecvTypes, Filled
<1>3. UnreadIntact
  <2> SUFFICES ASSUME NEW k \in 0 .. Num - 1, delivered + k < arrived
               PROVE  buf[used_ring[(delivered + k) % Num]] = delivered + k
    BY DEF UnreadIntact
  <2>1. delivered + k \in Nat /\ Back <= delivered + k
    BY <1>1, RecvSizes
  <2> QED
    BY <2>1 DEF Filled
<1>4. BuffersConserved
  <2>1. Minus(avail_idx, last_used) = Num
    <3>0. Back <= Back + Num /\ Back + Num <= Back + Num + 1
      BY <1>1, RecvSizes
    <3>1. Minus((Back + Num) % Word, Back % Word) = (Back + Num) - Back
      BY <1>1, <3>0, CountsApart
    <3> QED
      BY <1>1, <3>1, RecvSizes DEF Indexed
  <2>2. Num % Word = Num
    BY RecvSizes
  <2> QED
    BY <2>1, <2>2, Zenon DEF BuffersConserved, RecvTypes
<1>5. NoLostKick
  BY DEF NoLostKick, Announced, Indexed
<1> QED
  BY <1>2, <1>3, <1>4, <1>5 DEF DeliveredInOrder, BuffersSound, RecvTypes

(* Every packet that solo5_net_read() returns is the next one that arrived *)
(* with its own contents: none is lost, doubled or reordered, however the  *)
(* device and the driver interleave and wherever the indexes wrap.         *)
THEOREM RecvInOrder == Spec => []DeliveredInOrder
BY RecvInitInv, RecvNextInv, RecvSound, PTL DEF Spec

(* Unread packets stay in their buffers, no buffer is lost or given back   *)
(* twice, virtq_add_descriptor_chain() never finds the queue full, and a   *)
(* device that waits for a buffer it could have is being notified.         *)
THEOREM RecvBuffers == Spec => []BuffersSound
BY RecvInitInv, RecvNextInv, RecvSound, PTL DEF Spec
=============================================================================
