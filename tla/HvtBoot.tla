------------------------------- MODULE HvtBoot -------------------------------
(***************************************************************************)
(* How the hvt tender starts a unikernel (tenders/hvt/hvt_main.c): the     *)
(* command line attaches devices to manifest entries, guest memory is      *)
(* sized and its top set aside for the network ring, the modules' setup    *)
(* functions negotiate the ring with the host kernel, and the outcome is   *)
(* handed over in struct hvt_boot_info, from which the bindings start.     *)
(*                                                                         *)
(* Memory is counted in an arbitrary unit of which Page make up a guest    *)
(* page (2MB); capacities and sector sizes in units of 512 bytes.  A name  *)
(* is a model value; the link order of the modules' setup functions is     *)
(* not fixed by the source and is left open.                               *)
(***************************************************************************)
EXTENDS Integers, Sequences

CONSTANTS
    Manifests,   \* manifests a unikernel may carry: sequences of entries
    Names,       \* device names the command line may use
    MaxEntries,  \* MFT_MAX_ENTRIES
    Page, MaxMem,    \* X86_GUEST_PAGE_SIZE, X86_GUEST_MAX_MEM_SIZE
    RingBytes,       \* sizeof (struct hvt_ring)
    MinFree,         \* 512KB, what mem_init wants free above the kernel
    DefaultMem, MemArgs, KernelEnds, Capacities, SectorSizes,
    MaxArgs          \* bound on the options of a command line

ASSUME BootAssumption ==
    /\ Page \in Nat \ {0} /\ MaxMem \in Nat \ {0} /\ MaxMem % Page = 0
    /\ RingBytes \in Nat \ {0} /\ MinFree \in Nat \ {0}
    /\ DefaultMem \in Nat \ {0} /\ MemArgs \subseteq Nat \ {0} /\ KernelEnds \subseteq Nat \ {0}
    /\ Capacities \subseteq Nat /\ MaxArgs \in Nat /\ \A m \in Manifests : Len(m) \in Nat

VARIABLES
    phase,       \* how far main() and then the bindings' _start have come
    mft,         \* the manifest
    entry,       \* what the command line and setup() know of each of its entries
    args,        \* options handled so far
    asked,       \* the guest memory asked for (history)
    mem_size, guest_mem_size, alloc_size, rsp,
    kend,        \* gpa_kend
    reserved_ring_gpa, net_ring_gpa,
    has_ioeventfd, efd_open,   \* efd_open: kick_net_efd # -1
    io_thread, halt_hook,
    pending,     \* modules whose setup() has not run
    hypercalls, pollfds,
    bi,          \* struct hvt_boot_info
    net_ring     \* the bindings' pointer to the ring, 0 if none

cmdline == <<mft, entry, args, asked>>
sizes == <<mem_size, guest_mem_size, alloc_size, rsp, kend, reserved_ring_gpa>>
kvm == <<net_ring_gpa, has_ioeventfd, efd_open, io_thread, halt_hook>>
tables == <<pending, hypercalls, pollfds>>
handover == <<bi, net_ring>>
bootVars == <<phase, cmdline, sizes, kvm, tables, handover>>

EntryState == [attached : BOOLEAN, mac : {"none", "given", "generated"},
               capacity : Nat, block_size : Nat]
Unattached == [attached |-> FALSE, mac |-> "none", capacity |-> 0, block_size |-> 0]
NoBootInfo == [mem_size |-> 0, ring_io |-> FALSE, net_ring |-> 0]

BootInit ==
    /\ phase = "manifest" /\ mft \in Manifests
    /\ entry = [i \in 1 .. Len(mft) |-> Unattached] /\ args = 0
    /\ mem_size = DefaultMem /\ asked = DefaultMem /\ guest_mem_size = 0 /\ alloc_size = 0 /\ rsp = 0
    /\ kend = 0 /\ reserved_ring_gpa = 0
    /\ net_ring_gpa = 0 /\ has_ioeventfd = FALSE /\ efd_open = FALSE
    /\ io_thread = FALSE /\ halt_hook = FALSE
    /\ pending = {"core", "net", "block"} /\ hypercalls = {} /\ pollfds = {}
    /\ bi = NoBootInfo /\ net_ring = 0

(* errx(), a failed assertion or a panic.                                  *)
Die == phase' = "dead"

-----------------------------------------------------------------------------
(* The manifest and the command line.                                      *)

(* mft_validate.                                                           *)
ValidateManifest ==
    /\ phase = "manifest"
    /\ phase' = IF /\ Len(mft) \in 1 .. MaxEntries
                   /\ mft[1].type = "RESERVED_FIRST" /\ mft[1].name = ""
                  THEN "args" ELSE "dead"
    /\ UNCHANGED <<cmdline, sizes, kvm, tables, handover>>

(* mft_get_by_name: the first entry with this name and type, if any.       *)
GetByName(name, type) ==
    LET Matches == {i \in 1 .. Len(mft) : mft[i].type = type /\ mft[i].name = name}
    IN  {i \in Matches : \A j \in Matches : i <= j}

Option ==
    /\ phase = "args" /\ args < MaxArgs /\ args' = args + 1
    /\ UNCHANGED <<mft, guest_mem_size, alloc_size, rsp, kend, reserved_ring_gpa,
                   kvm, tables, handover>>

(* --mem=: handle_mem.                                                     *)
MemOption ==
    /\ Option /\ mem_size' \in MemArgs /\ asked' = mem_size'
    /\ UNCHANGED <<phase, entry>>

(* An option that names no declared device, or that no module takes.       *)
BadOption ==
    /\ Option /\ Die
    /\ UNCHANGED <<entry, asked, mem_size>>

(* --net:NAME=IFACE and --net-mac:NAME=HWADDR.                             *)
NetOption ==
    /\ Option
    /\ \E name \in Names : \E i \in GetByName(name, "NET_BASIC") :
          \/ entry' = [entry EXCEPT ![i].attached = TRUE]
          \/ entry' = [entry EXCEPT ![i].mac = "given"]
    /\ UNCHANGED <<phase, asked, mem_size>>

(* The powers of two from 512 on that fit a uint16_t.                     *)
ValidSectorSize(s) == s \in {1, 2, 4, 8, 16, 32, 64}

(* --block:NAME=PATH and --block-sector-size:NAME=SECTORSIZE.              *)
BlockOption ==
    /\ Option
    /\ \E name \in Names : \E i \in GetByName(name, "BLOCK_BASIC") :
          \/ \E c \in Capacities :
                entry' = [entry EXCEPT ![i].attached = TRUE, ![i].capacity = c]
          \/ \E s \in SectorSizes : ValidSectorSize(s) /\ entry' = [entry EXCEPT ![i].block_size = s]
    /\ UNCHANGED <<phase, asked, mem_size>>

-----------------------------------------------------------------------------
(* Guest memory.                                                           *)

RoundDown(m) == (m \div Page) * Page
RoundUp(m) == ((m + Page - 1) \div Page) * Page

(* hvt_x86_mem_size; no result when the guest would be too large.          *)
HvtMemSize(m) == IF RoundDown(m) = 0 THEN Page ELSE RoundDown(m)

(* hvt_mem_size_roundup.                                                   *)
Clamp(m) == IF RoundUp(m) > MaxMem THEN MaxMem ELSE RoundUp(m)

Attached(type) == {i \in 1 .. Len(mft) : mft[i].type = type /\ entry[i].attached}

(* hvt_net_mem_overhead.                                                   *)
NetMemOverhead == IF Attached("NET_BASIC") # {} THEN Clamp(RingBytes) ELSE 0

NoOverhead(m) == m

WithOverhead(m) == IF NetMemOverhead > 0 THEN Clamp(m + NetMemOverhead) ELSE m

SizeMemory ==
    /\ phase = "args"
    /\ IF HvtMemSize(mem_size) > MaxMem
         THEN Die /\ UNCHANGED mem_size
         ELSE phase' = "init" /\ mem_size' = WithOverhead(HvtMemSize(mem_size))
    /\ UNCHANGED <<cmdline, guest_mem_size, alloc_size, rsp, kend,
                   reserved_ring_gpa, kvm, tables, handover>>

(* hvt_init: any of its steps may fail; ioeventfd support is optional.     *)
HvtInit ==
    /\ phase = "init"
    /\ phase' \in {"load", "dead"}
    /\ guest_mem_size' = mem_size /\ alloc_size' = mem_size
    /\ has_ioeventfd' \in BOOLEAN /\ efd_open' = FALSE
    /\ UNCHANGED <<cmdline, mem_size, rsp, kend, reserved_ring_gpa, net_ring_gpa,
                   io_thread, halt_hook, tables, handover>>

(* elf_load: everything loaded ends within guest_mem_size; it may refuse   *)
(* the file for other reasons.                                             *)
ElfLoad ==
    /\ phase = "load" /\ kend' \in KernelEnds
    /\ IF kend' <= guest_mem_size THEN phase' \in {"reserve", "dead"} ELSE Die
    /\ UNCHANGED <<cmdline, mem_size, guest_mem_size, alloc_size, rsp,
                   reserved_ring_gpa, kvm, tables, handover>>

(* hvt_net_reserve_ring: the top of guest memory becomes the ring.         *)
ReserveInPlace ==
    /\ phase = "reserve" /\ phase' = "vcpu"
    /\ reserved_ring_gpa' = IF NetMemOverhead = 0 THEN 0 ELSE guest_mem_size - NetMemOverhead
    /\ UNCHANGED <<cmdline, mem_size, guest_mem_size, alloc_size, rsp, kend, kvm,
                   tables, handover>>

ReserveRing ==
    /\ phase = "reserve" /\ phase' = "vcpu"
    /\ IF NetMemOverhead = 0 \/ guest_mem_size < 2 * NetMemOverhead
         THEN UNCHANGED <<guest_mem_size, reserved_ring_gpa>>
         ELSE /\ reserved_ring_gpa' = guest_mem_size - NetMemOverhead
              /\ guest_mem_size' = guest_mem_size - NetMemOverhead
    /\ UNCHANGED <<cmdline, mem_size, alloc_size, rsp, kend, kvm, tables, handover>>

(* hvt_vcpu_init: the assertions of hvt_x86_setup_pagetables, the stack at *)
(* the top of what is left; a host without a stable TSC is refused.        *)
VcpuInit ==
    /\ phase = "vcpu"
    /\ IF alloc_size % Page = 0 /\ alloc_size \in Page .. MaxMem
         THEN phase' \in {"setup", "dead"} ELSE Die
    /\ rsp' = guest_mem_size
    /\ UNCHANGED <<cmdline, mem_size, guest_mem_size, alloc_size, kend,
                   reserved_ring_gpa, kvm, tables, handover>>

-----------------------------------------------------------------------------
(* setup_modules.                                                          *)

SetupOf(m) ==
    /\ phase = "setup" /\ m \in pending /\ pending' = pending \ {m}
    /\ UNCHANGED <<mft, args, asked, sizes, has_ioeventfd, handover>>

SetupCore ==
    /\ SetupOf("core")
    /\ phase' \in {"setup", "dead"}   \* setup_waitset() may fail
    /\ hypercalls' = hypercalls \cup {"WALLTIME", "PUTS", "POLL"}
    /\ UNCHANGED <<entry, net_ring_gpa, efd_open, io_thread, halt_hook,
                   pollfds>>

Nets == Attached("NET_BASIC")

(* No ioeventfd support, or eventfd() fails.                               *)
NoEventFd == UNCHANGED <<efd_open, io_thread, halt_hook>>

GiveUpRingKeepFd ==
    /\ has_ioeventfd
    /\ efd_open' = TRUE
    /\ UNCHANGED <<io_thread, halt_hook>>

(* KVM_IOEVENTFD or pthread_create() fails: the eventfd is closed again.   *)
GiveUpRing ==
    /\ has_ioeventfd
    /\ efd_open' = FALSE
    /\ UNCHANGED <<io_thread, halt_hook>>

StartRingNoHook ==
    /\ has_ioeventfd
    /\ efd_open' = TRUE /\ io_thread' = TRUE
    /\ UNCHANGED halt_hook

StartRing ==
    /\ has_ioeventfd
    /\ efd_open' = TRUE /\ io_thread' = TRUE /\ halt_hook' = TRUE

(* The handle hvt_core_register_pollfd enters in the wait set.             *)
NextHandle(i) == i + 1
PollHandle(i) == i

SetupNet ==
    /\ SetupOf("net")
    /\ IF Nets = {}
         THEN UNCHANGED <<phase, entry, net_ring_gpa, efd_open, io_thread, halt_hook,
                          hypercalls, pollfds>>
         ELSE /\ phase' \in {"setup", "dead"}   \* epoll_ctl() or malloc() may fail
              /\ hypercalls' = hypercalls \cup {"NET_WRITE", "NET_READ"}
              /\ entry' = [i \in DOMAIN entry |->
                           IF i \in Nets /\ entry[i].mac = "none"
                             THEN [entry[i] EXCEPT !.mac = "generated"] ELSE entry[i]]
              /\ pollfds' = pollfds \cup {PollHandle(i) : i \in Nets}
              /\ IF reserved_ring_gpa = 0
                   THEN UNCHANGED <<net_ring_gpa, efd_open, io_thread, halt_hook>>
                   ELSE /\ net_ring_gpa' = reserved_ring_gpa
                        /\ NoEventFd \/ GiveUpRing \/ StartRing

WithSectorSize(d) == IF d.block_size = 0 THEN [d EXCEPT !.block_size = 1] ELSE d

SetupBlock ==
    /\ SetupOf("block")
    /\ LET Blocks == Attached("BLOCK_BASIC")
       IN  /\ entry' = [i \in DOMAIN entry |->
                        IF i \in Blocks THEN WithSectorSize(entry[i]) ELSE entry[i]]
           /\ hypercalls' = IF Blocks = {} THEN hypercalls
                              ELSE hypercalls \cup {"BLOCK_WRITE", "BLOCK_READ"}
           /\ IF \A i \in Blocks : /\ entry'[i].capacity % entry'[i].block_size = 0
                                   /\ entry'[i].capacity >= entry'[i].block_size
                THEN UNCHANGED phase ELSE Die
    /\ UNCHANGED <<net_ring_gpa, efd_open, io_thread, halt_hook, pollfds>>

(* "All declared devices must be attached."                                *)
AnyAttached == \E i \in 1 .. Len(mft) : entry[i].attached
AllAttached ==
    \A i \in 1 .. Len(mft) : mft[i].type # "RESERVED_FIRST" => entry[i].attached

CheckAttached ==
    /\ phase = "setup" /\ pending = {}
    /\ phase' = IF AllAttached THEN "boot_info" ELSE "dead"
    /\ UNCHANGED <<cmdline, sizes, kvm, tables, handover>>

-----------------------------------------------------------------------------
(* The handover.                                                           *)

(* hvt_boot_info_init, with its assertion on the ring; it may also find    *)
(* the guest's command line too long.                                      *)
BootInfoInit ==
    /\ phase = "boot_info"
    /\ LET ring_active == has_ioeventfd /\ efd_open
       IN  /\ bi' = [mem_size |-> guest_mem_size, ring_io |-> ring_active,
                     net_ring |-> IF ring_active THEN net_ring_gpa ELSE 0]
           /\ IF ring_active => guest_mem_size = net_ring_gpa
                THEN phase' \in {"start", "dead"} ELSE phase' = "assertion failed"
    /\ UNCHANGED <<cmdline, sizes, kvm, tables, net_ring>>

(* mem_init: enough memory is left above the kernel.                       *)
KernelFits == kend <= alloc_size
EnoughMemory == kend + MinFree <= bi.mem_size

(* The bindings' _start: mem_init panics or net_init finds the ring.       *)
GuestStart ==
    /\ phase = "start"
    /\ phase' = IF EnoughMemory THEN "app" ELSE "dead"
    /\ net_ring' = IF bi.ring_io /\ bi.net_ring # 0 THEN bi.net_ring ELSE 0
    /\ UNCHANGED <<cmdline, sizes, kvm, tables, bi>>

(* hvt_core_hypercall_halt runs kill_net_pthread if it was registered.     *)
GuestHalt ==
    /\ phase = "app" /\ phase' = "halted"
    /\ IF halt_hook /\ efd_open
         THEN io_thread' = FALSE /\ efd_open' = FALSE
         ELSE UNCHANGED <<io_thread, efd_open>>
    /\ UNCHANGED <<cmdline, sizes, net_ring_gpa, has_ioeventfd, halt_hook, tables,
                   handover>>

Stopped == phase \in {"dead", "halted", "assertion failed"} /\ UNCHANGED bootVars

Main ==
    \/ ValidateManifest \/ SizeMemory \/ HvtInit \/ ElfLoad \/ ReserveRing \/ VcpuInit
    \/ SetupCore \/ SetupNet \/ SetupBlock \/ CheckAttached \/ BootInfoInit
    \/ GuestStart \/ GuestHalt

BootNext == MemOption \/ BadOption \/ NetOption \/ BlockOption \/ Main \/ Stopped

BootSpec == BootInit /\ [][BootNext]_bootVars

-----------------------------------------------------------------------------
Devices == {i \in 1 .. Len(mft) : mft[i].type # "RESERVED_FIRST"}

(* Type invariant; the handles in the wait set are entries of the manifest. *)
BootTypeOK ==
    /\ mft \in Manifests
    /\ entry \in [1 .. Len(mft) -> EntryState]
    /\ args \in 0 .. MaxArgs /\ asked \in MemArgs \cup {DefaultMem}
    /\ mem_size \in Nat /\ guest_mem_size \in Nat /\ alloc_size \in Nat
    /\ rsp \in Nat /\ kend \in Nat /\ reserved_ring_gpa \in Nat
    /\ net_ring_gpa \in Nat /\ net_ring \in Nat
    /\ has_ioeventfd \in BOOLEAN /\ efd_open \in BOOLEAN
    /\ io_thread \in BOOLEAN /\ halt_hook \in BOOLEAN
    /\ pending \subseteq {"core", "net", "block"}
    /\ pollfds \subseteq 1 .. Len(mft)
    /\ bi \in [mem_size : Nat, ring_io : BOOLEAN, net_ring : Nat]

(* hvt_boot_info_init's assertion that the ring starts where the guest's   *)
(* memory ends never fails.                                                *)
RingAboveMemory == phase # "assertion failed"

(* Once the application runs, kernel image, heap and stack lie below       *)
(* bi->mem_size in this order, and the ring, if the guest uses one, lies   *)
(* wholly between bi->mem_size and the end of the memory mapped to the     *)
(* guest: hvt_net_reserve_ring runs after elf_load, so it is mem_init's    *)
(* refusal that keeps the kernel out of the ring.                          *)
LayoutDisjoint ==
    phase = "app" =>
        /\ kend + MinFree <= bi.mem_size
        /\ rsp <= bi.mem_size /\ rsp > kend
        /\ bi.mem_size <= alloc_size
        /\ net_ring # 0 => /\ net_ring >= bi.mem_size
                           /\ net_ring + RingBytes <= alloc_size

(* The memory layout from sizing to the application: all of the above.     *)
LayoutSound == BootTypeOK /\ RingAboveMemory /\ LayoutDisjoint

(* Halting leaves no I/O thread behind: kill_net_pthread is registered by  *)
(* every setup() that started one.                                         *)
ThreadJoined == phase = "halted" => ~io_thread /\ ~efd_open

(* The two sides agree on the ring: the guest uses the ring if and only if *)
(* an I/O thread serves it and halting will stop that thread, whichever of *)
(* eventfd(), KVM_IOEVENTFD and pthread_create() failed in setup(); and    *)
(* halting does stop it.                                                   *)
RingAgreed ==
    /\ ThreadJoined
    /\ phase = "app" =>
          /\ net_ring # 0 <=> io_thread
          /\ io_thread => /\ halt_hook /\ efd_open
                          /\ net_ring = reserved_ring_gpa

(* Every device the application can acquire is ready when it starts: it is *)
(* attached, its hypercalls are registered, a network device has a MAC     *)
(* address and is polled, a block device holds a whole number of sectors.  *)
DevicesReady ==
    phase = "app" => \A i \in Devices :
        /\ entry[i].attached
        /\ mft[i].type = "NET_BASIC" =>
              /\ {"NET_WRITE", "NET_READ", "POLL"} \subseteq hypercalls
              /\ i \in pollfds /\ entry[i].mac # "none"
        /\ mft[i].type = "BLOCK_BASIC" =>
              /\ {"BLOCK_WRITE", "BLOCK_READ"} \subseteq hypercalls
              /\ entry[i].block_size > 0 /\ entry[i].capacity >= entry[i].block_size
              /\ entry[i].capacity % entry[i].block_size = 0

(* The ring is not taken out of the memory asked for: the guest gets what  *)
(* --mem asked for, in whole pages, unless that and the ring together are  *)
(* more than the largest guest.                                            *)
MemoryAsAsked ==
    phase = "app" =>
        \/ bi.mem_size >= HvtMemSize(asked)
        \/ alloc_size = MaxMem /\ bi.mem_size + NetMemOverhead = MaxMem
=============================================================================
