# Solo5 in TLA+

Solo5 runs a unikernel in a sandbox. A *tender* (host process) loads it and
serves its requests; *bindings* linked into it implement the API of
`include/solo5.h` for one target: hvt (hardware virtualisation), spt (a
sandboxed Linux process), virtio, Muen and Xen. This directory holds TLA+ models
of the parts of Solo5 whose state is shared, lasting or easily corrupted by an
overflow, the TLC runs that check them on small instances, and TLAPS proofs of
the most important properties for all instances.

## 1. Inventory

| Part | State | Operations | What makes it hard |
|---|---|---|---|
| hvt network ring (`hvt_ring.h`, `bindings/hvt/net.c`, `hvt_module_net.c`) | shared indices, entries, commits, `needs_kick`; eventfd; stop flag | `solo5_net_write`, `solo5_net_read`, I/O thread loop, batches, shutdown | two threads without locks, store buffers, sleeping consumer, index wrap, halt at any time |
| hvt startup (`hvt_main.c`, `hvt_boot_info.c`, KVM backend, `mft.c`, bindings' `_start`) | manifest, memory sizes, ring address, descriptors, handler tables, boot info | options, memory sizing, ELF load, ring reservation, module setup, handover, halt | order across files, failures half way, clamping |
| ELF loader (`elf.c`) | guest memory, page protection | header and segment checks, loading, notes | overflow at every addition, overlapping segments |
| hvt and spt waiting (`hvt_core.c`, `bindings/*/yield`) | epoll set, timerfd, taps | `solo5_yield`, poll hypercall | timer and taps ready together, stale expiry, zero timeout |
| hvt and spt block device | capacity, block size, file | read, write, tender checks, seccomp limits | offset overflow, checks in two places, short transfers |
| hvt clock (`tscclock.c`) | multiplier, shift, bases | init, monotonic time | 32-bit scale, rounding that adds up |
| hvt GDB stub | breakpoint lists, KVM debug state, code | insert, remove, step, continue, detach | three copies of the same breakpoints |
| virtio queues (`virtio_ring.[ch]`, `virtio_net.c`, `virtio_blk.c`) | available and used rings, event indexes, free counts | receive, transmit, notify, block request | device concurrency, 16-bit wrap, suppressed notifications |
| virtio yield (`virtio_net.c`, `tscclock.c`, `intr.c`) | interrupt flag, PIT | poll, block, handler | interrupt between poll and `hlt`, missing fence |
| Muen channel (`reader.c`, `writer.c`) | header, data, epoch; reader state | init, write, read, pending | writer never waits and may restart, torn reads |
| Muen clock, handles, yield | frame start, bases, ready set | monotonic time, acquire, read, yield | a clock that does not read the TSC |
| Xen (`evtchn.c`, `console.c`, `time.c`, `pvclock.c`) | pending and mask bits, console ring, timer, clock parameters | upcall, unmask, console write, yield, clock | events during the handler, version protocol |
| core dumps, seccomp, elftool, printf, ACPI, PCI, BSD and aarch64 backends | – | – | see section 7 |

`PROJECT.json` lists every component with its sources and status, and the
hazards with the line where each bites and the properties that cover it.

## 2. Modules

| Module | Models | Run |
|---|---|---|
| `HvtRing` | the ring's guest side and I/O thread | `ring_safety`, `ring_assert` |
| `NetFifo` | abstract: a bounded FIFO of requests with synchronous reads | |
| `HvtRingFifo` | refinement mapping from `HvtRing` to `NetFifo` | `ring_live` |
| `HvtBoot`, `MCHvtBoot` | startup of the hvt tender and its handover to the guest | `boot` |
| `SoloYield` | abstract: what `solo5.h` promises of `solo5_yield` on every target | (in `muen`) |
| `Mft` | target and manifest, shared by the calls below | |
| `TscClock` | `tscclock_init`, `tscclock_monotonic` | |
| `HostWait` | `solo5_yield`, the poll hypercall, epoll and timerfd or kqueue | |
| `HostBlock` | block calls in bindings, tender and seccomp filter | |
| `ElfLoad` | `elf_load_note`, `elf_load` | |
| `HvtGdb` | the GDB stub on KVM | |
| `Tender`, `MCTender` | composition of the five above | `tender` |
| `Virtq` | 16-bit index arithmetic and `virtq_need_event` | |
| `VirtioRecv` | receive queue, `solo5_yield`, `cpu_block`, interrupt, device | `virtio_recv`, `virtio_interrupt` |
| `VirtioXmit` | transmit queue and device | `virtio_bufs` |
| `VirtioBlk` | block requests and device | |
| `VirtioIo` | `VirtioXmit` and `VirtioBlk` | `virtio_xmit` |
| `MuenChannel` | channel writer and reader | `muen_overrun` |
| `MuenYield` | clock, handles and `solo5_yield` on Muen | |
| `MuenGuest` | `MuenChannel` and `MuenYield` | `muen` |
| `XenEvtchn` | event channels, interrupt path, timer, `solo5_yield` | |
| `XenConsole` | console ring and xenconsoled | |
| `PvClock` | the version protocol of the pvclock | |
| `XenGuest`, `MCXenGuest` | composition of the three above | `xen` |
| `Arithmetic` | lemmas on division, remainders and wrapping counters | (TLAPS) |
| `*_proof` | theorems, see section 5 | (TLAPS) |

Definitions whose comment starts with "Mutant", or that stand unused just
before the definition they vary, are faulty variants of the code; each shows
that a property can fail. `PROJECT.json` pairs them with the properties.

### HvtRing

The guest's `gpc` and the thread's `hpc` name the place in `net.c` and in
`io_thread_net_fn`/`process_ring_commits`; each action is one access to shared
memory with the local work around it. Every word of `struct hvt_ring` has a
single writer, so a store buffer is modelled per word: `ent_tail_g` is what the
guest has stored, `ent_tail` what the host can see, and a `Flush` action moves
one to the other at any later time. This allows everything x86-TSO does, and
more. `hvt_mb()` is a step that waits until the words of that side agree.
`Word` is 2^32 in the code and a small multiple of the ring size in the runs.
A packet is its request id. Not in the model: the hypercall path (no ring, or a
packet too large for an entry), and what the TAP device returns.

### HvtBoot

`phase` walks through `main()`: validation, options in any order, sizing,
`hvt_init`, `elf_load`, `hvt_net_reserve_ring`, `hvt_vcpu_init`, the modules'
`setup` functions in any order (link order is not fixed by the source), the
check that all devices are attached, `hvt_boot_info_init`, then the bindings'
`_start` and finally halt. Every host call that may fail has a failing outcome.
Memory is in units of 512KB in the run; names, MAC addresses and paths are
abstract. `entry` is what the tender knows of each manifest entry, `efd_open` that
`kick_net_efd` is not -1. The vCPU loop and the contents of page tables are left
out.

### Tender: TscClock, HostWait, HostBlock, ElfLoad, HvtGdb

What a guest asks of its tender once the memory is laid out. The parts have no
variable in common except the manifest and, for the clock and the wait, the
TSC. A guest has one thread, so calls of different kinds never overlap: `work`,
chosen in `Init`, says which part a behaviour exercises, and the state space is
the sum of theirs and not the product.

- `HostWait` has the three forms of the wait: hvt on Linux (guest clock,
  relative timeout, timerfd in the tender's epoll set), hvt on the BSDs
  (`kevent` timeout) and spt (absolute timerfd in the guest). The kernel is
  external: descriptors are level-triggered, a wait returns as many ready
  descriptors as it was asked for, a timerfd set to zero is disarmed. EINTR
  repeats the wait and changes no state.
- `HostBlock` has the bindings' checks, the tender's checks or the seccomp limits,
  and transfers of any length up to the one asked for. Arithmetic is modulo
  `Word`, and the upper half of a word is negative as an `off_t`. Requests that
  bypass the bindings are included, as the tender does not rely on these. A
  short transfer ends the guest on hvt, where the tender asserts its length, and
  is reported as `SOLO5_R_EUNSPEC` on spt.
- `ElfLoad` takes one program header per step, of any contents. Memory
  records which segment, or its BSS, last wrote each byte. A page's protection
  is the one of the tender's own mapping, as `hvt_guest_mprotect` makes it on
  KVM: a segment to execute is readable and not executable there. spt, whose
  guest runs in that mapping, applies the flags themselves.
- `HvtGdb` has the stub's lists, the copy in KVM, and the code with its `int3`
  instructions. The debugger is assumed to use one kind of hardware breakpoint
  per address, not to write over a software breakpoint it has inserted, and to
  remove its breakpoints before detaching. Registers and packet framing are
  left out.

### VirtioRecv, VirtioXmit and VirtioBlk

One device with one queue each, with and without event indexes. The guest's
stores to `used_event` or `avail->flags` go through a store buffer because no
fence follows them; the avail ring is always followed by `mfence` and needs
none. The device is external. It takes and returns buffers in order, as the
driver relies on, follows the virtio rules for `used_event` and `avail_event`,
and never lets an unsignalled batch exceed the queue. Transmit interrupts are
left out: the driver suppresses them, and one that comes anyway can only end the
`hlt` of `solo5_yield` early, whose loop then polls again. Packets have a legal
size: the assertions on lengths are about the caller's arguments.

A block request has three descriptors, which take over whatever the slots held
before; the device follows the descriptors, not the driver's intention. It may
fail a request and leave a failed write done or not done. `VirtioIo` puts
`VirtioXmit` and `VirtioBlk` side by side like `Tender` (`io`).

### MuenChannel and MuenYield

`MuenChannel` has one step per access to the header and per half element, so a
torn copy is visible. Plain stores between compiler barriers (`memset`, the
fields in `muen_channel_init_writer`) happen in any order. The writer may restart
wherever it is. Reader steps are shared by `muen_channel_read` and
`muen_channel_has_pending_data` (`rop`). Counters do not reach 2^64 within the
bound `MaxWc`.

In `MuenYield` a channel is only with or without data, and loses its data when
its writer restarts. The separation kernel moves the start of the minor frame;
a call of the clock takes `CallTicks`, at least the step `min_delta`: without this the
clock could pass the TSC and its next delta wrap around. `TickRate > NsecPerSec`
is needed by the code, whose 32-bit `tsc_mult` overflows at 1 GHz and below (the
TODO at `muen-clock.c:80`). A subject may have no `time_info` region (`region`):
`time_init` then returns early, the multiplier stays zero, and the clock stands at
zero for ever.

### XenGuest: XenEvtchn, XenConsole, PvClock

The guest's thread, the upcall handler that interrupts it on the same CPU, and
Xen on another CPU, which raises an event in four steps (pending, mask,
selector, upcall). Xen and xenconsoled are external: the one-shot timer fires
once, at or after its deadline; `set_evtchn_upcall_vector` requests the vector
once; xenconsoled takes all there is when notified. `RingWord` exceeds the bytes
of one text in the run, as 2^32 does in practice. A text is a sequence of `Characters`; "CR" stands for a
carriage return that the console adds, and a carriage return of the text itself
would be one of the `Characters`. The reader of `PvClock` loads the fields in any order between its
fences; its version does not wrap. `XenGuest` composes the start code, the
console and the yield, with the interrupts in all of them; `solo5_yield` reads
the clock in one step, which `ClockConsistent` allows.

## 3. What the runs show

Passing runs. Where a property is a conjunction, its parts are defined and
commented in the component's module.

| Run | Properties | Instance |
|---|---|---|
| `ring_safety` | `SlotIntegrity`: no entry is overwritten before it is taken. `ReplyMatchesRequest`: a read gets its own commit although ids are never compared. `NoLostKick`: the thread never sleeps on a non-empty ring with no kick coming. | 4 slots, indices wrap at 8 (two laps) |
| `ring_live` | `ImplementsFifo`: refinement of `NetFifo`. `EntryServed`, `CallsReturn`, `HaltCompletes` | 3 slots, `Word` 3 |
| `boot` | `LayoutSound`: kernel, ring and tables do not overlap, and the ring lies above what the guest may allocate. `RingAgreed`: tender, boot info and guest agree on the ring, and its thread is joined at halt. `DevicesReady`, `MemoryAsAsked` | ten manifests, up to four options, memory up to and over the maximum |
| `tender` | `ClockAccurate`: never ahead of the TSC, and late by less than a nanosecond per call and the error of the multiplier. `YieldKept`: a yield reports the ready handles, all of them and no other, and an unready one only (almost) at its deadline. `BlockInBounds`: no transfer outside the device, whatever the guest asks. `BlockPromise`: a call is refused exactly when its handle, offset or size is not valid, one that returns OK has done all it was asked, and a write that fails leaves at most the beginning of its own block written, and says so; no legal call kills the guest unless the host's I/O fails on hvt. `LoadSafe`: loading stays in guest memory, keeps every segment and protects it as its flags ask, never executable in the tender, and notes are read inside their buffer. `BreakpointsHit`, `GuestUndisturbed`: the guest stops exactly at the debugger's breakpoints and runs its own code after a detach, without stopping unless it was last stepped. `YieldReturns` | see `MCTender` |
| `virtio_recv` | `DeliveredInOrder`; `BuffersSound`: unread packets intact, buffers conserved, no kick lost; `YieldReports` | 2 buffers, indexes wrap at 8, 10 packets |
| `virtio_xmit` | `SentInOrder`; `QueueSound`: descriptors conserved, no kick lost; `BlkKept`: a block request reaches the device well-formed and does what its result says; `EverySent`, `CallsComeBack` | 4 descriptors, wrap at 8, 10 packets; one sector |
| `muen` | `ReadIsExact`: a successful read is the next element of the epoch. `GeometryKnown`. `MuenClockAccurate`: the clock never passes the TSC, and loses at most a nanosecond per call; it stands at zero without a `time_info` region. `MuenImplementsYield`: refinement of `SoloYield`, so a yield reports the acquired devices with data, and none only at the deadline. `ReaderProgress`: the reader advances unless overrun, and re-attaches after a restart. `MuenYieldReturns`: where the clock runs, a yield returns | 2 elements, 3 writes in each of 2 epochs; 2 devices, 3 ticks per nanosecond |
| `xen` | `NoLostUpcall`, `NoUnhandledEvent`; `SleepSound`: the timer of a sleeping yield is never lost and, unless a boot loader left its own timer armed, no yield returns early; `OutputSound`: xenconsoled gets exactly the text, LF as CR LF, and `console_write` never waits for a notification that is not coming; `ClockConsistent`: no clock value mixes two updates; `GuestProgress`: the guest comes up, yields and console writes return | 2 ports, a text of four rounds of `console_write_some`, 2 clock updates |

Every passing run but the two of the ring checks a type invariant, by itself or
as part of another property; that of `HvtRing` is proved (`TypeCorrect`).

Runs that refute what a comment or the API documentation says:

| Run | Refuted | Why |
|---|---|---|
| `ring_assert` | "The ring cannot be full here" (`bindings/hvt/net.c:133`) | `solo5_net_write` does not wait for the host, so a full ring may meet `solo5_net_read`, whose assertion then fails |
| `muen_overrun` | "Retrying an identical operation at a later time may succeed" (`solo5.h:68`) | an overrun reader does not move, and nothing calls `muen_channel_drain` |
| `virtio_interrupt` | interrupts wake a sleeping application (`virtio_net.c:486`) | the store that asks for interrupts can be overtaken by the poll; the PIT still ends the sleep, which is `YieldReports` |
| `virtio_bufs` | `bufs` has `virtq.num` entries (`virtio_ring.h:127`) | `xmitq.bufs` is sized by the receive queue |

Other disagreements and oddities met, which are not runs:

- `solo5_net_write` is documented to send "without blocking" (`solo5.h:274`), while
  the virtio driver spins on a full transmit queue until the device returns a
  chain: `CallsComeBack` needs the fairness of the device.
- The transmit queue's `used_event` is "a value that will never be reached"
  (`virtio_net.c:272`), which the 16-bit index reaches in every turn; the
  interrupt ends a sleep of `solo5_yield` early, whose loop polls again.
- A device can be acquired twice on hvt and spt, against `solo5.h:266` and `:322`;
  Muen refuses the second time.
- On hvt a yield may return slightly before its deadline (`solo5.h:223`), by the
  lag of the guest's clock behind the host's: `YieldKept` bounds it.
- A short write on spt leaves part of a block written and returns
  `SOLO5_R_EUNSPEC` (`bindings/spt/block.c:91`), where `solo5.h:330` says that a
  block is written in its entirety or not at all. `BlockPromise` states what holds:
  a beginning of the block and nothing else, and never reported as OK.
- Block calls on a handle that is not there return `SOLO5_R_EINVAL`
  (`bindings/hvt/block.c:31`, `bindings/spt/block.c:59`), where `solo5.h:59` says
  that calling APIs on devices that are not present "WILL result in aborting
  execution". `BlockPromise` requires what the code does.
- A packet too large for a ring entry goes by hypercall and overtakes the ring
  (`bindings/hvt/net.c:86`); no document promises an order.
- A `PT_LOAD` of BSS only is skipped (`elf.c:280`).
- The GDB stub looks up hardware breakpoints without their type
  (`hvt_gdb_kvm_x86_64.c:169`), and 'D' leaves stepping on
  (`hvt_module_gdb.c:571`): a guest that was last stepped stops once more after
  the debugger has gone. `DetachedRuns`, a part of `GuestUndisturbed`, speaks only
  of a guest that was not being stepped.
- A timer that the boot loader left behind can end a yield on Xen early
  (`xen/time.c:44`). That can go on: the call that returns early leaves its own
  timer armed, which may end the next call. `YieldOnTime`, a part of `SleepSound`,
  and `XenImplementsYield` therefore say nothing of any call in a behaviour that
  began with such a timer; the rest of `SleepSound` holds of these too.
- `console_write` loads `out_cons` once, before its first round
  (`xen/console.c:106`), and compares with that value in every later wait
  (`:120`). The comparison means what it should only in the first round; later it
  finds the two different and goes on without waiting. It would wait in vain only
  if 2^32 characters of one text had gone by: `WaitsServed`, a part of
  `OutputSound`, has this exception. The text of the `xen` run takes four rounds,
  with three waits, of which the last two compare with the old value.
- Without a `time_info` region (`muen-clock.c:62`) the Muen clock stands at zero,
  so a yield with a deadline to come returns only for a packet:
  `MuenYieldReturns` speaks of subjects that have the region.
- At 3 GHz the Muen clock's `min_delta` of 3 ticks converts to 0 nanoseconds, so
  within a minor frame the clock stands still, and every call loses what it
  rounded away. `MuenYieldReturns` holds since the next frame moves it.

### Bounds

- Ring sizes are the smallest with a full ring that is not also a nearly empty
  one; `Word` is small enough for every index to wrap, and a multiple of the
  ring size as in the code. The proofs remove both bounds for the safety
  properties. `ring_live` takes `Word` equal to the ring size, to keep the
  temporal check small: there an index that ran a whole lap ahead would look like
  one that had not moved. `ring_safety`, with two laps, tells them apart.
- `MaxPackets` takes every virtio index past its wrap. `VirtioBlk` needs no such
  bound; its device has one sector, since sectors would multiply the states: the
  device compares the whole header with the request, so a wrong sector shows as
  an ill-formed request. With 4 descriptors and 3 per request, a slot changes its
  role in every request.
- `MaxWc` is one more than the number of Muen elements, so that overwriting, overrun
  and reading just in time all occur; `MaxEpoch` 2 gives one restart. `MuenYield`
  has two calls of the application, with a deadline that takes several frames,
  three calls of the clock per frame, and a frame it may be away. At `MaxTsc` the
  model stops; with a `time_info` region, `MuenYieldReturns` shows that no call is
  cut off by it. Without one the clock's value does not depend on the TSC.
- `MaxArgs` 4 attaches two devices and sets an option of each. Memory values lie
  below, at and above a page and the maximum; kernel ends lie below, inside and
  above the ring's place.
- `tender`: words of 4 bits, and for each check a value below, at and above its
  limit and one that overflows; two network devices and the timer, so that all
  or some are ready; a TSC frequency that does not fit the widest shift and one
  that does; one debug register fewer than addresses.
- `xen`: the console's port and the timer's; the clock runs until every sleep
  that can begin has ended. Two lines of a character each in a ring of two slots
  fill it in every round, twice between a carriage return and its line feed.
- Deadlock is not checked in the runs of `VirtioXmit`, where the application
  stops writing after `MaxPackets`, and in `xen`, where the clock stops.

## 4. Fairness

- `HvtRing`: the host kernel schedules the vCPU and the I/O thread, so each is
  weakly fair inside a call; store buffers drain. The application need not call
  and no signal need arrive.
- `Tender`: time passes, the guest runs inside a call, and the kernel wakes a
  waiter whose condition holds. No packet need arrive.
- `VirtioRecv`: the guest runs, its stores drain, and the programmed PIT fires.
  No fairness of the device is assumed.
- `VirtioIo`: the guest runs and the devices work, as the spins on a full queue
  and on an outstanding block request require.
- `MuenGuest`: calls proceed. Strong fairness of starting a read says that the
  application keeps reading among other calls; the writer may stop at any time.
  The time server publishes the time once. Frames change as time passes, which
  calls of the clock make it do.
- `XenGuest`: Xen finishes what it has begun, its clock runs, the thread and the
  handler run, xenconsoled takes what it is notified of, and an update of the
  clock parameters, once begun, ends. Nobody need call anything.

## 5. Proofs

All theorems hold for every value of the constants that satisfies the named
assumptions, which the runs also evaluate. Every safety property of a passing
run is proved, and so are the refinements of `NetFifo` and of `SoloYield`.

| Module | Theorems | Inductive invariant |
|---|---|---|
| `HvtRing_proof` | `TypeCorrect`, `SlotsIntact`, `RepliesMatch`, `KickNeverLost`, `Invariance`; `RingIsFifo` | `IInv`; with `ReadInv` |
| `BootRecv_proof` | `BootLayout`, `BootRing`, `BootDevices`, `BootMemory`; `RecvInOrder`, `RecvBuffers` | `BootInv`; `RecvInv` |
| `TenderParts_proof` | `Confined`, `Segments`, `Notes`; `NeverAhead`, `LossBounded`, `Monotone` | `ElfInv`; `TscInv` (and `WaitInv`) |
| `Tender_proof` | `ImplementsClock`, `ImplementsLoader`, `GuestClock`, `GuestLoaded`, `YieldPromise`, `BlocksInBounds`, `BlockCallsKept`, `DebuggerStops`, `DebuggerLeavesNoTrace`, `TypesKept`; `SptKeepsPromise` | `TenderInv`, the conjunction of `TscInv`, `WaitInv`, `BlockInv`, `PromiseInv`, `ElfInv`, `GdbInv`; with `SptInv` |
| `VirtioIo_proof` | `XmitQueue`, `XmitInOrder`; `BlockCalls` | `XmitInv`; `BlkInv` |
| `MuenGuest_proof` | `ReadsExact`, `ChannelGeometry`; `MuenClock`, `MuenYieldPromise`, `MuenKeepsPromise` | `ChannelInv`; `MuenInv` |
| `XenGuest_proof` | `UpcallsNotLost`, `EventsHandled`, `SleepsWell`, `XenKeepsPromise`; `ClockNeverTorn`; `ConsoleExact`; `GuestImplements`, `GuestSafe`, `GuestOutput` | `EvtInv`; `ClkInv`; `ConInv` and `ServeInv` |

`Arithmetic` has the lemmas several of them use. `BootRecv_proof` and
`TenderParts_proof` each hold the proofs of two components that do not depend on
each other.

Assumptions that say more than that a constant is a number:

- `PowerAssumption` (`TscClock`) is a fact of arithmetic, that powers of two are
  positive naturals, which the provers do not know.
- `RingAssumption`, `VirtqAssumption`: the index word is a multiple of the size of
  the ring. For virtio it also exceeds the size by two or more. With a queue of
  one and a word of two, the first notification of the receive queue would be
  lost: `last_notified_idx` starts a whole queue behind. The code's word is 65536.
- `MuenAssumption`: counters do not wrap below the bounds of the model.
- `MuenClockAssumption`: at most 64 handles, a TSC faster than 1 GHz, and calls of
  the clock that take at least `Step`, the `min_delta` of the code (section 2).
- `GdbAssumption`: `int3` is none of the guest's own instructions, so that a
  breakpoint in memory can be told from the program.
- `ConsoleAssumption`: the index word is a larger multiple of the ring's size, as
  2^32 is of 2048; the ring has two slots or more, so that a line feed and its
  carriage return fit; "CR" is none of the `Characters`.
- `BlkAssumption`: a request's three descriptors fit the queue.

**HvtRing.** For every `HVT_RING_SIZE` of at least 2 and every `Word` that is a
multiple of it. None of the properties is inductive by itself. `IInv` adds:

- `OrderInv`: measured from the visible `ent_head`, the indices are in the
  order `ent_head_h + processed`, `tail_snap`, `ent_tail`, `ent_tail_g`, at most
  `HVT_RING_SIZE - 1` apart. This makes slots of live indices distinct across
  the wrap (`SlotInj`).
- `EntryInv`: every slot from the visible `ent_head` on holds its own entry, and
  `ring_req_id` follows `ent_tail_g`.
- `CommitInv`: an unserved read is the last entry of a guest that waits for it,
  and a commit not yet returned answers that entry.
- `KickInv`: `needs_kick` is set, and visible, at the places where the thread
  relies on it, and no kick is lost.

`RingIsFifo` maps the slots from `FirstPending` to `ent_tail_g` to the queue
(`Pending`). `FrontFacts` and `PendingFacts` give its ends and its elements in
terms of `IInv`; `ReadInv` adds that a waiting guest's own read is the last
entry. One lemma for each action then shows that it appends, removes the head,
answers or is invisible. Word by word draining of the store buffers, and the late
update of `ent_head`, are invisible.

**HvtBoot.** Each property is about the end of a long sequence. `BootInv` follows
it: `PlaceInv` has the memory sizes phase by phase, `RingInv` that eventfd, thread
and halt hook come and go together and that an open eventfd means a reserved ring,
`ToldInv` that boot info is what was set up, and `ReadyInv` what each `setup` that
has run leaves behind, in any order. The layout rests on two lemmas on rounding:
`Sizing` (the overhead is added unless the sum is clamped) and `Overhead` (a
reserved ring is not itself clamped, since reserving wants twice its size).

**VirtioRecv.** `Indexed` replaces the wrapping indexes by the numbers of packets
that arrived and of buffers given back, which are at most a queue apart. `Filled`
says that descriptor `s` always travels through slot `s`, and what the unread
buffers hold. `Announced` says which of the buffers given back the device has been
told of: an idle device that has not been kicked lacks at most the last one, for
which `notify` is under way.

**TscClock.** `RateInv` says that `tsc_mult` is the largest multiplier for
`tsc_shift`: `mult * freq <= nsec * 2^shift < (mult + 1) * freq`. From it, lemma
`Converted` bounds one conversion on both sides, and `Advanced` adds it to what
has gone before; `TscInv` joins these with the two bounds.

**HostWait.** `WaitInv` says that what was readable when the call began stays so,
and that the timer is set, to no earlier than the deadline as the host sees it. On
hvt this needs the bounds of `TscInv`, as the timeout was computed from the
guest's clock.

**ElfLoad.** `SegmentsKept` speaks of all segments loaded so far. `ElfInv` adds
that each lies below `e_end` with its contents and its protection (`Kept`), and that
the next start is not below it, because the code compares page-aligned bounds.
`InSegment` shows that the unsigned difference used to place a byte is right
although it may wrap.

**HostBlock.** `BlockInv` says that a request past the checks ends at or before
`capacity`; the argument is that `capacity - block_size` does not wrap
(`LastBlockExact`) and that the tender compares before it adds. `PromiseInv` adds
that nothing has happened before the transfer, that a request the bindings let
pass is valid but for the bound that hvt leaves to the tender, and that a result
comes with what it stands for (`Served`).

**HvtGdb.** `ListsInv` ties four copies to each other: the stub's lists, the
`int3`s in memory with the instructions they replaced, KVM's copy, and what the
debugger asked for. `CountInv` says that debug registers are counted right and
`DetachInv` that a debugger that has left has left nothing.

**VirtioXmit and VirtioBlk.** `XmitInv` counts chains without wrapping: reclaimed,
used, sent and written, in this order and within the queue (`Counted`); a chain
that is not reclaimed holds its packet (`Chained`), and `Announced` is as for the
receive queue. In `BlkInv` at most one request is out (`IndexInv`), and
`RequestInv` follows its chain through the device to the status.

**MuenChannel.** `DataInv`: elements that no write has announced to overwrite are
there. `CopyInv`: what the reader has copied is its element unless the writer has
announced otherwise since, which the reader's second look at `wsc` finds out.
`ReaderInv`: an epoch that the writer has left never comes back, so the last look
at the epoch suffices.

**MuenYield.** `FrameInv`: `tsc_base` stays within a frame of its start and a call
behind the TSC. `TimeInv`: the two bounds of the clock, or that it stands at zero
without a region. `PollInv`: what a round of
polling has passed, it has noted.

**Tender, VirtioIo, MuenGuest, XenGuest.** Compositions are projected on their
components: each step is a step of one component and leaves the others alone. For
the clock, the loader, the event channels and the console this is stated as
refinement (`ImplementsClock`, `ImplementsLoader`, `GuestImplements`).

**SoloYield.** Its variables are what an application can see: the clock, the
devices ready for input, and during a call the deadline, the devices that were
ready at some time (`had`) and throughout (`kept`). A call ends with a set between
these two, which is empty only at the deadline. The mappings are next to the code
(`Promise` in `MuenYield`, `XenEvtchn` and `HostWait`). That the answer is right at
the step that ends the call is the components' invariant after that step; what is
left is that every other step is invisible, lets time pass or changes what is
ready. Muen implements it as it is; Xen, which has no network, unless a boot
loader's timer is left armed; spt since it waits on the clock the application
reads. hvt does not: it waits on the host's clock for a time computed with the
guest's (`DeadlineAlmostReached` bounds the difference), and on the BSDs a signal
ends the wait. virtio has no model of the time of its yield.

**XenEvtchn.** `EvtInv` consists of the type invariant; `CpuInv`: where the
thread and the handler can be together and with which interrupt flag;
`PortInv`: an unmasked port has a handler; `SleepInv`: what a sleeping yield
knows of its deadline and the timer; and the properties themselves.
`NoLostUpcall` is the delicate one: a pending unmasked port always has the
selector and an upcall, or somebody between the two steps that will set them.

**XenConsole.** What xenconsoled has printed and what is still in the ring are one
sequence: `Stream` is the output followed by the slots from `out_cons` to the
producer (`Ahead`), whatever the wrapping words are. `StreamInv` says that the
stream without the added carriage returns is the part of the text taken so far
(`Spells`), and that a line feed follows one carriage return, or two when the ring
filled up between them (`EndsTwice`): the next round then has room for the line
feed. This rests on `RoundInv`: every round of `console_write_some` finds the ring
empty or full, since xenconsoled takes all that is published. `Kept` counts
characters instead of filtering them, so that no induction over sequences is
needed. `ServeInv` is about waiting: what is in the ring has been notified
(`ToldInv`); `out_cons` has moved from the value loaded at the start by as much as
was taken (`CountInv`); and who finds the ring full has filled it (`FullInv`).

**PvClock.** `WriterInv` ties the version to the fields written (odd while an
update is under way), `ReaderInv` says that fields read while the version has
not moved are of the set in force.

Only model-checked:

- liveness (`EntryServed`, `CallsReturn`, `HaltCompletes`, `YieldReturns`,
  `YieldReports`, `EverySent`, `CallsComeBack`, `ReaderProgress`,
  `MuenYieldReturns`, `GuestProgress`): fairness is outside what the prover
  handles. Its safety core is proved where it could be stated: `NoLostKick`,
  `NoLostUpcall`, `TimerNotLost`, `WaitsServed`, and the kicks in `BuffersSound` and
  `QueueSound` say that nobody waits for what is not coming.

## 6. Where to go on

- Model: the hypercall path beside the ring; network acquire; `mem.c`; the vCPU
  exit loop; several devices in one virtio ready set; a block queue of 8, in
  which roles move in the other order.
- Prove: a form of `SoloYield` with a deadline that is met up to the rounding of
  two clocks, which hvt would implement.

## 7. Not modelled

About half of the source lines are the public headers of Xen
(`include/xen`): constants and structure layouts, of which the bindings use a
few dozen. Together with the vendored `json.h` and `queue.h`, `elf_abi.h` and the
other headers, `printf.c`, the tests and the build files, most of the tree holds
nothing that changes state. The models cover what does, file by file, and not
the tree by its size. Left out on purpose:

- formatting and string functions, the serial console, calendar arithmetic, stub
  bindings, the seccomp list: no shared or lasting state;
- ACPI and PCI: walks over tables of the firmware by port I/O;
- elftool: an offline conversion between JSON and C;
- core dumps: one file written at exit;
- `muen-sinfo.c` beyond the frame start: lookups in a constant table;
- start-up assembly, page tables, descriptor tables, exception entry: register
  contents that no property here speaks about;
- the FreeBSD, OpenBSD and aarch64 backends: they implement the interface that
  `HvtBoot` models for Linux on x86_64; their form of the wait is in `HostWait`;
- device initialisation of virtio and Muen: one pass of feature bits or
  resource lookups before any concurrency begins.

`PROJECT.json` has the reason for each component.
