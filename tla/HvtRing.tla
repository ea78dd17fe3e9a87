------------------------------- MODULE HvtRing -------------------------------
(***************************************************************************)
(* The shared-memory network ring of the hvt tender: the guest's vCPU      *)
(* (bindings/hvt/net.c) submits NET_WRITE and NET_READ entries, the host's *)
(* I/O thread (tenders/hvt/hvt_module_net.c) consumes them, and a kick     *)
(* through an ioeventfd wakes the thread when it sleeps.                   *)
(*                                                                         *)
(* Every word of struct hvt_ring has ONE writer, so the store buffer of    *)
(* its CPU is modelled per word: the writer's own value (suffix _g for the *)
(* guest, _h for the host) and the value in memory, which the other side   *)
(* reads and which follows at an arbitrary later time (the Flush actions). *)
(* hvt_mb() waits for the writer's words to reach memory.  Letting each    *)
(* word drain by itself allows every x86-TSO behaviour, and more.  Entries *)
(* and commits are stored straight to memory: both TSO and the hvt_wmb()   *)
(* before the index store make them visible before the index that          *)
(* publishes them.                                                         *)
(*                                                                         *)
(* A packet is named by the ring_req_id of the call that sent it, and so   *)
(* is what write_bufs[] holds: net.c fills the entry of a slot and the     *)
(* buffer of that slot together.  What a read found on the TAP device (ret *)
(* and len of its commit) decides nothing in the ring and is left out.     *)
(***************************************************************************)
EXTENDS Integers

CONSTANTS
    HVT_RING_SIZE,  \* slots of the ring (1024 in the code)
    Word            \* values of a uint32_t (2^32 in the code)

ASSUME RingAssumption ==
    /\ HVT_RING_SIZE \in Nat /\ HVT_RING_SIZE >= 2
    /\ Word \in Nat /\ Word > 0
    /\ \E k \in 1 .. Word : Word = k * HVT_RING_SIZE

VARIABLES
    ent_tail, ent_head, com_tail, needs_kick,  \* struct hvt_ring, in memory
    entries, commits,                          \* its arrays
    gpc, gop,        \* guest: where the vCPU is in net.c, for which request
    ent_tail_g,      \* guest: its own view of ent_tail
    com_head,        \* guest: com_head (the host never reads it)
    ring_req_id,     \* guest: id of the next request
    hpc,             \* I/O thread: where it is in io_thread_net_fn
    ent_head_h, com_tail_h, needs_kick_h,      \* I/O thread: its own views
    tail_snap, processed,                      \* locals of process_ring_commits
    kick_net_efd,    \* is the eventfd readable?
    io_thread_stop

memory == <<ent_tail, ent_head, com_tail, needs_kick>>
arrays == <<entries, commits>>
ring_g == <<ent_tail_g, com_head, ring_req_id>>
guest == <<gpc, gop, ring_g>>
ring_h == <<ent_head_h, com_tail_h, needs_kick_h>>
locals_h == <<tail_snap, processed>>
host == <<hpc, ring_h, locals_h>>
vars == <<memory, arrays, guest, host, kick_net_efd, io_thread_stop>>

-----------------------------------------------------------------------------
(* uint32_t arithmetic and the slot of an index.                           *)

Index == 0 .. Word - 1
Slots == 0 .. HVT_RING_SIZE - 1
Add(a, n) == (a + n) % Word
Sub(a, b) == (a - b) % Word
Slot(i) == i % HVT_RING_SIZE    \* i & HVT_RING_MASK

Ops == {"write", "read"}

Init ==
    /\ ent_tail = 0 /\ ent_head = 0 /\ com_tail = 0 /\ needs_kick = FALSE
    /\ entries = [s \in Slots |-> [op |-> "write", id |-> 0]]
    /\ commits = [s \in Slots |-> 0]   \* the id of each commit
    /\ gpc = "app" /\ gop = "write"
    /\ ent_tail_g = 0 /\ com_head = 0 /\ ring_req_id = 0
    /\ hpc = "top" /\ ent_head_h = 0 /\ com_tail_h = 0 /\ needs_kick_h = FALSE
    /\ tail_snap = 0 /\ processed = 0
    /\ kick_net_efd = FALSE /\ io_thread_stop = FALSE

-----------------------------------------------------------------------------
(* Store buffers.                                                          *)

FlushEntTail ==
    /\ ent_tail # ent_tail_g
    /\ ent_tail' = Add(ent_tail, 1)
    /\ UNCHANGED <<ent_head, com_tail, needs_kick, arrays, guest, host,
                   kick_net_efd, io_thread_stop>>

FlushEntHead ==
    /\ \E n \in 1 .. Sub(ent_head_h, ent_head) : ent_head' = Add(ent_head, n)
    /\ UNCHANGED <<ent_tail, com_tail, needs_kick, arrays, guest, host,
                   kick_net_efd, io_thread_stop>>

FlushComTail ==
    /\ com_tail # com_tail_h
    /\ com_tail' = Add(com_tail, 1)
    /\ UNCHANGED <<ent_tail, ent_head, needs_kick, arrays, guest, host,
                   kick_net_efd, io_thread_stop>>

FlushNeedsKick ==
    /\ needs_kick # needs_kick_h
    /\ needs_kick' = needs_kick_h
    /\ UNCHANGED <<ent_tail, ent_head, com_tail, arrays, guest, host,
                   kick_net_efd, io_thread_stop>>

HostDrained ==
    /\ ent_head = ent_head_h /\ com_tail = com_tail_h
    /\ needs_kick = needs_kick_h

-----------------------------------------------------------------------------
(* The guest.                                                              *)

GuestStep == UNCHANGED <<memory, host, io_thread_stop>>

(* Slots the guest believes in use: its own tail, the head it can see.     *)
Used == Sub(ent_tail_g, ent_head)

(* The application calls solo5_net_write or solo5_net_read.                *)
Call ==
    /\ gpc = "app" /\ gop' \in Ops
    /\ gpc' = IF gop' = "write" THEN "flow" ELSE "assert"
    /\ GuestStep /\ UNCHANGED <<arrays, ring_g, kick_net_efd>>

(* Mutant: no flow control in solo5_net_write.                             *)
WriteNoFlowControl ==
    /\ gpc = "flow" /\ gpc' \in {"fill", "app"}
    /\ GuestStep /\ UNCHANGED <<arrays, gop, ring_g, kick_net_efd>>

(* solo5_net_write spins while the ring is full; a frame larger than a     *)
(* slot's buffer then goes out by hypercall and the call returns.          *)
WriteFlowControl ==
    /\ gpc = "flow"
    /\ Used < HVT_RING_SIZE - 1
    /\ gpc' \in {"fill", "app"}
    /\ GuestStep /\ UNCHANGED <<arrays, gop, ring_g, kick_net_efd>>

(* solo5_net_read asserts that the ring is not full; a failed assertion    *)
(* aborts the application, which halts the vCPU as an exit does.           *)
ReadAssert ==
    /\ gpc = "assert"
    /\ gpc' = IF Used < HVT_RING_SIZE - 1 THEN "fill" ELSE "halt"
    /\ GuestStep /\ UNCHANGED <<arrays, gop, ring_g, kick_net_efd>>

(* A write copies its packet into the slot's buffer; both fill the entry.  *)
FillEntry ==
    /\ gpc = "fill" /\ gpc' = "submit"
    /\ entries' = [entries EXCEPT ![Slot(ent_tail_g)] =
                      [op |-> gop, id |-> ring_req_id]]
    /\ ring_req_id' = Add(ring_req_id, 1)
    /\ GuestStep /\ UNCHANGED <<commits, gop, ent_tail_g, com_head,
                                kick_net_efd>>

(* ring_submit: publish the entry, full barrier, kick if asked to.         *)
Submit ==
    /\ gpc = "submit" /\ gpc' = "fence"
    /\ ent_tail_g' = Add(ent_tail_g, 1)
    /\ GuestStep /\ UNCHANGED <<arrays, gop, com_head, ring_req_id, kick_net_efd>>

(* Mutant: ring_submit without its hvt_mb().                               *)
SubmitNoFence ==
    /\ gpc = "fence" /\ gpc' = "check"
    /\ GuestStep /\ UNCHANGED <<arrays, gop, ring_g, kick_net_efd>>

SubmitFence ==
    /\ gpc = "fence" /\ gpc' = "check"
    /\ ent_tail = ent_tail_g
    /\ GuestStep /\ UNCHANGED <<arrays, gop, ring_g, kick_net_efd>>

Submitted == IF gop = "write" THEN "app" ELSE "wait"

SubmitCheck ==
    /\ gpc = "check"
    /\ gpc' = IF needs_kick THEN "kick" ELSE Submitted
    /\ GuestStep /\ UNCHANGED <<arrays, gop, ring_g, kick_net_efd>>

SubmitKick ==
    /\ gpc = "kick" /\ gpc' = Submitted
    /\ kick_net_efd' = TRUE
    /\ GuestStep /\ UNCHANGED <<arrays, gop, ring_g>>

(* Mutant: solo5_net_read forgets com_head++.                              *)
ReadReturnNoAdvance ==
    /\ gpc = "wait" /\ gpc' = "app"
    /\ com_head # com_tail
    /\ GuestStep /\ UNCHANGED <<arrays, gop, ring_g, kick_net_efd>>

(* ring_wait_commit and the rest of solo5_net_read.  The commit is dead    *)
(* once com_head has passed it; forgetting its id keeps states few.        *)
ReadReturn ==
    /\ gpc = "wait" /\ gpc' = "app"
    /\ com_head # com_tail
    /\ com_head' = Add(com_head, 1)
    /\ commits' = [commits EXCEPT ![Slot(com_head)] = 0]
    /\ GuestStep /\ UNCHANGED <<entries, gop, ent_tail_g, ring_req_id,
                                kick_net_efd>>

(* The application exits; the halt hypercall runs kill_net_pthread on the  *)
(* vCPU's thread: raise the flag, wake the I/O thread, join it.            *)
Exit ==
    /\ gpc = "app" /\ gpc' = "halt"
    /\ GuestStep /\ UNCHANGED <<arrays, gop, ring_g, kick_net_efd>>

KillStop ==
    /\ gpc = "halt" /\ gpc' = "kill_kick"
    /\ io_thread_stop' = TRUE
    /\ UNCHANGED <<memory, arrays, gop, ring_g, host, kick_net_efd>>

(* Mutant: kill_net_pthread does not write to the eventfd.                 *)
KillNoKick ==
    /\ gpc = "kill_kick" /\ gpc' = "kill_join"
    /\ GuestStep /\ UNCHANGED <<arrays, gop, ring_g, kick_net_efd>>

KillKick ==
    /\ gpc = "kill_kick" /\ gpc' = "kill_join"
    /\ kick_net_efd' = TRUE
    /\ GuestStep /\ UNCHANGED <<arrays, gop, ring_g>>

KillJoin ==
    /\ gpc = "kill_join" /\ gpc' = "halted"
    /\ hpc = "exited"
    /\ GuestStep /\ UNCHANGED <<arrays, gop, ring_g, kick_net_efd>>

-----------------------------------------------------------------------------
(* The I/O thread: io_thread_net_fn.                                       *)

HostStep == UNCHANGED <<memory, entries, guest, io_thread_stop>>

LoopTop ==
    /\ hpc = "top"
    /\ hpc' = IF io_thread_stop THEN "exited" ELSE "poll"
    /\ HostStep /\ UNCHANGED <<commits, ring_h, locals_h, kick_net_efd>>

(* Adaptive polling: an iteration that sees work, or the last one that     *)
(* does not; the other iterations change nothing.                          *)
Poll ==
    /\ hpc = "poll"
    /\ hpc' = IF ent_head_h # ent_tail THEN "process" ELSE "arm"
    /\ HostStep /\ UNCHANGED <<commits, ring_h, locals_h, kick_net_efd>>

(* needs_kick = 1.  The thread loads nothing between this store and the    *)
(* barrier, so an older store of the flag may as well drain first.         *)
Arm ==
    /\ hpc = "arm" /\ hpc' = "mb"
    /\ needs_kick = needs_kick_h
    /\ needs_kick_h' = TRUE
    /\ HostStep /\ UNCHANGED <<commits, ent_head_h, com_tail_h, locals_h,
                               kick_net_efd>>

ArmFence ==
    /\ hpc = "mb" /\ hpc' = "recheck"
    /\ HostDrained
    /\ HostStep /\ UNCHANGED <<commits, ring_h, locals_h, kick_net_efd>>

(* Mutant: the thread sleeps without looking at the ring again.            *)
NoRecheck ==
    /\ hpc = "recheck" /\ hpc' = "block"
    /\ HostStep /\ UNCHANGED <<commits, ring_h, locals_h, kick_net_efd>>

Recheck ==
    /\ hpc = "recheck"
    /\ hpc' = IF ent_head_h = ent_tail THEN "block" ELSE "disarm"
    /\ HostStep /\ UNCHANGED <<commits, ring_h, locals_h, kick_net_efd>>

(* read(nfd) returns and resets the eventfd's counter ...                  *)
Wake ==
    /\ hpc = "block" /\ hpc' = "disarm"
    /\ kick_net_efd /\ kick_net_efd' = FALSE
    /\ HostStep /\ UNCHANGED <<commits, ring_h, locals_h>>

(* ... or fails with EINTR: continue, with needs_kick still set.           *)
Interrupted ==
    /\ hpc = "block" /\ hpc' = "top"
    /\ HostStep /\ UNCHANGED <<commits, ring_h, locals_h, kick_net_efd>>

Disarm ==
    /\ hpc = "disarm" /\ hpc' = "process"
    /\ needs_kick_h' = FALSE
    /\ HostStep /\ UNCHANGED <<commits, ent_head_h, com_tail_h, locals_h,
                               kick_net_efd>>

(* process_ring_commits.                                                   *)
Snapshot ==
    /\ hpc = "process" /\ hpc' = "batch"
    /\ tail_snap' = ent_tail
    /\ processed' = 0
    /\ HostStep /\ UNCHANGED <<commits, ring_h, kick_net_efd>>

Next_ent == Add(ent_head_h, processed)
Current == entries[Slot(Next_ent)]

(* A NET_WRITE of the batch: the packet Current.id goes to the TAP device. *)
BatchWrite ==
    /\ hpc = "batch" /\ Next_ent # tail_snap
    /\ Current.op = "write"
    /\ processed' = Add(processed, 1)
    /\ HostStep /\ UNCHANGED <<commits, hpc, ring_h, tail_snap, kick_net_efd>>

(* Mutant: the flush before a read stops one entry short.                  *)
BatchFlushShort ==
    /\ hpc = "batch"
    /\ processed > 0
    /\ Next_ent = tail_snap \/ Current.op = "read"
    /\ ent_head_h' = Add(ent_head_h, processed - 1)
    /\ processed' = 0
    /\ HostStep /\ UNCHANGED <<commits, hpc, com_tail_h, needs_kick_h, tail_snap,
                               kick_net_efd>>

(* A NET_READ ends the batch: flush ent_head, then process_read_entry      *)
(* reads the TAP device and posts the outcome, or the end of the batch.    *)
BatchFlush ==
    /\ hpc = "batch"
    /\ processed > 0
    /\ Next_ent = tail_snap \/ Current.op = "read"
    /\ ent_head_h' = Next_ent
    /\ processed' = 0
    /\ HostStep /\ UNCHANGED <<commits, hpc, com_tail_h, needs_kick_h, tail_snap,
                               kick_net_efd>>

PostCommit ==
    /\ hpc = "batch" /\ hpc' = "com_tail"
    /\ processed = 0 /\ ent_head_h # tail_snap
    /\ Current.op = "read"
    /\ commits' = [commits EXCEPT ![Slot(com_tail_h)] = Current.id]
    /\ HostStep /\ UNCHANGED <<ring_h, locals_h, kick_net_efd>>

(* Mutant: process_read_entry does not publish its commit.                 *)
NoBumpComTail ==
    /\ hpc = "com_tail" /\ hpc' = "ent_head"
    /\ HostStep /\ UNCHANGED <<commits, ring_h, locals_h, kick_net_efd>>

BumpComTail ==
    /\ hpc = "com_tail" /\ hpc' = "ent_head"
    /\ com_tail_h' = Add(com_tail_h, 1)
    /\ HostStep /\ UNCHANGED <<commits, ent_head_h, needs_kick_h, locals_h,
                               kick_net_efd>>

BumpEntHead ==
    /\ hpc = "ent_head" /\ hpc' = "batch"
    /\ ent_head_h' = Add(ent_head_h, 1)
    /\ HostStep /\ UNCHANGED <<commits, com_tail_h, needs_kick_h, locals_h,
                               kick_net_efd>>

BatchDone ==
    /\ hpc = "batch" /\ hpc' = "top"
    /\ processed = 0 /\ ent_head_h = tail_snap
    /\ HostStep /\ UNCHANGED <<commits, ring_h, locals_h, kick_net_efd>>

-----------------------------------------------------------------------------
Flush == FlushEntTail \/ FlushEntHead \/ FlushComTail \/ FlushNeedsKick

(* What the vCPU does inside a call or a hypercall, that is without the    *)
(* application deciding anything.                                          *)
GuestRuns ==
    \/ WriteFlowControl \/ ReadAssert \/ FillEntry
    \/ Submit \/ SubmitFence \/ SubmitCheck \/ SubmitKick \/ ReadReturn
    \/ KillStop \/ KillKick \/ KillJoin

HostRuns ==
    \/ LoopTop \/ Poll \/ Arm \/ ArmFence \/ Recheck \/ Wake \/ Disarm
    \/ Snapshot \/ BatchWrite \/ BatchFlush
    \/ PostCommit \/ BumpComTail \/ BumpEntHead \/ BatchDone

(* The tender has exited: nothing runs any more.                           *)
Halted == gpc = "halted" /\ UNCHANGED vars

Next == Call \/ Exit \/ GuestRuns \/ HostRuns \/ Interrupted \/ Flush \/ Halted

(* Both threads are scheduled by the host kernel and store buffers drain;  *)
(* the application need not call, and no signal need arrive.               *)
Fairness ==
    /\ WF_vars(GuestRuns) /\ WF_vars(HostRuns)
    /\ WF_vars(FlushEntTail) /\ WF_vars(FlushEntHead)
    /\ WF_vars(FlushComTail) /\ WF_vars(FlushNeedsKick)

Spec == Init /\ [][Next]_vars
FairSpec == Spec /\ Fairness

-----------------------------------------------------------------------------
(* Properties.                                                             *)

GuestPcs == {"app", "flow", "assert", "fill", "submit", "fence", "check",
             "kick", "wait", "halt", "kill_kick", "kill_join", "halted"}
HostPcs == {"top", "poll", "arm", "mb", "recheck", "block", "disarm",
            "process", "batch", "com_tail", "ent_head", "exited"}

(* Type invariant: every word of struct hvt_ring stays a uint32_t, every   *)
(* entry and commit is well formed, and a batch of process_ring_commits    *)
(* never counts a whole ring.                                              *)
TypeOK ==
    /\ ent_tail \in Index /\ ent_head \in Index /\ com_tail \in Index
    /\ ent_tail_g \in Index /\ com_head \in Index /\ ring_req_id \in Index
    /\ ent_head_h \in Index /\ com_tail_h \in Index /\ tail_snap \in Index
    /\ needs_kick \in BOOLEAN /\ needs_kick_h \in BOOLEAN
    /\ kick_net_efd \in BOOLEAN /\ io_thread_stop \in BOOLEAN
    /\ entries \in [Slots -> [op : Ops, id : Index]]
    /\ commits \in [Slots -> Index]
    /\ gpc \in GuestPcs /\ gop \in Ops /\ hpc \in HostPcs
    /\ processed \in 0 .. HVT_RING_SIZE - 1

(* Indices submitted by the guest that the I/O thread has not taken yet.   *)
IsPending(i) == Sub(i, Next_ent) < Sub(ent_tail_g, Next_ent)

(* Slot integrity: a pending entry, and the packet buffer of a pending     *)
(* write, still hold what its own call stored there, however stale the     *)
(* ent_head that the flow control of solo5_net_write and the assertion of  *)
(* solo5_net_read looked at, and across the wrap of the 32-bit indices.    *)
SlotIntegrity ==
    \A i \in Index : IsPending(i) => entries[Slot(i)].id = i

(* solo5_net_read never looks at commit->id: the commit it takes must be   *)
(* the one of its own request all the same, and the only one there is.     *)
ReplyMatchesRequest ==
    /\ Sub(com_tail_h, com_head) <= 1
    /\ gpc = "wait" /\ com_head # com_tail =>
          commits[Slot(com_head)] = Sub(ring_req_id, 1)

(* No lost kick: when the I/O thread sleeps on an eventfd nobody has       *)
(* signalled, an entry can only be pending while ring_submit is still      *)
(* between its store of ent_tail and its kick.  This is what the hvt_mb()  *)
(* on each side is for.                                                    *)
NoLostKick ==
    hpc = "block" /\ ~kick_net_efd /\ ent_head_h # ent_tail_g =>
        gpc \in {"fence", "check", "kick"}

(* The comment and the assertion at the head of solo5_net_read: "The ring  *)
(* cannot be full here unless there is a bug in the write batching logic." *)
RingNotFullAtRead == gpc = "assert" => Used < HVT_RING_SIZE - 1

(* Every submitted entry is taken by the I/O thread, unless the guest      *)
(* halts first (kill_net_pthread does not wait for the ring to empty).     *)
EntryServed ==
    \A i \in Index : IsPending(i) ~> ~IsPending(i) \/ io_thread_stop

(* solo5_net_read and solo5_net_write return: the spins on com_tail and on *)
(* ent_head both end.                                                      *)
CallsReturn == gpc \in {"flow", "wait"} ~> gpc \notin {"flow", "wait"}

(* Halting the guest terminates the I/O thread wherever it is, asleep      *)
(* included, so that pthread_join in kill_net_pthread returns.             *)
HaltCompletes == gpc = "halt" ~> gpc = "halted"

-----------------------------------------------------------------------------
(* The inductive invariant behind the properties.  Everything is measured  *)
(* from the ent_head in memory, the oldest index either side still uses.   *)

Dist(i) == Sub(i, ent_head)
InRead == gop = "read" /\ gpc \in {"fence", "check", "kick", "wait"}

(* ent_head <= ent_head_h + processed <= tail_snap <= ent_tail <=          *)
(* ent_tail_g around the ring, and a slot is always left free.             *)
OrderInv ==
    /\ Dist(ent_head_h) + processed <= Dist(ent_tail)
    /\ Dist(ent_tail) <= Dist(ent_tail_g)
    /\ Dist(ent_tail_g) <= HVT_RING_SIZE - 1
    /\ gpc \in {"fill", "submit"} => Dist(ent_tail_g) < HVT_RING_SIZE - 1
    /\ gpc # "fence" => ent_tail = ent_tail_g
    /\ hpc # "batch" => processed = 0
    /\ hpc \in {"batch", "com_tail", "ent_head"} =>
          /\ Dist(ent_head_h) + processed <= Dist(tail_snap)
          /\ Dist(tail_snap) <= Dist(ent_tail)
    /\ hpc \in {"com_tail", "ent_head"} => ent_head_h # tail_snap

(* Every slot from the visible ent_head on holds its own entry.            *)
EntryInv ==
    /\ ring_req_id = IF gpc = "submit" THEN Add(ent_tail_g, 1) ELSE ent_tail_g
    /\ \A i \in Index :
          Dist(i) < Dist(ent_tail_g) => entries[Slot(i)].id = i
    /\ gpc = "submit" => entries[Slot(ent_tail_g)] =
                            [op |-> gop, id |-> ent_tail_g]

(* An unserved read is the last entry of a guest that waits for it, and a  *)
(* commit not yet returned is the answer to that last entry.               *)
CommitInv ==
    /\ \A i \in Index :
          /\ Dist(ent_head_h) + processed <= Dist(i)
          /\ Dist(i) < Dist(ent_tail_g)
          /\ entries[Slot(i)].op = "read"
          /\ ~(hpc = "ent_head" /\ i = ent_head_h)
          => InRead /\ Add(i, 1) = ent_tail_g /\ com_tail_h = com_head
    /\ hpc = "com_tail" =>
          /\ entries[Slot(ent_head_h)].op = "read"
          /\ commits[Slot(com_head)] = ent_head_h
    /\ com_tail_h # com_head =>
          /\ InRead /\ com_tail_h = Add(com_head, 1)
          /\ Add(commits[Slot(com_head)], 1) = ent_tail_g
    /\ com_tail \in {com_head, com_tail_h}

KickInv ==
    /\ hpc \in {"mb", "recheck", "block"} => needs_kick_h
    /\ hpc \in {"recheck", "block"} => needs_kick
    /\ NoLostKick

(* The whole: with it each step of the guest, of the I/O thread and of the *)
(* two store buffers can be judged by itself.                              *)
IInv == TypeOK /\ OrderInv /\ EntryInv /\ CommitInv /\ KickInv

=============================================================================
