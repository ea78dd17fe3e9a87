---------------------------- MODULE Tender_proof ----------------------------
(***************************************************************************)
(* A guest with its tender, for every value of the constants.              *)
(*                                                                         *)
(* First the parts whose proofs have no module of their own: no block      *)
(* request, through the bindings or not, reaches a byte outside the        *)
(* backing storage, and block calls end as they should; a debugger's       *)
(* breakpoints are hit and its traces removed.  Then the composition: its  *)
(* steps are steps of a part or leave that part alone, so that what is     *)
(* proved of the parts holds of it.                                        *)
(***************************************************************************)
EXTENDS Tender, TenderParts_proof

-----------------------------------------------------------------------------
(* Block storage: staying within bounds.                                   *)

(* What the guest asks is in words; a device that was attached holds at    *)
(* least a block; and a request that got past the checks of the tender or  *)
(* of the filter ends within the storage.                                  *)
BlockInv ==
    /\ capacity \in 0 .. SSizeMax /\ block_size \in Nat
    /\ req.offset \in Nat /\ req.len \in Nat
    /\ blk \notin {"attach", "exited"} => block_size > 0 /\ block_size <= capacity
    /\ blk = "io" => req.offset + req.len <= capacity
    /\ BlockInBounds

(* The last block a request may start at is exact.                         *)
LEMMA LastBlockExact ==
    ASSUME BlockInv, block_size <= capacity PROVE LastBlock = capacity - block_size
<1>1. capacity \in Nat /\ block_size \in Nat /\ Word \in Nat \ {0} /\ capacity < Word
  BY BlockAssumption DEF BlockInv, SSizeMax
<1>2. \A x \in Nat : x < Word => x % Word = x
  BY <1>1
<1> QED
  BY <1>1, <1>2 DEF LastBlock

(* A file that has been opened satisfies the invariant.                    *)
LEMMA BlockInitInv == BlockInit => BlockInv
<1> SUFFICES ASSUME BlockInit PROVE BlockInv
  OBVIOUS
<1>1. capacity \in 0 .. SSizeMax /\ block_size \in Nat
  BY BlockAssumption DEF BlockInit
<1>2. BlockInBounds
  BY <1>1 DEF BlockInit, BlockInBounds, NoIo
<1> QED
  BY <1>1, <1>2 DEF BlockInit, BlockInv, NoReq

(* A new request is in words.                                              *)
LEMMA BlockCallInv ==
    ASSUME NEW r, r.offset \in Nat, r.len \in Nat, BlockInv, BlockCall(r) PROVE BlockInv'
<1>1. capacity \in Nat
  BY BlockAssumption DEF BlockInv, SSizeMax
<1>2. BlockInBounds'
  BY <1>1 DEF BlockCall, BlockInv, BlockInBounds, NoIo
<1>3. blk' \in {"host", "bindings"} /\ blk = "app"
  BY DEF BlockCall
<1> QED
  BY <1>2, <1>3 DEF BlockCall, BlockInv

(* The checks, and the transfer, keep every request inside the storage.    *)
LEMMA HostInv ==
    ASSUME BlockInv,
           \/ BlockSetup \/ Bindings \/ HvtDispatch \/ SptSyscall
           \/ \E n \in 0 .. req.len : Transfer(n)
           \/ BlockReturn \/ BlockStopped \/ UNCHANGED blkVars
    PROVE  BlockInv'
<1>t. capacity \in Nat /\ block_size \in Nat /\ req.offset \in Nat /\ req.len \in Nat
  BY BlockAssumption DEF BlockInv, SSizeMax
<1>1. CASE BlockSetup
  <2>1. BlockInBounds'
    BY <1>1 DEF BlockSetup, BlockInv, BlockInBounds
  <2>2. block_size' \in Nat \ {0}
    BY <1>1, <1>t, BlockAssumption DEF BlockSetup
  <2>3. blk' # "exited" => capacity >= block_size'
    BY <1>1 DEF BlockSetup, CapacityFits
  <2>4. blk' \in {"app", "exited"} /\ UNCHANGED <<capacity, req>>
    BY <1>1 DEF BlockSetup
  <2> QED
    BY <1>t, <2>1, <2>2, <2>3, <2>4 DEF BlockInv
<1>2. CASE Bindings
  BY <1>2 DEF Bindings, BlockInv, BlockInBounds
<1>3. CASE HvtDispatch
  <2>1. blk' = "io" => req.offset + req.len <= capacity
    BY <1>3, <1>t DEF HvtDispatch, HvtRefuses
  <2>2. UNCHANGED <<capacity, block_size, disk, req, io>> /\ blk = "host"
    BY <1>3 DEF HvtDispatch
  <2> QED
    BY <2>1, <2>2 DEF BlockInv, BlockInBounds
<1>4. CASE SptSyscall
  <2>0. block_size <= capacity
    BY <1>4 DEF SptSyscall, BlockInv
  <2>1. blk' = "io" => req.len = block_size /\ req.offset <= capacity - block_size
    BY <1>4, <2>0, LastBlockExact DEF SptSyscall, FilterAllows
  <2>2. UNCHANGED <<capacity, block_size, disk, req, io>> /\ blk = "host"
    BY <1>4 DEF SptSyscall
  <2> QED
    BY <1>t, <2>1, <2>2 DEF BlockInv, BlockInBounds
<1>5. CASE \E n \in 0 .. req.len : Transfer(n)
  <2>1. PICK n \in 0 .. req.len : Transfer(n)
    BY <1>5
  <2>2. req.offset + req.len <= capacity /\ blk = "io" /\ DOMAIN disk = 0 .. capacity - 1
    BY <2>1 DEF Transfer, BlockInv, BlockInBounds
  <2>3. io'.pos + io'.len <= capacity
    BY <2>1, <2>2 DEF Transfer
  <2>4. DOMAIN disk' = 0 .. capacity - 1
    <3>1. req.offset .. req.offset + n - 1 \subseteq 0 .. capacity - 1
      BY <1>t, <2>2
    <3>2. DOMAIN Overwrite(disk, req.offset, n, req.value) = 0 .. capacity - 1
      BY <2>2, <3>1 DEF Overwrite
    <3> QED
      BY <2>1, <2>2, <3>2 DEF Transfer
  <2>5. UNCHANGED <<capacity, block_size, req>> /\ blk' \in {"done", "exited"}
    BY <2>1 DEF Transfer
  <2> QED
    BY <2>2, <2>3, <2>4, <2>5 DEF BlockInv, BlockInBounds
<1>6. CASE BlockReturn
  BY <1>6, <1>t DEF BlockReturn, BlockInv, BlockInBounds, NoReq, NoIo
<1>7. CASE BlockStopped \/ UNCHANGED blkVars
  BY <1>7 DEF BlockStopped, blkVars, BlockInv, BlockInBounds
<1> QED
  BY <1>1, <1>2, <1>3, <1>4, <1>5, <1>6, <1>7

-----------------------------------------------------------------------------
(* Block storage: how the calls of solo5.h end.                            *)

(* A request for one whole aligned block of a block device.                *)
Valid ==
    /\ req.handle \in Entries("BLOCK_BASIC")
    /\ req.len = block_size /\ req.offset % block_size = 0
    /\ req.offset + req.len <= capacity

(* A write has written the beginning of its block, all of it if it         *)
(* succeeded, and nothing else.                                            *)
Written ==
    /\ \A i \in DOMAIN disk \ (req.offset .. req.offset + req.len - 1) : disk[i] = before[i]
    /\ \E n \in 0 .. req.len :
          /\ ret = "OK" => n = req.len
          /\ \A i \in req.offset .. req.offset + req.len - 1 :
                disk[i] = IF i < req.offset + n THEN req.value ELSE before[i]

(* What a call that is over has done, as BlockCallKept says it.            *)
Served ==
    /\ Valid <=> ret # "EINVAL"
    /\ blk = IF ret = "EUNSPEC" /\ target # "spt" THEN "exited" ELSE "done"
    /\ ret = "EINVAL" \/ req.op = "read" => disk = before
    /\ ret = "OK" /\ req.op = "read" =>
          data = [i \in 1 .. req.len |-> disk[req.offset + i - 1]]
    /\ ret # "EINVAL" /\ req.op = "write" => Written


(* Until the transfer nothing has happened, and a request that the         *)
(* bindings let pass is valid but for the bound that hvt leaves to the     *)
(* tender.                                                                 *)
PromiseInv ==
    /\ BlockTypeOK
    /\ blk = "attach" => req = NoReq
    /\ blk \in {"attach", "app", "bindings", "host", "io"} => ret = "NONE"
    /\ blk \in {"bindings", "host", "io"} => before = disk
    /\ blk = "host" /\ ~req.raw =>
          /\ req.handle \in Entries("BLOCK_BASIC")
          /\ req.len = block_size /\ req.offset % block_size = 0
          /\ target = "spt" => req.offset <= LastBlock
    /\ blk = "io" /\ ~req.raw => Valid
    /\ ret # "NONE" => block_size > 0
    /\ ret # "NONE" /\ ~req.raw => Served
    /\ GuestSurvives

(* Nothing has been promised before the device is attached.                *)
LEMMA PromiseInitInv == BlockInit => PromiseInv
<1> SUFFICES ASSUME BlockInit PROVE PromiseInv
  OBVIOUS
<1>1. capacity \in 0 .. SSizeMax /\ block_size \in 0 .. SSizeMax
  <2>1. SSizeMax \in Int
    BY BlockAssumption DEF SSizeMax
  <2>2. capacity \in 0 .. SSizeMax /\ (block_size \in 1 .. SSizeMax \/ block_size = 0)
    BY BlockAssumption DEF BlockInit
  <2> QED
    BY <2>1, <2>2
<1> QED
  BY <1>1 DEF BlockInit, PromiseInv, BlockTypeOK, GuestSurvives

(* A new request starts with nothing done.                                 *)
LEMMA PromiseCallInv ==
    ASSUME NEW r, BlockInv, PromiseInv, BlockCall(r), UNCHANGED <<target, mft>> PROVE PromiseInv'
BY DEF BlockCall, PromiseInv, BlockTypeOK, GuestSurvives

(* The checks of the bindings, of the tender and of the filter together    *)
(* refuse exactly what is not valid, and the transfer does what was asked. *)
LEMMA PromiseHostInv ==
    ASSUME BlockInv, PromiseInv, UNCHANGED <<target, mft>>,
           \/ BlockSetup \/ Bindings \/ HvtDispatch \/ SptSyscall
           \/ \E n \in 0 .. req.len : Transfer(n)
           \/ BlockReturn \/ BlockStopped \/ UNCHANGED blkVars
    PROVE  PromiseInv'
<1>t. /\ SSizeMax \in Int /\ capacity \in Nat /\ capacity <= SSizeMax /\ block_size \in Nat
      /\ req.offset \in Nat /\ req.len \in Nat
  BY BlockAssumption DEF BlockInv, SSizeMax
<1>1. CASE BlockSetup
  <2>1. block_size' \in 0 .. SSizeMax
    BY <1>1, <1>t, BlockAssumption DEF BlockSetup, PromiseInv, BlockTypeOK
  <2> QED
    BY <1>1, <2>1 DEF BlockSetup, PromiseInv, BlockTypeOK, GuestSurvives
<1>2. CASE Bindings
  <2>0. block_size > 0 /\ block_size <= capacity /\ LastBlock = capacity - block_size
    BY <1>2, <1>t, LastBlockExact DEF Bindings, BlockInv
  <2>1. CASE \/ ~mft_get_by_index(req.handle, "BLOCK_BASIC")
             \/ Misaligned \/ req.len # block_size \/ PastEnd
    <3>1. ~Valid
      BY <1>t, <2>0, <2>1 DEF Valid, mft_get_by_index, Entries, Misaligned, PastEnd
    <3>2. /\ ret' = "EINVAL" /\ blk' = "done" /\ disk = before
          /\ UNCHANGED <<capacity, block_size, disk, req, before>>
      BY <1>2, <2>1, SMTT(30) DEF Bindings, PromiseInv
    <3>3. ~Valid'
      BY <3>1, <3>2, SMTT(30) DEF Valid, Entries
    <3>4. Served'
      BY <3>2, <3>3, SMTT(30) DEF Served
    <3> QED
      BY <2>0, <3>2, <3>4, SMTT(30) DEF PromiseInv, BlockTypeOK, GuestSurvives
  <2>2. CASE ~(\/ ~mft_get_by_index(req.handle, "BLOCK_BASIC")
               \/ Misaligned \/ req.len # block_size \/ PastEnd)
    <3>1. /\ ret' = ret /\ blk' = "host" /\ blk = "bindings"
          /\ UNCHANGED <<capacity, block_size, disk, req, before>>
      BY <1>2, <2>2, SMTT(30) DEF Bindings
    <3>2. /\ req.handle \in Entries("BLOCK_BASIC")
          /\ req.len = block_size /\ req.offset % block_size = 0
          /\ target = "spt" => req.offset <= LastBlock
      BY <1>t, <2>0, <2>2 DEF mft_get_by_index, Entries, Misaligned, PastEnd
    <3> QED
      BY <3>1, <3>2 DEF PromiseInv, BlockTypeOK, GuestSurvives, Entries, LastBlock
  <2> QED
    BY <2>1, <2>2
<1>3. CASE HvtDispatch
  <2>0. block_size > 0 /\ block_size <= capacity
    BY <1>3, <1>t DEF HvtDispatch, BlockInv
  <2>1. /\ UNCHANGED <<capacity, block_size, disk, req, before, data>> /\ blk = "host"
        /\ blk' = (IF Entries("BLOCK_BASIC") = {} THEN "exited"
                   ELSE IF HvtRefuses THEN "done" ELSE "io")
        /\ ret' = IF blk' = "done" THEN "EINVAL" ELSE ret
    BY <1>3, SMTT(30) DEF HvtDispatch
  <2>2. ASSUME ~req.raw PROVE /\ blk' # "exited" /\ (blk' = "io" => Valid)
                              /\ blk' = "done" => ~Valid
    <3>1. /\ req.handle \in Entries("BLOCK_BASIC") /\ mft_get_by_index(req.handle, "BLOCK_BASIC")
          /\ req.len = block_size /\ req.offset % block_size = 0
      BY <2>1, <2>2 DEF PromiseInv, mft_get_by_index, Entries
    <3>2. HvtRefuses <=> req.offset + req.len > capacity
      BY <1>t, <2>0, <3>1 DEF HvtRefuses, AddOverflow
    <3> QED
      BY <1>t, <2>0, <2>1, <3>1, <3>2 DEF Valid
  <2>3. Valid' <=> Valid
    BY <2>1 DEF Valid, Entries
  <2>4. ret' # "NONE" /\ ~req.raw => Served'
    <3>1. ret = "NONE" /\ disk = before
      BY <2>1 DEF PromiseInv
    <3> QED
      BY Zenon, <2>1, <2>2, <2>3, <3>1 DEF Served
  <2>5. GuestSurvives'
    BY <2>1, <2>2 DEF GuestSurvives
  <2>6. BlockTypeOK'
    BY <2>1 DEF BlockTypeOK, PromiseInv
  <2> QED
    BY <2>0, <2>1, <2>2, <2>3, <2>4, <2>5, <2>6 DEF PromiseInv
<1>4. CASE SptSyscall
  <2>0. block_size > 0 /\ block_size <= capacity /\ LastBlock = capacity - block_size
    BY <1>4, <1>t, LastBlockExact DEF SptSyscall, BlockInv
  <2>1. /\ UNCHANGED <<capacity, block_size, disk, req, before, data, ret>> /\ blk = "host"
        /\ blk' = (IF FilterAllows THEN "io" ELSE "killed") /\ target = "spt"
    BY <1>4 DEF SptSyscall
  <2>2. ASSUME ~req.raw PROVE FilterAllows /\ Valid
    <3>1. /\ req.handle \in Entries("BLOCK_BASIC")
          /\ req.len = block_size /\ req.offset % block_size = 0 /\ req.offset <= LastBlock
      BY <2>1, <2>2 DEF PromiseInv
    <3>2. req.offset + req.len <= capacity
      BY <1>t, <2>0, <3>1
    <3> QED
      BY Zenon, <3>1, <3>2 DEF Valid, FilterAllows, mft_get_by_index, Entries
  <2>3. Valid' <=> Valid
    BY Zenon, <2>1 DEF Valid, Entries
  <2> QED
    BY <2>1, <2>2, <2>3 DEF PromiseInv, BlockTypeOK, GuestSurvives
<1>5. CASE \E n \in 0 .. req.len : Transfer(n)
  <2>1. PICK n \in 0 .. req.len : Transfer(n)
    BY <1>5
  <2>2. /\ UNCHANGED <<capacity, block_size, req, before>> /\ blk = "io" /\ disk = before
        /\ ret' = (IF n = req.len THEN "OK" ELSE "EUNSPEC")
        /\ blk' = IF n = req.len \/ target = "spt" THEN "done" ELSE "exited"
        /\ IF req.op = "write"
           THEN disk' = Overwrite(disk, req.offset, n, req.value) /\ data' = data
           ELSE disk' = disk /\ data' = [i \in 1 .. n |-> disk[req.offset + i - 1]]
    BY <2>1 DEF Transfer, PromiseInv
  <2>3. Valid' <=> Valid
    BY Zenon, <2>2 DEF Valid, Entries
  <2>4. ASSUME ~req.raw PROVE Served'
    <3>1. Valid'
      BY <2>2, <2>3, <2>4 DEF PromiseInv
    <3>2. ret' # "EINVAL"
      BY <2>2
    <3>3. req'.op = "read" => disk' = before'
      BY <2>2
    <3>4. ret' = "OK" /\ req'.op = "read" =>
             data' = [i \in 1 .. req'.len |-> disk'[req'.offset + i - 1]]
      BY <2>2
    <3>5. req'.op = "write" => Written'
      <4> SUFFICES ASSUME req.op = "write" PROVE Written'
        BY Zenon, <2>2
      <4>1. disk' = Overwrite(disk, req.offset, n, req.value) /\ n \in 0 .. req.len
        BY <2>1, <2>2
      <4>2. \A i \in DOMAIN disk' \ (req.offset .. req.offset + req.len - 1) : disk'[i] = before[i]
        BY <1>t, <2>2, <4>1 DEF Overwrite
      <4>3. req.offset .. req.offset + req.len - 1 \subseteq DOMAIN disk
        BY <1>t, <2>2 DEF BlockInv, BlockInBounds
      <4>4. \A i \in req.offset .. req.offset + req.len - 1 :
               disk'[i] = IF i < req.offset + n THEN req.value ELSE before[i]
        BY <1>t, <2>2, <4>1, <4>3 DEF Overwrite
      <4>5. ret' = "OK" => n = req.len
        BY <2>2
      <4> QED
        BY <2>2, <4>1, <4>2, <4>4, <4>5 DEF Written
    <3>6. blk' = IF ret' = "EUNSPEC" /\ target' # "spt" THEN "exited" ELSE "done"
      BY <2>2
    <3> QED
      BY Zenon, <3>1, <3>2, <3>3, <3>4, <3>5, <3>6 DEF Served
  <2>5. BlockTypeOK' /\ GuestSurvives'
    BY <2>2 DEF PromiseInv, BlockTypeOK, GuestSurvives
  <2>6. block_size > 0
    BY <2>2 DEF BlockInv
  <2> QED
    BY <2>2, <2>4, <2>5, <2>6 DEF PromiseInv
<1>6. CASE BlockReturn
  BY <1>6, SMTT(30) DEF BlockReturn, PromiseInv, BlockTypeOK, GuestSurvives
<1>7. CASE BlockStopped \/ UNCHANGED blkVars
  <2>1. UNCHANGED blkVars
    BY <1>7 DEF BlockStopped
  <2> QED
    BY <2>1 DEF blkVars, PromiseInv, BlockTypeOK, GuestSurvives, Valid, Served, Written, Entries, LastBlock
<1> QED
  BY <1>1, <1>2, <1>3, <1>4, <1>5, <1>6, <1>7

(* A block lies within the device when its end does.                       *)
LEMMA PromiseKept == BlockInv /\ PromiseInv => BlockTypeOK /\ BlockPromise
<1> SUFFICES ASSUME BlockInv, PromiseInv PROVE BlockTypeOK /\ BlockPromise
  OBVIOUS
<1>1. capacity \in Nat /\ block_size \in Nat /\ req.offset \in Nat /\ req.len \in Nat
  BY BlockAssumption DEF BlockInv, SSizeMax
<1>2. ASSUME ret # "NONE", ~req.raw PROVE Served
  BY <1>2 DEF PromiseInv
<1>3. ASSUME ret # "NONE", ~req.raw, req.len = block_size
      PROVE  req.offset .. req.offset + req.len - 1 \subseteq 0 .. capacity - 1
                <=> req.offset + req.len <= capacity
  <2>1. block_size > 0
    BY <1>3 DEF PromiseInv
  <2>2. req.offset + req.len - 1 \in req.offset .. req.offset + req.len - 1
    BY <1>1, <1>3, <2>1
  <2> QED
    BY <1>1, <2>2
<1>4. BlockCallKept
  <2> SUFFICES ASSUME ret # "NONE", ~req.raw PROVE BlockCallKept
    BY DEF BlockCallKept
  <2>1. Served
    BY <1>2
  <2>2. Valid <=> /\ req.handle \in Entries("BLOCK_BASIC")
                  /\ req.len = block_size /\ req.offset % block_size = 0
                  /\ req.offset .. req.offset + req.len - 1 \subseteq 0 .. capacity - 1
    BY <1>3, Zenon DEF Valid
  <2> QED
    BY <2>1, <2>2, Zenon DEF BlockCallKept, Served, Written
<1> QED
  BY <1>4 DEF PromiseInv, BlockPromise

-----------------------------------------------------------------------------
(* The debugger's stub.                                                    *)

Sw(a) == [type |-> "SW", addr |-> a]

(* The lists, the debug registers and guest memory agree with each other   *)
(* and with what the debugger was told: an int3 is where a software        *)
(* breakpoint is, which saved what the debugger or the executable put      *)
(* there, and KVM knows of every hardware breakpoint.                      *)
ListsInv ==
    /\ code \in [Addrs -> Insns \cup {Int3}] /\ wrote \in [Addrs -> Insns]
    /\ \A bp \in sw_breakpoints :
          /\ bp.addr \in Addrs /\ bp = [addr |-> bp.addr, saved |-> wrote[bp.addr]]
          /\ code[bp.addr] = Int3 /\ Sw(bp.addr) \in asked
    /\ \A a \in Addrs : Sw(a) \in asked => [addr |-> a, saved |-> wrote[a]] \in sw_breakpoints
    /\ \A a \in Addrs : Sw(a) \notin asked => code[a] = wrote[a]
    /\ hw_breakpoints = {bp \in asked : bp.type \in HwTypes}
    /\ \A bp \in asked : bp = [type |-> bp.type, addr |-> bp.addr]
    /\ \A bp \in asked : bp.type \in HwTypes \/ (bp.type = "SW" /\ bp.addr \in Addrs)
    /\ kvm = [step |-> stepping, sw |-> sw_breakpoints # {}, hw |-> hw_breakpoints]

(* One debug register per breakpoint.                                      *)
CountInv ==
    /\ IsFiniteSet(hw_breakpoints) /\ nr_hw_breakpoints = Cardinality(hw_breakpoints)
    /\ \A b, c \in hw_breakpoints : b.addr = c.addr => b = c

(* A debugger that has detached has left no breakpoint, and is not heard   *)
(* again once the guest has stopped.                                       *)
DetachInv ==
    /\ stub \in {"connect", "reply", "command", "run", "exited"}
    /\ next_stub \in {"command", "run"}
    /\ detached =>
          /\ asked = {} /\ stub # "connect"
          /\ stub = "command" \/ (stub = "reply" /\ next_stub = "command") => ~connected

GdbInv ==
    /\ ListsInv /\ CountInv /\ DetachInv /\ ~missed /\ ~stray

(* Before the debugger connects there is nothing to agree about.           *)
LEMMA GdbInitInv == GdbInit => GdbInv
<1> SUFFICES ASSUME GdbInit PROVE GdbInv
  OBVIOUS
<1>1. ListsInv
  BY Zenon DEF GdbInit, ListsInv, Sw
<1>2. CountInv
  BY FS_EmptySet DEF GdbInit, CountInv
<1> QED
  BY <1>1, <1>2 DEF GdbInit, GdbInv, DetachInv

(* What leaves the lists, memory and the history alone keeps the invariant.*)
LEMMA SameLists == ListsInv /\ UNCHANGED <<gdbLists, wrote, asked>> => ListsInv'
  BY DEF ListsInv, gdbLists, Sw
LEMMA SameCount == CountInv /\ UNCHANGED <<hw_breakpoints, nr_hw_breakpoints>> => CountInv'
  BY DEF CountInv

(* Packets that change no breakpoint.                                      *)
LEMMA ControlInv ==
    ASSUME GdbInv,
           \/ Connect \/ Acknowledged \/ Disconnect \/ NoCommand \/ Detach \/ Query
           \/ GuestFails \/ GuestHalts \/ GdbStopped \/ UNCHANGED gdbVars
    PROVE  GdbInv'
<1>1. UNCHANGED <<gdbLists, gdbHist>>
  BY DEF Connect, Acknowledged, Disconnect, NoCommand, Detach, Query, GuestFails, GuestHalts,
         GdbStopped, gdbVars
<1>2. ListsInv' /\ CountInv' /\ ~missed' /\ ~stray'
  BY <1>1, SameLists, SameCount DEF GdbInv, gdbLists, gdbHist
<1>3. DetachInv'
  <2>1. asked' = asked
    BY <1>1 DEF gdbHist
  <2>2. CASE Connect \/ Detach \/ Query
    BY <2>1, <2>2 DEF GdbInv, DetachInv, Connect, Detach, Query, Reply
  <2>3. CASE Acknowledged \/ Disconnect \/ NoCommand
    BY <2>1, <2>3 DEF GdbInv, DetachInv, Acknowledged, Disconnect, NoCommand
  <2>4. CASE GuestFails
    BY <2>1, <2>4, Zenon DEF GdbInv, DetachInv, GuestFails, Reply
  <2>5. CASE GuestHalts \/ GdbStopped \/ UNCHANGED gdbVars
    BY <2>1, <2>5 DEF GdbInv, DetachInv, GuestHalts, GdbStopped, gdbVars
  <2> QED
    BY <2>2, <2>3, <2>4, <2>5
<1> QED
  BY <1>2, <1>3 DEF GdbInv

(* KVM is told whenever the guest is resumed.                              *)
LEMMA ResumeInv == ASSUME GdbInv, NEW step \in BOOLEAN, Resume(step) PROVE GdbInv'
<1>1. ListsInv'
  BY DEF GdbInv, ListsInv, Resume, UpdateGuestDebug, gdbHist, Sw
<1>2. CountInv'
  BY SameCount DEF GdbInv, Resume
<1>3. DetachInv'
  BY DEF GdbInv, DetachInv, Resume, gdbHist
<1> QED
  BY <1>1, <1>2, <1>3 DEF GdbInv, Resume, gdbHist

(* The debugger does not write over its breakpoints.                       *)
LEMMA WriteMemoryInv ==
    ASSUME GdbInv, NEW a \in Addrs, NEW v \in Insns, WriteMemory(a, v) PROVE GdbInv'
<1>1. ListsInv'
  BY DEF GdbInv, ListsInv, WriteMemory, Sw
<1>2. CountInv'
  BY SameCount DEF GdbInv, WriteMemory
<1>3. DetachInv'
  BY DEF GdbInv, DetachInv, WriteMemory, Reply
<1> QED
  BY <1>1, <1>2, <1>3, SMTT(30) DEF GdbInv, WriteMemory

(* An instruction is saved once, before int3 replaces it.                  *)
LEMMA InsertSwInv == ASSUME GdbInv, NEW a \in Addrs, InsertSw(a) PROVE GdbInv'
<1>1. CASE FindSw(a) # {}
  <2>1. Sw(a) \in asked
    BY <1>1, SMTT(30) DEF FindSw, GdbInv, ListsInv
  <2>2. UNCHANGED <<gdbLists, asked, wrote>>
    BY <1>1, <2>1, SMTT(30) DEF InsertSw, Sw
  <2> QED
    BY <2>2, SameLists, SameCount DEF GdbInv, DetachInv, InsertSw, Reply, gdbLists
<1>2. CASE FindSw(a) = {}
  <2>1. Sw(a) \notin asked
    BY <1>2, Zenon DEF FindSw, GdbInv, ListsInv
  <2>2. code[a] = wrote[a]
    BY <2>1 DEF GdbInv, ListsInv
  <2>3. ListsInv'
    <3>1. asked' = asked \cup {Sw(a)} /\ wrote' = wrote /\ code' = [code EXCEPT ![a] = Int3]
          /\ sw_breakpoints' = sw_breakpoints \cup {[addr |-> a, saved |-> wrote[a]]}
          /\ UNCHANGED <<stepping, hw_breakpoints>>
          /\ kvm' = [step |-> stepping', sw |-> sw_breakpoints' # {}, hw |-> hw_breakpoints']
      BY <1>2, <2>2 DEF InsertSw, Sw, UpdateGuestDebug
    <3>2. code' \in [Addrs -> Insns \cup {Int3}] /\ wrote' \in [Addrs -> Insns]
          /\ hw_breakpoints' = {bp \in asked' : bp.type \in HwTypes}
          /\ \A b \in asked' : b = [type |-> b.type, addr |-> b.addr]
          /\ \A bp \in asked' : bp.type \in HwTypes \/ (bp.type = "SW" /\ bp.addr \in Addrs)
      BY <2>1, <3>1 DEF GdbInv, ListsInv, HwTypes, Sw
    <3>3. \A bp \in sw_breakpoints' :
             /\ bp.addr \in Addrs /\ bp = [addr |-> bp.addr, saved |-> wrote'[bp.addr]]
             /\ code'[bp.addr] = Int3 /\ Sw(bp.addr) \in asked'
      BY <3>1 DEF GdbInv, ListsInv
    <3>4. \A x \in Addrs : x # a => (Sw(x) \in asked' <=> Sw(x) \in asked)
      BY <3>1 DEF Sw
    <3>5. \A x \in Addrs : /\ Sw(x) \in asked' => [addr |-> x, saved |-> wrote'[x]] \in sw_breakpoints'
                           /\ Sw(x) \notin asked' => code'[x] = wrote'[x]
      BY <3>1, <3>4, SMTT(30) DEF GdbInv, ListsInv
    <3>6. kvm' = [step |-> stepping', sw |-> sw_breakpoints' # {}, hw |-> hw_breakpoints']
      BY <3>1, SMTT(30)
    <3> QED
      BY <3>2, <3>3, <3>5, <3>6, ZenonT(30) DEF ListsInv, Sw
  <2>4. CountInv'
    BY <1>2, SameCount DEF GdbInv, InsertSw
  <2> QED
    BY <2>3, <2>4 DEF GdbInv, DetachInv, InsertSw, Reply
<1> QED
  BY <1>1, <1>2

(* The int3 the code asserts is there, and what was saved comes back.      *)
LEMMA RemoveSwInv == ASSUME GdbInv, NEW a \in Addrs, RemoveSw(a) PROVE GdbInv'
<1>1. CASE FindSw(a) = {}
  BY <1>1, SameLists, SameCount DEF GdbInv, DetachInv, RemoveSw, Reply, gdbLists
<1>2. CASE FindSw(a) # {}
  <2>1. FindSw(a) = {[addr |-> a, saved |-> wrote[a]]} /\ code[a] = Int3 /\ Sw(a) \in asked
    BY <1>2, SMTT(30) DEF FindSw, GdbInv, ListsInv
  <2>2. /\ asked' = asked \ {Sw(a)} /\ wrote' = wrote /\ code' = [code EXCEPT ![a] = wrote[a]]
        /\ sw_breakpoints' = sw_breakpoints \ {[addr |-> a, saved |-> wrote[a]]}
        /\ UNCHANGED <<stepping, hw_breakpoints, nr_hw_breakpoints, missed, stray, connected, detached>>
        /\ kvm' = [step |-> stepping, sw |-> sw_breakpoints' # {}, hw |-> hw_breakpoints]
        /\ stub = "command" /\ connected /\ stub' = "reply" /\ next_stub' = "command"
    <3>1. PICK bp \in FindSw(a) : code' = [code EXCEPT ![a] = bp.saved]
      BY <1>2, <2>1, Zenon DEF RemoveSw
    <3>2. bp.saved = wrote[a]
      BY <2>1, <3>1
    <3> QED
      BY <1>2, <2>1, <3>2 DEF RemoveSw, UpdateGuestDebug, Sw, Reply
  <2>3. ListsInv'
    BY <2>1, <2>2 DEF GdbInv, ListsInv, HwTypes, Sw
  <2>4. CountInv'
    BY <2>2, SameCount DEF GdbInv
  <2> QED
    BY <2>2, <2>3, <2>4 DEF GdbInv, DetachInv
<1> QED
  BY <1>1, <1>2

(* A debug register for each new breakpoint.                               *)
LEMMA InsertHwInv == ASSUME GdbInv, NEW a \in Addrs, NEW t \in HwTypes, InsertHw(t, a) PROVE GdbInv'
<1>1. CASE FindHw(a) # {} \/ nr_hw_breakpoints = MaxHwBreakpoints
  BY <1>1, SameLists, SameCount DEF GdbInv, DetachInv, InsertHw, Reply, gdbLists
<1>2. CASE FindHw(a) = {} /\ nr_hw_breakpoints # MaxHwBreakpoints
  <2> DEFINE bp == [type |-> t, addr |-> a]
  <2>1. /\ asked' = asked \cup {bp} /\ UNCHANGED <<wrote, code, sw_breakpoints, stepping>>
        /\ hw_breakpoints' = hw_breakpoints \cup {bp} /\ nr_hw_breakpoints' = nr_hw_breakpoints + 1
        /\ kvm' = [step |-> stepping, sw |-> sw_breakpoints # {}, hw |-> hw_breakpoints']
        /\ UNCHANGED <<missed, stray, connected, detached>>
        /\ stub = "command" /\ connected /\ stub' = "reply" /\ next_stub' = "command"
    BY <1>2 DEF InsertHw, UpdateGuestDebug, Reply
  <2>2. bp \notin hw_breakpoints /\ \A b \in hw_breakpoints : b.addr # a
    BY <1>2, SMTT(30) DEF FindHw
  <2>3. ListsInv'
    BY <2>1 DEF GdbInv, ListsInv, HwTypes, Sw
  <2>4. CountInv'
    <3>1. IsFiniteSet(hw_breakpoints \cup {bp})
          /\ Cardinality(hw_breakpoints \cup {bp}) = Cardinality(hw_breakpoints) + 1
      BY Zenon, <2>2, FS_AddElement DEF GdbInv, CountInv
    <3> QED
      BY <2>1, <2>2, <3>1 DEF GdbInv, CountInv
  <2> QED
    BY <2>1, <2>3, <2>4, SMTT(30) DEF GdbInv, DetachInv
<1> QED
  BY <1>1, <1>2

(* There is at most one at an address, so that one register is freed.      *)
LEMMA RemoveHwInv == ASSUME GdbInv, NEW a \in Addrs, RemoveHw(a) PROVE GdbInv'
<1>1. CASE FindHw(a) = {}
  BY <1>1, SameLists, SameCount DEF GdbInv, DetachInv, RemoveHw, Reply, gdbLists
<1>2. CASE FindHw(a) # {}
  <2>1. PICK bp \in hw_breakpoints : FindHw(a) = {bp} /\ bp.addr = a
    BY <1>2 DEF FindHw, GdbInv, CountInv
  <2>2. /\ asked' = {b \in asked : b.type = "SW" \/ b.addr # a}
        /\ UNCHANGED <<wrote, code, sw_breakpoints, stepping>>
        /\ hw_breakpoints' = hw_breakpoints \ {bp} /\ nr_hw_breakpoints' = nr_hw_breakpoints - 1
        /\ kvm' = [step |-> stepping, sw |-> sw_breakpoints # {}, hw |-> hw_breakpoints']
        /\ UNCHANGED <<missed, stray, connected, detached>>
        /\ stub = "command" /\ connected /\ stub' = "reply" /\ next_stub' = "command"
    BY Zenon, <1>2, <2>1 DEF RemoveHw, UpdateGuestDebug, Reply
  <2>3. ListsInv'
    <3>1. hw_breakpoints' = {b \in asked' : b.type \in HwTypes}
      BY <2>1, <2>2 DEF GdbInv, ListsInv, HwTypes, FindHw
    <3>2. \A x \in Addrs : Sw(x) \in asked' <=> Sw(x) \in asked
      BY <2>2 DEF Sw
    <3> QED
      BY <2>2, <3>1, <3>2, SMTT(30) DEF GdbInv, ListsInv, Sw
  <2>4. CountInv'
    <3>1. IsFiniteSet(hw_breakpoints \ {bp})
          /\ Cardinality(hw_breakpoints \ {bp}) = Cardinality(hw_breakpoints) - 1
      BY <2>1, FS_RemoveElement, SMTT(30) DEF GdbInv, CountInv
    <3> QED
      BY <2>2, <3>1 DEF GdbInv, CountInv
  <2> QED
    BY <2>2, <2>3, <2>4 DEF GdbInv, DetachInv
<1> QED
  BY <1>1, <1>2

(* The guest cannot get past a breakpoint, nor into an int3 of its own.    *)
LEMMA GuestRunsInv ==
    ASSUME GdbInv, NEW x \in Addrs, NEW d \in Addrs, GuestRuns(x, d) PROVE GdbInv'
<1>1. ASSUME NEW bp \in asked, bp.addr = IF bp.type = "WATCH" THEN d ELSE x
      PROVE  Traps(x, d)
  <2>1. CASE bp.type \in HwTypes
    <3>1. bp \in kvm.hw
      BY <2>1 DEF GdbInv, ListsInv
    <3>2. bp.addr = IF bp.type = "HW" THEN x ELSE d
      BY <1>1, <2>1 DEF HwTypes
    <3> QED
      BY <3>1, <3>2 DEF Traps
  <2>2. CASE bp.type \notin HwTypes
    <3>1. bp = Sw(x) /\ bp.addr = x
      BY <1>1, <2>2 DEF GdbInv, ListsInv, HwTypes, Sw
    <3>2. [addr |-> x, saved |-> wrote[x]] \in sw_breakpoints
      BY <3>1 DEF GdbInv, ListsInv
    <3>3. code[x] = Int3 /\ kvm.sw
      BY <3>2, Zenon DEF GdbInv, ListsInv
    <3> QED
      BY <3>3 DEF Traps
  <2> QED
    BY <2>1, <2>2
<1>2. code[x] = Int3 => Sw(x) \in asked
  BY GdbAssumption DEF GdbInv, ListsInv
<1>3. missed' = FALSE /\ stray' = FALSE
  BY <1>1, <1>2 DEF GuestRuns, GdbInv, Sw
<1>4. ListsInv' /\ CountInv'
  BY SameLists, SameCount DEF GdbInv, GuestRuns, gdbLists
<1>5. DetachInv'
  BY ZenonT(30) DEF GdbInv, DetachInv, GuestRuns, Reply
<1> QED
  BY <1>3, <1>4, <1>5 DEF GdbInv

(* So no step of the stub or of the guest breaks the invariant.            *)
LEMMA GdbNextInv == GdbInv /\ [GdbNext]_gdbVars => GdbInv'
BY ControlInv, ResumeInv, WriteMemoryInv, InsertSwInv, RemoveSwInv, RemoveHwInv, InsertHwInv,
   GuestRunsInv DEF GdbNext

(* What the properties say follows from it.                                *)
LEMMA GdbInvKept == GdbInv => GdbTypeOK /\ BreakpointsHit /\ GuestUndisturbed
<1> SUFFICES ASSUME GdbInv PROVE GdbTypeOK /\ BreakpointsHit /\ GuestUndisturbed
  OBVIOUS
<1>1. GdbTypeOK /\ BreakpointsHit /\ CodeRestored
  BY DEF GdbInv, GdbTypeOK, ListsInv, CountInv, DetachInv, BreakpointsHit, CodeRestored, Sw
<1>2. DetachedRuns
  BY Zenon DEF GdbInv, ListsInv, DetachInv, DetachedRuns, Traps
<1> QED
  BY <1>1, <1>2 DEF GuestUndisturbed

-----------------------------------------------------------------------------
(* The composition.                                                        *)

(* A step of the composition is a step of the clock or not its business.   *)
LEMMA ClockStep == [Next]_vars => [TscNext]_tscVars
<1> SUFFICES ASSUME [Next]_vars PROVE [TscNext]_tscVars
  OBVIOUS
<1>1. CASE NetStep
  <2>1. WaitNext
    BY <1>1 DEF NetStep
  <2>2. CASE TimePasses
    BY <2>2 DEF TimePasses, TscNext
  <2>3. CASE Scale \/ Base
    BY <2>3 DEF TscNext
  <2>4. CASE \E h \in Taps : PacketArrives(h)
    BY <2>4 DEF PacketArrives
  <2>5. CASE \E d \in Deadlines : YieldCall(d)
    BY <2>5 DEF YieldCall
  <2>6. CASE YieldClock
    BY <2>6 DEF YieldClock, TscNext
  <2>7. CASE Arm \/ WaitEnds \/ KeventInterrupted \/ YieldReturn
    BY <2>7 DEF Arm, WaitEnds, KeventInterrupted, YieldReturn
  <2>8. CASE Exit \/ Exited
    BY <2>8 DEF Exit, Exited
  <2>9. CASE \E h \in DOMAIN mft : solo5_net_read(h)
    BY <2>9 DEF solo5_net_read
  <2> QED
    BY <2>1, <2>2, <2>3, <2>4, <2>5, <2>6, <2>7, <2>8, <2>9 DEF WaitNext
<1>2. CASE BlockStep \/ LoadStep \/ DebugStep
  BY <1>2 DEF BlockStep, LoadStep, DebugStep
<1>3. CASE UNCHANGED vars
  BY <1>3 DEF vars
<1> QED
  BY <1>1, <1>2, <1>3 DEF Next

(* A step of the composition is a step of the loader or not its business.  *)
LEMMA LoaderStep == [Next]_vars => [ElfNext]_elfVars
<1> SUFFICES ASSUME [Next]_vars PROVE [ElfNext]_elfVars
  OBVIOUS
<1>1. CASE LoadStep
  BY <1>1 DEF LoadStep
<1>2. CASE NetStep \/ BlockStep \/ DebugStep
  BY <1>2 DEF NetStep, BlockStep, DebugStep
<1>3. CASE UNCHANGED vars
  BY <1>3 DEF vars
<1> QED
  BY <1>1, <1>2, <1>3 DEF Next

(* A guest's yield and clock calls implement the TSC clock.                *)
THEOREM ImplementsClock == Spec => TscSpec
<1>1. Init => TscInit
  BY DEF Init
<1> QED
  BY <1>1, ClockStep, PTL DEF Spec, TscSpec

(* A tender's loading implements the loader.                               *)
THEOREM ImplementsLoader == Spec => ElfSpec
<1>1. Init => ElfInit
  BY DEF Init
<1> QED
  BY <1>1, LoaderStep, PTL DEF Spec, ElfSpec

(* The block requests of a guest are in words, whatever they ask.          *)
LEMMA BlockStepInv == BlockInv /\ [Next]_vars => BlockInv'
<1> SUFFICES ASSUME BlockInv, [Next]_vars PROVE BlockInv'
  OBVIOUS
<1>1. CASE BlockStep
  <2>1. BlockNext(Requests)
    BY <1>1 DEF BlockStep
  <2>2. CASE \E r \in Requests : BlockCall(r)
    <3>1. PICK r \in Requests : BlockCall(r)
      BY <2>2, SMTT(30)
    <3>2. r.offset \in Offsets /\ r.len \in Lens
      BY <3>1 DEF Requests
    <3>3. \A x \in 0 .. Word - 1 : x \in Nat
      BY BlockAssumption
    <3>4. r.offset \in Nat /\ r.len \in Nat
      BY <3>2, <3>3, CallAssumption, Zenon
    <3> QED
      BY <3>1, <3>4, BlockCallInv
  <2>3. CASE \/ BlockSetup \/ Bindings \/ HvtDispatch \/ SptSyscall
             \/ \E n \in 0 .. req.len : Transfer(n)
             \/ BlockReturn \/ BlockStopped
    BY <2>3, HostInv
  <2> QED
    BY <2>1, <2>2, <2>3 DEF BlockNext
<1>2. CASE NetStep \/ LoadStep \/ DebugStep
  <2>1. UNCHANGED blkVars
    BY <1>2 DEF NetStep, LoadStep, DebugStep
  <2> QED
    BY <2>1, HostInv
<1>3. CASE UNCHANGED vars
  <2>1. UNCHANGED blkVars
    BY <1>3 DEF vars
  <2> QED
    BY <2>1, HostInv
<1> QED
  BY <1>1, <1>2, <1>3 DEF Next

(* A block call that is over has kept its promise, whatever else runs.     *)
LEMMA PromiseStepInv == BlockInv /\ PromiseInv /\ [Next]_vars => PromiseInv'
<1> SUFFICES ASSUME BlockInv, PromiseInv, [Next]_vars PROVE PromiseInv'
  OBVIOUS
<1>0. UNCHANGED <<target, mft>>
  <2>1. CASE Next
    BY <2>1 DEF Next, NetStep, BlockStep, LoadStep, DebugStep
  <2>2. CASE UNCHANGED vars
    BY <2>2 DEF vars
  <2> QED
    BY <2>1, <2>2
<1>1. CASE BlockStep
  <2>1. BlockNext(Requests)
    BY <1>1 DEF BlockStep
  <2>2. CASE \E r \in Requests : BlockCall(r)
    BY <1>0, <2>2, PromiseCallInv
  <2>3. CASE \/ BlockSetup \/ Bindings \/ HvtDispatch \/ SptSyscall
             \/ \E n \in 0 .. req.len : Transfer(n)
             \/ BlockReturn \/ BlockStopped
    BY <1>0, <2>3, PromiseHostInv
  <2> QED
    BY <2>1, <2>2, <2>3 DEF BlockNext
<1>2. CASE NetStep \/ LoadStep \/ DebugStep
  <2>1. UNCHANGED blkVars
    BY <1>2 DEF NetStep, LoadStep, DebugStep
  <2> QED
    BY <1>0, <2>1, PromiseHostInv
<1>3. CASE UNCHANGED vars
  <2>1. UNCHANGED blkVars
    BY <1>3 DEF vars
  <2> QED
    BY <1>0, <2>1, PromiseHostInv
<1> QED
  BY <1>1, <1>2, <1>3 DEF Next

(* A step of the composition is a step of the stub or not its business.    *)
LEMMA DebuggerStep == [Next]_vars => [GdbNext]_gdbVars
<1> SUFFICES ASSUME [Next]_vars PROVE [GdbNext]_gdbVars
  OBVIOUS
<1>1. CASE DebugStep
  BY <1>1 DEF DebugStep
<1>2. CASE NetStep \/ BlockStep \/ LoadStep
  BY <1>2 DEF NetStep, BlockStep, LoadStep
<1>3. CASE UNCHANGED vars
  BY <1>3 DEF vars
<1> QED
  BY <1>1, <1>2, <1>3 DEF Next

(* A guest inside solo5_yield() is not disturbed by what it does not call. *)
LEMMA YieldStepInv == WaitInv /\ TscInv /\ [Next]_vars => WaitInv'
<1> SUFFICES ASSUME WaitInv, TscInv, [Next]_vars PROVE WaitInv'
  OBVIOUS
<1>1. CASE NetStep
  BY <1>1, WaitNextInv, SMTT(30) DEF NetStep
<1>2. CASE BlockStep \/ LoadStep \/ DebugStep \/ UNCHANGED vars
  <2>1. UNCHANGED <<target, mft, tscVars, waitVars>>
    <3>1. CASE BlockStep \/ LoadStep \/ DebugStep
      BY <3>1 DEF BlockStep, LoadStep, DebugStep
    <3>2. CASE UNCHANGED vars
      BY <3>2 DEF vars
    <3> QED
      BY <1>2, <3>1, <3>2
  <2> QED
    BY <2>1 DEF WaitInv, WaitTypeOK, YieldReportsReady, YieldNotEarly, waitVars, waitCall, tscVars,
          Readable, Taps, Entries, HostTime, HostNow, TimeLeft
<1> QED
  BY <1>1, <1>2 DEF Next

(* The inductive invariant of the whole: those of the parts.               *)
TenderInv ==
    /\ target \in Targets /\ mft \in Manifests /\ work \in Works
    /\ TscInv /\ WaitInv /\ BlockInv /\ PromiseInv /\ ElfInv /\ GdbInv

(* It holds when the tender starts and is kept by everything a guest, its  *)
(* tender and its debugger do.                                             *)
LEMMA TenderInvariant == Spec => []TenderInv
<1>1. Init => TenderInv
  BY TscInitInv, WaitInitInv, BlockInitInv, PromiseInitInv, ElfInitInv, GdbInitInv
  DEF Init, MftInit, TenderInv
<1>2. TenderInv /\ [Next]_vars => TenderInv'
  <2> SUFFICES ASSUME TenderInv, [Next]_vars PROVE TenderInv'
    OBVIOUS
  <2>1. UNCHANGED <<target, mft, work>>
    <3>1. CASE Next
      BY <3>1 DEF Next, NetStep, BlockStep, LoadStep, DebugStep
    <3>2. CASE UNCHANGED vars
      BY <3>2 DEF vars
    <3> QED
      BY <3>1, <3>2
  <2>2. TscInv' /\ ElfInv' /\ GdbInv'
    BY ClockStep, LoaderStep, DebuggerStep, TscNextInv, ElfNextInv, GdbNextInv DEF TenderInv
  <2>3. WaitInv' /\ BlockInv' /\ PromiseInv'
    BY YieldStepInv, BlockStepInv, PromiseStepInv DEF TenderInv
  <2> QED
    BY <2>1, <2>2, <2>3 DEF TenderInv
<1> QED
  BY <1>1, <1>2, PTL DEF Spec

(* No request of a guest, through the bindings or with a hypercall or      *)
(* system call of its own, makes hypercall_block_write() or a pwrite64     *)
(* that the filter lets pass reach outside the backing storage.            *)
THEOREM BlocksInBounds == Spec => []BlockInBounds
<1>1. TenderInv => BlockInBounds
  BY DEF TenderInv, BlockInv
<1> QED
  BY <1>1, TenderInvariant, PTL

(* solo5_block_read() and solo5_block_write() are refused exactly when     *)
(* they are not for one whole aligned block of a block device, succeed     *)
(* only with that block transferred and nothing else touched, leave at     *)
(* most the beginning of it written when they fail, and cost a guest its   *)
(* life only by a failed transfer on hvt: for every device, block and word *)
(* size, on both targets, which divide the checks differently.             *)
THEOREM BlockCallsKept == Spec => []BlockPromise
<1>1. TenderInv => BlockPromise
  BY PromiseKept DEF TenderInv
<1> QED
  BY <1>1, TenderInvariant, PTL

(* solo5_yield() reports every device that was readable when it was called *)
(* and none that is not, and returns with nothing to report only when the  *)
(* time it was asked to wait is over, for every manifest, TSC frequency,   *)
(* deadline and packet arrival.                                            *)
THEOREM YieldPromise == Spec => []YieldKept
<1>1. TenderInv => YieldKept
  BY WaitKept DEF TenderInv
<1> QED
  BY <1>1, TenderInvariant, PTL

(* A breakpoint the stub has acknowledged stops the guest whenever it is   *)
(* reached, for any number of addresses and debug registers and whatever   *)
(* is inserted and removed around it.                                      *)
THEOREM DebuggerStops == Spec => []BreakpointsHit
<1>1. TenderInv => BreakpointsHit
  BY GdbInvKept DEF TenderInv
<1> QED
  BY <1>1, TenderInvariant, PTL

(* The stub leaves no int3 behind, restores what was there, finds the int3 *)
(* it asserts, and lets a guest run that the debugger has left.            *)
THEOREM DebuggerLeavesNoTrace == Spec => []GuestUndisturbed
<1>1. TenderInv => GuestUndisturbed
  BY GdbInvKept DEF TenderInv
<1> QED
  BY <1>1, TenderInvariant, PTL

(* Every variable of the composition keeps its type; the count of debug    *)
(* registers is the number of hardware breakpoints.                        *)
THEOREM TypesKept == Spec => []TypeOK
<1>1. TenderInv => TypeOK
  BY GdbInvKept, WaitKept, PromiseKept DEF TenderInv, TypeOK, TscInv, ElfInv
<1> QED
  BY <1>1, TenderInvariant, PTL

(* So the clock of a guest is never ahead, loses a bounded amount and      *)
(* never goes back, however yields, packets and time interleave.           *)
THEOREM GuestClock == Spec => []ClockAccurate /\ ClockMonotone
BY ImplementsClock, NeverAhead, LossBounded, Monotone, PTL DEF ClockAccurate

(* And a tender that loads an executable stays within guest memory, keeps  *)
(* what it has loaded and reads no note beyond its header.                 *)
THEOREM GuestLoaded == Spec => []LoadSafe
BY ImplementsLoader, Confined, Segments, Notes, PTL DEF LoadSafe

-----------------------------------------------------------------------------
(* Only kevent() reports an interrupted wait.                              *)
SptInv == target = "spt" => ~interrupted

LEMMA SptStepInv == SptInv /\ [Next]_vars => SptInv'
<1> SUFFICES ASSUME SptInv, [Next]_vars PROVE SptInv'
  OBVIOUS
<1>1. CASE NetStep
  BY <1>1, Zenon DEF SptInv, NetStep, WaitNext, TimePasses, PacketArrives, YieldCall, YieldClock, Arm, WaitEnds,
     KeventInterrupted, YieldReturn, Exit, Exited, solo5_net_read, waitVars, waitCall
<1>2. CASE BlockStep \/ LoadStep \/ DebugStep \/ UNCHANGED vars
  BY <1>2, Zenon DEF SptInv, BlockStep, LoadStep, DebugStep, vars, waitVars, waitCall
<1> QED
  BY <1>1, <1>2 DEF Next

LEMMA HostNowNat == TscInv => HostNow \in Nat
BY ClockFacts

(* On spt the steps of solo5_yield() are those of the promise.             *)
LEMMA SptYieldStep ==
    ASSUME target = "spt", WaitInv, WaitInv', TscInv, TscInv', SptInv', WaitNext,
           UNCHANGED <<target, mft>>
    PROVE  [Promise!Next]_(Promise!promiseVars)
<1>i. /\ HostNow \in Nat /\ HostNow' \in Nat /\ deadline' \in Nat
      /\ yield \in {"app", "clock", "arm", "wait", "done", "exited"}
  <2>1. (TscInv => HostNow \in Nat)'
    BY HostNowNat, PTL
  <2> QED
    BY <2>1, HostNowNat, WaitAssumption DEF WaitInv, WaitTypeOK
<1>r. Readable' \subseteq UNION {DOMAIN m : m \in Manifests}
  BY Zenon DEF WaitInv, Readable, Taps, Entries
<1>t. Taps' = Taps
  BY DEF Taps, Entries
<1>d. due' = deadline' \/ yield' \notin {"arm", "wait", "done"}
  BY DEF WaitInv
<1>a. Promise!Answered'
  BY <1>d, <1>i DEF WaitInv, SptInv, YieldReportsReady, YieldNotEarly, Promise!Answered, Promise!Due
<1>h. ASSUME UNCHANGED tscVars PROVE HostNow' = HostNow
  BY <1>h DEF tscVars, HostNow
<1>p. ASSUME UNCHANGED tap PROVE Readable' = Readable
  BY <1>p, <1>t DEF Readable
<1>1. CASE TimePasses
  <2>1. UNCHANGED waitVars /\ tsc' = tsc + 1 /\ freq' = freq
    BY <1>1 DEF TimePasses, Tick
  <2>2. HostNow' >= HostNow
    <3>1. tsc \in Nat /\ freq \in Nat \ {0}
      BY ClockFacts
    <3>2. HostTime(tsc) <= HostTime(tsc + 1) /\ HostNow = HostTime(tsc) /\ HostNow' = HostTime(tsc + 1)
      BY <2>1, <3>1, HostTimeGrows DEF HostNow, HostTime
    <3> QED
      BY <1>i, <3>2
  <2>3. Readable' = Readable /\ UNCHANGED <<yield, deadline, atCall, ready_set>>
    BY <1>p, <2>1 DEF waitVars, waitCall
  <2> QED
    BY <1>i, <1>r, <2>2, <2>3 DEF Promise!World, Promise!Next
<1>2. ASSUME NEW h \in Taps, PacketArrives(h) PROVE Promise!Next
  <2>1. tap' = [tap EXCEPT ![h] = @ + 1] /\ UNCHANGED <<yield, deadline, atCall, ready_set>> /\ HostNow' = HostNow
    BY <1>2, <1>h DEF PacketArrives, waitCall
  <2>2. Readable \subseteq Readable'
    BY <1>t, <2>1, WaitAssumption DEF WaitInv, WaitTypeOK, Readable
  <2>3. atCall = atCall \ (Readable \ Readable') /\ Readable' = Readable \cup (Readable' \ Readable)
    BY <2>2
  <2> QED
    BY <1>i, <1>r, <2>1, <2>3 DEF Promise!World, Promise!Next
<1>3. ASSUME NEW d \in Deadlines, YieldCall(d) PROVE Promise!Next
  <2>1. /\ yield = "app" /\ yield' = "arm" /\ atCall' = Readable /\ Readable' = Readable /\ HostNow' = HostNow
    BY <1>3, <1>h, <1>p DEF YieldCall
  <2> QED
    BY <1>a, <1>i, <2>1 DEF Promise!Call, Promise!Next
<1>4. CASE Arm
  <2>1. /\ yield = "arm" /\ yield' = "wait" /\ UNCHANGED <<deadline, atCall, ready_set>>
        /\ Readable' = Readable /\ HostNow' = HostNow
    BY <1>4, <1>h, <1>p DEF Arm
  <2> QED
    BY <2>1 DEF Promise!promiseVars
<1>5. CASE WaitEnds
  <2>1. /\ yield = "wait" /\ yield' = "done" /\ UNCHANGED <<deadline, atCall>>
        /\ Readable' = Readable /\ HostNow' = HostNow
    BY <1>5, <1>h, <1>p DEF WaitEnds
  <2> QED
    BY <1>a, <1>i, <2>1 DEF Promise!Decide, Promise!Next
<1>6. CASE YieldReturn
  <2>1. /\ yield = "done" /\ yield' = "app" /\ deadline' = 0 /\ atCall' = {}
        /\ Readable' = Readable /\ HostNow' = HostNow
    BY <1>6, <1>h, <1>p DEF YieldReturn
  <2> QED
    BY <2>1 DEF Promise!Return, Promise!Next
<1>7. ASSUME NEW h \in DOMAIN mft, solo5_net_read(h) PROVE Promise!Next
  <2>1. yield = "app" /\ UNCHANGED <<yield, deadline, atCall, ready_set>> /\ HostNow' = HostNow
    BY <1>7, <1>h DEF solo5_net_read, waitCall
  <2> QED
    BY <1>i, <1>r, <2>1 DEF Promise!World, Promise!Next
<1>8. CASE Exit \/ Exited
  <2>1. /\ yield \in {"app", "exited"} /\ yield' = "exited" /\ UNCHANGED <<deadline, atCall, ready_set>>
        /\ Readable' = Readable /\ HostNow' = HostNow
    BY <1>8, <1>h, <1>p DEF Exit, Exited, waitVars, waitCall
  <2> QED
    BY <2>1 DEF Promise!promiseVars
<1>9. ~YieldClock /\ ~KeventInterrupted
  BY DEF WaitInv, YieldClock, KeventInterrupted
<1> QED
  BY <1>1, <1>2, <1>3, <1>4, <1>5, <1>6, <1>7, <1>8, <1>9 DEF WaitNext

(* On spt solo5_yield() implements the promise of solo5.h: the timerfd,    *)
(* armed with the deadline as an absolute time, and epoll are for the      *)
(* application one wait that ends at the deadline or with the devices that *)
(* are ready, for every manifest and arrival of packets (spt/net.c).       *)
THEOREM SptKeepsPromise == Spec => SptImplementsYield
<1>1. Init => SptInv /\ Promise!Init
  <2> SUFFICES ASSUME Init PROVE SptInv /\ Promise!Init
    OBVIOUS
  <2>1. TscInv /\ WaitInv /\ WaitInit
    BY TscInitInv, WaitInitInv DEF Init
  <2>2. HostNow \in Nat
    BY <2>1, ClockFacts
  <2>3. Readable \subseteq UNION {DOMAIN m : m \in Manifests}
    BY <2>1, Zenon DEF WaitInv, Readable, Taps, Entries
  <2> QED
    BY <2>1, <2>2, <2>3 DEF WaitInit, SptInv, Promise!Init
<1>2. TenderInv /\ TenderInv' /\ SptInv' /\ target = "spt" /\ [Next]_vars =>
        (target = "spt")' /\ [Promise!Next]_(Promise!promiseVars)
  <2> SUFFICES ASSUME TenderInv, TenderInv', SptInv', target = "spt", [Next]_vars
               PROVE  (target = "spt")' /\ [Promise!Next]_(Promise!promiseVars)
    OBVIOUS
  <2>1. CASE NetStep
    BY <2>1, SptYieldStep DEF NetStep, TenderInv
  <2>2. CASE BlockStep \/ LoadStep \/ DebugStep \/ UNCHANGED vars
    <3>1. UNCHANGED <<target, mft, tscVars, waitVars>>
      BY <2>2, Zenon DEF BlockStep, LoadStep, DebugStep, vars
    <3>2. HostNow' = HostNow /\ Readable' = Readable /\ UNCHANGED <<yield, deadline, atCall, ready_set>>
      BY <3>1 DEF HostNow, Readable, Taps, Entries, tscVars, waitVars, waitCall
    <3> QED
      BY <3>1, <3>2 DEF Promise!promiseVars
  <2> QED
    BY <2>1, <2>2 DEF Next
<1> QED
  BY <1>1, <1>2, SptStepInv, TenderInvariant, PTL DEF Spec, SptImplementsYield, Promise!Spec
=============================================================================
