----------------------------- MODULE HostBlock -----------------------------
(***************************************************************************)
(* solo5_block_read() and solo5_block_write() of a guest with a tender on  *)
(* a Unix host.  On hvt the bindings check the alignment and the size and  *)
(* hypercall_block_read/write() in the tender check the bounds; on spt the *)
(* bindings check everything, and the seccomp filter that the tender       *)
(* installed checks the system call again.  Since neither tender relies on *)
(* the bindings, a guest may also make the hypercall or the system call    *)
(* with any arguments: raw is TRUE then.                                   *)
(*                                                                         *)
(* Offsets and sizes are words of the machine: 0 .. Word-1, the upper half *)
(* of which is negative as an off_t or ssize_t.                            *)
(***************************************************************************)
EXTENDS Mft, Sequences, FiniteSets

CONSTANTS
    Word,          \* 2^64 in the code
    Values,        \* contents of a byte
    Capacities, BlockSizes, DefaultBlockSize   \* of the backing storage

SSizeMax == Word \div 2 - 1

ASSUME BlockAssumption ==
    /\ Word \in Nat \ {0} /\ Capacities \subseteq 0 .. SSizeMax
    /\ BlockSizes \subseteq 1 .. SSizeMax /\ DefaultBlockSize \in 1 .. SSizeMax

VARIABLES
    blk,           \* where the guest is in a block call
    capacity, block_size,
    disk,          \* the backing file, which a write may extend
    req,           \* the request
    ret, data,     \* its result
    before, io     \* history: the disk when it was made, the host I/O done

blkVars == <<blk, capacity, block_size, disk, req, ret, data, before, io>>

NoReq == [raw |-> FALSE, op |-> "none", handle |-> 0, offset |-> 0, len |-> 0, value |-> <<>>]
NoIo == [pos |-> 0, len |-> 0]

(* The tender attaches the file; block_size is 0 unless the option sets it *)
BlockInit ==
    /\ blk = "attach" /\ capacity \in Capacities /\ block_size \in BlockSizes \cup {0}
    /\ disk = [i \in 0 .. capacity - 1 |-> CHOOSE v \in Values : TRUE]
    /\ req = NoReq /\ ret = "NONE" /\ data = <<>> /\ before = disk /\ io = NoIo

(* setup(): the default size, and refusal of a capacity it does not fit.   *)
CapacityFits(bs) == capacity % bs = 0 /\ capacity >= bs

BlockSetup ==
    /\ blk = "attach"
    /\ LET bs == IF block_size = 0 THEN DefaultBlockSize ELSE block_size IN
       /\ block_size' = bs
       /\ blk' = IF CapacityFits(bs) THEN "app" ELSE "exited"
    /\ UNCHANGED <<capacity, disk, req, ret, data, before, io>>

BlockCall(r) ==
    /\ blk = "app"
    /\ req' = r /\ before' = disk /\ io' = NoIo /\ ret' = "NONE" /\ data' = <<>>
    /\ blk' = IF r.raw THEN "host" ELSE "bindings"
    /\ UNCHANGED <<capacity, block_size, disk>>

(* The checks of the bindings; block_size is a power of two.               *)
MisalignedNever == FALSE

Misaligned == req.offset % block_size # 0

LastBlock == (capacity - block_size) % Word

PastEnd == target = "spt" /\ req.offset > LastBlock

Bindings ==
    /\ blk = "bindings"
    /\ IF \/ ~mft_get_by_index(req.handle, "BLOCK_BASIC")
          \/ Misaligned \/ req.len # block_size \/ PastEnd
       THEN ret' = "EINVAL" /\ blk' = "done"
       ELSE ret' = ret /\ blk' = "host"
    /\ UNCHANGED <<capacity, block_size, disk, req, data, before, io>>

(* hypercall_block_read/write(): pos is a non-negative off_t, because      *)
(* capacity is; the sum of pos and len may not be an off_t.                *)
AddOverflow(a, b) == a + b > SSizeMax

HvtRefusesWrapped ==
    \/ ~mft_get_by_index(req.handle, "BLOCK_BASIC")
    \/ req.offset >= capacity
    \/ (req.offset + req.len) % Word > capacity

HvtRefuses ==
    \/ ~mft_get_by_index(req.handle, "BLOCK_BASIC")
    \/ req.len > SSizeMax \/ req.offset >= capacity
    \/ AddOverflow(req.offset, req.len)
    \/ req.offset + req.len > capacity

(* The rules for pread64 and pwrite64; everything else kills the guest.    *)
FilterAllowsLess ==
    /\ mft_get_by_index(req.handle, "BLOCK_BASIC")
    /\ req.len = block_size /\ req.offset < LastBlock

FilterAllows ==
    /\ mft_get_by_index(req.handle, "BLOCK_BASIC")
    /\ req.len = block_size /\ req.offset <= LastBlock

(* hvt_vcpu_loop() exits if no block device is attached, for then nobody   *)
(* registered the hypercall.                                               *)
HvtDispatch ==
    /\ blk = "host" /\ target # "spt"
    /\ blk' = IF Entries("BLOCK_BASIC") = {} THEN "exited"
              ELSE IF HvtRefuses THEN "done" ELSE "io"
    /\ ret' = IF blk' = "done" THEN "EINVAL" ELSE ret
    /\ UNCHANGED <<capacity, block_size, disk, req, data, before, io>>

SptSyscall ==
    /\ blk = "host" /\ target = "spt"
    /\ blk' = IF FilterAllows THEN "io" ELSE "killed"
    /\ UNCHANGED <<capacity, block_size, disk, req, ret, data, before, io>>

(* pread() or pwrite() of n bytes of the request; n < len is a failure, a  *)
(* short transfer or the end of the file, which hvt does not survive.      *)
Overwrite(d, pos, n, value) ==
    [i \in DOMAIN d \cup (pos .. pos + n - 1) |->
        IF i \in pos .. pos + n - 1 THEN value ELSE d[i]]

TransferUnchecked(n) ==
    /\ blk = "io"
    /\ req.op = "read" /\ n > 0 => req.offset + n <= Cardinality(DOMAIN disk)
    /\ io' = [pos |-> req.offset, len |-> req.len]
    /\ IF req.op = "write"
       THEN disk' = Overwrite(disk, req.offset, n, req.value) /\ data' = data
       ELSE disk' = disk /\ data' = [i \in 1 .. n |-> disk[req.offset + i - 1]]
    /\ ret' = "OK" /\ blk' = "done"
    /\ UNCHANGED <<capacity, block_size, req, before>>

Transfer(n) ==
    /\ blk = "io"
    /\ req.op = "read" /\ n > 0 => req.offset + n <= Cardinality(DOMAIN disk)
    /\ io' = [pos |-> req.offset, len |-> req.len]
    /\ IF req.op = "write"
       THEN disk' = Overwrite(disk, req.offset, n, req.value) /\ data' = data
       ELSE disk' = disk /\ data' = [i \in 1 .. n |-> disk[req.offset + i - 1]]
    /\ ret' = IF n = req.len THEN "OK" ELSE "EUNSPEC"
    /\ blk' = IF n = req.len \/ target = "spt" THEN "done" ELSE "exited"
    /\ UNCHANGED <<capacity, block_size, req, before>>

BlockReturn ==
    /\ blk = "done"
    /\ blk' = "app" /\ req' = NoReq /\ ret' = "NONE" /\ data' = <<>>
    /\ before' = disk /\ io' = NoIo
    /\ UNCHANGED <<capacity, block_size, disk>>

(* A guest that the tender or the filter stopped stays stopped.            *)
BlockStopped == blk \in {"exited", "killed"} /\ UNCHANGED blkVars

BlockNext(requests) ==
    \/ BlockSetup
    \/ \E r \in requests : BlockCall(r)
    \/ Bindings \/ HvtDispatch \/ SptSyscall
    \/ \E n \in 0 .. req.len : Transfer(n)
    \/ BlockReturn \/ BlockStopped

-----------------------------------------------------------------------------

BlockTypeOK ==
    /\ blk \in {"attach", "app", "bindings", "host", "io", "done", "exited", "killed"}
    /\ capacity \in 0 .. SSizeMax /\ block_size \in 0 .. SSizeMax
    /\ ret \in {"NONE", "OK", "EINVAL", "EUNSPEC"}

(* No request, whatever its offset and size, makes the tender or the       *)
(* kernel transfer a byte outside the backing storage or extend the file,  *)
(* although offset + len may not fit the type it is computed in.           *)
BlockInBounds ==
    /\ io.pos + io.len <= capacity
    /\ DOMAIN disk = 0 .. capacity - 1

(* How a block call ends, alike on both targets although they divide the   *)
(* checks differently.  It is refused, with no effect, exactly when it is  *)
(* not for one whole aligned block of a block device; solo5.h:59-60 has a  *)
(* call for a device that is not there abort instead.  One that succeeds   *)
(* has transferred that block and nothing else.  One that fails has        *)
(* written at most the beginning of its block.  solo5.h:330-331 rules that *)
(* out; on hvt no guest sees it, for the tender exits, on spt it may.      *)
BlockCallKept ==
    ret \in {"OK", "EINVAL", "EUNSPEC"} /\ ~req.raw =>
        LET block == req.offset .. req.offset + req.len - 1
            valid == /\ req.handle \in Entries("BLOCK_BASIC")
                     /\ req.len = block_size /\ req.offset % block_size = 0
                     /\ block \subseteq 0 .. capacity - 1 IN
        /\ valid <=> ret # "EINVAL"
        /\ blk = IF ret = "EUNSPEC" /\ target # "spt" THEN "exited" ELSE "done"
        /\ ret = "EINVAL" \/ req.op = "read" => disk = before
        /\ ret = "OK" /\ req.op = "read" => data = [i \in 1 .. req.len |-> disk[req.offset + i - 1]]
        /\ ret # "EINVAL" /\ req.op = "write" =>
              /\ \A i \in DOMAIN disk \ block : disk[i] = before[i]
              /\ \E n \in 0 .. req.len :
                    /\ ret = "OK" => n = req.len
                    /\ \A i \in block : disk[i] = IF i < req.offset + n THEN req.value ELSE before[i]

(* A guest that uses the calls of solo5.h is never killed by the seccomp   *)
(* filter, which is as wide as the checks of the bindings, and the hvt     *)
(* tender gives up only on a failed transfer.                              *)
GuestSurvives ==
    /\ blk = "killed" => req.raw
    /\ blk = "exited" => req.raw \/ req = NoReq \/ ret = "EUNSPEC"

(* What an application may expect of its block calls: both of the above.   *)
BlockPromise == BlockCallKept /\ GuestSurvives
=============================================================================
