------------------------------- MODULE HvtGdb -------------------------------
(***************************************************************************)
(* The GDB stub of the hvt tender on KVM: gdb_handle_exception(), which    *)
(* serves a debugger while the guest is stopped, the lists of breakpoints, *)
(* and what of them reaches KVM and guest memory.                          *)
(*                                                                         *)
(* The debugger is modelled from how the stub uses it.  It asks for one    *)
(* kind of hardware breakpoint per address, does not write over a software *)
(* breakpoint it has inserted, and removes its breakpoints before it       *)
(* detaches.  Breakpoints here have length 1, the only one GDB uses for    *)
(* software breakpoints on x86_64, and the packets that change no state    *)
(* (?, g, m, unknown or malformed ones) are one action.  The registers are *)
(* not modelled.                                                           *)
(***************************************************************************)
EXTENDS Integers, FiniteSets

CONSTANTS
    Addrs,               \* guest addresses of interest
    MaxHwBreakpoints,    \* MAX_HW_BREAKPOINTS
    Insns, Int3          \* instructions other than int3, and int3

ASSUME GdbAssumption == Int3 \notin Insns /\ MaxHwBreakpoints \in Nat

HwTypes == {"HW", "WATCH"}

VARIABLES
    stub,                \* "connect", "reply", "command", "run", "exited", "aborted"
    next_stub,           \* where the stub goes when the reply is acknowledged
    connected, detached,
    stepping, sw_breakpoints, hw_breakpoints, nr_hw_breakpoints,
    kvm,                 \* what KVM_SET_GUEST_DEBUG last set
    code,                \* guest memory
    wrote, asked,        \* history: the contents without breakpoints, the
                         \* breakpoints whose insertion was acknowledged
    missed, stray        \* history: one was passed over; int3 ran unasked for

gdbLists == <<stepping, sw_breakpoints, hw_breakpoints, nr_hw_breakpoints, kvm, code>>
gdbHist == <<wrote, asked, missed, stray>>
gdbVars == <<stub, next_stub, connected, detached, gdbLists, gdbHist>>

GdbInit ==
    /\ stub = "connect" /\ next_stub = "command" /\ connected = FALSE /\ detached = FALSE
    /\ stepping = FALSE /\ sw_breakpoints = {} /\ hw_breakpoints = {} /\ nr_hw_breakpoints = 0
    /\ kvm = [step |-> FALSE, sw |-> FALSE, hw |-> {}]
    /\ code \in [Addrs -> Insns] /\ wrote = code
    /\ asked = {} /\ missed = FALSE /\ stray = FALSE

(* gdb_stub_start(): the guest has not run yet.                            *)
Connect ==
    /\ stub = "connect"
    /\ stub' = "reply" /\ next_stub' = "command" /\ connected' = TRUE
    /\ UNCHANGED <<detached, gdbLists, gdbHist>>

Reply(next) == stub' = "reply" /\ next_stub' = next

(* send_packet(): anything but '+' sends the packet again; a connection    *)
(* that is gone ends the wait.                                             *)
Acknowledged ==
    /\ stub = "reply" /\ stub' = next_stub
    /\ UNCHANGED <<next_stub, connected, detached, gdbLists, gdbHist>>

Disconnect ==
    /\ connected /\ stub \in {"reply", "command"}
    /\ connected' = FALSE
    /\ UNCHANGED <<stub, next_stub, detached, gdbLists, gdbHist>>

(* recv_packet() returns NULL.                                             *)
NoCommand ==
    /\ stub = "command" /\ ~connected /\ stub' = "exited"
    /\ UNCHANGED <<next_stub, connected, detached, gdbLists, gdbHist>>

(* hvt_gdb_update_guest_debug()                                            *)
UpdateNotEmptied ==
    kvm' = [step |-> stepping', sw |-> sw_breakpoints' # {},
            hw |-> IF hw_breakpoints' = {} THEN kvm.hw ELSE hw_breakpoints']

UpdateEither ==
    kvm' = [step |-> stepping', sw |-> sw_breakpoints' # {},
            hw |-> IF sw_breakpoints' # {} THEN {} ELSE hw_breakpoints']

UpdateGuestDebug ==
    kvm' = [step |-> stepping', sw |-> sw_breakpoints' # {}, hw |-> hw_breakpoints']

Resume(step) ==
    /\ stub = "command" /\ connected
    /\ stepping' = step /\ stub' = "run"
    /\ UNCHANGED <<sw_breakpoints, hw_breakpoints, nr_hw_breakpoints, code>>
    /\ UpdateGuestDebug
    /\ UNCHANGED <<next_stub, connected, detached, gdbHist>>

(* 'D': the stub answers and lets the guest run.                           *)
Detach ==
    /\ stub = "command" /\ connected /\ asked = {}
    /\ Reply("run") /\ detached' = TRUE
    /\ UNCHANGED <<connected, gdbLists, gdbHist>>

Query ==
    /\ stub = "command" /\ connected
    /\ Reply("command")
    /\ UNCHANGED <<connected, detached, gdbLists, gdbHist>>

WriteMemory(a, v) ==
    /\ stub = "command" /\ connected
    /\ [type |-> "SW", addr |-> a] \notin asked
    /\ code' = [code EXCEPT ![a] = v] /\ wrote' = [wrote EXCEPT ![a] = v]
    /\ Reply("command")
    /\ UNCHANGED <<connected, detached, stepping, sw_breakpoints, hw_breakpoints,
                   nr_hw_breakpoints, kvm, asked, missed, stray>>

(* bp_list_find(): the lists are searched by address and length.           *)
FindSw(a) == {bp \in sw_breakpoints : bp.addr = a}
FindHw(a) == {bp \in hw_breakpoints : bp.addr = a}

InsertSw(a) ==
    /\ stub = "command" /\ connected
    /\ IF FindSw(a) # {} THEN UNCHANGED gdbLists
       ELSE /\ sw_breakpoints' = sw_breakpoints \cup {[addr |-> a, saved |-> code[a]]}
            /\ code' = [code EXCEPT ![a] = Int3]
            /\ UNCHANGED <<stepping, hw_breakpoints, nr_hw_breakpoints>>
            /\ UpdateGuestDebug
    /\ asked' = asked \cup {[type |-> "SW", addr |-> a]}
    /\ Reply("command")
    /\ UNCHANGED <<connected, detached, wrote, missed, stray>>

(* One that is not in the list is an error; the code asserts int3 there.   *)
RemoveSwUnpatched(a) ==
    /\ stub = "command" /\ connected
    /\ IF FindSw(a) = {} THEN UNCHANGED gdbLists
       ELSE /\ sw_breakpoints' = sw_breakpoints \ FindSw(a)
            /\ UNCHANGED <<stepping, hw_breakpoints, nr_hw_breakpoints, code>>
            /\ UpdateGuestDebug
    /\ asked' = asked \ {[type |-> "SW", addr |-> a]}
    /\ Reply("command")
    /\ UNCHANGED <<connected, detached, wrote, missed, stray>>

RemoveSw(a) ==
    /\ stub = "command" /\ connected
    /\ IF FindSw(a) = {} THEN Reply("command") /\ UNCHANGED <<gdbLists, asked>>
       ELSE IF code[a] # Int3
       THEN stub' = "aborted" /\ UNCHANGED <<next_stub, gdbLists, asked>>
       ELSE /\ \E bp \in FindSw(a) : code' = [code EXCEPT ![a] = bp.saved]
            /\ sw_breakpoints' = sw_breakpoints \ FindSw(a)
            /\ UNCHANGED <<stepping, hw_breakpoints, nr_hw_breakpoints>>
            /\ UpdateGuestDebug
            /\ asked' = asked \ {[type |-> "SW", addr |-> a]}
            /\ Reply("command")
    /\ UNCHANGED <<connected, detached, wrote, missed, stray>>

(* There is an error when all debug registers are in use.                  *)
InsertHw(t, a) ==
    /\ stub = "command" /\ connected
    /\ \A bp \in asked : bp.type \in HwTypes /\ bp.addr = a => bp.type = t
    /\ IF FindHw(a) # {} THEN UNCHANGED <<gdbLists, asked>>
       ELSE IF nr_hw_breakpoints = MaxHwBreakpoints THEN UNCHANGED <<gdbLists, asked>>
       ELSE /\ hw_breakpoints' = hw_breakpoints \cup {[type |-> t, addr |-> a]}
            /\ nr_hw_breakpoints' = nr_hw_breakpoints + 1
            /\ UNCHANGED <<stepping, sw_breakpoints, code>>
            /\ UpdateGuestDebug
            /\ asked' = asked \cup {[type |-> t, addr |-> a]}
    /\ Reply("command")
    /\ UNCHANGED <<connected, detached, wrote, missed, stray>>

RemoveHwUncounted(a) ==
    /\ stub = "command" /\ connected
    /\ hw_breakpoints' = hw_breakpoints \ FindHw(a)
    /\ UNCHANGED <<stepping, sw_breakpoints, nr_hw_breakpoints, code>>
    /\ UpdateGuestDebug
    /\ asked' = {bp \in asked : bp.type = "SW" \/ bp.addr # a}
    /\ Reply("command")
    /\ UNCHANGED <<connected, detached, wrote, missed, stray>>

RemoveHw(a) ==
    /\ stub = "command" /\ connected
    /\ IF FindHw(a) = {} THEN UNCHANGED <<gdbLists, asked>>
       ELSE /\ hw_breakpoints' = hw_breakpoints \ FindHw(a)
            /\ nr_hw_breakpoints' = nr_hw_breakpoints - 1
            /\ UNCHANGED <<stepping, sw_breakpoints, code>>
            /\ UpdateGuestDebug
            /\ asked' = {bp \in asked : bp.type = "SW" \/ bp.addr # a}
    /\ Reply("command")
    /\ UNCHANGED <<connected, detached, wrote, missed, stray>>

-----------------------------------------------------------------------------

(* The guest executes the instruction at x and accesses the data at d.     *)
Traps(x, d) ==
    \/ kvm.step
    \/ kvm.sw /\ code[x] = Int3
    \/ \E bp \in kvm.hw : bp.addr = IF bp.type = "HW" THEN x ELSE d

GuestRuns(x, d) ==
    /\ stub = "run"
    /\ IF Traps(x, d) THEN Reply("command") ELSE UNCHANGED <<stub, next_stub>>
    /\ missed' = \/ missed
                 \/ ~Traps(x, d) /\ \E bp \in asked : bp.addr = IF bp.type = "WATCH" THEN d ELSE x
    /\ stray' = \/ stray
                \/ code[x] = Int3 /\ [type |-> "SW", addr |-> x] \notin asked
    /\ connected' = (connected /\ ~detached)
    /\ UNCHANGED <<detached, gdbLists, wrote, asked>>

(* KVM_EXIT_FAIL_ENTRY or KVM_EXIT_INTERNAL_ERROR is reported as a signal. *)
GuestFails ==
    /\ stub = "run" /\ Reply("command")
    /\ connected' = (connected /\ ~detached)
    /\ UNCHANGED <<detached, gdbLists, gdbHist>>

(* The guest halts: the tender ends, and handle_hvt_exit() says so.        *)
GuestHalts ==
    /\ stub = "run" /\ stub' = "exited"
    /\ UNCHANGED <<next_stub, connected, detached, gdbLists, gdbHist>>

GdbStopped == stub \in {"exited", "aborted"} /\ UNCHANGED gdbVars

GdbNext ==
    \/ Connect \/ Acknowledged \/ Disconnect \/ NoCommand
    \/ \E step \in BOOLEAN : Resume(step)
    \/ Detach \/ Query
    \/ \E a \in Addrs : \/ \E v \in Insns : WriteMemory(a, v)
                        \/ InsertSw(a) \/ RemoveSw(a) \/ RemoveHw(a)
                        \/ \E t \in HwTypes : InsertHw(t, a)
    \/ \E x \in Addrs, d \in Addrs : GuestRuns(x, d)
    \/ GuestFails \/ GuestHalts \/ GdbStopped

-----------------------------------------------------------------------------

GdbTypeOK ==
    /\ stub \in {"connect", "reply", "command", "run", "exited", "aborted"}
    /\ nr_hw_breakpoints = Cardinality(hw_breakpoints)
    /\ code \in [Addrs -> Insns \cup {Int3}]

(* A breakpoint whose insertion the stub acknowledged stops the guest      *)
(* whenever it is reached, whatever was inserted and removed around it.    *)
BreakpointsHit == ~missed

(* The guest sees its own code: it never runs into an int3 that is not a   *)
(* breakpoint of the debugger, and when the debugger has none at an        *)
(* address the original instruction, or what it wrote there, is back.      *)
CodeRestored ==
    /\ ~stray /\ stub # "aborted"
    /\ \A a \in Addrs : [type |-> "SW", addr |-> a] \notin asked => code[a] = wrote[a]

(* After a debugger has detached, the guest is stopped again (which ends   *)
(* the tender, for nobody answers) only if the debugger last resumed it    *)
(* with a single step, which 'D' does not switch off, or if the guest      *)
(* failed.                                                                 *)
DetachedRuns ==
    stub = "run" /\ detached /\ ~stepping => \A x, d \in Addrs : ~Traps(x, d)

(* Debugging leaves the guest as it would be without: both of the above.   *)
GuestUndisturbed == CodeRestored /\ DetachedRuns
=============================================================================
