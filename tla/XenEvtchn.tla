------------------------------ MODULE XenEvtchn ------------------------------
(***************************************************************************)
(* Event channels on Xen (bindings/xen/evtchn.c), the one-shot timer that  *)
(* solo5_yield sleeps on (xen/time.c), and the interrupt path between them *)
(* (intr.c, cpu_x86_64.c, xen/platform_intr.c).                            *)
(*                                                                         *)
(* Three parties interleave: the guest's only thread, the upcall handler   *)
(* that interrupts it on the same CPU, and Xen, which raises an event in   *)
(* four atomic steps (pending bit, mask, selector, upcall flag) on another *)
(* CPU.  Xen is modelled from the hypercalls and shared fields the         *)
(* bindings use.  Ports are bits of the first word of the bitmaps, so the  *)
(* selector is one bit.                                                    *)
(***************************************************************************)
EXTENDS Integers

CONSTANTS
    Ports,        \* event channel ports, all <= EVTCHN_PORT_MAX
    TimerPort,    \* bound to VIRQ_TIMER by time_init
    MaxTime       \* bound on the clock

ASSUME XenAssumption == Ports \subseteq Nat /\ TimerPort \in Ports /\ MaxTime \in Nat

VARIABLES
    pending, mask,   \* shared_info: sets of ports
    sel, upcall,     \* vcpu_info: evtchn_pending_sel, evtchn_upcall_pending
    raising,         \* how far Xen is with raising each port
    vector,          \* the upcall vector is registered
    irr, isr,        \* local APIC: vector requested, in service
    timer,           \* when the one-shot timer fires, or Never
    left,            \* a timer was left armed by whoever ran before the guest
    now,             \* time
    pc, hpc,         \* the guest's thread; the handler, if it runs
    iflag,           \* RFLAGS.IF
    depth,           \* cpu_intr_depth
    handlers,        \* ports that have a handler
    l1, port,        \* locals of evtchn_vector_handler
    timer_fired, deadline,
    unhandled        \* an event without a handler was logged

xenvars == <<pending, mask, sel, upcall, raising, vector, irr, timer, now, left>>
cpu == <<isr, iflag, depth>>
handler == <<hpc, l1, port, unhandled>>
thread == <<pc, handlers, deadline>>
evtvars == <<xenvars, cpu, handler, thread, timer_fired>>

Never == -1

(* What platform_init leaves: the shared page mapped with nothing masked,  *)
(* interrupts off, the console in use.  A boot loader may have left its    *)
(* one-shot timer armed.                                                   *)
EvtInit ==
    /\ pending = {} /\ mask = {} /\ sel = FALSE /\ upcall = FALSE
    /\ raising = [p \in Ports |-> "no"] /\ vector = FALSE
    /\ irr = FALSE /\ isr = FALSE /\ now = 0
    /\ left \in BOOLEAN /\ timer = IF left THEN 0 ELSE Never
    /\ pc = "mask" /\ hpc = "none" /\ iflag = FALSE /\ depth = 1 /\ handlers = {}
    /\ l1 = FALSE /\ port = TimerPort /\ timer_fired = FALSE /\ deadline = 0
    /\ unhandled = FALSE

-----------------------------------------------------------------------------
(* Xen.                                                                    *)

RaiseStep(p, from, to) == raising[p] = from /\ raising' = [raising EXCEPT ![p] = to]

(* Sets the pending bit; a port that is already pending is left at that.   *)
Raise(p) ==
    /\ raising[p] = "no"
    /\ raising' = [raising EXCEPT ![p] = IF p \in pending THEN "no" ELSE "mask"]
    /\ pending' = pending \cup {p}
    /\ UNCHANGED <<mask, sel, upcall, vector, irr>>

RaiseMask(p) ==
    /\ RaiseStep(p, "mask", IF p \in mask THEN "no" ELSE "sel")
    /\ UNCHANGED <<pending, mask, sel, upcall, vector, irr>>

RaiseSel(p) ==
    /\ RaiseStep(p, "sel", IF sel THEN "no" ELSE "upcall") /\ sel' = TRUE
    /\ UNCHANGED <<pending, mask, upcall, vector, irr>>

RaiseUpcall(p) ==
    /\ RaiseStep(p, "upcall", "no")
    /\ upcall' = TRUE /\ irr' = (irr \/ (vector /\ ~upcall))
    /\ UNCHANGED <<pending, mask, sel, vector>>

Quiet == UNCHANGED <<timer, now, left, cpu, handler, thread, timer_fired>>

XenRaise == \E p \in Ports : RaiseMask(p) \/ RaiseSel(p) \/ RaiseUpcall(p)

(* Another domain (xenconsoled) notifies a port bound to it.               *)
Notified == \E p \in Ports \ {TimerPort} : Raise(p) /\ Quiet

Bound == pc \notin {"mask", "bind"}

(* The timer fires once, when its time has come; to no effect as long as   *)
(* VIRQ_TIMER is not bound to a port.                                      *)
TimerFires ==
    /\ timer # Never /\ now >= timer /\ timer' = Never
    /\ IF Bound THEN Raise(TimerPort)
                ELSE UNCHANGED <<pending, mask, sel, upcall, raising, vector, irr>>
    /\ UNCHANGED <<now, left, cpu, handler, thread, timer_fired>>

Tick ==
    /\ now < MaxTime /\ now' = now + 1
    /\ UNCHANGED <<pending, mask, sel, upcall, raising, vector, irr, timer, left,
                   cpu, handler, thread, timer_fired>>

Xen == (XenRaise /\ Quiet) \/ TimerFires

-----------------------------------------------------------------------------
(* The upcall: intr_irq_handler and evtchn_vector_handler, which run with  *)
(* interrupts off.                                                         *)

(* Taken when interrupts are enabled; ends a hlt.                          *)
Interrupt ==
    /\ irr /\ ~isr /\ iflag
    /\ irr' = FALSE /\ isr' = TRUE /\ iflag' = FALSE /\ hpc' = "upcall"
    /\ pc' = IF pc = "hlt" THEN "cli" ELSE pc
    /\ UNCHANGED <<pending, mask, sel, upcall, raising, vector, timer, now, left, depth,
                   l1, port, unhandled, handlers, deadline, timer_fired>>

Handle(from, to) ==
    /\ hpc = from /\ hpc' = to
    /\ UNCHANGED <<mask, raising, vector, irr, timer, now, left, depth, thread>>

HandleUpcall ==
    /\ Handle("upcall", "sel") /\ upcall' = FALSE
    /\ UNCHANGED <<pending, sel, isr, iflag, l1, port, unhandled, timer_fired>>

HandleSel ==
    /\ Handle("sel", "scan") /\ l1' = sel /\ sel' = FALSE
    /\ UNCHANGED <<pending, upcall, isr, iflag, port, unhandled, timer_fired>>

(* Mutant: masked events are demultiplexed as well.                        *)
ActiveOrMasked == pending
Active == pending \ mask

(* The inner loop: the lowest active port; when there is none, the handler *)
(* is done and the interrupt is acknowledged.                              *)
HandleScan ==
    /\ hpc = "scan" /\ l1 /\ Active # {}
    /\ hpc' = "handle"
    /\ \E p \in Active : port' = p /\ \A q \in Active : p <= q
    /\ UNCHANGED <<pending, mask, raising, vector, irr, timer, now, left, depth, thread,
                   sel, upcall, isr, iflag, l1, unhandled, timer_fired>>

HandleDone ==
    /\ hpc = "scan" /\ (l1 => Active = {})
    /\ hpc' = "none" /\ l1' = FALSE /\ port' = TimerPort /\ isr' = FALSE /\ iflag' = TRUE
    /\ UNCHANGED <<pending, mask, raising, vector, irr, timer, now, left, depth, thread,
                   sel, upcall, unhandled, timer_fired>>

(* time_event_handler, or the log of an unhandled event.                   *)
HandlePort ==
    /\ Handle("handle", "clear")
    /\ IF port \in handlers THEN timer_fired' = TRUE /\ UNCHANGED unhandled
                            ELSE unhandled' = TRUE /\ UNCHANGED timer_fired
    /\ UNCHANGED <<pending, sel, upcall, isr, iflag, l1, port>>

HandleClear ==
    /\ Handle("clear", "scan") /\ pending' = pending \ {port}
    /\ UNCHANGED <<sel, upcall, isr, iflag, l1, port, unhandled, timer_fired>>

Handler ==
    \/ Interrupt \/ HandleUpcall \/ HandleSel \/ HandleScan \/ HandleDone
    \/ HandlePort \/ HandleClear

-----------------------------------------------------------------------------
(* The guest's thread, which steps only when the handler does not run.     *)

Step(from, to) ==
    /\ hpc = "none" /\ pc = from /\ pc' = to
    /\ UNCHANGED <<pending, raising, upcall, now, left, handler, isr>>

(* evtchn_init: mask every port, from the lowest.                          *)
MaskPort ==
    /\ mask # Ports /\ Step("mask", "mask")
    /\ \E p \in Ports \ mask : mask' = mask \cup {p} /\ \A q \in Ports \ mask : p <= q
    /\ UNCHANGED <<sel, vector, irr, timer, iflag, depth, handlers, deadline, timer_fired>>

(* intr_register_irq, then hypercall_set_evtchn_upcall_vector, upon which  *)
(* Xen requests the vector once.                                           *)
SetVector ==
    /\ mask = Ports /\ Step("mask", "bind")
    /\ vector' = TRUE /\ irr' = TRUE
    /\ UNCHANGED <<mask, sel, timer, iflag, depth, handlers, deadline, timer_fired>>

(* time_init: evtchn_bind_virq, evtchn_register_handler, whose             *)
(* cpu_intr_enable only restores the depth, and evtchn_unmask.             *)
BindVirq ==
    /\ Step("bind", "register")
    /\ UNCHANGED <<mask, sel, vector, irr, timer, iflag, depth, handlers, deadline, timer_fired>>

(* Mutant: cpu_intr_enable without the cpu_intr_disable before it.         *)
RegisterUnbalanced ==
    /\ Step("register", "unmask") /\ handlers' = handlers \cup {TimerPort}
    /\ depth' = depth - 1 /\ iflag' = TRUE
    /\ UNCHANGED <<mask, sel, vector, irr, timer, deadline, timer_fired>>

Register ==
    /\ Step("register", "unmask") /\ handlers' = handlers \cup {TimerPort}
    /\ UNCHANGED <<mask, sel, vector, irr, timer, iflag, depth, deadline, timer_fired>>

Unmask ==
    /\ Step("unmask", "test") /\ mask' = mask \ {TimerPort}
    /\ UNCHANGED <<sel, vector, irr, timer, iflag, depth, handlers, deadline, timer_fired>>

(* Mutant: the port is unmasked without a look at what came before.        *)
UnmaskNoTest ==
    /\ Step("test", "enable")
    /\ UNCHANGED <<mask, sel, vector, irr, timer, iflag, depth, handlers, deadline, timer_fired>>

UnmaskTest ==
    /\ Step("test", IF TimerPort \in pending THEN "remask" ELSE "enable")
    /\ UNCHANGED <<mask, sel, vector, irr, timer, iflag, depth, handlers, deadline, timer_fired>>

UnmaskAgain ==
    /\ Step("remask", "hypercall") /\ mask' = mask \cup {TimerPort}
    /\ UNCHANGED <<sel, vector, irr, timer, iflag, depth, handlers, deadline, timer_fired>>

(* hypercall_evtchn_unmask: Xen unmasks and, if the port is pending,       *)
(* raises the upcall it had withheld.                                      *)
UnmaskHypercall ==
    /\ hpc = "none" /\ pc = "hypercall" /\ pc' = "enable"
    /\ mask' = mask \ {TimerPort}
    /\ IF TimerPort \in pending /\ ~sel
         THEN sel' = TRUE /\ upcall' = TRUE /\ irr' = (irr \/ (vector /\ ~upcall))
         ELSE UNCHANGED <<sel, upcall, irr>>
    /\ UNCHANGED <<pending, raising, vector, timer, now, left, handler, isr, iflag,
                   depth, handlers, deadline, timer_fired>>

(* cpu_intr_enable.                                                        *)
IntrEnable ==
    /\ Step("enable", "app")
    /\ depth' = depth - 1 /\ iflag' = (depth' = 0)
    /\ UNCHANGED <<mask, sel, vector, irr, timer, handlers, deadline, timer_fired>>

Start ==
    \/ MaskPort \/ SetVector \/ BindVirq \/ Register \/ Unmask \/ UnmaskTest \/ UnmaskAgain
    \/ UnmaskHypercall \/ IntrEnable

-----------------------------------------------------------------------------
(* solo5_yield.                                                            *)

YieldStep(from, to) ==
    /\ Step(from, to) /\ UNCHANGED <<mask, sel, vector, irr, depth, handlers>>

(* solo5_yield(d), when the clock reads t, which is not ahead of the time. *)
YieldCall(t) ==
    /\ \E d \in 0 .. MaxTime :
          deadline' = d /\ YieldStep("app", IF t < d THEN "reset" ELSE "return")
    /\ UNCHANGED <<timer, iflag, timer_fired>>

(* Mutant: timer_fired is left from the last call.                         *)
YieldNoReset ==
    /\ YieldStep("reset", "set_timer") /\ UNCHANGED <<timer, iflag, deadline, timer_fired>>

YieldReset ==
    /\ YieldStep("reset", "set_timer") /\ timer_fired' = FALSE
    /\ UNCHANGED <<timer, iflag, deadline>>

(* hypercall_set_timer_op.                                                 *)
YieldSetTimer ==
    /\ YieldStep("set_timer", "cli") /\ timer' = deadline
    /\ UNCHANGED <<iflag, deadline, timer_fired>>

(* Mutant: interrupts stay enabled up to the hlt.                          *)
YieldNoCli ==
    /\ YieldStep("cli", "check") /\ UNCHANGED <<timer, iflag, deadline, timer_fired>>

(* Mutant: timer_fired is reset in the loop.                               *)
YieldCliReset ==
    /\ YieldStep("cli", "check") /\ iflag' = FALSE /\ timer_fired' = FALSE
    /\ UNCHANGED <<timer, deadline>>

YieldCli ==
    /\ YieldStep("cli", "check") /\ iflag' = FALSE
    /\ UNCHANGED <<timer, deadline, timer_fired>>

YieldCheck ==
    /\ YieldStep("check", IF timer_fired THEN "sti" ELSE "sti_hlt")
    /\ UNCHANGED <<timer, iflag, deadline, timer_fired>>

(* sti; hlt: no interrupt is taken between the two.                        *)
YieldStiHlt ==
    /\ YieldStep("sti_hlt", "hlt") /\ iflag' = TRUE
    /\ UNCHANGED <<timer, deadline, timer_fired>>

YieldSti ==
    /\ YieldStep("sti", "return") /\ iflag' = TRUE
    /\ UNCHANGED <<timer, deadline, timer_fired>>

YieldReturn ==
    /\ YieldStep("return", "app") /\ deadline' = 0
    /\ UNCHANGED <<timer, iflag, timer_fired>>

Yield ==
    \/ YieldReset \/ YieldSetTimer \/ YieldCli \/ YieldCheck \/ YieldStiHlt
    \/ YieldSti \/ YieldReturn

-----------------------------------------------------------------------------
EvtNext == Xen \/ Notified \/ Tick \/ Handler \/ Start \/ Yield
           \/ \E t \in 0 .. now : YieldCall(t)

EvtSpec == EvtInit /\ [][EvtNext]_evtvars

-----------------------------------------------------------------------------
Yielding == pc \in {"reset", "set_timer", "cli", "check", "sti_hlt", "hlt", "sti", "return"}

(* Type invariant; interrupts are only ever enabled at depth zero.         *)
EvtTypeOK ==
    /\ pending \subseteq Ports /\ mask \subseteq Ports /\ handlers \subseteq Ports
    /\ sel \in BOOLEAN /\ upcall \in BOOLEAN /\ vector \in BOOLEAN
    /\ irr \in BOOLEAN /\ isr \in BOOLEAN /\ iflag \in BOOLEAN /\ l1 \in BOOLEAN
    /\ timer_fired \in BOOLEAN /\ unhandled \in BOOLEAN
    /\ raising \in [Ports -> {"no", "mask", "sel", "upcall"}]
    /\ timer \in 0 .. MaxTime \cup {Never} /\ left \in BOOLEAN /\ now \in 0 .. MaxTime
    /\ deadline \in 0 .. MaxTime /\ port \in Ports /\ depth \in 0 .. 1
    /\ pc \in {"mask", "bind", "register", "unmask", "test", "remask", "hypercall",
               "enable", "app", "reset", "set_timer", "cli", "check", "sti_hlt", "hlt", "sti", "return"}
    /\ hpc \in {"none", "upcall", "sel", "scan", "handle", "clear"}
    /\ iflag => depth = 0

(* evtchn_unmask is between clearing the mask bit and its last word on it. *)
Unmasking == pc \in {"test", "remask", "hypercall"}

(* No upcall is lost: an event that is pending and not masked is still     *)
(* being raised, or its selector bit is set, or the handler's loop or the  *)
(* slow path of evtchn_unmask has yet to look; a set selector bit has the  *)
(* upcall flag set or about to be; and the flag has the vector requested.  *)
NoLostUpcall ==
    /\ \A p \in pending \ mask :
          \/ sel \/ raising[p] \in {"mask", "sel"}
          \/ l1 /\ hpc \in {"scan", "handle", "clear"}
          \/ p = TimerPort /\ Unmasking
          \/ ~vector
    /\ sel => upcall \/ hpc = "sel" \/ \E p \in Ports : raising[p] = "upcall"
    /\ upcall /\ vector => irr \/ hpc = "upcall"

(* The handler never meets an event without a handler, although console    *)
(* notifications come before evtchn_init has masked anything: it would log *)
(* it, and so enter console_write while the thread it interrupted may be   *)
(* inside console_write.                                                   *)
NoUnhandledEvent == ~unhandled

(* solo5_yield never returns before its deadline: a timer event of an      *)
(* earlier call is never taken for the one it waits for.  (One that a boot *)
(* loader's timer raised is: time_event_handler does not look at the time.) *)
YieldOnTime == ~left /\ pc \in {"sti", "return"} => now >= deadline

(* The timer event solo5_yield waits for is not lost, although the handler *)
(* clears the pending bit only after it has run: until the event is seen   *)
(* the timer is armed or the event is being raised or pending.             *)
TimerNotLost ==
    pc \in {"cli", "check", "sti_hlt", "hlt"} =>
        \/ timer_fired \/ timer # Never
        \/ TimerPort \in pending /\ ~(hpc = "clear" /\ port = TimerPort)

(* What solo5_yield relies on while it sleeps and when it wakes.           *)
SleepSound == YieldOnTime /\ TimerNotLost

(* Every solo5_yield returns, whatever notifications come in between: the  *)
(* thread never halts with the timer event behind it.                      *)
YieldReturns == Yielding ~> pc = "app"

(* solo5_yield, of which there is no network device to wait for, keeps the *)
(* promise of solo5.h: the loop around hlt, whatever interrupts it, is one *)
(* wait that ends at the deadline.                                         *)
Promise == INSTANCE SoloYield WITH
    Devices   <- {},
    phase     <- CASE pc = "return" -> "back" [] pc # "return" /\ Yielding -> "call"
                   [] OTHER -> "app",
    clock     <- now,
    input     <- {},
    had       <- {},
    kept      <- {},
    ready_set <- {}

XenImplementsYield == ~left => Promise!Spec
=============================================================================
