------------------------------ MODULE HostWait ------------------------------
(***************************************************************************)
(* solo5_yield() and solo5_net_read() of a guest with a tender on a Unix   *)
(* host.  On hvt the guest reads its TSC clock and passes the time left to *)
(* hypercall_poll() in the tender; on spt the bindings make the system     *)
(* calls themselves, with the deadline as an absolute time.  On Linux      *)
(* both wait in epoll for the taps and for a timerfd; on the BSDs          *)
(* the timeout is an argument of kevent().                                 *)
(*                                                                         *)
(* The kernel is modelled from how this code uses it: a descriptor is      *)
(* reported for as long as it is readable, a wait reports as many          *)
(* readable descriptors as it was asked for, in any order, and a timerfd   *)
(* set to zero is disarmed.  A signal (EINTR) makes the Linux waits call   *)
(* epoll again, which changes no state.                                    *)
(***************************************************************************)
EXTENDS Mft, TscClock, FiniteSets, FiniteSetsExt

CONSTANTS
    Deadlines,    \* deadlines an application passes
    MaxPackets,   \* packets a tap holds
    MaxTsc,       \* bound on the TSC when a call is made
    Timer, Off    \* the timerfd among the events; no time

ASSUME WaitAssumption ==
    /\ Deadlines \subseteq Nat /\ MaxPackets \in Nat /\ Off \notin Nat
    /\ \A m \in Manifests : IsFiniteSet(DOMAIN m) /\ Timer \notin DOMAIN m

VARIABLES
    tap,                             \* packets waiting at each tap
    timer,                           \* when the timer fires, or Off
    yield,                           \* where the guest is in solo5_yield
    deadline, timeout_nsecs, ready_set,
    atCall, due, interrupted         \* history: taps readable when the call
                                     \* was made, time it may first return
                                     \* empty-handed, kevent() saw EINTR

waitCall == <<yield, deadline, timeout_nsecs, ready_set, atCall, due, interrupted>>
waitVars == <<tap, timer, waitCall>>

(* CLOCK_MONOTONIC of the host; the TSC is its source.                     *)
HostNow == (tsc * NsecPerSec) \div freq

Taps == Entries("NET_BASIC")
Readable == {h \in Taps : tap[h] > 0}
TimerReadable == timer # Off /\ HostNow >= timer

WaitInit ==
    /\ tap = [h \in Taps |-> 0] /\ timer = Off /\ yield = "app"
    /\ deadline = 0 /\ timeout_nsecs = 0 /\ ready_set = {}
    /\ atCall = {} /\ due = 0 /\ interrupted = FALSE

(* Time passes; past the bound only until the timer of a wait fires.       *)
TimePasses ==
    /\ yield # "exited"
    /\ tsc < MaxTsc \/ (yield = "wait" /\ timer # Off /\ ~TimerReadable)
    /\ Tick
    /\ UNCHANGED waitVars

PacketArrives(h) ==
    /\ yield # "exited" /\ tap[h] < MaxPackets
    /\ tap' = [tap EXCEPT ![h] = @ + 1]
    /\ UNCHANGED <<timer, waitCall, tscVars>>

(* solo5_yield() is called.                                                *)
YieldCall(d) ==
    /\ yield = "app" /\ tsc < MaxTsc
    /\ target # "spt" => clk = "running"
    /\ deadline' = d /\ atCall' = Readable /\ interrupted' = FALSE
    /\ yield' = IF target = "spt" THEN "arm" ELSE "clock"
    /\ due' = IF target = "spt" THEN d ELSE due
    /\ UNCHANGED <<tap, timer, timeout_nsecs, ready_set, tscVars>>

(* hvt: the time left by the guest's clock, which the tender is to wait.   *)
TimeLeft(now) == IF deadline <= now THEN 0 ELSE deadline - now

YieldClock ==
    /\ yield = "clock"
    /\ tscclock_monotonic
    /\ timeout_nsecs' = TimeLeft(time_base')
    /\ due' = HostNow + timeout_nsecs'
    /\ yield' = "arm"
    /\ UNCHANGED <<tap, timer, deadline, ready_set, atCall, interrupted>>

(* it_value.tv_nsec |= 1; a second has an even number of nanoseconds.      *)
AsIs(ns) == ns

NonZero(ns) == ns + 1 - (ns % 2)

(* timerfd_settime(), which also forgets an expiry nobody has read.        *)
SetTime(at, value) == IF value = 0 THEN Off ELSE at

ArmOnce ==
    /\ yield = "arm"
    /\ timer' = IF timer = Off THEN HostNow + NonZero(timeout_nsecs) ELSE timer
    /\ yield' = "wait"
    /\ UNCHANGED <<tap, deadline, timeout_nsecs, ready_set, atCall, due, interrupted,
                   tscVars>>

Arm ==
    /\ yield = "arm"
    /\ timer' = CASE target = "hvt" ->
                       SetTime(HostNow + NonZero(timeout_nsecs), NonZero(timeout_nsecs))
                  [] target = "spt" -> SetTime(NonZero(deadline), NonZero(deadline))
                  [] OTHER -> HostNow + timeout_nsecs
    /\ yield' = "wait"
    /\ UNCHANGED <<tap, deadline, timeout_nsecs, ready_set, atCall, due, interrupted,
                   tscVars>>

(* The number of events asked for: on Linux the timerfd is one of them.    *)
OneEach == IF Taps = {} THEN 1 ELSE Cardinality(Taps)

nevents ==
    IF Taps = {} THEN 1 ELSE Cardinality(Taps) + (IF target = "hvt_bsd" THEN 0 ELSE 1)

(* epoll_pwait() or kevent() returns; the timer is no handle.              *)
WaitEnds ==
    /\ yield = "wait"
    /\ LET events == Readable \cup
                     (IF TimerReadable /\ target # "hvt_bsd" THEN {Timer} ELSE {}) IN
       /\ events # {} \/ TimerReadable
       /\ \E reported \in SUBSET events :
             /\ Cardinality(reported) = Min({Cardinality(events), nevents})
             /\ ready_set' = reported \ {Timer}
    /\ yield' = "done"
    /\ UNCHANGED <<tap, timer, deadline, timeout_nsecs, atCall, due, interrupted,
                   tscVars>>

(* kevent() is interrupted: the BSD code reports that nothing is ready.    *)
KeventInterrupted ==
    /\ yield = "wait" /\ target = "hvt_bsd"
    /\ ready_set' = {} /\ interrupted' = TRUE /\ yield' = "done"
    /\ UNCHANGED <<tap, timer, deadline, timeout_nsecs, atCall, due, tscVars>>

YieldReturn ==
    /\ yield = "done" /\ yield' = "app"
    /\ deadline' = 0 /\ timeout_nsecs' = 0 /\ ready_set' = {}
    /\ atCall' = {} /\ due' = 0 /\ interrupted' = FALSE
    /\ UNCHANGED <<tap, timer, tscVars>>

(* solo5_net_read() of a handle, without the rings of module HvtRing: the  *)
(* hypercall or the system call reads the non-blocking tap.  A handle of   *)
(* no network device (EINVAL) and an empty tap (AGAIN) change nothing.     *)
solo5_net_read(h) ==
    /\ yield = "app"
    /\ mft_get_by_index(h, "NET_BASIC") /\ tap[h] > 0
    /\ tap' = [tap EXCEPT ![h] = @ - 1]
    /\ UNCHANGED <<timer, waitCall, tscVars>>

(* solo5_exit(): HVT_HYPERCALL_HALT ends the vcpu loop, exit_group() the   *)
(* process.                                                                *)
Exit ==
    /\ yield = "app"
    /\ target # "spt" => clk = "running"
    /\ yield' = "exited"
    /\ UNCHANGED <<tap, timer, deadline, timeout_nsecs, ready_set, atCall, due,
                   interrupted, tscVars>>

Exited == yield = "exited" /\ UNCHANGED <<waitVars, tscVars>>

WaitNext ==
    \/ TimePasses
    \/ target # "spt" /\ (Scale \/ Base) /\ UNCHANGED waitVars
    \/ \E h \in Taps : PacketArrives(h)
    \/ \E d \in Deadlines : YieldCall(d)
    \/ YieldClock \/ Arm \/ WaitEnds \/ KeventInterrupted \/ YieldReturn
    \/ Exit \/ Exited
    \/ \E h \in DOMAIN mft : solo5_net_read(h)

-----------------------------------------------------------------------------

WaitTypeOK ==
    /\ tap \in [Taps -> 0 .. MaxPackets] /\ timer \in Nat \cup {Off}
    /\ yield \in {"app", "clock", "arm", "wait", "done", "exited"}
    /\ deadline \in Deadlines \cup {0} /\ timeout_nsecs \in Nat /\ ready_set \subseteq Taps
    /\ atCall \subseteq Taps /\ due \in Nat /\ interrupted \in BOOLEAN

(* solo5_yield() reports every network device that was readable when it    *)
(* was called, however many are and whether or not the timer fires too,    *)
(* and no device that is not readable.                                     *)
YieldReportsReady ==
    yield = "done" =>
        /\ ready_set \subseteq Readable
        /\ ~interrupted => atCall \subseteq ready_set

(* solo5_yield() with nothing to report has waited for as long as it was   *)
(* asked to: a timer left over from an earlier call does not end it.       *)
YieldNotEarly ==
    yield = "done" /\ ready_set = {} /\ ~interrupted => HostNow >= due

(* On hvt an application that yields until its deadline, and looks at the  *)
(* clock when nothing was ready, finds it short of the deadline by less    *)
(* than two nanoseconds and the rounding of the multiplier.                *)
DeadlineAlmostReached ==
    yield = "done" /\ ready_set = {} /\ ~interrupted /\ target # "spt" =>
        (deadline - time_base - mul64_32(tsc - tsc_base)) * (2 ^ tsc_shift)
            < 2 * (2 ^ tsc_shift) + (tsc - tsc_base)

(* What solo5_yield() promises when it returns: all of the above.          *)
YieldKept == YieldReportsReady /\ YieldNotEarly /\ DeadlineAlmostReached

(* On spt solo5_yield() keeps the promise of solo5.h to the letter: the    *)
(* clock it waits on is the one the application reads.  (On hvt it falls   *)
(* short of it as in DeadlineAlmostReached, and on the BSDs when a signal  *)
(* interrupts kevent().)                                                   *)
Promise == INSTANCE SoloYield WITH
    Devices   <- UNION {DOMAIN m : m \in Manifests},
    phase     <- CASE yield \in {"app", "exited"} -> "app" [] yield = "done" -> "back"
                   [] OTHER -> "call",
    clock     <- HostNow,
    input     <- Readable,
    had       <- IF yield \in {"app", "exited"} THEN {} ELSE Readable,
    kept      <- atCall,
    ready_set <- IF yield = "done" THEN ready_set ELSE {}

SptImplementsYield == target = "spt" => Promise!Spec
=============================================================================
