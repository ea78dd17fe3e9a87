------------------------------ MODULE MuenYield ------------------------------
(***************************************************************************)
(* Clock, network handles and solo5_yield of the Muen bindings.  The clock *)
(* (muen-clock.c) does not read the TSC: it takes the start of the current *)
(* minor frame from the scheduling information, and within a frame moves   *)
(* on by min_delta at each call.  solo5_yield (muen-yield.c) polls every   *)
(* handle and the clock in turn; whether a channel has data to read is     *)
(* MuenChannel's matter, here it is a member of pending.                   *)
(*                                                                         *)
(* A call of solo5_clock_monotonic takes CallTicks of the TSC, a minor     *)
(* frame FrameTicks or more.  CallTicks >= Step is what the clock          *)
(* relies on: a call takes at least a nanosecond.  Bounds: MaxCalls calls  *)
(* of the application, MaxAway frames it is away between two calls of the  *)
(* clock, and MaxTsc, the TSC at which the model stops; with a time_info   *)
(* region, MuenYieldReturns shows that no call is cut off by it.           *)
(***************************************************************************)
EXTENDS Integers

CONSTANTS Handles,      \* indexes of the manifest
          NsecPerSec, TickRate,
          Fraction,     \* 2^32: scale and width of tsc_mult
          TscWord,      \* 2^64
          CallTicks, FrameTicks,
          Deadlines, MaxCalls, MaxAway, MaxTsc

(* The multiplier and the step that time_init computes.                    *)
Rate == ((NsecPerSec * Fraction) \div TickRate) % Fraction
Step == (TickRate + (NsecPerSec - 1)) \div NsecPerSec

ASSUME MuenClockAssumption ==
    /\ \E n \in 1 .. 64 : Handles = 0 .. n - 1
    /\ NsecPerSec \in Nat \ {0} /\ TickRate \in Nat /\ TickRate > NsecPerSec
    /\ Fraction \in Nat \ {0} /\ Deadlines \subseteq Nat
    /\ CallTicks \in Nat /\ CallTicks >= Step
    /\ FrameTicks \in CallTicks .. MaxTsc /\ MaxTsc \in Nat
    /\ TscWord \in Nat /\ TscWord > MaxTsc

VARIABLES
    m_pc,           \* where in time_init, solo5_yield or solo5_clock_monotonic
    region,         \* the subject has a time_info region
    published,      \* time_info->tsc_time_base is not 0
    now,            \* the TSC
    sched_start,    \* tsc_schedule_start: the TSC at the start of the frame
    next_start, current_start, tsc_base, time_base,
    reads,          \* calls of solo5_clock_monotonic so far
    acquired,
    pending,        \* channels with an element to read
    deadline, i, tmp_ready_set,
    had, kept,      \* acquired channels with data at some time, all the time
                    \* since the call of solo5_yield
    calls

cpu == <<now, sched_start, region, published>>
clock == <<next_start, current_start, tsc_base, time_base, reads>>
net == <<acquired, pending>>
yield == <<deadline, i, tmp_ready_set, calls>>
seen == <<had, kept>>
m_vars == <<m_pc, cpu, clock, net, yield, seen>>

MuenInit ==
    /\ m_pc = "time_init" /\ region \in BOOLEAN /\ published = FALSE
    /\ now = FrameTicks /\ sched_start = FrameTicks
    /\ next_start = 0 /\ current_start = 0 /\ tsc_base = 0 /\ time_base = 0 /\ reads = 0
    /\ acquired = {} /\ pending = {} /\ had = {} /\ kept = {}
    /\ deadline = 0 /\ i = 0 /\ tmp_ready_set = {} /\ calls = 0

-----------------------------------------------------------------------------
(* The time server publishes the time; time_init waits for it.  Without    *)
(* the region it returns at once, the multiplier and the step still 0.     *)
Publish ==
    /\ region /\ ~published /\ published' = TRUE
    /\ UNCHANGED <<m_pc, now, sched_start, region, clock, net, yield, seen>>

time_init ==
    /\ m_pc = "time_init" /\ (region => published) /\ m_pc' = "app"
    /\ UNCHANGED <<cpu, clock, net, yield, seen>>

tsc_mult == IF region THEN Rate ELSE 0
min_delta == IF region THEN Step ELSE 0

(* The other end writes to a channel, acquired here or not; it starts the  *)
(* channel afresh, and what was unread is gone.                            *)
Arrives(h) ==
    /\ h \notin pending /\ pending' = pending \cup {h}
    /\ had' = had \cup {g \in {h} \cap acquired : m_pc # "app"}
    /\ UNCHANGED <<m_pc, cpu, clock, acquired, yield, kept>>

Restarts(h) ==
    /\ h \in pending /\ pending' = pending \ {h} /\ kept' = kept \ {h}
    /\ UNCHANGED <<m_pc, cpu, clock, acquired, yield, had>>

(* The scheduler passes over to the next minor frame of the guest, at the  *)
(* end of this one or, if the guest gives way, when its turn comes again.  *)
NextFrame ==
    /\ sched_start < current_start + MaxAway * FrameTicks
    /\ sched_start + FrameTicks <= MaxTsc
    /\ sched_start' = sched_start + FrameTicks /\ now' = sched_start'
    /\ UNCHANGED <<m_pc, region, published, clock, net, yield, seen>>

-----------------------------------------------------------------------------
(* The application's calls.  A device is acquired once; a read takes what  *)
(* is there, or the reader is overrun and gets SOLO5_R_AGAIN.              *)
net_acquire(h) ==
    /\ m_pc = "app" /\ h \notin acquired /\ acquired' = acquired \cup {h}
    /\ UNCHANGED <<m_pc, cpu, clock, pending, yield, seen>>

net_read(h) ==
    /\ m_pc = "app" /\ h \in acquired \cap pending /\ pending' = pending \ {h}
    /\ UNCHANGED <<m_pc, cpu, clock, acquired, yield, seen>>

Call(pc, d, handles) ==
    /\ m_pc = "app" /\ calls < MaxCalls /\ calls' = calls + 1
    /\ m_pc' = pc /\ deadline' = d /\ had' = handles /\ kept' = handles
    /\ UNCHANGED <<cpu, clock, net, i, tmp_ready_set>>

(* solo5_clock_monotonic called by itself is the last round of a yield.    *)
CallClock == Call("start", 0, {})
CallYield == \E d \in Deadlines : Call("poll", d, acquired \cap pending)

muen_net_pending_data_any(h) == h \in pending
muen_net_pending_data(h) == h \in acquired /\ h \in pending

Poll ==
    /\ m_pc = "poll" /\ i \in Handles /\ i' = i + 1
    /\ tmp_ready_set' = tmp_ready_set \cup {h \in {i} : muen_net_pending_data(h)}
    /\ UNCHANGED <<m_pc, cpu, clock, net, deadline, calls, seen>>

Polled ==
    /\ m_pc = "poll" /\ i \notin Handles
    /\ m_pc' = IF tmp_ready_set # {} THEN "done" ELSE "start"
    /\ UNCHANGED <<cpu, clock, net, yield, seen>>

(* muen_get_sched_start.  The frame may end while the call runs.           *)
ReadStart ==
    /\ m_pc = "start" /\ now + CallTicks <= MaxTsc
    /\ next_start' = sched_start /\ now' = now + CallTicks
    /\ sched_start' = IF now' < sched_start + FrameTicks THEN sched_start
                                                         ELSE sched_start + FrameTicks
    /\ m_pc' = "clock"
    /\ UNCHANGED <<region, published, current_start, tsc_base, time_base, reads, net, yield, seen>>

(* (TscNowUnscaled forgets the division in min_delta; SumLost assigns      *)
(* where the code adds.)                                                   *)
TscNowUnscaled ==
    IF next_start = current_start THEN tsc_base + TickRate + NsecPerSec - 1 ELSE next_start
TscNow == IF next_start = current_start THEN tsc_base + min_delta ELSE next_start

mul64_32(delta) == (delta * tsc_mult) \div Fraction
TscDelta == (TscNow - tsc_base) % TscWord
SumLost == mul64_32(TscDelta)
TimeBase == time_base + mul64_32(TscDelta)

Monotonic ==
    /\ m_pc = "clock"
    /\ current_start' = next_start
    /\ time_base' = TimeBase
    /\ tsc_base' = TscNow
    /\ reads' = reads + 1
    /\ m_pc' = (IF TimeBase < deadline THEN "poll" ELSE "done") /\ i' = 0
    /\ UNCHANGED <<cpu, next_start, net, deadline, tmp_ready_set, calls, seen>>

Returns ==
    /\ m_pc = "done" /\ m_pc' = "app"
    /\ deadline' = 0 /\ i' = 0 /\ tmp_ready_set' = {} /\ had' = {} /\ kept' = {}
    /\ UNCHANGED <<cpu, clock, net, calls>>

InCall == time_init \/ Poll \/ Polled \/ ReadStart \/ Monotonic \/ Returns

MuenNext ==
    \/ InCall \/ CallClock \/ CallYield \/ Publish \/ NextFrame
    \/ \E h \in Handles : net_acquire(h) \/ net_read(h) \/ Arrives(h) \/ Restarts(h)

-----------------------------------------------------------------------------
(* Properties.                                                             *)

(* The variables have their types, and the clock is within the TSC.        *)
MuenTypeOK ==
    /\ m_pc \in {"time_init", "app", "poll", "start", "clock", "done"}
    /\ {now, sched_start, next_start, tsc_base, time_base} \subseteq 0 .. MaxTsc
    /\ acquired \cup pending \cup had \cup tmp_ready_set \subseteq Handles
    /\ i \in 0 .. 64 /\ kept \subseteq had

(* solo5_clock_monotonic never passes the TSC by its steps of min_delta,   *)
(* so that no delta is negative when the frame changes; it never shows     *)
(* more time than has passed, and rounding costs it at most a nanosecond   *)
(* per call on top of the error of tsc_mult.  Without a time_info region   *)
(* it stands still.                                                        *)
MuenClockAccurate ==
    /\ MuenTypeOK
    /\ tsc_base <= now /\ current_start <= tsc_base
    /\ time_base * TickRate <= tsc_base * NsecPerSec
    /\ IF region THEN tsc_base * NsecPerSec * Fraction
                        <= TickRate * ((time_base + reads) * Fraction + tsc_base)
                 ELSE time_base = 0

(* solo5_yield reports every acquired device that has had data since the   *)
(* call, none that had no data or is not acquired, and reports nothing     *)
(* only when the clock has reached the deadline.                           *)
MuenYieldSound ==
    m_pc = "done" => /\ kept \subseteq tmp_ready_set /\ tmp_ready_set \subseteq had
                     /\ tmp_ready_set = {} => time_base >= deadline

(* solo5_yield keeps the promise of solo5.h: the rounds of polling and the *)
(* clock that moves by frames look, from the application, like one wait    *)
(* that ends at the deadline or with what is ready.                        *)
Promise == INSTANCE SoloYield WITH
    Devices   <- Handles,
    phase     <- CASE m_pc \in {"time_init", "app"} -> "app" [] m_pc = "done" -> "back"
                   [] OTHER -> "call",
    clock     <- time_base,
    input     <- acquired \cap pending,
    ready_set <- IF m_pc = "done" THEN tmp_ready_set ELSE {}

MuenImplementsYield == Promise!Spec
=============================================================================
