------------------------------ MODULE TscClock ------------------------------
(***************************************************************************)
(* The clock of the hvt bindings: tscclock_init(), which turns the TSC     *)
(* frequency the tender reports into a multiplier and a shift, and         *)
(* tscclock_monotonic(), which adds the ticks since the last call, scaled  *)
(* and rounded down, to time_base.  The unit is the nanosecond;            *)
(* NsecPerSec, the widest shift and the width of the multiplier are        *)
(* constants so that an instance can scale them down.                      *)
(***************************************************************************)
EXTENDS Integers

CONSTANTS
    NsecPerSec,
    MaxShift,     \* 32 in the code
    MultLimit,    \* 2^32 in the code: tsc_mult is a uint32_t
    Freqs         \* frequencies the tender may report

ASSUME ClockAssumption ==
    /\ NsecPerSec \in Nat \ {0} /\ MaxShift \in Nat \ {0} /\ MultLimit \in Nat
    /\ Freqs \subseteq Nat \ {0}

(* Arithmetic that the provers do not know: the powers used are positive.  *)
ASSUME PowerAssumption == \A s \in 0 .. MaxShift : 2 ^ s \in Nat \ {0}

VARIABLES
    freq, tsc,                                  \* the CPU
    clk, tsc_shift, tsc_mult, tsc_base, time_base,
    reads                                       \* calls that saw the TSC move

tscVars == <<freq, tsc, clk, tsc_shift, tsc_mult, tsc_base, time_base, reads>>

TscInit ==
    /\ freq \in Freqs /\ tsc = 0
    /\ clk = "scale" /\ tsc_shift = MaxShift /\ tsc_mult = 0
    /\ tsc_base = 0 /\ time_base = 0 /\ reads = 0

Tick ==
    /\ tsc' = tsc + 1
    /\ UNCHANGED <<freq, clk, tsc_shift, tsc_mult, tsc_base, time_base, reads>>

(* One round of the do loop of tscclock_init().                            *)
Fits(tmp) == tmp < MultLimit

ScaleTruncated ==
    /\ clk = "scale"
    /\ tsc_mult' = ((NsecPerSec * (2 ^ tsc_shift)) \div freq) % MultLimit
    /\ clk' = "base"
    /\ UNCHANGED <<freq, tsc, tsc_shift, tsc_base, time_base, reads>>

Scale ==
    /\ clk = "scale"
    /\ LET tmp == (NsecPerSec * (2 ^ tsc_shift)) \div freq IN
       /\ tsc_mult' = IF Fits(tmp) THEN tmp ELSE tsc_mult
       /\ tsc_shift' = IF Fits(tmp) THEN tsc_shift ELSE tsc_shift - 1
    /\ clk' = IF tsc_shift' > 0 /\ tsc_mult' = 0 THEN "scale" ELSE "base"
    /\ UNCHANGED <<freq, tsc, tsc_base, time_base, reads>>

RoundedUp(d) == (d * tsc_mult + (2 ^ tsc_shift) - 1) \div (2 ^ tsc_shift)

mul64_32(d) == (d * tsc_mult) \div (2 ^ tsc_shift)

(* assert(tsc_mult != 0), and the base of monotonic time.                  *)
Base ==
    /\ clk = "base"
    /\ IF tsc_mult = 0
       THEN clk' = "failed" /\ UNCHANGED <<tsc_base, time_base>>
       ELSE clk' = "running" /\ tsc_base' = tsc /\ time_base' = mul64_32(tsc)
    /\ UNCHANGED <<freq, tsc, tsc_shift, tsc_mult, reads>>

tscclock_monotonic ==
    /\ clk = "running"
    /\ time_base' = time_base + mul64_32(tsc - tsc_base)
    /\ tsc_base' = tsc
    /\ reads' = IF tsc # tsc_base THEN reads + 1 ELSE reads
    /\ UNCHANGED <<freq, tsc, clk, tsc_shift, tsc_mult>>

TscNext == Tick \/ Scale \/ Base \/ tscclock_monotonic
TscSpec == TscInit /\ [][TscNext]_tscVars

-----------------------------------------------------------------------------

TscTypeOK ==
    /\ freq \in Freqs /\ tsc \in Nat /\ clk \in {"scale", "base", "running", "failed"}
    /\ tsc_shift \in 0 .. MaxShift /\ tsc_mult \in Nat
    /\ tsc_base \in Nat /\ time_base \in Nat /\ reads \in Nat

(* The clock never runs ahead of the CPU: tscclock_monotonic() has         *)
(* reported no more than the TSC it last read, converted exactly, however  *)
(* the calls divided the time.                                             *)
ClockNeverAhead ==
    clk = "running" =>
        /\ tsc_base <= tsc
        /\ time_base * freq <= tsc_base * NsecPerSec

(* What the clock loses is bounded: a nanosecond for each call that saw    *)
(* the TSC move and one at start, and 1/2^tsc_shift of a nanosecond for    *)
(* each tick, the rounding of the multiplier.                              *)
ClockLossBounded ==
    clk = "running" =>
        tsc_base * NsecPerSec * (2 ^ tsc_shift)
            <= freq * ((time_base + reads + 1) * (2 ^ tsc_shift) + tsc_base)

(* The clock is slow by a bounded amount and never fast: both of the above. *)
ClockAccurate == ClockNeverAhead /\ ClockLossBounded

(* solo5_clock_monotonic() never goes back.                                *)
ClockMonotone == [][time_base' >= time_base]_tscVars
=============================================================================
