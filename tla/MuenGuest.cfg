\* Two elements, three writes in each of two epochs.  Two devices; a TSC of
\* 3 ticks to the nanosecond, of which min_delta makes no whole nanosecond.
CONSTANTS
    Elements = 2
    Word = 16
    MaxEpoch = 2
    MaxWc = 3
    Handles = {0, 1}
    NsecPerSec = 2
    TickRate = 6
    Fraction = 64
    TscWord = 1024
    CallTicks = 4
    FrameTicks = 12
    Deadlines = {0, 5}
    MaxCalls = 2
    MaxAway = 1
    MaxTsc = 70
SPECIFICATION FairGuestSpec
INVARIANTS ReadIsExact GeometryKnown MuenClockAccurate
PROPERTIES MuenImplementsYield ReaderProgress MuenYieldReturns
