\* Timer and console port; a text of four rounds in a two-slot ring.
CONSTANTS
    Ports = {1, 2}
    TimerPort = 2
    MaxTime = 2
    RingSize = 2
    RingWord = 16
    Characters = {"a", "LF"}
    Texts <- MCTexts
    Fields = {"sec", "nsec"}
    MaxUpdates = 2
SPECIFICATION FairSpec
INVARIANTS NoLostUpcall NoUnhandledEvent SleepSound OutputSound ClockConsistent
PROPERTY GuestProgress
CHECK_DEADLOCK FALSE
