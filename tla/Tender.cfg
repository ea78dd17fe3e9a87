SPECIFICATION FairSpec
CONSTANTS
    Targets <- MCTargets
    Manifests <- MCManifests
    Works = {"net", "block", "load", "debug"}
    NsecPerSec = 6
    MaxShift = 3
    MultLimit = 8
    Freqs = {5, 9}
    MaxTsc = 5
    Deadlines = {0, 1, 4}
    MaxPackets = 1
    Timer = Timer
    Off = Off
    Offsets = {0, 1, 2, 3, 4, 15}
    Lens = {0, 1, 2, 4, 7, 15}
    Word = 16
    Values = {0, 1}
    Capacities = {1, 3, 4}
    BlockSizes = {1}
    DefaultBlockSize = 2
    ElfWord = 16
    PageSize = 2
    MinLoadAddr = 4
    MemSize = 12
    EntryPoints = {3, 4, 11, 12}
    MaxPhdrs = 2
    Phdrs <- MCPhdrs
    NhdrSize = 5
    NhdrMin = 3
    NoteAlign = 8
    MaxNote = 6
    NoteHdrs <- MCNoteHdrs
    Addrs = {1, 2, 3}
    MaxHwBreakpoints = 2
    Insns = {"a", "b"}
    Int3 = "int3"
INVARIANTS
    TypeOK
    ClockAccurate
    YieldKept
    BlockInBounds
    BlockPromise
    LoadSafe
    BreakpointsHit
    GuestUndisturbed
PROPERTY YieldReturns
