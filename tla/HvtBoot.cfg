\* Starting a unikernel: up to two devices, four options, 1MB to 13MB of memory.
CONSTANTS
    Manifests <- MCManifests
    Names = {"a", "b"}
    MaxEntries = 4
    Page = 4
    MaxMem = 24
    RingBytes = 1
    MinFree = 1
    DefaultMem = 16
    MemArgs = {2, 14, 24, 28}
    KernelEnds = {3, 4, 6, 8, 11, 14, 20, 24}
    Capacities = {0, 3, 4}
    SectorSizes = {1, 3, 8}
    MaxArgs = 4
SPECIFICATION BootSpec
INVARIANTS LayoutSound RingAgreed DevicesReady MemoryAsAsked
