\* Three slots, indices that wrap after a lap.
CONSTANTS
    HVT_RING_SIZE = 3
    Word = 3
SPECIFICATION FairSpec
PROPERTIES
    ImplementsFifo
    EntryServed
    CallsReturn
    HaltCompletes
