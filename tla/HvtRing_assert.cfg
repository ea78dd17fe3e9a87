CONSTANTS
    HVT_RING_SIZE = 4
    Word = 8
SPECIFICATION Spec
INVARIANT RingNotFullAtRead
