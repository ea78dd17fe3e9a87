CONSTANTS
    HVT_RING_SIZE = 4
    Word = 8
SPECIFICATION Spec
INVARIANTS
    SlotIntegrity
    ReplyMatchesRequest
    NoLostKick
