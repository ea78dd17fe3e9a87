\* Four descriptors, indexes that wrap at 8; ten packets; a sector that is read and written for ever.
CONSTANTS
    Num = 4  Word = 8  RecvNum = 4  MaxPackets = 10
    Capacity = 1 Contents = {0, 1}
SPECIFICATION FairIoSpec
INVARIANTS QueueSound SentInOrder BlkKept
PROPERTIES EverySent CallsComeBack
CHECK_DEADLOCK FALSE
