\* Two buffers, indexes that wrap at 8, ten packets: every index wraps.
CONSTANTS Num = 2  Word = 8  StoreBuffer = 2  MaxPackets = 10
SPECIFICATION FairSpec
INVARIANTS DeliveredInOrder BuffersSound
PROPERTY YieldReports
