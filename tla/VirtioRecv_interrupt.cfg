CONSTANTS Num = 2  Word = 8  StoreBuffer = 2  MaxPackets = 3
SPECIFICATION Spec
INVARIANT InterruptComing
