CONSTANTS Num = 4  Word = 8  RecvNum = 2  MaxPackets = 4
SPECIFICATION Spec
INVARIANT BufsAllocated
CHECK_DEADLOCK FALSE
