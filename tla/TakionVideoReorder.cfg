SPECIFICATION VideoSpec
CONSTANTS
    Modulus = 12
    AddWraps = FALSE
    QueueSize = 4
    NoUser = NoUser
    InitSeq = 9
    NPackets = 8
    FrameLen = 2
    Delay = 3
    Outage = 7
    PostponeMax = 2
INVARIANT VideoQueueInv
PROPERTY InTimeIsKept
PROPERTY VideoIsReassembly
PROPERTY NoPacketStuck
CHECK_DEADLOCK FALSE
